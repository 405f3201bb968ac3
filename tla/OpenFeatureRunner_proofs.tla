---------------------- MODULE OpenFeatureRunner_proofs ----------------------
(***************************************************************************)
(* Proofs about OpenFeatureRunner: the feature runner in front of step     *)
(* runners that answer what they like, for any number of them and any      *)
(* feature files, when the caller waits for all of them.                   *)
(***************************************************************************)
EXTENDS OpenFeatureRunner, FeatureRunner_proofs

(* What the elements of a history are does not matter to these proofs.     *)
IsSeq(s) == s \in Seq(Elements(s))

(* What a step runner says first.                                          *)
Greeting == [command |-> "HELLO", id |-> NULL]

Called == pc \notin {"list", "collect"}

Types ==
  /\ identities \in Seq(Runners)
  /\ cursor \in Seq(Runners)
  /\ tally \in Tallies
  /\ peers \subseteq Runners
  /\ isSuccessful \in BOOLEAN
  /\ IsSeq(script)
  /\ IsSeq(report)
  /\ answered = [r \in Runners |-> answered[r]]
  /\ \A r \in Runners : IsSeq(answered[r])
  /\ requests = [r \in Runners |-> requests[r]]
  /\ replies \in [Runners -> Seq(Answer \cup {Greeting})]

(* Each step runner is at most once in the list, and the cursor stays in   *)
(* it.                                                                     *)
Lists ==
  /\ IsInjective(identities)
  /\ IsInjective(cursor)
  /\ Elements(cursor) \subseteq Elements(identities)
  /\ pc \in Waiting => cursor # <<>>

(* Before run is called nothing is asked, and step runners are greeting.   *)
Gathering ==
  ~Called =>
    /\ script = <<>> /\ report = <<>> /\ isSuccessful = TRUE
    /\ \A r \in Runners :
         /\ answered[r] = <<>> /\ requests[r] = <<>>
         /\ \/ r \notin peers /\ r \notin Elements(identities) /\ replies[r] = <<>>
            \/ r \in peers /\ r \notin Elements(identities) /\ replies[r] = <<Greeting>>
            \/ r \in peers /\ r \in Elements(identities) /\ replies[r] = <<>>

(* Afterwards all are there.                                               *)
AllThere == Called => peers = Runners /\ Elements(identities) = Runners

(* The one at the cursor has been asked, or has answered.                  *)
Asked(r) == pc \in Waiting /\ r = Head(cursor)

Owes(r) ==
  /\ requests[r] = Last /\ replies[r] = <<>>
  /\ Len(answered[r]) = Len(script) - 1

Gave(r) ==
  /\ requests[r] = <<>> /\ Len(answered[r]) = Len(script)
  /\ \E reply \in Answer : /\ replies[r] = <<reply>>
                           /\ answered[r][Len(script)].reply = reply

Lines ==
  Called => \A r \in Runners :
    IF Asked(r) THEN Owes(r) \/ Gave(r)
                ELSE requests[r] = <<>> /\ replies[r] = <<>>

ScriptAt ==
  /\ InRound => script # <<>>
  /\ pc \in {"start", "started"} => Last = StartRequest(pickle)
  /\ pc \in {"run", "ran"} => Last = StepRequest(pickle, Head(steps))
  /\ pc \in {"end", "ended"} => Last = EndRequest(pickle)

(* The others have answered what the cursor has passed them with.          *)
Rounds ==
  Called => \A r \in Runners :
    /\ Len(answered[r]) <= Len(script)
    /\ \A k \in DOMAIN answered[r] : answered[r][k].request = script[k].frames
    /\ ~Asked(r) /\ pc # "aborted" =>
         Len(answered[r]) = IF InRound /\ r \in Elements(cursor)
                            THEN Len(script) - 1 ELSE Len(script)

(* What the feature runner has read it has accepted, or stopped at.        *)
AcceptedAll(r) == \A k \in DOMAIN answered[r] : Acceptable(answered[r][k])

AcceptedBut(r) ==
  \A k \in DOMAIN answered[r] : k # Len(script) => Acceptable(answered[r][k])

Accepted ==
  /\ pc # "aborted" => \A r \in Runners :
       AcceptedBut(r) /\ (~Asked(r) => AcceptedAll(r))
  /\ pc = "aborted" =>
       \E r \in Runners : /\ Refused(r) = {Len(answered[r])}
                          /\ \A s \in Runners \ {r} : Refused(s) = {}

(***************************************************************************)
(* The answers to one step, and the tally of those that were read.         *)
(***************************************************************************)
At(r, p) == answered[r][p].reply.command

GaveSome(answer) == \E r \in Before : At(r, Len(script)) = answer

Counted ==
  pc \in {"run", "ran"} =>
    /\ tally.missing <= Len(identities) - Len(cursor)
    /\ tally.missing = Len(identities) - Len(cursor) <=>
         \A r \in Before : At(r, Len(script)) = NotFound
    /\ tally.succeeded > 0 <=> GaveSome(Success)
    /\ tally.failed > 0 <=> GaveSome(Failure)

(* A verdict agrees with the answers to its step.                          *)
Agrees(v) ==
  /\ StepAskedAt(v.at)
  /\ v.verdict = Ok <=> \E r \in Runners : At(r, v.at) = Success
  /\ v.verdict = NotOk <=> /\ \E r \in Runners : At(r, v.at) = Failure
                           /\ \A r \in Runners : At(r, v.at) # Success
  /\ v.verdict = Unknown <=> \A r \in Runners : At(r, v.at) = NotFound

(* It is on a request everyone has answered, and no longer under way.      *)
Settled(v) ==
  /\ v.at \in 1..Len(script)
  /\ pc \in {"run", "ran"} => v.at # Len(script)
  /\ \A r \in Runners : v.at \in 1..Len(answered[r])

Reports == \A k \in DOMAIN report : Settled(report[k]) /\ Agrees(report[k])

Fine(v) == v.verdict # NotOk /\ \A r \in Runners : At(r, v.at) \in StepAnswers

Result ==
  pc # "aborted" =>
    (isSuccessful <=>
       /\ \A k \in DOMAIN report : Fine(report[k])
       /\ pc \in {"run", "ran"} =>
            \A r \in Before : At(r, Len(script)) \in StepAnswers)

Wire == Gathering /\ AllThere /\ Lines /\ ScriptAt
History == Rounds /\ Accepted
Verdicts == Counted /\ Reports /\ Result

RunInv == Types /\ Lists /\ Wire /\ History /\ Verdicts

-----------------------------------------------------------------------------
(***************************************************************************)
(* What the steps of the feature runner do: it prepares the run, asks      *)
(* something new, sends it, takes an answer, judges a step, or goes on.    *)
(***************************************************************************)
Gathers ==
  /\ pc \in {"list", "collect"} /\ pc' \in {"list", "collect"}
  /\ UNCHANGED <<identities, cursor, tally, isSuccessful, script, report,
                 transportVars>>

Collects(r) ==
  /\ pc = "collect" /\ pc' = "collect"
  /\ Receive(r)
  /\ identities' = Append(identities, r)
  /\ UNCHANGED <<cursor, tally, isSuccessful, script, report>>

Calls ==
  /\ pc = "collect" /\ pc' = "file"
  /\ AllAwaited
  /\ UNCHANGED <<identities, cursor, tally, isSuccessful, script, report,
                 transportVars>>

Passes ==
  /\ \/ pc \in {"start", "end"} /\ cursor = <<>>
     \/ pc \in {"file", "pickle", "errors"}
  /\ pc' \in {"file", "pickle", "errors", "done", "step"}
  /\ UNCHANGED <<identities, cursor, tally, isSuccessful, script, report,
                 transportVars>>

Asks(entry) ==
  /\ pc \in {"pickle", "step"}
  /\ script' = Append(script, entry)
  /\ \/ pc' = "start" /\ entry.frames = StartRequest(pickle')
     \/ /\ pc' = "run" /\ entry.frames = StepRequest(pickle', Head(steps'))
        /\ tally' = NoAnswer
     \/ pc' = "end" /\ entry.frames = EndRequest(pickle')
  /\ tally' \in {tally, NoAnswer}
  /\ cursor' = identities
  /\ UNCHANGED <<identities, isSuccessful, report, transportVars>>

Sends ==
  /\ cursor # <<>>
  /\ \/ pc = "start" /\ pc' = "started"
     \/ pc = "run" /\ pc' = "ran"
     \/ pc = "end" /\ pc' = "ended"
  /\ Send(Head(cursor), Last)
  /\ UNCHANGED <<pickle, steps, identities, cursor, tally, isSuccessful, script,
                 report>>

(* What the assertions on an answer compare.                               *)
Fits(reply) ==
  /\ reply.id = PickleId(pickle)
  /\ pc = "started" => reply.command = "SCENARIO STARTED"
  /\ pc = "ended" => reply.command = "SCENARIO ENDED"

Accepts(r) ==
  /\ Receive(r) /\ Fits(Head(replies[r]))
  /\ cursor' = Tail(cursor)
  /\ \/ pc = "started" /\ pc' = "start" /\ UNCHANGED <<tally, isSuccessful>>
     \/ /\ pc = "ran" /\ pc' = "run"
        /\ tally' = Count(tally, Head(replies[r]).command)
        /\ isSuccessful' = (isSuccessful /\ Head(replies[r]).command \in StepAnswers)
     \/ pc = "ended" /\ pc' = "end" /\ UNCHANGED <<tally, isSuccessful>>
  /\ UNCHANGED <<pickle, steps, identities, script, report>>

Aborts(r) ==
  /\ Receive(r) /\ ~Fits(Head(replies[r]))
  /\ pc \in Waiting /\ pc' = "aborted"
  /\ UNCHANGED <<identities, cursor, tally, isSuccessful, script, report>>

Judges ==
  /\ pc = "run" /\ pc' = "step"
  /\ cursor = <<>>
  /\ report' = Append(report, [at |-> Len(script), verdict |-> Verdict(tally)])
  /\ isSuccessful' = (isSuccessful /\ Verdict(tally) # NotOk)
  /\ UNCHANGED <<identities, cursor, tally, script, transportVars>>

LEMMA RunnerSteps ==
  ASSUME ScriptAt, RunnerThread
  PROVE  \/ Gathers \/ Calls \/ Passes \/ Sends \/ Judges
         \/ \E entry : Asks(entry)
         \/ \E r \in Runners : Collects(r) \/ Accepts(r) \/ Aborts(r)
<1>1. CASE ListFile \/ Listed
  BY <1>1 DEF ListFile, Listed, Gathers, transportVars
<1>2. CASE CallRun
  BY <1>2 DEF CallRun, Calls, transportVars
<1>3. ASSUME NEW r \in Runners, CollectIdentity(r) PROVE Collects(r)
  BY <1>3 DEF CollectIdentity, Collects
<1>4. CASE NextFile \/ PrintError \/ EndDocument \/ Return
  <2>1. /\ pc \in {"file", "pickle", "errors"}
        /\ pc' \in {"file", "pickle", "errors", "done"}
    BY <1>4 DEF NextFile, PrintError, EndDocument, Return
  <2>2. UNCHANGED <<identities, cursor, tally, isSuccessful, script, report,
                    transportVars>>
    BY <1>4 DEF NextFile, PrintError, EndDocument, Return, transportVars
  <2> QED
    BY <2>1, <2>2 DEF Passes
<1>5. CASE FirstStep \/ PickleDone
  BY <1>5 DEF FirstStep, PickleDone, Passes, transportVars
<1>6. CASE EndStep
  BY <1>6, Zenon DEF EndStep, Judges, Reported, NotOk, transportVars
<1>7. CASE NextPickle
  <2>1. Asks([pickle |-> pickle'.id, frames |-> StartRequest(pickle')])
    <3>1. /\ pc = "pickle" /\ pc' = "start" /\ pickle' = Head(pickles)
          /\ cursor' = identities /\ tally' = tally
          /\ script' = Append(script, [pickle |-> pickle'.id,
                                       frames |-> StartRequest(pickle')])
          /\ UNCHANGED <<identities, report, isSuccessful, transportVars>>
      BY <1>7, Zenon DEF NextPickle, Scripted, transportVars
    <3> QED
      BY <3>1, Zenon DEF Asks
  <2> QED
    BY <2>1
<1>8. CASE BeginStep
  <2>1. Asks([pickle |-> pickle.id, frames |-> StepRequest(pickle, Head(steps))])
    <3>1. /\ pc = "step" /\ pc' = "run" /\ pickle' = pickle /\ steps' = steps
          /\ cursor' = identities /\ tally' = NoAnswer
          /\ script' = Append(script, [pickle |-> pickle.id,
                                       frames |-> StepRequest(pickle, Head(steps))])
          /\ UNCHANGED <<identities, report, isSuccessful, transportVars>>
      BY <1>8, Zenon DEF BeginStep, Scripted, transportVars
    <3> QED
      BY <3>1, Zenon DEF Asks
  <2> QED
    BY <2>1
<1>9. CASE StepsDone
  <2>1. Asks([pickle |-> pickle.id, frames |-> EndRequest(pickle)])
    <3>1. /\ pc = "step" /\ pc' = "end" /\ pickle' = pickle
          /\ cursor' = identities /\ tally' = tally
          /\ script' = Append(script, [pickle |-> pickle.id,
                                       frames |-> EndRequest(pickle)])
          /\ UNCHANGED <<identities, report, isSuccessful, transportVars>>
      BY <1>9, Zenon DEF StepsDone, Scripted, transportVars
    <3> QED
      BY <3>1, Zenon DEF Asks
  <2> QED
    BY <2>1
<1>10. CASE SendStart \/ SendStep \/ SendEnd
  <2>1. CASE SendStart
    BY <2>1, Zenon DEF SendStart, SendTo, Sends, ScriptAt
  <2>2. CASE SendStep
    BY <2>2, Zenon DEF SendStep, SendTo, Sends, ScriptAt
  <2>3. CASE SendEnd
    BY <2>3, Zenon DEF SendEnd, SendTo, Sends, ScriptAt
  <2> QED
    BY <1>10, <2>1, <2>2, <2>3
<1>11. ASSUME NEW r \in Runners, RecvStarted(r) PROVE Accepts(r) \/ Aborts(r)
  BY <1>11, Zenon DEF RecvStarted, RecvAnswer, Accepts, Aborts, Fits, ExpectedId,
                      ZlistNext, Waiting
<1>12. ASSUME NEW r \in Runners, RecvRan(r) PROVE Accepts(r) \/ Aborts(r)
  BY <1>12, Zenon DEF RecvRan, Accepts, Aborts, Fits, ExpectedId, ZlistNext, Waiting
<1>13. ASSUME NEW r \in Runners, RecvEnded(r) PROVE Accepts(r) \/ Aborts(r)
  BY <1>13, Zenon DEF RecvEnded, RecvAnswer, Accepts, Aborts, Fits, ExpectedId,
                      ZlistNext, Waiting
<1> QED
  BY <1>1, <1>2, <1>3, <1>4, <1>5, <1>6, <1>7, <1>8, <1>9, <1>10, <1>11, <1>12,
     <1>13, Zenon DEF RunnerThread

(* The assertions on an answer are what makes it acceptable.               *)
LEMMA FitsAcceptable ==
  ASSUME ScriptAt, pc \in Waiting, NEW a, a.request = Last
  PROVE  Acceptable(a) <=> Fits(a.reply)
<1> DEFINE start == "START SCENARIO"
           run == "RUN STEP"
           end == "END SCENARIO"
<1>1. \A p, text : /\ StartRequest(p)[1] = start /\ StartRequest(p)[2] = PickleId(p)
                   /\ StepRequest(p, text)[1] = run
                   /\ StepRequest(p, text)[2] = PickleId(p)
                   /\ EndRequest(p)[1] = end /\ EndRequest(p)[2] = PickleId(p)
  BY TupleParts, Zenon DEF StartRequest, StepRequest, EndRequest
<1>2. start # run /\ start # end /\ run # end
  BY Zenon
<1>3. Acceptable(a) <=>
        /\ a.reply.id = a.request[2]
        /\ a.request[1] = start => a.reply.command = "SCENARIO STARTED"
        /\ a.request[1] = end => a.reply.command = "SCENARIO ENDED"
  BY Zenon DEF Acceptable
<1> HIDE DEF start, run, end
<1>4. \/ pc = "started" /\ pc # "ended" /\ Last = StartRequest(pickle)
      \/ pc = "ran" /\ pc # "started" /\ pc # "ended"
         /\ Last = StepRequest(pickle, Head(steps))
      \/ pc = "ended" /\ pc # "started" /\ Last = EndRequest(pickle)
  BY DEF Waiting, ScriptAt
<1> QED
  BY <1>1, <1>2, <1>3, <1>4, Zenon DEF Fits

-----------------------------------------------------------------------------
(***************************************************************************)
(* Types and lists.                                                        *)
(***************************************************************************)
LEMMA Grows ==
  ASSUME NEW s, IsSeq(s), NEW e
  PROVE  /\ Len(s) \in Nat /\ DOMAIN s = 1..Len(s)
         /\ DOMAIN Append(s, e) = 1..(Len(s) + 1)
         /\ Len(Append(s, e)) = Len(s) + 1
         /\ \A k \in 1..Len(s) : Append(s, e)[k] = s[k]
         /\ Append(s, e)[Len(s) + 1] = e
         /\ Append(s, e) # <<>>
         /\ IsSeq(Append(s, e))
<1> DEFINE S == Elements(s) \cup {e}
<1>1. s \in Seq(S)
  BY ElementOfSeq, LenProperties, SeqDef DEF IsSeq
<1>2. e \in S
  OBVIOUS
<1>3. Elements(Append(s, e)) = S
  BY <1>1, <1>2, ElementsOfAppend
<1> HIDE DEF S
<1> QED
  BY <1>1, <1>2, <1>3, Appended DEF IsSeq

LEMMA LensAreNat ==
  ASSUME Types
  PROVE  /\ Len(script) \in Nat /\ DOMAIN script = 1..Len(script)
         /\ Len(report) \in Nat /\ DOMAIN report = 1..Len(report)
         /\ Len(identities) \in Nat /\ Len(cursor) \in Nat
         /\ \A r \in Runners : /\ Len(answered[r]) \in Nat
                               /\ DOMAIN answered[r] = 1..Len(answered[r])
         /\ script # <<>> => Len(script) \in 1..Len(script)
BY LenProperties, EmptySeq DEF Types, IsSeq

LEMMA TypesNext ==
  ASSUME identities' \in Seq(Runners), cursor' \in Seq(Runners),
         tally' \in Tallies, isSuccessful' \in BOOLEAN,
         peers' \subseteq Runners, IsSeq(script'), IsSeq(report'),
         requests' = [r \in Runners |-> requests'[r]],
         replies' \in [Runners -> Seq(Answer \cup {Greeting})],
         answered' = [r \in Runners |-> answered'[r]],
         \A r \in Runners : IsSeq(answered'[r])
  PROVE  Types'
<1>1. IsSeq(script)' /\ IsSeq(report)'
  BY Zenon DEF IsSeq, Elements
<1>2. ASSUME NEW r \in Runners PROVE IsSeq(answered[r])'
  BY <1>2, Zenon DEF IsSeq, Elements
<1> QED
  BY <1>1, <1>2, Zenon DEF Types

(* The lists of step runners are the same when nothing happens to them.    *)
LEMMA SameLists ==
  ASSUME UNCHANGED <<identities, cursor>>
  PROVE  /\ Elements(identities)' = Elements(identities)
         /\ Elements(cursor)' = Elements(cursor)
         /\ Before' = Before
         /\ IsInjective(identities)' <=> IsInjective(identities)
         /\ IsInjective(cursor)' <=> IsInjective(cursor)
BY DEF Elements, Before, IsInjective

LEMMA TypesKeptByRunner ==
  ASSUME Types, Lists, ScriptAt, RunnerThread, UNCHANGED answered
  PROVE  Types'
<1>0. /\ identities \in Seq(Runners) /\ cursor \in Seq(Runners)
      /\ tally \in Tallies /\ isSuccessful \in BOOLEAN /\ peers \subseteq Runners
      /\ IsSeq(script) /\ IsSeq(report)
      /\ requests = [r \in Runners |-> requests[r]]
      /\ replies \in [Runners -> Seq(Answer \cup {Greeting})]
  BY DEF Types
<1>1. ASSUME identities' \in Seq(Runners), cursor' \in Seq(Runners),
             tally' \in Tallies, isSuccessful' \in BOOLEAN,
             peers' \subseteq Runners, IsSeq(script'), IsSeq(report'),
             requests' = [r \in Runners |-> requests'[r]],
             replies' \in [Runners -> Seq(Answer \cup {Greeting})]
      PROVE  Types'
  <2>1. /\ answered' = [r \in Runners |-> answered'[r]]
        /\ \A r \in Runners : IsSeq(answered'[r])
    BY DEF Types
  <2> QED
    BY <1>1, <2>1, TypesNext
<1>2. CASE Gathers \/ Calls \/ Passes
  BY <1>0, <1>1, <1>2 DEF Gathers, Calls, Passes, transportVars
<1>3. CASE Sends
  <2>1. /\ UNCHANGED <<identities, cursor, tally, isSuccessful, script, report,
                       replies, peers>>
        /\ \/ requests' = requests
           \/ requests' = [requests EXCEPT ![Head(cursor)] = @ \o Last]
    BY <1>3 DEF Sends, Send
  <2>2. DOMAIN requests = Runners
    BY <1>0
  <2> HIDE DEF Last
  <2>3. requests' = [r \in Runners |-> requests'[r]]
    BY <1>0, <2>1, <2>2
  <2> QED
    BY <1>0, <1>1, <2>1, <2>3
<1>4. CASE Judges
  <2>1. isSuccessful' \in BOOLEAN
    BY <1>4, Zenon DEF Judges
  <2>2. IsSeq(report')
    BY <1>0, <1>4, Grows, Zenon DEF Judges
  <2>3. UNCHANGED <<identities, cursor, tally, script, transportVars>>
    BY <1>4, Zenon DEF Judges
  <2> QED
    BY <1>0, <1>1, <2>1, <2>2, <2>3 DEF transportVars
<1>5. ASSUME NEW entry, Asks(entry) PROVE Types'
  <2>1. /\ script' = Append(script, entry) /\ cursor' = identities
        /\ tally' \in {tally, NoAnswer}
        /\ UNCHANGED <<identities, isSuccessful, report, transportVars>>
    BY <1>5, Zenon DEF Asks
  <2>2. NoAnswer \in Tallies
    BY DEF NoAnswer, Tallies
  <2>3. IsSeq(script')
    BY <1>0, <2>1, Grows, Zenon
  <2> QED
    BY <1>0, <1>1, <2>1, <2>2, <2>3 DEF transportVars
<1>6. ASSUME NEW r \in Runners, Receive(r)
      PROVE  /\ UNCHANGED <<requests, peers>>
             /\ replies' \in [Runners -> Seq(Answer \cup {Greeting})]
  <2>1. Tail(replies[r]) \in Seq(Answer \cup {Greeting})
    BY <1>0, <1>6, HeadTailProperties DEF Receive
  <2> QED
    BY <1>0, <1>6, <2>1 DEF Receive
<1>7. ASSUME NEW r \in Runners, Collects(r) PROVE Types'
  <2>1. identities' \in Seq(Runners)
    BY <1>0, <1>7, AppendProperties DEF Collects
  <2> QED
    BY <1>0, <1>1, <1>6, <1>7, <2>1 DEF Collects
<1>8. ASSUME NEW r \in Runners, Accepts(r) PROVE Types'
  <2>1. /\ Receive(r) /\ pc \in Waiting /\ cursor' = Tail(cursor)
        /\ \/ UNCHANGED <<tally, isSuccessful>>
           \/ /\ tally' = Count(tally, Head(replies[r]).command)
              /\ isSuccessful' = (isSuccessful /\ Head(replies[r]).command \in StepAnswers)
        /\ UNCHANGED <<identities, script, report>>
    BY <1>8, Zenon DEF Accepts, Waiting
  <2>2. cursor' \in Seq(Runners)
    BY <1>0, <2>1, HeadTailProperties DEF Lists
  <2>3. tally' \in Tallies
    BY <1>0, <2>1, CountAdds, Zenon
  <2>4. isSuccessful' \in BOOLEAN
    BY <1>0, <2>1, Zenon
  <2> QED
    BY <1>0, <1>1, <1>6, <2>1, <2>2, <2>3, <2>4
<1>9. ASSUME NEW r \in Runners, Aborts(r) PROVE Types'
  BY <1>0, <1>1, <1>6, <1>9 DEF Aborts
<1> QED
  BY <1>1, <1>2, <1>3, <1>4, <1>5, <1>7, <1>8, <1>9, RunnerSteps, Zenon

(* A step runner that is being gathered has greeted, and is not yet known. *)
LEMMA GathersGreeting ==
  ASSUME Types, Gathering, NEW r \in Runners, pc = "collect", replies[r] # <<>>
  PROVE  /\ r \in peers /\ r \notin Elements(identities)
         /\ replies[r] = <<Greeting>> /\ Tail(replies[r]) = <<>>
<1>1. /\ r \in peers /\ r \notin Elements(identities)
      /\ replies[r] = <<Greeting>>
  BY Zenon DEF Gathering, Called
<1>2. \A g : Tail(<<g>>) = <<>>
  OBVIOUS
<1> QED
  BY <1>1, <1>2, Zenon

LEMMA ListsKeptByRunner ==
  ASSUME Types, Lists, Gathering, ScriptAt, RunnerThread
  PROVE  Lists'
<1>0. /\ identities \in Seq(Runners) /\ cursor \in Seq(Runners)
      /\ IsInjective(identities) /\ IsInjective(cursor)
      /\ Elements(cursor) \subseteq Elements(identities)
  BY DEF Types, Lists
<1>1. ASSUME IsInjective(identities'), IsInjective(cursor'),
             Elements(cursor') \subseteq Elements(identities'),
             pc' \in Waiting => cursor' # <<>>
      PROVE  Lists'
  BY <1>1, Zenon DEF Lists, Elements, IsInjective
<1>2. CASE Gathers \/ Calls \/ Passes \/ Judges
  <2>1. pc' \notin Waiting /\ UNCHANGED <<identities, cursor>>
    <3>1. pc' \in {"list", "collect", "file", "pickle", "errors", "done", "step"}
      BY <1>2, Zenon DEF Gathers, Calls, Passes, Judges
    <3>2. UNCHANGED <<identities, cursor>>
      BY <1>2, Zenon DEF Gathers, Calls, Passes, Judges
    <3> QED
      BY <3>1, <3>2 DEF Waiting
  <2> QED
    BY <1>0, <1>1, <2>1, Zenon
<1>3. CASE Sends
  BY <1>0, <1>1, <1>3, Zenon DEF Sends
<1>4. ASSUME NEW entry, Asks(entry) PROVE Lists'
  <2>1. cursor' = identities /\ identities' = identities /\ pc' \notin Waiting
    <3>1. /\ cursor' = identities /\ identities' = identities
          /\ pc' \in {"start", "run", "end"}
      BY <1>4, Zenon DEF Asks
    <3> QED
      BY <3>1 DEF Waiting
  <2> QED
    BY <1>0, <1>1, <2>1, Zenon
<1>5. ASSUME NEW r \in Runners, Collects(r) PROVE Lists'
  <2>1. /\ pc = "collect" /\ replies[r] # <<>>
        /\ identities' = Append(identities, r) /\ cursor' = cursor
        /\ pc' = "collect"
    BY <1>5 DEF Collects, Receive
  <2>2. r \notin Elements(identities)
    BY <2>1, GathersGreeting
  <2>3. /\ Elements(identities') = Elements(identities) \cup {r}
        /\ IsInjective(identities')
    BY <1>0, <2>1, <2>2, ElementsOfAppend
  <2>4. pc' \notin Waiting
    BY <2>1 DEF Waiting
  <2> QED
    BY <1>0, <1>1, <2>1, <2>3, <2>4, Zenon
<1>6. ASSUME NEW r \in Runners, Accepts(r) PROVE Lists'
  <2>1. /\ cursor' = Tail(cursor) /\ identities' = identities
        /\ pc \in Waiting /\ pc' \in {"start", "run", "end"}
    BY <1>6, Zenon DEF Accepts, Waiting
  <2>2. cursor # <<>>
    BY <2>1 DEF Lists
  <2>3. Elements(cursor') \subseteq Elements(cursor) /\ IsInjective(cursor')
    BY <1>0, <2>1, <2>2, ElementsOfTail
  <2>4. pc' \notin Waiting
    BY <2>1 DEF Waiting
  <2> QED
    BY <1>0, <1>1, <2>1, <2>3, <2>4
<1>7. ASSUME NEW r \in Runners, Aborts(r) PROVE Lists'
  <2>1. UNCHANGED <<identities, cursor>> /\ pc' \notin Waiting
    BY <1>7 DEF Aborts, Waiting
  <2> QED
    BY <1>0, <1>1, <2>1, Zenon
<1> QED
  BY <1>2, <1>3, <1>4, <1>5, <1>6, <1>7, RunnerSteps, Zenon

-----------------------------------------------------------------------------
(***************************************************************************)
(* Before run is called, and how many are there afterwards.                *)
(***************************************************************************)
LEMMA CalledKept ==
  ASSUME ScriptAt, RunnerThread
  PROVE  \/ Calls /\ ~Called /\ Called'
         \/ ~Called /\ ~Called' /\ (Gathers \/ \E r \in Runners : Collects(r))
         \/ /\ Called /\ Called' /\ UNCHANGED <<identities, peers>>
            /\ \/ Passes \/ Sends \/ Judges
               \/ \E entry : Asks(entry)
               \/ \E r \in Runners : Accepts(r) \/ Aborts(r)
<1>1. CASE Gathers
  BY <1>1 DEF Gathers, Called
<1>2. CASE Calls
  BY <1>2 DEF Calls, Called
<1>3. CASE Passes
  <2>1. /\ pc \in {"start", "end", "file", "pickle", "errors"}
        /\ pc' \in {"file", "pickle", "errors", "done", "step"}
        /\ UNCHANGED <<identities, peers>>
    BY <1>3, Zenon DEF Passes, transportVars
  <2> QED
    BY <1>3, <2>1 DEF Called
<1>4. CASE Sends
  <2>1. /\ pc \in {"start", "run", "end"} /\ pc' \in {"started", "ran", "ended"}
        /\ UNCHANGED <<identities, peers>>
    BY <1>4, Zenon DEF Sends, Send
  <2> QED
    BY <1>4, <2>1 DEF Called
<1>5. CASE Judges
  <2>1. pc = "run" /\ pc' = "step" /\ UNCHANGED <<identities, peers>>
    BY <1>5, Zenon DEF Judges, transportVars
  <2> QED
    BY <1>5, <2>1 DEF Called
<1>6. ASSUME NEW entry, Asks(entry)
      PROVE  Called /\ Called' /\ UNCHANGED <<identities, peers>>
  <2>1. /\ pc \in {"pickle", "step"} /\ pc' \in {"start", "run", "end"}
        /\ UNCHANGED <<identities, peers>>
    BY <1>6, Zenon DEF Asks, transportVars
  <2> QED
    BY <2>1 DEF Called
<1>7. ASSUME NEW r \in Runners, Collects(r) PROVE ~Called /\ ~Called'
  BY <1>7 DEF Collects, Called
<1>8. ASSUME NEW r \in Runners, Accepts(r) \/ Aborts(r)
      PROVE  Called /\ Called' /\ UNCHANGED <<identities, peers>>
  <2>1. /\ pc \in {"started", "ran", "ended"}
        /\ pc' \in {"start", "run", "end", "aborted"}
        /\ UNCHANGED <<identities, peers>>
    BY <1>8, Zenon DEF Accepts, Aborts, Receive, Waiting
  <2> QED
    BY <2>1 DEF Called
<1> QED
  BY <1>1, <1>2, <1>3, <1>4, <1>5, <1>6, <1>7, <1>8, RunnerSteps, Zenon

LEMMA GatheringKeptByRunner ==
  ASSUME Types, Lists, Gathering, ScriptAt, RunnerThread, UNCHANGED answered
  PROVE  Gathering'
<1>1. CASE Called'
  BY <1>1, Zenon DEF Gathering
<1>2. CASE Gathers
  <2>1. UNCHANGED <<script, report, isSuccessful, identities, requests, replies, peers>>
    BY <1>2, Zenon DEF Gathers, transportVars
  <2>2. ~Called
    BY <1>2 DEF Gathers, Called
  <2> QED
    BY <2>1, <2>2, Zenon DEF Gathering, Elements
<1>3. ASSUME NEW r \in Runners, Collects(r) PROVE Gathering'
  <2>1. /\ pc = "collect" /\ replies[r] # <<>>
        /\ identities' = Append(identities, r)
        /\ replies' = [replies EXCEPT ![r] = Tail(@)]
        /\ UNCHANGED <<requests, peers, script, report, isSuccessful>>
    BY <1>3 DEF Collects, Receive
  <2>2. r \in peers /\ Tail(replies[r]) = <<>>
    BY <2>1, GathersGreeting
  <2>3. Elements(identities)' = Elements(identities) \cup {r}
    <3>1. Elements(identities') = Elements(identities) \cup {r}
      BY <2>1, ElementsOfAppend DEF Types
    <3> QED
      BY <3>1, Zenon DEF Elements
  <2>4. replies'[r] = <<>> /\ \A q \in Runners : q # r => replies'[q] = replies[q]
    BY <2>1, <2>2 DEF Types
  <2>5. ~Called
    BY <2>1 DEF Called
  <2> QED
    BY <2>1, <2>2, <2>3, <2>4, <2>5, Zenon DEF Gathering
<1> QED
  BY <1>1, <1>2, <1>3, CalledKept, Zenon

LEMMA AllThereKeptByRunner ==
  ASSUME Awaited = Runners, Types, Gathering, AllThere, ScriptAt, RunnerThread
  PROVE  AllThere'
<1>1. CASE ~Called'
  BY <1>1, Zenon DEF AllThere
<1>2. CASE Calls /\ ~Called
  <2>1. Runners \subseteq Elements(identities) /\ UNCHANGED <<identities, peers>>
    BY <1>2 DEF Calls, AllAwaited, transportVars
  <2>2. Elements(identities) = Runners
    BY <2>1, LenProperties, ElementOfSeq DEF Types, Elements
  <2>3. \A r \in Runners : r \in peers
    BY <1>2, <2>2, Zenon DEF Gathering
  <2>4. peers = Runners
    BY <2>3 DEF Types
  <2> QED
    BY <2>1, <2>2, <2>4, Zenon DEF AllThere, Elements
<1>3. CASE Called /\ UNCHANGED <<identities, peers>>
  BY <1>3, Zenon DEF AllThere, Elements
<1> QED
  BY <1>1, <1>2, <1>3, CalledKept, Zenon

-----------------------------------------------------------------------------
(***************************************************************************)
(* The last request of the script is the one being sent around, and only   *)
(* the step runner at the cursor has it, or has sent an answer.            *)
(***************************************************************************)
LEMMA ScriptAtKeptByRunner ==
  ASSUME Types, ScriptAt, RunnerThread
  PROVE  ScriptAt'
<1>0. IsSeq(script)
  BY DEF Types
<1>1. CASE ~InRound'
  <2>1. pc' \notin {"start", "started", "run", "ran", "end", "ended"}
    BY <1>1 DEF InRound, Waiting
  <2> QED
    BY <1>1, <2>1 DEF ScriptAt
<1>2. ASSUME NEW entry, Asks(entry) PROVE ScriptAt'
  <2>1. /\ script' = Append(script, entry)
        /\ \/ pc' = "start" /\ entry.frames = StartRequest(pickle')
           \/ pc' = "run" /\ entry.frames = StepRequest(pickle', Head(steps'))
           \/ pc' = "end" /\ entry.frames = EndRequest(pickle')
    BY <1>2, Zenon DEF Asks
  <2>2. script' # <<>> /\ script'[Len(script')] = entry
    BY <1>0, <2>1, Grows
  <2>3. Last' = entry.frames
    BY <2>2, Zenon DEF Last
  <2> QED
    BY <2>1, <2>2, <2>3 DEF ScriptAt
<1>3. CASE Sends \/ \E r \in Runners : Accepts(r)
  <2>1. /\ UNCHANGED <<pickle, steps, script>>
        /\ \/ pc = "start" /\ pc' = "started"
           \/ pc = "run" /\ pc' = "ran"
           \/ pc = "end" /\ pc' = "ended"
           \/ pc = "started" /\ pc' = "start"
           \/ pc = "ran" /\ pc' = "run"
           \/ pc = "ended" /\ pc' = "end"
    BY <1>3, Zenon DEF Sends, Accepts
  <2> QED
    BY <2>1 DEF ScriptAt, InRound, Waiting, Last
<1>4. CASE Gathers \/ Calls \/ Passes \/ Judges
           \/ \E r \in Runners : Collects(r) \/ Aborts(r)
  <2>1. pc' \in {"list", "collect", "file", "pickle", "errors", "done", "step", "aborted"}
    BY <1>4, Zenon DEF Gathers, Calls, Passes, Judges, Collects, Aborts
  <2> QED
    BY <1>1, <2>1 DEF InRound, Waiting
<1> QED
  BY <1>2, <1>3, <1>4, RunnerSteps, Zenon

LEMMA LastIsSeq ==
  ASSUME ScriptAt, InRound
  PROVE  Last # <<>> /\ Len(Last) \in Nat /\ <<>> \o Last = Last
<1>1. \A x, y, z : /\ <<x, y>> \in Seq({x, y}) /\ <<x, y>> # <<>>
                   /\ <<x, y, z>> \in Seq({x, y, z}) /\ <<x, y, z>> # <<>>
  OBVIOUS
<1>2. \A s, S : s \in Seq(S) => Len(s) \in Nat /\ <<>> \o s = s
  BY LenProperties, ConcatEmptySeq
<1>3. \E p, text : Last \in {StartRequest(p), StepRequest(p, text), EndRequest(p)}
  BY DEF ScriptAt, InRound, Waiting
<1>4. \A p, text : /\ StartRequest(p) # <<>> /\ \E S : StartRequest(p) \in Seq(S)
                   /\ StepRequest(p, text) # <<>>
                   /\ \E S : StepRequest(p, text) \in Seq(S)
                   /\ EndRequest(p) # <<>> /\ \E S : EndRequest(p) \in Seq(S)
  BY <1>1, Zenon DEF StartRequest, StepRequest, EndRequest
<1> QED
  BY <1>2, <1>3, <1>4, Zenon

(* Who has sent an answer has been asked for it, and has sent just that.   *)
LEMMA AnswersWhenAsked ==
  ASSUME Called, Lines, NEW r \in Runners, replies[r] # <<>>
  PROVE  /\ Asked(r) /\ requests[r] = <<>> /\ Tail(replies[r]) = <<>>
         /\ Len(answered[r]) = Len(script)
         /\ answered[r][Len(script)].reply = Head(replies[r])
<1>1. Asked(r) /\ Gave(r)
  BY DEF Lines, Owes
<1>2. PICK reply \in Answer :
        replies[r] = <<reply>> /\ answered[r][Len(script)].reply = reply
  BY <1>1 DEF Gave
<1>3. Tail(replies[r]) = <<>> /\ Head(replies[r]) = reply
  BY <1>2
<1> QED
  BY <1>1, <1>2, <1>3 DEF Gave

(* Who is asked is the one at the cursor, and there is no other.           *)
LEMMA AtCursor ==
  ASSUME Types, Lists, cursor # <<>>
  PROVE  /\ Head(cursor) \in Runners /\ Head(cursor) \in Elements(cursor)
         /\ Elements(cursor) = {Head(cursor)} \cup Elements(Tail(cursor))
         /\ Head(cursor) \notin Elements(Tail(cursor))
         /\ Len(Tail(cursor)) = Len(cursor) - 1
<1>1. cursor \in Seq(Runners) /\ IsInjective(cursor)
  BY DEF Types, Lists
<1> QED
  BY <1>1, ElementsOfTail, HeadTailProperties

LEMMA LinesKeptByRunner ==
  ASSUME Types, Lists, Gathering, AllThere, AllThere', Lines, ScriptAt, Rounds,
         RunnerThread, UNCHANGED answered
  PROVE  Lines'
<1>1. CASE ~Called'
  BY <1>1, Zenon DEF Lines
<1>2. ASSUME pc' \notin Waiting,
             \A r \in Runners : requests'[r] = <<>> /\ replies'[r] = <<>>
      PROVE  Lines'
  BY <1>2, Zenon DEF Lines, Asked
<1>3. CASE Calls /\ ~Called /\ Called'
  <2>1. pc' \notin Waiting /\ UNCHANGED <<identities, transportVars>>
    BY <1>3 DEF Calls, Waiting
  <2>2. \A r \in Runners : requests[r] = <<>> /\ replies[r] = <<>>
    <3>1. Elements(identities) = Runners
      BY <1>3, <2>1, Zenon DEF AllThere, Elements
    <3> QED
      BY <1>3, <3>1, Zenon DEF Gathering
  <2> QED
    BY <1>2, <2>1, <2>2, Zenon DEF transportVars
<1>4. ASSUME Called, pc \notin Waiting
      PROVE  \A r \in Runners : requests[r] = <<>> /\ replies[r] = <<>>
  BY <1>4, Zenon DEF Lines, Asked
<1>5. CASE Called /\ (Passes \/ Judges \/ \E entry : Asks(entry))
  <2>1. /\ pc \in {"start", "end", "run", "file", "pickle", "errors", "step"}
        /\ pc' \in {"file", "pickle", "errors", "done", "step", "start", "run", "end"}
        /\ UNCHANGED transportVars
    BY <1>5, Zenon DEF Passes, Judges, Asks
  <2>2. pc \notin Waiting /\ pc' \notin Waiting
    BY <2>1 DEF Waiting
  <2> QED
    BY <1>2, <1>4, <1>5, <2>1, <2>2, Zenon DEF transportVars
<1>6. CASE Called /\ Sends
  <2>0. PICK h : h = Head(cursor)
    OBVIOUS
  <2>1. /\ cursor # <<>> /\ pc \in {"start", "run", "end"}
        /\ pc' \in Waiting /\ Send(h, Last)
        /\ UNCHANGED <<cursor, script>>
    BY <1>6, <2>0, Zenon DEF Sends, Waiting
  <2>2. /\ h \in Runners /\ h \in Elements(cursor)
    BY <2>0, <2>1, AtCursor
  <2>3. /\ InRound /\ pc \notin Waiting /\ pc # "aborted"
    BY <2>1 DEF InRound, Waiting
  <2>4. \A r \in Runners : requests[r] = <<>> /\ replies[r] = <<>>
    BY <1>4, <1>6, <2>3
  <2>5. Len(answered[h]) = Len(script) - 1
    BY <1>6, <2>2, <2>3, Zenon DEF Rounds, Asked
  <2>6. h \in peers
    BY <1>6, <2>2 DEF AllThere
  <2>7. /\ requests' = [requests EXCEPT ![h] = @ \o Last]
        /\ replies' = replies
    BY <2>1, <2>6, Zenon DEF Send
  <2>8. requests'[h] = Last /\ \A r \in Runners : r # h => requests'[r] = <<>>
    <3>1. DOMAIN requests = Runners
      BY DEF Types
    <3>2. requests'[h] = <<>> \o Last
      BY <2>2, <2>4, <2>7, <3>1, Zenon
    <3> QED
      BY <2>2, <2>3, <2>4, <2>7, <3>1, <3>2, LastIsSeq, Zenon
  <2>9. Last' = Last /\ \A r : Asked(r)' <=> r = h
    BY <2>0, <2>1, Zenon DEF Last, Asked
  <2>10. Owes(h)'
    BY <2>1, <2>2, <2>4, <2>5, <2>7, <2>8, <2>9, Zenon DEF Owes
  <2> QED
    BY <2>4, <2>7, <2>8, <2>9, <2>10, Zenon DEF Lines
<1>7. ASSUME Called, NEW h \in Runners, Accepts(h) \/ Aborts(h)
      PROVE  Lines'
  <2>1. /\ Receive(h) /\ pc' \in {"start", "run", "end", "aborted"}
    BY <1>7, Zenon DEF Accepts, Aborts
  <2>2. pc' \notin Waiting
    BY <2>1 DEF Waiting
  <2>3. /\ replies[h] # <<>> /\ replies' = [replies EXCEPT ![h] = Tail(@)]
        /\ requests' = requests
    BY <2>1, Zenon DEF Receive
  <2>4. Asked(h) /\ requests[h] = <<>> /\ Tail(replies[h]) = <<>>
    BY <1>7, <2>3, AnswersWhenAsked
  <2>5. \A r \in Runners : r # h => requests[r] = <<>> /\ replies[r] = <<>>
    BY <1>7, <2>4, Zenon DEF Lines, Asked
  <2>6. DOMAIN replies = Runners
    BY DEF Types
  <2>7. \A r \in Runners : requests'[r] = <<>> /\ replies'[r] = <<>>
    BY <2>3, <2>4, <2>5, <2>6, Zenon
  <2> QED
    BY <1>2, <2>2, <2>7
<1> QED
  BY <1>1, <1>3, <1>5, <1>6, <1>7, CalledKept, Zenon

-----------------------------------------------------------------------------
(***************************************************************************)
(* What has been answered, and what of it was accepted.                    *)
(***************************************************************************)

(* A scripted request is behind a step runner when it has answered it.     *)
BehindBy(r) ==
  IF InRound /\ r \in Elements(cursor) THEN Len(script) - 1 ELSE Len(script)

LEMMA RoundsStill ==
  ASSUME Types, Rounds, Called, UNCHANGED <<answered, script>>,
         \A r \in Runners :
           ~Asked(r)' /\ pc' # "aborted" =>
             \/ Len(answered[r]) = BehindBy(r)'
             \/ ~Asked(r) /\ pc # "aborted" /\ BehindBy(r)' = BehindBy(r)
  PROVE  Rounds'
<1>1. ASSUME NEW r \in Runners
      PROVE  /\ Len(answered[r]) <= Len(script)
             /\ \A k \in DOMAIN answered[r] : answered[r][k].request = script[k].frames
             /\ ~Asked(r) /\ pc # "aborted" => Len(answered[r]) = BehindBy(r)
  BY Zenon DEF Rounds, BehindBy
<1>2. \A r \in Runners : ~Asked(r)' /\ pc' # "aborted" => Len(answered[r]) = BehindBy(r)'
  BY <1>1, Zenon
<1>3. \A r \in Runners :
        BehindBy(r)' = IF InRound' /\ r \in Elements(cursor)'
                       THEN Len(script') - 1 ELSE Len(script')
  BY Zenon DEF BehindBy
<1> QED
  BY <1>1, <1>2, <1>3, Zenon DEF Rounds

LEMMA RoundsKeptByRunner ==
  ASSUME Types, Lists, Gathering, AllThere, Lines, ScriptAt, Rounds,
         RunnerThread, UNCHANGED answered
  PROVE  Rounds'
<1>0. /\ Len(script) \in Nat /\ IsSeq(script)
      /\ \A r \in Runners : /\ Len(answered[r]) \in Nat
                            /\ DOMAIN answered[r] = 1..Len(answered[r])
  BY LensAreNat DEF Types
<1>1. CASE ~Called'
  BY <1>1, Zenon DEF Rounds
<1>2. CASE Calls /\ ~Called /\ Called'
  <2>1. /\ pc' = "file" /\ script' = script
    BY <1>2, Zenon DEF Calls
  <2>2. script' = <<>> /\ ~InRound'
    <3>1. script = <<>>
      BY <1>2, Zenon DEF Gathering
    <3> QED
      BY <2>1, <3>1 DEF InRound, Waiting
  <2>3. \A r \in Runners : answered'[r] = <<>>
    BY <1>2, Zenon DEF Gathering
  <2>4. Len(<<>>) = 0 /\ DOMAIN <<>> = {} /\ 0 <= 0
    OBVIOUS
  <2> QED
    BY <2>2, <2>3, <2>4, Zenon DEF Rounds
<1>3. CASE Called /\ (Passes \/ Judges)
  <2>1. /\ \/ pc \in {"start", "end", "run"} /\ cursor = <<>>
           \/ pc \in {"file", "pickle", "errors"}
        /\ pc' \in {"file", "pickle", "errors", "done", "step"}
        /\ UNCHANGED script
    BY <1>3 DEF Passes, Judges
  <2>2. ~InRound' /\ pc \notin Waiting /\ pc # "aborted"
    BY <2>1 DEF InRound, Waiting
  <2>3. Elements(cursor) = {} \/ ~InRound
    BY <2>1 DEF InRound, Waiting, Elements
  <2>4. \A r \in Runners : ~Asked(r) /\ BehindBy(r)' = BehindBy(r)
    BY <2>1, <2>2, <2>3, Zenon DEF Asked, BehindBy
  <2> QED
    BY <1>3, <2>1, <2>2, <2>4, RoundsStill, Zenon
<1>4. ASSUME Called, NEW entry, Asks(entry) PROVE Rounds'
  <2>1. /\ pc \in {"pickle", "step"} /\ pc' \in {"start", "run", "end"}
        /\ script' = Append(script, entry) /\ cursor' = identities
        /\ UNCHANGED identities
    BY <1>4, Zenon DEF Asks
  <2>2. /\ ~InRound /\ InRound' /\ pc' \notin Waiting
        /\ pc \notin Waiting /\ pc # "aborted"
    BY <2>1 DEF InRound, Waiting
  <2>3. /\ Len(script') = Len(script) + 1
        /\ \A k \in 1..Len(script) : script'[k] = script[k]
    BY <1>0, <2>1, Grows
  <2>4. ASSUME NEW r \in Runners
        PROVE  /\ Len(answered[r]) = Len(script)
               /\ \A k \in DOMAIN answered[r] :
                    answered[r][k].request = script[k].frames
    BY <1>4, <2>2, Zenon DEF Rounds, Asked
  <2>5. ASSUME NEW r \in Runners
        PROVE  /\ Len(answered[r]) <= Len(script')
               /\ Len(answered[r]) = Len(script') - 1
               /\ \A k \in DOMAIN answered[r] :
                    answered[r][k].request = script'[k].frames
    BY <1>0, <2>3, <2>4
  <2>6. Elements(cursor)' = Runners
    BY <1>4, <2>1, Zenon DEF AllThere, Elements
  <2> QED
    BY <2>2, <2>5, <2>6, Zenon DEF Rounds
<1>5. CASE Called /\ Sends
  <2>1. /\ pc \in {"start", "run", "end"} /\ pc' \in Waiting
        /\ UNCHANGED <<cursor, script>>
    BY <1>5, Zenon DEF Sends, Waiting
  <2>2. /\ InRound /\ InRound' /\ pc \notin Waiting /\ pc # "aborted"
    BY <2>1 DEF InRound, Waiting
  <2>3. \A r \in Runners : ~Asked(r) /\ BehindBy(r)' = BehindBy(r)
    BY <2>1, <2>2, Zenon DEF Asked, BehindBy, Elements
  <2> QED
    BY <1>5, <2>1, <2>2, <2>3, RoundsStill, Zenon
<1>6. ASSUME Called, NEW h \in Runners, Accepts(h) PROVE Rounds'
  <2>1. /\ pc \in Waiting /\ pc' \in {"start", "run", "end"}
        /\ replies[h] # <<>> /\ cursor' = Tail(cursor) /\ UNCHANGED script
    BY <1>6, Zenon DEF Accepts, Receive, Waiting
  <2>2. /\ InRound /\ InRound' /\ pc' \notin Waiting /\ pc # "aborted"
    BY <2>1 DEF InRound, Waiting
  <2>3. /\ Asked(h) /\ Len(answered[h]) = Len(script)
    BY <1>6, <2>1, AnswersWhenAsked
  <2>4. h = Head(cursor) /\ cursor # <<>>
    BY <2>1, <2>3 DEF Asked, Lists
  <2>5. Elements(cursor) = {h} \cup Elements(cursor)' /\ h \notin Elements(cursor)'
    <3>1. Elements(cursor)' = Elements(cursor')
      BY DEF Elements
    <3> QED
      BY <2>1, <2>4, <3>1, AtCursor, Zenon
  <2>6. BehindBy(h)' = Len(script)
    BY <2>1, <2>5, Zenon DEF BehindBy
  <2>7. ASSUME NEW r \in Runners, r # h
        PROVE  ~Asked(r) /\ BehindBy(r)' = BehindBy(r)
    <3>1. r \in Elements(cursor) <=> r \in Elements(cursor)'
      BY <2>5, <2>7
    <3> QED
      BY <2>1, <2>2, <2>4, <2>7, <3>1, Zenon DEF Asked, BehindBy
  <2> QED
    BY <1>6, <2>1, <2>2, <2>3, <2>6, <2>7, RoundsStill, Zenon
<1>7. ASSUME Called, NEW h \in Runners, Aborts(h) PROVE Rounds'
  <2>1. pc' = "aborted" /\ UNCHANGED script
    BY <1>7, Zenon DEF Aborts
  <2> QED
    BY <1>7, <2>1, RoundsStill, Zenon
<1> QED
  BY <1>1, <1>2, <1>3, <1>4, <1>5, <1>6, <1>7, CalledKept, Zenon

LEMMA AcceptedKeptByRunner ==
  ASSUME Types, Lists, Gathering, Lines, ScriptAt, Rounds, Accepted,
         RunnerThread, UNCHANGED answered
  PROVE  Accepted'
<1>0. /\ Len(script) \in Nat
      /\ \A r \in Runners : /\ Len(answered[r]) \in Nat
                            /\ DOMAIN answered[r] = 1..Len(answered[r])
  BY LensAreNat
<1>1. \A r : AcceptedAll(r)' <=> AcceptedAll(r)
  BY Zenon DEF AcceptedAll, Acceptable
<1>2. \A r : AcceptedAll(r) => AcceptedBut(r)'
  BY Zenon DEF AcceptedAll, AcceptedBut, Acceptable
<1>3. ASSUME pc \notin Waiting, pc # "aborted", pc' # "aborted"
      PROVE  Accepted'
  <2>1. \A r \in Runners : AcceptedAll(r)
    BY <1>3, Zenon DEF Accepted, Asked
  <2> QED
    BY <1>1, <1>2, <1>3, <2>1, Zenon DEF Accepted
<1>4. ASSUME NEW h \in Runners, replies[h] # <<>>, pc \in Waiting
      PROVE  /\ \A r \in Runners \ {h} : AcceptedAll(r)
             /\ AcceptedBut(h) /\ Len(answered[h]) = Len(script)
             /\ Len(script) \in DOMAIN answered[h]
             /\ Acceptable(answered[h][Len(script)]) <=> Fits(Head(replies[h]))
  <2>1. Called /\ InRound /\ pc # "aborted"
    BY <1>4 DEF Called, InRound, Waiting
  <2>2. /\ Asked(h) /\ Len(answered[h]) = Len(script)
        /\ answered[h][Len(script)].reply = Head(replies[h])
    BY <1>4, <2>1, AnswersWhenAsked
  <2>3. \A r \in Runners \ {h} : ~Asked(r)
    BY <2>2, Zenon DEF Asked
  <2>4. Len(script) \in 1..Len(script)
    BY <2>1, LensAreNat DEF ScriptAt
  <2>5. Len(script) \in DOMAIN answered[h]
    BY <1>0, <2>2, <2>4
  <2>6. answered[h][Len(script)].request = Last
    BY <2>1, <2>5, Zenon DEF Rounds, Last
  <2>7. Acceptable(answered[h][Len(script)]) <=> Fits(Head(replies[h]))
    BY <1>4, <2>2, <2>6, FitsAcceptable, Zenon
  <2> QED
    BY <2>1, <2>2, <2>3, <2>5, <2>7, Zenon DEF Accepted
<1>5. CASE Gathers \/ Calls \/ Passes \/ Sends \/ Judges
           \/ (\E entry : Asks(entry)) \/ \E r \in Runners : Collects(r)
  <2>1. /\ pc \in {"list", "collect", "start", "end", "run", "file", "pickle", "errors",
                   "step"}
        /\ pc' \in {"list", "collect", "file", "pickle", "errors", "done", "step",
                    "start", "run", "end", "started", "ran", "ended"}
    BY <1>5, Zenon DEF Gathers, Calls, Passes, Sends, Judges, Asks, Collects
  <2>2. pc \notin Waiting /\ pc # "aborted" /\ pc' # "aborted"
    BY <2>1 DEF Waiting
  <2> QED
    BY <1>3, <2>2
<1>6. ASSUME NEW h \in Runners, Accepts(h) PROVE Accepted'
  <2>1. /\ Fits(Head(replies[h])) /\ replies[h] # <<>> /\ pc \in Waiting
        /\ pc' \in {"start", "run", "end"}
    BY <1>6, Zenon DEF Accepts, Receive, Waiting
  <2>2. pc' # "aborted"
    BY <2>1
  <2>3. AcceptedAll(h)
    BY <1>4, <2>1, Zenon DEF AcceptedBut, AcceptedAll
  <2>4. \A r \in Runners : AcceptedAll(r)
    BY <1>4, <2>1, <2>3, Zenon
  <2> QED
    BY <1>1, <1>2, <2>2, <2>4, Zenon DEF Accepted
<1>7. ASSUME NEW h \in Runners, Aborts(h) PROVE Accepted'
  <2>1. /\ ~Fits(Head(replies[h])) /\ replies[h] # <<>> /\ pc \in Waiting
        /\ pc' = "aborted"
    BY <1>7, Zenon DEF Aborts, Receive
  <2>2. Refused(h) = {Len(answered[h])}
    BY <1>4, <2>1 DEF AcceptedBut, Refused
  <2>3. \A r \in Runners \ {h} : Refused(r) = {}
    BY <1>4, <2>1 DEF AcceptedAll, Refused
  <2>4. \A r : Refused(r)' = Refused(r)
    BY DEF Refused, Acceptable
  <2> QED
    BY <2>1, <2>2, <2>3, <2>4, Zenon DEF Accepted
<1> QED
  BY <1>5, <1>6, <1>7, RunnerSteps, Zenon

-----------------------------------------------------------------------------
(***************************************************************************)
(* The step runners: they join before run is called, and answer when they  *)
(* have been asked.                                                        *)
(***************************************************************************)
LEMMA JoinKeeps ==
  ASSUME Types, Lists, Wire, History, NEW r \in Runners, Join(r)
  PROVE  /\ Types' /\ Lists' /\ Wire' /\ History' /\ ~Called
         /\ UNCHANGED <<runnerVars, answered>>
<1>0. /\ r \notin peers /\ UNCHANGED <<runnerVars, answered, requests>>
      /\ peers' = peers \cup {r}
      /\ replies' = [replies EXCEPT ![r] = Append(@, Greeting)]
      /\ Gathering /\ AllThere /\ Lines /\ ScriptAt
  BY Zenon DEF Join, ConnectAndGreet, Greeting, Wire
<1>1. ~Called
  BY <1>0 DEF AllThere
<1>2. /\ r \notin Elements(identities) /\ replies[r] = <<>>
  BY <1>0, <1>1, Zenon DEF Gathering
<1>3. replies \in [Runners -> Seq(Answer \cup {Greeting})]
  BY DEF Types
<1>4. Append(<<>>, Greeting) = <<Greeting>> /\ <<Greeting>> \in Seq(Answer \cup {Greeting})
  OBVIOUS
<1>5. /\ replies'[r] = <<Greeting>>
      /\ \A q \in Runners : q # r => replies'[q] = replies[q]
      /\ replies' \in [Runners -> Seq(Answer \cup {Greeting})]
  BY <1>0, <1>2, <1>3, <1>4
<1>6. UNCHANGED <<pc, pickle, steps, identities, cursor, tally, isSuccessful,
                  report, script>>
  BY <1>0 DEF runnerVars
<1>7. Types'
  <2>1. peers' \subseteq Runners
    BY <1>0 DEF Types
  <2>2. /\ identities' \in Seq(Runners) /\ cursor' \in Seq(Runners)
        /\ tally' \in Tallies /\ isSuccessful' \in BOOLEAN
        /\ IsSeq(script') /\ IsSeq(report')
        /\ requests' = [q \in Runners |-> requests'[q]]
        /\ answered' = [q \in Runners |-> answered'[q]]
        /\ \A q \in Runners : IsSeq(answered'[q])
    BY <1>0, <1>6 DEF Types
  <2> QED
    BY <1>5, <2>1, <2>2, TypesNext
<1>8. Lists'
  BY <1>6, SameLists, Zenon DEF Lists
<1>9. Gathering'
  <2>1. \A q \in Runners : q # r => (q \in peers' <=> q \in peers)
    BY <1>0
  <2>2. r \in peers'
    BY <1>0
  <2> QED
    BY <1>0, <1>1, <1>2, <1>5, <1>6, <2>1, <2>2, SameLists, Zenon DEF Gathering, Called
<1>10. AllThere' /\ Lines'
  BY <1>1, <1>6, Zenon DEF AllThere, Lines, Called
<1>11. ScriptAt'
  BY <1>0, <1>6, Zenon DEF ScriptAt, InRound, Last
<1>12. History'
  <2>1. Rounds'
    BY <1>1, <1>6, Zenon DEF Rounds, Called
  <2>2. \A q : /\ AcceptedAll(q)' <=> AcceptedAll(q)
               /\ AcceptedBut(q)' <=> AcceptedBut(q)
               /\ Asked(q)' <=> Asked(q)
               /\ Refused(q)' = Refused(q)
    BY <1>0, <1>6 DEF AcceptedAll, AcceptedBut, Acceptable, Asked, Refused
  <2>3. Accepted'
    BY <1>0, <1>6, <2>2, Zenon DEF Accepted, History
  <2> QED
    BY <2>1, <2>3 DEF History
<1> QED
  BY <1>0, <1>1, <1>7, <1>8, <1>9, <1>10, <1>11, <1>12 DEF Wire

(* Who answers is the step runner at the cursor, and it answers the last   *)
(* request of the script.                                                  *)
LEMMA AnswersLast ==
  ASSUME Types, Lists, Wire, History, NEW r \in Runners, AnswerRequest(r)
  PROVE  /\ Called /\ pc \in Waiting /\ r = Head(cursor) /\ cursor # <<>>
         /\ r \in Elements(cursor)
         /\ Len(answered[r]) = Len(script) - 1
         /\ requests'[r] = <<>>
         /\ \A q \in Runners : q # r => /\ requests'[q] = requests[q]
                                       /\ replies'[q] = replies[q]
                                       /\ answered'[q] = answered[q]
         /\ peers' = peers /\ UNCHANGED runnerVars
         /\ answered' = [q \in Runners |-> answered'[q]]
         /\ requests' = [q \in Runners |-> requests'[q]]
         /\ \E reply \in Answer :
              /\ replies'[r] = <<reply>>
              /\ answered'[r] = Append(answered[r], [request |-> Last, reply |-> reply])
<1>0. Gathering /\ Lines /\ ScriptAt
  BY DEF Wire
<1>1. PICK reply \in Answer :
        /\ requests[r] # <<>>
        /\ requests' = [requests EXCEPT ![r] = SubSeq(@, Len(requests[r]) + 1, Len(@))]
        /\ replies' = [replies EXCEPT ![r] = Append(@, reply)]
        /\ answered' = [answered EXCEPT ![r] = Append(@,
                          [request |-> requests[r], reply |-> reply])]
        /\ peers' = peers /\ UNCHANGED runnerVars
  BY DEF AnswerRequest, ReadAndAnswer
<1>2. Called
  BY <1>0, <1>1 DEF Gathering
<1>3. Asked(r) /\ Owes(r)
  BY <1>0, <1>1, <1>2, Zenon DEF Lines, Gave
<1>4. /\ pc \in Waiting /\ r = Head(cursor) /\ cursor # <<>>
  BY <1>3 DEF Asked, Lists
<1>5. r \in Elements(cursor)
  BY <1>4, AtCursor
<1>6. /\ requests[r] = Last /\ replies[r] = <<>>
      /\ Len(answered[r]) = Len(script) - 1
  BY <1>3 DEF Owes
<1>7. requests'[r] = <<>>
  <2>1. Len(Last) \in Nat
    BY <1>0, <1>4, LastIsSeq DEF InRound
  <2>2. SubSeq(Last, Len(Last) + 1, Len(Last)) = <<>>
    BY <2>1, SubSeqEmpty
  <2>3. DOMAIN requests = Runners
    BY DEF Types
  <2> QED
    BY <1>1, <1>6, <2>2, <2>3, Zenon
<1>8. /\ DOMAIN requests = Runners /\ DOMAIN replies = Runners
      /\ DOMAIN answered = Runners
  BY DEF Types
<1>9. /\ \A q \in Runners : q # r => /\ requests'[q] = requests[q]
                                    /\ replies'[q] = replies[q]
                                    /\ answered'[q] = answered[q]
      /\ answered'[r] = Append(answered[r], [request |-> Last, reply |-> reply])
      /\ replies'[r] = Append(<<>>, reply)
  BY <1>1, <1>6, <1>8, Zenon
<1>10. /\ answered' = [q \in Runners |-> answered'[q]]
       /\ requests' = [q \in Runners |-> requests'[q]]
  BY <1>1, <1>8
<1>11. Append(<<>>, reply) = <<reply>>
  OBVIOUS
<1> QED
  BY <1>1, <1>2, <1>4, <1>5, <1>6, <1>7, <1>9, <1>10, <1>11, Zenon

LEMMA AnswerKeeps ==
  ASSUME Types, Lists, Wire, History, NEW r \in Runners, AnswerRequest(r)
  PROVE  Types' /\ Lists' /\ Wire' /\ History'
<1>0. /\ Called /\ pc \in Waiting /\ r = Head(cursor) /\ cursor # <<>>
      /\ Len(answered[r]) = Len(script) - 1
      /\ requests'[r] = <<>>
      /\ \A q \in Runners : q # r => /\ requests'[q] = requests[q]
                                    /\ replies'[q] = replies[q]
                                    /\ answered'[q] = answered[q]
      /\ peers' = peers
      /\ answered' = [q \in Runners |-> answered'[q]]
      /\ requests' = [q \in Runners |-> requests'[q]]
  BY AnswersLast
<1>1. PICK reply \in Answer :
        /\ replies'[r] = <<reply>>
        /\ answered'[r] = Append(answered[r], [request |-> Last, reply |-> reply])
  BY AnswersLast, Zenon
<1>2. UNCHANGED <<pc, pickle, steps, identities, cursor, tally, isSuccessful,
                  report, script>>
  BY AnswersLast DEF runnerVars
<1>3. PICK a : a = [request |-> Last, reply |-> reply]
  OBVIOUS
<1>4. a.request = Last /\ a.reply = reply
  BY <1>3
<1>5. /\ Len(script) \in Nat /\ Len(answered[r]) \in Nat
      /\ \A q \in Runners : IsSeq(answered[q]) /\ DOMAIN answered[q] = 1..Len(answered[q])
  BY LensAreNat DEF Types
<1>6. /\ Len(answered'[r]) = Len(script) /\ answered'[r][Len(script)] = a
      /\ DOMAIN answered'[r] = 1..Len(script)
      /\ \A k \in 1..Len(answered[r]) : answered'[r][k] = answered[r][k]
      /\ IsSeq(answered'[r])
  <2>1. answered'[r] = Append(answered[r], a)
    BY <1>1, <1>3, Zenon
  <2> QED
    BY <1>0, <1>5, <2>1, Grows
<1>7. /\ Gathering /\ AllThere /\ Lines /\ ScriptAt /\ Rounds /\ Accepted
  BY Zenon DEF Wire, History
<1>8. /\ Called' /\ (InRound' <=> InRound) /\ pc # "aborted"
      /\ \A q : Asked(q)' <=> q = r
      /\ Last' = Last
  <2>1. pc # "aborted"
    BY <1>0 DEF Waiting
  <2> QED
    BY <1>0, <1>2, <2>1, Zenon DEF Called, InRound, Asked, Last
<1>9. Types'
  <2>1. replies' \in [Runners -> Seq(Answer \cup {Greeting})]
    <3>2. replies' = [q \in Runners |-> replies'[q]]
      <4>1. \E x : replies' = [replies EXCEPT ![r] = Append(@, x)]
        BY DEF AnswerRequest, ReadAndAnswer
      <4> QED
        BY <4>1 DEF Types
    <3>3. <<reply>> \in Seq(Answer \cup {Greeting})
      OBVIOUS
    <3> QED
      BY <1>0, <1>1, <3>2, <3>3 DEF Types
  <2>2. \A q \in Runners : IsSeq(answered'[q])
    BY <1>0, <1>5, <1>6, Zenon
  <2>3. /\ identities' \in Seq(Runners) /\ cursor' \in Seq(Runners)
        /\ tally' \in Tallies /\ isSuccessful' \in BOOLEAN
        /\ peers' \subseteq Runners
        /\ IsSeq(script') /\ IsSeq(report')
    BY <1>0, <1>2 DEF Types
  <2> QED
    BY <1>0, <2>1, <2>2, <2>3, TypesNext
<1>10. Lists'
  BY <1>2, SameLists, Zenon DEF Lists
<1>11. Gathering' /\ AllThere'
  <2>1. Elements(identities)' = Runners /\ peers' = Runners
    BY <1>0, <1>2, <1>7, SameLists, Zenon DEF AllThere
  <2> QED
    BY <1>8, <2>1, Zenon DEF Gathering, AllThere
<1>12. Lines'
  <2>1. Gave(r)'
    BY <1>0, <1>1, <1>2, <1>4, <1>6, Zenon DEF Gave
  <2>2. \A q \in Runners : q # r => requests[q] = <<>> /\ replies[q] = <<>>
    BY <1>0, <1>7, Zenon DEF Lines, Asked
  <2> QED
    BY <1>0, <1>8, <2>1, <2>2, Zenon DEF Lines
<1>13. ScriptAt'
  BY <1>2, <1>7, <1>8, Zenon DEF ScriptAt
<1>14. Rounds'
  <2>1. ASSUME NEW q \in Runners
        PROVE  /\ Len(answered'[q]) <= Len(script)
               /\ \A k \in DOMAIN answered'[q] :
                    answered'[q][k].request = script[k].frames
               /\ q # r => Len(answered'[q]) = BehindBy(q)
    <3>1. /\ Len(answered[q]) <= Len(script)
          /\ \A k \in DOMAIN answered[q] : answered[q][k].request = script[k].frames
          /\ q # r => Len(answered[q]) = BehindBy(q)
      BY <1>0, <1>7, <1>8, Zenon DEF Rounds, Asked, BehindBy
    <3>2. CASE q # r
      BY <1>0, <3>1, <3>2, Zenon
    <3>3. CASE q = r
      <4>1. \A k \in DOMAIN answered'[r] : k \in DOMAIN answered[r] \/ k = Len(script)
        BY <1>0, <1>5, <1>6
      <4>2. Len(answered'[r]) <= Len(script)
        BY <1>5, <1>6
      <4>3. \A k \in DOMAIN answered[r] : answered'[r][k] = answered[r][k]
        BY <1>5, <1>6
      <4> QED
        BY <1>4, <1>6, <3>1, <3>3, <4>1, <4>2, <4>3, Zenon DEF Last
    <3> QED
      BY <3>2, <3>3
  <2>2. \A q : BehindBy(q)' = BehindBy(q)
    BY <1>2, <1>8, Zenon DEF BehindBy, Elements
  <2>3. \A q \in Runners : ~Asked(q)' => Len(answered'[q]) = BehindBy(q)'
    BY <1>8, <2>1, <2>2, Zenon
  <2> QED
    BY <1>2, <2>1, <2>3, Zenon DEF Rounds, BehindBy
<1>15. Accepted'
  <2>1. \A q \in Runners : AcceptedBut(q) /\ (q # r => AcceptedAll(q))
    BY <1>0, <1>7, <1>8, Zenon DEF Accepted, Asked
  <2>2. ASSUME NEW q \in Runners, q # r PROVE AcceptedBut(q)' /\ AcceptedAll(q)'
    <3>1. answered'[q] = answered[q] /\ script' = script
      BY <1>0, <1>2, <2>2
    <3> QED
      BY <2>1, <2>2, <3>1 DEF AcceptedBut, AcceptedAll
  <2>3. AcceptedBut(r)'
    <3>1. ASSUME NEW k \in DOMAIN answered'[r], k # Len(script)
          PROVE  Acceptable(answered'[r][k])
      <4>1. k \in 1..Len(answered[r]) /\ k \in DOMAIN answered[r]
        BY <1>0, <1>5, <1>6, <3>1
      <4> QED
        BY <1>6, <2>1, <3>1, <4>1, Zenon DEF AcceptedBut
    <3> QED
      BY <1>2, <3>1, Zenon DEF AcceptedBut, Acceptable
  <2> QED
    BY <1>2, <1>8, <2>2, <2>3, Zenon DEF Accepted
<1> QED
  BY <1>9, <1>10, <1>11, <1>12, <1>13, <1>14, <1>15 DEF Wire, History

-----------------------------------------------------------------------------
(***************************************************************************)
(* The verdicts: what was said of a step stays true.                       *)
(***************************************************************************)
Grown ==
  /\ Len(script') \in Nat /\ Len(script) <= Len(script')
  /\ \A p \in 1..Len(script) : script'[p] = script[p]
  /\ \A r \in Runners :
       /\ Len(answered'[r]) \in Nat /\ Len(answered[r]) <= Len(answered'[r])
       /\ \A k \in 1..Len(answered[r]) : answered'[r][k] = answered[r][k]

LEMMA VerdictStill ==
  ASSUME Grown, NEW v, Settled(v), Agrees(v)
  PROVE  Agrees(v)' /\ (Fine(v)' <=> Fine(v))
<1>1. \A r \in Runners : At(r, v.at)' = At(r, v.at)
  BY DEF Grown, Settled, At
<1>2. StepAskedAt(v.at)' <=> StepAskedAt(v.at)
  <2>1. script'[v.at] = script[v.at]
    BY DEF Grown, Settled
  <2> QED
    BY <2>1, Zenon DEF StepAskedAt
<1> QED
  BY <1>1, <1>2, Zenon DEF Agrees, Fine

LEMMA ReportsStill ==
  ASSUME Types, Grown, Reports, report' = report,
         pc' \in {"run", "ran"} =>
           \/ pc \in {"run", "ran"} /\ script' = script
           \/ Len(script) < Len(script')
  PROVE  Reports' /\ \A k \in DOMAIN report : Fine(report[k])' <=> Fine(report[k])
<1>1. ASSUME NEW k \in DOMAIN report
      PROVE  /\ Settled(report[k])' /\ Agrees(report[k])'
             /\ Fine(report[k])' <=> Fine(report[k])
  <2>1. PICK v : v = report[k]
    OBVIOUS
  <2>2. Settled(v) /\ Agrees(v)
    BY <2>1, Zenon DEF Reports
  <2>3. Agrees(v)' /\ (Fine(v)' <=> Fine(v))
    BY <2>2, VerdictStill
  <2>4. Settled(v)'
    BY <2>2, LensAreNat DEF Settled, Grown
  <2>5. report[k]' = v
    BY <2>1
  <2> QED
    BY <2>1, <2>3, <2>4, <2>5, Zenon DEF Settled, Agrees, Fine, At, StepAskedAt
<1> QED
  BY <1>1, Zenon DEF Reports

(* Nothing that verdicts are about has changed.                            *)
LEMMA VerdictsStill ==
  ASSUME Types, Verdicts,
         UNCHANGED <<identities, cursor, tally, isSuccessful, report, script>>,
         answered' = answered,
         \/ pc' \in {"run", "ran"} /\ pc \in {"run", "ran"}
         \/ pc' \notin {"run", "ran"} /\ pc \notin {"run", "ran", "aborted"}
         \/ pc' = "aborted"
  PROVE  Verdicts'
<1>1. Grown
  BY LensAreNat DEF Grown
<1>2. Reports' /\ \A k \in DOMAIN report : Fine(report[k])' <=> Fine(report[k])
  BY <1>1, ReportsStill DEF Verdicts
<1>3. \A r, p : At(r, p)' = At(r, p)
  BY DEF At
<1>4. Counted'
  <2>1. CASE pc' \in {"run", "ran"} /\ pc \in {"run", "ran"}
    BY <1>3, <2>1, SameLists, Zenon DEF Verdicts, Counted, GaveSome
  <2>2. CASE pc' \notin {"run", "ran"}
    BY <2>2, Zenon DEF Counted
  <2> QED
    BY <2>1, <2>2
<1>5. Result'
  <2>1. CASE pc' \in {"run", "ran"} /\ pc \in {"run", "ran"}
    <3>1. pc # "aborted"
      BY <2>1
    <3> QED
      BY <1>2, <1>3, <2>1, <3>1, SameLists, Zenon DEF Verdicts, Result
  <2>2. CASE pc' \notin {"run", "ran"} /\ pc \notin {"run", "ran", "aborted"}
    <3>1. pc # "aborted" /\ pc \notin {"run", "ran"}
      BY <2>2
    <3> QED
      BY <1>2, <2>2, <3>1, Zenon DEF Verdicts, Result
  <2>3. CASE pc' = "aborted"
    BY <2>3, Zenon DEF Result
  <2> QED
    BY <2>1, <2>2, <2>3
<1> QED
  BY <1>2, <1>4, <1>5 DEF Verdicts

(* Before run is called there are none.                                    *)
LEMMA NoVerdictsYet ==
  ASSUME Gathering, ~Called, UNCHANGED <<isSuccessful, script, report>>,
         pc' \notin {"run", "ran"}
  PROVE  Verdicts'
<1>1. report' = <<>> /\ isSuccessful' = TRUE
  BY Zenon DEF Gathering
<1>2. DOMAIN report' = {}
  BY <1>1
<1> QED
  BY <1>1, <1>2, Zenon DEF Verdicts, Counted, Reports, Result

LEMMA VerdictsOfAsking ==
  ASSUME Types, Verdicts, NEW entry, Asks(entry), UNCHANGED answered
  PROVE  Verdicts'
<1>0. IsSeq(script) /\ Len(script) \in Nat
      /\ \A r \in Runners : Len(answered[r]) \in Nat
  BY LensAreNat DEF Types
<1>1. /\ pc \in {"pickle", "step"} /\ pc' \in {"start", "run", "end"}
      /\ script' = Append(script, entry) /\ cursor' = identities
      /\ pc' = "run" => tally' = NoAnswer
      /\ UNCHANGED <<identities, isSuccessful, report>>
  BY DEF Asks
<1>2. /\ Len(script') = Len(script) + 1
      /\ \A k \in 1..Len(script) : script'[k] = script[k]
  BY <1>0, <1>1, Grows
<1>3. Grown /\ Len(script) < Len(script')
  BY <1>0, <1>2 DEF Grown
<1>4. Reports' /\ \A k \in DOMAIN report : Fine(report[k])' <=> Fine(report[k])
  BY <1>1, <1>3, ReportsStill DEF Verdicts
<1>5. Before' = {}
  BY <1>1 DEF Before, Elements
<1>6. Counted'
  <2>1. pc' \in {"run", "ran"} => pc' = "run"
    BY <1>1
  <2>2. /\ ~(NoAnswer.succeeded > 0) /\ ~(NoAnswer.failed > 0)
        /\ NoAnswer.missing = 0
    BY DEF NoAnswer
  <2>3. Len(identities') - Len(cursor') = 0 /\ 0 <= 0
    BY <1>1, LensAreNat
  <2> QED
    BY <1>1, <1>5, <2>1, <2>2, <2>3, Zenon DEF Counted, GaveSome
<1>7. Result'
  <2>1. pc # "aborted" /\ pc \notin {"run", "ran"}
    BY <1>1
  <2> QED
    BY <1>1, <1>4, <1>5, <2>1, Zenon DEF Verdicts, Result
<1> QED
  BY <1>4, <1>6, <1>7 DEF Verdicts

LEMMA VerdictsOfAccepting ==
  ASSUME Types, Lists, Lines, Verdicts, NEW h \in Runners, Accepts(h), pc = "ran",
         Elements(identities) = Runners, UNCHANGED answered
  PROVE  Verdicts'
<1>1. PICK command : command = Head(replies[h]).command
  OBVIOUS
<1>2. /\ pc' = "run" /\ replies[h] # <<>> /\ cursor' = Tail(cursor)
      /\ tally' = Count(tally, command)
      /\ isSuccessful' = (isSuccessful /\ command \in StepAnswers)
      /\ UNCHANGED <<identities, script, report>>
  <2>1. "ran" # "started" /\ "ran" # "ended"
    OBVIOUS
  <2> QED
    BY <1>1, <2>1, Zenon DEF Accepts, Receive
<1>3. Called /\ pc \in Waiting
  BY DEF Called, Waiting
<1>4. /\ Asked(h) /\ answered[h][Len(script)].reply = Head(replies[h])
  BY <1>2, <1>3, AnswersWhenAsked
<1>5. At(h, Len(script)) = command
  BY <1>1, <1>4, Zenon DEF At
<1>6. h = Head(cursor) /\ cursor # <<>>
  BY <1>3, <1>4 DEF Asked, Lists
<1>7. Before' = {h} \cup Before /\ Len(cursor') = Len(cursor) - 1
  <2>1. /\ h \in Elements(cursor)
        /\ Elements(cursor) = {h} \cup Elements(Tail(cursor))
        /\ h \notin Elements(Tail(cursor))
        /\ Len(Tail(cursor)) = Len(cursor) - 1
    BY <1>6, AtCursor
  <2>2. Before' = Elements(identities) \ Elements(Tail(cursor))
    BY <1>2 DEF Before, Elements
  <2> QED
    BY <1>2, <2>1, <2>2 DEF Before
<1>8. Grown
  BY <1>2, LensAreNat DEF Grown
<1>9. Reports' /\ \A k \in DOMAIN report : Fine(report[k])' <=> Fine(report[k])
  BY <1>2, <1>8, ReportsStill DEF Verdicts
<1>10. \A r, p : At(r, p)' = At(r, p)
  BY DEF At
<1>11. \A answer : GaveSome(answer)' <=> (GaveSome(answer) \/ command = answer)
  BY <1>2, <1>5, <1>7, <1>10, Zenon DEF GaveSome
<1>12. /\ tally.missing <= Len(identities) - Len(cursor)
       /\ tally.missing = Len(identities) - Len(cursor) <=>
            \A r \in Before : At(r, Len(script)) = NotFound
       /\ tally.succeeded > 0 <=> GaveSome(Success)
       /\ tally.failed > 0 <=> GaveSome(Failure)
  BY DEF Verdicts, Counted
<1>13. Counted'
  <2>0. tally \in Tallies
    BY DEF Types
  <2>1. /\ tally'.succeeded > 0 <=> GaveSome(Success)'
        /\ tally'.failed > 0 <=> GaveSome(Failure)'
    BY <1>2, <1>11, <1>12, <2>0, CountAdds, Zenon
  <2>2. tally'.missing = IF command = NotFound THEN tally.missing + 1 ELSE tally.missing
    BY <1>2, <2>0, CountAdds, Zenon
  <2>3. (\A r \in Before' : At(r, Len(script))' = NotFound) <=>
          command = NotFound /\ \A r \in Before : At(r, Len(script)) = NotFound
    BY <1>2, <1>5, <1>7, <1>10, Zenon
  <2>4. tally.missing \in Nat /\ Len(identities) \in Nat /\ Len(cursor) \in Nat
    BY <2>0, LensAreNat DEF Tallies
  <2>5. PICK m \in Nat, n \in Int :
          m = tally.missing /\ n = Len(identities) - Len(cursor)
    <3>1. Len(identities) - Len(cursor) \in Int
      BY <2>4
    <3> QED
      BY <2>4, <3>1, Zenon
  <2>6. Len(identities') - Len(cursor') = n + 1
    <3>1. Len(identities') = Len(identities) /\ Len(cursor') = Len(cursor) - 1
      BY <1>2, <1>7
    <3> QED
      BY <2>4, <2>5, <3>1
  <2>7. m <= n /\ tally'.missing = IF command = NotFound THEN m + 1 ELSE m
    BY <1>12, <2>2, <2>5
  <2>8. /\ tally'.missing <= n + 1
        /\ tally'.missing = n + 1 <=> command = NotFound /\ m = n
    BY <2>5, <2>7
  <2>9. /\ tally'.missing <= Len(identities') - Len(cursor')
        /\ tally'.missing = Len(identities') - Len(cursor') <=>
             \A r \in Before' : At(r, Len(script))' = NotFound
    BY <1>12, <2>3, <2>5, <2>6, <2>8, Zenon
  <2> QED
    BY <1>2, <2>1, <2>9, Zenon DEF Counted
<1>14. Result'
  <2>1. (\A r \in Before' : At(r, Len(script))' \in StepAnswers) <=>
          /\ command \in StepAnswers
          /\ \A r \in Before : At(r, Len(script)) \in StepAnswers
    BY <1>2, <1>5, <1>7, <1>10, Zenon
  <2>2. pc # "aborted" /\ pc' # "aborted" /\ pc \in {"run", "ran"} /\ pc' \in {"run", "ran"}
    BY <1>2
  <2> QED
    BY <1>2, <1>9, <2>1, <2>2, Zenon DEF Verdicts, Result
<1> QED
  BY <1>9, <1>13, <1>14 DEF Verdicts

LEMMA VerdictsOfJudging ==
  ASSUME Types, Lists, Wire, History, Verdicts, Judges,
         Elements(identities) = Runners, UNCHANGED answered
  PROVE  Verdicts'
<1>0. /\ ScriptAt /\ Rounds /\ Counted /\ Reports /\ Result
      /\ Len(script) \in Nat /\ tally \in Tallies
      /\ IsSeq(report) /\ DOMAIN report = 1..Len(report)
      /\ \A r \in Runners : Len(answered[r]) \in Nat
  BY LensAreNat DEF Wire, History, Verdicts, Types
<1>1. PICK v : v = [at |-> Len(script), verdict |-> Verdict(tally)]
  OBVIOUS
<1>2. v.at = Len(script) /\ v.verdict = Verdict(tally)
  BY <1>1
<1>3. /\ pc = "run" /\ pc' = "step" /\ cursor = <<>>
      /\ report' = Append(report, v)
      /\ isSuccessful' = (isSuccessful /\ v.verdict # NotOk)
      /\ UNCHANGED <<identities, cursor, tally, script>>
  BY <1>1, <1>2, Zenon DEF Judges
<1>4. InRound /\ pc \notin Waiting /\ pc # "aborted" /\ Called
  BY <1>3 DEF InRound, Waiting, Called
<1>5. Before = Runners /\ Elements(cursor) = {} /\ Len(cursor) = 0
  BY <1>3 DEF Before, Elements
<1>6. \A r \in Runners : Len(answered[r]) = Len(script)
  BY <1>0, <1>4, <1>5, Zenon DEF Rounds, Asked
<1>7. script # <<>> /\ Len(script) \in 1..Len(script)
  BY <1>0, <1>4, LensAreNat DEF ScriptAt
<1>8. StepAskedAt(v.at)
  <2>1. script[Len(script)].frames = StepRequest(pickle, Head(steps))
    BY <1>0, <1>3 DEF ScriptAt, Last
  <2>2. StepRequest(pickle, Head(steps))[1] = "RUN STEP"
    BY Zenon DEF StepRequest
  <2> QED
    BY <1>2, <2>1, <2>2, Zenon DEF StepAskedAt
<1>9. /\ tally.missing = Len(identities) <=> \A r \in Runners : At(r, v.at) = NotFound
      /\ tally.succeeded > 0 <=> \E r \in Runners : At(r, v.at) = Success
      /\ tally.failed > 0 <=> \E r \in Runners : At(r, v.at) = Failure
  <2>1. Len(identities) - Len(cursor) = Len(identities)
    BY <1>5, LensAreNat
  <2> QED
    BY <1>0, <1>2, <1>3, <1>5, <2>1 DEF Counted, GaveSome
<1>10. Agrees(v)
  BY <1>0, <1>2, <1>8, <1>9, VerdictCases, AnswersDiffer, Zenon DEF Agrees
<1>11. Grown
  BY <1>3, LensAreNat DEF Grown
<1>12. Settled(v)'
  <2>1. pc' \notin {"run", "ran"}
    BY <1>3
  <2> QED
    BY <1>2, <1>3, <1>6, <1>7, <2>1 DEF Settled
<1>13. Agrees(v)'
  <2>1. \A r, p : At(r, p)' = At(r, p)
    BY DEF At
  <2>2. StepAskedAt(v.at)' <=> StepAskedAt(v.at)
    BY <1>3, Zenon DEF StepAskedAt
  <2> QED
    BY <1>10, <2>1, <2>2, Zenon DEF Agrees
<1>14. /\ DOMAIN report' = 1..(Len(report) + 1) /\ report'[Len(report) + 1] = v
       /\ \A k \in DOMAIN report : report'[k] = report[k]
       /\ \A k \in DOMAIN report' : k \in DOMAIN report \/ k = Len(report) + 1
       /\ \A k \in DOMAIN report : k \in DOMAIN report'
       /\ Len(report) + 1 \in DOMAIN report'
  <2>1. /\ DOMAIN report' = 1..(Len(report) + 1) /\ report'[Len(report) + 1] = v
        /\ \A k \in 1..Len(report) : report'[k] = report[k]
        /\ Len(report) \in Nat
    BY <1>0, <1>3, Grows
  <2> QED
    BY <1>0, <2>1
<1>15. ASSUME NEW k \in DOMAIN report'
       PROVE  \E x : /\ x = report'[k] /\ Settled(x)' /\ Agrees(x)'
                     /\ k \in DOMAIN report => (Fine(x)' <=> Fine(report[k]))
                     /\ k \notin DOMAIN report => x = v
  <2>1. CASE k \in DOMAIN report
    <3>1. PICK x : x = report[k]
      OBVIOUS
    <3>2. Settled(x) /\ Agrees(x) /\ x = report'[k]
      BY <1>0, <1>14, <2>1, <3>1, Zenon DEF Reports
    <3>3. Agrees(x)' /\ (Fine(x)' <=> Fine(x))
      BY <1>11, <3>2, VerdictStill
    <3>4. Settled(x)'
      <4>1. pc' \notin {"run", "ran"}
        BY <1>3
      <4> QED
        BY <1>3, <3>2, <4>1 DEF Settled
    <3>5. Fine(x) <=> Fine(report[k])
      BY <3>1, Zenon DEF Fine
    <3> QED
      BY <2>1, <3>2, <3>3, <3>4, <3>5, Zenon
  <2>2. CASE k \notin DOMAIN report
    <3>1. report'[k] = v
      BY <1>14, <2>2, Zenon
    <3> QED
      BY <1>12, <1>13, <2>2, <3>1, Zenon
  <2> QED
    BY <2>1, <2>2
<1>16. Reports'
  <2>1. ASSUME NEW k \in DOMAIN report', NEW x, x = report'[k], Settled(x)', Agrees(x)'
        PROVE  Settled(report[k])' /\ Agrees(report[k])'
    BY <2>1, Zenon DEF Settled, Agrees, At, StepAskedAt
  <2> QED
    BY <1>15, <2>1, Zenon DEF Reports
<1>17. Counted'
  <2>1. pc' \notin {"run", "ran"}
    BY <1>3
  <2> QED
    BY <2>1, Zenon DEF Counted
<1>18. Result'
  <2>1. Fine(v)' <=> v.verdict # NotOk /\ \A r \in Runners : At(r, v.at) \in StepAnswers
    <3>1. \A r, p : At(r, p)' = At(r, p)
      BY DEF At
    <3> QED
      BY <3>1, Zenon DEF Fine
  <2>2. isSuccessful <=> /\ \A k \in DOMAIN report : Fine(report[k])
                         /\ \A r \in Runners : At(r, v.at) \in StepAnswers
    <3>1. pc \in {"run", "ran"} /\ pc # "aborted"
      BY <1>3
    <3> QED
      BY <1>0, <1>2, <1>5, <3>1, Zenon DEF Result
  <2>3. ASSUME NEW k \in DOMAIN report', NEW x, x = report'[k]
        PROVE  Fine(report[k])' <=> Fine(x)'
    BY <2>3, Zenon DEF Fine, At
  <2>4. \A k \in DOMAIN report : Fine(report[k])' <=> Fine(report[k])
    <3>1. ASSUME NEW k \in DOMAIN report
          PROVE  Fine(report[k])' <=> Fine(report[k])
      <4>1. PICK x : x = report'[k] /\ (Fine(x)' <=> Fine(report[k]))
        BY <1>14, <1>15, Zenon
      <4> QED
        BY <1>14, <2>3, <4>1, Zenon
    <3> QED
      BY <3>1
  <2>5. pc' \notin {"run", "ran"}
    BY <1>3
  <2>6. PICK n : n = Len(report) + 1
    OBVIOUS
  <2>7. Fine(report[n])' <=> Fine(v)'
    <3>1. n \in DOMAIN report' /\ v = report'[n]
      BY <1>14, <2>6
    <3> QED
      BY <2>3, <3>1, Zenon
  <2>8. (\A k \in DOMAIN report' : Fine(report[k])') <=>
          (\A k \in DOMAIN report : Fine(report[k])) /\ Fine(v)'
    BY <1>14, <2>4, <2>6, <2>7, Zenon
  <2> QED
    BY <1>3, <2>1, <2>2, <2>5, <2>8, Zenon DEF Result
<1> QED
  BY <1>16, <1>17, <1>18 DEF Verdicts

LEMMA VerdictsKeptByRunner ==
  ASSUME RunInv, RunnerThread, UNCHANGED answered
  PROVE  Verdicts'
<1>0. /\ Types /\ Lists /\ Wire /\ History /\ Verdicts
      /\ Gathering /\ AllThere /\ Lines /\ ScriptAt
  BY DEF RunInv, Wire
<1>1. CASE Calls \/ Gathers \/ \E r \in Runners : Collects(r)
  <2>1. /\ pc \in {"list", "collect"} /\ pc' \in {"list", "collect", "file"}
        /\ UNCHANGED <<isSuccessful, script, report>>
    BY <1>1, Zenon DEF Calls, Gathers, Collects
  <2>2. ~Called /\ pc' \notin {"run", "ran"}
    BY <2>1 DEF Called
  <2> QED
    BY <1>0, <2>1, <2>2, NoVerdictsYet
<1>2. CASE Called /\ (Passes \/ Sends)
  <2>1. UNCHANGED <<identities, cursor, tally, isSuccessful, report, script>>
    BY <1>2, Zenon DEF Passes, Sends
  <2>2. \/ pc' \in {"run", "ran"} /\ pc \in {"run", "ran"}
        \/ pc' \notin {"run", "ran"} /\ pc \notin {"run", "ran", "aborted"}
    BY <1>2 DEF Passes, Sends
  <2> QED
    BY <1>0, <2>1, <2>2, VerdictsStill
<1>3. CASE Called /\ Judges
  BY <1>0, <1>3, VerdictsOfJudging DEF AllThere
<1>4. ASSUME NEW entry, Asks(entry) PROVE Verdicts'
  BY <1>0, <1>4, VerdictsOfAsking
<1>5. ASSUME Called, NEW h \in Runners, Accepts(h) PROVE Verdicts'
  <2>1. CASE pc = "ran"
    BY <1>0, <1>5, <2>1, VerdictsOfAccepting DEF AllThere
  <2>2. CASE pc # "ran"
    <3>1. /\ UNCHANGED <<identities, tally, isSuccessful, report, script>>
          /\ \/ pc = "started" /\ pc' = "start"
             \/ pc = "ended" /\ pc' = "end"
      BY <1>5, <2>2, Zenon DEF Accepts
    <3>2. Grown
      BY <1>0, <3>1, LensAreNat DEF Grown
    <3>3. /\ pc' \notin {"run", "ran"} /\ pc \notin {"run", "ran", "aborted"}
      BY <3>1
    <3>4. Reports' /\ \A k \in DOMAIN report : Fine(report[k])' <=> Fine(report[k])
      BY <1>0, <3>1, <3>2, <3>3, ReportsStill DEF Verdicts
    <3>5. Counted'
      BY <3>3, Zenon DEF Counted
    <3>6. Result'
      <4>1. pc # "aborted" /\ pc \notin {"run", "ran"}
        BY <3>3
      <4> QED
        BY <1>0, <3>1, <3>3, <3>4, <4>1, Zenon DEF Verdicts, Result
    <3> QED
      BY <3>4, <3>5, <3>6 DEF Verdicts
  <2> QED
    BY <2>1, <2>2
<1>6. ASSUME NEW h \in Runners, Aborts(h) PROVE Verdicts'
  <2>1. /\ UNCHANGED <<identities, cursor, tally, isSuccessful, report, script>>
        /\ pc' = "aborted"
    BY <1>6, Zenon DEF Aborts
  <2> QED
    BY <1>0, <2>1, VerdictsStill
<1> QED
  BY <1>0, <1>1, <1>2, <1>3, <1>4, <1>5, <1>6, CalledKept, Zenon

(* The answer to the request under way is not yet part of any verdict.     *)
LEMMA VerdictsKeptByAnswer ==
  ASSUME RunInv, NEW h \in Runners, AnswerRequest(h)
  PROVE  Verdicts'
<1>0. /\ Types /\ Lists /\ Wire /\ History /\ Verdicts
  BY DEF RunInv
<1>1. /\ h \in Elements(cursor)
      /\ \A q \in Runners : q # h => answered'[q] = answered[q]
  BY <1>0, AnswersLast
<1>2. PICK reply \in Answer :
        answered'[h] = Append(answered[h], [request |-> Last, reply |-> reply])
  BY <1>0, AnswersLast, Zenon
<1>3. UNCHANGED <<pc, identities, cursor, tally, isSuccessful, report, script>>
  BY <1>0, AnswersLast DEF runnerVars
<1>4. \A q \in Runners : IsSeq(answered[q]) /\ Len(answered[q]) \in Nat
  BY <1>0, LensAreNat DEF Types
<1>5. /\ Len(answered'[h]) = Len(answered[h]) + 1
      /\ \A k \in 1..Len(answered[h]) : answered'[h][k] = answered[h][k]
  BY <1>2, <1>4, Grows
<1>6. Grown
  BY <1>0, <1>1, <1>3, <1>4, <1>5, LensAreNat DEF Grown
<1>7. Reports' /\ \A k \in DOMAIN report : Fine(report[k])' <=> Fine(report[k])
  BY <1>0, <1>3, <1>6, ReportsStill DEF Verdicts
<1>8. \A r \in Before : answered'[r] = answered[r]
  <2>1. \A r \in Before : r \in Runners /\ r # h
    <3>1. \A r \in Elements(identities) : r \in Runners
      BY <1>0, ElementOfSeq, LenProperties DEF Types, Elements
    <3> QED
      BY <1>1, <3>1 DEF Before
  <2> QED
    BY <1>1, <2>1
<1>9. \A r \in Before : At(r, Len(script))' = At(r, Len(script))
  BY <1>3, <1>8, Zenon DEF At
<1>10. Before' = Before
  BY <1>3, SameLists
<1>11. \A answer : GaveSome(answer)' <=> GaveSome(answer)
  BY <1>9, <1>10, Zenon DEF GaveSome
<1>12. Counted'
  BY <1>0, <1>3, <1>9, <1>10, <1>11, Zenon DEF Verdicts, Counted
<1>13. Result'
  BY <1>0, <1>3, <1>7, <1>9, <1>10, Zenon DEF Verdicts, Result
<1> QED
  BY <1>7, <1>12, <1>13 DEF Verdicts

-----------------------------------------------------------------------------
(***************************************************************************)
(* The invariant holds at first, and every step keeps it.                  *)
(***************************************************************************)
LEMMA RunInvInit == OpenInit => RunInv
<1> SUFFICES ASSUME OpenInit PROVE RunInv
  OBVIOUS
<1>0. /\ pc = "list" /\ identities = <<>> /\ cursor = <<>> /\ tally = NoAnswer
      /\ isSuccessful = TRUE /\ report = <<>> /\ script = <<>>
      /\ requests = [r \in Runners |-> <<>>]
      /\ replies = [r \in Runners |-> <<>>]
      /\ peers = {}
      /\ answered = [r \in Runners |-> <<>>]
  BY Zenon DEF OpenInit, FeatureRunnerInit, TransportInit
<1>1. ~Called /\ pc \notin Waiting /\ ~InRound /\ pc \notin {"run", "ran", "aborted"}
  BY <1>0 DEF Called, Waiting, InRound
<1>2. DOMAIN <<>> = {} /\ Elements(<<>>) = {} /\ \A S : <<>> \in Seq(S)
  BY DEF Elements
<1>3. Types
  <2>1. NoAnswer \in Tallies
    BY DEF NoAnswer, Tallies
  <2>2. IsSeq(script) /\ IsSeq(report) /\ \A r \in Runners : IsSeq(answered[r])
    BY <1>0, <1>2, Zenon DEF IsSeq
  <2>3. replies \in [Runners -> Seq(Answer \cup {Greeting})]
    BY <1>0
  <2> QED
    BY <1>0, <1>2, <2>1, <2>2, <2>3 DEF Types
<1>4. Lists
  <2>1. IsInjective(<<>>)
    BY <1>2, Zenon DEF IsInjective
  <2> QED
    BY <1>0, <1>1, <2>1, Zenon DEF Lists
<1>5. Wire
  <2>1. Gathering
    <3>1. ASSUME NEW r \in Runners
          PROVE  /\ answered[r] = <<>> /\ requests[r] = <<>> /\ replies[r] = <<>>
                 /\ r \notin peers /\ r \notin Elements(identities)
      BY <1>0, <1>2
    <3> QED
      BY <1>0, <3>1, Zenon DEF Gathering
  <2>2. ScriptAt
    <3>1. /\ pc \notin {"start", "started"} /\ pc \notin {"run", "ran"}
          /\ pc \notin {"end", "ended"}
      BY <1>0
    <3> QED
      BY <1>1, <3>1, Zenon DEF ScriptAt
  <2> QED
    BY <1>1, <2>1, <2>2, Zenon DEF Wire, AllThere, Lines
<1>6. History
  <2>1. \A r \in Runners : DOMAIN answered[r] = {}
    BY <1>0, <1>2
  <2>2. Accepted
    BY <1>1, <2>1, Zenon DEF Accepted, AcceptedAll, AcceptedBut
  <2> QED
    BY <1>1, <2>2, Zenon DEF History, Rounds
<1>7. Verdicts
  <2>1. DOMAIN report = {}
    BY <1>0, <1>2
  <2> QED
    BY <1>0, <1>1, <2>1, Zenon DEF Verdicts, Counted, Reports, Result
<1> QED
  BY <1>3, <1>4, <1>5, <1>6, <1>7 DEF RunInv

LEMMA RunInvNext ==
  ASSUME Awaited = Runners, RunInv, [OpenNext]_openVars
  PROVE  RunInv'
<1>0. /\ Types /\ Lists /\ Wire /\ History /\ Verdicts
      /\ Gathering /\ AllThere /\ Lines /\ ScriptAt /\ Rounds /\ Accepted
  BY DEF RunInv, Wire, History
<1>1. CASE RunnerThread /\ UNCHANGED answered
  <2>1. Types'
    BY <1>0, <1>1, TypesKeptByRunner
  <2>2. Lists'
    BY <1>0, <1>1, ListsKeptByRunner
  <2>3. Gathering' /\ ScriptAt'
    BY <1>0, <1>1, GatheringKeptByRunner, ScriptAtKeptByRunner
  <2>4. AllThere'
    BY <1>0, <1>1, AllThereKeptByRunner
  <2>5. Lines'
    BY <1>0, <1>1, <2>4, LinesKeptByRunner
  <2>6. Rounds' /\ Accepted'
    BY <1>0, <1>1, RoundsKeptByRunner, AcceptedKeptByRunner
  <2>7. Verdicts'
    BY <1>1, VerdictsKeptByRunner
  <2> QED
    BY <2>1, <2>2, <2>3, <2>4, <2>5, <2>6, <2>7 DEF RunInv, Wire, History
<1>2. ASSUME NEW r \in Runners, Join(r) PROVE RunInv'
  <2>1. /\ Types' /\ Lists' /\ Wire' /\ History' /\ ~Called
        /\ UNCHANGED <<runnerVars, answered>>
    BY <1>0, <1>2, JoinKeeps
  <2>2. /\ UNCHANGED <<isSuccessful, script, report>>
        /\ pc' \notin {"run", "ran"}
    BY <2>1 DEF runnerVars, Called
  <2>3. Verdicts'
    BY <1>0, <2>1, <2>2, NoVerdictsYet
  <2> QED
    BY <2>1, <2>3 DEF RunInv
<1>3. ASSUME NEW r \in Runners, AnswerRequest(r) PROVE RunInv'
  BY <1>0, <1>3, AnswerKeeps, VerdictsKeptByAnswer DEF RunInv
<1>4. CASE OpenFinished \/ UNCHANGED openVars
  <2>1. /\ UNCHANGED <<pc, identities, cursor, tally, isSuccessful, report, script>>
        /\ UNCHANGED <<pickle, steps, requests, replies, peers, answered>>
    BY <1>4 DEF OpenFinished, openVars, runnerVars, transportVars
  <2>2. Types' /\ Lists' /\ Wire' /\ History'
    <3>1. Types' /\ Lists'
      BY <1>0, <2>1, SameLists, Zenon DEF Types, Lists
    <3>2. Gathering' /\ AllThere'
      BY <1>0, <2>1, SameLists, Zenon DEF Gathering, AllThere, Called
    <3>3. Lines'
      BY <1>0, <2>1, Zenon DEF Lines, Called, Asked, Owes, Gave, Last
    <3>4. ScriptAt'
      BY <1>0, <2>1, Zenon DEF ScriptAt, InRound, Last
    <3>5. Rounds'
      BY <1>0, <2>1, SameLists, Zenon DEF Rounds, Called, Asked, InRound
    <3>6. Accepted'
      <4>1. \A r : Refused(r)' = Refused(r)
        BY <2>1 DEF Refused, Acceptable
      <4> QED
        BY <1>0, <2>1, <4>1, Zenon DEF Accepted, AcceptedBut, AcceptedAll, Asked,
                                       Acceptable
    <3> QED
      BY <3>1, <3>2, <3>3, <3>4, <3>5, <3>6 DEF Wire, History
  <2>3. Verdicts'
    <3>1. \/ pc' \in {"run", "ran"} /\ pc \in {"run", "ran"}
          \/ pc' \notin {"run", "ran"} /\ pc \notin {"run", "ran", "aborted"}
          \/ pc' = "aborted"
      BY <2>1
    <3> QED
      BY <1>0, <2>1, <3>1, VerdictsStill
  <2> QED
    BY <2>2, <2>3 DEF RunInv
<1> QED
  BY <1>1, <1>2, <1>3, <1>4 DEF OpenNext

(* The answers to the step of a verdict, when run is called with the list  *)
(* of all step runners.                                                    *)
LEMMA RepliesAt ==
  ASSUME Elements(identities) = Runners, NEW k
  PROVE  /\ \A c : c \in StepReplies(k) <=> \E r \in Runners : At(r, report[k].at) = c
         /\ \A S : StepReplies(k) \subseteq S <=>
                     \A r \in Runners : At(r, report[k].at) \in S
BY DEF StepReplies, At

-----------------------------------------------------------------------------
(***************************************************************************)
(* The theorems.                                                           *)
(***************************************************************************)

(* The inductive invariant: who answers is the step runner at the cursor,  *)
(* the answers read were let through by the assertions, the tally is that  *)
(* of the step runners the cursor has passed.                              *)
THEOREM RunInvariant ==
  ASSUME Awaited = Runners
  PROVE  OpenSpec => []RunInv
BY RunInvInit, RunInvNext, PTL DEF OpenSpec

(* Whatever step runners answer, run goes on exactly after the answers its *)
(* assertions are meant to let through.                                    *)
THEOREM AnswersChecked ==
  ASSUME Awaited = Runners
  PROVE  OpenSpec => []ChecksAnswers
<1>1. ASSUME RunInv PROVE ChecksAnswers
  <2>1. Accepted
    BY <1>1 DEF RunInv, History
  <2>2. ASSUME pc \notin Waiting \cup {"aborted"}, NEW r \in Runners
        PROVE  Refused(r) = {}
    <3>1. pc # "aborted" /\ ~Asked(r)
      BY <2>2 DEF Asked
    <3>2. AcceptedAll(r)
      BY <2>1, <3>1, Zenon DEF Accepted
    <3> QED
      BY <3>2, Zenon DEF AcceptedAll, Refused
  <2> QED
    BY <2>1, <2>2, Zenon DEF ChecksAnswers, Accepted
<1> QED
  BY <1>1, RunInvariant, PTL

(* Whatever step runners answer, each is asked what the feature says, in   *)
(* its order, and the verdicts and the result are those of the answers.    *)
THEOREM ResultJustified ==
  ASSUME Awaited = Runners
  PROVE  OpenSpec => []ResultIsJustified
<1>1. ASSUME RunInv PROVE ResultIsJustified
  <2>0. Gathering /\ AllThere /\ Rounds /\ Reports /\ Result
    BY <1>1 DEF RunInv, Wire, History, Verdicts
  <2>1. CASE ~Called
    <3>1. report = <<>> /\ pc # "done" /\ \A r \in Runners : answered[r] = <<>>
      BY <2>0, <2>1, Zenon DEF Gathering, Called
    <3>2. DOMAIN report = {} /\ \A r \in Runners : DOMAIN answered[r] = {}
      BY <3>1
    <3> QED
      BY <3>1, <3>2, Zenon DEF ResultIsJustified
  <2>2. CASE Called
    <3>1. Elements(identities) = Runners
      BY <2>0, <2>2, Zenon DEF AllThere
    <3>2. \A r \in Runners : \A k \in DOMAIN answered[r] :
            answered[r][k].request = script[k].frames
      BY <2>0, <2>2, Zenon DEF Rounds
    <3>3. ASSUME NEW k \in DOMAIN report
          PROVE  /\ script[report[k].at].frames[1] = "RUN STEP"
                 /\ report[k].verdict = Ok <=> Success \in StepReplies(k)
                 /\ report[k].verdict = NotOk <=>
                      Failure \in StepReplies(k) /\ Success \notin StepReplies(k)
                 /\ report[k].verdict = Unknown <=> StepReplies(k) \subseteq {NotFound}
                 /\ Fine(report[k]) <=>
                      report[k].verdict # NotOk /\ StepReplies(k) \subseteq StepAnswers
      <4>1. Agrees(report[k])
        BY <2>0, Zenon DEF Reports
      <4>2. \A c : c \in {NotFound} <=> c = NotFound
        OBVIOUS
      <4>3. StepReplies(k) \subseteq {NotFound} <=>
              \A r \in Runners : At(r, report[k].at) = NotFound
        BY <3>1, <4>2, RepliesAt, Zenon
      <4> QED
        BY <3>1, <4>1, <4>3, RepliesAt, Zenon DEF Agrees, StepAskedAt, Fine
    <3>4. ASSUME pc = "done"
          PROVE  isSuccessful <=>
                   \A k \in DOMAIN report :
                     report[k].verdict # NotOk /\ StepReplies(k) \subseteq StepAnswers
      <4>1. pc # "aborted" /\ pc \notin {"run", "ran"}
        BY <3>4
      <4> QED
        BY <2>0, <3>3, <4>1, Zenon DEF Result
    <3> QED
      BY <3>2, <3>3, <3>4, Zenon DEF ResultIsJustified, Ok, NotOk, Unknown,
                                     Success, Failure, NotFound
  <2> QED
    BY <2>1, <2>2
<1> QED
  BY <1>1, RunInvariant, PTL

=============================================================================
