----------------------- MODULE CucumberSystem_proofs -----------------------
(***************************************************************************)
(* Proofs about CucumberSystem, for all step runners, feature files and    *)
(* step definitions.                                                       *)
(***************************************************************************)
EXTENDS CucumberInvariant, FeatureRunner_proofs

-----------------------------------------------------------------------------
(***************************************************************************)
(* Sequences, as the queues of the transport use them.                     *)
(***************************************************************************)

(* Queues of one and of two messages. *)
LEMMA ShortTypes ==
  ASSUME NEW a, NEW b
  PROVE  /\ <<a>> \in Seq({a, b}) /\ Len(<<a>>) = 1 /\ <<a>>[1] = a
         /\ <<a, b>> \in Seq({a, b}) /\ Len(<<a, b>>) = 2
         /\ <<a, b>>[1] = a /\ <<a, b>>[2] = b
         /\ <<b>> \in Seq({a, b}) /\ Len(<<b>>) = 1 /\ <<b>>[1] = b
         /\ <<a>> # <<>> /\ <<a, b>> # <<>>
OBVIOUS

(* What a queue of at most two messages becomes. *)
LEMMA ShortQueues ==
  ASSUME NEW a, NEW b
  PROVE  /\ Append(<<>>, a) = <<a>> /\ Append(<<a>>, b) = <<a, b>>
         /\ Head(<<a>>) = a /\ Tail(<<a>>) = <<>>
         /\ Head(<<a, b>>) = a /\ Tail(<<a, b>>) = <<b>>
<1>1. Append(<<>>, a) = <<a>>
  OBVIOUS
<1>2. Append(<<a>>, b) = <<a, b>>
  <2>1. /\ Append(<<a>>, b) \in Seq({a, b}) /\ Len(Append(<<a>>, b)) = 2
        /\ Append(<<a>>, b)[1] = a /\ Append(<<a>>, b)[2] = b
    <3>1. /\ Append(<<a>>, b) \in Seq({a, b})
          /\ Len(Append(<<a>>, b)) = Len(<<a>>) + 1
          /\ \A i \in 1..Len(<<a>>) : Append(<<a>>, b)[i] = <<a>>[i]
          /\ Append(<<a>>, b)[Len(<<a>>) + 1] = b
      BY ShortTypes, AppendProperties
    <3> QED
      BY <3>1, ShortTypes
  <2>2. /\ <<a, b>> \in Seq({a, b}) /\ Len(<<a, b>>) = 2
        /\ <<a, b>>[1] = a /\ <<a, b>>[2] = b
    BY ShortTypes
  <2>3. \A i \in 1..Len(Append(<<a>>, b)) : Append(<<a>>, b)[i] = <<a, b>>[i]
    BY <2>1, <2>2
  <2> QED
    BY <2>1, <2>2, <2>3, SeqEqual, Zenon
<1>3. Head(<<a>>) = a /\ Head(<<a, b>>) = a
  OBVIOUS
<1>4. Tail(<<a>>) = <<>>
  <2>1. Tail(<<a>>) \in Seq({a, b}) /\ Len(Tail(<<a>>)) = 0
    BY ShortTypes, HeadTailProperties
  <2> QED
    BY <2>1, EmptySeq
<1>5. Tail(<<a, b>>) = <<b>>
  OBVIOUS
<1> QED
  BY <1>1, <1>2, <1>3, <1>4, <1>5

(* What is left of them when a suffix is lost. *)
LEMMA ShortPrefixes ==
  ASSUME NEW a, NEW b, NEW s \in {<<>>, <<a>>, <<a, b>>}, NEW n \in 0..Len(s)
  PROVE  SubSeq(s, 1, n) \in {<<>>, <<a>>, <<a, b>>}
<1>1. /\ <<a>> \in Seq({a, b}) /\ Len(<<a>>) = 1
      /\ <<a, b>> \in Seq({a, b}) /\ Len(<<a, b>>) = 2 /\ <<a, b>>[1] = a
  BY ShortTypes
<1>2. SubSeq(<<a, b>>, 1, 1) = <<a>>
  <2>1. SubSeq(<<a, b>>, 1, 1) = <<<<a, b>>[1]>> \o SubSeq(<<a, b>>, 2, 1)
    BY <1>1, SubSeqRecursiveFirst, 1 \in 1..2, 1 + 1 = 2, 1 \in 1..1
  <2>2. SubSeq(<<a, b>>, 2, 1) = <<>>
    BY SubSeqEmpty
  <2>3. <<a>> \o <<>> = <<a>>
    BY <1>1, ConcatEmptySeq
  <2> QED
    BY <1>1, <2>1, <2>2, <2>3
<1>3. SubSeq(<<>>, 1, 0) = <<>> /\ SubSeq(<<a>>, 1, 0) = <<>> /\ SubSeq(<<a, b>>, 1, 0) = <<>>
  BY SubSeqEmpty
<1>4. SubSeq(<<a>>, 1, 1) = <<a>> /\ SubSeq(<<a, b>>, 1, 2) = <<a, b>>
  BY <1>1, SubSeqFull
<1>5. CASE s = <<>>
  <2>1. n = 0
    BY <1>5, Len(<<>>) = 0
  <2> QED
    BY <2>1, <1>3, <1>5
<1>6. CASE s = <<a>>
  <2>1. n = 0 \/ n = 1
    BY <1>6, <1>1
  <2> QED
    BY <2>1, <1>3, <1>4, <1>6
<1>7. CASE s = <<a, b>>
  <2>1. n = 0 \/ n = 1 \/ n = 2
    BY <1>7, <1>1
  <2> QED
    BY <2>1, <1>2, <1>3, <1>4, <1>7
<1> QED
  BY <1>5, <1>6, <1>7

(* The same for a queue of at most one message.                            *)
LEMMA ShortPrefix ==
  ASSUME NEW a, NEW s \in {<<>>, <<a>>}, NEW n \in 0..Len(s)
  PROVE  SubSeq(s, 1, n) \in {<<>>, <<a>>}
<1>1. <<a>> \in Seq({a}) /\ Len(<<a>>) = 1 /\ Len(<<>>) = 0
  OBVIOUS
<1>2. SubSeq(<<>>, 1, 0) = <<>> /\ SubSeq(<<a>>, 1, 0) = <<>>
  BY SubSeqEmpty
<1>3. SubSeq(<<a>>, 1, 1) = <<a>>
  BY <1>1, SubSeqFull
<1>4. CASE s = <<>>
  <2>1. n = 0
    BY <1>1, <1>4
  <2> QED
    BY <1>2, <1>4, <2>1
<1>5. CASE s = <<a>>
  <2>1. n = 0 \/ n = 1
    BY <1>1, <1>5
  <2> QED
    BY <1>2, <1>3, <1>5, <2>1
<1> QED
  BY <1>4, <1>5

(* A prefix is a sequence of the same elements. *)
LEMMA PrefixType ==
  ASSUME NEW S, NEW s \in Seq(S), NEW m \in Nat \ {0}, NEW n \in 0..Len(s)
  PROVE  SubSeq(s, m, n) \in Seq(S)
BY SubSeqProperties, ElementOfSeq

-----------------------------------------------------------------------------
(***************************************************************************)
(* What the operations of the transport keep of its type.                  *)
(***************************************************************************)
LEMMA SendType ==
  ASSUME TransportTypeOK, NEW r \in Runners, NEW frames \in Seq(Frames),
         Send(r, frames)
  PROVE  TransportTypeOK'
<1>1. requests[r] \o frames \in Seq(Frames)
  BY ConcatProperties DEF TransportTypeOK
<1> QED
  BY <1>1 DEF Send, TransportTypeOK

(* zsock_recv takes a reply off its queue.                                 *)
LEMMA ReceiveType ==
  ASSUME TransportTypeOK, NEW r \in Runners, Receive(r)
  PROVE  TransportTypeOK'
<1>1. Tail(replies[r]) \in Seq(Reply)
  BY HeadTailProperties DEF Receive, TransportTypeOK
<1> QED
  BY <1>1 DEF Receive, TransportTypeOK

(* A handler reads the frames of its request and queues a reply.           *)
LEMMA AnswerType ==
  ASSUME TransportTypeOK, NEW r \in Runners, NEW n \in Nat, NEW reply \in Reply,
         ReadAndAnswer(r, n, reply)
  PROVE  TransportTypeOK'
<1>1. Append(replies[r], reply) \in Seq(Reply)
  BY AppendProperties DEF TransportTypeOK
<1>2. SubSeq(requests[r], n + 1, Len(requests[r])) \in Seq(Frames)
  BY PrefixType, LenProperties DEF TransportTypeOK
<1> QED
  BY <1>1, <1>2 DEF ReadAndAnswer, TransportTypeOK

(* A step runner connects and queues its greeting.                         *)
LEMMA ConnectType ==
  ASSUME TransportTypeOK, NEW r \in Runners, NEW reply \in Reply,
         ConnectAndGreet(r, reply)
  PROVE  TransportTypeOK'
<1>1. Append(replies[r], reply) \in Seq(Reply)
  BY AppendProperties DEF TransportTypeOK
<1> QED
  BY <1>1 DEF ConnectAndGreet, TransportTypeOK

(* A closed socket leaves a prefix of what it had queued.                  *)
LEMMA DisconnectType ==
  ASSUME TransportTypeOK, NEW r \in Runners, Disconnect(r)
  PROVE  TransportTypeOK'
<1>1. PICK n \in 0..Len(replies[r]) :
        replies' = [replies EXCEPT ![r] = SubSeq(@, 1, n)]
  BY DEF Disconnect
<1>2. SubSeq(replies[r], 1, n) \in Seq(Reply)
  BY PrefixType DEF TransportTypeOK
<1>3. <<>> \in Seq(Frames)
  OBVIOUS
<1> QED
  BY <1>1, <1>2, <1>3 DEF Disconnect, TransportTypeOK

-----------------------------------------------------------------------------
(***************************************************************************)
(* The type of the runner's state, action by action.                       *)
(***************************************************************************)
(* Frames make up a request of two or of three of them.                    *)
LEMMA TupleTypes ==
  ASSUME NEW S, NEW x \in S, NEW y \in S, NEW z \in S
  PROVE  <<x, y>> \in Seq(S) /\ <<x, y, z>> \in Seq(S)
OBVIOUS

(* The requests that start and end a scenario are made of frames.          *)
LEMMA ScenarioRequestTypes ==
  ASSUME NEW p \in Pickle
  PROVE  StartRequest(p) \in Seq(Frames) /\ EndRequest(p) \in Seq(Frames)
<1>1. /\ PickleId(p) \in Frames
      /\ "START SCENARIO" \in Frames /\ "END SCENARIO" \in Frames
  BY DEF PickleId, Pickle, Frames, Commands
<1> QED
  BY <1>1, TupleTypes DEF StartRequest, EndRequest

(* So is the request to run a step.                                        *)
LEMMA StepRequestType ==
  ASSUME NEW p \in Pickle, NEW text \in Texts
  PROVE  StepRequest(p, text) \in Seq(Frames)
<1>1. PickleId(p) \in Frames /\ text \in Frames /\ "RUN STEP" \in Frames
  BY DEF PickleId, Pickle, Frames, Commands
<1> QED
  BY <1>1, TupleTypes DEF StepRequest

(* The history of the requests keeps its type.                             *)
LEMMA ScriptType ==
  ASSUME RunnerTypeOK, NEW p \in Pickle, NEW frames \in Seq(Frames),
         Scripted(p, frames)
  PROVE  script' \in Seq([pickle : Ids, frames : Seq(Frames)])
<1>1. [pickle |-> p.id, frames |-> frames] \in [pickle : Ids, frames : Seq(Frames)]
  BY DEF Pickle
<1> QED
  BY <1>1, AppendProperties DEF Scripted, RunnerTypeOK

(* Sending a request to the step runner at the cursor keeps the types.     *)
LEMMA SendToType ==
  ASSUME RunnerTypeOK, TransportTypeOK, NEW frames \in Seq(Frames),
         NEW waiting \in RunnerStates, SendTo(frames, waiting)
  PROVE  RunnerTypeOK' /\ TransportTypeOK'
<1>1. Head(cursor) \in Runners
  BY HeadTailProperties DEF SendTo, RunnerTypeOK
<1>2. TransportTypeOK'
  BY <1>1, SendType DEF SendTo
<1>3. RunnerTypeOK'
  BY DEF SendTo, RunnerTypeOK
<1> QED
  BY <1>2, <1>3

(* So does receiving the answer to the start or the end of a scenario.     *)
LEMMA RecvAnswerType ==
  ASSUME RunnerTypeOK, TransportTypeOK, Positions, NEW r \in Runners,
         NEW from \in Waiting, NEW expected, NEW to \in RunnerStates,
         RecvAnswer(r, from, expected, to)
  PROVE  RunnerTypeOK' /\ TransportTypeOK'
<1>1. Tail(cursor) \in Seq(Runners)
  BY HeadTailProperties DEF RecvAnswer, RunnerTypeOK, Positions
<1>2. TransportTypeOK'
  BY ReceiveType DEF RecvAnswer
<1>3. pc' \in RunnerStates /\ cursor' \in Seq(Runners)
  BY <1>1 DEF RecvAnswer, ZlistNext, RunnerTypeOK, RunnerStates
<1>4. RunnerTypeOK'
  BY <1>3 DEF RecvAnswer, RunnerTypeOK
<1> QED
  BY <1>2, <1>4

(* Every step of cucumber_feature_runner keeps the types.                  *)
LEMMA RunnerTypes ==
  ASSUME RunnerTypeOK, TransportTypeOK, Positions, RunnerThread
  PROVE  RunnerTypeOK' /\ TransportTypeOK'
<1> USE DEF RunnerStates, Waiting
<1>1. CASE ListFile
  <2>1. Tail(listing) \in Seq(Entry) /\ Head(listing) \in Entry
    BY <1>1, HeadTailProperties DEF ListFile, RunnerTypeOK
  <2>2. Append(feature_files, Head(listing).file) \in Seq(Document)
    BY <2>1, AppendProperties DEF RunnerTypeOK, Entry
  <2> QED
    BY <1>1, <2>1, <2>2 DEF ListFile, RunnerTypeOK, TransportTypeOK, transportVars
<1>2. CASE Listed
  BY <1>2 DEF Listed, RunnerTypeOK, TransportTypeOK, transportVars
<1>3. ASSUME NEW r \in Runners, CollectIdentity(r)
      PROVE  RunnerTypeOK' /\ TransportTypeOK'
  <2>1. Append(identities, r) \in Seq(Runners)
    BY AppendProperties DEF RunnerTypeOK
  <2> QED
    BY <1>3, <2>1, ReceiveType DEF CollectIdentity, RunnerTypeOK
<1>4. CASE CallRun
  BY <1>4 DEF CallRun, RunnerTypeOK, TransportTypeOK, transportVars
<1>5. CASE NextFile
  <2>1. /\ Tail(feature_files) \in Seq(Document)
        /\ Head(feature_files) \in Document
    BY <1>5, HeadTailProperties DEF NextFile, RunnerTypeOK
  <2>2. /\ Head(feature_files).pickles \in Seq(Pickle)
        /\ ZlistFirst(Head(feature_files).errors) \in Nat
    BY <2>1 DEF Document, ZlistFirst
  <2>3. pc' \in RunnerStates /\ pickles' \in Seq(Pickle) /\ error' \in Nat
    BY <1>5, <2>2, Zenon DEF NextFile, RunnerTypeOK
  <2> QED
    BY <1>5, <2>1, <2>3 DEF NextFile, RunnerTypeOK, TransportTypeOK, transportVars
<1>6. CASE PrintError
  BY <1>6 DEF PrintError, ZlistFirst, RunnerTypeOK, TransportTypeOK, transportVars
<1>7. CASE EndDocument
  BY <1>7 DEF EndDocument, RunnerTypeOK, TransportTypeOK, transportVars
<1>8. CASE Return
  BY <1>8 DEF Return, RunnerTypeOK, TransportTypeOK, transportVars
<1>9. CASE NextPickle
  <2>1. Head(pickles) \in Pickle /\ Tail(pickles) \in Seq(Pickle)
    BY <1>9, HeadTailProperties DEF NextPickle, RunnerTypeOK
  <2>2. StartRequest(Head(pickles)) \in Seq(Frames)
    BY <2>1, ScenarioRequestTypes
  <2>3. script' \in Seq([pickle : Ids, frames : Seq(Frames)])
    BY <1>9, <2>1, <2>2, ScriptType DEF NextPickle
  <2>4. totals' \in [scenarios : Nat, steps : Nat]
    BY <1>9, CounterTypes DEF NextPickle, RunnerTypeOK
  <2> QED
    BY <1>9, <2>1, <2>3, <2>4
       DEF NextPickle, RunnerTypeOK, TransportTypeOK, transportVars
<1>10. CASE SendStart
  <2>1. StartRequest(pickle) \in Seq(Frames)
    BY <1>10, ScenarioRequestTypes DEF SendStart, Positions
  <2> QED
    BY <1>10, <2>1, SendToType DEF SendStart
<1>11. ASSUME NEW r \in Runners, RecvStarted(r)
       PROVE  RunnerTypeOK' /\ TransportTypeOK'
  BY <1>11, RecvAnswerType DEF RecvStarted
<1>12. CASE FirstStep
  <2>1. pickle.steps \in Seq(Texts)
    BY <1>12 DEF FirstStep, Positions, Pickle
  <2> QED
    BY <1>12, <2>1 DEF FirstStep, RunnerTypeOK, TransportTypeOK, transportVars
<1>13. CASE BeginStep
  <2>1. Head(steps) \in Texts /\ pickle \in Pickle
    BY <1>13, HeadTailProperties DEF BeginStep, RunnerTypeOK, Positions
  <2>2. script' \in Seq([pickle : Ids, frames : Seq(Frames)])
    BY <1>13, <2>1, StepRequestType, ScriptType DEF BeginStep
  <2>3. totals' \in [scenarios : Nat, steps : Nat]
    BY <1>13, CounterTypes DEF BeginStep, RunnerTypeOK
  <2> QED
    BY <1>13, <2>2, <2>3
       DEF BeginStep, NoAnswer, RunnerTypeOK, TransportTypeOK, transportVars
<1>14. CASE SendStep
  <2>1. Head(steps) \in Texts /\ pickle \in Pickle
    BY <1>14, HeadTailProperties DEF SendStep, RunnerTypeOK, Positions
  <2> QED
    BY <1>14, <2>1, StepRequestType, SendToType DEF SendStep
<1>15. ASSUME NEW r \in Runners, RecvRan(r)
       PROVE  RunnerTypeOK' /\ TransportTypeOK'
  <2>1. Tail(cursor) \in Seq(Runners)
    BY <1>15, HeadTailProperties DEF RecvRan, RunnerTypeOK, Positions
  <2>2. TransportTypeOK'
    BY <1>15, ReceiveType DEF RecvRan
  <2>3. tally' \in [succeeded : Nat, failed : Nat, missing : Nat]
    <3>1. tally' = tally \/ tally' = Count(tally, Head(replies[r]).command)
      BY <1>15, Zenon DEF RecvRan
    <3>2. tally \in [succeeded : Nat, failed : Nat, missing : Nat]
      BY DEF RunnerTypeOK
    <3> QED
      BY <3>1, <3>2, CounterTypes, Zenon
  <2>4. isSuccessful' \in BOOLEAN
    BY <1>15, Zenon DEF RecvRan, RunnerTypeOK
  <2>5. pc' \in RunnerStates /\ cursor' \in Seq(Runners)
    BY <1>15, <2>1 DEF RecvRan, ZlistNext, RunnerTypeOK
  <2>6. RunnerTypeOK'
    BY <1>15, <2>3, <2>4, <2>5 DEF RecvRan, RunnerTypeOK
  <2> QED
    BY <2>2, <2>6
<1>16. CASE EndStep
  <2>0. Verdict(tally) \in Verdicts
    BY DEF Verdict, Verdicts
  <2>1. [at |-> Len(script), verdict |-> Verdict(tally)] \in Report
    BY <2>0, LenProperties DEF Report, RunnerTypeOK
  <2>2. report' \in Seq(Report)
    BY <1>16, <2>1, AppendProperties DEF EndStep, Reported, RunnerTypeOK
  <2>3. steps' \in Seq(Texts)
    BY <1>16, HeadTailProperties DEF EndStep, RunnerTypeOK, Positions
  <2>4. isSuccessful' \in BOOLEAN
    BY <1>16, Zenon DEF EndStep, RunnerTypeOK
  <2> QED
    BY <1>16, <2>2, <2>3, <2>4
       DEF EndStep, RunnerTypeOK, TransportTypeOK, transportVars
<1>17. CASE StepsDone
  <2>1. pickle \in Pickle /\ EndRequest(pickle) \in Seq(Frames)
    BY <1>17, ScenarioRequestTypes DEF StepsDone, Positions
  <2>2. script' \in Seq([pickle : Ids, frames : Seq(Frames)])
    BY <1>17, <2>1, ScriptType DEF StepsDone
  <2> QED
    BY <1>17, <2>2 DEF StepsDone, RunnerTypeOK, TransportTypeOK, transportVars
<1>18. CASE SendEnd
  <2>1. EndRequest(pickle) \in Seq(Frames)
    BY <1>18, ScenarioRequestTypes DEF SendEnd, Positions
  <2> QED
    BY <1>18, <2>1, SendToType DEF SendEnd
<1>19. ASSUME NEW r \in Runners, RecvEnded(r)
       PROVE  RunnerTypeOK' /\ TransportTypeOK'
  BY <1>19, RecvAnswerType DEF RecvEnded
<1>20. CASE PickleDone
  BY <1>20 DEF PickleDone, RunnerTypeOK, TransportTypeOK, transportVars
<1> QED
  BY <1>1, <1>2, <1>3, <1>4, <1>5, <1>6, <1>7, <1>8, <1>9, <1>10, <1>11, <1>12,
     <1>13, <1>14, <1>15, <1>16, <1>17, <1>18, <1>19, <1>20 DEF RunnerThread

-----------------------------------------------------------------------------
(***************************************************************************)
(* The type of the step runners' state, action by action.                  *)
(***************************************************************************)

(* What waits for a step runner is nothing, or exactly one request. *)
LEMMA RequestsAreWhole ==
  ASSUME RunnerTypeOK, Positions, Wire, NEW r \in Runners, requests[r] # <<>>
  PROVE  IsRequest(requests[r])
<1>1. CASE pc = "aborted"
  BY <1>1, Zenon DEF Wire
<1>2. CASE pc \in Waiting /\ r = Head(cursor)
  <2>1. requests[r] = Asked
    BY <1>2 DEF Wire, Asking, Waiting
  <2>2. pickle \in Pickle /\ PickleId(pickle) \in Names
    BY <1>2 DEF Positions, PickleId, Pickle
  <2>3. CASE pc = "started"
    BY <2>1, <2>2, <2>3 DEF Asked, StartRequest, IsRequest
  <2>4. CASE pc = "ran"
    <3>1. Head(steps) \in Texts
      BY <2>4, HeadTailProperties DEF Positions, RunnerTypeOK
    <3> QED
      BY <2>1, <2>2, <2>4, <3>1 DEF Asked, StepRequest, IsRequest
  <2>5. CASE pc = "ended"
    BY <2>1, <2>2, <2>5 DEF Asked, EndRequest, IsRequest
  <2> QED
    BY <1>2, <2>3, <2>4, <2>5 DEF Waiting
<1>3. CASE pc # "aborted" /\ ~(pc \in Waiting /\ r = Head(cursor))
  BY <1>3 DEF Wire, Quiet
<1> QED
  BY <1>1, <1>2, <1>3

(* The frames a handler reads. *)
LEMMA FramesOfRequest ==
  ASSUME NEW frames, IsRequest(frames)
  PROVE  /\ Head(frames) \in Commands
         /\ frames[2] \in Names
         /\ Head(frames) \in {"START SCENARIO", "END SCENARIO"} => Len(frames) = 2
         /\ Head(frames) = "RUN STEP" => Len(frames) = 3
<1>1. PICK name \in Names :
        \/ frames = <<"START SCENARIO", name>>
        \/ \E text \in Texts : frames = <<"RUN STEP", name, text>>
        \/ frames = <<"END SCENARIO", name>>
  BY DEF IsRequest
<1>2. CASE frames = <<"START SCENARIO", name>>
  <2>1. Head(frames) = "START SCENARIO" /\ frames[2] = name /\ Len(frames) = 2
    BY <1>2, TupleParts, Zenon
  <2> QED
    BY <2>1 DEF Commands
<1>3. CASE frames = <<"END SCENARIO", name>>
  <2>1. Head(frames) = "END SCENARIO" /\ frames[2] = name /\ Len(frames) = 2
    BY <1>3, TupleParts, Zenon
  <2> QED
    BY <2>1 DEF Commands
<1>4. ASSUME NEW text \in Texts, frames = <<"RUN STEP", name, text>>
      PROVE  Head(frames) = "RUN STEP" /\ frames[2] = name /\ Len(frames) = 3
  BY <1>4, TripleParts, Zenon
<1> QED
  BY <1>1, <1>2, <1>3, <1>4 DEF Commands

(* The history of what a step runner handled keeps its type.               *)
LEMMA HandledType ==
  ASSUME StepsTypeOK, TransportTypeOK, NEW r \in Runners,
         NEW n \in 1..Len(requests[r]), NEW state \in Nat, NEW fails \in BOOLEAN,
         NEW command \in ReplyCommands, Handled(r, n, state, fails, command)
  PROVE  log' \in [Runners -> Seq([frames : Seq(Frames), state : Nat,
                                   fails : BOOLEAN, reply : ReplyCommands])]
<1> DEFINE Item == [frames : Seq(Frames), state : Nat, fails : BOOLEAN,
                    reply : ReplyCommands]
           item == [frames |-> SubSeq(requests[r], 1, n), state |-> state,
                    fails |-> fails, reply |-> command]
<1>1. SubSeq(requests[r], 1, n) \in Seq(Frames)
  BY PrefixType, LenProperties DEF TransportTypeOK
<1>2. item \in Item
  BY <1>1
<1>3. Append(log[r], item) \in Seq(Item)
  BY <1>2, AppendProperties DEF StepsTypeOK
<1> QED
  BY <1>3 DEF Handled, StepsTypeOK

(* cucumber_new and the registration of steps make a scenario.             *)
LEMMA CucumberNewType ==
  ASSUME NEW state \in Nat, NEW r \in Runners
  PROVE  CucumberNew(state, Defs[r]) \in CucumberType
<1>1. Defs[r] \in Seq(SUBSET Texts)
  BY StepsAssumption DEF StepsAssumption
<1>2. Len(Defs[r]) \in Nat /\ \A i \in 1..Len(Defs[r]) : Defs[r][i] \in SUBSET Texts
  BY <1>1, LenProperties, ElementOfSeq
<1>3. \A i \in 1..Len(Defs[r]) : CucumberStepDefNew(Defs[r][i]) \in StepDef
  BY <1>2 DEF CucumberStepDefNew, StepDef
<1>4. [i \in 1..Len(Defs[r]) |-> CucumberStepDefNew(Defs[r][i])] \in Seq(StepDef)
  BY <1>2, <1>3, SeqDef
<1> QED
  BY <1>4 DEF CucumberNew, CucumberType

(* A function on 1..n is a sequence.                                       *)
LEMMA FunctionIsSeq ==
  ASSUME NEW S, NEW n \in Nat, NEW f \in [1..n -> S]
  PROVE  f \in Seq(S)
BY SeqDef

(* A step that is run leaves a scenario on the same state object.          *)
LEMMA CucumberRunType ==
  ASSUME NEW c \in CucumberType, NEW i, NEW fails \in BOOLEAN
  PROVE  /\ CucumberStepDefRun(c, i, fails) \in CucumberType
         /\ CucumberStepDefRun(c, i, fails).state = c.state
<1> DEFINE d == c.step_defs
           e == [d EXCEPT ![i].failed = fails \/ @]
<1>1. d \in Seq(StepDef) /\ c.state \in Nat
  BY DEF CucumberType
<1>2. DOMAIN d = 1..Len(d) /\ Len(d) \in Nat
  BY <1>1, LenProperties
<1>3. e \in [DOMAIN d -> StepDef]
  <2>1. ASSUME NEW j \in DOMAIN d PROVE e[j] \in StepDef
    <3>1. d[j] \in StepDef
      BY <1>1, <1>2, ElementOfSeq
    <3>2. (fails \/ d[j].failed) \in BOOLEAN
      BY Zenon
    <3>3. [d[j] EXCEPT !.failed = fails \/ @] \in StepDef
      BY <3>1, <3>2 DEF StepDef
    <3>4. e[j] = IF j = i THEN [d[j] EXCEPT !.failed = fails \/ @] ELSE d[j]
      BY Zenon
    <3> QED
      BY <3>1, <3>3, <3>4
  <2> QED
    BY <2>1, Zenon
<1>4. e \in Seq(StepDef)
  <2>1. Len(d) \in Nat /\ e \in [1..Len(d) -> StepDef]
    BY <1>2, <1>3, Zenon
  <2> QED
    BY <2>1, FunctionIsSeq, Zenon
<1>5. CucumberStepDefRun(c, i, fails) = [c EXCEPT !.step_defs = e]
  BY Zenon DEF CucumberStepDefRun
<1> HIDE DEF e
<1> QED
  BY <1>4, <1>5 DEF CucumberType

(* The death of a process keeps the types.                                 *)
LEMMA DieType ==
  ASSUME StepsTypeOK, TransportTypeOK, NEW r \in Runners, Die(r)
  PROVE  StepsTypeOK' /\ TransportTypeOK'
<1>1. TransportTypeOK'
  BY DisconnectType DEF Die
<1>2. <<>> \in Seq({"VERBOSE", "$TERM"} \cup AppCommands) /\ {} \in SUBSET Nat
  OBVIOUS
<1>3. StepsTypeOK'
  BY <1>2 DEF Die, StepsTypeOK, MainStates, ActorStates
<1> QED
  BY <1>1, <1>3

(* Commands written to and read from the pipe of an actor.                 *)
LEMMA PipeTypes ==
  ASSUME StepsTypeOK, NEW r \in Runners,
         NEW command \in {"VERBOSE", "$TERM"} \cup AppCommands
  PROVE  /\ Append(pipe[r], command) \in Seq({"VERBOSE", "$TERM"} \cup AppCommands)
         /\ pipe[r] # <<>> =>
              Tail(pipe[r]) \in Seq({"VERBOSE", "$TERM"} \cup AppCommands)
BY AppendProperties, HeadTailProperties DEF StepsTypeOK

(* Every step of the main thread of a step runner keeps the types.         *)
LEMMA MainTypes ==
  ASSUME StepsTypeOK, TransportTypeOK, NEW r \in Runners,
         MainThread(r) \/ MainInput(r)
  PROVE  StepsTypeOK' /\ TransportTypeOK'
<1> USE DEF StepsTypeOK, MainStates
<1>1. CASE StartActor(r)
  BY <1>1 DEF StartActor, TransportTypeOK, transportVars, ActorStates
<1>2. CASE ActorStarted(r)
  <2>1. pipe' \in [Runners -> Seq({"VERBOSE", "$TERM"} \cup AppCommands)]
    BY <1>2, PipeTypes DEF ActorStarted
  <2> QED
    BY <1>2, <2>1 DEF ActorStarted, TransportTypeOK, transportVars
<1>3. CASE AppSends(r)
  <2>1. pipe' \in [Runners -> Seq({"VERBOSE", "$TERM"} \cup AppCommands)]
    BY <1>3, PipeTypes DEF AppSends
  <2> QED
    BY <1>3, <2>1 DEF AppSends, TransportTypeOK, transportVars
<1>4. CASE EndOfInput(r)
  <2>1. pipe' \in [Runners -> Seq({"VERBOSE", "$TERM"} \cup AppCommands)]
    BY <1>4, PipeTypes DEF EndOfInput
  <2> QED
    BY <1>4, <2>1 DEF EndOfInput, TransportTypeOK, transportVars
<1>5. CASE DestroyActor(r)
  <2>1. pipe' \in [Runners -> Seq({"VERBOSE", "$TERM"} \cup AppCommands)]
    BY <1>5, PipeTypes DEF DestroyActor
  <2> QED
    BY <1>5, <2>1 DEF DestroyActor, TransportTypeOK, transportVars
<1>6. CASE Exit(r)
  BY <1>6 DEF Exit, TransportTypeOK, transportVars
<1> QED
  BY <1>1, <1>2, <1>3, <1>4, <1>5, <1>6 DEF MainThread, MainInput

(* Every step of its actor thread keeps the types.                         *)
LEMMA ActorTypes ==
  ASSUME StepsTypeOK, TransportTypeOK, NEW r \in Runners, ActorThread(r),
         requests[r] # <<>> => IsRequest(requests[r])
  PROVE  StepsTypeOK' /\ TransportTypeOK'
<1> DEFINE LogType == [Runners -> Seq([frames : Seq(Frames), state : Nat,
                                       fails : BOOLEAN, reply : ReplyCommands])]
<1>1. CASE CucumberStepsNew(r)
  <2>1. Greeting \in Reply
    BY DEF Greeting, Reply, ReplyCommands
  <2> QED
    BY <1>1, <2>1, ConnectType DEF CucumberStepsNew, StepsTypeOK, ActorStates
<1>2. CASE RecvVerbose(r)
  <2>1. pipe' \in [Runners -> Seq({"VERBOSE", "$TERM"} \cup AppCommands)]
    BY <1>2, PipeTypes DEF RecvVerbose, HasCommand, StepsTypeOK
  <2> QED
    BY <1>2, <2>1 DEF RecvVerbose, StepsTypeOK, TransportTypeOK, transportVars
<1>3. CASE RecvTerm(r)
  <2>1. pipe' \in [Runners -> Seq({"VERBOSE", "$TERM"} \cup AppCommands)]
    BY <1>3, PipeTypes DEF RecvTerm, HasCommand, StepsTypeOK
  <2> QED
    BY <1>3, <2>1 DEF RecvTerm, StepsTypeOK, TransportTypeOK, transportVars,
                      ActorStates
<1>4. CASE RecvInvalid(r)
  BY <1>4, DieType DEF RecvInvalid
<1>5. CASE CucumberStepsDestroy(r)
  <2>1. /\ cucumber' \in [Runners -> CucumberType \cup {NULL}]
        /\ live' \in [Runners -> SUBSET Nat]
    BY <1>5 DEF CucumberStepsDestroy, CucumberDestroy, StepsTypeOK
  <2> QED
    BY <1>5, <2>1, DisconnectType DEF CucumberStepsDestroy, StepsTypeOK, ActorStates
<1>6. CASE StartScenario(r)
  <2> DEFINE state == StateConstructor(r)
  <2>1. IsRequest(requests[r]) /\ Head(requests[r]) = "START SCENARIO"
    BY <1>6 DEF StartScenario, HasRequest
  <2>2. requests[r][2] \in Names /\ 2 \in 1..Len(requests[r])
    <3>1. requests[r][2] \in Names /\ Len(requests[r]) = 2
      BY <2>1, FramesOfRequest, Zenon
    <3> QED
      BY <3>1
  <2>3. [command |-> "SCENARIO STARTED", id |-> requests[r][2]] \in Reply
    BY <2>2 DEF Reply, ReplyCommands
  <2>4. TransportTypeOK'
    BY <1>6, <2>3, AnswerType DEF StartScenario
  <2>5. state \in Nat
    BY DEF StateConstructor, StepsTypeOK
  <2>6. log' \in LogType
    BY <1>6, <2>2, <2>5, HandledType DEF StartScenario, ReplyCommands
  <2>7. cucumber' \in [Runners -> CucumberType \cup {NULL}]
    BY <1>6, <2>5, CucumberNewType DEF StartScenario, StepsTypeOK
  <2>8. built' \in [Runners -> Nat] /\ live' \in [Runners -> SUBSET Nat]
    BY <1>6, <2>5 DEF StartScenario, StepsTypeOK
  <2> QED
    BY <1>6, <2>4, <2>6, <2>7, <2>8 DEF StartScenario, StepsTypeOK
<1>7. CASE EndScenario(r)
  <2>1. IsRequest(requests[r]) /\ Head(requests[r]) = "END SCENARIO"
    BY <1>7 DEF EndScenario, HasRequest
  <2>2. requests[r][2] \in Names /\ 2 \in 1..Len(requests[r])
    <3>1. requests[r][2] \in Names /\ Len(requests[r]) = 2
      BY <2>1, FramesOfRequest, Zenon
    <3> QED
      BY <3>1
  <2>3. [command |-> "SCENARIO ENDED", id |-> requests[r][2]] \in Reply
    BY <2>2 DEF Reply, ReplyCommands
  <2>4. TransportTypeOK'
    BY <1>7, <2>3, AnswerType DEF EndScenario
  <2>5. log' \in LogType
    BY <1>7, <2>2, HandledType DEF EndScenario, ReplyCommands
  <2>6. /\ cucumber' \in [Runners -> CucumberType \cup {NULL}]
        /\ live' \in [Runners -> SUBSET Nat]
    BY <1>7 DEF EndScenario, CucumberDestroy, StepsTypeOK
  <2> QED
    BY <1>7, <2>4, <2>5, <2>6 DEF EndScenario, StepsTypeOK
<1>8. CASE RunStep(r)
  <2>1. IsRequest(requests[r]) /\ Head(requests[r]) = "RUN STEP"
    BY <1>8 DEF RunStep, StepRequested, HasRequest
  <2>2. requests[r][2] \in Names /\ 3 \in 1..Len(requests[r])
    <3>1. requests[r][2] \in Names /\ Len(requests[r]) = 3
      BY <2>1, FramesOfRequest, Zenon
    <3> QED
      BY <3>1
  <2>3. cucumber[r] \in CucumberType
    BY <1>8 DEF RunStep, StepRequested, StepsTypeOK
  <2>4. PICK fails \in BOOLEAN, command \in {"STEP FAILED", "STEP SUCCEEDED"} :
          /\ cucumber' = [cucumber EXCEPT ![r] =
                            CucumberStepDefRun(cucumber[r], StepDefFor(r), fails)]
          /\ Handled(r, 3, cucumber[r].state, fails, command)
          /\ ReadAndAnswer(r, 3, [command |-> command, id |-> requests[r][2]])
    BY <1>8, Zenon DEF RunStep
  <2>5. [command |-> command, id |-> requests[r][2]] \in Reply
    BY <2>2 DEF Reply, ReplyCommands, StepAnswers
  <2>6. TransportTypeOK'
    BY <2>4, <2>5, AnswerType
  <2>7. cucumber[r].state \in Nat
    BY <2>3 DEF CucumberType
  <2>8. log' \in LogType
    BY <2>2, <2>4, <2>7, HandledType DEF ReplyCommands, StepAnswers
  <2>9. cucumber' \in [Runners -> CucumberType \cup {NULL}]
    BY <2>3, <2>4, CucumberRunType DEF StepsTypeOK
  <2> QED
    BY <1>8, <2>6, <2>8, <2>9 DEF RunStep, StepsTypeOK
<1>9. CASE StepNotFound(r)
  <2>1. IsRequest(requests[r]) /\ Head(requests[r]) = "RUN STEP"
    BY <1>9 DEF StepNotFound, StepRequested, HasRequest
  <2>2. requests[r][2] \in Names /\ 3 \in 1..Len(requests[r])
    <3>1. requests[r][2] \in Names /\ Len(requests[r]) = 3
      BY <2>1, FramesOfRequest, Zenon
    <3> QED
      BY <3>1
  <2>3. [command |-> "STEP NOT FOUND", id |-> requests[r][2]] \in Reply
    BY <2>2 DEF Reply, ReplyCommands, StepAnswers
  <2>4. TransportTypeOK'
    BY <1>9, <2>3, AnswerType DEF StepNotFound
  <2>5. cucumber[r].state \in Nat
    BY <1>9 DEF StepNotFound, StepRequested, StepsTypeOK, CucumberType
  <2>6. log' \in LogType
    BY <1>9, <2>2, <2>5, HandledType DEF StepNotFound, ReplyCommands, StepAnswers
  <2> QED
    BY <1>9, <2>4, <2>6 DEF StepNotFound, StepsTypeOK
<1>10. CASE StepCrashes(r) \/ StepUnscoped(r)
  BY <1>10, DieType DEF StepCrashes, StepUnscoped
<1>11. CASE IgnoreFrame(r)
  <2>1. Tail(requests[r]) \in Seq(Frames)
    BY <1>11, HeadTailProperties DEF IgnoreFrame, TransportTypeOK
  <2> QED
    BY <1>11, <2>1 DEF IgnoreFrame, StepsTypeOK, TransportTypeOK, stepsVars
<1> QED
  BY <1>1, <1>2, <1>3, <1>4, <1>5, <1>6, <1>7, <1>8, <1>9, <1>10, <1>11
     DEF ActorThread, RecvApi, RecvPickle

-----------------------------------------------------------------------------
(***************************************************************************)
(* The positions and the lists of the runner.  Steps of a step runner do   *)
(* not touch them.                                                         *)
(***************************************************************************)
LEMMA PositionsKept ==
  ASSUME RunnerTypeOK, Positions, RunnerThread
  PROVE  Positions'
<1> USE DEF Waiting, Positions
<1>1. CASE ListFile \/ Listed \/ CallRun
  BY <1>1 DEF ListFile, Listed, CallRun
<1>2. ASSUME NEW r \in Runners, CollectIdentity(r) PROVE Positions'
  BY <1>2 DEF CollectIdentity
<1>3. CASE NextFile \/ PrintError \/ EndDocument \/ Return
  BY <1>3 DEF NextFile, PrintError, EndDocument, Return
<1>4. CASE NextPickle
  <2>1. Head(pickles) \in Pickle
    BY <1>4, HeadTailProperties DEF NextPickle, RunnerTypeOK
  <2> QED
    BY <1>4, <2>1 DEF NextPickle
<1>5. CASE SendStart \/ SendStep \/ SendEnd
  BY <1>5 DEF SendStart, SendStep, SendEnd, SendTo
<1>6. ASSUME NEW r \in Runners, RecvStarted(r) \/ RecvEnded(r) PROVE Positions'
  BY <1>6 DEF RecvStarted, RecvEnded, RecvAnswer
<1>7. ASSUME NEW r \in Runners, RecvRan(r) PROVE Positions'
  BY <1>7 DEF RecvRan
<1>8. CASE FirstStep \/ BeginStep \/ EndStep \/ StepsDone \/ PickleDone
  BY <1>8 DEF FirstStep, BeginStep, EndStep, StepsDone, PickleDone
<1> QED
  BY <1>1, <1>2, <1>3, <1>4, <1>5, <1>6, <1>7, <1>8 DEF RunnerThread

(* No step runner is collected twice: it greets once.                      *)
LEMMA ListsKept ==
  ASSUME RunnerTypeOK, Positions, Lists, Wire, Greetings, RunnerThread
  PROVE  Lists'
<1>1. IsInjective(<<>>) /\ Elements(<<>>) = {}
  BY DEF IsInjective, Elements
<1>2. cursor # <<>> => IsInjective(Tail(cursor)) /\ Elements(Tail(cursor)) \subseteq Elements(cursor)
  BY ElementsOfTail DEF RunnerTypeOK, Lists
<1>3. CASE ListFile \/ Listed \/ CallRun
  BY <1>3 DEF ListFile, Listed, CallRun, Lists
<1>4. ASSUME NEW r \in Runners, CollectIdentity(r) PROVE Lists'
  <2>1. r \notin Elements(identities)
    <3>0. pc = "collect" /\ replies[r] # <<>>
      BY <1>4, Zenon DEF CollectIdentity, Receive
    <3>1. replies[r] = <<Greeting>>
      BY <3>0 DEF Wire, Quiet, Waiting
    <3>2. Head(replies[r]) = Greeting
      BY <3>1, ShortQueues, Zenon
    <3> QED
      BY <3>0, <3>2 DEF Greetings
  <2>2. /\ Elements(Append(identities, r)) = Elements(identities) \cup {r}
        /\ IsInjective(Append(identities, r))
    <3>1. identities \in Seq(Runners) /\ IsInjective(identities)
      BY DEF RunnerTypeOK, Lists
    <3> QED
      BY <2>1, <3>1, ElementsOfAppend, Zenon
  <2> QED
    BY <1>4, <2>2 DEF CollectIdentity, Lists
<1>5. CASE NextFile \/ PrintError \/ EndDocument \/ Return
  BY <1>5 DEF NextFile, PrintError, EndDocument, Return, Lists
<1>6. CASE NextPickle \/ BeginStep \/ StepsDone
  BY <1>6 DEF NextPickle, BeginStep, StepsDone, Lists
<1>7. CASE SendStart \/ SendStep \/ SendEnd
  BY <1>7 DEF SendStart, SendStep, SendEnd, SendTo, Lists
<1>8. ASSUME NEW r \in Runners, RecvStarted(r) \/ RecvEnded(r) PROVE Lists'
  BY <1>2, <1>8 DEF RecvStarted, RecvEnded, RecvAnswer, ZlistNext, Lists, Positions,
                    Waiting
<1>9. ASSUME NEW r \in Runners, RecvRan(r) PROVE Lists'
  BY <1>2, <1>9 DEF RecvRan, ZlistNext, Lists, Positions, Waiting
<1>10. CASE FirstStep \/ EndStep \/ PickleDone
  BY <1>10 DEF FirstStep, EndStep, PickleDone, Lists
<1> QED
  BY <1>3, <1>4, <1>5, <1>6, <1>7, <1>8, <1>9, <1>10 DEF RunnerThread

-----------------------------------------------------------------------------
(***************************************************************************)
(* What is on the wire.                                                    *)
(***************************************************************************)

(* The first message of a step runner is a greeting, or the answer to what *)
(* the feature runner asks it, and then the only message.                  *)
LEMMA FirstMessage ==
  ASSUME Wire, NEW r \in Runners, pc # "aborted", replies[r] # <<>>,
         Head(replies[r]) # Greeting
  PROVE  /\ pc \in Waiting /\ r = Head(cursor)
         /\ requests[r] = <<>>
         /\ AnswersAsked(Head(replies[r]))
         /\ replies[r] = <<Head(replies[r])>>
<1>1. replies[r] # <<Greeting>>
  <2>1. Head(<<Greeting>>) = Greeting
    BY ShortQueues
  <2> QED
    BY <2>1, Zenon
<1>2. pc \in Waiting /\ r = Head(cursor) /\ Asking(r)
  BY <1>1, Zenon DEF Wire, Quiet
<1>3. PICK reply \in Reply : /\ AnswersAsked(reply)
                            /\ replies[r] \in {<<reply>>, <<Greeting, reply>>}
  BY <1>1, <1>2 DEF Asking
<1>4. requests[r] = <<>>
  BY <1>1, <1>2 DEF Asking
<1>5. replies[r] = <<reply>> /\ Head(replies[r]) = reply
  <2>1. Head(<<Greeting, reply>>) = Greeting /\ Head(<<reply>>) = reply
    BY ShortQueues
  <2> QED
    BY <1>3, <2>1, Zenon
<1> QED
  BY <1>2, <1>3, <1>4, <1>5

(* An answer that has the scenario's id is the one that is waited for.     *)
LEMMA AcceptedAnswer ==
  ASSUME Positions, Wire, NEW r \in Runners, pc \in Waiting,
         Receive(r), ExpectedId(Head(replies[r]))
  PROVE  /\ r = Head(cursor)
         /\ requests[r] = <<>>
         /\ AnswersAsked(Head(replies[r]))
         /\ replies[r] = <<Head(replies[r])>>
<1>1. Greeting.id = NULL /\ PickleId(pickle) # NULL
  BY RunnerAssumption
     DEF Greeting, PickleId, Positions, Pickle, RunnerAssumption
<1>2. Head(replies[r]) # Greeting
  BY <1>1 DEF ExpectedId
<1>3. replies[r] # <<>> /\ pc # "aborted"
  BY DEF Receive, Waiting
<1> QED
  BY <1>2, <1>3, FirstMessage

(* Nothing is on the wire between two requests.                            *)
LEMMA QuietKept ==
  ASSUME Wire, pc \notin Waiting \cup {"aborted"}, pc' \notin Waiting \cup {"aborted"},
         UNCHANGED transportVars
  PROVE  Wire'
BY DEF Wire, Quiet, transportVars

(* A request is sent when nothing else is on the wire.                     *)
LEMMA WireSent ==
  ASSUME RunnerTypeOK, TransportTypeOK, Wire,
         pc \notin Waiting \cup {"aborted"}, NEW frames \in Seq(Frames),
         NEW waiting \in Waiting, SendTo(frames, waiting), frames = Asked'
  PROVE  Wire'
<1>1. Head(cursor) \in Runners
  BY HeadTailProperties DEF SendTo, RunnerTypeOK
<1>2. \A r \in Runners : Quiet(r)
  BY Zenon DEF Wire
<1>3. <<>> \o frames = frames
  BY ConcatEmptySeq
<1>4. requests'[Head(cursor)] \in {<<>>, Asked'}
  <2>1. requests[Head(cursor)] = <<>>
    BY <1>1, <1>2 DEF Quiet
  <2> QED
    BY <1>1, <1>3, <2>1 DEF SendTo, Send, TransportTypeOK
<1>5. \A r \in Runners : r # Head(cursor) => requests'[r] = requests[r]
  BY <1>1 DEF SendTo, Send, TransportTypeOK
<1>6. replies' = replies /\ pc' \in Waiting /\ pc' # "aborted" /\ cursor' = cursor
  BY DEF SendTo, Send, Waiting
<1>7. Asking(Head(cursor))'
  BY <1>1, <1>2, <1>4, <1>6 DEF Asking, Quiet
<1>8. \A r \in Runners : r # Head(cursor) => Quiet(r)'
  BY <1>2, <1>5, <1>6 DEF Quiet
<1> QED
  BY <1>6, <1>7, <1>8 DEF Wire

(* A failed assertion leaves whole requests behind it.                     *)
LEMMA WireAborted ==
  ASSUME RunnerTypeOK, Positions, Wire, pc' = "aborted", requests' = requests
  PROVE  Wire'
<1>1. \A r \in Runners : requests'[r] = <<>> \/ IsRequest(requests'[r])
  BY RequestsAreWhole
<1> QED
  BY <1>1 DEF Wire, Waiting, IsRequest

(* After an accepted answer nothing is left on the wire.                   *)
LEMMA WireAccepted ==
  ASSUME TransportTypeOK, Positions, Wire, NEW r \in Runners, pc \in Waiting,
         Receive(r), ExpectedId(Head(replies[r])),
         pc' \notin Waiting \cup {"aborted"}
  PROVE  Wire'
<1>1. /\ r = Head(cursor)
      /\ requests[r] = <<>>
      /\ replies[r] = <<Head(replies[r])>>
  BY AcceptedAnswer
<1>2. Tail(replies[r]) = <<>>
  BY <1>1, ShortQueues, Zenon
<1>3. requests' = requests /\ replies' = [replies EXCEPT ![r] = <<>>]
  BY <1>2 DEF Receive
<1>4. \A q \in Runners : q # r => Quiet(q)
  BY <1>1, Zenon DEF Wire, Waiting
<1>5. \A q \in Runners : Quiet(q)'
  BY <1>1, <1>3, <1>4 DEF Quiet, TransportTypeOK
<1> QED
  BY <1>5 DEF Wire

(* Every step of the feature runner keeps to one message on the wire.      *)
LEMMA WireKeptByRunner ==
  ASSUME RunnerTypeOK, TransportTypeOK, Positions, Wire, RunnerThread
  PROVE  Wire'
<1>1. CASE ListFile \/ Listed \/ CallRun
  BY <1>1, QuietKept DEF ListFile, Listed, CallRun, Waiting
<1>2. ASSUME NEW r \in Runners, CollectIdentity(r) PROVE Wire'
  <2>1. Quiet(r) /\ replies[r] = <<Greeting>>
    BY <1>2 DEF CollectIdentity, Receive, Wire, Quiet, Waiting
  <2>2. Tail(replies[r]) = <<>>
    BY <2>1, ShortQueues, Zenon
  <2> QED
    BY <1>2, <2>2 DEF CollectIdentity, Receive, Wire, Quiet, Waiting, TransportTypeOK
<1>3. CASE NextFile \/ PrintError \/ EndDocument \/ Return
  BY <1>3, QuietKept DEF NextFile, PrintError, EndDocument, Return, Waiting
<1>4. CASE NextPickle \/ FirstStep \/ BeginStep \/ EndStep \/ StepsDone \/ PickleDone
  BY <1>4, QuietKept
     DEF NextPickle, FirstStep, BeginStep, EndStep, StepsDone, PickleDone, Waiting
<1>5. CASE SendStart
  <2>1. StartRequest(pickle) \in Seq(Frames)
    BY <1>5, ScenarioRequestTypes DEF SendStart, Positions
  <2>2. StartRequest(pickle) = Asked'
    BY <1>5 DEF SendStart, SendTo, Asked, StartRequest
  <2> QED
    BY <1>5, <2>1, <2>2, WireSent DEF SendStart, Waiting
<1>6. CASE SendStep
  <2>1. Head(steps) \in Texts /\ pickle \in Pickle
    BY <1>6, HeadTailProperties DEF SendStep, RunnerTypeOK, Positions
  <2>2. StepRequest(pickle, Head(steps)) \in Seq(Frames)
    BY <2>1, StepRequestType
  <2>3. StepRequest(pickle, Head(steps)) = Asked'
    BY <1>6 DEF SendStep, SendTo, Asked, StepRequest
  <2> QED
    BY <1>6, <2>2, <2>3, WireSent DEF SendStep, Waiting
<1>7. CASE SendEnd
  <2>1. EndRequest(pickle) \in Seq(Frames)
    BY <1>7, ScenarioRequestTypes DEF SendEnd, Positions
  <2>2. EndRequest(pickle) = Asked'
    BY <1>7 DEF SendEnd, SendTo, Asked, EndRequest
  <2> QED
    BY <1>7, <2>1, <2>2, WireSent DEF SendEnd, Waiting
<1>8. ASSUME NEW r \in Runners, RecvStarted(r) \/ RecvEnded(r) PROVE Wire'
  <2>1. Receive(r) /\ requests' = requests /\ pc \in Waiting
    BY <1>8 DEF RecvStarted, RecvEnded, RecvAnswer, Receive, Waiting
  <2>2. \/ pc' = "aborted"
        \/ ExpectedId(Head(replies[r])) /\ pc' \notin Waiting \cup {"aborted"}
    BY <1>8 DEF RecvStarted, RecvEnded, RecvAnswer, Waiting
  <2> QED
    BY <2>1, <2>2, WireAborted, WireAccepted
<1>9. ASSUME NEW r \in Runners, RecvRan(r) PROVE Wire'
  <2>1. Receive(r) /\ requests' = requests /\ pc \in Waiting
    BY <1>9 DEF RecvRan, Receive, Waiting
  <2>2. \/ pc' = "aborted"
        \/ ExpectedId(Head(replies[r])) /\ pc' \notin Waiting \cup {"aborted"}
    BY <1>9, Zenon DEF RecvRan, Waiting
  <2> QED
    BY <2>1, <2>2, WireAborted, WireAccepted
<1> QED
  BY <1>1, <1>2, <1>3, <1>4, <1>5, <1>6, <1>7, <1>8, <1>9 DEF RunnerThread

(* Nothing of the wire is lost but with the process it belongs to. *)
LEMMA WireDisconnected ==
  ASSUME TransportTypeOK, Wire, NEW r \in Runners, Disconnect(r),
         UNCHANGED runnerVars
  PROVE  Wire'
<1>1. /\ requests' = [requests EXCEPT ![r] = <<>>]
      /\ \A q \in Runners : q # r => requests'[q] = requests[q] /\ replies'[q] = replies[q]
      /\ \E n \in 0..Len(replies[r]) : replies'[r] = SubSeq(replies[r], 1, n)
  BY DEF Disconnect, TransportTypeOK
<1>2. requests'[r] = <<>>
  BY <1>1 DEF TransportTypeOK
<1>3. ASSUME replies[r] \in {<<>>, <<Greeting>>}
      PROVE  replies'[r] \in {<<>>, <<Greeting>>}
  BY <1>1, <1>3, ShortPrefix
<1>4. ASSUME NEW reply, replies[r] \in {<<reply>>, <<Greeting, reply>>}
      PROVE  replies'[r] \in {<<>>, <<Greeting>>, <<reply>>, <<Greeting, reply>>}
  <2>1. PICK n \in 0..Len(replies[r]) : replies'[r] = SubSeq(replies[r], 1, n)
    BY <1>1
  <2>2. CASE replies[r] = <<reply>>
    BY <2>1, <2>2, ShortPrefix, Zenon
  <2>3. CASE replies[r] = <<Greeting, reply>>
    BY <2>1, <2>3, ShortPrefixes, Zenon
  <2> QED
    BY <1>4, <2>2, <2>3
<1>5. Quiet(r) => Quiet(r)'
  BY <1>2, <1>3 DEF Quiet
<1>6. Asking(r) => Asking(r)'
  <2>1. ASSUME NEW reply, AnswersAsked(reply) PROVE AnswersAsked(reply)'
    BY <2>1 DEF AnswersAsked, runnerVars
  <2>2. CASE replies[r] \in {<<>>, <<Greeting>>}
    BY <1>2, <1>3, <2>2 DEF Asking
  <2>3. ASSUME NEW reply \in Reply, AnswersAsked(reply),
               replies[r] \in {<<reply>>, <<Greeting, reply>>}
        PROVE  Asking(r)'
    <3>1. replies'[r] \in {<<>>, <<Greeting>>} \/ replies'[r] \in {<<reply>>, <<Greeting, reply>>}
      BY <1>4, <2>3
    <3>2. AnswersAsked(reply)'
      BY <2>1, <2>3
    <3> QED
      BY <1>2, <3>1, <3>2 DEF Asking
  <2> QED
    BY <2>2, <2>3 DEF Asking
<1>7. \A q \in Runners : q # r => (Quiet(q) => Quiet(q)') /\ (Asking(q) => Asking(q)')
  BY <1>1 DEF Quiet, Asking, Asked, AnswersAsked, runnerVars
<1>8. pc' = pc /\ cursor' = cursor
  BY DEF runnerVars
<1> QED
  BY <1>1, <1>2, <1>5, <1>6, <1>7, <1>8, Zenon DEF Wire

(* A step runner that connects adds its greeting only.                     *)
LEMMA WireGreeted ==
  ASSUME TransportTypeOK, Wire, NEW r \in Runners, replies[r] = <<>>,
         ConnectAndGreet(r, Greeting), UNCHANGED runnerVars
  PROVE  Wire'
<1>1. /\ requests' = requests
      /\ replies'[r] = <<Greeting>>
      /\ \A q \in Runners : q # r => replies'[q] = replies[q]
  BY ShortQueues DEF ConnectAndGreet, TransportTypeOK
<1>2. \A q \in Runners : q # r => (Quiet(q) => Quiet(q)') /\ (Asking(q) => Asking(q)')
  BY <1>1 DEF Quiet, Asking, Asked, AnswersAsked, runnerVars
<1>3. Quiet(r) => Quiet(r)'
  BY <1>1 DEF Quiet
<1>4. Asking(r) => Asking(r)'
  BY <1>1 DEF Asking, Asked, runnerVars
<1>5. pc' = pc /\ cursor' = cursor
  BY DEF runnerVars
<1> QED
  BY <1>1, <1>2, <1>3, <1>4, <1>5, Zenon DEF Wire

(* A handler answers what it was asked. *)
LEMMA WireAnswered ==
  ASSUME RunnerTypeOK, TransportTypeOK, Positions, Wire, NEW r \in Runners,
         requests[r] # <<>>, NEW reply \in Reply,
         reply.id = requests[r][2],
         Head(requests[r]) = "START SCENARIO" => reply.command = "SCENARIO STARTED",
         Head(requests[r]) = "RUN STEP" => reply.command \in StepAnswers,
         Head(requests[r]) = "END SCENARIO" => reply.command = "SCENARIO ENDED",
         ReadAndAnswer(r, Len(requests[r]), reply), UNCHANGED runnerVars
  PROVE  Wire'
<1>1. /\ requests'[r] = <<>>
      /\ replies'[r] = Append(replies[r], reply)
      /\ \A q \in Runners : q # r => requests'[q] = requests[q] /\ replies'[q] = replies[q]
  BY ReadAllFrames DEF ReadAndAnswer, TransportTypeOK
<1>2. pc' = pc /\ cursor' = cursor /\ pickle' = pickle /\ steps' = steps
  BY DEF runnerVars
<1>3. \A q \in Runners : q # r => (Quiet(q) => Quiet(q)') /\ (Asking(q) => Asking(q)')
  BY <1>1, <1>2 DEF Quiet, Asking, Asked, AnswersAsked
<1>4. CASE pc = "aborted"
  BY <1>1, <1>2, <1>4, Zenon DEF Wire, Waiting
<1>5. CASE pc # "aborted"
  <2>1. pc \in Waiting /\ r = Head(cursor) /\ Asking(r)
    BY <1>5, Zenon DEF Wire, Quiet
  <2>2. requests[r] = Asked /\ replies[r] \in {<<>>, <<Greeting>>}
    BY <2>1 DEF Asking
  <2>3. AnswersAsked(reply)
    <3>1. CASE pc = "started"
      <4>1. Head(requests[r]) = "START SCENARIO" /\ requests[r][2] = PickleId(pickle)
        <5>1. requests[r] = StartRequest(pickle)
          BY <2>2, <3>1 DEF Asked
        <5> QED
          BY <5>1, RequestParts, Zenon
      <4> QED
        BY <3>1, <4>1 DEF AnswersAsked
    <3>2. CASE pc = "ran"
      <4>1. Head(requests[r]) = "RUN STEP" /\ requests[r][2] = PickleId(pickle)
        <5>1. requests[r] = StepRequest(pickle, Head(steps))
          BY <2>2, <3>2 DEF Asked
        <5> QED
          BY <5>1, RequestParts, Zenon
      <4> QED
        BY <3>2, <4>1 DEF AnswersAsked
    <3>3. CASE pc = "ended"
      <4>1. Head(requests[r]) = "END SCENARIO" /\ requests[r][2] = PickleId(pickle)
        <5>1. requests[r] = EndRequest(pickle)
          BY <2>2, <3>3 DEF Asked
        <5> QED
          BY <5>1, RequestParts, Zenon
      <4> QED
        BY <3>3, <4>1 DEF AnswersAsked
    <3> QED
      BY <2>1, <3>1, <3>2, <3>3 DEF Waiting
  <2>4. replies'[r] \in {<<reply>>, <<Greeting, reply>>}
    BY <1>1, <2>2, ShortQueues
  <2>5. Asking(r)'
    BY <1>1, <1>2, <2>3, <2>4 DEF Asking, AnswersAsked
  <2> QED
    BY <1>2, <1>3, <1>5, <2>1, <2>5, Zenon DEF Wire
<1> QED
  BY <1>4, <1>5

(* Every step of a step runner keeps to one message on the wire.           *)
LEMMA WireKeptBySteps ==
  ASSUME RunnerTypeOK, StepsTypeOK, TransportTypeOK, Positions, Wire, Greetings,
         NEW r \in Runners, StepRunner(r), UNCHANGED runnerVars
  PROVE  Wire'
<1>1. CASE UNCHANGED transportVars
  BY <1>1 DEF Wire, Quiet, Asking, Asked, AnswersAsked, transportVars, runnerVars
<1>2. CASE CucumberStepsNew(r)
  BY <1>2, WireGreeted DEF CucumberStepsNew, Greetings
<1>3. CASE Disconnect(r)
  BY <1>3, WireDisconnected
<1>4. CASE StartScenario(r)
  <2>1. /\ requests[r] # <<>> /\ IsRequest(requests[r])
        /\ Head(requests[r]) = "START SCENARIO"
    BY <1>4, RequestsAreWhole DEF StartScenario, HasRequest
  <2>2. Len(requests[r]) = 2 /\ requests[r][2] \in Names
    BY <2>1, FramesOfRequest, Zenon
  <2> DEFINE reply == [command |-> "SCENARIO STARTED", id |-> requests[r][2]]
  <2>3. reply \in Reply
    BY <2>2 DEF Reply, ReplyCommands
  <2>4. ReadAndAnswer(r, Len(requests[r]), reply)
    BY <1>4, <2>2 DEF StartScenario
  <2> QED
    BY <2>1, <2>3, <2>4, WireAnswered
<1>5. CASE EndScenario(r)
  <2>1. /\ requests[r] # <<>> /\ IsRequest(requests[r])
        /\ Head(requests[r]) = "END SCENARIO"
    BY <1>5, RequestsAreWhole DEF EndScenario, HasRequest
  <2>2. Len(requests[r]) = 2 /\ requests[r][2] \in Names
    BY <2>1, FramesOfRequest, Zenon
  <2> DEFINE reply == [command |-> "SCENARIO ENDED", id |-> requests[r][2]]
  <2>3. reply \in Reply
    BY <2>2 DEF Reply, ReplyCommands
  <2>4. ReadAndAnswer(r, Len(requests[r]), reply)
    BY <1>5, <2>2 DEF EndScenario
  <2> QED
    BY <2>1, <2>3, <2>4, WireAnswered
<1>6. CASE RunStep(r) \/ StepNotFound(r)
  <2>1. /\ requests[r] # <<>> /\ IsRequest(requests[r])
        /\ Head(requests[r]) = "RUN STEP"
    BY <1>6, RequestsAreWhole DEF RunStep, StepNotFound, StepRequested, HasRequest
  <2>2. Len(requests[r]) = 3 /\ requests[r][2] \in Names
    BY <2>1, FramesOfRequest, Zenon
  <2>3. PICK command \in StepAnswers :
          ReadAndAnswer(r, 3, [command |-> command, id |-> requests[r][2]])
    BY <1>6 DEF RunStep, StepNotFound, StepAnswers
  <2> DEFINE reply == [command |-> command, id |-> requests[r][2]]
  <2>4. reply \in Reply
    BY <2>2 DEF Reply, ReplyCommands
  <2>5. ReadAndAnswer(r, Len(requests[r]), reply)
    BY <2>2, <2>3
  <2> QED
    BY <2>1, <2>4, <2>5, WireAnswered
<1>7. CASE IgnoreFrame(r)
  BY <1>7, RequestsAreWhole, FramesOfRequest DEF IgnoreFrame
<1> QED
  BY <1>1, <1>2, <1>3, <1>4, <1>5, <1>6, <1>7
     DEF StepRunner, MainThread, MainInput, ActorThread, RecvApi, RecvPickle, StartActor, ActorStarted,
         AppSends, EndOfInput, DestroyActor, Exit, RecvVerbose, RecvTerm,
         RecvInvalid, CucumberStepsDestroy, StepCrashes, StepUnscoped, Die
-----------------------------------------------------------------------------
(***************************************************************************)
(* What the handlers of a step runner read, and what they leave.           *)
(***************************************************************************)
Handler(r) == StartScenario(r) \/ EndScenario(r) \/ RunStep(r) \/ StepNotFound(r)

(* The request a step runner finds is what the feature runner asks for.    *)
LEMMA RequestedAt ==
  ASSUME Wire, NEW r \in Runners, requests[r] # <<>>, pc # "aborted"
  PROVE  /\ pc \in Waiting /\ r = Head(cursor)
         /\ Head(requests[r]) = "START SCENARIO" <=> pc = "started"
         /\ Head(requests[r]) = "RUN STEP" <=> pc = "ran"
         /\ Head(requests[r]) = "END SCENARIO" <=> pc = "ended"
<1>1. pc \in Waiting /\ r = Head(cursor)
  BY DEF Wire, Quiet
<1>2. requests[r] = Asked
  BY <1>1, Zenon DEF Wire, Asking
<1>3. CASE pc = "started"
  <2>1. requests[r] = StartRequest(pickle)
    BY <1>2, <1>3 DEF Asked
  <2>2. Head(requests[r]) = "START SCENARIO"
    BY <2>1, RequestParts, Zenon
  <2> QED
    BY <1>1, <1>3, <2>2
<1>4. CASE pc = "ran"
  <2>1. requests[r] = StepRequest(pickle, Head(steps))
    BY <1>2, <1>4 DEF Asked
  <2>2. Head(requests[r]) = "RUN STEP"
    BY <2>1, RequestParts, Zenon
  <2> QED
    BY <1>1, <1>4, <2>2
<1>5. CASE pc = "ended"
  <2>1. requests[r] = EndRequest(pickle)
    BY <1>2, <1>5 DEF Asked
  <2>2. Head(requests[r]) = "END SCENARIO"
    BY <2>1, RequestParts, Zenon
  <2> QED
    BY <1>1, <1>5, <2>2
<1> QED
  BY <1>1, <1>3, <1>4, <1>5 DEF Waiting

(* A handler reads its request whole, and answers it once.                 *)
LEMMA HandlerAnswers ==
  ASSUME TransportTypeOK, NEW r \in Runners, Handler(r),
         requests[r] # <<>> => IsRequest(requests[r])
  PROVE  /\ actor[r] = "loop" /\ requests[r] # <<>>
         /\ requests'[r] = <<>>
         /\ \A q \in Runners : q # r => requests'[q] = requests[q]
         /\ \E reply \in Reply : /\ reply # Greeting
                                 /\ replies' = [replies EXCEPT ![r] = Append(@, reply)]
         /\ UNCHANGED <<main, args, actor, peers>>
<1>1. /\ actor[r] = "loop" /\ requests[r] # <<>>
      /\ UNCHANGED <<main, args, actor>>
  BY DEF Handler, StartScenario, EndScenario, RunStep, StepNotFound,
         StepRequested, HasRequest
<1>2. IsRequest(requests[r])
  BY <1>1
<1>3. PICK command \in ReplyCommands \ {"HELLO"} :
        ReadAndAnswer(r, Len(requests[r]), [command |-> command, id |-> requests[r][2]])
  <2>1. CASE StartScenario(r)
    <3>1. Len(requests[r]) = 2
      BY <1>2, <2>1, FramesOfRequest DEF StartScenario, HasRequest
    <3> QED
      BY <2>1, <3>1 DEF StartScenario, ReplyCommands
  <2>2. CASE EndScenario(r)
    <3>1. Len(requests[r]) = 2
      BY <1>2, <2>2, FramesOfRequest DEF EndScenario, HasRequest
    <3> QED
      BY <2>2, <3>1 DEF EndScenario, ReplyCommands
  <2>3. CASE RunStep(r) \/ StepNotFound(r)
    <3>1. Len(requests[r]) = 3
      BY <1>2, <2>3, FramesOfRequest DEF RunStep, StepNotFound, StepRequested, HasRequest
    <3>2. PICK command \in StepAnswers :
            ReadAndAnswer(r, 3, [command |-> command, id |-> requests[r][2]])
      BY <2>3 DEF RunStep, StepNotFound, StepAnswers
    <3> QED
      BY <3>1, <3>2 DEF ReplyCommands, StepAnswers
  <2> QED
    BY <2>1, <2>2, <2>3 DEF Handler
<1> DEFINE reply == [command |-> command, id |-> requests[r][2]]
<1>4. reply \in Reply
  BY <1>2, FramesOfRequest DEF Reply
<1>5. reply # Greeting
  BY DEF Greeting
<1>6. /\ requests'[r] = <<>>
      /\ \A q \in Runners : q # r => requests'[q] = requests[q]
  BY <1>3, ReadAllFrames DEF ReadAndAnswer, TransportTypeOK
<1>7. peers' = peers /\ replies' = [replies EXCEPT ![r] = Append(@, reply)]
  BY <1>3 DEF ReadAndAnswer
<1> HIDE DEF reply
<1> QED
  BY <1>1, <1>4, <1>5, <1>6, <1>7

-----------------------------------------------------------------------------
(***************************************************************************)
(* Greetings.                                                              *)
(***************************************************************************)

(* The first message stays the first when another one is queued behind it. *)
LEMMA HeadOfAppend ==
  ASSUME NEW S, NEW s \in Seq(S), NEW e \in S
  PROVE  /\ s = <<>> => Head(Append(s, e)) = e
         /\ s # <<>> => Head(Append(s, e)) = Head(s)
<1>1. /\ Append(s, e) \in Seq(S) /\ Len(Append(s, e)) = Len(s) + 1
      /\ \A i \in 1..Len(s) : Append(s, e)[i] = s[i]
      /\ Append(s, e)[Len(s) + 1] = e
  BY AppendProperties
<1>2. Append(s, e) # <<>> /\ Head(Append(s, e)) = Append(s, e)[1]
  BY <1>1, LenProperties
<1>3. CASE s = <<>>
  <2>1. Len(s) = 0
    BY <1>3
  <2> QED
    BY <1>1, <1>2, <1>3, <2>1
<1>4. CASE s # <<>>
  <2>1. Head(s) = s[1] /\ 1 \in 1..Len(s)
    BY <1>4, EmptySeq, LenProperties
  <2> QED
    BY <1>1, <1>2, <1>4, <2>1
<1> QED
  BY <1>3, <1>4

(* It also does when a suffix of the queue is lost, unless all of it is.   *)
LEMMA HeadOfPrefix ==
  ASSUME NEW S, NEW s \in Seq(S), NEW n \in 0..Len(s)
  PROVE  SubSeq(s, 1, n) = <<>> \/ (s # <<>> /\ Head(SubSeq(s, 1, n)) = Head(s))
<1>1. Len(s) \in Nat
  BY LenProperties
<1>2. CASE n = 0
  BY <1>2, SubSeqEmpty
<1>3. CASE n # 0
  <2>1. 1 \in 1..n /\ 1 \in 1..Len(s)
    BY <1>1, <1>3
  <2>2. /\ SubSeq(s, 1, n) \in Seq(S)
        /\ Len(SubSeq(s, 1, n)) = n
        /\ SubSeq(s, 1, n)[1] = s[1]
    BY <1>1, <2>1, SubSeqProperties, PrefixType
  <2>3. s # <<>> /\ Head(s) = s[1]
    BY <2>1
  <2>4. SubSeq(s, 1, n) # <<>> /\ Head(SubSeq(s, 1, n)) = SubSeq(s, 1, n)[1]
    BY <1>3, <2>2
  <2> QED
    BY <2>2, <2>3, <2>4
<1> QED
  BY <1>2, <1>3
(* A request reaches no step runner that has not connected.                *)
LEMMA GreetingsSent ==
  ASSUME StepsTypeOK, TransportTypeOK, Greetings, NEW r \in Runners, NEW frames,
         Send(r, frames), UNCHANGED <<identities, stepsVars>>
  PROVE  Greetings'
<1>1. \A q \in Runners : actor[q] \in {"none", "init"} => requests'[q] = requests[q]
  BY DEF Send, Greetings, TransportTypeOK
<1>2. replies' = replies /\ peers' = peers
  BY DEF Send
<1> QED
  BY <1>1, <1>2 DEF Greetings, stepsVars

(* A reply of a collected step runner is its only one.                     *)
LEMMA GreetingsReceived ==
  ASSUME TransportTypeOK, Wire, Greetings, pc # "aborted", NEW r \in Runners,
         Receive(r), UNCHANGED <<identities, stepsVars>>
  PROVE  Greetings'
<1>1. /\ replies[r] # <<>> /\ requests' = requests /\ peers' = peers
      /\ replies'[r] = Tail(replies[r])
      /\ \A q \in Runners : q # r => replies'[q] = replies[q]
  BY DEF Receive, TransportTypeOK
<1>2. ASSUME r \in Elements(identities) PROVE replies'[r] = <<>>
  <2>1. Head(replies[r]) # Greeting
    BY <1>1, <1>2 DEF Greetings
  <2>2. replies[r] = <<Head(replies[r])>>
    BY <1>1, <2>1, FirstMessage
  <2> QED
    BY <1>1, <2>2, ShortQueues, Zenon
<1>3. actor[r] \notin {"none", "init"}
  BY <1>1 DEF Greetings
<1> QED
  BY <1>1, <1>2, <1>3 DEF Greetings, stepsVars

(* Every step of the feature runner keeps the account of greetings.        *)
LEMMA GreetingsKeptByRunner ==
  ASSUME RunnerTypeOK, StepsTypeOK, TransportTypeOK, Wire, Greetings, RunnerThread,
         UNCHANGED stepsVars
  PROVE  Greetings'
<1>1. CASE UNCHANGED <<identities, transportVars>>
  BY <1>1 DEF Greetings, transportVars, stepsVars
<1>2. ASSUME NEW r \in Runners, CollectIdentity(r) PROVE Greetings'
  <2>1. pc = "collect" /\ replies[r] # <<>>
    BY <1>2, Zenon DEF CollectIdentity, Receive
  <2>2. replies[r] = <<Greeting>>
    BY <2>1 DEF Wire, Quiet, Waiting
  <2>3. /\ requests' = requests /\ peers' = peers
        /\ replies' = [replies EXCEPT ![r] = Tail(@)]
    BY <1>2 DEF CollectIdentity, Receive
  <2>4. /\ replies'[r] = <<>>
        /\ \A q \in Runners : q # r => replies'[q] = replies[q]
    <3>1. Tail(replies[r]) = <<>>
      BY <2>2, ShortQueues, Zenon
    <3> QED
      BY <2>3, <3>1 DEF TransportTypeOK
  <2>5. Elements(identities') = Elements(identities) \cup {r}
    <3>1. identities' = Append(identities, r)
      BY <1>2 DEF CollectIdentity
    <3>2. identities \in Seq(Runners)
      BY DEF RunnerTypeOK
    <3>3. Elements(Append(identities, r)) = Elements(identities) \cup {r}
      BY <3>2, ElementsOfAppend
    <3> QED
      BY <3>1, <3>3
  <2>6. actor[r] \notin {"none", "init"}
    BY <2>1 DEF Greetings
  <2>7. Elements(identities)' = Elements(identities')
    BY DEF Elements
  <2> QED
    BY <2>3, <2>4, <2>5, <2>6, <2>7 DEF Greetings, stepsVars
<1>3. ASSUME NEW frames, NEW waiting, SendTo(frames, waiting) PROVE Greetings'
  <2>1. Head(cursor) \in Runners
    BY <1>3, HeadTailProperties DEF SendTo, RunnerTypeOK
  <2> QED
    BY <1>3, <2>1, GreetingsSent DEF SendTo
<1>4. ASSUME NEW r \in Runners, RecvStarted(r) \/ RecvEnded(r) PROVE Greetings'
  BY <1>4, GreetingsReceived DEF RecvStarted, RecvEnded, RecvAnswer
<1>5. ASSUME NEW r \in Runners, RecvRan(r) PROVE Greetings'
  BY <1>5, GreetingsReceived DEF RecvRan
<1> QED
  BY <1>1, <1>2, <1>3, <1>4, <1>5
     DEF RunnerThread, ListFile, Listed, CallRun, NextFile, PrintError,
         EndDocument, Return, NextPickle, SendStart, SendStep, SendEnd,
         FirstStep, BeginStep, EndStep, StepsDone, PickleDone

(* A socket that is closed brings no greeting back.                        *)
LEMMA GreetingsDisconnected ==
  ASSUME StepsTypeOK, TransportTypeOK, Greetings, NEW r \in Runners, Disconnect(r),
         actor'[r] \in {"gone", "dead"}, main'[r] # "boot",
         \A q \in Runners : q # r => actor'[q] = actor[q] /\ main'[q] = main[q],
         UNCHANGED runnerVars
  PROVE  Greetings'
<1>1. /\ peers' = peers \ {r}
      /\ \A q \in Runners : q # r => requests'[q] = requests[q] /\ replies'[q] = replies[q]
      /\ \E n \in 0..Len(replies[r]) : replies'[r] = SubSeq(replies[r], 1, n)
  BY DEF Disconnect, TransportTypeOK
<1>2. replies[r] \in Seq(Reply)
  BY DEF TransportTypeOK
<1>3. replies'[r] = <<>> \/ (replies[r] # <<>> /\ Head(replies'[r]) = Head(replies[r]))
  BY <1>1, <1>2, HeadOfPrefix
<1>4. identities' = identities
  BY DEF runnerVars
<1> QED
  BY <1>1, <1>3, <1>4 DEF Greetings

(* Every step of a step runner keeps the account of greetings.             *)
LEMMA GreetingsKeptBySteps ==
  ASSUME RunnerTypeOK, StepsTypeOK, TransportTypeOK, Positions, Wire, Greetings,
         NEW r \in Runners, StepRunner(r), UNCHANGED runnerVars
  PROVE  Greetings'
<1>0. identities' = identities
  BY DEF runnerVars
<1>1. CASE UNCHANGED <<actor, transportVars>> /\ main[r] # "boot"
           /\ \E state \in MainStates \ {"boot"} : main' = [main EXCEPT ![r] = state]
  BY <1>0, <1>1 DEF Greetings, transportVars, StepsTypeOK
<1>2. CASE UNCHANGED <<main, actor, transportVars>>
  BY <1>0, <1>2 DEF Greetings, transportVars
<1>3. CASE StartActor(r)
  BY <1>0, <1>3 DEF StartActor, Greetings, transportVars, StepsTypeOK
<1>4. CASE CucumberStepsNew(r)
  <2>1. /\ actor[r] = "init" /\ actor' = [actor EXCEPT ![r] = "loop"]
        /\ main' = main /\ peers' = peers \cup {r} /\ requests' = requests
        /\ \A q \in Runners : q # r => replies'[q] = replies[q]
    BY <1>4 DEF CucumberStepsNew, ConnectAndGreet, TransportTypeOK
  <2> QED
    BY <1>0, <2>1 DEF Greetings, StepsTypeOK
<1>5. CASE RecvTerm(r)
  BY <1>0, <1>5 DEF RecvTerm, HasCommand, Greetings, transportVars, StepsTypeOK
<1>6. CASE Die(r) /\ actor[r] = "loop"
  <2>1. /\ actor'[r] = "dead" /\ main'[r] = "dead" /\ Disconnect(r)
        /\ \A q \in Runners : q # r => actor'[q] = actor[q] /\ main'[q] = main[q]
    BY <1>6 DEF Die, StepsTypeOK
  <2> QED
    BY <2>1, GreetingsDisconnected
<1>7. CASE CucumberStepsDestroy(r)
  <2>1. /\ actor[r] = "terminated" /\ actor'[r] = "gone" /\ main' = main
        /\ Disconnect(r)
        /\ \A q \in Runners : q # r => actor'[q] = actor[q]
    BY <1>7 DEF CucumberStepsDestroy, StepsTypeOK
  <2>2. main[r] # "boot"
    BY <2>1 DEF Greetings
  <2> QED
    BY <2>1, <2>2, GreetingsDisconnected
<1>8. CASE Handler(r)
  <2>1. /\ actor[r] = "loop"
        /\ \A q \in Runners : q # r => requests'[q] = requests[q]
        /\ UNCHANGED <<main, actor, peers>>
    BY <1>8, RequestsAreWhole, HandlerAnswers
  <2>2. PICK reply \in Reply : /\ reply # Greeting
                              /\ replies' = [replies EXCEPT ![r] = Append(@, reply)]
    BY <1>8, RequestsAreWhole, HandlerAnswers
  <2>3. replies[r] \in Seq(Reply)
    BY DEF TransportTypeOK
  <2>4. /\ replies[r] = <<>> => Head(replies'[r]) = reply
        /\ replies[r] # <<>> => Head(replies'[r]) = Head(replies[r])
        /\ \A q \in Runners : q # r => replies'[q] = replies[q]
    BY <2>2, <2>3, HeadOfAppend DEF TransportTypeOK
  <2> QED
    BY <1>0, <2>1, <2>2, <2>4 DEF Greetings
<1>9. CASE IgnoreFrame(r)
  BY <1>9, RequestsAreWhole, FramesOfRequest DEF IgnoreFrame
<1>10. CASE MainThread(r) \/ MainInput(r)
  <2>1. CASE ActorStarted(r) \/ DestroyActor(r) \/ Exit(r)
    BY <1>1, <2>1 DEF ActorStarted, DestroyActor, Exit, MainStates
  <2>2. CASE AppSends(r) \/ EndOfInput(r)
    BY <1>1, <1>2, <2>2 DEF AppSends, EndOfInput, MainStates
  <2> QED
    BY <1>3, <1>10, <2>1, <2>2 DEF MainThread, MainInput
<1>11. CASE ActorThread(r)
  <2>1. CASE RecvVerbose(r)
    BY <1>2, <2>1 DEF RecvVerbose
  <2>2. CASE RecvInvalid(r) \/ StepCrashes(r) \/ StepUnscoped(r)
    BY <1>6, <2>2 DEF RecvInvalid, StepCrashes, StepUnscoped, StepRequested,
                      HasCommand, HasRequest
  <2> QED
    BY <1>4, <1>5, <1>7, <1>8, <1>9, <1>11, <2>1, <2>2 DEF ActorThread, RecvApi, RecvPickle, Handler
<1> QED
  BY <1>10, <1>11 DEF StepRunner
-----------------------------------------------------------------------------
(***************************************************************************)
(* The caller's list, and the greetings it lacks.                          *)
(***************************************************************************)
LEMMA CollectedKept ==
  ASSUME Collected, RunnerThread
  PROVE  Collected'
<1> USE DEF Collected, AllAwaited, Elements
<1>1. CASE UNCHANGED identities /\ (pc \in {"list", "collect"} => pc' \in {"list", "collect"})
  BY <1>1
<1>2. CASE ListFile \/ Listed
  BY <1>2 DEF ListFile, Listed
<1>3. ASSUME NEW r \in Runners, CollectIdentity(r) PROVE Collected'
  BY <1>3 DEF CollectIdentity
<1>4. CASE CallRun
  BY <1>4 DEF CallRun
<1>5. ASSUME NEW r \in Runners, RecvStarted(r) \/ RecvEnded(r) \/ RecvRan(r)
      PROVE  Collected'
  BY <1>1, <1>5, Zenon DEF RecvStarted, RecvEnded, RecvAnswer, RecvRan
<1> QED
  BY <1>1, <1>2, <1>3, <1>4, <1>5
     DEF RunnerThread, NextFile, PrintError, EndDocument, Return, NextPickle,
         SendStart, SendStep, SendEnd, SendTo, FirstStep, BeginStep, EndStep,
         StepsDone, PickleDone

(* What fails an assertion of run is a greeting nobody collected.          *)
LEMMA AbortedByGreeting ==
  ASSUME Wire, Greetings, Positions, NEW r \in Runners,
         RecvStarted(r) \/ RecvEnded(r) \/ RecvRan(r), pc' = "aborted"
  PROVE  /\ Receive(r) /\ Head(replies[r]) = Greeting
         /\ r \notin Elements(identities) /\ actor[r] \notin {"none", "init"}
<1>1. Receive(r) /\ replies[r] # <<>> /\ pc \in Waiting /\ pc # "aborted"
  BY Zenon DEF RecvStarted, RecvEnded, RecvRan, RecvAnswer, Receive, Waiting
<1>2. Head(replies[r]) = Greeting
  <2>1. SUFFICES ASSUME Head(replies[r]) # Greeting PROVE FALSE
    OBVIOUS
  <2>2. AnswersAsked(Head(replies[r]))
    BY <1>1, <2>1, FirstMessage
  <2>3. ExpectedId(Head(replies[r]))
    BY <2>2 DEF AnswersAsked, ExpectedId
  <2>4. CASE RecvStarted(r)
    BY <2>2, <2>3, <2>4 DEF RecvStarted, RecvAnswer, AnswersAsked
  <2>5. CASE RecvEnded(r)
    BY <2>2, <2>3, <2>5 DEF RecvEnded, RecvAnswer, AnswersAsked
  <2>6. CASE RecvRan(r)
    BY <2>3, <2>6, Zenon DEF RecvRan
  <2> QED
    BY <2>4, <2>5, <2>6
<1> QED
  BY <1>1, <1>2 DEF Greetings

(* Only the assertions on an answer abort a run.                           *)
LEMMA AbortedByAnswer ==
  ASSUME RunnerThread, pc' = "aborted"
  PROVE  \E r \in Runners : RecvStarted(r) \/ RecvEnded(r) \/ RecvRan(r)
BY DEF RunnerThread, ListFile, Listed, CollectIdentity, CallRun, NextFile,
       PrintError, EndDocument, Return, NextPickle, SendStart, SendStep,
       SendEnd, SendTo, FirstStep, BeginStep, EndStep, StepsDone, PickleDone

(* So a run that is aborted lacks the step runner that greeted it.         *)
LEMMA AbortKeptByRunner ==
  ASSUME Wire, Greetings, Positions, StrangersAbort, RunnerThread,
         UNCHANGED stepsVars
  PROVE  StrangersAbort'
<1>1. CASE pc' # "aborted"
  BY <1>1 DEF StrangersAbort
<1>2. CASE pc' = "aborted"
  <2>1. PICK r \in Runners : RecvStarted(r) \/ RecvEnded(r) \/ RecvRan(r)
    BY <1>2, AbortedByAnswer
  <2>2. r \notin Elements(identities) /\ actor[r] \notin {"none", "init"}
    BY <1>2, <2>1, AbortedByGreeting
  <2>3. identities' = identities
    BY <2>1, Zenon DEF RecvStarted, RecvEnded, RecvRan, RecvAnswer
  <2> QED
    BY <2>2, <2>3 DEF StrangersAbort, Elements, stepsVars
<1> QED
  BY <1>1, <1>2

(* A step runner that has greeted never goes back to before it.            *)
LEMMA AbortKeptBySteps ==
  ASSUME StepsTypeOK, Greetings, StrangersAbort, NEW r \in Runners, StepRunner(r),
         UNCHANGED runnerVars
  PROVE  StrangersAbort'
<1>1. \A q \in Runners : actor[q] \notin {"none", "init"} => actor'[q] \notin {"none", "init"}
  <2>1. CASE StartActor(r)
    BY <2>1 DEF StartActor, Greetings, StepsTypeOK
  <2>2. CASE ActorThread(r)
    BY <2>2 DEF ActorThread, RecvApi, RecvPickle, CucumberStepsNew, RecvVerbose, RecvTerm, RecvInvalid,
                CucumberStepsDestroy, StartScenario, EndScenario, RunStep,
                StepNotFound, StepCrashes, StepUnscoped, IgnoreFrame, Die, stepsVars,
                StepsTypeOK
  <2>3. CASE ActorStarted(r) \/ DestroyActor(r) \/ Exit(r) \/ MainInput(r)
    BY <2>3 DEF ActorStarted, DestroyActor, Exit, MainInput, AppSends, EndOfInput
  <2> QED
    BY <2>1, <2>2, <2>3 DEF StepRunner, MainThread
<1>2. pc' = pc /\ identities' = identities
  BY DEF runnerVars
<1> QED
  BY <1>1, <1>2 DEF StrangersAbort, Elements
-----------------------------------------------------------------------------
(***************************************************************************)
(* Which step runners have a scenario.                                     *)
(***************************************************************************)

(* What a request sent to the step runner at the cursor changes.           *)
LEMMA SentRequest ==
  ASSUME RunnerTypeOK, TransportTypeOK, Wire, Greetings, Lists,
         pc \notin Waiting \cup {"aborted"}, NEW frames \in Seq(Frames), frames # <<>>,
         NEW waiting, SendTo(frames, waiting)
  PROVE  /\ Head(cursor) \in Runners /\ Head(cursor) \in Elements(cursor)
         /\ Head(cursor) \in Elements(identities)
         /\ requests'[Head(cursor)] \in {<<>>, frames}
         /\ actor[Head(cursor)] = "loop" => requests'[Head(cursor)] = frames
         /\ \A r \in Runners : r # Head(cursor) => requests'[r] = requests[r]
         /\ pc' = waiting /\ UNCHANGED <<cursor, identities>>
<1>1. /\ Head(cursor) \in Runners /\ Head(cursor) \in Elements(cursor)
      /\ Head(cursor) \in Elements(identities)
  <2>1. cursor \in Seq(Runners) /\ cursor # <<>>
    BY DEF SendTo, RunnerTypeOK
  <2> QED
    BY <2>1, ElementsOfTail DEF Lists
<1>2. requests[Head(cursor)] = <<>>
  BY <1>1, Zenon DEF Wire, Quiet
<1>3. <<>> \o frames = frames
  BY ConcatEmptySeq
<1>4. requests'[Head(cursor)] = IF Head(cursor) \in peers THEN frames ELSE <<>>
  BY <1>1, <1>2, <1>3 DEF SendTo, Send, TransportTypeOK
<1>5. \A r \in Runners : r # Head(cursor) => requests'[r] = requests[r]
  BY <1>1 DEF SendTo, Send, TransportTypeOK
<1>6. actor[Head(cursor)] = "loop" => Head(cursor) \in peers
  BY <1>1 DEF Greetings
<1>7. pc' = waiting /\ UNCHANGED <<cursor, identities>>
  BY DEF SendTo
<1> QED
  BY <1>1, <1>4, <1>5, <1>6, <1>7

(* What an accepted answer changes.                                        *)
LEMMA ReceivedAnswer ==
  ASSUME RunnerTypeOK, Positions, Wire, Lists, NEW r \in Runners, pc \in Waiting,
         Receive(r), ExpectedId(Head(replies[r])), cursor' = ZlistNext(cursor)
  PROVE  /\ r = Head(cursor) /\ requests[r] = <<>>
         /\ Elements(cursor) = {r} \cup Elements(cursor')
         /\ r \notin Elements(cursor') /\ r \in Elements(identities)
         /\ requests' = requests
<1>1. r = Head(cursor) /\ requests[r] = <<>>
  BY AcceptedAnswer
<1>2. cursor \in Seq(Runners) /\ cursor # <<>> /\ IsInjective(cursor)
  BY DEF RunnerTypeOK, Positions, Lists
<1>3. /\ Elements(cursor) = {r} \cup Elements(Tail(cursor))
      /\ r \notin Elements(Tail(cursor))
  BY <1>1, <1>2, ElementsOfTail
<1>4. requests' = requests
  BY DEF Receive
<1> QED
  BY <1>1, <1>3, <1>4 DEF ZlistNext, Lists

(* The loops on identities move as the scenarios of step runners do.       *)
LEMMA OpenedKeptByRunner ==
  ASSUME RunnerTypeOK, TransportTypeOK, Positions, Lists, Wire, Greetings,
         RunnerThread, pc' # "aborted"
  PROVE  \A r \in Runners : actor[r] = "loop" => (Opened(r) <=> Opened(r)')
<1> DEFINE Goal == \A r \in Runners : actor[r] = "loop" => (Opened(r) <=> Opened(r)')
<1>1. CASE ListFile \/ Listed \/ CallRun \/ NextFile \/ PrintError \/ EndDocument \/ Return
  BY <1>1 DEF ListFile, Listed, CallRun, NextFile, PrintError, EndDocument,
                    Return, Opened
<1>2. ASSUME NEW r \in Runners, CollectIdentity(r) PROVE Goal
  BY <1>2 DEF CollectIdentity, Opened
<1>3. CASE NextPickle \/ PickleDone
  BY <1>3 DEF NextPickle, PickleDone, Opened, Elements
<1>4. CASE BeginStep \/ EndStep
  BY <1>4 DEF BeginStep, EndStep, Opened, Elements
<1>5. CASE FirstStep
  BY <1>5 DEF FirstStep, Opened, Elements
<1>6. CASE StepsDone
  BY <1>6 DEF StepsDone, Opened, Elements
<1>7. CASE SendStart
  <2>1. StartRequest(pickle) \in Seq(Frames) /\ StartRequest(pickle) # <<>>
    BY <1>7, ScenarioRequestTypes, RequestParts DEF SendStart, Positions
  <2>2. pc = "start" /\ SendTo(StartRequest(pickle), "started")
    BY <1>7 DEF SendStart
  <2>3. /\ Head(cursor) \in Elements(cursor)
        /\ actor[Head(cursor)] = "loop" => requests'[Head(cursor)] # <<>>
        /\ pc' = "started" /\ UNCHANGED <<cursor, identities>>
    BY <2>1, <2>2, SentRequest DEF Waiting
  <2> QED
    BY <2>2, <2>3 DEF Opened
<1>8. CASE SendStep
  BY <1>8 DEF SendStep, SendTo, Opened
<1>9. CASE SendEnd
  <2>1. EndRequest(pickle) \in Seq(Frames) /\ EndRequest(pickle) # <<>>
    BY <1>9, ScenarioRequestTypes, RequestParts DEF SendEnd, Positions
  <2>2. pc = "end" /\ SendTo(EndRequest(pickle), "ended")
    BY <1>9 DEF SendEnd
  <2>3. /\ Head(cursor) \in Elements(cursor)
        /\ actor[Head(cursor)] = "loop" => requests'[Head(cursor)] # <<>>
        /\ pc' = "ended" /\ UNCHANGED <<cursor, identities>>
    BY <2>1, <2>2, SentRequest DEF Waiting
  <2> QED
    BY <2>2, <2>3 DEF Opened
<1>10. ASSUME NEW q \in Runners, RecvStarted(q) PROVE Goal
  <2>1. /\ pc = "started" /\ pc' = "start" /\ UNCHANGED identities
        /\ Receive(q) /\ ExpectedId(Head(replies[q])) /\ cursor' = ZlistNext(cursor)
    BY <1>10, Zenon DEF RecvStarted, RecvAnswer
  <2>2. /\ q = Head(cursor) /\ requests[q] = <<>>
        /\ Elements(cursor) = {q} \cup Elements(cursor')
        /\ q \notin Elements(cursor') /\ q \in Elements(identities)
        /\ requests' = requests
    BY <2>1, ReceivedAnswer DEF Waiting
  <2>3. Elements(cursor)' = Elements(cursor')
    BY DEF Elements
  <2> QED
    BY <2>1, <2>2, <2>3 DEF Opened
<1>11. ASSUME NEW q \in Runners, RecvEnded(q) PROVE Goal
  <2>1. /\ pc = "ended" /\ pc' = "end" /\ UNCHANGED identities
        /\ Receive(q) /\ ExpectedId(Head(replies[q])) /\ cursor' = ZlistNext(cursor)
    BY <1>11, Zenon DEF RecvEnded, RecvAnswer
  <2>2. /\ q = Head(cursor) /\ requests[q] = <<>>
        /\ Elements(cursor) = {q} \cup Elements(cursor')
        /\ q \notin Elements(cursor') /\ q \in Elements(identities)
        /\ requests' = requests
    BY <2>1, ReceivedAnswer DEF Waiting
  <2>3. Elements(cursor)' = Elements(cursor')
    BY DEF Elements
  <2> QED
    BY <2>1, <2>2, <2>3 DEF Opened
<1>12. ASSUME NEW q \in Runners, RecvRan(q) PROVE Goal
  <2>1. pc = "ran" /\ pc' = "run" /\ UNCHANGED identities
    BY <1>12, Zenon DEF RecvRan
  <2> QED
    BY <2>1 DEF Opened
<1> QED
  BY <1>1, <1>2, <1>3, <1>4, <1>5, <1>6, <1>7, <1>8, <1>9, <1>10, <1>11,
     <1>12 DEF RunnerThread

LEMMA ScenariosKeptByRunner ==
  ASSUME RunnerTypeOK, StepsTypeOK, TransportTypeOK, Positions, Lists, Wire,
         Greetings, Scenarios, RunnerThread, UNCHANGED stepsVars
  PROVE  Scenarios'
<1>1. CASE pc' = "aborted"
  BY <1>1 DEF Scenarios, stepsVars
<1>2. CASE pc' # "aborted"
  <2>1. \A r \in Runners : actor[r] = "loop" => (Opened(r) <=> Opened(r)')
    BY <1>2, OpenedKeptByRunner
  <2>2. pc # "aborted"
    BY <1>2 DEF RunnerThread, ListFile, Listed, CollectIdentity, CallRun, NextFile,
                PrintError, EndDocument, Return, NextPickle, SendStart, SendStep, SendEnd,
                RecvStarted, RecvEnded, RecvAnswer, RecvRan, FirstStep, BeginStep,
                EndStep, StepsDone, PickleDone
  <2> QED
    BY <2>1, <2>2 DEF Scenarios, stepsVars
<1> QED
  BY <1>1, <1>2

(* A step runner opens and closes its scenario as it was asked to.         *)
LEMMA OpenedByHandler ==
  ASSUME RunnerTypeOK, StepsTypeOK, TransportTypeOK, Positions, Lists, Wire,
         NEW r \in Runners, Handler(r), UNCHANGED runnerVars
  PROVE  /\ actor[r] = "loop" /\ actor' = actor
         /\ \A q \in Runners : q # r => /\ requests'[q] = requests[q]
                                         /\ cucumber'[q] = cucumber[q]
         /\ pc # "aborted" => (cucumber'[r] # NULL <=> Opened(r)')
<1>0. /\ pc' = pc /\ Elements(cursor)' = Elements(cursor)
      /\ Head(cursor)' = Head(cursor) /\ Elements(identities)' = Elements(identities)
  BY DEF runnerVars, Elements
<1>1. /\ actor[r] = "loop" /\ actor' = actor /\ requests[r] # <<>>
      /\ requests'[r] = <<>>
      /\ \A q \in Runners : q # r => /\ requests'[q] = requests[q]
                                      /\ cucumber'[q] = cucumber[q]
  <2>1. /\ actor[r] = "loop" /\ actor' = actor /\ requests[r] # <<>>
        /\ requests'[r] = <<>>
        /\ \A q \in Runners : q # r => requests'[q] = requests[q]
    BY RequestsAreWhole, HandlerAnswers
  <2>2. \A q \in Runners : q # r => cucumber'[q] = cucumber[q]
    BY DEF Handler, StartScenario, EndScenario, CucumberDestroy, RunStep,
                StepNotFound, StepsTypeOK
  <2> QED
    BY <2>1, <2>2
<1>2. ASSUME pc # "aborted"
      PROVE  /\ pc \in Waiting /\ r = Head(cursor)
             /\ r \in Elements(cursor) /\ r \in Elements(identities)
  <2>1. pc \in Waiting /\ r = Head(cursor)
    BY <1>1, <1>2, RequestedAt
  <2>2. cursor \in Seq(Runners) /\ cursor # <<>>
    BY <2>1 DEF RunnerTypeOK, Positions
  <2>3. r \in Elements(cursor)
    BY <2>1, <2>2, ElementsOfTail
  <2> QED
    BY <2>1, <2>3 DEF Lists
<1>3. CASE StartScenario(r)
  <2>1. Head(requests[r]) = "START SCENARIO"
    BY <1>3 DEF Handler, StartScenario, HasRequest
  <2>2. cucumber'[r] # NULL
    <3>1. StateConstructor(r) \in Nat
      BY DEF StateConstructor, StepsTypeOK
    <3>2. cucumber'[r] = CucumberNew(StateConstructor(r), Defs[r])
      BY <1>3 DEF StartScenario, StepsTypeOK
    <3> QED
      BY <3>1, <3>2, CucumberNewType, StepsAssumption DEF StepsAssumption
  <2>3. ASSUME pc # "aborted" PROVE Opened(r)'
    <3>1. pc = "started"
      BY <1>1, <2>1, <2>3, RequestedAt
    <3> QED
      BY <1>0, <1>1, <1>2, <2>1, <2>3, <3>1 DEF Opened
  <2> QED
    BY <1>1, <2>1, <2>2, <2>3
<1>4. CASE EndScenario(r)
  <2>1. Head(requests[r]) = "END SCENARIO"
    BY <1>4 DEF Handler, EndScenario, HasRequest
  <2>2. cucumber'[r] = NULL
    BY <1>4 DEF EndScenario, CucumberDestroy, StepsTypeOK
  <2>3. ASSUME pc # "aborted" PROVE ~Opened(r)'
    <3>1. pc = "ended"
      BY <1>1, <2>1, <2>3, RequestedAt
    <3> QED
      BY <1>0, <1>1, <1>2, <2>1, <2>3, <3>1 DEF Opened
  <2> QED
    BY <1>1, <2>1, <2>2, <2>3
<1>5. CASE RunStep(r) \/ StepNotFound(r)
  <2>1. Head(requests[r]) = "RUN STEP" /\ cucumber[r] # NULL
    BY <1>5 DEF Handler, RunStep, StepNotFound, StepRequested, HasRequest
  <2>2. cucumber'[r] # NULL
    <3>1. CASE StepNotFound(r)
      BY <2>1, <3>1 DEF StepNotFound
    <3>2. CASE RunStep(r)
      <4>1. cucumber[r] \in CucumberType
        BY <2>1 DEF StepsTypeOK
      <4>2. PICK fails \in BOOLEAN :
              cucumber' = [cucumber EXCEPT ![r] =
                             CucumberStepDefRun(cucumber[r], StepDefFor(r), fails)]
        BY <3>2, Zenon DEF RunStep
      <4>3. cucumber'[r] \in CucumberType
        BY <4>1, <4>2, CucumberRunType DEF StepsTypeOK
      <4> QED
        BY <4>3, StepsAssumption DEF StepsAssumption
    <3> QED
      BY <1>5, <3>1, <3>2
  <2>3. ASSUME pc # "aborted" PROVE Opened(r)'
    <3>1. pc = "ran"
      BY <1>1, <2>1, <2>3, RequestedAt
    <3> QED
      BY <1>0, <1>2, <2>1, <2>3, <3>1 DEF Opened
  <2> QED
    BY <1>1, <2>1, <2>2, <2>3
<1> QED
  BY <1>1, <1>3, <1>4, <1>5 DEF Handler

LEMMA ScenariosKeptBySteps ==
  ASSUME RunnerTypeOK, StepsTypeOK, TransportTypeOK, Positions, Lists, Wire,
         Greetings, Scenarios, NEW r \in Runners, StepRunner(r), UNCHANGED runnerVars
  PROVE  Scenarios'
<1>0. /\ pc' = pc /\ Elements(cursor)' = Elements(cursor)
      /\ Head(cursor)' = Head(cursor) /\ Elements(identities)' = Elements(identities)
  BY DEF runnerVars, Elements
<1>1. ASSUME \A q \in Runners : q # r => /\ requests'[q] = requests[q]
                                          /\ actor'[q] = actor[q]
                                          /\ cucumber'[q] = cucumber[q],
             actor'[r] = "loop" /\ pc # "aborted" => (cucumber'[r] # NULL <=> Opened(r)'),
             actor'[r] \notin {"loop", "terminated"} => cucumber'[r] = NULL
      PROVE  Scenarios'
  BY <1>0, <1>1 DEF Scenarios, Opened
<1>2. CASE UNCHANGED <<actor, cucumber, requests>>
  BY <1>0, <1>2 DEF Scenarios, Opened
<1>3. CASE StartActor(r)
  BY <1>1, <1>3 DEF StartActor, Greetings, Scenarios, transportVars, StepsTypeOK
<1>4. CASE CucumberStepsNew(r)
  <2>1. /\ actor[r] = "init" /\ UNCHANGED <<cucumber, requests>>
        /\ \A q \in Runners : q # r => actor'[q] = actor[q]
        /\ actor'[r] = "loop"
    BY <1>4 DEF CucumberStepsNew, ConnectAndGreet, StepsTypeOK
  <2>2. cucumber'[r] = NULL /\ r \notin Elements(identities)
    BY <2>1 DEF Scenarios, Greetings
  <2> QED
    BY <1>0, <1>1, <2>1, <2>2 DEF Opened
<1>5. CASE RecvTerm(r)
  BY <1>1, <1>5 DEF RecvTerm, transportVars, StepsTypeOK
<1>6. CASE Die(r) \/ CucumberStepsDestroy(r)
  BY <1>1, <1>6 DEF Die, CucumberStepsDestroy, CucumberDestroy, Disconnect,
                    TransportTypeOK, StepsTypeOK
<1>7. CASE Handler(r)
  BY <1>1, <1>7, OpenedByHandler
<1>8. CASE IgnoreFrame(r)
  BY <1>8, RequestsAreWhole, FramesOfRequest DEF IgnoreFrame
<1> QED
  BY <1>2, <1>3, <1>4, <1>5, <1>6, <1>7, <1>8
     DEF StepRunner, MainThread, MainInput, ActorThread, RecvApi, RecvPickle, ActorStarted, AppSends,
         EndOfInput, DestroyActor, Exit, RecvVerbose, RecvInvalid, StepCrashes,
         StepUnscoped, Handler, transportVars
-----------------------------------------------------------------------------
(***************************************************************************)
(* Requests meet a step runner that expects them, and states are destroyed.*)
(***************************************************************************)
(* What a step runner is sent next fits the scenario it has.               *)
LEMMA RequestsUnderstoodByRunner ==
  ASSUME RunnerTypeOK, StepsTypeOK, TransportTypeOK, Positions, Lists, Wire,
         Greetings, Scenarios, RequestsUnderstood, RunnerThread, UNCHANGED stepsVars
  PROVE  RequestsUnderstood'
<1>1. CASE UNCHANGED requests
  BY <1>1 DEF RequestsUnderstood, stepsVars
<1>2. ASSUME NEW frames \in Seq(Frames), frames # <<>>, NEW waiting, SendTo(frames, waiting),
             pc \notin Waiting \cup {"aborted"}, Head(frames) \in Commands,
             Head(frames) = "START SCENARIO" <=> ~Opened(Head(cursor))
      PROVE  RequestsUnderstood'
  <2>1. /\ Head(cursor) \in Runners
        /\ actor[Head(cursor)] = "loop" => requests'[Head(cursor)] = frames
        /\ \A r \in Runners : r # Head(cursor) => requests'[r] = requests[r]
    BY <1>2, SentRequest
  <2>2. actor[Head(cursor)] = "loop" => (cucumber[Head(cursor)] # NULL <=> Opened(Head(cursor)))
    BY <1>2, <2>1 DEF Scenarios
  <2> QED
    BY <1>2, <2>1, <2>2 DEF RequestsUnderstood, stepsVars
<1>3. ASSUME NEW frames, NEW waiting, SendTo(frames, waiting)
      PROVE  Head(cursor) \in Elements(cursor) /\ Head(cursor) \in Elements(identities)
  <2>1. cursor \in Seq(Runners) /\ cursor # <<>>
    BY <1>3 DEF SendTo, RunnerTypeOK
  <2> QED
    BY <2>1, ElementsOfTail DEF Lists
<1>4. CASE SendStart
  <2>1. /\ StartRequest(pickle) \in Seq(Frames) /\ StartRequest(pickle) # <<>>
        /\ Head(StartRequest(pickle)) = "START SCENARIO"
    BY <1>4, ScenarioRequestTypes, RequestParts DEF SendStart, Positions
  <2>2. pc = "start" /\ SendTo(StartRequest(pickle), "started")
    BY <1>4 DEF SendStart
  <2>3. ~Opened(Head(cursor))
    BY <1>3, <2>2 DEF Opened
  <2> QED
    BY <1>2, <2>1, <2>2, <2>3 DEF Waiting, Commands
<1>5. CASE SendStep
  <2>1. Head(steps) \in Texts /\ pickle \in Pickle
    BY <1>5, HeadTailProperties DEF SendStep, RunnerTypeOK, Positions
  <2>2. /\ StepRequest(pickle, Head(steps)) \in Seq(Frames)
        /\ StepRequest(pickle, Head(steps)) # <<>>
        /\ Head(StepRequest(pickle, Head(steps))) = "RUN STEP"
    BY <2>1, StepRequestType, RequestParts
  <2>3. pc = "run" /\ SendTo(StepRequest(pickle, Head(steps)), "ran")
    BY <1>5 DEF SendStep
  <2>4. Opened(Head(cursor))
    BY <1>3, <2>3 DEF Opened
  <2> QED
    BY <1>2, <2>2, <2>3, <2>4 DEF Waiting, Commands
<1>6. CASE SendEnd
  <2>1. /\ EndRequest(pickle) \in Seq(Frames) /\ EndRequest(pickle) # <<>>
        /\ Head(EndRequest(pickle)) = "END SCENARIO"
    BY <1>6, ScenarioRequestTypes, RequestParts DEF SendEnd, Positions
  <2>2. pc = "end" /\ SendTo(EndRequest(pickle), "ended")
    BY <1>6 DEF SendEnd
  <2>3. Opened(Head(cursor))
    BY <1>3, <2>2 DEF Opened
  <2> QED
    BY <1>2, <2>1, <2>2, <2>3 DEF Waiting, Commands
<1>7. ASSUME NEW r \in Runners, RecvStarted(r) \/ RecvEnded(r) \/ RecvRan(r)
      PROVE  UNCHANGED requests
  BY <1>7, Zenon DEF RecvStarted, RecvEnded, RecvRan, RecvAnswer, Receive
<1> QED
  BY <1>1, <1>4, <1>5, <1>6, <1>7
     DEF RunnerThread, ListFile, Listed, CollectIdentity, Receive, CallRun, NextFile,
         PrintError, EndDocument, Return, NextPickle, FirstStep, BeginStep, EndStep,
         StepsDone, PickleDone, transportVars

(* Handlers leave no request behind, so none meets another state.          *)
LEMMA RequestsUnderstoodBySteps ==
  ASSUME RunnerTypeOK, StepsTypeOK, TransportTypeOK, Positions, Wire,
         Greetings, RequestsUnderstood, NEW r \in Runners, StepRunner(r)
  PROVE  RequestsUnderstood'
<1>1. ASSUME \A q \in Runners : q # r => /\ requests'[q] = requests[q]
                                          /\ actor'[q] = actor[q]
                                          /\ cucumber'[q] = cucumber[q],
             requests'[r] = <<>> \/ actor'[r] # "loop"
      PROVE  RequestsUnderstood'
  BY <1>1 DEF RequestsUnderstood
<1>2. CASE UNCHANGED <<actor, cucumber, requests>>
  BY <1>2 DEF RequestsUnderstood
<1>3. CASE StartActor(r) \/ RecvTerm(r)
  BY <1>1, <1>3 DEF StartActor, RecvTerm, transportVars, StepsTypeOK
<1>4. CASE CucumberStepsNew(r)
  <2>1. /\ actor[r] = "init" /\ UNCHANGED <<cucumber, requests>>
        /\ \A q \in Runners : q # r => actor'[q] = actor[q]
    BY <1>4 DEF CucumberStepsNew, ConnectAndGreet, StepsTypeOK
  <2> QED
    BY <1>1, <2>1 DEF Greetings
<1>5. CASE Die(r) \/ CucumberStepsDestroy(r)
  BY <1>1, <1>5 DEF Die, CucumberStepsDestroy, CucumberDestroy, Disconnect,
                    TransportTypeOK, StepsTypeOK
<1>6. CASE Handler(r)
  <2>1. /\ actor' = actor /\ requests'[r] = <<>>
        /\ \A q \in Runners : q # r => requests'[q] = requests[q]
    BY <1>6, RequestsAreWhole, HandlerAnswers
  <2>2. \A q \in Runners : q # r => cucumber'[q] = cucumber[q]
    BY <1>6 DEF Handler, StartScenario, EndScenario, CucumberDestroy, RunStep,
                StepNotFound, StepsTypeOK
  <2> QED
    BY <1>1, <2>1, <2>2
<1>7. CASE IgnoreFrame(r)
  BY <1>7, RequestsAreWhole, FramesOfRequest DEF IgnoreFrame
<1> QED
  BY <1>2, <1>3, <1>4, <1>5, <1>6, <1>7
     DEF StepRunner, MainThread, MainInput, ActorThread, RecvApi, RecvPickle, ActorStarted, AppSends,
         EndOfInput, DestroyActor, Exit, RecvVerbose, RecvInvalid, StepCrashes,
         StepUnscoped, Handler, transportVars

(* A state is made where none is left, and goes with its scenario.         *)
LEMMA StatesBalancedKept ==
  ASSUME StepsTypeOK, RequestsUnderstood, StatesBalanced, NEW r \in Runners,
         StepRunner(r)
  PROVE  StatesBalanced'
<1>1. ASSUME \A q \in Runners : q # r => cucumber'[q] = cucumber[q] /\ live'[q] = live[q],
             r \in Constructing \cap Destructing =>
               live'[r] = IF cucumber'[r] = NULL THEN {} ELSE {cucumber'[r].state}
      PROVE  StatesBalanced'
  <2>1. ASSUME NEW q \in Constructing \cap Destructing, q \in Runners
        PROVE  live'[q] = IF cucumber'[q] = NULL THEN {} ELSE {cucumber'[q].state}
    BY <1>1, <2>1 DEF StatesBalanced
  <2> QED
    BY <2>1, StepsAssumption DEF StatesBalanced, StepsAssumption
<1>2. CASE UNCHANGED <<cucumber, live>>
  BY <1>2 DEF StatesBalanced
<1>3. CASE Die(r)
  BY <1>1, <1>3 DEF Die, StepsTypeOK
<1>4. CASE CucumberDestroy(r)
  BY <1>1, <1>4 DEF CucumberDestroy, StatesBalanced, StepsTypeOK
<1>5. CASE StartScenario(r)
  <2>1. actor[r] = "loop" /\ requests[r] # <<>> /\ Head(requests[r]) = "START SCENARIO"
    BY <1>5 DEF StartScenario, HasRequest
  <2>2. cucumber[r] = NULL
    BY <2>1 DEF RequestsUnderstood
  <2> DEFINE state == StateConstructor(r)
  <2>3. state \in Nat /\ (r \in Constructing => state # 0)
    BY DEF StateConstructor, StepsTypeOK
  <2>4. /\ cucumber' = [cucumber EXCEPT ![r] = CucumberNew(state, Defs[r])]
        /\ live' = [live EXCEPT ![r] = @ \cup ({state} \ {0})]
    BY <1>5 DEF StartScenario
  <2>5. CucumberNew(state, Defs[r]) # NULL /\ CucumberNew(state, Defs[r]).state = state
    BY <2>3, CucumberNewType, StepsAssumption DEF StepsAssumption, CucumberNew
  <2> HIDE DEF state
  <2>6. cucumber'[r] # NULL /\ cucumber'[r].state = state
    BY <2>4, <2>5 DEF StepsTypeOK
  <2>7. r \in Constructing \cap Destructing => live'[r] = {state}
    BY <2>2, <2>3, <2>4 DEF StatesBalanced, StepsTypeOK
  <2> QED
    BY <1>1, <2>4, <2>6, <2>7 DEF StepsTypeOK
<1>6. CASE RunStep(r)
  <2>1. cucumber[r] # NULL /\ cucumber[r] \in CucumberType /\ live' = live
    BY <1>6 DEF RunStep, StepRequested, StepsTypeOK
  <2>2. PICK fails \in BOOLEAN :
          cucumber' = [cucumber EXCEPT ![r] =
                         CucumberStepDefRun(cucumber[r], StepDefFor(r), fails)]
    BY <1>6, Zenon DEF RunStep
  <2>3. /\ cucumber'[r] \in CucumberType /\ cucumber'[r].state = cucumber[r].state
        /\ \A q \in Runners : q # r => cucumber'[q] = cucumber[q]
    BY <2>1, <2>2, CucumberRunType DEF StepsTypeOK
  <2>4. cucumber'[r] # NULL
    BY <2>3, StepsAssumption DEF StepsAssumption
  <2> QED
    BY <1>1, <2>1, <2>3, <2>4 DEF StatesBalanced
<1> QED
  BY <1>2, <1>3, <1>4, <1>5, <1>6
     DEF StepRunner, MainThread, MainInput, ActorThread, RecvApi, RecvPickle, StartActor, ActorStarted,
         AppSends, EndOfInput, DestroyActor, Exit, CucumberStepsNew, RecvVerbose,
         RecvTerm, RecvInvalid, CucumberStepsDestroy, EndScenario, StepNotFound,
         StepCrashes, StepUnscoped, IgnoreFrame, stepsVars
-----------------------------------------------------------------------------
(***************************************************************************)
(* The invariant.                                                          *)
(***************************************************************************)

(* How each feature runner starts.                                         *)
LEMMA FeatureRunnerTypes ==
  FeatureRunnerInit => RunnerTypeOK /\ Positions /\ Lists /\ Collected
<1> SUFFICES ASSUME FeatureRunnerInit
             PROVE  RunnerTypeOK /\ Positions /\ Lists /\ Collected
  OBVIOUS
<1> USE DEF FeatureRunnerInit
<1>1. PICK arg \in Arguments :
        /\ listing = IF arg.directory THEN arg.entries ELSE <<>>
        /\ feature_files = IF arg.directory THEN <<>> ELSE <<arg.entries[1].file>>
  OBVIOUS
<1>2. /\ arg \in Argument /\ arg.entries \in Seq(Entry)
      /\ arg.directory \/ Len(arg.entries) = 1
  BY RunnerAssumption DEF RunnerAssumption, Argument
<1>3. listing \in Seq(Entry) /\ feature_files \in Seq(Document)
  <2>1. CASE arg.directory
    BY <1>1, <1>2, <2>1
  <2>2. CASE ~arg.directory
    <3>1. arg.entries[1] \in Entry
      BY <1>2, <2>2, ElementOfSeq
    <3>2. arg.entries[1].file \in Document
      BY <3>1 DEF Entry
    <3> QED
      BY <1>1, <2>2, <3>2
  <2> QED
    BY <2>1, <2>2
<1>4. RunnerTypeOK
  BY <1>3 DEF RunnerTypeOK, RunnerStates, NoAnswer
<1>5. Positions /\ Collected
  BY DEF Positions, Waiting, Collected
<1>6. Lists
  BY DEF Lists, IsInjective, Elements
<1> QED
  BY <1>4, <1>5, <1>6

(* It holds when the feature runner and the step runners are started.      *)
LEMMA InvInit ==
  Init => IInv
<1> SUFFICES ASSUME Init PROVE IInv
  OBVIOUS
<1> USE DEF Init, FeatureRunnerInit, StepsInit, TransportInit
<1>1. RunnerTypeOK /\ Positions /\ Lists /\ Collected
  BY FeatureRunnerTypes
<1>2. StepsTypeOK
  <2>1. \A S : <<>> \in Seq(S)
    OBVIOUS
  <2> QED
    BY <2>1 DEF StepsTypeOK, MainStates, ActorStates
<1>3. TransportTypeOK
  <2>1. \A S : <<>> \in Seq(S)
    OBVIOUS
  <2> QED
    BY <2>1 DEF TransportTypeOK
<1>4. StrangersAbort
  BY DEF StrangersAbort
<1>5. Wire
  <2>1. pc \notin Waiting /\ pc # "aborted" /\ \A r \in Runners : Quiet(r)
    BY DEF Quiet, Waiting
  <2> QED
    BY <2>1, Zenon DEF Wire
<1>6. Greetings
  <2>1. \A r \in Runners : /\ actor[r] = "none" /\ requests[r] = <<>>
                           /\ replies[r] = <<>> /\ r \notin peers
    OBVIOUS
  <2>2. Elements(identities) = {}
    BY DEF Elements
  <2> HIDE DEF Init, FeatureRunnerInit, StepsInit, TransportInit
  <2> QED
    BY <2>1, <2>2 DEF Greetings
<1>7. Scenarios /\ RequestsUnderstood
  BY DEF Scenarios, RequestsUnderstood
<1>8. StatesBalanced
  BY StepsAssumption DEF StatesBalanced, StepsAssumption
<1> QED
  BY <1>1, <1>2, <1>3, <1>4, <1>5, <1>6, <1>7, <1>8 DEF IInv, TypeOK

(* Every step keeps it, of the feature runner and of each thread of a step *)
(* runner, whoever leaves, dies or greets late.                            *)
LEMMA InvNext ==
  IInv /\ [Next]_vars => IInv'
<1> SUFFICES ASSUME IInv, [Next]_vars PROVE IInv'
  OBVIOUS
<1>0. /\ RunnerTypeOK /\ StepsTypeOK /\ TransportTypeOK /\ Positions /\ Lists
      /\ Wire /\ Greetings /\ Scenarios /\ Collected /\ StrangersAbort
      /\ RequestsUnderstood /\ StatesBalanced
  BY DEF IInv, TypeOK
<1>1. CASE RunnerThread /\ UNCHANGED stepsVars
  <2>1. RunnerTypeOK' /\ TransportTypeOK'
    BY <1>0, <1>1, RunnerTypes
  <2>2. StepsTypeOK'
    BY <1>0, <1>1 DEF StepsTypeOK, stepsVars
  <2>3. Positions'
    BY <1>0, <1>1, PositionsKept
  <2>4. Lists'
    BY <1>0, <1>1, ListsKept
  <2>5. Wire'
    BY <1>0, <1>1, WireKeptByRunner
  <2>6. Greetings'
    BY <1>0, <1>1, GreetingsKeptByRunner
  <2>7. Scenarios'
    BY <1>0, <1>1, ScenariosKeptByRunner
  <2>8. Collected'
    BY <1>0, <1>1, CollectedKept
  <2>9. StrangersAbort'
    BY <1>0, <1>1, AbortKeptByRunner
  <2>10. RequestsUnderstood'
    BY <1>0, <1>1, RequestsUnderstoodByRunner
  <2>11. StatesBalanced'
    BY <1>0, <1>1 DEF StatesBalanced, stepsVars
  <2> QED
    BY <2>1, <2>2, <2>3, <2>4, <2>5, <2>6, <2>7, <2>8, <2>9, <2>10, <2>11
       DEF IInv, TypeOK
<1>2. ASSUME NEW r \in Runners, StepRunner(r), UNCHANGED runnerVars
      PROVE  IInv'
  <2>1. StepsTypeOK' /\ TransportTypeOK'
    <3>1. CASE MainThread(r) \/ MainInput(r)
      BY <1>0, <3>1, MainTypes
    <3>2. CASE ActorThread(r)
      BY <1>0, <1>2, <3>2, RequestsAreWhole, ActorTypes
    <3> QED
      BY <1>2, <3>1, <3>2 DEF StepRunner
  <2>2. RunnerTypeOK'
    BY <1>0, <1>2 DEF RunnerTypeOK, runnerVars
  <2>3. Positions' /\ Lists' /\ Collected'
    BY <1>0, <1>2 DEF Positions, Lists, Collected, AllAwaited, Elements, IsInjective,
                      runnerVars
  <2>4. Wire'
    BY <1>0, <1>2, WireKeptBySteps
  <2>5. Greetings'
    BY <1>0, <1>2, GreetingsKeptBySteps
  <2>6. Scenarios'
    BY <1>0, <1>2, ScenariosKeptBySteps
  <2>7. StrangersAbort'
    BY <1>0, <1>2, AbortKeptBySteps
  <2>8. RequestsUnderstood'
    BY <1>0, <1>2, RequestsUnderstoodBySteps
  <2>9. StatesBalanced'
    BY <1>0, <1>2, StatesBalancedKept
  <2> QED
    BY <2>1, <2>2, <2>3, <2>4, <2>5, <2>6, <2>7, <2>8, <2>9 DEF IInv, TypeOK
<1>3. CASE UNCHANGED vars
  <2> USE <1>3 DEF vars, runnerVars, stepsVars, transportVars
  <2>1. RunnerTypeOK' /\ StepsTypeOK' /\ TransportTypeOK'
    BY <1>0 DEF RunnerTypeOK, StepsTypeOK, TransportTypeOK
  <2>2. Positions' /\ Lists' /\ Collected' /\ StrangersAbort'
    BY <1>0 DEF Positions, Lists, Collected, AllAwaited, Elements, IsInjective,
                StrangersAbort
  <2>3. Wire'
    BY <1>0 DEF Wire, Quiet, Asking, Asked, AnswersAsked
  <2>4. Greetings' /\ Scenarios'
    BY <1>0 DEF Greetings, Scenarios, Opened, Elements
  <2>5. RequestsUnderstood' /\ StatesBalanced'
    BY <1>0 DEF RequestsUnderstood, StatesBalanced
  <2> QED
    BY <2>1, <2>2, <2>3, <2>4, <2>5 DEF IInv, TypeOK
<1> QED
  BY <1>1, <1>2, <1>3 DEF Next, Finished

(* The inductive invariant holds in every reachable state: the code keeps  *)
(* at most one request or answer on the wire, and the step runners at most *)
(* one request apart, for all features, step definitions and lists.        *)
THEOREM Invariance ==
  Spec => []IInv
<1>1. Init => IInv
  BY InvInit
<1>2. IInv /\ [Next]_vars => IInv'
  BY InvNext
<1> QED
  BY <1>1, <1>2, PTL DEF Spec

(* Every variable keeps its type; in particular each answer carries the id *)
(* of a scenario, which the handlers read from frames of one request.      *)
THEOREM TypeCorrectness ==
  Spec => []TypeOK
<1>1. IInv => TypeOK
  BY DEF IInv
<1> QED
  BY <1>1, Invariance, PTL

(* cucumber_steps_recv_pickle always finds a command where it reads one, a *)
(* scenario where it runs or ends one, and none where it starts one,       *)
(* whatever the other step runners do and whenever any of them leaves.     *)
THEOREM EveryRequestUnderstood ==
  Spec => []RequestsUnderstood
<1>1. IInv => RequestsUnderstood
  BY DEF IInv
<1> QED
  BY <1>1, Invariance, PTL

(* With a constructor and a destructor, the user's states that exist are   *)
(* those of the scenarios being run: none is destroyed early or leaked.    *)
THEOREM EveryStateDestroyed ==
  Spec => []StatesBalanced
<1>1. IInv => StatesBalanced
  BY DEF IInv
<1> QED
  BY <1>1, Invariance, PTL

(* Whoever the caller waits for, an assertion of run fails only when the   *)
(* message it read is the HELLO of a step runner that was not collected.   *)
THEOREM AbortsOnlyByGreeting ==
  Spec => OnlyGreetingsAbort
<1>1. ASSUME IInv, Next, pc # "aborted", pc' = "aborted"
      PROVE  \E r \in Runners \ Elements(identities) :
               Receive(r) /\ Head(replies[r]) = Greeting
  <2>1. RunnerThread
    <3>1. pc' # pc
      BY <1>1
    <3> QED
      BY <1>1, <3>1, Zenon DEF Next, Finished, vars, runnerVars
  <2>2. PICK r \in Runners : RecvStarted(r) \/ RecvEnded(r) \/ RecvRan(r)
    BY <1>1, <2>1, AbortedByAnswer
  <2>3. /\ Receive(r) /\ Head(replies[r]) = Greeting
        /\ r \notin Elements(identities)
    BY <1>1, <2>2, AbortedByGreeting DEF IInv
  <2> QED
    BY <2>3
<1>2. IInv /\ [Next]_vars =>
        [pc # "aborted" /\ pc' = "aborted" =>
           \E r \in Runners \ Elements(identities) :
             Receive(r) /\ Head(replies[r]) = Greeting]_vars
  BY <1>1
<1> QED
  BY <1>2, Invariance, PTL DEF Spec, OnlyGreetingsAbort

(* When the caller waits for all step runners, no assertion of run fails.  *)
THEOREM NoAssertionFails ==
  ASSUME Awaited = Runners
  PROVE  Spec => []AssertionsHold
<1>1. IInv => AssertionsHold
  BY DEF IInv, Collected, AllAwaited, StrangersAbort, AssertionsHold
<1> QED
  BY <1>1, Invariance, PTL

(* And while run is executed, only the step runner at the cursor has a     *)
(* request or an answer in flight, and only one.                           *)
THEOREM WorkInLockstep ==
  ASSUME Awaited = Runners
  PROVE  Spec => []Lockstep
<1>1. ASSUME IInv, Running, NEW r \in Runners
      PROVE  InFlight(r) <= IF pc \in Waiting /\ r = Head(cursor) THEN 1 ELSE 0
  <2>1. /\ Wire /\ pc # "aborted"
        /\ replies[r] = <<>> \/ Head(replies[r]) # Greeting
    BY <1>1 DEF IInv, Running, Collected, AllAwaited, Greetings
  <2>2. CASE replies[r] = <<>>
    <3>1. Len(replies[r]) = 0
      BY <2>2
    <3>2. ~(pc \in Waiting /\ r = Head(cursor)) => requests[r] = <<>>
      BY <2>1, Zenon DEF Wire, Quiet
    <3> QED
      BY <3>1, <3>2 DEF InFlight
  <2>3. CASE replies[r] # <<>>
    <3>1. /\ pc \in Waiting /\ r = Head(cursor) /\ requests[r] = <<>>
          /\ replies[r] = <<Head(replies[r])>>
      BY <2>1, <2>3, FirstMessage
    <3>2. Len(replies[r]) = 1
      BY <3>1, ShortTypes, Zenon
    <3> QED
      BY <3>1, <3>2 DEF InFlight
  <2> QED
    BY <2>2, <2>3
<1>2. IInv => Lockstep
  BY <1>1 DEF Lockstep
<1> QED
  BY <1>2, Invariance, PTL

(* zactor_new returns to the thread that frees the arguments only after    *)
(* the actor has read them.                                                *)
THEOREM ArgumentsOutliveSetup ==
  Spec => []ArgsOutliveSetup
<1>1. Init => ArgsOutliveSetup
  BY DEF Init, StepsInit, ArgsOutliveSetup
<1>2. TypeOK /\ ArgsOutliveSetup /\ [Next]_vars => ArgsOutliveSetup'
  <2> SUFFICES ASSUME StepsTypeOK, ArgsOutliveSetup, [Next]_vars
               PROVE  ArgsOutliveSetup'
    BY DEF TypeOK
  <2>1. CASE UNCHANGED <<args, actor>>
    BY <2>1 DEF ArgsOutliveSetup
  <2>2. ASSUME NEW r \in Runners, MainThread(r) \/ MainInput(r)
        PROVE  ArgsOutliveSetup'
    <3>1. CASE StartActor(r)
      BY <3>1 DEF StartActor, ArgsOutliveSetup, StepsTypeOK
    <3>2. CASE ActorStarted(r)
      BY <3>2 DEF ActorStarted, ActorSignalled, ArgsOutliveSetup, StepsTypeOK
    <3> QED
      BY <2>1, <2>2, <3>1, <3>2
         DEF MainThread, MainInput, AppSends, EndOfInput, DestroyActor, Exit
  <2>3. ASSUME NEW r \in Runners, ActorThread(r)
        PROVE  ArgsOutliveSetup'
    <3>1. args' = args /\ \A q \in Runners : actor'[q] = "init" => actor[q] = "init"
      BY <2>3 DEF ActorThread, RecvApi, RecvPickle, CucumberStepsNew, RecvVerbose, RecvTerm, RecvInvalid,
                  CucumberStepsDestroy, StartScenario, EndScenario, RunStep,
                  StepNotFound, StepCrashes, StepUnscoped, IgnoreFrame, Die,
                  stepsVars, StepsTypeOK
    <3> QED
      BY <3>1 DEF ArgsOutliveSetup
  <2> QED
    BY <2>1, <2>2, <2>3 DEF Next, Finished, StepRunner, stepsVars, vars
<1> QED
  BY <1>1, <1>2, TypeCorrectness, PTL DEF Spec
=============================================================================
