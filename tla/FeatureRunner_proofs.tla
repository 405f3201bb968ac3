------------------------ MODULE FeatureRunner_proofs ------------------------
(***************************************************************************)
(* Lemmas about the feature runner that hold whatever answers it: lists of *)
(* step runners, requests, the tally of answers and its verdict.           *)
(***************************************************************************)
EXTENDS FeatureRunner, SequenceTheorems, TLAPS

-----------------------------------------------------------------------------
(***************************************************************************)
(* Sequences, as queues and lists use them.                                *)
(***************************************************************************)

(* A read of all frames of a request leaves none. *)
LEMMA ReadAllFrames ==
  ASSUME NEW S, NEW s \in Seq(S)
  PROVE  SubSeq(s, Len(s) + 1, Len(s)) = <<>>
BY SubSeqEmpty

(***************************************************************************)
(* Sequences that grow, and the smallest of some numbers.                  *)
(***************************************************************************)
LEMMA Appended ==
  ASSUME NEW S, NEW s \in Seq(S), NEW e \in S
  PROVE  /\ Len(s) \in Nat /\ DOMAIN s = 1..Len(s)
         /\ DOMAIN Append(s, e) = 1..(Len(s) + 1)
         /\ Len(Append(s, e)) = Len(s) + 1
         /\ \A k \in 1..Len(s) : Append(s, e)[k] = s[k]
         /\ Append(s, e)[Len(s) + 1] = e
         /\ Append(s, e) # <<>>
         /\ Append(s, e) \in Seq(S)
BY AppendProperties, LenProperties

(* The elements of a list and of what is left of it. *)
LEMMA ElementsOfTail ==
  ASSUME NEW S, NEW s \in Seq(S), s # <<>>
  PROVE  /\ Head(s) \in S
         /\ Elements(s) = {Head(s)} \cup Elements(Tail(s))
         /\ IsInjective(s) => Head(s) \notin Elements(Tail(s)) /\ IsInjective(Tail(s))
<1>1. Head(s) \in S /\ Head(s) = s[1] /\ 1 \in 1..Len(s)
  BY HeadTailProperties, EmptySeq
<1>2. /\ Tail(s) \in Seq(S) /\ Len(Tail(s)) = Len(s) - 1
      /\ \A i \in 1..Len(Tail(s)) : Tail(s)[i] = s[i + 1]
  BY HeadTailProperties
<1>3. DOMAIN s = 1..Len(s) /\ DOMAIN Tail(s) = 1..Len(Tail(s)) /\ Len(s) \in Nat
  BY <1>2, LenProperties
<1>4. Elements(s) = {Head(s)} \cup Elements(Tail(s))
  <2>1. ASSUME NEW i \in 1..Len(s)
        PROVE  s[i] \in {Head(s)} \cup Elements(Tail(s))
    <3>1. CASE i = 1
      BY <1>1, <3>1
    <3>2. CASE i # 1
      <4>1. i - 1 \in 1..Len(Tail(s)) /\ Tail(s)[i - 1] = s[i]
        BY <1>2, <1>3, <3>2
      <4> QED
        BY <4>1, <1>3 DEF Elements
    <3> QED
      BY <3>1, <3>2
  <2>2. ASSUME NEW i \in 1..Len(Tail(s))
        PROVE  Tail(s)[i] \in Elements(s)
    <3>1. i + 1 \in 1..Len(s) /\ Tail(s)[i] = s[i + 1]
      BY <1>2, <1>3
    <3> QED
      BY <3>1, <1>3 DEF Elements
  <2>3. Head(s) \in Elements(s)
    BY <1>1, <1>3 DEF Elements
  <2> QED
    BY <2>1, <2>2, <2>3, <1>3 DEF Elements
<1>5. ASSUME IsInjective(s)
      PROVE  Head(s) \notin Elements(Tail(s)) /\ IsInjective(Tail(s))
  <2>1. ASSUME NEW i \in 1..Len(Tail(s)) PROVE Tail(s)[i] # Head(s)
    <3>1. i + 1 \in 1..Len(s) /\ i + 1 # 1
      BY <1>2, <1>3
    <3> QED
      BY <3>1, <1>1, <1>2, <1>3, <1>5 DEF IsInjective
  <2>2. ASSUME NEW i \in 1..Len(Tail(s)), NEW j \in 1..Len(Tail(s)),
               Tail(s)[i] = Tail(s)[j]
        PROVE  i = j
    <3>1. i + 1 \in 1..Len(s) /\ j + 1 \in 1..Len(s) /\ s[i + 1] = s[j + 1]
      BY <1>2, <1>3, <2>2
    <3>2. i + 1 = j + 1
      BY <3>1, <1>3, <1>5 DEF IsInjective
    <3> QED
      BY <3>2, <1>2, <1>3
  <2> QED
    BY <2>1, <2>2, <1>3 DEF IsInjective, Elements
<1> QED
  BY <1>1, <1>4, <1>5

(* A step runner that is not in a list can be added at its end. *)
LEMMA ElementsOfAppend ==
  ASSUME NEW S, NEW s \in Seq(S), NEW e \in S
  PROVE  /\ Elements(Append(s, e)) = Elements(s) \cup {e}
         /\ IsInjective(s) /\ e \notin Elements(s) => IsInjective(Append(s, e))
<1>1. /\ Len(Append(s, e)) = Len(s) + 1
      /\ \A i \in 1..Len(s) : Append(s, e)[i] = s[i]
      /\ Append(s, e)[Len(s) + 1] = e
      /\ Append(s, e) \in Seq(S)
  BY AppendProperties
<1>2. /\ DOMAIN s = 1..Len(s) /\ Len(s) \in Nat
      /\ DOMAIN Append(s, e) = 1..(Len(s) + 1)
  BY <1>1, LenProperties
<1>3. \A i \in 1..(Len(s) + 1) : i \in 1..Len(s) \/ i = Len(s) + 1
  BY <1>2
<1>4. 1..Len(s) \subseteq 1..(Len(s) + 1) /\ Len(s) + 1 \in 1..(Len(s) + 1)
  BY <1>2
<1>5. Elements(Append(s, e)) = Elements(s) \cup {e}
  BY <1>1, <1>2, <1>3, <1>4, Zenon DEF Elements
<1>6. ASSUME IsInjective(s), e \notin Elements(s)
      PROVE  IsInjective(Append(s, e))
  BY <1>1, <1>2, <1>3, <1>4, <1>6, Zenon DEF IsInjective, Elements
<1> QED
  BY <1>5, <1>6

(* The parts of a request of two and of three frames.                      *)
LEMMA TupleParts ==
  ASSUME NEW x, NEW y, NEW z
  PROVE  /\ Head(<<x, y>>) = x /\ <<x, y>>[1] = x /\ <<x, y>>[2] = y
         /\ Len(<<x, y>>) = 2
         /\ Head(<<x, y, z>>) = x /\ <<x, y, z>>[1] = x /\ <<x, y, z>>[2] = y
         /\ Len(<<x, y, z>>) = 3
OBVIOUS

LEMMA TripleParts ==
  ASSUME NEW x, NEW y, NEW z, NEW s, s = <<x, y, z>>
  PROVE  Head(s) = x /\ s[2] = y /\ Len(s) = 3
OBVIOUS

(* The command and the id of the requests that run sends.                  *)
LEMMA RequestParts ==
  ASSUME NEW p, NEW text
  PROVE  /\ Head(StartRequest(p)) = "START SCENARIO"
         /\ StartRequest(p)[2] = PickleId(p)
         /\ Head(StepRequest(p, text)) = "RUN STEP"
         /\ StepRequest(p, text)[2] = PickleId(p)
         /\ Head(EndRequest(p)) = "END SCENARIO"
         /\ EndRequest(p)[2] = PickleId(p)
         /\ StartRequest(p) # <<>> /\ StepRequest(p, text) # <<>>
         /\ EndRequest(p) # <<>>
BY DEF StartRequest, StepRequest, EndRequest

(* Counting a scenario, a step or an answer leaves counters.               *)
LEMMA CounterTypes ==
  /\ \A t \in [scenarios : Nat, steps : Nat] :
       /\ [t EXCEPT !.scenarios = @ + 1] \in [scenarios : Nat, steps : Nat]
       /\ [t EXCEPT !.steps = @ + 1] \in [scenarios : Nat, steps : Nat]
  /\ \A t \in [succeeded : Nat, failed : Nat, missing : Nat] : \A command :
       Count(t, command) \in [succeeded : Nat, failed : Nat, missing : Nat]
<1>1. ASSUME NEW t \in [scenarios : Nat, steps : Nat]
      PROVE  /\ [t EXCEPT !.scenarios = @ + 1] \in [scenarios : Nat, steps : Nat]
             /\ [t EXCEPT !.steps = @ + 1] \in [scenarios : Nat, steps : Nat]
  <2>1. t.scenarios + 1 \in Nat /\ t.steps + 1 \in Nat
    OBVIOUS
  <2> QED
    BY <2>1
<1>2. ASSUME NEW t \in [succeeded : Nat, failed : Nat, missing : Nat], NEW command
      PROVE  Count(t, command) \in [succeeded : Nat, failed : Nat, missing : Nat]
  <2>1. t.succeeded + 1 \in Nat /\ t.failed + 1 \in Nat /\ t.missing + 1 \in Nat
    OBVIOUS
  <2> QED
    BY <2>1 DEF Count
<1> QED
  BY <1>1, <1>2

(***************************************************************************)
(* The script, and the step runners that have its last request behind them.*)
(***************************************************************************)

(* A request that is being sent around is the last of the script.          *)
InRound == pc \in {"start", "run", "end"} \cup Waiting

Last == script[Len(script)].frames

StepAskedAt(p) == script[p].frames[1] = "RUN STEP"

Before == Elements(identities) \ Elements(cursor)

(***************************************************************************)
(* The answers to a step, the tally of them, and the verdict on it.        *)
(***************************************************************************)
Success == "STEP SUCCEEDED"
Failure == "STEP FAILED"
NotFound == "STEP NOT FOUND"

Ok == "OK"
NotOk == "FAILURE"
Unknown == "NOT FOUND"

Tallies == [succeeded : Nat, failed : Nat, missing : Nat]

Sum(t) == t.succeeded + t.failed + t.missing

LEMMA AnswersDiffer ==
  /\ Success # Failure /\ Success # NotFound /\ Failure # NotFound
  /\ StepAnswers = {Success, Failure, NotFound}
  /\ Ok # NotOk /\ Ok # Unknown /\ NotOk # Unknown
BY Zenon DEF Success, Failure, NotFound, StepAnswers, Ok, NotOk, Unknown

(* What an answer adds to the tally: one, if it is an answer to a step.    *)
LEMMA CountAdds ==
  ASSUME NEW t \in Tallies, NEW command
  PROVE  /\ Count(t, command) \in Tallies
         /\ Count(t, command).succeeded > 0 <=>
              t.succeeded > 0 \/ command = Success
         /\ Count(t, command).failed > 0 <=>
              t.failed > 0 \/ command = Failure
         /\ Count(t, command).missing =
              IF command = NotFound THEN t.missing + 1 ELSE t.missing
         /\ command \in StepAnswers => Sum(Count(t, command)) = Sum(t) + 1
<1>1. /\ t.succeeded \in Nat /\ t.failed \in Nat /\ t.missing \in Nat
  BY DEF Tallies
<1> DEFINE s == [t EXCEPT !.succeeded = @ + 1]
           f == [t EXCEPT !.failed = @ + 1]
           m == [t EXCEPT !.missing = @ + 1]
<1>2. /\ s \in Tallies /\ f \in Tallies /\ m \in Tallies
      /\ Sum(s) = Sum(t) + 1 /\ s.succeeded > 0
      /\ s.failed = t.failed /\ s.missing = t.missing
      /\ Sum(f) = Sum(t) + 1 /\ f.failed > 0
      /\ f.succeeded = t.succeeded /\ f.missing = t.missing
      /\ Sum(m) = Sum(t) + 1 /\ m.missing = t.missing + 1
      /\ m.failed = t.failed /\ m.succeeded = t.succeeded
  BY <1>1 DEF Sum, Tallies
<1>3. /\ command = Success => Count(t, command) = s
      /\ command = Failure => Count(t, command) = f
      /\ command = NotFound => Count(t, command) = m
      /\ command \notin {Success, Failure, NotFound} => Count(t, command) = t
  BY Zenon DEF Count, Success, Failure, NotFound
<1>4. StepAnswers = {Success, Failure, NotFound}
  BY AnswersDiffer
<1> HIDE DEF s, f, m
<1>5. CASE command = Success
  BY <1>2, <1>3, <1>4, <1>5, AnswersDiffer
<1>6. CASE command = Failure
  BY <1>2, <1>3, <1>4, <1>6, AnswersDiffer
<1>7. CASE command = NotFound
  BY <1>2, <1>3, <1>4, <1>7, AnswersDiffer
<1>8. CASE command \notin {Success, Failure, NotFound}
  BY <1>2, <1>3, <1>4, <1>8, AnswersDiffer
<1> QED
  BY <1>5, <1>6, <1>7, <1>8, Zenon

(* What is printed: a success before a failure, and NOT FOUND when no step *)
(* runner answered anything else.                                          *)
LEMMA VerdictCases ==
  ASSUME NEW t \in Tallies
  PROVE  /\ Verdict(t) = Ok <=> t.succeeded > 0
         /\ Verdict(t) = NotOk <=> t.failed > 0 /\ ~(t.succeeded > 0)
         /\ Verdict(t) = Unknown <=>
              /\ ~(t.succeeded > 0) /\ ~(t.failed > 0)
              /\ t.missing = Len(identities)
<1> DEFINE nothing == "NOTHING"
<1>1. /\ ~(t.succeeded > 0) <=> t.succeeded = 0
      /\ ~(t.failed > 0) <=> t.failed = 0
  BY DEF Tallies
<1>2. nothing # Ok /\ nothing # NotOk /\ nothing # Unknown
  BY Zenon DEF Ok, NotOk, Unknown
<1>3. /\ t.succeeded > 0 => Verdict(t) = Ok
      /\ t.succeeded = 0 /\ t.failed > 0 => Verdict(t) = NotOk
      /\ t.succeeded = 0 /\ t.failed = 0 /\ t.missing = Len(identities)
           => Verdict(t) = Unknown
      /\ t.succeeded = 0 /\ t.failed = 0 /\ t.missing # Len(identities)
           => Verdict(t) = nothing
  BY <1>1, Zenon DEF Verdict, Ok, NotOk, Unknown
<1> HIDE DEF nothing
<1> QED
  BY <1>1, <1>2, <1>3, AnswersDiffer, Zenon

=============================================================================
