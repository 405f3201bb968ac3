------------------------ MODULE StepExecution_proofs ------------------------
(***************************************************************************)
(* Steps, statement by statement, for any step definitions, texts, values, *)
(* types and widths, and any number of scenarios and steps.                *)
(***************************************************************************)
EXTENDS StepExecution, SequenceTheorems, FiniteSetTheorems, TLAPS

InAssertion == {"actual", "expected", "reason", "free"}
InFunction == {"assert"} \cup InAssertion
Busy == {"search", "call", "answer"} \cup InFunction

Typed ==
  /\ at \in Places
  /\ defs \in Seq(StepDef)
  /\ cursor \in 0..Len(defs)
  /\ text \in Texts \cup {NULL}
  /\ param \in Values \cup {NULL}
  /\ asserts \in Seq(Assertion)
  /\ value \in Values
  /\ allocated \in Nat
  /\ failure \in Difference \cup {NULL}
  /\ scenario \in Nat
  /\ log \in Seq(LogEntry)

(* The step definitions of a scenario are those of the application.        *)
Listed ==
  /\ Len(defs) <= Len(Definitions)
  /\ \A i \in DOMAIN defs : defs[i].def = i
  /\ at \notin {"none", "register"} => Len(defs) = Len(Definitions)
  /\ at = "none" => defs = <<>>

NoneBefore(d, t) == \A e \in DOMAIN Definitions : e < d => ~Matches(e, t)
NoMatch(t) == \A e \in DOMAIN Definitions : ~Matches(e, t)
First(d, t) == d \in DOMAIN Definitions /\ Matches(d, t) /\ NoneBefore(d, t)
Captured(d, t) == Definitions[d].captures[t]

(* The search goes on while nothing matches; the step definition it stops  *)
(* at is the first, and its zrex has the captures of this text.            *)
Looked ==
  /\ at \in Busy <=> text # NULL
  /\ at = "search" => IF cursor = 0 THEN NoMatch(text) ELSE NoneBefore(cursor, text)
  /\ at \in {"call"} \cup InFunction =>
       /\ cursor # 0
       /\ First(cursor, text)
       /\ defs[cursor].captured = Captured(cursor, text)
  /\ at \in InFunction => param = Captured(cursor, text)
  /\ at = "answer" =>
       IF cursor = 0 THEN NoMatch(text)
       ELSE First(cursor, text) /\ param = Captured(cursor, text)

(* The assertion that fails is the first that is left, and what is printed *)
(* are values of its type.                                                 *)
Asserting ==
  /\ at \in InAssertion => asserts # <<>>
  /\ at \in {"expected", "reason", "free"} => actual_str \in String
  /\ at \in {"reason", "free"} => expected_str \in String

LogIsRight ==
  \A k \in DOMAIN log :
    IF log[k].def = 0 THEN NoMatch(log[k].text)
    ELSE /\ First(log[k].def, log[k].text)
         /\ log[k].param = Captured(log[k].def, log[k].text)

LookupInv == Typed /\ Listed /\ Looked /\ Asserting /\ LogIsRight

-----------------------------------------------------------------------------
LEMMA DefinitionFacts ==
  /\ Definitions \in Seq(Definition)
  /\ Len(Definitions) \in Nat /\ DOMAIN Definitions = 1..Len(Definitions)
  /\ \A d \in DOMAIN Definitions :
       /\ Definitions[d].type \in Types
       /\ Definitions[d].asserts \in Seq(Assertion)
       /\ \A t : Matches(d, t) => Captured(d, t) \in Values
<1>1. /\ Definitions \in Seq(Definition)
      /\ Len(Definitions) \in Nat /\ DOMAIN Definitions = 1..Len(Definitions)
      /\ \A d \in DOMAIN Definitions : Definitions[d] \in Definition
  BY ExecutionAssumption
<1>2. ASSUME NEW d \in DOMAIN Definitions
      PROVE  /\ Definitions[d].type \in Types
             /\ Definitions[d].asserts \in Seq(Assertion)
             /\ Definitions[d].captures \in
                  UNION {[matching -> Values] : matching \in SUBSET Texts}
  BY <1>1 DEF Definition
<1>3. ASSUME NEW d \in DOMAIN Definitions, NEW t, Matches(d, t)
      PROVE  Captured(d, t) \in Values
  <2>1. PICK matching \in SUBSET Texts : Definitions[d].captures \in [matching -> Values]
    BY <1>2
  <2> QED
    BY <1>3, <2>1 DEF Matches, Captured
<1> QED
  BY <1>1, <1>2, <1>3

LEMMA LookupInit == Init => LookupInv
<1> SUFFICES ASSUME Init PROVE LookupInv  OBVIOUS
<1>1. Typed
  BY DEF Init, Typed, Places
<1>2. Listed
  BY DefinitionFacts DEF Init, Listed
<1>3. Looked
  BY DEF Init, Looked, Busy, InFunction, InAssertion
<1>4. Asserting
  BY DEF Init, Asserting, InAssertion
<1>5. LogIsRight
  BY DEF Init, LogIsRight
<1> QED
  BY <1>1, <1>2, <1>3, <1>4, <1>5 DEF LookupInv

-----------------------------------------------------------------------------
(***************************************************************************)
(* Sequences that grow.                                                    *)
(***************************************************************************)
LEMMA OneMore ==
  ASSUME NEW S, NEW s \in Seq(S), NEW e \in S
  PROVE  /\ Len(s) \in Nat /\ DOMAIN s = 1..Len(s)
         /\ Append(s, e) \in Seq(S)
         /\ DOMAIN Append(s, e) = 1..(Len(s) + 1)
         /\ Len(Append(s, e)) = Len(s) + 1
         /\ \A k \in 1..Len(s) : Append(s, e)[k] = s[k]
         /\ Append(s, e)[Len(s) + 1] = e
OBVIOUS

LEMMA FirstOfMany ==
  ASSUME NEW S, NEW s \in Seq(S), s # <<>>
  PROVE  Head(s) \in S /\ Tail(s) \in Seq(S)
OBVIOUS

(* Between steps.                                                          *)
LEMMA Outside ==
  ASSUME LookupInv,
         \/ StartScenario \/ Step \/ Registered \/ EndScenario \/ Finished
         \/ \E t \in Texts : RunStep(t)
  PROVE  LookupInv'
<1>0. Typed /\ Listed /\ Looked /\ Asserting /\ LogIsRight
  BY DEF LookupInv
<1> USE DefinitionFacts, ExecutionAssumption
<1>1. CASE StartScenario \/ Registered
  <2>1. /\ at \in {"none", "register"} /\ at' \in {"register", "idle"}
        /\ scenario' \in Nat
        /\ at' = "idle" => Len(defs) = Len(Definitions)
        /\ UNCHANGED <<defs, cursor, text, param, asserts, value, actual_str,
                       expected_str, allocated, failure, log>>
    BY <1>0, <1>1 DEF StartScenario, Registered, historyVars, Typed
  <2>2. Typed'
    BY <1>0, <2>1 DEF Typed, Places
  <2>3. Listed'
    BY <1>0, <2>1 DEF Typed, Listed
  <2>4. Looked' /\ Asserting'
    BY <1>0, <2>1 DEF Looked, Asserting, Busy, InFunction, InAssertion
  <2>5. LogIsRight'
    BY <1>0, <2>1 DEF LogIsRight
  <2> QED
    BY <2>2, <2>3, <2>4, <2>5 DEF LookupInv
<1>2. CASE Step
  <2>1. /\ at = "register" /\ at' = at /\ Len(defs) < Len(Definitions)
        /\ UNCHANGED <<cursor, text, param, asserts, value, actual_str,
                       expected_str, allocated, failure, scenario, log>>
    BY <1>2 DEF Step, historyVars
  <2>2. PICK new \in StepDef : new.def = Len(defs) + 1 /\ defs' = Append(defs, new)
    <3>1. Len(defs) \in Nat /\ Len(defs) + 1 \in DOMAIN Definitions
      BY <1>0, <2>1 DEF Typed
    <3>2. CucumberStepDefNew(Len(defs) + 1) \in StepDef
      BY <3>1 DEF CucumberStepDefNew, StepDef
    <3> QED
      BY <1>2, <3>2 DEF Step, CucumberAddStepDef, CucumberStepDefNew
  <2>3. /\ Len(defs) \in Nat /\ DOMAIN defs = 1..Len(defs)
        /\ defs' \in Seq(StepDef) /\ Len(defs') = Len(defs) + 1
        /\ DOMAIN defs' = 1..(Len(defs) + 1)
        /\ \A k \in 1..Len(defs) : defs'[k] = defs[k]
        /\ defs'[Len(defs) + 1] = new
    BY <1>0, <2>2, OneMore DEF Typed
  <2>4. Typed'
    BY <1>0, <2>1, <2>3 DEF Typed
  <2>5. Listed'
    BY <1>0, <2>1, <2>2, <2>3 DEF Listed
  <2>6. Looked' /\ Asserting'
    BY <1>0, <2>1 DEF Looked, Asserting, Busy, InFunction, InAssertion
  <2>7. LogIsRight'
    BY <1>0, <2>1 DEF LogIsRight
  <2> QED
    BY <2>4, <2>5, <2>6, <2>7 DEF LookupInv
<1>3. CASE EndScenario
  <2>1. /\ at = "idle" /\ at' = "none" /\ defs' = <<>> /\ cursor' = 0
        /\ UNCHANGED <<text, param, asserts, value, actual_str, expected_str,
                       allocated, failure, scenario, log>>
    BY <1>3 DEF EndScenario, historyVars
  <2>2. Typed'
    BY <1>0, <2>1 DEF Typed, Places
  <2>3. Listed'
    BY <1>0, <2>1 DEF Listed
  <2>4. Looked' /\ Asserting'
    BY <1>0, <2>1 DEF Looked, Asserting, Busy, InFunction, InAssertion
  <2>5. LogIsRight'
    BY <1>0, <2>1 DEF LogIsRight
  <2> QED
    BY <2>2, <2>3, <2>4, <2>5 DEF LookupInv
<1>4. ASSUME NEW t \in Texts, RunStep(t) PROVE LookupInv'
  <2>1. /\ at = "idle" /\ at' = "search" /\ text' = t /\ text' # NULL
        /\ cursor' = ZlistxFirst /\ failure' = NULL
        /\ UNCHANGED <<defs, param, asserts, value, actual_str, expected_str,
                       allocated, scenario, log>>
    BY <1>4 DEF RunStep
  <2>2. /\ Len(defs) \in Nat /\ Len(defs) = Len(Definitions)
        /\ cursor' = 0 => Len(defs) = 0
        /\ cursor' # 0 => cursor' = 1 /\ Len(defs) # 0
    BY <1>0, <2>1 DEF Typed, Listed, ZlistxFirst
  <2>3. Typed'
    BY <1>0, <1>4, <2>1, <2>2 DEF Typed, Places
  <2>4. Listed'
    BY <1>0, <2>1 DEF Listed
  <2>5. Looked' /\ Asserting'
    BY <1>0, <2>1, <2>2
       DEF Looked, Asserting, Busy, InFunction, InAssertion, NoMatch, NoneBefore
  <2>6. LogIsRight'
    BY <1>0, <2>1 DEF LogIsRight
  <2> QED
    BY <2>3, <2>4, <2>5, <2>6 DEF LookupInv
<1>5. CASE Finished
  BY <1>0, <1>5 DEF Finished, vars, historyVars, LookupInv, Typed, Listed, Looked,
                    Asserting, LogIsRight
<1> QED
  BY <1>1, <1>2, <1>3, <1>4, <1>5

LEMMA Searching ==
  ASSUME LookupInv, TryStepDef \/ NotFound
  PROVE  LookupInv'
<1>0. Typed /\ Listed /\ Looked /\ Asserting /\ LogIsRight
  BY DEF LookupInv
<1> USE DefinitionFacts, ExecutionAssumption
<1>1. CASE NotFound
  <2>1. /\ at = "search" /\ cursor = 0 /\ at' = "answer"
        /\ UNCHANGED <<defs, cursor, text, param, asserts, value, actual_str,
                       expected_str, allocated, failure, scenario, log>>
    BY <1>1 DEF NotFound, historyVars
  <2>2. Typed'
    BY <1>0, <2>1 DEF Typed, Places
  <2>3. Listed'
    BY <1>0, <2>1 DEF Listed
  <2>4. Looked' /\ Asserting'
    BY <1>0, <2>1 DEF Looked, Asserting, Busy, InFunction, InAssertion, NoMatch
  <2>5. LogIsRight'
    BY <1>0, <2>1 DEF LogIsRight
  <2> QED
    BY <2>2, <2>3, <2>4, <2>5 DEF LookupInv
<1>2. CASE TryStepDef
  <2>1. /\ at = "search" /\ cursor # 0
        /\ defs' = [defs EXCEPT ![cursor] = ZrexMatches(defs[cursor], text)]
        /\ \/ Matches(defs[cursor].def, text) /\ at' = "call" /\ cursor' = cursor
           \/ ~Matches(defs[cursor].def, text) /\ at' = at /\ cursor' = ZlistxNext
        /\ UNCHANGED <<text, param, asserts, value, actual_str, expected_str,
                       allocated, failure, scenario, log>>
    BY <1>2 DEF TryStepDef, historyVars
  <2>2. /\ Len(defs) \in Nat /\ DOMAIN defs = 1..Len(defs)
        /\ Len(defs) = Len(Definitions) /\ cursor \in DOMAIN defs
        /\ cursor \in DOMAIN Definitions
        /\ defs[cursor] \in StepDef /\ defs[cursor].def = cursor
    BY <1>0, <2>1 DEF Typed, Listed
  <2>3. /\ ZrexMatches(defs[cursor], text) \in StepDef
        /\ ZrexMatches(defs[cursor], text).def = cursor
        /\ Matches(cursor, text) =>
             ZrexMatches(defs[cursor], text).captured = Captured(cursor, text)
    BY <2>2 DEF ZrexMatches, StepDef, Captured
  <2>4. /\ defs' \in Seq(StepDef) /\ DOMAIN defs' = DOMAIN defs
        /\ Len(defs') = Len(defs)
        /\ defs'[cursor] = ZrexMatches(defs[cursor], text)
        /\ \A i \in DOMAIN defs : defs'[i].def = i
    BY <1>0, <2>1, <2>2, <2>3 DEF Typed, Listed
  <2>5. cursor' \in 0..Len(defs) /\ cursor' \in Nat
    BY <2>1, <2>2 DEF ZlistxNext
  <2>6. Typed'
    BY <1>0, <2>1, <2>4, <2>5 DEF Typed, Places
  <2>7. Listed'
    BY <1>0, <2>1, <2>2, <2>4 DEF Listed
  <2>8. Looked'
    <3>1. CASE at' = "call"
      BY <1>0, <2>1, <2>2, <2>3, <2>4, <3>1
         DEF Looked, Busy, InFunction, InAssertion, First
    <3>2. CASE at' = at
      <4>1. ~Matches(cursor, text) /\ cursor' = ZlistxNext /\ NoneBefore(cursor, text)
        BY <1>0, <2>1, <2>2, <3>2 DEF Looked
      <4>2. IF cursor' = 0 THEN NoMatch(text) ELSE NoneBefore(cursor', text)
        BY <2>2, <4>1 DEF ZlistxNext, NoMatch, NoneBefore
      <4> QED
        BY <1>0, <2>1, <3>2, <4>2 DEF Looked, Busy, InFunction, InAssertion, NoMatch, NoneBefore
    <3> QED
      BY <2>1, <3>1, <3>2
  <2>9. Asserting' /\ LogIsRight'
    BY <1>0, <2>1 DEF Asserting, InAssertion, LogIsRight
  <2> QED
    BY <2>6, <2>7, <2>8, <2>9 DEF LookupInv
<1> QED
  BY <1>1, <1>2

LEMMA ExpectedIsValue ==
  ASSUME LookupInv, at \in InFunction, asserts # <<>>
  PROVE  ExpectedValue \in Values
<1>1. /\ First(cursor, text) /\ param = Captured(cursor, text)
      /\ asserts \in Seq(Assertion)
  BY DEF LookupInv, Looked, Typed
<1>2. Head(asserts) \in Assertion
  BY <1>1, FirstOfMany
<1>3. Head(asserts).constant \in Values
  BY <1>2 DEF Assertion
<1>4. param \in Values
  BY <1>1, DefinitionFacts DEF First
<1> QED
  BY <1>3, <1>4 DEF ExpectedValue

(* In the user's function nothing of the search changes.                   *)
LEMMA InCall ==
  ASSUME LookupInv, RunsStep \/ ValueChanges
  PROVE  LookupInv'
<1>0. Typed /\ Listed /\ Looked /\ Asserting /\ LogIsRight
  BY DEF LookupInv
<1> USE DefinitionFacts, ExecutionAssumption
<1>1. /\ Len(defs) \in Nat /\ DOMAIN defs = 1..Len(defs)
      /\ at \in {"call"} \cup InFunction =>
           /\ cursor \in DOMAIN defs /\ cursor \in DOMAIN Definitions
           /\ defs[cursor].def = cursor /\ defs[cursor] \in StepDef
           /\ First(cursor, text) /\ cursor # 0
           /\ defs[cursor].captured = Captured(cursor, text)
           /\ Current.type \in Types /\ Current.asserts \in Seq(Assertion)
           /\ Captured(cursor, text) \in Values
           /\ text # NULL
  BY <1>0 DEF Typed, Listed, Looked, First, Current, Busy
<1>2. at \in InFunction /\ asserts # <<>> => ExpectedValue \in Values
  BY ExpectedIsValue
<1>3. ASSUME NEW v \in Values, NEW reads \in Printed(Current.type, v),
             at \in InFunction
      PROVE  [at |-> allocated + 1, reads |-> reads] \in String
  BY <1>0, <1>1, <1>3 DEF Readings, String, Typed
<1>4. ASSUME UNCHANGED <<defs, cursor, text, log>>,
             at \in {"call"} \cup InFunction,
             at' \in {"answer"} \cup InFunction,
             param' = Captured(cursor, text)
      PROVE  Listed' /\ Looked' /\ LogIsRight'
  <2>1. Listed' /\ LogIsRight'
    BY <1>0, <1>4 DEF Listed, LogIsRight, InFunction, InAssertion
  <2>2. Looked'
    BY <1>0, <1>1, <1>4 DEF Looked, Busy, InFunction, InAssertion
  <2> QED
    BY <2>1, <2>2
<1>5. at \in InFunction => param = Captured(cursor, text)
  BY <1>0 DEF Looked
<1>6. CASE CallStep
  <2>1. /\ at = "call" /\ at' = "assert" /\ param' = Captured(cursor, text)
        /\ value' \in Values /\ asserts' = Current.asserts
        /\ UNCHANGED <<defs, cursor, text, actual_str, expected_str, allocated,
                       failure, scenario, log>>
    BY <1>1, <1>6 DEF CallStep, historyVars
  <2>2. Typed' /\ Asserting'
    BY <1>0, <1>1, <2>1 DEF Typed, Asserting, InAssertion, Places
  <2> QED
    BY <1>4, <2>1, <2>2 DEF LookupInv, InFunction
<1>7. CASE AssertHolds \/ StepReturns \/ ValueChanges
  <2>1. /\ at \in {"assert", "actual"} /\ at' \in {"assert", "actual", "answer"}
        /\ at' = "actual" => at = "actual" /\ asserts' = asserts
        /\ asserts' \in Seq(Assertion) /\ value' \in Values
        /\ UNCHANGED <<defs, cursor, text, param, actual_str, expected_str,
                       allocated, failure, scenario, log>>
    <3>1. CASE AssertHolds
      <4>1. Tail(asserts) \in Seq(Assertion)
        BY <1>0, <3>1, FirstOfMany DEF AssertHolds, Typed
      <4> QED
        BY <1>0, <3>1, <4>1 DEF AssertHolds, historyVars, Typed
    <3>2. CASE StepReturns
      BY <1>0, <3>2 DEF StepReturns, historyVars, Typed
    <3>3. CASE ValueChanges
      BY <1>0, <3>3 DEF ValueChanges, historyVars, Typed
    <3> QED
      BY <1>7, <3>1, <3>2, <3>3
  <2>2. Typed' /\ Asserting'
    BY <1>0, <2>1 DEF Typed, Asserting, InAssertion, Places
  <2> QED
    BY <1>4, <1>5, <2>1, <2>2 DEF LookupInv, InFunction, InAssertion
<1>8. CASE AssertFails
  <2>1. /\ at = "assert" /\ at' = "actual" /\ asserts # <<>>
        /\ failure' = [actual |-> value, expected |-> ExpectedValue]
        /\ UNCHANGED <<defs, cursor, text, param, asserts, value, actual_str,
                       expected_str, allocated, scenario, log>>
    BY <1>8 DEF AssertFails
  <2>2. Typed' /\ Asserting'
    BY <1>0, <1>2, <2>1 DEF Difference, Typed, Asserting, InAssertion, InFunction, Places
  <2> QED
    BY <1>4, <1>5, <2>1, <2>2 DEF LookupInv, InFunction, InAssertion
<1>9. CASE PrintActual
  <2>1. /\ at = "actual" /\ at' = "expected" /\ allocated' = allocated + 1
        /\ \E reads \in Printed(Current.type, value) :
             actual_str' = [at |-> allocated + 1, reads |-> reads]
        /\ UNCHANGED <<defs, cursor, text, param, asserts, value, expected_str,
                       failure, scenario, log>>
    BY <1>9 DEF PrintActual, Allocate, historyVars
  <2>2. actual_str' \in String
    BY <1>0, <1>3, <2>1 DEF Typed, InFunction, InAssertion
  <2>3. Typed' /\ Asserting'
    BY <1>0, <2>1, <2>2 DEF Typed, Asserting, InAssertion, Places
  <2> QED
    BY <1>4, <1>5, <2>1, <2>3 DEF LookupInv, InFunction, InAssertion
<1>10. CASE PrintExpected
  <2>1. /\ at = "expected" /\ at' = "reason" /\ allocated' = allocated + 1
        /\ \E reads \in Printed(Current.type, ExpectedValue) :
             expected_str' = [at |-> allocated + 1, reads |-> reads]
        /\ UNCHANGED <<defs, cursor, text, param, asserts, value, actual_str,
                       failure, scenario, log>>
    BY <1>10 DEF PrintExpected, Allocate, historyVars
  <2>2. expected_str' \in String
    BY <1>0, <1>2, <1>3, <2>1 DEF Asserting, InFunction, InAssertion
  <2>3. Typed' /\ Asserting'
    BY <1>0, <2>1, <2>2 DEF Typed, Asserting, InAssertion, Places
  <2> QED
    BY <1>4, <1>5, <2>1, <2>3 DEF LookupInv, InFunction, InAssertion
<1>11. CASE AssertReturns
  <2>1. /\ at = "free" /\ at' = "answer" /\ asserts' = <<>>
        /\ UNCHANGED <<defs, cursor, text, param, value, allocated, failure,
                       scenario, log>>
    BY <1>11 DEF AssertReturns, historyVars
  <2>2. Typed' /\ Asserting'
    BY <1>0, <2>1 DEF Typed, Asserting, InAssertion, Places
  <2> QED
    BY <1>4, <1>5, <2>1, <2>2 DEF LookupInv, InFunction, InAssertion
<1>12. CASE SetFailureReason
  <2>1. /\ at = "reason" /\ at' = "free" /\ allocated' = allocated + 1
        /\ defs' = [defs EXCEPT ![cursor] =
                      [defs[cursor] EXCEPT !.failed_str = ReasonAt(allocated + 1)]]
        /\ UNCHANGED <<cursor, text, param, asserts, value, actual_str,
                       expected_str, failure, scenario, log>>
    BY <1>12 DEF SetFailureReason, Allocate, historyVars
  <2>2. ReasonAt(allocated + 1) \in Reason
    BY <1>0, <2>1 DEF ReasonAt, Reason, Typed, Asserting, String
  <2>3. at \in {"call"} \cup InFunction
    BY <2>1 DEF InFunction, InAssertion
  <2>4. /\ defs' \in Seq(StepDef) /\ Len(defs') = Len(defs)
        /\ DOMAIN defs' = DOMAIN defs
        /\ \A i \in DOMAIN defs : /\ defs'[i].def = defs[i].def
                                  /\ defs'[i].captured = defs[i].captured
    <3>1. PICK new : new = [defs[cursor] EXCEPT !.failed_str = ReasonAt(allocated + 1)]
      OBVIOUS
    <3>2. /\ new \in StepDef /\ new.def = defs[cursor].def
          /\ new.captured = defs[cursor].captured
      BY <1>1, <2>2, <2>3, <3>1 DEF StepDef
    <3>3. defs' = [defs EXCEPT ![cursor] = new]
      BY <2>1, <3>1
    <3> QED
      BY <1>0, <1>1, <2>3, <3>2, <3>3 DEF Typed
  <2>5. Typed' /\ Asserting'
    BY <1>0, <2>1, <2>4 DEF Typed, Asserting, InAssertion, Places
  <2>6. Listed' /\ LogIsRight'
    BY <1>0, <2>1, <2>4 DEF Listed, LogIsRight
  <2>7. Looked'
    BY <1>0, <1>1, <1>5, <2>1, <2>3, <2>4 DEF Looked, Busy, InFunction, InAssertion
  <2> QED
    BY <2>5, <2>6, <2>7 DEF LookupInv
<1> QED
  BY <1>6, <1>7, <1>8, <1>9, <1>10, <1>11, <1>12 DEF RunsStep

LEMMA Answering ==
  ASSUME LookupInv, Answer
  PROVE  /\ LookupInv'
         /\ \E e \in LogEntry :
              /\ log' = Append(log, e)
              /\ e.scenario = scenario /\ e.text = text /\ e.param = param
              /\ e.def = cursor /\ e.failure = failure /\ e.reason = FailureReason
              /\ e.reply = Reply
<1>0. Typed /\ Listed /\ Looked /\ Asserting /\ LogIsRight
  BY DEF LookupInv
<1> USE DefinitionFacts, ExecutionAssumption
<1>1. /\ at = "answer" /\ at' = "idle" /\ text' = NULL /\ param' = NULL
      /\ UNCHANGED <<defs, cursor, asserts, value, actual_str, expected_str,
                     allocated, failure, scenario>>
  BY Zenon DEF Answer
<1>2. cursor # 0 => cursor \in DOMAIN defs /\ defs[cursor].def = cursor
  BY <1>0 DEF Typed, Listed
<1>3. FailureReason \in Reason \cup {NULL}
  <2>1. cursor # 0 => defs[cursor] \in StepDef
    BY <1>0, <1>2 DEF Typed
  <2> QED
    BY <2>1 DEF FailureReason, StepDef
<1>4. Reply \in Replies
  BY Zenon DEF Reply, Replies
<1>5. PICK e : e = [scenario |-> scenario, text |-> text, def |-> cursor,
                    param |-> param, failure |-> failure,
                    reason |-> FailureReason, reply |-> Reply]
  OBVIOUS
<1>6. log' = Append(log, e)
  <2>1. (IF cursor = 0 THEN 0 ELSE defs[cursor].def) = cursor
    BY <1>2
  <2> QED
    BY <1>5, <2>1, Zenon DEF Answer
<1>7. /\ e \in LogEntry
      /\ e.scenario = scenario /\ e.text = text /\ e.param = param
      /\ e.def = cursor /\ e.failure = failure /\ e.reason = FailureReason
      /\ e.reply = Reply
  <2>1. text \in Texts /\ cursor \in Nat
    BY <1>0, <1>1 DEF Typed, Looked, Busy
  <2> QED
    BY <1>0, <1>3, <1>4, <1>5, <2>1 DEF LogEntry, Typed
<1>8. /\ log' \in Seq(LogEntry)
      /\ DOMAIN log = 1..Len(log) /\ DOMAIN log' = 1..(Len(log) + 1)
      /\ Len(log) \in Nat
      /\ \A k \in DOMAIN log : log'[k] = log[k]
      /\ log'[Len(log) + 1] = e
  BY <1>0, <1>6, <1>7, OneMore DEF Typed
<1>9. Typed'
  BY <1>0, <1>1, <1>8 DEF Typed, Places
<1>10. Listed' /\ Asserting'
  BY <1>0, <1>1 DEF Listed, Asserting, InAssertion
<1>11. Looked'
  BY <1>0, <1>1 DEF Looked, Busy, InFunction, InAssertion
<1>12. LogIsRight'
  <2>1. IF e.def = 0 THEN NoMatch(e.text)
        ELSE First(e.def, e.text) /\ e.param = Captured(e.def, e.text)
    BY <1>0, <1>1, <1>7 DEF Looked
  <2> QED
    BY <1>0, <1>8, <2>1 DEF LogIsRight
<1> QED
  BY <1>6, <1>7, <1>9, <1>10, <1>11, <1>12 DEF LookupInv

LEMMA LookupNext == LookupInv /\ [Next]_vars => LookupInv'
<1> SUFFICES ASSUME LookupInv, [Next]_vars PROVE LookupInv'  OBVIOUS
<1>1. CASE UNCHANGED vars
  BY <1>1 DEF vars, historyVars, LookupInv, Typed, Listed, Looked, Asserting, LogIsRight
<1>2. CASE Next
  BY <1>2, Outside, Searching, InCall, Answering DEF Next
<1> QED
  BY <1>1, <1>2

LEMMA LookupInvariance == Spec => []LookupInv
BY LookupInit, LookupNext, PTL DEF Spec

(* Each step that was handled was run by the first step definition that    *)
(* matches its text, with what this one captured of this text, whatever    *)
(* was matched before.                                                     *)
THEOREM ParamsTrue == Spec => []ParamsOfThisStep
<1>1. LookupInv => ParamsOfThisStep
  <2> SUFFICES ASSUME LookupInv, NEW k \in DOMAIN log
               PROVE  LET first == log[k].def
                          Matching == {d \in DOMAIN Definitions : Matches(d, log[k].text)}
                      IN  IF Matching = {} THEN first = 0
                          ELSE /\ first \in Matching
                               /\ \A d \in Matching : first <= d
                               /\ log[k].param = Definitions[first].captures[log[k].text]
    BY DEF ParamsOfThisStep
  <2>1. IF log[k].def = 0 THEN NoMatch(log[k].text)
        ELSE /\ First(log[k].def, log[k].text)
             /\ log[k].param = Captured(log[k].def, log[k].text)
    BY DEF LookupInv, LogIsRight
  <2>2. DOMAIN Definitions \subseteq Nat
    BY DefinitionFacts
  <2> QED
    BY <2>1, <2>2 DEF NoMatch, First, NoneBefore, Captured
<1> QED
  BY <1>1, LookupInvariance, PTL

-----------------------------------------------------------------------------
(***************************************************************************)
(* Strings.                                                                *)
(***************************************************************************)
Failed == {i \in DOMAIN defs : defs[i].failed_str # NULL}

Apart == heap \ Held

HeapInv ==
  /\ heap \subseteq 1..allocated
  /\ Held \subseteq heap
  /\ \A i, j \in Failed : defs[i].failed_str.at = defs[j].failed_str.at => i = j
  /\ IF at \in {"expected", "reason", "free"}
     THEN actual_str.at \in Apart ELSE actual_str = NULL
  /\ IF at \in {"reason", "free"}
     THEN expected_str.at \in Apart \ {actual_str.at} ELSE expected_str = NULL

LEMMA HeldByFailed == Held = {defs[i].failed_str.at : i \in Failed}
BY Zenon DEF Held, Failed

(* Statements that leave the reasons as they are.                          *)
LEMMA SameReasons ==
  ASSUME UNCHANGED <<heap, allocated, actual_str, expected_str>>, HeapInv,
         DOMAIN defs' = DOMAIN defs,
         \A i \in DOMAIN defs : defs'[i].failed_str = defs[i].failed_str,
         at' = at \/ {at, at'} \cap {"expected", "reason", "free"} = {}
  PROVE  HeapInv'
<1>1. Held' = Held /\ Failed' = Failed
  BY DEF Held, Failed
<1> QED
  BY <1>1 DEF HeapInv, Apart, Failed

LEMMA HeapInit == Init => HeapInv
<1> SUFFICES ASSUME Init PROVE HeapInv  OBVIOUS
<1>1. /\ defs = <<>> /\ heap = {} /\ at = "none" /\ allocated = 0
      /\ actual_str = NULL /\ expected_str = NULL
  BY DEF Init
<1>2. Failed = {} /\ Held = {}
  BY <1>1, HeldByFailed DEF Failed
<1> QED
  BY <1>1, <1>2 DEF HeapInv

LEMMA HeapNext == LookupInv /\ HeapInv /\ [Next]_vars => HeapInv'
<1> SUFFICES ASSUME LookupInv, HeapInv, [Next]_vars PROVE HeapInv'  OBVIOUS
<1>0. /\ defs \in Seq(StepDef) /\ allocated \in Nat
      /\ Len(defs) \in Nat /\ DOMAIN defs = 1..Len(defs)
      /\ at \in {"call"} \cup InFunction => cursor \in DOMAIN defs
  BY DEF LookupInv, Typed, Looked
<1>1. CASE UNCHANGED vars \/ Finished
  BY <1>1, SameReasons DEF Finished, vars
<1>2. CASE \/ StartScenario \/ Registered \/ NotFound \/ CallStep \/ AssertHolds
           \/ StepReturns \/ ValueChanges \/ AssertFails \/ \E t \in Texts : RunStep(t)
  <2>1. /\ UNCHANGED <<heap, allocated, actual_str, expected_str, defs>>
        /\ {at, at'} \cap {"expected", "reason", "free"} = {}
    BY <1>2 DEF StartScenario, Registered, NotFound, CallStep, AssertHolds,
                StepReturns, ValueChanges, AssertFails, RunStep
  <2> QED
    BY <2>1, SameReasons
<1>3. CASE Answer
  <2>1. /\ UNCHANGED <<heap, allocated, actual_str, expected_str, defs>>
        /\ at = "answer" /\ at' = "idle"
    BY <1>3, Zenon DEF Answer
  <2>2. {at, at'} \cap {"expected", "reason", "free"} = {}
    BY <2>1
  <2> QED
    BY <2>1, <2>2, SameReasons
<1>4. CASE Step
  <2>1. /\ UNCHANGED <<heap, allocated, actual_str, expected_str, at>>
        /\ at = "register" /\ Len(defs) < Len(Definitions)
    BY <1>4 DEF Step
  <2>2. PICK new \in StepDef : new.failed_str = NULL /\ defs' = Append(defs, new)
    <3>1. Len(defs) + 1 \in DOMAIN Definitions
      BY <1>0, <2>1, DefinitionFacts
    <3>2. CucumberStepDefNew(Len(defs) + 1) \in StepDef
      BY <3>1 DEF CucumberStepDefNew, StepDef
    <3> QED
      BY <1>4, <3>2 DEF Step, CucumberAddStepDef, CucumberStepDefNew
  <2>3. /\ DOMAIN defs' = 1..(Len(defs) + 1)
        /\ \A k \in DOMAIN defs : defs'[k] = defs[k]
        /\ defs'[Len(defs) + 1] = new
    BY <1>0, <2>2, OneMore
  <2>4. Failed' = Failed
    BY <1>0, <2>2, <2>3 DEF Failed
  <2>5. \A i \in Failed : defs'[i].failed_str = defs[i].failed_str
    BY <2>3 DEF Failed
  <2>6. Held' = Held
    BY <2>4, <2>5, HeldByFailed DEF Held, Failed
  <2> QED
    BY <2>1, <2>4, <2>5, <2>6 DEF HeapInv, Apart
<1>5. CASE EndScenario
  <2>1. /\ at = "idle" /\ at' = "none" /\ heap' = heap \ Held /\ defs' = <<>>
        /\ UNCHANGED <<actual_str, expected_str, allocated>>
    BY <1>5 DEF EndScenario
  <2>2. Failed' = {} /\ Held' = {}
    BY <2>1 DEF Failed, Held
  <2> QED
    BY <2>1, <2>2 DEF HeapInv
<1>6. CASE TryStepDef
  <2>1. /\ at = "search" /\ cursor # 0 /\ at' \in {"search", "call"}
        /\ defs' = [defs EXCEPT ![cursor] = ZrexMatches(defs[cursor], text)]
        /\ UNCHANGED <<heap, allocated, actual_str, expected_str>>
    BY <1>6 DEF TryStepDef
  <2>2. ZrexMatches(defs[cursor], text).failed_str = defs[cursor].failed_str
    <3>1. defs[cursor] \in StepDef
      BY <1>0, <2>1 DEF LookupInv, Typed
    <3> QED
      BY <3>1 DEF ZrexMatches, StepDef
  <2>3. /\ DOMAIN defs' = DOMAIN defs
        /\ \A i \in DOMAIN defs : defs'[i].failed_str = defs[i].failed_str
    BY <1>0, <2>1, <2>2
  <2> QED
    BY <2>1, <2>3, SameReasons
<1>7. CASE PrintActual
  <2>1. /\ at = "actual" /\ at' = "expected" /\ allocated' = allocated + 1
        /\ heap' = heap \cup {allocated + 1} /\ defs' = defs
        /\ expected_str' = expected_str /\ actual_str'.at = allocated + 1
    BY <1>7 DEF PrintActual, Allocate
  <2>2. Held' = Held /\ Failed' = Failed
    BY <2>1 DEF Held, Failed
  <2> QED
    BY <1>0, <2>1, <2>2 DEF HeapInv, Apart
<1>8. CASE PrintExpected
  <2>1. /\ at = "expected" /\ at' = "reason" /\ allocated' = allocated + 1
        /\ heap' = heap \cup {allocated + 1} /\ defs' = defs
        /\ actual_str' = actual_str /\ expected_str'.at = allocated + 1
    BY <1>8 DEF PrintExpected, Allocate
  <2>2. Held' = Held /\ Failed' = Failed
    BY <2>1 DEF Held, Failed
  <2> QED
    BY <1>0, <2>1, <2>2 DEF HeapInv, Apart
<1>9. CASE SetFailureReason
  <2>1. /\ at = "reason" /\ at' = "free" /\ allocated' = allocated + 1
        /\ heap' = heap \cup {allocated + 1}
        /\ defs' = [defs EXCEPT ![cursor] =
                      [defs[cursor] EXCEPT !.failed_str = ReasonAt(allocated + 1)]]
        /\ UNCHANGED <<actual_str, expected_str>>
    BY <1>9 DEF SetFailureReason, Allocate
  <2>2. cursor \in DOMAIN defs /\ defs[cursor] \in StepDef
    BY <1>0, <2>1 DEF InFunction, InAssertion
  <2>3. PICK new : new = [defs[cursor] EXCEPT !.failed_str = ReasonAt(allocated + 1)]
    OBVIOUS
  <2>4. new.failed_str.at = allocated + 1
    BY <2>2, <2>3 DEF StepDef, ReasonAt
  <2>5. /\ DOMAIN defs' = DOMAIN defs /\ defs'[cursor] = new
        /\ \A i \in DOMAIN defs : i # cursor => defs'[i] = defs[i]
    BY <1>0, <2>1, <2>2, <2>3
  <2>6. \A i \in Failed' : i = cursor \/ (i \in Failed /\ defs'[i] = defs[i])
    BY <2>5 DEF Failed
  <2>7. Held' \subseteq Held \cup {allocated + 1}
    <3>1. Held' = {defs'[i].failed_str.at : i \in Failed'}
      BY Zenon DEF Held, Failed
    <3>2. \A i \in Failed' : defs'[i].failed_str.at \in Held \cup {allocated + 1}
      BY <2>4, <2>5, <2>6, HeldByFailed
    <3> QED
      BY <3>1, <3>2
  <2>8. \A i \in Failed : defs[i].failed_str.at # allocated + 1
    BY <1>0, HeldByFailed DEF HeapInv
  <2>9. allocated + 1 \notin heap
    BY <1>0 DEF HeapInv
  <2>10. \A i, j \in Failed' : defs'[i].failed_str.at = defs'[j].failed_str.at => i = j
    BY <2>4, <2>5, <2>6, <2>8 DEF HeapInv
  <2> QED
    BY <1>0, <2>1, <2>7, <2>9, <2>10 DEF HeapInv, Apart
<1>10. CASE AssertReturns
  <2>1. /\ at = "free" /\ at' = "answer" /\ allocated' = allocated /\ defs' = defs
        /\ heap' = heap \ {actual_str.at, expected_str.at}
        /\ actual_str' = NULL /\ expected_str' = NULL
    BY <1>10 DEF AssertReturns
  <2>2. Held' = Held /\ Failed' = Failed
    BY <2>1 DEF Held, Failed
  <2> QED
    BY <2>1, <2>2 DEF HeapInv, Apart
<1> QED
  BY <1>1, <1>2, <1>3, <1>4, <1>5, <1>6, <1>7, <1>8, <1>9, <1>10 DEF Next, RunsStep

LEMMA HeapInvariance == Spec => []HeapInv
<1>1. LookupInv /\ HeapInv /\ [Next]_vars => HeapInv'
  BY HeapNext
<1> QED
  BY <1>1, HeapInit, LookupInvariance, PTL DEF Spec

(* No string is read or freed that is not allocated, none has two owners.  *)
THEOREM NoStringShared == Spec => []StringsOwned
<1>1. HeapInv => StringsOwned
  BY DEF HeapInv, Apart, Failed, StringsOwned
<1> QED
  BY <1>1, HeapInvariance, PTL

(* Each variable has its type.                                             *)
THEOREM StepExecutionTyped == Spec => []TypeOK
<1>1. LookupInv /\ HeapInv => TypeOK
  BY DEF LookupInv, Typed, Asserting, HeapInv, TypeOK
<1> QED
  BY <1>1, LookupInvariance, HeapInvariance, PTL

-----------------------------------------------------------------------------
(***************************************************************************)
(* Reasons of failures.                                                    *)
(***************************************************************************)
FailedIn(d) ==
  {j \in DOMAIN log : log[j].failure # NULL /\ log[j].def = d
                      /\ log[j].scenario = scenario}

LastOf(j, M) == j \in M /\ \A i \in M : i <= j

(* The step definition that has just failed is ahead of what is logged.    *)
Ahead(d) == at \in {"free", "answer"} /\ failure # NULL /\ d = cursor

Remembers(d) ==
  IF defs[d].failed_str = NULL THEN FailedIn(d) = {}
  ELSE \E j \in DOMAIN log :
         LastOf(j, FailedIn(d)) /\ log[j].reason = defs[d].failed_str

(* A step definition has the reason of its last failure in this scenario.  *)
Remembering ==
  /\ \A k \in DOMAIN log : log[k].scenario <= scenario
  /\ at = "register" => \A k \in DOMAIN log : log[k].scenario # scenario
  /\ \A d \in DOMAIN defs : ~Ahead(d) => Remembers(d)

(* From the failing assertion to its reason.                               *)
Composing ==
  /\ at \in {"search", "call", "assert"} => failure = NULL
  /\ at \in InAssertion => failure # NULL
  /\ at \in {"actual", "expected"} => failure.expected = ExpectedValue
  /\ at = "actual" => Current.volatile \/ value = failure.actual
  /\ at \in {"expected", "reason"} =>
       Current.volatile \/ actual_str.reads \in Printed(Current.type, failure.actual)
  /\ at = "reason" => expected_str.reads \in Printed(Current.type, failure.expected)
  /\ at \in {"free", "answer"} /\ failure # NULL =>
       /\ cursor # 0
       /\ defs[cursor].failed_str # NULL
       /\ Shows(defs[cursor].failed_str, Current, failure)

AnswersFailure(k) == log[k].reply = "STEP FAILED"

LogShows ==
  /\ \A k \in DOMAIN log : log[k].failure # NULL =>
       Shows(log[k].reason, Definitions[log[k].def], log[k].failure)
  /\ \A k \in DOMAIN log : AnswersFailure(k) =>
       \E j \in Failures(k) : LastOf(j, Failures(k)) /\ log[k].reason = log[j].reason

ReasonsInv == Remembering /\ Composing /\ LogShows

LEMMA ReasonsInit == Init => ReasonsInv
<1> SUFFICES ASSUME Init PROVE ReasonsInv  OBVIOUS
<1>1. log = <<>> /\ defs = <<>> /\ at = "none"
  BY DEF Init
<1>2. DOMAIN log = {} /\ DOMAIN defs = {}
  BY <1>1
<1>3. Remembering
  BY <1>1, <1>2 DEF Remembering
<1>4. Composing
  BY <1>1 DEF Composing, InAssertion
<1>5. LogShows
  BY <1>2, Zenon DEF LogShows
<1> QED
  BY <1>3, <1>4, <1>5 DEF ReasonsInv

LEMMA LogShowsKept ==
  ASSUME LogShows, log' = log
  PROVE  LogShows'
BY Zenon DEF LogShows, AnswersFailure, Failures, LastOf, Shows

(* Statements that leave the log and the reasons as they are.              *)
LEMMA SameLog ==
  ASSUME UNCHANGED <<log, scenario>>, ReasonsInv,
         DOMAIN defs' = DOMAIN defs,
         \A i \in DOMAIN defs : defs'[i].failed_str = defs[i].failed_str,
         at' = "register" => at = "register",
         at \in {"free", "answer"} =>
           at' \in {"free", "answer"} /\ failure' = failure /\ cursor' = cursor
  PROVE  Remembering' /\ LogShows'
<1>1. \A d : FailedIn(d)' = FailedIn(d)
  BY DEF FailedIn
<1>2. \A d \in DOMAIN defs : ~Ahead(d)' => ~Ahead(d)
  BY DEF Ahead
<1>3. \A d \in DOMAIN defs : Remembers(d) => Remembers(d)'
  BY <1>1, Zenon DEF Remembers, LastOf
<1>4. Remembering'
  BY <1>2, <1>3 DEF ReasonsInv, Remembering
<1>5. LogShows'
  BY LogShowsKept DEF ReasonsInv
<1> QED
  BY <1>4, <1>5

LEMMA ReasonsOutside ==
  ASSUME LookupInv, ReasonsInv,
         \/ StartScenario \/ Step \/ Registered \/ EndScenario
         \/ \E t \in Texts : RunStep(t)
  PROVE  ReasonsInv'
<1>0. Remembering /\ Composing /\ LogShows
  BY DEF ReasonsInv
<1>1. CASE StartScenario
  <2>1. /\ at = "none" /\ at' = "register" /\ scenario' = scenario + 1
        /\ defs = <<>> /\ UNCHANGED <<log, defs>>
    BY <1>1 DEF StartScenario, LookupInv, Listed
  <2>2. /\ scenario \in Nat /\ DOMAIN defs = {}
        /\ \A k \in DOMAIN log : log[k].scenario \in Nat
    <3>1. scenario \in Nat /\ log \in Seq(LogEntry)
      BY DEF LookupInv, Typed
    <3>2. \A k \in DOMAIN log : log[k] \in LogEntry
      BY <3>1
    <3> QED
      BY <2>1, <3>1, <3>2 DEF LogEntry
  <2>3. Remembering'
    BY <1>0, <2>1, <2>2 DEF Remembering
  <2>4. Composing'
    BY <2>1 DEF Composing, InAssertion
  <2>5. LogShows'
    BY <1>0, <2>1, LogShowsKept
  <2> QED
    BY <2>3, <2>4, <2>5 DEF ReasonsInv
<1>2. CASE Step
  <2>1. /\ at = "register" /\ at' = "register" /\ UNCHANGED <<log, scenario>>
        /\ Len(defs) < Len(Definitions)
    BY <1>2 DEF Step, historyVars
  <2>2. PICK new \in StepDef : new.failed_str = NULL /\ defs' = Append(defs, new)
    <3>1. Len(defs) + 1 \in DOMAIN Definitions
      BY <2>1, DefinitionFacts DEF LookupInv, Typed
    <3>2. CucumberStepDefNew(Len(defs) + 1) \in StepDef
      BY <3>1 DEF CucumberStepDefNew, StepDef
    <3> QED
      BY <1>2, <3>2 DEF Step, CucumberAddStepDef, CucumberStepDefNew
  <2>3. /\ DOMAIN defs' = 1..(Len(defs) + 1) /\ DOMAIN defs = 1..Len(defs)
        /\ Len(defs) \in Nat
        /\ \A k \in DOMAIN defs : defs'[k] = defs[k]
        /\ defs'[Len(defs) + 1] = new
    BY <2>2, OneMore DEF LookupInv, Typed
  <2>4. \A d : FailedIn(d)' = {}
    BY <1>0, <2>1 DEF FailedIn, Remembering
  <2>5. \A d \in DOMAIN defs' : defs'[d].failed_str = NULL
    <3>1. ASSUME NEW d \in DOMAIN defs PROVE defs[d].failed_str = NULL
      <4>1. Remembers(d) /\ FailedIn(d) = {}
        BY <1>0, <2>1 DEF Remembering, Ahead, FailedIn
      <4> QED
        BY <4>1 DEF Remembers, LastOf
    <3> QED
      BY <2>2, <2>3, <3>1
  <2>6. Remembering'
    BY <1>0, <2>1, <2>4, <2>5 DEF Remembering, Remembers
  <2>7. Composing'
    BY <2>1 DEF Composing, InAssertion
  <2>8. LogShows'
    BY <1>0, <2>1, LogShowsKept
  <2> QED
    BY <2>6, <2>7, <2>8 DEF ReasonsInv
<1>3. CASE Registered
  <2>1. /\ at = "register" /\ at' = "idle"
        /\ UNCHANGED <<log, scenario, failure, cursor, defs>>
    BY <1>3 DEF Registered, historyVars
  <2>2. Remembering' /\ LogShows'
    BY <2>1, SameLog
  <2>3. Composing'
    BY <2>1 DEF Composing, InAssertion
  <2> QED
    BY <2>2, <2>3 DEF ReasonsInv
<1>4. CASE EndScenario
  <2>1. at' = "none" /\ defs' = <<>> /\ UNCHANGED <<log, scenario>>
    BY <1>4 DEF EndScenario, historyVars
  <2>2. DOMAIN defs' = {}
    BY <2>1
  <2>3. Remembering'
    BY <1>0, <2>1, <2>2 DEF Remembering
  <2>4. Composing'
    BY <2>1 DEF Composing, InAssertion
  <2>5. LogShows'
    BY <1>0, <2>1, LogShowsKept
  <2> QED
    BY <2>3, <2>4, <2>5 DEF ReasonsInv
<1>5. ASSUME NEW t \in Texts, RunStep(t) PROVE ReasonsInv'
  <2>1. /\ at = "idle" /\ at' = "search" /\ failure' = NULL
        /\ UNCHANGED <<log, scenario, defs>>
    BY <1>5 DEF RunStep
  <2>2. \A d : FailedIn(d)' = FailedIn(d)
    BY <2>1 DEF FailedIn
  <2>3. \A d \in DOMAIN defs : Remembers(d)'
    <3>1. \A d \in DOMAIN defs : Remembers(d)
      BY <1>0, <2>1 DEF Remembering, Ahead
    <3> QED
      BY <2>1, <2>2, <3>1, Zenon DEF Remembers, LastOf
  <2>4. Remembering'
    BY <1>0, <2>1, <2>3 DEF Remembering
  <2>5. Composing'
    BY <2>1 DEF Composing, InAssertion
  <2>6. LogShows'
    BY <1>0, <2>1, LogShowsKept
  <2> QED
    BY <2>4, <2>5, <2>6 DEF ReasonsInv
<1> QED
  BY <1>1, <1>2, <1>3, <1>4, <1>5

LEMMA ReasonsInCall ==
  ASSUME LookupInv, ReasonsInv,
         TryStepDef \/ NotFound \/ RunsStep \/ ValueChanges
  PROVE  ReasonsInv'
<1>0. /\ Remembering /\ Composing /\ LogShows
      /\ defs \in Seq(StepDef) /\ DOMAIN defs = 1..Len(defs) /\ Len(defs) \in Nat
      /\ cursor # 0 => cursor \in DOMAIN defs
      /\ at \in {"call"} \cup InFunction => cursor \in DOMAIN defs /\ cursor # 0
  BY DEF ReasonsInv, LookupInv, Typed, Looked
<1>1. CASE TryStepDef
  <2>1. /\ at = "search" /\ cursor # 0 /\ at' \in {"search", "call"}
        /\ defs' = [defs EXCEPT ![cursor] = ZrexMatches(defs[cursor], text)]
        /\ UNCHANGED <<failure, log, scenario>>
    BY <1>1 DEF TryStepDef, historyVars
  <2>2. ZrexMatches(defs[cursor], text).failed_str = defs[cursor].failed_str
    <3>1. defs[cursor] \in StepDef
      BY <1>0, <2>1
    <3> QED
      BY <3>1 DEF ZrexMatches, StepDef
  <2>3. /\ DOMAIN defs' = DOMAIN defs
        /\ \A i \in DOMAIN defs : defs'[i].failed_str = defs[i].failed_str
    BY <1>0, <2>1, <2>2
  <2>4. Composing'
    BY <1>0, <2>1 DEF Composing, InAssertion
  <2> QED
    BY <2>1, <2>3, <2>4, SameLog DEF ReasonsInv
<1>2. CASE NotFound \/ CallStep \/ AssertHolds \/ StepReturns
  <2>1. /\ at \in {"search", "call", "assert"} /\ at' \in {"assert", "answer"}
        /\ UNCHANGED <<log, scenario, failure, defs>>
    BY <1>2 DEF NotFound, CallStep, AssertHolds, StepReturns, historyVars
  <2>2. Remembering' /\ LogShows'
    BY <2>1, SameLog
  <2>3. Composing'
    BY <1>0, <2>1 DEF Composing, InAssertion
  <2> QED
    BY <2>2, <2>3 DEF ReasonsInv
<1>3. CASE AssertFails
  <2>1. /\ at = "assert" /\ at' = "actual"
        /\ failure' = [actual |-> value, expected |-> ExpectedValue]
        /\ asserts # <<>>
        /\ UNCHANGED <<log, scenario, defs, cursor, value, asserts, param>>
    BY <1>3 DEF AssertFails
  <2>2. Remembering' /\ LogShows'
    BY <2>1, SameLog
  <2>3. failure' # NULL
    <3>1. failure' \in Difference \cup {NULL}
      BY InCall, <1>3 DEF LookupInv, Typed, RunsStep
    <3>2. value \in Values /\ ExpectedValue \in Values
      BY <2>1, ExpectedIsValue DEF LookupInv, Typed, InFunction
    <3> QED
      BY <2>1, <3>2, NullAssumption DEF Difference
  <2>4. Composing'
    BY <2>1, <2>3 DEF Composing, InAssertion, ExpectedValue
  <2> QED
    BY <2>2, <2>4 DEF ReasonsInv
<1>4. CASE ValueChanges
  <2>1. /\ at \in {"assert", "actual"} /\ at' = at /\ Current.volatile
        /\ UNCHANGED <<log, scenario, failure, defs, cursor, param, asserts>>
    BY <1>4 DEF ValueChanges, historyVars
  <2>2. Remembering' /\ LogShows'
    BY <2>1, SameLog
  <2>3. Composing'
    BY <1>0, <2>1 DEF Composing, InAssertion, ExpectedValue, Current
  <2> QED
    BY <2>2, <2>3 DEF ReasonsInv
<1>5. CASE PrintActual
  <2>1. /\ at = "actual" /\ at' = "expected"
        /\ actual_str'.reads \in Printed(Current.type, value)
        /\ UNCHANGED <<log, scenario, failure, defs, cursor, param, asserts>>
    BY <1>5 DEF PrintActual, historyVars
  <2>2. Remembering' /\ LogShows'
    BY <2>1, SameLog
  <2>3. Current' = Current /\ ExpectedValue' = ExpectedValue
    BY <2>1 DEF Current, ExpectedValue
  <2>4. Composing'
    BY <1>0, <2>1, <2>3 DEF Composing, InAssertion
  <2> QED
    BY <2>2, <2>4 DEF ReasonsInv
<1>6. CASE PrintExpected
  <2>1. /\ at = "expected" /\ at' = "reason"
        /\ expected_str'.reads \in Printed(Current.type, ExpectedValue)
        /\ UNCHANGED <<log, scenario, failure, defs, cursor, actual_str>>
    BY <1>6 DEF PrintExpected, historyVars
  <2>2. Remembering' /\ LogShows'
    BY <2>1, SameLog
  <2>3. Current' = Current
    BY <2>1 DEF Current
  <2>4. Composing'
    BY <1>0, <2>1, <2>3 DEF Composing, InAssertion
  <2> QED
    BY <2>2, <2>4 DEF ReasonsInv
<1>7. CASE SetFailureReason
  <2>1. /\ at = "reason" /\ at' = "free"
        /\ defs' = [defs EXCEPT ![cursor] =
                      [defs[cursor] EXCEPT !.failed_str = ReasonAt(allocated + 1)]]
        /\ UNCHANGED <<log, scenario, failure, cursor>>
    BY <1>7 DEF SetFailureReason, Allocate, historyVars
  <2>2. /\ cursor \in DOMAIN defs /\ cursor # 0 /\ failure # NULL
        /\ defs[cursor] \in StepDef
    BY <1>0, <2>1 DEF InFunction, InAssertion, Composing
  <2>3. PICK new : new = [defs[cursor] EXCEPT !.failed_str = ReasonAt(allocated + 1)]
    OBVIOUS
  <2>4. new.failed_str = ReasonAt(allocated + 1) /\ new.def = defs[cursor].def
    BY <2>2, <2>3 DEF StepDef
  <2>5. /\ DOMAIN defs' = DOMAIN defs /\ defs'[cursor] = new
        /\ \A i \in DOMAIN defs : i # cursor => defs'[i] = defs[i]
    BY <1>0, <2>1, <2>2, <2>3
  <2>6. \A d : FailedIn(d)' = FailedIn(d)
    BY <2>1 DEF FailedIn
  <2>7. \A d \in DOMAIN defs : d # cursor => Remembers(d)'
    <3>1. \A d \in DOMAIN defs : Remembers(d)
      BY <1>0, <2>1 DEF Remembering, Ahead
    <3> QED
      BY <2>1, <2>5, <2>6, <3>1, Zenon DEF Remembers, LastOf
  <2>8. Remembering'
    BY <1>0, <2>1, <2>2, <2>5, <2>7 DEF Remembering, Ahead
  <2>9. ReasonAt(allocated + 1) # NULL
    BY <2>1, NullAssumption DEF ReasonAt, Reason, LookupInv, Typed, Asserting, String
  <2>10. Current' = Current
    BY <2>1, <2>4, <2>5 DEF Current
  <2>11. Shows(ReasonAt(allocated + 1), Current, failure)
    BY <1>0, <2>1 DEF Shows, ReasonAt, Composing
  <2>12. Composing'
    BY <2>1, <2>2, <2>4, <2>5, <2>9, <2>10, <2>11 DEF Composing, InAssertion
  <2>13. LogShows'
    BY <1>0, <2>1, LogShowsKept
  <2> QED
    BY <2>8, <2>12, <2>13 DEF ReasonsInv
<1>8. CASE AssertReturns
  <2>1. /\ at = "free" /\ at' = "answer"
        /\ UNCHANGED <<log, scenario, failure, defs, cursor>>
    BY <1>8 DEF AssertReturns, historyVars
  <2>2. Remembering' /\ LogShows'
    BY <2>1, SameLog
  <2>3. Current' = Current
    BY <2>1 DEF Current
  <2>4. Composing'
    BY <1>0, <2>1, <2>3 DEF Composing, InAssertion
  <2> QED
    BY <2>2, <2>4 DEF ReasonsInv
<1> QED
  BY <1>1, <1>2, <1>3, <1>4, <1>5, <1>6, <1>7, <1>8 DEF RunsStep

LEMMA FailedReply == Reply = "STEP FAILED" => cursor # 0 /\ FailureReason # NULL
BY Zenon DEF Reply

LEMMA ReasonsAnswered ==
  ASSUME LookupInv, ReasonsInv, Answer
  PROVE  ReasonsInv'
<1>0. /\ Remembering /\ Composing /\ LogShows
      /\ scenario \in Nat /\ log \in Seq(LogEntry)
      /\ cursor # 0 => cursor \in DOMAIN defs /\ defs[cursor].def = cursor
  BY DEF ReasonsInv, LookupInv, Typed, Listed
<1>1. /\ at = "answer" /\ at' = "idle" /\ UNCHANGED <<defs, cursor, failure, scenario>>
  BY Zenon DEF Answer
<1>2. PICK e \in LogEntry :
        /\ log' = Append(log, e)
        /\ e.scenario = scenario /\ e.def = cursor /\ e.failure = failure
        /\ e.reason = FailureReason /\ e.reply = Reply
  BY Answering, Zenon
<1>3. PICK n, d0 : n = Len(log) + 1 /\ d0 = cursor
  OBVIOUS
<1>4. /\ DOMAIN log = 1..(n - 1) /\ DOMAIN log' = 1..n /\ n \in Nat /\ n \notin DOMAIN log
      /\ \A k \in DOMAIN log : log'[k] = log[k] /\ k < n /\ k \in DOMAIN log'
      /\ log'[n] = e /\ n \in DOMAIN log'
      /\ \A k \in DOMAIN log' : k \in DOMAIN log \/ k = n
      /\ \A k \in DOMAIN log' : k <= n
  BY <1>0, <1>2, <1>3, OneMore
<1>5. /\ \A d : d # cursor \/ failure = NULL => FailedIn(d)' = FailedIn(d)
      /\ failure # NULL => LastOf(n, FailedIn(d0)')
  <2>1. ASSUME NEW d, d # cursor \/ failure = NULL PROVE FailedIn(d)' = FailedIn(d)
    BY <1>1, <1>2, <1>4, <2>1 DEF FailedIn
  <2>2. failure # NULL => LastOf(n, FailedIn(d0)')
    BY <1>1, <1>2, <1>3, <1>4 DEF FailedIn, LastOf
  <2> QED
    BY <2>1, <2>2
<1>6. failure # NULL =>
        /\ cursor # 0 /\ defs[cursor].failed_str # NULL
        /\ Shows(defs[cursor].failed_str, Definitions[cursor], failure)
        /\ FailureReason = defs[cursor].failed_str
  BY <1>0, <1>1 DEF Composing, Current, FailureReason
<1>7. \A d \in DOMAIN defs : d # cursor \/ failure = NULL => Remembers(d)
  BY <1>0 DEF Remembering, Ahead
<1>8. Remembering'
  <2>1. ASSUME NEW d \in DOMAIN defs, d # cursor \/ failure = NULL PROVE Remembers(d)'
    <3>1. FailedIn(d)' = FailedIn(d) /\ Remembers(d)
      BY <1>5, <1>7, <2>1
    <3> QED
      BY <1>1, <1>4, <3>1, Zenon DEF Remembers, LastOf
  <2>2. ASSUME NEW d \in DOMAIN defs, d = cursor, failure # NULL PROVE Remembers(d)'
    <3>1. LastOf(n, FailedIn(d)') /\ log'[n].reason = defs[d].failed_str
          /\ defs[d].failed_str # NULL
      BY <1>2, <1>3, <1>4, <1>5, <1>6, <2>2
    <3>2. \E j \in DOMAIN log' :
            LastOf(j, FailedIn(d)') /\ log'[j].reason = defs[d].failed_str
      BY <1>4, <3>1
    <3> QED
      BY <1>1, <3>1, <3>2, Zenon DEF Remembers, LastOf
  <2>3. \A k \in DOMAIN log' : log'[k].scenario <= scenario
    BY <1>0, <1>2, <1>4 DEF Remembering
  <2> QED
    BY <1>1, <2>1, <2>2, <2>3 DEF Remembering
<1>9. \A k \in DOMAIN log : Failures(k)' = Failures(k)
  BY <1>4 DEF Failures
<1>10. Failures(n)' = FailedIn(d0)'
  BY <1>1, <1>2, <1>3, <1>4 DEF Failures, FailedIn
<1>11. \A k \in DOMAIN log' : log'[k].failure # NULL =>
         Shows(log'[k].reason, Definitions[log'[k].def], log'[k].failure)
  BY <1>0, <1>2, <1>4, <1>6, Zenon DEF LogShows
<1>12. ASSUME NEW k \in DOMAIN log, AnswersFailure(k)'
       PROVE  \E j \in Failures(k)' : LastOf(j, Failures(k)') /\ log'[k].reason = log'[j].reason
  <2>1. AnswersFailure(k)
    BY <1>4, <1>12, Zenon DEF AnswersFailure
  <2>2. PICK j \in Failures(k) : LastOf(j, Failures(k)) /\ log[k].reason = log[j].reason
    BY <1>0, <2>1, Zenon DEF LogShows
  <2>3. j \in DOMAIN log
    BY <1>4, <2>2 DEF Failures
  <2> QED
    BY <1>4, <1>9, <2>2, <2>3
<1>13. ASSUME AnswersFailure(n)'
       PROVE  \E j \in Failures(n)' : LastOf(j, Failures(n)') /\ log'[n].reason = log'[j].reason
  <2>1. cursor # 0 /\ FailureReason # NULL
    BY <1>2, <1>4, <1>13, FailedReply, Zenon DEF AnswersFailure
  <2>2. CASE failure # NULL
    BY <1>5, <1>10, <2>2 DEF LastOf
  <2>3. CASE failure = NULL
    <3>1. FailedIn(d0)' = FailedIn(d0) /\ Remembers(d0)
          /\ defs[cursor].failed_str # NULL /\ FailureReason = defs[cursor].failed_str
      BY <1>0, <1>3, <1>5, <1>7, <2>1, <2>3 DEF FailureReason
    <3>2. PICK j \in DOMAIN log :
            LastOf(j, FailedIn(d0)) /\ log[j].reason = defs[cursor].failed_str
      BY <1>3, <3>1, Zenon DEF Remembers
    <3>3. j \in FailedIn(d0) /\ log'[j].reason = log'[n].reason
      BY <1>2, <1>3, <1>4, <3>1, <3>2 DEF LastOf
    <3> QED
      BY <1>10, <3>1, <3>2, <3>3
  <2> QED
    BY <2>2, <2>3
<1>14. LogShows'
  <2>1. \A k \in DOMAIN log' : AnswersFailure(k)' =>
          \E j \in Failures(k)' : LastOf(j, Failures(k)') /\ log'[k].reason = log'[j].reason
    BY <1>4, <1>12, <1>13, Zenon
  <2> QED
    BY <1>11, <2>1, Zenon DEF LogShows, AnswersFailure, Failures, LastOf
<1>15. Composing'
  BY <1>1 DEF Composing, InAssertion
<1> QED
  BY <1>8, <1>14, <1>15 DEF ReasonsInv

LEMMA ReasonsNext ==
  ASSUME LookupInv, ReasonsInv, [Next]_vars
  PROVE  ReasonsInv'
<1>1. CASE TryStepDef \/ NotFound \/ RunsStep \/ ValueChanges
  BY <1>1, ReasonsInCall
<1>2. CASE \/ StartScenario \/ Step \/ Registered \/ EndScenario
           \/ \E t \in Texts : RunStep(t)
  BY <1>2, ReasonsOutside
<1>3. CASE Answer
  BY <1>3, ReasonsAnswered
<1>4. CASE UNCHANGED vars
  <2>1. UNCHANGED <<at, defs, cursor, param, asserts, value, actual_str, expected_str,
                    failure, scenario, log>>
    BY <1>4 DEF vars, historyVars
  <2>2. Remembering' /\ LogShows'
    BY <2>1, SameLog
  <2>3. Composing'
    BY <2>1, Zenon DEF ReasonsInv, Composing, Current, ExpectedValue
  <2> QED
    BY <2>2, <2>3 DEF ReasonsInv
<1> QED
  BY <1>1, <1>2, <1>3, <1>4, Zenon DEF Next, Finished

LEMMA ReasonsInvariance == Spec => [](LookupInv /\ ReasonsInv)
<1>1. Init => ReasonsInv
  BY ReasonsInit
<1>2. LookupInv /\ ReasonsInv /\ [Next]_vars => ReasonsInv'
  BY ReasonsNext
<1> QED
  BY <1>1, <1>2, LookupInvariance, PTL DEF Spec

(* The reason of each STEP FAILED shows the last failure of this step      *)
(* definition in this scenario: of this run, if an assertion failed in it. *)
THEOREM ReasonsTrue == Spec => []ReasonShowsFailure
<1>1. LookupInv /\ ReasonsInv => ReasonShowsFailure
  <2> SUFFICES ASSUME LookupInv, ReasonsInv, NEW k \in DOMAIN log, AnswersFailure(k)
               PROVE  \E j \in Failures(k) :
                        /\ \A i \in Failures(k) : i <= j
                        /\ log[k].reason = log[j].reason
                        /\ Shows(log[k].reason, Definitions[log[k].def], log[j].failure)
    BY Zenon DEF ReasonShowsFailure, AnswersFailure
  <2>1. PICK j \in Failures(k) : LastOf(j, Failures(k)) /\ log[k].reason = log[j].reason
    BY Zenon DEF ReasonsInv, LogShows
  <2>2. /\ j \in DOMAIN log /\ log[j].failure # NULL /\ log[j].def = log[k].def
        /\ \A i \in Failures(k) : i <= j
    <3>1. DOMAIN log = 1..Len(log) /\ Len(log) \in Nat
      BY DEF LookupInv, Typed
    <3> QED
      BY <2>1, <3>1 DEF Failures, LastOf
  <2>3. Shows(log[j].reason, Definitions[log[j].def], log[j].failure)
    BY <2>2, Zenon DEF ReasonsInv, LogShows
  <2> QED
    BY <2>1, <2>2, <2>3
<1> QED
  BY <1>1, ReasonsInvariance, PTL

-----------------------------------------------------------------------------
(***************************************************************************)
(* Strings that read apart.                                                *)
(***************************************************************************)

(* A power of two counts the subsets of a finite set.                      *)
LEMMA PowerOfTwo ==
  ASSUME NEW n \in Nat
  PROVE  2^n \in Nat \ {0}
<1>1. IsFiniteSet(1..n) /\ Cardinality(1..n) = n
  BY FS_Interval
<1>2. IsFiniteSet(SUBSET (1..n)) /\ Cardinality(SUBSET (1..n)) = 2^n
  BY <1>1, FS_SUBSET
<1>3. {} \in SUBSET (1..n)
  OBVIOUS
<1>4. SUBSET (1..n) # {}
  BY <1>3
<1> QED
  BY <1>2, <1>4, FS_CardinalityType, FS_EmptySet

LEMMA SameRemainder ==
  ASSUME NEW m \in Nat \ {0}, NEW v \in Int, NEW w \in Int,
         v - w < m, w - v < m, v % m = w % m
  PROVE  v = w
<1>1. /\ v = m * (v \div m) + (v % m)
      /\ w = m * (w \div m) + (w % m)
  OBVIOUS
<1>a. v \div m \in Int /\ w \div m \in Int
  OBVIOUS
<1>2. PICK p \in Int, q \in Int : p = v \div m /\ q = w \div m
  BY <1>a
<1>3. v - w = m * (p - q)
  BY <1>1, <1>2
<1>4. p - q <= 0 /\ q - p <= 0
  BY <1>3
<1> QED
  BY <1>3, <1>4

LEMMA RemainderBelow ==
  ASSUME NEW m \in Nat \ {0}, NEW v \in Int
  PROVE  v % m \in 0..(m - 1)
OBVIOUS

LEMMA SameBits ==
  ASSUME NEW m \in Nat \ {0}, NEW a \in 0..(m - 1), NEW b \in 0..(m - 1),
         NEW x \in {0, 1}, NEW y \in {0, 1}, a + x * m = b + y * m
  PROVE  a = b
OBVIOUS

LEMMA TenApart ==
  ASSUME NEW v \in Int, NEW w \in Int, v - w >= 10
  PROVE  (v + 5) \div 10 # (w + 5) \div 10
OBVIOUS
(***************************************************************************)
(* What its conversion can tell apart of different values of a type:       *)
(* integers that are in one range as wide as the type is passed, floating  *)
(* point values that differ in the last place that %f prints.              *)
(***************************************************************************)
WithinWidth(v, w, bits) == v - w < 2^bits /\ w - v < 2^bits

Distinguished(type, v, w) ==
  /\ type \in PassedAsInt => WithinWidth(v, w, IntBits)
  /\ Conversion[type] = "%zu" /\ type \notin PassedAsInt => WithinWidth(v, w, 2 * IntBits)
  /\ Conversion[type] = "%f" => v - w >= 10 \/ w - v >= 10

LEMMA DifferentBits ==
  ASSUME NEW v \in Int, NEW w \in Int, v # w, NEW bits \in Nat, WithinWidth(v, w, bits)
  PROVE  Unsigned(v, bits) # Unsigned(w, bits)
<1>1. PICK m \in Nat \ {0} : m = 2^bits
  BY PowerOfTwo
<1>2. v - w < m /\ w - v < m
  BY <1>1 DEF WithinWidth
<1>3. v % m # w % m
  BY <1>2, SameRemainder
<1> QED
  BY <1>1, <1>3 DEF Unsigned

LEMMA PrintsApart ==
  ASSUME NEW v \in Int, NEW w \in Int, v # w,
         NEW type \in Types, type # "long", Distinguished(type, v, w)
  PROVE  Printed(type, v) \cap Printed(type, w) = {}
<1>1. Conversion[type] # "%l"
  BY DEF Conversion, Types
<1>2. SUFFICES ASSUME NEW x \in Numbers(type, v), NEW y \in Numbers(type, w), x = y
               PROVE  FALSE
  <2>1. ASSUME NEW s \in Printed(type, v), s \in Printed(type, w)
        PROVE  FALSE
    <3>1. PICK x \in Numbers(type, v) : s = <<x>>
      BY <1>1, <2>1 DEF Printed
    <3>2. PICK y \in Numbers(type, w) : s = <<y>>
      BY <1>1, <2>1 DEF Printed
    <3>3. x = y
      BY <3>1, <3>2
    <3> QED
      BY <1>2, <3>3
  <2> QED
    BY <2>1
<1>3. IntBits \in Nat /\ 2 * IntBits \in Nat
  BY IntBitsAssumption
<1>5. CASE Conversion[type] = "%zu" /\ type \in PassedAsInt
  <2>1. PICK m \in Nat \ {0} : m = 2^IntBits
    BY <1>3, PowerOfTwo
  <2>2. /\ Numbers(type, v) = {Unsigned(v, IntBits) + above * m : above \in {0, 1}}
        /\ Numbers(type, w) = {Unsigned(w, IntBits) + above * m : above \in {0, 1}}
    BY <1>5, <2>1 DEF Numbers
  <2>3. PICK a \in {0, 1}, b \in {0, 1} :
               x = Unsigned(v, IntBits) + a * m /\ y = Unsigned(w, IntBits) + b * m
    BY <1>2, <2>2
  <2>4. Unsigned(v, IntBits) \in 0..(m - 1) /\ Unsigned(w, IntBits) \in 0..(m - 1)
    BY <2>1, RemainderBelow DEF Unsigned
  <2>5. Unsigned(v, IntBits) # Unsigned(w, IntBits)
    BY <1>3, <1>5, DifferentBits DEF Distinguished
  <2> QED
    BY <1>2, <2>3, <2>4, <2>5, SameBits
<1>6. CASE Conversion[type] = "%zu" /\ type \notin PassedAsInt
  <2>1. Unsigned(v, 2 * IntBits) # Unsigned(w, 2 * IntBits)
    BY <1>3, <1>6, DifferentBits DEF Distinguished
  <2> QED
    BY <1>2, <1>6, <2>1 DEF Numbers
<1>7. CASE Conversion[type] = "%f"
  <2>1. x = (v + 5) \div 10 /\ y = (w + 5) \div 10
    BY <1>2, <1>7 DEF Numbers
  <2> QED
    BY <1>2, <1>7, <2>1, TenApart DEF Distinguished
<1>8. CASE Conversion[type] # "%zu" /\ Conversion[type] # "%f"
  <2>1. x = v /\ y = w
    BY <1>2, <1>8 DEF Numbers
  <2> QED
    BY <1>2, <2>1
<1> QED
  BY <1>5, <1>6, <1>7, <1>8

(***************************************************************************)
(* The values of an assertion that failed differ, and a step definition    *)
(* met it.                                                                 *)
(***************************************************************************)
Differ(failed) == failed # NULL => failed.actual # failed.expected

FailuresDiffer ==
  /\ Differ(failure)
  /\ \A k \in DOMAIN log :
       /\ Differ(log[k].failure)
       /\ log[k].failure # NULL => log[k].def \in DOMAIN Definitions

LEMMA FailuresDifferNext ==
  ASSUME LookupInv, ReasonsInv, FailuresDiffer, [Next]_vars
  PROVE  FailuresDiffer'
<1>1. CASE AssertFails
  <2>1. failure' = [actual |-> value, expected |-> ExpectedValue] /\ log' = log
    BY <1>1 DEF AssertFails
  <2>2. value # ExpectedValue
    BY <1>1 DEF AssertFails, Equals
  <2> QED
    BY <2>1, <2>2 DEF FailuresDiffer, Differ
<1>2. CASE Answer
  <2>1. PICK e \in LogEntry : log' = Append(log, e) /\ e.failure = failure /\ e.def = cursor
    BY <1>2, Answering
  <2>2. failure' = failure
    BY <1>2 DEF Answer
  <2>3. log \in Seq(LogEntry)
    BY DEF LookupInv, Typed
  <2>4. ASSUME NEW k \in DOMAIN log'
        PROVE  /\ Differ(log'[k].failure)
               /\ log'[k].failure # NULL => log'[k].def \in DOMAIN Definitions
    <3>1. /\ Len(log) \in Nat /\ DOMAIN log = 1..Len(log)
          /\ DOMAIN log' = 1..(Len(log) + 1)
          /\ \A i \in 1..Len(log) : log'[i] = log[i]
          /\ log'[Len(log) + 1] = e
      BY <2>1, <2>3, OneMore
    <3>2. CASE k \in DOMAIN log
      BY <3>1, <3>2 DEF FailuresDiffer
    <3>3. CASE k = Len(log) + 1
      <4>1. failure # NULL => cursor \in DOMAIN Definitions
        BY <1>2 DEF Answer, ReasonsInv, Composing, LookupInv, Looked, First
      <4> QED
        BY <2>1, <3>1, <3>3, <4>1 DEF FailuresDiffer
    <3> QED
      BY <2>4, <3>1, <3>2, <3>3
  <2> QED
    BY <2>2, <2>4 DEF FailuresDiffer
<1>3. CASE \E t \in Texts : RunStep(t)
  <2>1. failure' = NULL /\ log' = log
    BY <1>3 DEF RunStep
  <2> QED
    BY <2>1 DEF FailuresDiffer, Differ
<1>4. CASE UNCHANGED <<failure, log>>
  BY <1>4 DEF FailuresDiffer
<1>5. \/ AssertFails \/ Answer \/ (\E t \in Texts : RunStep(t))
      \/ UNCHANGED <<failure, log>>
  BY DEF Next, vars, historyVars, StartScenario, Step, Registered, EndScenario, TryStepDef,
         NotFound, RunsStep, CallStep, AssertHolds, PrintActual, PrintExpected,
         SetFailureReason, AssertReturns, StepReturns, ValueChanges, Finished
<1> QED
  BY <1>1, <1>2, <1>3, <1>4, <1>5

(***************************************************************************)
(* No two values of an assertion are further apart than their type is wide *)
(* (in C they cannot be), nor so close that %f prints one for the other.   *)
(***************************************************************************)
ValuesReadApart ==
  \A d \in DOMAIN Definitions : \A v, w \in Values :
    v # w => Distinguished(Definitions[d].type, v, w)

(***************************************************************************)
(* The reason sent with STEP FAILED tells what was expected from what was  *)
(* got, for values that the conversions can tell apart: __to_string prints *)
(* an int of 8 to 32 bits below bits that nobody has set, but all its own  *)
(* are there.                                                              *)
(***************************************************************************)
THEOREM ReasonsTellApart ==
  ASSUME ValuesReadApart
  PROVE  Spec => []ReasonTellsApart
<1>1. Init => FailuresDiffer
  BY DEF Init, FailuresDiffer, Differ
<1>2. ASSUME LookupInv, FailuresDiffer, ReasonShowsFailure
      PROVE  ReasonTellsApart
  <2>1. SUFFICES ASSUME NEW k \in DOMAIN log, log[k].reply = "STEP FAILED",
                        ~Definitions[log[k].def].volatile,
                        Definitions[log[k].def].type # "long"
                 PROVE  log[k].reason.expected # log[k].reason.got
    BY DEF ReasonTellsApart
  <2>2. PICK j \in Failures(k) :
               Shows(log[k].reason, Definitions[log[k].def], log[j].failure)
    BY <1>2, <2>1 DEF ReasonShowsFailure
  <2>3. /\ k \in DOMAIN log /\ j \in DOMAIN log
        /\ log[j].failure # NULL /\ log[j].def = log[k].def
        /\ log[j] \in LogEntry
    <3>1. log \in Seq(LogEntry)
      BY <1>2 DEF LookupInv, Typed
    <3>2. DOMAIN log = 1..Len(log) /\ Len(log) \in Nat
      BY <3>1, LenProperties
    <3>3. j \in 1..k /\ log[j].failure # NULL /\ log[j].def = log[k].def
      BY <2>2 DEF Failures
    <3>a. k \in 1..Len(log) /\ j \in 1..k
      BY <3>2, <3>3
    <3>b. j \in 1..Len(log)
      BY <3>2, <3>a
    <3>4. j \in DOMAIN log
      BY <3>2, <3>b
    <3> QED
      BY <2>1, <3>1, <3>2, <3>3, <3>4, ElementOfSeq
  <2>4. PICK v \in Values, w \in Values :
               v = log[j].failure.actual /\ w = log[j].failure.expected
    BY <2>3 DEF LogEntry, Difference
  <2>5. v # w /\ v \in Int /\ w \in Int
    BY <1>2, <2>3, <2>4, ExecutionAssumption
       DEF FailuresDiffer, Differ
  <2>6. /\ log[k].def \in DOMAIN Definitions
        /\ Definitions[log[k].def].type \in Types
    <3>1. log[k].def \in DOMAIN Definitions
      BY <1>2, <2>3 DEF FailuresDiffer
    <3> QED
      BY <3>1, DefinitionFacts
  <2>7. Distinguished(Definitions[log[k].def].type, v, w)
    BY <2>5, <2>6 DEF ValuesReadApart
  <2>8. PICK type \in Types : type = Definitions[log[k].def].type
    BY <2>6
  <2>9. Distinguished(type, v, w) /\ type # "long"
    BY <2>1, <2>7, <2>8
  <2>10. Printed(type, v) \cap Printed(type, w) = {}
    BY <2>5, <2>9, PrintsApart
  <2>11. /\ log[k].reason.expected \in Printed(type, w)
         /\ log[k].reason.got \in Printed(type, v)
    BY <2>1, <2>2, <2>4, <2>8 DEF Shows
  <2> QED
    BY <2>10, <2>11
<1> QED
  BY <1>1, <1>2, ReasonsInvariance, ReasonsTrue, FailuresDifferNext, PTL DEF Spec

-----------------------------------------------------------------------------
(***************************************************************************)
(* Strings that nobody frees.                                              *)
(***************************************************************************)
Failing == {j \in DOMAIN log : log[j].failure # NULL}

Superseded(j) == \E i \in DOMAIN log : i > j /\ j \in Failures(i) /\ i \in Failures(i)

(* The failures whose reasons were overwritten.                            *)
Gone == {j \in Failing : Superseded(j) \/ (Ahead(cursor) /\ j \in FailedIn(cursor))}

ReasonsOf(M) == {log[j].reason.at : j \in M}

PrintedAt ==
  (IF at \in {"expected", "reason", "free"} THEN {actual_str.at} ELSE {})
    \cup (IF at \in {"reason", "free"} THEN {expected_str.at} ELSE {})

LeakInv ==
  /\ \A j \in Failing : log[j].reason.at \in 1..allocated
  /\ \A i, j \in Failing : log[i].reason.at = log[j].reason.at => i = j
  /\ Ahead(cursor) => defs[cursor].failed_str.at \notin ReasonsOf(Failing)
  /\ PrintedAt \cap ReasonsOf(Failing) = {}
  /\ heap = Held \cup PrintedAt \cup ReasonsOf(Gone)

LEMMA LeakInit == Init => LeakInv
<1> SUFFICES ASSUME Init PROVE LeakInv  OBVIOUS
<1>1. log = <<>> /\ heap = {} /\ defs = <<>> /\ at = "none"
  BY DEF Init
<1>2. Failing = {} /\ Gone = {} /\ PrintedAt = {} /\ Held = {} /\ ~Ahead(cursor)
  BY <1>1 DEF Failing, Gone, PrintedAt, Held, Ahead
<1>3. ReasonsOf(Failing) = {} /\ ReasonsOf(Gone) = {}
  BY <1>2 DEF ReasonsOf
<1> QED
  BY <1>1, <1>2, <1>3 DEF LeakInv

(* While nothing is logged, the failures are what they were.               *)
LEMMA SameFailing ==
  ASSUME log' = log
  PROVE  /\ Failing' = Failing
         /\ ReasonsOf(Failing)' = ReasonsOf(Failing)
         /\ (\A j \in Failing : Superseded(j)' = Superseded(j))
         /\ scenario' = scenario => \A d : FailedIn(d)' = FailedIn(d)
<1>1. Failing' = Failing
  BY DEF Failing
<1>2. ReasonsOf(Failing)' = ReasonsOf(Failing)
  BY <1>1 DEF ReasonsOf
<1>3. \A k : Failures(k)' = Failures(k)
  BY DEF Failures
<1>4. \A j \in Failing : Superseded(j)' = Superseded(j)
  BY <1>3 DEF Superseded
<1>5. scenario' = scenario => \A d : FailedIn(d)' = FailedIn(d)
  BY DEF FailedIn
<1> QED
  BY <1>1, <1>2, <1>4, <1>5

LEMMA SameGone ==
  ASSUME log' = log,
         \/ ~Ahead(cursor) /\ ~Ahead(cursor)'
         \/ Ahead(cursor) /\ Ahead(cursor)' /\ UNCHANGED <<cursor, scenario>>
  PROVE  Gone' = Gone /\ ReasonsOf(Gone)' = ReasonsOf(Gone)
<1>1. Gone' = Gone
  BY SameFailing DEF Gone
<1> QED
  BY <1>1 DEF ReasonsOf

LEMMA SameStrings ==
  ASSUME UNCHANGED <<log, heap, allocated, actual_str, expected_str>>, LeakInv,
         ~Ahead(cursor), ~Ahead(cursor)', Held' = Held, PrintedAt' = PrintedAt
  PROVE  LeakInv'
BY SameFailing, SameGone DEF LeakInv

LEMMA LeakNext == LookupInv /\ HeapInv /\ ReasonsInv /\ LeakInv /\ [Next]_vars => LeakInv'
<1> SUFFICES ASSUME LookupInv, HeapInv, ReasonsInv, LeakInv, [Next]_vars PROVE LeakInv'
  OBVIOUS
<1>0. /\ defs \in Seq(StepDef) /\ allocated \in Nat /\ log \in Seq(LogEntry)
      /\ Len(defs) \in Nat /\ DOMAIN defs = 1..Len(defs)
      /\ at \in {"call"} \cup InFunction => cursor \in DOMAIN defs
      /\ DOMAIN log = 1..Len(log) /\ Len(log) \in Nat
  BY DEF LookupInv, Typed, Looked
<1>1. CASE UNCHANGED vars \/ Finished
  <2>1. UNCHANGED <<at, defs, cursor, actual_str, expected_str, heap, allocated,
                    failure, scenario, log>>
    BY <1>1 DEF Finished, vars, historyVars
  <2>2. Held' = Held /\ PrintedAt' = PrintedAt /\ Ahead(cursor)' = Ahead(cursor)
    BY <2>1 DEF Held, PrintedAt, Ahead
  <2> QED
    BY <2>1, <2>2, SameFailing, SameGone DEF LeakInv
<1>2. CASE \/ StartScenario \/ Registered \/ NotFound \/ CallStep \/ AssertHolds
           \/ StepReturns \/ ValueChanges \/ AssertFails \/ \E t \in Texts : RunStep(t)
  <2>1. /\ UNCHANGED <<heap, allocated, actual_str, expected_str, defs, log>>
        /\ {at, at'} \cap {"expected", "reason", "free"} = {}
        /\ at # "answer"
        /\ at' = "answer" => at \in {"search", "assert"} /\ failure' = failure
    BY <1>2 DEF StartScenario, Registered, NotFound, CallStep, AssertHolds,
                StepReturns, ValueChanges, AssertFails, RunStep, historyVars
  <2>2. Held' = Held /\ PrintedAt' = PrintedAt /\ ~Ahead(cursor) /\ ~Ahead(cursor)'
    BY <2>1 DEF Held, PrintedAt, Ahead, ReasonsInv, Composing
  <2> QED
    BY <2>1, <2>2, SameStrings
<1>3. CASE Step
  <2>1. /\ UNCHANGED <<heap, allocated, actual_str, expected_str, at, log>>
        /\ at = "register" /\ Len(defs) < Len(Definitions)
    BY <1>3 DEF Step, historyVars
  <2>2. PICK new \in StepDef : new.failed_str = NULL /\ defs' = Append(defs, new)
    <3>1. Len(defs) + 1 \in DOMAIN Definitions
      BY <1>0, <2>1, DefinitionFacts
    <3>2. CucumberStepDefNew(Len(defs) + 1) \in StepDef
      BY <3>1 DEF CucumberStepDefNew, StepDef
    <3> QED
      BY <1>3, <3>2 DEF Step, CucumberAddStepDef, CucumberStepDefNew
  <2>3. /\ DOMAIN defs' = 1..(Len(defs) + 1)
        /\ \A k \in DOMAIN defs : defs'[k] = defs[k]
        /\ defs'[Len(defs) + 1] = new
    BY <1>0, <2>2, OneMore
  <2>4. Failed' = Failed
    BY <1>0, <2>2, <2>3 DEF Failed
  <2>5. \A i \in Failed : defs'[i].failed_str = defs[i].failed_str
    BY <2>3 DEF Failed
  <2>6. Held' = Held
    BY <2>4, <2>5, HeldByFailed DEF Held, Failed
  <2>7. PrintedAt' = PrintedAt /\ ~Ahead(cursor) /\ ~Ahead(cursor)'
    BY <2>1 DEF PrintedAt, Ahead
  <2> QED
    BY <2>1, <2>6, <2>7, SameStrings
<1>4. CASE TryStepDef
  <2>1. /\ at = "search" /\ cursor # 0 /\ at' \in {"search", "call"}
        /\ defs' = [defs EXCEPT ![cursor] = ZrexMatches(defs[cursor], text)]
        /\ UNCHANGED <<heap, allocated, actual_str, expected_str, log>>
    BY <1>4 DEF TryStepDef, historyVars
  <2>2. ZrexMatches(defs[cursor], text).failed_str = defs[cursor].failed_str
    <3>1. defs[cursor] \in StepDef
      BY <1>0, <2>1 DEF LookupInv, Typed
    <3> QED
      BY <3>1 DEF ZrexMatches, StepDef
  <2>3. /\ DOMAIN defs' = DOMAIN defs
        /\ \A i \in DOMAIN defs : defs'[i].failed_str = defs[i].failed_str
    BY <1>0, <2>1, <2>2
  <2>4. Held' = Held
    BY <2>3 DEF Held
  <2>5. PrintedAt' = PrintedAt /\ ~Ahead(cursor) /\ ~Ahead(cursor)'
    BY <2>1 DEF PrintedAt, Ahead
  <2> QED
    BY <2>1, <2>4, <2>5, SameStrings
<1>5. CASE PrintActual
  <2>1. /\ at = "actual" /\ at' = "expected" /\ allocated' = allocated + 1
        /\ heap' = heap \cup {allocated + 1} /\ UNCHANGED <<defs, log>>
        /\ actual_str'.at = allocated + 1
    BY <1>5 DEF PrintActual, Allocate, historyVars
  <2>2. /\ Held' = Held /\ PrintedAt = {} /\ PrintedAt' = {allocated + 1}
        /\ ~Ahead(cursor) /\ ~Ahead(cursor)'
    BY <2>1 DEF Held, PrintedAt, Ahead
  <2>3. allocated + 1 \notin ReasonsOf(Failing)
    BY <1>0 DEF LeakInv, ReasonsOf
  <2> QED
    BY <1>0, <2>1, <2>2, <2>3, SameFailing, SameGone DEF LeakInv
<1>6. CASE PrintExpected
  <2>1. /\ at = "expected" /\ at' = "reason" /\ allocated' = allocated + 1
        /\ heap' = heap \cup {allocated + 1} /\ UNCHANGED <<defs, log, actual_str>>
        /\ expected_str'.at = allocated + 1
    BY <1>6 DEF PrintExpected, Allocate, historyVars
  <2>2. /\ Held' = Held /\ PrintedAt' = PrintedAt \cup {allocated + 1}
        /\ ~Ahead(cursor) /\ ~Ahead(cursor)'
    BY <2>1 DEF Held, PrintedAt, Ahead
  <2>3. allocated + 1 \notin ReasonsOf(Failing)
    BY <1>0 DEF LeakInv, ReasonsOf
  <2> QED
    BY <1>0, <2>1, <2>2, <2>3, SameFailing, SameGone DEF LeakInv
<1>7. CASE AssertReturns
  <2>1. /\ at = "free" /\ at' = "answer"
        /\ UNCHANGED <<allocated, defs, cursor, failure, scenario, log>>
        /\ heap' = heap \ {actual_str.at, expected_str.at}
    BY <1>7 DEF AssertReturns, historyVars
  <2>2. /\ Held' = Held /\ PrintedAt = {actual_str.at, expected_str.at} /\ PrintedAt' = {}
        /\ Ahead(cursor) /\ Ahead(cursor)'
    BY <2>1 DEF Held, PrintedAt, Ahead, ReasonsInv, Composing, InAssertion
  <2>3. Held \cap PrintedAt = {}
    BY <2>1, <2>2 DEF HeapInv, Apart
  <2>4. ReasonsOf(Gone) \subseteq ReasonsOf(Failing)
    BY DEF ReasonsOf, Gone
  <2> QED
    BY <1>0, <2>1, <2>2, <2>3, <2>4, SameFailing, SameGone DEF LeakInv
<1>8. CASE EndScenario
  <2>1. /\ at = "idle" /\ at' = "none" /\ heap' = heap \ Held /\ defs' = <<>>
        /\ UNCHANGED <<allocated, log>>
    BY <1>8 DEF EndScenario, historyVars
  <2>2. /\ Held' = {} /\ PrintedAt = {} /\ PrintedAt' = {}
        /\ ~Ahead(cursor) /\ ~Ahead(cursor)'
    BY <2>1 DEF Held, PrintedAt, Ahead
  <2>3. ASSUME NEW d \in Failed, NEW k \in Gone, defs[d].failed_str.at = log[k].reason.at
        PROVE  FALSE
    <3>1. PICK j \in DOMAIN log :
            LastOf(j, FailedIn(d)) /\ log[j].reason = defs[d].failed_str
      BY <2>1, Zenon DEF Failed, ReasonsInv, Remembering, Remembers, Ahead
    <3>2. j \in Failing /\ log[j].def = d /\ log[j].scenario = scenario
      BY <3>1 DEF LastOf, FailedIn, Failing
    <3>3. k = j
      BY <2>3, <3>1, <3>2 DEF LeakInv, Gone
    <3>4. PICK i \in DOMAIN log : i > j /\ j \in Failures(i) /\ i \in Failures(i)
      BY <2>2, <3>3 DEF Gone, Superseded
    <3>5. i \in FailedIn(d)
      BY <3>2, <3>4 DEF Failures, FailedIn
    <3> QED
      BY <1>0, <3>1, <3>4, <3>5 DEF LastOf
  <2>4. Held \cap ReasonsOf(Gone) = {}
    BY <2>3, HeldByFailed DEF ReasonsOf
  <2> QED
    BY <2>1, <2>2, <2>4, SameFailing, SameGone DEF LeakInv
<1>9. CASE SetFailureReason
  <2>1. /\ at = "reason" /\ at' = "free" /\ allocated' = allocated + 1
        /\ heap' = heap \cup {allocated + 1}
        /\ defs' = [defs EXCEPT ![cursor] =
                      [defs[cursor] EXCEPT !.failed_str = ReasonAt(allocated + 1)]]
        /\ UNCHANGED <<actual_str, expected_str, cursor, failure, scenario, log>>
    BY <1>9 DEF SetFailureReason, Allocate, historyVars
  <2>2. cursor \in DOMAIN defs /\ defs[cursor] \in StepDef /\ failure # NULL
    BY <1>0, <2>1 DEF InFunction, InAssertion, ReasonsInv, Composing
  <2>3. PICK new, d0 : /\ new = [defs[cursor] EXCEPT !.failed_str = ReasonAt(allocated + 1)]
                       /\ d0 = cursor
    OBVIOUS
  <2>4. new.failed_str.at = allocated + 1 /\ new.failed_str # NULL
    <3>1. new.failed_str = ReasonAt(allocated + 1)
      BY <2>2, <2>3 DEF StepDef
    <3>2. ReasonAt(allocated + 1) \in Reason
      BY <1>0, <2>1 DEF ReasonAt, Reason, LookupInv, Asserting, String
    <3> QED
      BY <3>1, <3>2, NullAssumption DEF ReasonAt
  <2>5. /\ DOMAIN defs' = DOMAIN defs /\ defs'[d0] = new
        /\ \A i \in DOMAIN defs : i # d0 => defs'[i] = defs[i]
    BY <1>0, <2>1, <2>2, <2>3
  <2>6. Failed' = Failed \cup {d0}
    BY <2>2, <2>3, <2>4, <2>5 DEF Failed
  <2>7. Held' = {defs'[i].failed_str.at : i \in Failed'}
    BY Zenon DEF Held, Failed
  <2>8. /\ ~Ahead(d0) /\ ~Ahead(cursor) /\ Ahead(cursor)' /\ PrintedAt' = PrintedAt
        /\ defs'[cursor'].failed_str.at = allocated + 1
    BY <2>1, <2>2, <2>3, <2>4, <2>5 DEF Ahead, PrintedAt
  <2>9. allocated + 1 \notin ReasonsOf(Failing)
    BY <1>0 DEF LeakInv, ReasonsOf
  <2>10. /\ Gone' = Gone \cup FailedIn(d0)
         /\ Gone \subseteq Failing /\ FailedIn(d0) \subseteq Failing
    <3>1. FailedIn(d0) \subseteq Failing
      BY DEF FailedIn, Failing
    <3>2. cursor' = d0 /\ FailedIn(d0)' = FailedIn(d0)
      BY <2>1, <2>3, SameFailing
    <3>3. FailedIn(cursor)' = FailedIn(d0)
      BY <2>1, <2>3 DEF FailedIn
    <3> QED
      BY <2>8, <3>1, <3>3, SameFailing, <2>1 DEF Gone
  <2>11. ReasonsOf(Gone)' = ReasonsOf(Gone) \cup ReasonsOf(FailedIn(d0))
    BY <2>1, <2>10 DEF ReasonsOf
  <2>12. Remembers(d0)
    BY <2>2, <2>3, <2>8 DEF ReasonsInv, Remembering
  <2>13. CASE defs[d0].failed_str = NULL
    <3>1. FailedIn(d0) = {} /\ d0 \notin Failed
      BY <2>12, <2>13 DEF Remembers, Failed
    <3>2. Held' = Held \cup {allocated + 1}
      <4>1. \A i \in Failed : defs'[i].failed_str.at = defs[i].failed_str.at
        BY <2>5, <3>1 DEF Failed
      <4> QED
        BY <2>4, <2>5, <2>6, <2>7, <4>1, HeldByFailed
    <3>3. ReasonsOf(FailedIn(d0)) = {}
      BY <3>1 DEF ReasonsOf
    <3> QED
      BY <1>0, <2>1, <2>8, <2>9, <2>11, <3>2, <3>3, SameFailing DEF LeakInv
  <2>14. CASE defs[d0].failed_str # NULL
    <3>1. PICK j \in DOMAIN log :
            LastOf(j, FailedIn(d0)) /\ log[j].reason = defs[d0].failed_str
      BY <2>12, <2>14, Zenon DEF Remembers
    <3>2. \A i \in FailedIn(d0) : i = j \/ i \in Gone
      <4>1. ASSUME NEW i \in FailedIn(d0), i # j PROVE i \in Gone
        <5>1. j \in FailedIn(d0) /\ i < j /\ i \in DOMAIN log
          BY <1>0, <3>1, <4>1 DEF LastOf, FailedIn
        <5>2. i \in Failures(j) /\ j \in Failures(j)
          BY <1>0, <3>1, <5>1 DEF FailedIn, Failures
        <5>3. Superseded(i)
          BY <1>0, <3>1, <5>1, <5>2 DEF Superseded
        <5> QED
          BY <2>10, <5>3 DEF Gone
      <4> QED
        BY <4>1
    <3>3. ReasonsOf(FailedIn(d0)) \subseteq ReasonsOf(Gone) \cup {defs[d0].failed_str.at}
      BY <3>1, <3>2 DEF ReasonsOf
    <3>4. defs[d0].failed_str.at \in ReasonsOf(FailedIn(d0))
      BY <3>1 DEF ReasonsOf, LastOf
    <3>5. d0 \in Failed
      BY <2>2, <2>3, <2>14 DEF Failed
    <3>6. Held' \cup {defs[d0].failed_str.at} = Held \cup {allocated + 1}
      <4>1. \A i \in Failed : i # d0 => defs'[i].failed_str.at = defs[i].failed_str.at
        BY <2>5 DEF Failed
      <4> QED
        BY <2>4, <2>5, <2>6, <2>7, <3>5, <4>1, HeldByFailed
    <3> QED
      BY <1>0, <2>1, <2>8, <2>9, <2>11, <3>3, <3>4, <3>6, SameFailing DEF LeakInv
  <2> QED
    BY <2>13, <2>14
<1>10. CASE Answer
  <2>1. /\ at = "answer" /\ at' = "idle"
        /\ UNCHANGED <<defs, cursor, failure, scenario, heap, allocated>>
    BY <1>10, Zenon DEF Answer
  <2>2. PICK e \in LogEntry :
          /\ log' = Append(log, e)
          /\ e.scenario = scenario /\ e.def = cursor /\ e.failure = failure
          /\ e.reason = FailureReason
    BY <1>10, Answering, Zenon
  <2>3. PICK n, d0 : n = Len(log) + 1 /\ d0 = cursor
    OBVIOUS
  <2>4. /\ DOMAIN log = 1..(n - 1) /\ DOMAIN log' = 1..n /\ n \in Nat /\ n \notin DOMAIN log
        /\ \A k \in DOMAIN log : log'[k] = log[k] /\ k < n /\ k \in DOMAIN log'
        /\ log'[n] = e /\ n \in DOMAIN log'
        /\ \A k \in DOMAIN log' : k \in DOMAIN log \/ k = n
        /\ \A k \in DOMAIN log' : k <= n
    BY <1>0, <2>2, <2>3, OneMore
  <2>5. /\ PrintedAt = {} /\ PrintedAt' = {} /\ Held' = Held /\ ~Ahead(cursor)'
        /\ Ahead(cursor) <=> failure # NULL
    BY <2>1 DEF PrintedAt, Held, Ahead
  <2>6. /\ Failing \subseteq DOMAIN log
        /\ \A j \in Failing' : j \in Failing \/ (j = n /\ failure # NULL)
        /\ Failing \subseteq Failing'
    BY <2>2, <2>4 DEF Failing
  <2>7. /\ \A k \in DOMAIN log : Failures(k)' = Failures(k)
        /\ \A j \in DOMAIN log : j \in Failures(n)' <=> j \in FailedIn(d0)
        /\ n \in Failures(n)' => failure # NULL
        /\ failure # NULL => n \in Failures(n)'
    BY <2>1, <2>2, <2>3, <2>4 DEF Failures, FailedIn
  <2>8. ASSUME NEW j \in Failing
        PROVE  Superseded(j)' <=> Superseded(j) \/ (Ahead(cursor) /\ j \in FailedIn(cursor))
    <3>1. j \in DOMAIN log /\ j < n
      BY <2>4, <2>6
    <3>2. ASSUME Superseded(j)' PROVE Superseded(j) \/ (failure # NULL /\ j \in FailedIn(d0))
      <4>1. PICK i \in DOMAIN log' : i > j /\ j \in Failures(i)' /\ i \in Failures(i)'
        BY <3>2, Zenon DEF Superseded
      <4>2. CASE i \in DOMAIN log
        BY <2>7, <4>1, <4>2 DEF Superseded
      <4>3. CASE i = n
        BY <2>7, <3>1, <4>1, <4>3
      <4> QED
        BY <2>4, <4>1, <4>2, <4>3
    <3>3. ASSUME Superseded(j) PROVE Superseded(j)'
      <4>1. PICK i \in DOMAIN log : i > j /\ j \in Failures(i) /\ i \in Failures(i)
        BY <3>3 DEF Superseded
      <4>2. i \in DOMAIN log' /\ j \in Failures(i)' /\ i \in Failures(i)'
        BY <2>4, <2>7, <4>1
      <4> QED
        BY <4>1, <4>2, Zenon DEF Superseded
    <3>4. ASSUME failure # NULL, j \in FailedIn(d0) PROVE Superseded(j)'
      <4>1. n > j /\ j \in Failures(n)' /\ n \in Failures(n)'
        BY <1>0, <2>4, <2>7, <3>1, <3>4
      <4> QED
        BY <2>4, <4>1, Zenon DEF Superseded
    <3> QED
      BY <2>3, <2>5, <3>2, <3>3, <3>4
  <2>9. ~Superseded(n)'
    <3>1. SUFFICES ASSUME Superseded(n)' PROVE FALSE
      OBVIOUS
    <3>2. PICK i \in DOMAIN log' : i > n
      BY <3>1, Zenon DEF Superseded
    <3> QED
      BY <2>4, <3>2
  <2>10. Gone' = Gone
    BY <2>5, <2>6, <2>8, <2>9 DEF Gone
  <2>11. ReasonsOf(Gone)' = ReasonsOf(Gone)
    <3>1. \A j \in Gone : log'[j] = log[j]
      BY <2>4, <2>6 DEF Gone
    <3> QED
      BY <2>10, <3>1 DEF ReasonsOf
  <2>12. failure # NULL =>
           /\ cursor \in DOMAIN defs /\ defs[cursor].failed_str # NULL
           /\ e.reason = defs[cursor].failed_str
    BY <2>1, <2>2 DEF FailureReason, ReasonsInv, Composing, LookupInv, Typed
  <2>13. failure # NULL => e.reason.at \in 1..allocated
    <3>1. failure # NULL => e.reason.at \in Held
      BY <2>12, HeldByFailed DEF Failed
    <3> QED
      BY <3>1 DEF HeapInv
  <2>14. \A j \in Failing' : log'[j].reason.at \in 1..allocated
    BY <2>2, <2>4, <2>6, <2>13 DEF LeakInv
  <2>15. failure # NULL => \A j \in Failing : e.reason.at # log[j].reason.at
    BY <2>5, <2>12 DEF LeakInv, ReasonsOf
  <2>16. \A i, j \in Failing' : log'[i].reason.at = log'[j].reason.at => i = j
    BY <2>4, <2>6, <2>15 DEF LeakInv
  <2> QED
    BY <2>1, <2>5, <2>11, <2>14, <2>16 DEF LeakInv
<1> QED
  BY <1>1, <1>2, <1>3, <1>4, <1>5, <1>6, <1>7, <1>8, <1>9, <1>10 DEF Next, RunsStep

(* Between steps nothing is allocated but the reasons that step            *)
(* definitions hold, and those that a later failure overwrote: these are   *)
(* the strings that leak, and there are no others.                         *)
THEOREM LeaksAreOverwritten == Spec => []StringsAccounted
<1>1. LeakInv => StringsAccounted
  <2> SUFFICES ASSUME LeakInv, at \in {"none", "register", "idle"}
               PROVE  heap = Held \cup Overwritten
    BY DEF StringsAccounted
  <2>1. PrintedAt = {} /\ ~Ahead(cursor)
    BY DEF PrintedAt, Ahead
  <2>2. Gone = {j \in DOMAIN log : log[j].failure # NULL /\ Superseded(j)}
    BY <2>1 DEF Gone, Failing
  <2>3. Overwritten = ReasonsOf(Gone)
    BY <2>2, Zenon DEF Overwritten, ReasonsOf, Superseded
  <2> QED
    BY <2>1, <2>3 DEF LeakInv
<1>2. LookupInv /\ HeapInv /\ ReasonsInv /\ LeakInv /\ [Next]_vars => LeakInv'
  BY LeakNext
<1> QED
  BY <1>1, <1>2, LeakInit, LookupInvariance, HeapInvariance, ReasonsInvariance, PTL DEF Spec

-----------------------------------------------------------------------------
(***************************************************************************)
(* Steps, statement by statement, are steps taken at once.                 *)
(***************************************************************************)
RegisteredView ==
  [i \in DOMAIN defs |->
     [matches |-> Matched(defs[i].def), failed |-> defs[i].failed_str # NULL]]

Says ==
  /\ cursor = 0 => Reply = Atomic!NotFound
  /\ cursor # 0 => Reply = Atomic!Verdict(FailureReason # NULL)

LEMMA ReplyIs == Says
BY Zenon DEF Says, Reply, Atomic!NotFound, Atomic!Verdict

LEMMA MatchedTexts ==
  \A d \in DOMAIN Definitions :
    Matched(d) \in SUBSET Texts /\ \A t : Matches(d, t) <=> t \in Matched(d)
<1>1. ASSUME NEW d \in DOMAIN Definitions PROVE Matched(d) \in SUBSET Texts
  <2>1. Definitions[d] \in Definition
    BY DefinitionFacts
  <2>2. PICK matching \in SUBSET Texts :
          Definitions[d].captures \in [matching -> Values]
    BY <2>1 DEF Definition
  <2> QED
    BY <2>2 DEF Matched
<1> QED
  BY <1>1 DEF Matched, Matches

LEMMA RegistryIsObject ==
  ASSUME LookupInv, at \notin {"none", "register"}
  PROVE  /\ Registry = [state |-> 0, step_defs |-> RegisteredView]
         /\ RegisteredView \in Seq(Atomic!StepDef)
         /\ Len(RegisteredView) = Len(defs) /\ DOMAIN RegisteredView = 1..Len(defs)
         /\ Registry # NULL
<1>1. /\ defs \in Seq(StepDef) /\ Len(defs) \in Nat /\ DOMAIN defs = 1..Len(defs)
      /\ \A i \in DOMAIN defs : defs[i].def \in DOMAIN Definitions
  <2>1. /\ defs \in Seq(StepDef) /\ Len(defs) \in Nat /\ DOMAIN defs = 1..Len(defs)
    BY DEF LookupInv, Typed
  <2>2. \A i \in DOMAIN defs : defs[i] \in StepDef
    BY <2>1
  <2> QED
    BY <2>1, <2>2 DEF StepDef
<1>2. Registry = [state |-> 0, step_defs |-> RegisteredView]
  BY DEF Registry, RegisteredView
<1>3. RegisteredView \in [1..Len(defs) -> Atomic!StepDef]
  BY <1>1, MatchedTexts DEF RegisteredView, Atomic!StepDef
<1>4. RegisteredView \in Seq(Atomic!StepDef) /\ Len(RegisteredView) = Len(defs)
  BY <1>1, <1>3, SeqDef, LenProperties
<1>5. Registry # NULL
  <2>1. Registry \in Atomic!CucumberType
    BY <1>2, <1>4 DEF Atomic!CucumberType
  <2> QED
    BY <2>1, RegistryAssumption
<1> QED
  BY <1>1, <1>2, <1>3, <1>4, <1>5

(* Steps that the abstract specification does not see.                     *)
Unseen == UNCHANGED <<Registry, Request, LastAnswer>>

LEMMA SameRegistry ==
  ASSUME DOMAIN defs' = DOMAIN defs,
         \A i \in DOMAIN defs :
           defs'[i].def = defs[i].def /\ defs'[i].failed_str = defs[i].failed_str,
         at \in {"none", "register"} <=> at' \in {"none", "register"}
  PROVE  Registry' = Registry
BY DEF Registry

(* In the middle of a step, before what will be answered is decided.       *)
Deciding == at \in Busy \ {"free", "answer"}

Asked == Request = text /\ LastAnswer = NULL /\ text # NULL

LEMMA Undecided == LookupInv /\ Deciding => Asked
<1> SUFFICES ASSUME LookupInv, Deciding PROVE Asked  OBVIOUS
<1>1. ~Decided /\ text # NULL
  BY DEF LookupInv, Looked, Decided, Deciding
<1> QED
  BY <1>1, Zenon DEF Asked, Request, LastAnswer

LEMMA UndecidedNext == LookupInv' /\ Deciding' => Asked'
BY Undecided, PTL

Between == at \in {"none", "register", "idle"}

Answered ==
  /\ text = NULL /\ Request = NULL
  /\ LastAnswer = (IF log # <<>> THEN log[Len(log)].reply ELSE NULL)

LEMMA BetweenSteps == LookupInv /\ Between => Answered
<1> SUFFICES ASSUME LookupInv, Between PROVE Answered  OBVIOUS
<1>1. ~Decided /\ text = NULL
  BY DEF LookupInv, Looked, Decided, Busy, InFunction, InAssertion, Between
<1> QED
  BY <1>1, Zenon DEF Answered, Request, LastAnswer

LEMMA BetweenStepsNext == LookupInv' /\ Between' => Answered'
BY BetweenSteps, PTL

LEMMA InsideStep ==
  ASSUME LookupInv, LookupInv', text' = text,
         Deciding, Deciding',
         DOMAIN defs' = DOMAIN defs,
         \A i \in DOMAIN defs :
           defs'[i].def = defs[i].def /\ defs'[i].failed_str = defs[i].failed_str
  PROVE  Unseen
<1>1. Registry' = Registry
  BY SameRegistry DEF Deciding, Busy, InFunction, InAssertion
<1>2. Asked /\ Asked'
  BY Undecided, UndecidedNext
<1> QED
  BY <1>1, <1>2 DEF Asked, Unseen

(* Who starts, what is asked for, and where it ends.                       *)
LEMMA AtomicOutside ==
  ASSUME LookupInv, LookupInv', ReasonsInv,
         \/ StartScenario \/ Step \/ Registered \/ EndScenario
         \/ \E t \in Texts : RunStep(t)
  PROVE  Atomic!AtomicNext \/ Unseen
<1>1. CASE StartScenario \/ Step
  <2>1. at \in {"none", "register"} /\ at' = "register" /\ UNCHANGED <<text, log>>
    BY <1>1 DEF StartScenario, Step, historyVars
  <2>2. Registry' = Registry
    BY <2>1 DEF Registry
  <2>3. /\ Request = NULL
        /\ LastAnswer = (IF log # <<>> THEN log[Len(log)].reply ELSE NULL)
    BY <2>1, BetweenSteps DEF Between, Answered
  <2>4. /\ Request' = NULL
        /\ LastAnswer' = (IF log' # <<>> THEN log'[Len(log')].reply ELSE NULL)
    BY <2>1, BetweenStepsNext DEF Between, Answered
  <2> QED
    BY <2>1, <2>2, <2>3, <2>4 DEF Unseen
<1>2. CASE Registered
  <2>1. /\ at = "register" /\ at' = "idle" /\ UNCHANGED <<text, log, defs>>
        /\ Len(defs) = Len(Definitions)
    BY <1>2 DEF Registered, historyVars
  <2>2. /\ Request = NULL
        /\ LastAnswer = (IF log # <<>> THEN log[Len(log)].reply ELSE NULL)
    BY <2>1, BetweenSteps DEF Between, Answered
  <2>3. /\ Request' = NULL
        /\ LastAnswer' = (IF log' # <<>> THEN log'[Len(log')].reply ELSE NULL)
    BY <2>1, BetweenStepsNext DEF Between, Answered
  <2>4. Registry = NULL
    BY <2>1 DEF Registry
  <2>5. Registry' = [state |-> 0, step_defs |-> RegisteredView]
    BY <2>1 DEF Registry, RegisteredView
  <2>6. \A i \in DOMAIN defs : defs[i].failed_str = NULL
    <3>1. ASSUME NEW d \in DOMAIN defs PROVE defs[d].failed_str = NULL
      <4>1. Remembers(d) /\ FailedIn(d) = {}
        BY <2>1 DEF ReasonsInv, Remembering, Ahead, FailedIn
      <4> QED
        BY <4>1 DEF Remembers, LastOf
    <3> QED
      BY <3>1
  <2>7. /\ DOMAIN defs = 1..Len(Definitions) /\ DOMAIN Definitions = 1..Len(Definitions)
        /\ Len(Definitions) \in Nat /\ \A i \in DOMAIN defs : defs[i].def = i
    BY <2>1, DefinitionFacts DEF LookupInv, Typed, Listed
  <2>8. Len([d \in DOMAIN Definitions |-> Matched(d)]) = Len(Definitions)
    <3>1. [d \in DOMAIN Definitions |-> Matched(d)]
            \in [1..Len(Definitions) -> SUBSET Texts]
      BY <2>7, MatchedTexts
    <3>2. [d \in DOMAIN Definitions |-> Matched(d)] \in Seq(SUBSET Texts)
      BY <2>7, <3>1, SeqDef
    <3> QED
      BY <2>7, <3>1, <3>2, LenProperties
  <2>9. Registry' = Atomic!CucumberNew(0, [d \in DOMAIN Definitions |-> Matched(d)])
    BY <2>5, <2>6, <2>7, <2>8
       DEF RegisteredView, Atomic!CucumberNew, Atomic!CucumberStepDefNew
  <2>10. Atomic!Start
    BY <2>1, <2>2, <2>3, <2>4, <2>9 DEF Atomic!Start
  <2> QED
    BY <2>10, Zenon DEF Atomic!AtomicNext
<1>3. CASE EndScenario
  <2>1. at = "idle" /\ at' = "none" /\ UNCHANGED <<text, log>>
    BY <1>3 DEF EndScenario, historyVars
  <2>2. /\ Request = NULL
        /\ LastAnswer = (IF log # <<>> THEN log[Len(log)].reply ELSE NULL)
    BY <2>1, BetweenSteps DEF Between, Answered
  <2>3. /\ Request' = NULL
        /\ LastAnswer' = (IF log' # <<>> THEN log'[Len(log')].reply ELSE NULL)
    BY <2>1, BetweenStepsNext DEF Between, Answered
  <2>4. Registry # NULL /\ Registry' = NULL
    BY <2>1, RegistryIsObject DEF Registry
  <2>5. Atomic!End
    BY <2>1, <2>2, <2>3, <2>4 DEF Atomic!End
  <2> QED
    BY <2>5, Zenon DEF Atomic!AtomicNext
<1>4. ASSUME NEW t \in Texts, RunStep(t) PROVE Atomic!AtomicNext
  <2>1. at = "idle" /\ at' = "search" /\ text' = t /\ UNCHANGED defs
    BY <1>4 DEF RunStep
  <2>2. Request = NULL /\ Registry # NULL
    BY <2>1, BetweenSteps, RegistryIsObject DEF Between, Answered
  <2>3. Request' = t /\ LastAnswer' = NULL
    BY <2>1, UndecidedNext DEF Asked, Deciding, Busy, InFunction, InAssertion
  <2>4. Registry' = Registry
    BY <2>1, SameRegistry
  <2>5. Atomic!Ask(t)
    BY <2>1, <2>2, <2>3, <2>4 DEF Atomic!Ask
  <2> QED
    BY <2>5, Zenon DEF Atomic!AtomicNext
<1> QED
  BY <1>1, <1>2, <1>3, <1>4

LEMMA AtomicInside ==
  ASSUME LookupInv, LookupInv',
         \/ TryStepDef \/ CallStep \/ AssertHolds \/ AssertFails
         \/ PrintActual \/ PrintExpected \/ ValueChanges
  PROVE  Unseen
<1>0. /\ defs \in Seq(StepDef) /\ Len(defs) \in Nat /\ DOMAIN defs = 1..Len(defs)
  BY DEF LookupInv, Typed
<1>1. CASE TryStepDef
  <2>1. /\ at = "search" /\ cursor # 0 /\ at' \in {"search", "call"}
        /\ defs' = [defs EXCEPT ![cursor] = ZrexMatches(defs[cursor], text)]
        /\ text' = text
    BY <1>1 DEF TryStepDef
  <2>2. /\ ZrexMatches(defs[cursor], text).failed_str = defs[cursor].failed_str
        /\ ZrexMatches(defs[cursor], text).def = defs[cursor].def
    <3>1. defs[cursor] \in StepDef
      BY <1>0, <2>1 DEF LookupInv, Typed
    <3> QED
      BY <3>1 DEF ZrexMatches, StepDef
  <2>3. /\ DOMAIN defs' = DOMAIN defs
        /\ \A i \in DOMAIN defs :
             defs'[i].def = defs[i].def /\ defs'[i].failed_str = defs[i].failed_str
    BY <1>0, <2>1, <2>2
  <2> QED
    BY <2>1, <2>3, InsideStep DEF Deciding, Busy
<1>2. CASE \/ CallStep \/ AssertHolds \/ AssertFails
           \/ PrintActual \/ PrintExpected \/ ValueChanges
  <2>1. /\ at \in {"call", "assert", "actual", "expected"}
        /\ at' \in {"assert", "actual", "expected", "reason"}
        /\ UNCHANGED <<text, defs>>
    BY <1>2 DEF CallStep, AssertHolds, AssertFails, PrintActual, PrintExpected,
                ValueChanges
  <2> QED
    BY <2>1, InsideStep DEF Deciding, Busy, InFunction, InAssertion
<1> QED
  BY <1>1, <1>2

(* What will be answered is decided.                                       *)
LEMMA FindsCursor ==
  ASSUME LookupInv, at \notin {"none", "register"},
         IF cursor = 0 THEN NoMatch(text) ELSE First(cursor, text)
  PROVE  Atomic!CucumberFindStepDef(Registry, text) = cursor
<1> DEFINE Matching == {i \in 1..Len(Registry.step_defs) :
                          Atomic!CucumberStepDefMatches(Registry, i, text)}
<1>1. /\ Registry.step_defs = RegisteredView /\ Len(RegisteredView) = Len(defs)
      /\ DOMAIN RegisteredView = 1..Len(defs)
  BY RegistryIsObject
<1>2. /\ Len(defs) = Len(Definitions) /\ \A i \in 1..Len(defs) : defs[i].def = i
      /\ DOMAIN defs = 1..Len(defs) /\ DOMAIN Definitions = 1..Len(defs)
      /\ Len(defs) \in Nat /\ cursor \in 0..Len(defs)
  BY DefinitionFacts DEF LookupInv, Typed, Listed
<1>3. Matching = {i \in DOMAIN Definitions : Matches(i, text)}
  <2>1. \A i \in DOMAIN Definitions : RegisteredView[i].matches = Matched(i)
    BY <1>2 DEF RegisteredView
  <2> QED
    BY <1>1, <1>2, <2>1, MatchedTexts DEF Atomic!CucumberStepDefMatches
<1>4. CASE cursor = 0
  <2>1. Matching = {}
    BY <1>3, <1>4 DEF NoMatch
  <2> QED
    BY <1>4, <2>1 DEF Atomic!CucumberFindStepDef
<1>5. CASE cursor # 0
  <2>1. cursor \in Matching
    BY <1>3, <1>5 DEF First
  <2>2. \A i \in Matching : cursor <= i /\ (i <= cursor => i = cursor)
    BY <1>2, <1>3, <1>5 DEF First, NoneBefore
  <2>3. (CHOOSE i \in Matching : \A j \in Matching : i <= j) = cursor
    BY <2>1, <2>2
  <2> QED
    BY <2>1, <2>3 DEF Atomic!CucumberFindStepDef
<1> QED
  BY <1>4, <1>5

LEMMA ReplyIsNext == Says'
BY ReplyIs, PTL

LEMMA RunView ==
  ASSUME NEW S, NEW V \in Seq(S), NEW c \in DOMAIN V, NEW m, NEW b \in BOOLEAN,
         V[c] = [matches |-> m, failed |-> b], NEW f \in BOOLEAN
  PROVE  Atomic!CucumberStepDefRun([state |-> 0, step_defs |-> V], c, f)
           = [state |-> 0,
              step_defs |-> [V EXCEPT ![c] = [matches |-> m, failed |-> f \/ b]]]
<1>1. V[c].failed = b /\ [V[c] EXCEPT !.failed = f \/ b] = [matches |-> m, failed |-> f \/ b]
  OBVIOUS
<1>2. [[state |-> 0, step_defs |-> V] EXCEPT !.step_defs[c].failed = f \/ b]
        = [state |-> 0,
           step_defs |-> [V EXCEPT ![c] = [matches |-> m, failed |-> f \/ b]]]
  BY <1>1
<1>3. [state |-> 0, step_defs |-> V].step_defs[c].failed = b
  BY <1>1
<1> QED
  BY <1>2, <1>3 DEF Atomic!CucumberStepDefRun

LEMMA TakesAnswer ==
  ASSUME LookupInv, LookupInv', Deciding, Decided',
         IF cursor = 0 THEN NoMatch(text) ELSE First(cursor, text),
         cursor' = cursor, DOMAIN defs' = DOMAIN defs,
         cursor = 0 => defs' = defs,
         \A i \in DOMAIN defs : i # cursor => defs'[i] = defs[i],
         NEW fails \in BOOLEAN,
         cursor # 0 =>
           /\ defs'[cursor].def = defs[cursor].def
           /\ defs'[cursor].failed_str # NULL <=>
                fails \/ defs[cursor].failed_str # NULL
  PROVE  Atomic!AnswerStep
<1>0. /\ at \notin {"none", "register"} /\ at' \notin {"none", "register"}
      /\ defs \in Seq(StepDef) /\ Len(defs) \in Nat /\ DOMAIN defs = 1..Len(defs)
      /\ cursor \in 0..Len(defs)
  BY DEF Deciding, Decided, Busy, InFunction, InAssertion, LookupInv, Typed
<1>1. /\ Request = text /\ text # NULL /\ Request' = NULL /\ LastAnswer' = Reply'
  <2>1. LastAnswer' = Reply' /\ Request' = NULL
    BY DEF LastAnswer, Request
  <2> QED
    BY <2>1, Undecided DEF Asked
<1>2. Atomic!CucumberFindStepDef(Registry, Request) = cursor
  BY <1>0, <1>1, FindsCursor
<1>3. /\ Registry = [state |-> 0, step_defs |-> RegisteredView]
      /\ RegisteredView \in Seq(Atomic!StepDef) /\ DOMAIN RegisteredView = DOMAIN defs
      /\ Registry' = [state |-> 0, step_defs |-> RegisteredView']
  <2>1. Registry' = [state |-> 0, step_defs |-> RegisteredView']
    BY <1>0 DEF Registry, RegisteredView
  <2> QED
    BY <1>0, <2>1, RegistryIsObject
<1>4. CASE cursor = 0
  <2>1. Reply' = Atomic!NotFound
    BY <1>4, ReplyIsNext DEF Says
  <2>2. Registry' = Registry
    BY <1>3, <1>4 DEF RegisteredView
  <2> QED
    BY <1>1, <1>2, <1>4, <2>1, <2>2 DEF Atomic!AnswerStep
<1>5. CASE cursor # 0
  <2>0. PICK b, m : b = (defs[cursor].failed_str # NULL) /\ m = Matched(defs[cursor].def)
    OBVIOUS
  <2>1. /\ b \in BOOLEAN
        /\ b <=> defs[cursor].failed_str # NULL
        /\ RegisteredView[cursor] = [matches |-> m, failed |-> b]
    <3>1. b \in BOOLEAN
      BY <2>0
    <3>2. b <=> defs[cursor].failed_str # NULL
      BY <2>0, Zenon
    <3>3. cursor \in DOMAIN defs
      BY <1>0, <1>5
    <3>4. RegisteredView[cursor] = [matches |-> m, failed |-> b]
      BY <2>0, <3>3, Zenon DEF RegisteredView
    <3> QED
      BY <3>1, <3>2, <3>4
  <2>2. RegisteredView' = [RegisteredView EXCEPT ![cursor] =
                             [matches |-> m, failed |-> fails \/ b]]
    <3>1. DOMAIN RegisteredView' = DOMAIN defs
      BY DEF RegisteredView
    <3>2. \A i \in DOMAIN defs : i # cursor => RegisteredView'[i] = RegisteredView[i]
      BY DEF RegisteredView
    <3>3. RegisteredView'[cursor] = [matches |-> m, failed |-> fails \/ b]
      BY <1>0, <1>5, <2>0, <2>1 DEF RegisteredView
    <3> QED
      BY <1>0, <1>3, <3>1, <3>2, <3>3 DEF RegisteredView
  <2>3. Registry' = Atomic!CucumberStepDefRun(Registry, cursor, fails)
    BY <1>0, <1>3, <1>5, <2>1, <2>2, RunView
  <2>4. Reply' = Atomic!Verdict((FailureReason # NULL)')
    BY <1>5, ReplyIsNext DEF Says
  <2>5. (FailureReason # NULL)' = Atomic!CucumberStepDefFailed(Registry', cursor)
    <3>1. Registry'.step_defs[cursor].failed = (defs'[cursor].failed_str # NULL)
      BY <1>0, <1>3, <1>5 DEF RegisteredView
    <3>2. FailureReason' = defs'[cursor].failed_str
      BY <1>5 DEF FailureReason
    <3> QED
      BY <3>1, <3>2 DEF Atomic!CucumberStepDefFailed
  <2> QED
    BY <1>1, <1>2, <1>5, <2>3, <2>4, <2>5 DEF Atomic!AnswerStep
<1> QED
  BY <1>4, <1>5

LEMMA AtomicDecides ==
  ASSUME LookupInv, LookupInv', ReasonsInv', NotFound \/ SetFailureReason \/ StepReturns
  PROVE  Atomic!AnswerStep
<1>0. /\ defs \in Seq(StepDef) /\ Len(defs) \in Nat /\ DOMAIN defs = 1..Len(defs)
      /\ at \in {"search"} \cup InFunction => text # NULL
  BY DEF LookupInv, Typed, Looked, Busy
<1>1. CASE NotFound \/ StepReturns
  <2>1. /\ at \in {"search", "assert"} /\ at' = "answer" /\ UNCHANGED <<defs, cursor>>
        /\ at = "search" => cursor = 0
    BY <1>1 DEF NotFound, StepReturns
  <2>2. IF cursor = 0 THEN NoMatch(text) ELSE First(cursor, text)
    BY <2>1 DEF LookupInv, Looked, InFunction
  <2>3. Deciding /\ Decided'
    BY <2>1 DEF Deciding, Decided, Busy, InFunction
  <2>4. FALSE \in BOOLEAN
    OBVIOUS
  <2> QED
    BY <2>1, <2>2, <2>3, <2>4, TakesAnswer
<1>2. CASE SetFailureReason
  <2>1. /\ at = "reason" /\ at' = "free" /\ UNCHANGED <<cursor, failure>>
        /\ defs' = [defs EXCEPT ![cursor] =
                      [defs[cursor] EXCEPT !.failed_str = ReasonAt(allocated + 1)]]
    BY <1>2 DEF SetFailureReason, Allocate, historyVars
  <2>2. cursor # 0 /\ First(cursor, text) /\ cursor \in DOMAIN defs
    BY <1>0, <2>1 DEF LookupInv, Typed, Looked, InFunction, InAssertion
  <2>3. PICK new : new = [defs[cursor] EXCEPT !.failed_str = ReasonAt(allocated + 1)]
    OBVIOUS
  <2>4. defs[cursor] \in StepDef
    BY <1>0, <2>2
  <2>5. new.def = defs[cursor].def
    BY <2>3, <2>4 DEF StepDef
  <2>6. /\ DOMAIN defs' = DOMAIN defs /\ defs'[cursor] = new
        /\ \A i \in DOMAIN defs : i # cursor => defs'[i] = defs[i]
    BY <1>0, <2>1, <2>2, <2>3
  <2>7. new.failed_str # NULL
    <3>1. new.failed_str = ReasonAt(allocated + 1)
      BY <2>3, <2>4 DEF StepDef
    <3>2. ReasonAt(allocated + 1) \in Reason
      BY <2>1 DEF ReasonAt, Reason, LookupInv, Typed, Asserting, String
    <3> QED
      BY <3>1, <3>2, NullAssumption
  <2>8. Deciding /\ Decided'
    BY <2>1 DEF Deciding, Decided, Busy, InFunction, InAssertion
  <2>9. TRUE \in BOOLEAN
    OBVIOUS
  <2> QED
    BY <2>1, <2>2, <2>5, <2>6, <2>7, <2>8, <2>9, TakesAnswer
<1> QED
  BY <1>1, <1>2

LEMMA AnswerUnseen ==
  ASSUME LookupInv, LookupInv', Answer
  PROVE  Unseen
<1>0. log \in Seq(LogEntry)
  BY DEF LookupInv, Typed
<1>1. /\ at = "answer" /\ at' = "idle" /\ UNCHANGED <<defs, cursor>> /\ text' = NULL
  BY Zenon DEF Answer
<1>2. PICK e \in LogEntry : log' = Append(log, e) /\ e.reply = Reply
  BY Answering, Zenon
<1>3. log' # <<>> /\ log'[Len(log')] = e
  <2>1. Len(log) \in Nat /\ Len(log') = Len(log) + 1 /\ log'[Len(log) + 1] = e
    BY <1>0, <1>2, OneMore
  <2> QED
    BY <2>1
<1>4. LastAnswer = Reply /\ Request = NULL
  BY <1>1 DEF LastAnswer, Request, Decided
<1>5. LastAnswer' = e.reply /\ Request' = NULL
  BY <1>1, <1>3, BetweenStepsNext DEF Between, Answered
<1>6. Registry' = Registry
  BY <1>1, SameRegistry
<1> QED
  BY <1>2, <1>4, <1>5, <1>6, Zenon DEF Unseen

LEMMA AtomicStep ==
  LookupInv /\ LookupInv' /\ ReasonsInv /\ ReasonsInv' /\ [Next]_vars
    => Atomic!AtomicNext \/ Unseen
<1> SUFFICES ASSUME LookupInv, LookupInv', ReasonsInv, ReasonsInv', [Next]_vars
             PROVE  Atomic!AtomicNext \/ Unseen
  OBVIOUS
<1>1. CASE \/ StartScenario \/ Step \/ Registered \/ EndScenario
           \/ \E t \in Texts : RunStep(t)
  BY <1>1, AtomicOutside
<1>2. CASE \/ TryStepDef \/ CallStep \/ AssertHolds \/ AssertFails
           \/ PrintActual \/ PrintExpected \/ ValueChanges
  BY <1>2, AtomicInside
<1>3. CASE NotFound \/ SetFailureReason \/ StepReturns
  <2>1. Atomic!AnswerStep
    BY <1>3, AtomicDecides
  <2> QED
    BY <2>1, Zenon DEF Atomic!AtomicNext
<1>4. CASE AssertReturns
  <2>1. /\ at = "free" /\ at' = "answer" /\ UNCHANGED <<defs, cursor>>
    BY <1>4 DEF AssertReturns
  <2>2. Registry' = Registry
    BY <2>1, SameRegistry
  <2>3. Decided /\ Decided'
    BY <2>1 DEF Decided
  <2>4. Reply' = Reply
    BY <2>1, Zenon DEF Reply, FailureReason
  <2> QED
    BY <2>2, <2>3, <2>4, Zenon DEF Unseen, Request, LastAnswer
<1>5. CASE Answer
  BY <1>5, AnswerUnseen
<1>6. CASE UNCHANGED vars
  <2>1. UNCHANGED <<at, defs, cursor, text, log>>
    BY <1>6 DEF vars, historyVars
  <2>2. Reply' = Reply
    BY <2>1, Zenon DEF Reply, FailureReason
  <2>3. Registry' = Registry
    BY <2>1, SameRegistry
  <2> QED
    BY <2>1, <2>2, <2>3, Zenon DEF Unseen, Request, LastAnswer, Decided
<1> QED
  BY <1>1, <1>2, <1>3, <1>4, <1>5, <1>6, Zenon DEF Next, RunsStep, Finished

(* Statement by statement, the actor does what AtomicSteps promises: it    *)
(* looks up, runs and answers one step after another, as if at once.       *)
THEOREM StepsAreAtomic == Spec => ImplementsAtomicSteps
<1>1. Init => Atomic!AtomicInit
  <2> SUFFICES ASSUME Init PROVE Atomic!AtomicInit
    OBVIOUS
  <2>1. Registry = NULL /\ Request = NULL /\ LastAnswer = NULL
    <3>1. at = "none" /\ text = NULL /\ log = <<>>
      BY DEF Init
    <3> QED
      BY <3>1, Zenon DEF Registry, Request, LastAnswer, Decided
  <2> QED
    BY <2>1 DEF Atomic!AtomicInit
<1>2. LookupInv /\ LookupInv' /\ ReasonsInv /\ ReasonsInv' /\ [Next]_vars
        => [Atomic!AtomicNext]_(Atomic!atomicVars)
  BY AtomicStep DEF Unseen, Atomic!atomicVars
<1> QED
  BY <1>1, <1>2, ReasonsInvariance, PTL DEF Spec, ImplementsAtomicSteps, Atomic!AtomicSpec
=============================================================================
