--------------------------- MODULE StepExecution ---------------------------
(***************************************************************************)
(* The steps of scenarios, statement by statement: what CucumberSteps      *)
(* takes as one action each.  The actor registers its step definitions     *)
(* when a scenario starts (the STEP macro), looks for the one that matches *)
(* a step (the loop of cucumber_find_step_def), and runs the user's        *)
(* function: it fetches what the expression captured, sets the value that  *)
(* the step is about, and meets assertions.  assert_that evaluates the     *)
(* expression for that value again to print it.                            *)
(*                                                                         *)
(* Strings on the heap are numbered in the order they are allocated.       *)
(***************************************************************************)
EXTENDS CucumberAsserts, Sequences, FiniteSets

CONSTANTS
  Texts,         \* texts of steps
  Values,        \* what the asserted expression may evaluate to
  Definitions,   \* the application's step definitions, in order
  MaxScenarios,  \* bound: scenarios started
  MaxSteps,      \* bound: steps asked for, in all scenarios
  NULL

(***************************************************************************)
(* A step definition of the application: captures maps the texts that its  *)
(* expression matches to the parameter captured; its function then asserts *)
(* that the value, of the given type, equals the parameter, or a constant. *)
(* The value of a volatile one is changed by other threads meanwhile.      *)
(***************************************************************************)
Assertion == [param : BOOLEAN, constant : Values]

Definition ==
  [captures : UNION {[matching -> Values] : matching \in SUBSET Texts},
   type : Types, volatile : BOOLEAN, asserts : Seq(Assertion)]

ASSUME ExecutionAssumption ==
  /\ Values \subseteq Int
  /\ Values # {}
  /\ Definitions \in Seq(Definition)
  /\ MaxScenarios \in Nat
  /\ MaxSteps \in Nat
  /\ NULL \notin Texts
  /\ NULL \notin Int

VARIABLES
  at,          \* where the actor is
  defs,        \* the list of step definitions of the scenario
  cursor,      \* the current element of that list, 0 for NULL
  text,        \* the text of the step being handled, or NULL
  param,       \* what the function fetched
  asserts,     \* the assertions that are left in the function
  value,       \* what the asserted expression evaluates to
  actual_str,  \* the string printed for it, or NULL
  expected_str,\* the string printed for the expected value, or NULL
  heap,        \* the strings that are allocated
  allocated,   \* how many were allocated so far
  failure,     \* history: the assertion that failed in this run, or NULL
  scenario,    \* history: the number of scenarios started
  log          \* history: the steps handled

historyVars == <<failure, scenario, log>>

vars == <<at, defs, cursor, text, param, asserts, value, actual_str,
          expected_str, heap, allocated, historyVars>>

Places == {"none", "register", "idle", "search", "call", "assert", "actual",
           "expected", "reason", "free", "answer"}

(* A string on the heap, and the reason of a failure, made of two others.  *)
Readings == UNION {Printed(type, v) : type \in Types, v \in Values}

String == [at : Nat, reads : Readings]
Reason == [at : Nat, expected : Readings, got : Readings]
Difference == [actual : Values, expected : Values]

ASSUME NullAssumption == NULL \notin Reason \cup Difference

(***************************************************************************)
(* struct _cucumber_step_def_t: captured are the captures of its zrex,     *)
(* those of the last text that matched, NULL when none did.                *)
(***************************************************************************)
StepDef ==
  [def : DOMAIN Definitions, captured : Values \cup {NULL},
   failed_str : Reason \cup {NULL}]

Init ==
  /\ at = "none"
  /\ defs = <<>>
  /\ cursor = 0
  /\ text = NULL
  /\ param = NULL
  /\ asserts = <<>>
  /\ value \in Values
  /\ actual_str = NULL
  /\ expected_str = NULL
  /\ heap = {}
  /\ allocated = 0
  /\ failure = NULL
  /\ scenario = 0
  /\ log = <<>>

(***************************************************************************)
(* A scenario starts: the user's function adds its step definitions with   *)
(* the STEP macro, one after the other.                                    *)
(***************************************************************************)
StartScenario ==
  /\ at = "none"
  /\ scenario < MaxScenarios
  /\ at' = "register"
  /\ scenario' = scenario + 1
  /\ UNCHANGED <<defs, cursor, text, param, asserts, value, actual_str,
                 expected_str, heap, allocated, failure, log>>

(* cucumber_step_def_new, on memory that is zero. *)
CucumberStepDefNew(d) == [def |-> d, captured |-> NULL, failed_str |-> NULL]

(* Slip: added at the head of the list. *)
CucumberAddStepDef_Start(step_def) == <<step_def>> \o defs

(* cucumber_add_step_def *)
CucumberAddStepDef(step_def) == Append(defs, step_def)

Step ==
  /\ at = "register"
  /\ Len(defs) < Len(Definitions)
  /\ defs' = CucumberAddStepDef(CucumberStepDefNew(Len(defs) + 1))
  /\ UNCHANGED <<at, cursor, text, param, asserts, value, actual_str,
                 expected_str, heap, allocated, historyVars>>

Registered ==
  /\ at = "register"
  /\ Len(defs) = Len(Definitions)
  /\ at' = "idle"
  /\ UNCHANGED <<defs, cursor, text, param, asserts, value, actual_str,
                 expected_str, heap, allocated, historyVars>>

(***************************************************************************)
(* A scenario ends: zlistx_destroy calls cucumber_step_def_destroy on each *)
(* step definition, which frees its failed_str.                            *)
(***************************************************************************)
Held ==
  {defs[i].failed_str.at : i \in {j \in DOMAIN defs : defs[j].failed_str # NULL}}

(* Slip: the destructor of a step definition forgets its failed_str. *)
EndScenario_Forgets ==
  /\ at = "idle"
  /\ at' = "none"
  /\ defs' = <<>>
  /\ cursor' = 0
  /\ UNCHANGED <<text, param, asserts, value, actual_str, expected_str,
                 heap, allocated, historyVars>>

EndScenario ==
  /\ at = "idle"
  /\ at' = "none"
  /\ heap' = heap \ Held
  /\ defs' = <<>>
  /\ cursor' = 0
  /\ UNCHANGED <<text, param, asserts, value, actual_str, expected_str,
                 allocated, historyVars>>

(***************************************************************************)
(* A step is asked for: cucumber_find_step_def walks the list.             *)
(***************************************************************************)
ZlistxFirst == IF defs = <<>> THEN 0 ELSE 1

ZlistxNext == IF cursor = Len(defs) THEN 0 ELSE cursor + 1

RunStep(t) ==
  /\ at = "idle"
  /\ Len(log) < MaxSteps
  /\ at' = "search"
  /\ text' = t
  /\ cursor' = ZlistxFirst
  /\ failure' = NULL
  /\ UNCHANGED <<defs, param, asserts, value, actual_str, expected_str, heap,
                 allocated, scenario, log>>

Matches(d, t) == t \in DOMAIN Definitions[d].captures

(* Slip: the captures of the first text that matched are kept. *)
ZrexMatches_KeepsOld(step_def, t) ==
  [step_def EXCEPT !.captured =
     IF @ # NULL THEN @
     ELSE IF Matches(step_def.def, t) THEN Definitions[step_def.def].captures[t]
     ELSE NULL]

(* zrex_matches replaces the captures when the text matches, only then. *)
ZrexMatches(step_def, t) ==
  [step_def EXCEPT !.captured = IF Matches(step_def.def, t)
                                THEN Definitions[step_def.def].captures[t]
                                ELSE @]

(* cucumber_step_def_matches on the current element. *)
TryStepDef ==
  /\ at = "search"
  /\ cursor # 0
  /\ defs' = [defs EXCEPT ![cursor] = ZrexMatches(@, text)]
  /\ IF Matches(defs[cursor].def, text)
     THEN at' = "call" /\ UNCHANGED cursor
     ELSE cursor' = ZlistxNext /\ UNCHANGED at
  /\ UNCHANGED <<text, param, asserts, value, actual_str, expected_str, heap,
                 allocated, historyVars>>

NotFound ==
  /\ at = "search"
  /\ cursor = 0
  /\ at' = "answer"
  /\ UNCHANGED <<defs, cursor, text, param, asserts, value, actual_str,
                 expected_str, heap, allocated, historyVars>>

(***************************************************************************)
(* cucumber_step_def_run: the user's function.  FETCH_PARAMS copies the    *)
(* pointers to the captures of the step definition it runs for.            *)
(***************************************************************************)
Current == Definitions[defs[cursor].def]

CallStep ==
  /\ at = "call"
  /\ at' = "assert"
  /\ param' = defs[cursor].captured
  /\ value' \in Values
  /\ asserts' = Current.asserts
  /\ UNCHANGED <<defs, cursor, text, actual_str, expected_str, heap, allocated,
                 historyVars>>

ExpectedValue ==
  IF Head(asserts).param THEN param ELSE Head(asserts).constant

AssertHolds ==
  /\ at = "assert"
  /\ asserts # <<>>
  /\ Equals(value, ExpectedValue)
  /\ asserts' = Tail(asserts)
  /\ UNCHANGED <<at, defs, cursor, text, param, value, actual_str,
                 expected_str, heap, allocated, historyVars>>

AssertFails ==
  /\ at = "assert"
  /\ asserts # <<>>
  /\ ~Equals(value, ExpectedValue)
  /\ at' = "actual"
  /\ failure' = [actual |-> value, expected |-> ExpectedValue]
  /\ UNCHANGED <<defs, cursor, text, param, asserts, value, actual_str,
                 expected_str, heap, allocated, scenario, log>>

Allocate == allocated' = allocated + 1 /\ heap' = heap \cup {allocated + 1}

(* actual_str: the expression is evaluated a second time. *)
PrintActual ==
  /\ at = "actual"
  /\ at' = "expected"
  /\ Allocate
  /\ \E reads \in Printed(Current.type, value) :
       actual_str' = [at |-> allocated', reads |-> reads]
  /\ UNCHANGED <<defs, cursor, text, param, asserts, value, expected_str,
                 historyVars>>

(* Slip: the actual value is printed again. *)
PrintExpected_Actual ==
  /\ at = "expected"
  /\ at' = "reason"
  /\ Allocate
  /\ \E reads \in Printed(Current.type, value) :
       expected_str' = [at |-> allocated', reads |-> reads]
  /\ UNCHANGED <<defs, cursor, text, param, asserts, value, actual_str,
                 historyVars>>

PrintExpected ==
  /\ at = "expected"
  /\ at' = "reason"
  /\ Allocate
  /\ \E reads \in Printed(Current.type, ExpectedValue) :
       expected_str' = [at |-> allocated', reads |-> reads]
  /\ UNCHANGED <<defs, cursor, text, param, asserts, value, actual_str,
                 historyVars>>

(* Slip: the strings are given in the order they were printed. *)
ReasonAt_Swapped(i) ==
  [at |-> i, expected |-> actual_str.reads, got |-> expected_str.reads]

(* "Expected '%s' but got '%s'" *)
ReasonAt(i) ==
  [at |-> i, expected |-> expected_str.reads, got |-> actual_str.reads]

(* Slip: the reason is written over a string that was printed. *)
SetFailureReason_Reuses ==
  /\ at = "reason"
  /\ at' = "free"
  /\ defs' = [defs EXCEPT ![cursor].failed_str = ReasonAt(expected_str.at)]
  /\ UNCHANGED <<cursor, text, param, asserts, value, actual_str, expected_str,
                 heap, allocated, historyVars>>

(* cucumber_step_def_set_failure_reason: an earlier reason is not freed. *)
SetFailureReason ==
  /\ at = "reason"
  /\ at' = "free"
  /\ Allocate
  /\ defs' = [defs EXCEPT ![cursor].failed_str = ReasonAt(allocated')]
  /\ UNCHANGED <<cursor, text, param, asserts, value, actual_str, expected_str,
                 historyVars>>

(* The two strings are freed, and the user's function is left. *)
AssertReturns ==
  /\ at = "free"
  /\ at' = "answer"
  /\ heap' = heap \ {actual_str.at, expected_str.at}
  /\ actual_str' = NULL
  /\ expected_str' = NULL
  /\ asserts' = <<>>
  /\ UNCHANGED <<defs, cursor, text, param, value, allocated, historyVars>>

(* No assertion is left. *)
StepReturns ==
  /\ at = "assert"
  /\ asserts = <<>>
  /\ at' = "answer"
  /\ UNCHANGED <<defs, cursor, text, param, asserts, value, actual_str,
                 expected_str, heap, allocated, historyVars>>

(* cucumber_step_def_failed, cucumber_step_def_failure_reason *)
FailureReason == IF cursor = 0 THEN NULL ELSE defs[cursor].failed_str

Reply ==
  CASE cursor = 0 -> "STEP NOT FOUND"
    [] cursor # 0 /\ FailureReason # NULL -> "STEP FAILED"
    [] OTHER -> "STEP SUCCEEDED"

Answer ==
  /\ at = "answer"
  /\ at' = "idle"
  /\ text' = NULL
  /\ param' = NULL
  /\ log' = Append(log,
       [scenario |-> scenario, text |-> text,
        def |-> IF cursor = 0 THEN 0 ELSE defs[cursor].def,
        param |-> param,
        failure |-> failure, reason |-> FailureReason, reply |-> Reply])
  /\ UNCHANGED <<defs, cursor, asserts, value, actual_str, expected_str, heap,
                 allocated, failure, scenario>>

(* Another thread of the application, or the evaluation of the expression  *)
(* itself, changes what it evaluates to.                                   *)
ValueChanges ==
  /\ at \in {"assert", "actual"}
  /\ Current.volatile
  /\ value' \in Values \ {value}
  /\ UNCHANGED <<at, defs, cursor, text, param, asserts, actual_str,
                 expected_str, heap, allocated, historyVars>>

(* All scenarios were run. *)
Finished == at = "none" /\ scenario = MaxScenarios /\ UNCHANGED vars

RunsStep ==
  \/ CallStep
  \/ AssertHolds \/ AssertFails
  \/ PrintActual \/ PrintExpected \/ SetFailureReason \/ AssertReturns
  \/ StepReturns

Next ==
  \/ StartScenario \/ Step \/ Registered \/ EndScenario
  \/ \E t \in Texts : RunStep(t)
  \/ TryStepDef \/ NotFound
  \/ RunsStep
  \/ Answer
  \/ ValueChanges
  \/ Finished

Spec == Init /\ [][Next]_vars

-----------------------------------------------------------------------------
Replies == {"STEP NOT FOUND", "STEP FAILED", "STEP SUCCEEDED"}

LogEntry ==
  [scenario : Nat, text : Texts, def : Nat, param : Values \cup {NULL},
   failure : Difference \cup {NULL}, reason : Reason \cup {NULL},
   reply : Replies]

(* The type of every variable; what is fetched for a function that runs is *)
(* never the NULL of an expression that did not match.                     *)
TypeOK ==
  /\ at \in Places
  /\ defs \in Seq(StepDef)
  /\ cursor \in 0..Len(defs)
  /\ text \in Texts \cup {NULL}
  /\ param \in Values \cup {NULL}
  /\ asserts \in Seq(Assertion)
  /\ value \in Values
  /\ actual_str \in String \cup {NULL}
  /\ expected_str \in String \cup {NULL}
  /\ heap \subseteq 1..allocated
  /\ allocated \in Nat
  /\ failure \in Difference \cup {NULL}
  /\ scenario \in Nat
  /\ log \in Seq(LogEntry)

(***************************************************************************)
(* A step is run by the first step definition that matches its text, in    *)
(* the order the application lists them, with the parameters captured from *)
(* this text: not those of an earlier step, nor those an expression keeps  *)
(* that was tried for another step.                                        *)
(***************************************************************************)
ParamsOfThisStep ==
  \A k \in DOMAIN log :
    LET first == log[k].def
        Matching == {d \in DOMAIN Definitions : Matches(d, log[k].text)}
    IN  IF Matching = {} THEN first = 0
        ELSE /\ first \in Matching
             /\ \A d \in Matching : first <= d
             /\ log[k].param = Definitions[first].captures[log[k].text]

(***************************************************************************)
(* The reason sent with STEP FAILED shows the values of an assertion that  *)
(* failed: of this run if one did; else of the last run of this step       *)
(* definition, in this scenario, in which one did.  What was got is        *)
(* evaluated again to be printed, and may be another value when it is      *)
(* volatile.                                                               *)
(***************************************************************************)
Failures(k) ==
  {j \in 1..k : /\ log[j].failure # NULL
                /\ log[j].def = log[k].def
                /\ log[j].scenario = log[k].scenario}

Shows(reason, def, failed) ==
  /\ reason.expected \in Printed(def.type, failed.expected)
  /\ ~def.volatile => reason.got \in Printed(def.type, failed.actual)

ReasonShowsFailure ==
  \A k \in DOMAIN log : log[k].reply = "STEP FAILED" =>
    \E j \in Failures(k) :
      /\ \A i \in Failures(k) : i <= j
      /\ log[k].reason = log[j].reason
      /\ Shows(log[k].reason, Definitions[log[k].def], log[j].failure)

(***************************************************************************)
(* "Expected '%s' but got '%s'": what is printed as got is not what is     *)
(* printed as expected, but for a volatile value, and for values of type   *)
(* long, which "%l" prints as empty strings.                               *)
(* (Floating point values that differ after the last place of %f read the  *)
(* same: the applications considered have none.)                           *)
(***************************************************************************)
ReasonTellsApart ==
  \A k \in DOMAIN log :
    log[k].reply = "STEP FAILED" =>
      \/ log[k].reason.expected # log[k].reason.got
      \/ Definitions[log[k].def].volatile
      \/ Definitions[log[k].def].type = "long"

(***************************************************************************)
(* Between steps no string is allocated but the reasons that the step      *)
(* definitions of the scenario hold, and the reasons that were overwritten *)
(* because a step definition failed twice in one scenario: those leak.     *)
(***************************************************************************)
Overwritten ==
  {log[k].reason.at : k \in {j \in DOMAIN log :
     /\ log[j].failure # NULL
     /\ \E i \in DOMAIN log : i > j /\ j \in Failures(i) /\ i \in Failures(i)}}

StringsAccounted ==
  at \in {"none", "register", "idle"} => heap = Held \cup Overwritten

(***************************************************************************)
(* What will be read or freed is allocated, and has one owner: the reason  *)
(* of a step definition is neither that of another one nor one of the      *)
(* strings that the assertion is about to free.                            *)
(***************************************************************************)
StringsOwned ==
  LET Strings == {s \in {actual_str, expected_str} : s # NULL}
      Reasons == {i \in DOMAIN defs : defs[i].failed_str # NULL}
  IN  /\ \A s \in Strings : s.at \in heap /\ s.at \notin Held
      /\ actual_str # NULL /\ expected_str # NULL
           => actual_str.at # expected_str.at
      /\ Held \subseteq heap
      /\ \A i, j \in Reasons :
           defs[i].failed_str.at = defs[j].failed_str.at => i = j

-----------------------------------------------------------------------------
(***************************************************************************)
(* Statement by statement, a scenario is what AtomicSteps says: a step is  *)
(* answered where what will be answered is decided, and a failure counts   *)
(* from there.                                                             *)
(***************************************************************************)
Decided == at \in {"free", "answer"}

Matched(d) == DOMAIN Definitions[d].captures

Registry ==
  IF at \in {"none", "register"} THEN NULL
  ELSE [state |-> 0,
        step_defs |-> [i \in DOMAIN defs |->
          [matches |-> Matched(defs[i].def), failed |-> defs[i].failed_str # NULL]]]

Request == IF Decided THEN NULL ELSE text

LastAnswer ==
  IF Decided THEN Reply
  ELSE IF text = NULL /\ log # <<>> THEN log[Len(log)].reply
  ELSE NULL

Atomic == INSTANCE AtomicSteps WITH
  Ids <- {}, Names <- {}, Defs <- [d \in DOMAIN Definitions |-> Matched(d)],
  cucumber <- Registry, request <- Request, answer <- LastAnswer

ASSUME RegistryAssumption == NULL \notin Atomic!CucumberType

ImplementsAtomicSteps == Atomic!AtomicSpec
=============================================================================
