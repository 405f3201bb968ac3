------------------------------ MODULE Cucumber ------------------------------
(***************************************************************************)
(* The registry one scenario runs against: cucumber.c (the user's state    *)
(* and the list of step definitions) and cucumber_step_def.c (one step     *)
(* definition).  The regular expression of a step definition is the set of *)
(* step texts it matches; the function it runs is the user's.              *)
(***************************************************************************)
EXTENDS Gherkin

(***************************************************************************)
(* struct _cucumber_step_def_t.  failed says whether failed_str is set.    *)
(***************************************************************************)
StepDef == [matches : SUBSET Texts, failed : BOOLEAN]

(***************************************************************************)
(* struct _cucumber_t.  State objects are numbered from 1 in the order     *)
(* their constructor made them; 0 is the null pointer.                     *)
(***************************************************************************)
CucumberType == [state : Nat, step_defs : Seq(StepDef)]

CucumberStepDefNew(matches) == [matches |-> matches, failed |-> FALSE]

(* cucumber_new, then the user's function that adds its step definitions   *)
(* in the order it lists them.                                             *)
CucumberNew(state, defs) ==
  [state |-> state,
   step_defs |-> [i \in 1..Len(defs) |-> CucumberStepDefNew(defs[i])]]

CucumberStepDefMatches(cucumber, i, text) ==
  text \in cucumber.step_defs[i].matches

(* cucumber_find_step_def: the first one that matches, 0 when none does. *)
CucumberFindStepDef(cucumber, text) ==
  LET Matching == {i \in 1..Len(cucumber.step_defs) :
                     CucumberStepDefMatches(cucumber, i, text)}
  IN  IF Matching = {} THEN 0
      ELSE CHOOSE i \in Matching : \A j \in Matching : i <= j

(***************************************************************************)
(* cucumber_step_def_run: the user's function runs, and either meets an    *)
(* assert_that_... that does not hold, which sets failed_str and returns,  *)
(* or does not touch failed_str.  Nothing ever clears failed_str.          *)
(***************************************************************************)
CucumberStepDefRun(cucumber, i, fails) ==
  [cucumber EXCEPT !.step_defs[i].failed = fails \/ @]

(* Slip: TRUE when any step definition failed. *)
CucumberStepDefFailed_Any(cucumber, i) ==
  \E j \in DOMAIN cucumber.step_defs : cucumber.step_defs[j].failed

CucumberStepDefFailed(cucumber, i) == cucumber.step_defs[i].failed
=============================================================================
