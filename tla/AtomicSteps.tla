---------------------------- MODULE AtomicSteps ----------------------------
(***************************************************************************)
(* What the handler of a request to run a step promises, as CucumberSteps  *)
(* takes it: one scenario at a time, and each step is looked up, run and   *)
(* answered at once.  A step runner is asked for one step after another;   *)
(* the answer given last stays to be seen.                                 *)
(***************************************************************************)
EXTENDS Cucumber

CONSTANTS
  Defs,     \* what the step definitions match, in the order they are added
  NULL

VARIABLES
  cucumber,   \* the registry of the scenario, or NULL
  request,    \* the text of the step asked for, or NULL
  answer      \* the last answer

atomicVars == <<cucumber, request, answer>>

AtomicInit ==
  /\ cucumber = NULL
  /\ request = NULL
  /\ answer = NULL

Start ==
  /\ cucumber = NULL
  /\ cucumber' = CucumberNew(0, Defs)
  /\ UNCHANGED <<request, answer>>

Ask(text) ==
  /\ cucumber # NULL
  /\ request = NULL
  /\ request' = text
  /\ answer' = NULL
  /\ UNCHANGED cucumber

NotFound == "STEP NOT FOUND"

Verdict(failed) == IF failed THEN "STEP FAILED" ELSE "STEP SUCCEEDED"

(* No step definition matches, or the first that does is run, and what is  *)
(* answered is whether it has failed in this scenario.                     *)
AnswerStep ==
  /\ request # NULL
  /\ request' = NULL
  /\ LET def == CucumberFindStepDef(cucumber, request)
     IN  IF def = 0
         THEN answer' = NotFound /\ UNCHANGED cucumber
         ELSE \E fails \in BOOLEAN :
                /\ cucumber' = CucumberStepDefRun(cucumber, def, fails)
                /\ answer' = Verdict(CucumberStepDefFailed(cucumber', def))

End ==
  /\ cucumber # NULL
  /\ request = NULL
  /\ cucumber' = NULL
  /\ UNCHANGED <<request, answer>>

AtomicNext ==
  \/ Start \/ End
  \/ \E text \in Texts : Ask(text)
  \/ AnswerStep

AtomicSpec == AtomicInit /\ [][AtomicNext]_atomicVars
=============================================================================
