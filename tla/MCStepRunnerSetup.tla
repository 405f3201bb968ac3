------------------------ MODULE MCStepRunnerSetup ------------------------
(* One program with three step runners: with a constructor and a           *)
(* destructor, with a destructor only, with neither.                       *)
EXTENDS StepRunnerSetup

CONSTANTS a1, a2, b2, a3, b3, c3   \* the functions of the application

Functions(new, destroy, register) ==
  [state_constructor |-> new, state_destructor |-> destroy,
   register_step_defs |-> register]

MCPrograms == <<"protocol", "storage", "clock">>
MCGiven == [n \in {"protocol", "storage", "clock"} |->
              CASE n = "protocol" -> Functions(a1, a2, a3)
                [] n = "storage"  -> Functions(NULL, b2, b3)
                [] OTHER          -> Functions(NULL, NULL, c3)]
=============================================================================
