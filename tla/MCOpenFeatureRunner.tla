------------------------ MODULE MCOpenFeatureRunner ------------------------
(***************************************************************************)
(* Two step runners with arbitrary answers, one scenario of two steps.     *)
(***************************************************************************)
EXTENDS OpenFeatureRunner

CONSTANTS r1, r2

MCArguments ==
  {[directory |-> FALSE,
    entries |-> <<[feature |-> FALSE,
                   file |-> [errors |-> 0,
                             pickles |-> <<[id |-> "1", name |-> "A",
                                            steps |-> s]>>]]>>]
     : s \in {<<"given">>, <<"given", "then">>}}

MCAnswer ==
  [command : {"STEP SUCCEEDED", "STEP FAILED", "STEP NOT FOUND", "STEP SKIPPED",
              "SCENARIO STARTED", "SCENARIO ENDED"},
   id : {"A"}] \cup {[command |-> "STEP FAILED", id |-> "B"],
                     [command |-> "SCENARIO STARTED", id |-> NULL]}
=============================================================================
