-------------------------- MODULE MCStepExecution --------------------------
(***************************************************************************)
(* The first two step definitions match "both": the first asserts twice on *)
(* a small number, the second on an int that other threads change.  The    *)
(* third asserts on a long; one text matches none.                         *)
(***************************************************************************)
EXTENDS StepExecution, TLC

Parameter == [param |-> TRUE, constant |-> 1]
Constant(c) == [param |-> FALSE, constant |-> c]

MCValues == {-1, 1}

MCDefinitions ==
  <<[captures |-> "first" :> 1 @@ "both" :> -1,
     type |-> "int8_t", volatile |-> FALSE,
     asserts |-> <<Parameter, Constant(1)>>],
    [captures |-> "both" :> 1 @@ "second" :> -1,
     type |-> "int", volatile |-> TRUE, asserts |-> <<Parameter>>],
    [captures |-> "third" :> 1,
     type |-> "long", volatile |-> FALSE, asserts |-> <<Constant(-1)>>]>>
=============================================================================
