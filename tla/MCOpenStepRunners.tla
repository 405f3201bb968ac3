------------------------- MODULE MCOpenStepRunners -------------------------
(***************************************************************************)
(* One step runner in front of an arbitrary client.                        *)
(***************************************************************************)
EXTENDS OpenStepRunners

CONSTANT r1

MCDefs == [r \in Runners |-> <<{"given"}>>]

(* A message that is ignored, one whose second frame is read as a command, *)
(* a part of a request, and a request with the beginning of another in it. *)
MCOtherMessages ==
  {<<"PING">>, <<"PING", "END SCENARIO">>, <<"RUN STEP">>,
   <<"START SCENARIO", "A", "RUN STEP">>}
=============================================================================
