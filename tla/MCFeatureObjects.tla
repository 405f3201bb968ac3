------------------------- MODULE MCFeatureObjects -------------------------
(* Up to three files: with several scenarios, one of them without steps;   *)
(* with one scenario; without any; and one that does not parse.            *)
EXTENDS FeatureObjects, SequencesExt

Parsed == {[errors |-> 0, scenarios |-> s] : s \in {<<2, 0, 1>>, <<1>>, <<>>}}
Broken == {[errors |-> 2, scenarios |-> <<>>]}

MCFileLists == SeqOf(Parsed \cup Broken, 3)
=============================================================================
