------------------------- MODULE MCCucumberSystem -------------------------
(***************************************************************************)
(* Instances of CucumberSystem for TLC.                                    *)
(***************************************************************************)
EXTENDS CucumberInvariant, CucumberRefinement

CONSTANTS r1, r2   \* two step runners

(* r1 has two step definitions, that both match "given"; r2 has one for    *)
(* "when" only; none has one for "then".                                   *)
MCDefs == [r \in Runners |->
             IF r = r1 THEN <<{"given", "when"}, {"given", "and"}>>
                       ELSE <<{"when"}>>]

Scenario(i, n, s) == [id |-> i, name |-> n, steps |-> s]
Feature(p) == [errors |-> 0, pickles |-> p]
Broken == [errors |-> 1, pickles |-> <<>>]
In(f) == [feature |-> TRUE, file |-> f]
Other == [feature |-> FALSE, file |-> Broken]
Dir(e) == [directory |-> TRUE, entries |-> e]
File(f) == [directory |-> FALSE, entries |-> <<In(f)>>]

A == Scenario("1", "A", <<"given", "when">>)
B == Scenario("2", "B", <<"then">>)
C == Scenario("3", "C", <<>>)
A2 == Scenario("4", "A", <<"when">>)

(* Of the name of A, with a step for each of the step definitions of r1. *)
D == Scenario("4", "A", <<"when", "and">>)

MCArguments == {Dir(<<Other, In(Feature(<<B>>)), In(Feature(<<A>>))>>),
                File(Feature(<<A, D>>)), Dir(<<>>), File(Feature(<<C>>))}

(* Smaller ones, for runs where step runners come, leave and die. *)
MCOneFile == {File(Feature(<<A>>)), File(Feature(<<B, A2>>))}
MCWithBroken == {Dir(<<In(Feature(<<A>>)), In(Broken)>>)}

MCAllArguments == MCArguments \cup MCWithBroken
=============================================================================
