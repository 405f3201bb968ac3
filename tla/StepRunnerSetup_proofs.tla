----------------------- MODULE StepRunnerSetup_proofs -----------------------
(***************************************************************************)
(* The hand-over of the arguments is safe for any number of step runners   *)
(* and any reuse of memory: what the actor reads is its own until it has   *)
(* signalled.  The inductive invariant says who may touch a cell when.     *)
(***************************************************************************)
EXTENDS StepRunnerSetup, TLAPS

(* A thread is started, signals, and only then its arguments are cleared.  *)
Phases ==
  \A n \in Names :
    /\ main[n] \in {"boot", "set", "spawn"} => actor[n] = "none"
    /\ main[n] = "wait" => actor[n] \in {"new", "get", "signal", "loop"}
    /\ main[n] \in {"clear", "send", "stdin"} => actor[n] = "loop"
    /\ main[n] = "dead" => actor[n] = "dead"
    /\ n \in signalled => actor[n] \in {"loop", "dead"}
    /\ actor[n] \in {"none", "new"} => got[n] = 0

(* A cell has one owner, from the macro's first line to the call that      *)
(* frees it.                                                               *)
Ownership ==
  /\ \A n \in Names :
       /\ main[n] \in {"boot", "send", "stdin"} => steps_args[n] = NULL
       /\ main[n] \in {"set", "clear"} => steps_args[n] # NULL
       /\ steps_args[n] # NULL => owner[steps_args[n]] = n
  /\ \A c \in Cells : owner[c] # NULL => steps_args[owner[c]] = c

(* Until the actor has signalled it holds what the macro was given.        *)
Contents ==
  \A n \in Names :
    /\ main[n] \in {"spawn", "wait"} /\ steps_args[n] # NULL
         => memory[steps_args[n]] = Given[n]
    /\ actor[n] \in {"new", "get"} => args[n] = steps_args[n]

(* What the actor has read is right, however far it is.                    *)
ReadSoFar ==
  \A n \in Names :
    /\ actor[n] = "get" /\ got[n] > 0 => args[n] # NULL
    /\ actor[n] \in {"signal", "loop"} => n \in greeted
    /\ actor[n] = "get" =>
         \A i \in 1..3 : i <= got[n] => self[n][Field[i]] = Given[n][Field[i]]
    /\ n \in greeted => /\ actor[n] \in {"signal", "loop", "dead"}
                         /\ args[n] # NULL
                         /\ self[n] = Given[n]

SetupInv == TypeOK /\ Phases /\ Ownership /\ Contents /\ ReadSoFar

-----------------------------------------------------------------------------
LEMMA FieldFacts ==
  /\ \A i \in 1..3 : Field[i] \in Fields
  /\ \A f \in Fields : \E i \in 1..3 : f = Field[i]
  /\ \A i, j \in 1..3 : Field[i] = Field[j] => i = j
BY DEF Field, Fields

LEMMA GivenType ==
  ASSUME NEW n \in Names
  PROVE  Given[n] \in [Fields -> Pointers]
<1>1. Given[n] = [f \in Fields |-> Given[n][f]]  BY SetupAssumption
<1>2. \A f \in Fields : Given[n][f] \in Pointers  BY DEF Pointers
<1> QED  BY <1>1, <1>2

LEMMA ZeroedType == Zeroed \in [Fields -> Pointers]
BY DEF Zeroed, Pointers

LEMMA InitSetup == Init => SetupInv
<1> SUFFICES ASSUME Init PROVE SetupInv  OBVIOUS
<1> USE SetupAssumption, ZeroedType DEF Init
<1>1. TypeOK  BY DEF TypeOK, MainPlaces, ActorPlaces
<1>2. Phases  BY DEF Phases
<1>3. Ownership  BY DEF Ownership
<1>4. Contents  BY DEF Contents
<1>5. ReadSoFar  BY DEF ReadSoFar
<1> QED  BY <1>1, <1>2, <1>3, <1>4, <1>5 DEF SetupInv

LEMMA ArgsNewSetup ==
  ASSUME SetupInv, NEW n \in Names, NEW c \in Cells, ArgsNew(n, c)
  PROVE  SetupInv'
<1> USE SetupAssumption, FieldFacts, ZeroedType, GivenType
    DEF ArgsNew, Goes, mainVars, heapVars, actorVars
<1>0. TypeOK /\ Phases /\ Ownership /\ Contents /\ ReadSoFar  BY DEF SetupInv
<1>1. TypeOK'  BY <1>0 DEF TypeOK, MainPlaces, ActorPlaces
<1>2. Phases'  BY <1>0 DEF TypeOK, Phases
<1>3. Ownership'  BY <1>0 DEF TypeOK, Phases, Ownership
<1>4. Contents'  BY <1>0 DEF TypeOK, Phases, Ownership, Contents
<1>5. ReadSoFar'  BY <1>0 DEF TypeOK, Phases, Ownership, Contents, ReadSoFar
<1> QED  BY <1>1, <1>2, <1>3, <1>4, <1>5 DEF SetupInv

LEMMA ArgsSetSetup ==
  ASSUME SetupInv, NEW n \in Names, ArgsSet(n)
  PROVE  SetupInv'
<1> USE SetupAssumption, FieldFacts, ZeroedType, GivenType
    DEF ArgsSet, Goes, mainVars, heapVars, actorVars
<1>0. TypeOK /\ Phases /\ Ownership /\ Contents /\ ReadSoFar  BY DEF SetupInv
<1>1. TypeOK'  BY <1>0 DEF TypeOK, MainPlaces, ActorPlaces
<1>2. Phases'  BY <1>0 DEF TypeOK, Phases
<1>3. Ownership'  BY <1>0 DEF TypeOK, Phases, Ownership
<1>4. Contents'  BY <1>0 DEF TypeOK, Phases, Ownership, Contents
<1>5. ReadSoFar'  BY <1>0 DEF TypeOK, Phases, Ownership, Contents, ReadSoFar
<1> QED  BY <1>1, <1>2, <1>3, <1>4, <1>5 DEF SetupInv

LEMMA NoArgsSetup ==
  ASSUME SetupInv, NEW n \in Names, NoArgs(n)
  PROVE  SetupInv'
<1> USE SetupAssumption, FieldFacts, ZeroedType, GivenType
    DEF NoArgs, Goes, mainVars, heapVars, actorVars
<1>0. TypeOK /\ Phases /\ Ownership /\ Contents /\ ReadSoFar  BY DEF SetupInv
<1>1. TypeOK'  BY <1>0 DEF TypeOK, MainPlaces, ActorPlaces
<1>2. Phases'  BY <1>0 DEF TypeOK, Phases
<1>3. Ownership'  BY <1>0 DEF TypeOK, Phases, Ownership
<1>4. Contents'  BY <1>0 DEF TypeOK, Phases, Ownership, Contents
<1>5. ReadSoFar'  BY <1>0 DEF TypeOK, Phases, Ownership, Contents, ReadSoFar
<1> QED  BY <1>1, <1>2, <1>3, <1>4, <1>5 DEF SetupInv

LEMMA SpawnSetup ==
  ASSUME SetupInv, NEW n \in Names, Spawn(n)
  PROVE  SetupInv'
<1> USE SetupAssumption, FieldFacts, ZeroedType, GivenType
    DEF Spawn, Goes, mainVars, heapVars, actorVars
<1>0. TypeOK /\ Phases /\ Ownership /\ Contents /\ ReadSoFar  BY DEF SetupInv
<1>1. TypeOK'  BY <1>0 DEF TypeOK, MainPlaces, ActorPlaces
<1>2. Phases'  BY <1>0 DEF TypeOK, Phases
<1>3. Ownership'  BY <1>0 DEF TypeOK, Phases, Ownership
<1>4. Contents'  BY <1>0 DEF TypeOK, Phases, Ownership, Contents
<1>5. ReadSoFar'  BY <1>0 DEF TypeOK, Phases, Ownership, Contents, ReadSoFar
<1> QED  BY <1>1, <1>2, <1>3, <1>4, <1>5 DEF SetupInv

LEMMA StartedSetup ==
  ASSUME SetupInv, NEW n \in Names, Started(n)
  PROVE  SetupInv'
<1> USE SetupAssumption, FieldFacts, ZeroedType, GivenType
    DEF Started, Goes, Signalled, mainVars, heapVars, actorVars
<1>0. TypeOK /\ Phases /\ Ownership /\ Contents /\ ReadSoFar  BY DEF SetupInv
<1>1. TypeOK'  BY <1>0 DEF TypeOK, MainPlaces, ActorPlaces
<1>2. Phases'  BY <1>0 DEF TypeOK, Phases
<1>3. Ownership'  BY <1>0 DEF TypeOK, Phases, Ownership
<1>4. Contents'  BY <1>0 DEF TypeOK, Phases, Ownership, Contents
<1>5. ReadSoFar'  BY <1>0 DEF TypeOK, Phases, Ownership, Contents, ReadSoFar
<1> QED  BY <1>1, <1>2, <1>3, <1>4, <1>5 DEF SetupInv

LEMMA ArgsClearSetup ==
  ASSUME SetupInv, NEW n \in Names, ArgsClear(n)
  PROVE  SetupInv'
<1> USE SetupAssumption, FieldFacts, ZeroedType, GivenType
    DEF ArgsClear, mainVars, heapVars, actorVars
<1>0. TypeOK /\ Phases /\ Ownership /\ Contents /\ ReadSoFar  BY DEF SetupInv
<1>1. TypeOK'
  <2>1. cleared[n] \in 0..2 /\ cleared'[n] = cleared[n] + 1
    BY <1>0 DEF TypeOK
  <2>2. Field[cleared'[n]] \in Fields  BY <2>1
  <2>3. memory' \in [Cells -> [Fields -> Pointers]]
    <3>1. memory \in [Cells -> [Fields -> Pointers]]  BY <1>0 DEF TypeOK
    <3>2. NULL \in Pointers  BY DEF Pointers
    <3> QED  BY <2>2, <3>1, <3>2
  <2> QED  BY <1>0, <2>1, <2>3 DEF TypeOK, MainPlaces, ActorPlaces
<1>2. Phases'  BY <1>0 DEF TypeOK, Phases
<1>3. Ownership'  BY <1>0 DEF TypeOK, Phases, Ownership
<1>4. Contents'  BY <1>0 DEF TypeOK, Phases, Ownership, Contents
<1>5. ReadSoFar'  BY <1>0 DEF TypeOK, Phases, Ownership, Contents, ReadSoFar
<1> QED  BY <1>1, <1>2, <1>3, <1>4, <1>5 DEF SetupInv

LEMMA ArgsDestroySetup ==
  ASSUME SetupInv, NEW n \in Names, ArgsDestroy(n)
  PROVE  SetupInv'
<1> USE SetupAssumption, FieldFacts, ZeroedType, GivenType
    DEF ArgsDestroy, Goes, mainVars, heapVars, actorVars
<1>0. TypeOK /\ Phases /\ Ownership /\ Contents /\ ReadSoFar  BY DEF SetupInv
<1>1. TypeOK'  BY <1>0 DEF TypeOK, MainPlaces, ActorPlaces
<1>2. Phases'  BY <1>0 DEF TypeOK, Phases
<1>3. Ownership'  BY <1>0 DEF TypeOK, Phases, Ownership
<1>4. Contents'  BY <1>0 DEF TypeOK, Phases, Ownership, Contents
<1>5. ReadSoFar'  BY <1>0 DEF TypeOK, Phases, Ownership, Contents, ReadSoFar
<1> QED  BY <1>1, <1>2, <1>3, <1>4, <1>5 DEF SetupInv

LEMMA SendVerboseSetup ==
  ASSUME SetupInv, NEW n \in Names, SendVerbose(n)
  PROVE  SetupInv'
<1> USE SetupAssumption, FieldFacts, ZeroedType, GivenType
    DEF SendVerbose, Goes, mainVars, heapVars, actorVars
<1>0. TypeOK /\ Phases /\ Ownership /\ Contents /\ ReadSoFar  BY DEF SetupInv
<1>1. TypeOK'  BY <1>0 DEF TypeOK, MainPlaces, ActorPlaces
<1>2. Phases'  BY <1>0 DEF TypeOK, Phases
<1>3. Ownership'  BY <1>0 DEF TypeOK, Phases, Ownership
<1>4. Contents'  BY <1>0 DEF TypeOK, Phases, Ownership, Contents
<1>5. ReadSoFar'  BY <1>0 DEF TypeOK, Phases, Ownership, Contents, ReadSoFar
<1> QED  BY <1>1, <1>2, <1>3, <1>4, <1>5 DEF SetupInv

LEMMA StepsNewSetup ==
  ASSUME SetupInv, NEW n \in Names, StepsNew(n)
  PROVE  SetupInv'
<1> USE SetupAssumption, FieldFacts, ZeroedType, GivenType
    DEF StepsNew, ActorGoes, mainVars, heapVars, actorVars
<1>0. TypeOK /\ Phases /\ Ownership /\ Contents /\ ReadSoFar  BY DEF SetupInv
<1>1. TypeOK'  BY <1>0 DEF TypeOK, MainPlaces, ActorPlaces
<1>2. Phases'  BY <1>0 DEF TypeOK, Phases
<1>3. Ownership'  BY <1>0 DEF TypeOK, Phases, Ownership
<1>4. Contents'  BY <1>0 DEF TypeOK, Phases, Ownership, Contents
<1>5. ReadSoFar'  BY <1>0 DEF TypeOK, Phases, Ownership, Contents, ReadSoFar
<1> QED  BY <1>1, <1>2, <1>3, <1>4, <1>5 DEF SetupInv

LEMMA GetFieldSetup ==
  ASSUME SetupInv, NEW n \in Names, GetField(n)
  PROVE  SetupInv'
<1> USE SetupAssumption, FieldFacts, ZeroedType, GivenType
    DEF GetField, mainVars, heapVars, actorVars
<1>0. TypeOK /\ Phases /\ Ownership /\ Contents /\ ReadSoFar  BY DEF SetupInv
<1>a. got[n] \in 0..2 /\ got'[n] = got[n] + 1
  BY <1>0 DEF TypeOK
<1>b. Field[got'[n]] \in Fields  BY <1>a
<1>c. args[n] \in Cells  BY <1>0 DEF TypeOK
<1>d. self' = [self EXCEPT ![n][Field[got'[n]]] = memory[args[n]][Field[got'[n]]]]
  OBVIOUS
<1>1. TypeOK'
  <2>1. memory[args[n]] \in [Fields -> Pointers]  BY <1>0, <1>c DEF TypeOK
  <2>2. self \in [Names -> [Fields -> Pointers]]  BY <1>0 DEF TypeOK
  <2>3. self' \in [Names -> [Fields -> Pointers]]  BY <1>b, <1>d, <2>1, <2>2
  <2> QED  BY <1>0, <1>a, <2>3 DEF TypeOK, MainPlaces, ActorPlaces
<1>2. Phases'  BY <1>0 DEF TypeOK, Phases
<1>3. Ownership'  BY <1>0 DEF TypeOK, Phases, Ownership
<1>4. Contents'  BY <1>0 DEF TypeOK, Phases, Ownership, Contents
<1>5. ReadSoFar'
  <2>1. memory[args[n]] = Given[n]
    BY <1>0, <1>c DEF TypeOK, MainPlaces, Phases, Contents
  <2>2. ASSUME NEW i \in 1..3, i <= got'[n]
        PROVE  self'[n][Field[i]] = Given[n][Field[i]]
    <3>0. self \in [Names -> [Fields -> Pointers]]  BY <1>0 DEF TypeOK
    <3>1. CASE i = got'[n]  BY <1>b, <1>d, <2>1, <3>0, <3>1
    <3>2. CASE i < got'[n]
      <4>1. i <= got[n]  BY <1>a, <3>2
      <4>2. self[n][Field[i]] = Given[n][Field[i]]  BY <1>0, <4>1 DEF ReadSoFar
      <4>3. Field[i] \in Fields /\ Field[i] # Field[got'[n]]  BY <1>a, <3>2
      <4> QED  BY <1>d, <3>0, <4>2, <4>3
    <3> QED  BY <1>a, <2>2, <3>1, <3>2
  <2>3. \A m \in Names \ {n} : self'[m] = self[m]  BY <1>0, <1>d DEF TypeOK
  <2>4. \A m \in Names \ {n} : got'[m] = got[m]  BY <1>0 DEF TypeOK
  <2>5. n \notin greeted  BY <1>0 DEF ReadSoFar
  <2> QED  BY <1>0, <2>2, <2>3, <2>4, <2>5 DEF ReadSoFar
<1> QED  BY <1>1, <1>2, <1>3, <1>4, <1>5 DEF SetupInv

LEMMA GetAssertsSetup ==
  ASSUME SetupInv, NEW n \in Names, GetAsserts(n)
  PROVE  SetupInv'
<1> USE SetupAssumption, FieldFacts, ZeroedType, GivenType
    DEF GetAsserts, mainVars, heapVars, actorVars
<1>0. TypeOK /\ Phases /\ Ownership /\ Contents /\ ReadSoFar  BY DEF SetupInv
<1>1. TypeOK'  BY <1>0 DEF TypeOK, MainPlaces, ActorPlaces
<1>2. Phases'  BY <1>0 DEF TypeOK, Phases
<1>3. Ownership'  BY <1>0 DEF TypeOK, Phases, Ownership
<1>4. Contents'  BY <1>0 DEF TypeOK, Phases, Ownership, Contents
<1>5. ReadSoFar'  BY <1>0 DEF TypeOK, Phases, Ownership, Contents, ReadSoFar
<1> QED  BY <1>1, <1>2, <1>3, <1>4, <1>5 DEF SetupInv

LEMMA HelloSetup ==
  ASSUME SetupInv, NEW n \in Names, Hello(n)
  PROVE  SetupInv'
<1> USE SetupAssumption, FieldFacts, ZeroedType, GivenType
    DEF Hello, ActorGoes, mainVars, heapVars, actorVars
<1>0. TypeOK /\ Phases /\ Ownership /\ Contents /\ ReadSoFar  BY DEF SetupInv
<1>1. TypeOK'  BY <1>0 DEF TypeOK, MainPlaces, ActorPlaces
<1>2. Phases'  BY <1>0 DEF TypeOK, Phases
<1>3. Ownership'  BY <1>0 DEF TypeOK, Phases, Ownership
<1>4. Contents'  BY <1>0 DEF TypeOK, Phases, Ownership, Contents
<1>5. ReadSoFar'
  <2>1. self[n] \in [Fields -> Pointers] /\ Given[n] \in [Fields -> Pointers]
    BY <1>0 DEF TypeOK
  <2>2. \A i \in 1..3 : self[n][Field[i]] = Given[n][Field[i]]
    BY <1>0 DEF ReadSoFar
  <2>3. \A f \in Fields : self[n][f] = Given[n][f]  BY <2>2
  <2>4. self[n] = Given[n]  BY <2>1, <2>3
  <2> QED  BY <1>0, <2>4 DEF TypeOK, ReadSoFar
<1> QED  BY <1>1, <1>2, <1>3, <1>4, <1>5 DEF SetupInv

LEMMA SendSignalSetup ==
  ASSUME SetupInv, NEW n \in Names, SendSignal(n)
  PROVE  SetupInv'
<1> USE SetupAssumption, FieldFacts, ZeroedType, GivenType
    DEF SendSignal, ActorGoes, mainVars, heapVars, actorVars
<1>0. TypeOK /\ Phases /\ Ownership /\ Contents /\ ReadSoFar  BY DEF SetupInv
<1>1. TypeOK'  BY <1>0 DEF TypeOK, MainPlaces, ActorPlaces
<1>2. Phases'  BY <1>0 DEF TypeOK, Phases
<1>3. Ownership'  BY <1>0 DEF TypeOK, Phases, Ownership
<1>4. Contents'  BY <1>0 DEF TypeOK, Phases, Ownership, Contents
<1>5. ReadSoFar'  BY <1>0 DEF TypeOK, Phases, Ownership, Contents, ReadSoFar
<1> QED  BY <1>1, <1>2, <1>3, <1>4, <1>5 DEF SetupInv

LEMMA RecvVerboseSetup ==
  ASSUME SetupInv, NEW n \in Names, RecvVerbose(n)
  PROVE  SetupInv'
<1> USE SetupAssumption, FieldFacts, ZeroedType, GivenType
    DEF RecvVerbose, mainVars, heapVars, actorVars
<1>0. TypeOK /\ Phases /\ Ownership /\ Contents /\ ReadSoFar  BY DEF SetupInv
<1>1. TypeOK'  BY <1>0 DEF TypeOK, MainPlaces, ActorPlaces
<1>2. Phases'  BY <1>0 DEF TypeOK, Phases
<1>3. Ownership'  BY <1>0 DEF TypeOK, Phases, Ownership
<1>4. Contents'  BY <1>0 DEF TypeOK, Phases, Ownership, Contents
<1>5. ReadSoFar'  BY <1>0 DEF TypeOK, Phases, Ownership, Contents, ReadSoFar
<1> QED  BY <1>1, <1>2, <1>3, <1>4, <1>5 DEF SetupInv

LEMMA NextSetup == SetupInv /\ [Next]_vars => SetupInv'
<1> SUFFICES ASSUME SetupInv, [Next]_vars PROVE SetupInv'  OBVIOUS
<1>1. CASE UNCHANGED vars
  BY <1>1 DEF vars, mainVars, heapVars, actorVars, SetupInv, TypeOK, Phases,
              Ownership, Contents, ReadSoFar
<1>2. CASE MainThread
  <2> PICK n \in Names :
        \/ \E c \in Cells : ArgsNew(n, c)
        \/ ArgsSet(n) \/ NoArgs(n) \/ Spawn(n) \/ Started(n)
        \/ ArgsClear(n) \/ ArgsDestroy(n) \/ SendVerbose(n)
    BY <1>2 DEF MainThread
  <2> QED
    BY ArgsNewSetup, ArgsSetSetup, NoArgsSetup, SpawnSetup, StartedSetup,
       ArgsClearSetup, ArgsDestroySetup, SendVerboseSetup
<1>3. ASSUME NEW n \in Names, ActorThread(n) PROVE SetupInv'
  BY <1>3, StepsNewSetup, GetFieldSetup, GetAssertsSetup, HelloSetup,
     SendSignalSetup, RecvVerboseSetup DEF ActorThread
<1> QED  BY <1>1, <1>2, <1>3 DEF Next, Ready

THEOREM SetupInvariance == Spec => []SetupInv
BY InitSetup, NextSetup, PTL DEF Spec

(***************************************************************************)
(* Every variable keeps its type.                                          *)
(***************************************************************************)
THEOREM SetupTypeCorrectness == Spec => []TypeOK
<1>1. SetupInv => TypeOK  BY DEF SetupInv
<1> QED  BY <1>1, SetupInvariance, PTL

(***************************************************************************)
(* An actor works with the functions its step runner was defined with,     *)
(* whatever memory the macro is given when it is used again.               *)
(***************************************************************************)
THEOREM EachItsOwnFunctions == Spec => []FunctionsAsGiven
<1>1. SetupInv => FunctionsAsGiven  BY DEF SetupInv, ReadSoFar, FunctionsAsGiven
<1> QED  BY <1>1, SetupInvariance, PTL

(***************************************************************************)
(* While an actor may read its arguments they are allocated, to it; none   *)
(* are left when the macro is done.                                        *)
(***************************************************************************)
THEOREM ArgumentsOwned == Spec => []ArgsOwned
<1>1. SetupInv => ArgsOwned
  BY SetupAssumption DEF SetupInv, TypeOK, Phases, Ownership, Contents, ArgsOwned
<1> QED  BY <1>1, SetupInvariance, PTL

(***************************************************************************)
(* An actor greets with its functions read, or never.                      *)
(***************************************************************************)
THEOREM GreetsWhenReady == Spec => []OnlyReadyActorsGreet
<1>1. SetupInv => OnlyReadyActorsGreet
  BY DEF SetupInv, TypeOK, ReadSoFar, OnlyReadyActorsGreet
<1> QED  BY <1>1, SetupInvariance, PTL

-----------------------------------------------------------------------------
(***************************************************************************)
(* The hand-over is the three actions that CucumberSteps has for it.       *)
(***************************************************************************)
Seen == <<MainSeen, ArgsSeen, ActorSeen, RepliesSeen, pipe, verbose, greeted>>

LEMMA StutterSeen ==
  ASSUME UNCHANGED Seen
  PROVE  UNCHANGED <<Coarse!stepsVars, Coarse!transportVars>>
BY DEF Seen, Coarse!stepsVars, Coarse!transportVars

(* A place that CucumberSteps does not tell from the next one.             *)
LEMMA SameMain ==
  ASSUME TypeOK, NEW n \in Names, NEW to \in MainPlaces,
         main' = [main EXCEPT ![n] = to],
         MainAs(to) = MainAs(main[n]), ArgsAs(to) = ArgsAs(main[n])
  PROVE  MainSeen' = MainSeen /\ ArgsSeen' = ArgsSeen
<1>1. \A m \in Names : main'[m] = IF m = n THEN to ELSE main[m]
  BY DEF TypeOK
<1>2. \A m \in Names :
        MainAs(main'[m]) = MainAs(main[m]) /\ ArgsAs(main'[m]) = ArgsAs(main[m])
  BY <1>1
<1> QED
  BY <1>2 DEF MainSeen, ArgsSeen

LEMMA SameActor ==
  ASSUME TypeOK, NEW n \in Names, NEW to \in ActorPlaces,
         actor' = [actor EXCEPT ![n] = to], ActorAs(to) = ActorAs(actor[n])
  PROVE  ActorSeen' = ActorSeen
<1>1. \A m \in Names : actor'[m] = IF m = n THEN to ELSE actor[m]
  BY DEF TypeOK
<1>2. \A m \in Names : ActorAs(actor'[m]) = ActorAs(actor[m])
  BY <1>1
<1> QED
  BY <1>2 DEF ActorSeen

LEMMA MainMoves ==
  ASSUME TypeOK, NEW n \in Names, NEW to \in MainPlaces,
         main' = [main EXCEPT ![n] = to]
  PROVE  /\ MainSeen' = [MainSeen EXCEPT ![n] = MainAs(to)]
         /\ ArgsSeen' = [ArgsSeen EXCEPT ![n] = ArgsAs(to)]
BY DEF TypeOK, MainSeen, ArgsSeen

LEMMA ActorMoves ==
  ASSUME TypeOK, NEW n \in Names, NEW to \in ActorPlaces,
         actor' = [actor EXCEPT ![n] = to]
  PROVE  ActorSeen' = [ActorSeen EXCEPT ![n] = ActorAs(to)]
BY DEF TypeOK, ActorSeen

LEMMA HandoverUnseen ==
  ASSUME SetupInv, NEW n \in Names,
         \/ \E c \in Cells : ArgsNew(n, c)
         \/ ArgsSet(n) \/ NoArgs(n) \/ Started(n) \/ ArgsClear(n) \/ ArgsDestroy(n)
         \/ StepsNew(n) \/ GetField(n) \/ SendSignal(n)
  PROVE  UNCHANGED Seen
<1>0. TypeOK
  BY DEF SetupInv
<1>1. CASE \/ \E c \in Cells : ArgsNew(n, c)
           \/ ArgsSet(n) \/ NoArgs(n) \/ Started(n) \/ ArgsDestroy(n)
  <2>1. PICK to \in MainPlaces :
          /\ main' = [main EXCEPT ![n] = to]
          /\ MainAs(to) = MainAs(main[n]) /\ ArgsAs(to) = ArgsAs(main[n])
    BY <1>1 DEF ArgsNew, ArgsSet, NoArgs, Started, ArgsDestroy, Goes, MainPlaces,
                MainAs, ArgsAs
  <2>2. UNCHANGED <<actor, pipe, verbose, greeted>>
    BY <1>1 DEF ArgsNew, ArgsSet, NoArgs, Started, ArgsDestroy, actorVars
  <2>3. MainSeen' = MainSeen /\ ArgsSeen' = ArgsSeen
    BY <1>0, <2>1, SameMain
  <2> QED
    BY <2>2, <2>3 DEF Seen, ActorSeen, RepliesSeen
<1>2. CASE StepsNew(n) \/ SendSignal(n)
  <2>1. PICK to \in ActorPlaces :
          actor' = [actor EXCEPT ![n] = to] /\ ActorAs(to) = ActorAs(actor[n])
    BY <1>2 DEF StepsNew, SendSignal, ActorGoes, ActorPlaces, ActorAs
  <2>2. UNCHANGED <<main, pipe, verbose, greeted>>
    BY <1>2 DEF StepsNew, SendSignal, mainVars
  <2>3. ActorSeen' = ActorSeen
    BY <1>0, <2>1, SameActor
  <2> QED
    BY <2>2, <2>3 DEF Seen, MainSeen, ArgsSeen, RepliesSeen
<1>3. CASE ArgsClear(n) \/ GetField(n)
  <2>1. UNCHANGED <<main, actor, pipe, verbose, greeted>>
    BY <1>3 DEF ArgsClear, GetField, mainVars, actorVars
  <2> QED
    BY <2>1 DEF Seen, MainSeen, ArgsSeen, ActorSeen, RepliesSeen
<1> QED
  BY <1>1, <1>2, <1>3

LEMMA SpawnSeen ==
  ASSUME SetupInv, NEW n \in Names, Spawn(n)
  PROVE  Coarse!StartActor(n)
<1>0. TypeOK
  BY DEF SetupInv
<1>1. /\ main[n] = "spawn" /\ main' = [main EXCEPT ![n] = "wait"]
      /\ actor' = [actor EXCEPT ![n] = "new"]
      /\ UNCHANGED <<pipe, verbose, greeted>>
  BY DEF Spawn, Goes
<1>2. /\ MainSeen' = [MainSeen EXCEPT ![n] = MainAs("wait")]
      /\ ArgsSeen' = [ArgsSeen EXCEPT ![n] = ArgsAs("wait")]
  BY <1>0, <1>1, MainMoves DEF MainPlaces
<1>3. ActorSeen' = [ActorSeen EXCEPT ![n] = ActorAs("new")]
  BY <1>0, <1>1, ActorMoves DEF ActorPlaces
<1>4. /\ MainSeen[n] = "boot" /\ MainAs("wait") = "spawned"
      /\ ArgsAs("wait") = "live" /\ ActorAs("new") = "init"
  BY <1>1 DEF MainSeen, MainAs, ArgsAs, ActorAs
<1>5. RepliesSeen' = RepliesSeen
  BY <1>1 DEF RepliesSeen
<1> QED
  BY <1>1, <1>2, <1>3, <1>4, <1>5 DEF Coarse!StartActor, Coarse!transportVars

LEMMA VerboseSeen ==
  ASSUME SetupInv, NEW n \in Names, SendVerbose(n)
  PROVE  Coarse!ActorStarted(n)
<1>0. TypeOK
  BY DEF SetupInv
<1>1. /\ main[n] = "send" /\ main' = [main EXCEPT ![n] = "stdin"]
      /\ pipe' = IF Verbosely THEN [pipe EXCEPT ![n] = Append(@, "VERBOSE")] ELSE pipe
      /\ UNCHANGED <<actor, verbose, greeted>>
  BY DEF SendVerbose, Goes, actorVars
<1>2. /\ MainSeen' = [MainSeen EXCEPT ![n] = MainAs("stdin")]
      /\ ArgsSeen' = [ArgsSeen EXCEPT ![n] = ArgsAs("stdin")]
  BY <1>0, <1>1, MainMoves DEF MainPlaces
<1>3. /\ MainSeen[n] = "spawned" /\ MainAs("stdin") = "stdin"
      /\ ArgsAs("stdin") = "freed"
  BY <1>1 DEF MainSeen, MainAs, ArgsAs
<1>4. ActorSeen[n] = "loop"
  <2>1. actor[n] = "loop"
    BY <1>1 DEF SetupInv, Phases
  <2> QED
    BY <2>1 DEF ActorSeen, ActorAs
<1>5. RepliesSeen' = RepliesSeen /\ ActorSeen' = ActorSeen
  BY <1>1 DEF RepliesSeen, ActorSeen
<1> QED
  BY <1>1, <1>2, <1>3, <1>4, <1>5
     DEF Coarse!ActorStarted, Coarse!ActorSignalled, Coarse!transportVars

LEMMA HelloSeen ==
  ASSUME SetupInv, NEW n \in Names, Hello(n)
  PROVE  Coarse!CucumberStepsNew(n)
<1>0. TypeOK
  BY DEF SetupInv
<1>1. /\ actor[n] = "get" /\ actor' = [actor EXCEPT ![n] = "signal"]
      /\ greeted' = greeted \cup {n} /\ n \notin greeted
      /\ UNCHANGED <<main, pipe, verbose>>
  BY DEF Hello, ActorGoes, mainVars, SetupInv, ReadSoFar
<1>2. ActorSeen' = [ActorSeen EXCEPT ![n] = ActorAs("signal")]
  BY <1>0, <1>1, ActorMoves DEF ActorPlaces
<1>3. ActorSeen[n] = "init" /\ ActorAs("signal") = "loop"
  BY <1>1 DEF ActorSeen, ActorAs
<1>4. MainSeen' = MainSeen /\ ArgsSeen' = ArgsSeen
  BY <1>1 DEF MainSeen, ArgsSeen
<1>5. RepliesSeen' = [RepliesSeen EXCEPT ![n] = Append(RepliesSeen[n], Coarse!Greeting)]
  <2>1. RepliesSeen[n] = <<>>
    BY <1>1 DEF RepliesSeen
  <2>2. RepliesSeen'[n] = <<Coarse!Greeting>>
    BY <1>1 DEF RepliesSeen, Coarse!Greeting
  <2>3. Append(RepliesSeen[n], Coarse!Greeting) = <<Coarse!Greeting>>
    BY <2>1
  <2>4. \A m \in Names \ {n} : RepliesSeen'[m] = RepliesSeen[m]
    BY <1>1 DEF RepliesSeen
  <2> QED
    BY <2>2, <2>3, <2>4 DEF RepliesSeen
<1> QED
  BY <1>1, <1>2, <1>3, <1>4, <1>5 DEF Coarse!CucumberStepsNew, Coarse!ConnectAndGreet

LEMMA CommandSeen ==
  ASSUME SetupInv, NEW n \in Names, RecvVerbose(n)
  PROVE  Coarse!RecvVerbose(n)
<1>1. /\ actor[n] = "loop" /\ pipe[n] # <<>>
      /\ pipe' = [pipe EXCEPT ![n] = Tail(@)]
      /\ verbose' = [verbose EXCEPT ![n] = TRUE]
      /\ UNCHANGED <<main, actor, greeted>>
  BY DEF RecvVerbose, mainVars
<1>2. Head(pipe[n]) = "VERBOSE"
  BY <1>1 DEF SetupInv, TypeOK
<1>3. ActorSeen[n] = "loop"
  BY <1>1 DEF ActorSeen, ActorAs
<1>4. UNCHANGED <<MainSeen, ArgsSeen, ActorSeen, RepliesSeen>>
  BY <1>1 DEF MainSeen, ArgsSeen, ActorSeen, RepliesSeen
<1> QED
  BY <1>1, <1>2, <1>3, <1>4
     DEF Coarse!RecvVerbose, Coarse!HasCommand, Coarse!transportVars

HandoverStep == \E n \in Names : Coarse!StepRunner(n) \/ GetAsserts(n)

LEMMA HandoverNext == SetupInv /\ [Next]_vars => HandoverStep \/ UNCHANGED Seen
<1> SUFFICES ASSUME SetupInv, [Next]_vars PROVE HandoverStep \/ UNCHANGED Seen
  OBVIOUS
<1>1. ASSUME NEW n \in Names, Spawn(n) PROVE HandoverStep
  BY <1>1, SpawnSeen, Zenon DEF HandoverStep, Coarse!StepRunner, Coarse!MainThread
<1>2. ASSUME NEW n \in Names, SendVerbose(n) PROVE HandoverStep
  BY <1>2, VerboseSeen, Zenon DEF HandoverStep, Coarse!StepRunner, Coarse!MainThread
<1>3. ASSUME NEW n \in Names, Hello(n) PROVE HandoverStep
  BY <1>3, HelloSeen, Zenon DEF HandoverStep, Coarse!StepRunner, Coarse!ActorThread
<1>4. ASSUME NEW n \in Names, RecvVerbose(n) PROVE HandoverStep
  BY <1>4, CommandSeen, Zenon DEF HandoverStep, Coarse!StepRunner, Coarse!ActorThread,
                                  Coarse!RecvApi
<1>5. ASSUME NEW n \in Names, GetAsserts(n) PROVE HandoverStep
  BY <1>5, Zenon DEF HandoverStep
<1>6. CASE UNCHANGED vars
  BY <1>6 DEF vars, mainVars, actorVars, Seen, MainSeen, ArgsSeen, ActorSeen, RepliesSeen
<1>7. CASE MainThread
  BY <1>1, <1>2, <1>7, HandoverUnseen DEF MainThread
<1>8. ASSUME NEW n \in Names, ActorThread(n) PROVE HandoverStep \/ UNCHANGED Seen
  BY <1>3, <1>4, <1>5, <1>8, HandoverUnseen DEF ActorThread
<1> QED
  BY <1>6, <1>7, <1>8 DEF Next, Ready

(***************************************************************************)
(* Started statement by statement, a step runner is one that CucumberSteps *)
(* starts in three actions, or an assertion stops the program.             *)
(***************************************************************************)
THEOREM HandoverIsThreeActions == Spec => ImplementsHandover
<1>1. Init => Coarse!StepsInit /\ Coarse!TransportInit
  <2> SUFFICES ASSUME Init PROVE Coarse!StepsInit /\ Coarse!TransportInit
    OBVIOUS
  <2>1. /\ main = [n \in Names |-> "boot"] /\ actor = [n \in Names |-> "none"]
        /\ greeted = {} /\ verbose = [n \in Names |-> FALSE]
        /\ pipe = [n \in Names |-> <<>>]
    BY DEF Init
  <2>2. /\ MainAs("boot") = "boot" /\ ArgsAs("boot") = "none"
        /\ ActorAs("none") = "none"
    BY DEF MainAs, ArgsAs, ActorAs
  <2>3. /\ MainSeen = [n \in Names |-> "boot"] /\ ArgsSeen = [n \in Names |-> "none"]
        /\ ActorSeen = [n \in Names |-> "none"] /\ RepliesSeen = [n \in Names |-> <<>>]
    BY <2>1, <2>2 DEF MainSeen, ArgsSeen, ActorSeen, RepliesSeen
  <2> QED
    BY <2>1, <2>3 DEF Coarse!StepsInit, Coarse!TransportInit, Nothing
<1>2. SetupInv /\ [Next]_vars
        => [\E n \in Names : Coarse!StepRunner(n) \/ GetAsserts(n)]_
             <<Coarse!stepsVars, Coarse!transportVars>>
  BY HandoverNext, StutterSeen DEF HandoverStep
<1> QED
  BY <1>1, <1>2, SetupInvariance, PTL DEF Spec, ImplementsHandover
=============================================================================
