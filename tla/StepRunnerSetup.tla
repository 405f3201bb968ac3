-------------------------- MODULE StepRunnerSetup --------------------------
(***************************************************************************)
(* How step runner actors are started, statement by statement: the macro   *)
(* CREATE_STEP_RUNNER_ACTOR, which a main thread may use for several step  *)
(* runners one after the other, cucumber_steps_args.c, and the beginning   *)
(* of the actor's thread.  The two threads share the arguments with no     *)
(* lock; CucumberSteps has the hand-over as three actions.                 *)
(***************************************************************************)
EXTENDS Naturals, Sequences, FiniteSets

CONSTANTS
  Programs,   \* the names of the step runners, in order
  Given,      \* Given[n]: the three functions the macro is used with
  Cells,      \* memory that malloc has for arguments
  Careless,   \* step runners that may be started without the macro, with NULL
  Verbosely,  \* whether the program is started with --verbose
  NULL

Names == {Programs[i] : i \in DOMAIN Programs}

(* struct _cucumber_steps_args_t, in the order its pointers are accessed.  *)
Field == <<"state_constructor", "state_destructor", "register_step_defs">>
Fields == {Field[i] : i \in 1..3}

ASSUME SetupAssumption ==
  /\ \A i, j \in DOMAIN Programs : Programs[i] = Programs[j] => i = j
  /\ Programs \in Seq(Names)
  /\ \A n \in Names : Given[n] = [f \in Fields |-> Given[n][f]]
  /\ NULL \notin Cells
  /\ NULL \notin Names
  /\ Careless \subseteq Names
  /\ Verbosely \in BOOLEAN

VARIABLES
  main,       \* main[n]: where the main thread is in the macro for n
  steps_args, \* steps_args[n]: the cell of the arguments, or NULL
  owner,      \* owner[c]: whom malloc gave the cell to, or NULL when free
  memory,     \* memory[c]: the pointers in the cell, also once it is free
  cleared,    \* cleared[n]: how many of them the destructor has cleared
  actor,      \* actor[n]: where the actor's thread is
  args,       \* args[n]: the cell it was started with, or NULL
  got,        \* got[n]: how many pointers it has read there
  self,       \* self[n]: the pointers in its cucumber_steps_t
  greeted,    \* the actors that have sent HELLO
  signalled,  \* the actors that have sent the signal to their pipe
  pipe,       \* pipe[n]: commands not yet read
  verbose     \* verbose[n]: the actor's flag

mainVars == <<main, steps_args, cleared>>
heapVars == <<owner, memory>>
actorVars == <<actor, args, got, self, greeted, signalled, verbose>>
vars == <<mainVars, heapVars, actorVars, pipe>>

MainPlaces == {"boot", "set", "spawn", "wait", "clear", "send", "stdin", "dead"}
ActorPlaces == {"none", "new", "get", "signal", "loop", "dead"}

Zeroed == [f \in Fields |-> NULL]

Init ==
  /\ main = [n \in Names |-> "boot"]
  /\ steps_args = [n \in Names |-> NULL]
  /\ cleared = [n \in Names |-> 0]
  /\ owner = [c \in Cells |-> NULL]
  /\ memory = [c \in Cells |-> Zeroed]
  /\ actor = [n \in Names |-> "none"]
  /\ args = [n \in Names |-> NULL]
  /\ got = [n \in Names |-> 0]
  /\ self = [n \in Names |-> Zeroed]
  /\ greeted = {}
  /\ signalled = {}
  /\ verbose = [n \in Names |-> FALSE]
  /\ pipe = [n \in Names |-> <<>>]

(***************************************************************************)
(* The main thread.  The macro is used for one name after the other.       *)
(***************************************************************************)
Turn(n) ==
  \E i \in DOMAIN Programs :
    /\ Programs[i] = n
    /\ \A j \in 1..(i - 1) : main[Programs[j]] = "stdin"

Goes(n, from, to) ==
  /\ main[n] = from
  /\ main' = [main EXCEPT ![n] = to]

(* cucumber_steps_args_new: memory from zmalloc. *)
ArgsNew(n, c) ==
  /\ Turn(n)
  /\ owner[c] = NULL
  /\ Goes(n, "boot", "set")
  /\ owner' = [owner EXCEPT ![c] = n]
  /\ memory' = [memory EXCEPT ![c] = Zeroed]
  /\ steps_args' = [steps_args EXCEPT ![n] = c]
  /\ UNCHANGED <<cleared, actorVars, pipe>>

(* Its assignments: no other thread knows the memory. *)
ArgsSet(n) ==
  /\ Goes(n, "set", "spawn")
  /\ memory' = [memory EXCEPT ![steps_args[n]] = Given[n]]
  /\ UNCHANGED <<steps_args, cleared, owner, actorVars, pipe>>

(* An application that follows the header of the actor gives it NULL. *)
NoArgs(n) ==
  /\ n \in Careless
  /\ Turn(n)
  /\ Goes(n, "boot", "spawn")
  /\ UNCHANGED <<steps_args, cleared, heapVars, actorVars, pipe>>

(* zactor_new: starts the thread, *)
Spawn(n) ==
  /\ Goes(n, "spawn", "wait")
  /\ actor' = [actor EXCEPT ![n] = "new"]
  /\ args' = [args EXCEPT ![n] = steps_args[n]]
  /\ UNCHANGED <<steps_args, cleared, heapVars, got, self, greeted, signalled,
                 verbose, pipe>>

(* Slip: zactor_new does not wait. *)
Signalled_Never(n) == TRUE

(* and waits for its signal. *)
Signalled(n) == n \in signalled

Started(n) ==
  /\ Signalled(n)
  /\ Goes(n, "wait", IF steps_args[n] = NULL THEN "send" ELSE "clear")
  /\ UNCHANGED <<steps_args, cleared, heapVars, actorVars, pipe>>

(* cucumber_steps_args_destroy: the pointers are cleared one by one, *)
ArgsClear(n) ==
  /\ main[n] = "clear"
  /\ cleared[n] < 3
  /\ cleared' = [cleared EXCEPT ![n] = @ + 1]
  /\ memory' = [memory EXCEPT ![steps_args[n]][Field[cleared'[n]]] = NULL]
  /\ UNCHANGED <<main, steps_args, owner, actorVars, pipe>>

(* and the memory is freed. *)
ArgsDestroy(n) ==
  /\ cleared[n] = 3
  /\ Goes(n, "clear", "send")
  /\ owner' = [owner EXCEPT ![steps_args[n]] = NULL]
  /\ steps_args' = [steps_args EXCEPT ![n] = NULL]
  /\ UNCHANGED <<cleared, memory, actorVars, pipe>>

(* Slip: it is sent to nobody. *)
SendVerbose_Forgets(n) ==
  /\ Goes(n, "send", "stdin")
  /\ UNCHANGED <<steps_args, cleared, heapVars, actorVars, pipe>>

(* The rest of the macro: --verbose is passed on to the actor. *)
SendVerbose(n) ==
  /\ Goes(n, "send", "stdin")
  /\ pipe' = IF Verbosely THEN [pipe EXCEPT ![n] = Append(@, "VERBOSE")] ELSE pipe
  /\ UNCHANGED <<steps_args, cleared, heapVars, actorVars>>

(***************************************************************************)
(* The actor's thread.                                                     *)
(***************************************************************************)
ActorGoes(n, from, to) ==
  /\ actor[n] = from
  /\ actor' = [actor EXCEPT ![n] = to]

(* Slip: the signal is sent first. *)
StepsNew_Signals(n) ==
  /\ ActorGoes(n, "new", "get")
  /\ signalled' = signalled \cup {n}
  /\ UNCHANGED <<mainVars, heapVars, args, got, self, greeted, verbose, pipe>>

(* cucumber_steps_new: its memory, the poller on the pipe, the socket. *)
StepsNew(n) ==
  /\ ActorGoes(n, "new", "get")
  /\ UNCHANGED <<mainVars, heapVars, args, got, self, greeted, signalled,
                 verbose, pipe>>

(* The three getters of the arguments, *)
GetField(n) ==
  /\ actor[n] = "get"
  /\ got[n] < 3
  /\ args[n] # NULL
  /\ got' = [got EXCEPT ![n] = @ + 1]
  /\ self' = [self EXCEPT ![n][Field[got'[n]]] = memory[args[n]][Field[got'[n]]]]
  /\ UNCHANGED <<mainVars, heapVars, actor, args, greeted, signalled, verbose,
                 pipe>>

(* Slip: there is no assertion. *)
GetAsserts_Never(n) ==
  /\ actor[n] = "get"
  /\ args[n] = NULL
  /\ got' = [got EXCEPT ![n] = 3]
  /\ UNCHANGED <<mainVars, heapVars, actor, args, self, greeted, signalled,
                 verbose, pipe>>

(* and their assertion, which stops the process with all its threads. *)
GetAsserts(n) ==
  /\ actor[n] = "get"
  /\ args[n] = NULL
  /\ main' = [m \in Names |-> "dead"]
  /\ actor' = [m \in Names |-> "dead"]
  /\ UNCHANGED <<steps_args, cleared, heapVars, args, got, self, greeted,
                 signalled, verbose, pipe>>

(* The socket is added to the poller, and HELLO is sent. *)
Hello(n) ==
  /\ got[n] = 3
  /\ ActorGoes(n, "get", "signal")
  /\ greeted' = greeted \cup {n}
  /\ UNCHANGED <<mainVars, heapVars, args, got, self, signalled, verbose, pipe>>

(* cucumber_steps_actor: the signal, then the loop. *)
SendSignal(n) ==
  /\ ActorGoes(n, "signal", "loop")
  /\ signalled' = signalled \cup {n}
  /\ UNCHANGED <<mainVars, heapVars, args, got, self, greeted, verbose, pipe>>

(* cucumber_steps_recv_api *)
RecvVerbose(n) ==
  /\ actor[n] = "loop"
  /\ pipe[n] # <<>>
  /\ pipe' = [pipe EXCEPT ![n] = Tail(@)]
  /\ verbose' = [verbose EXCEPT ![n] = TRUE]
  /\ UNCHANGED <<mainVars, heapVars, actor, args, got, self, greeted, signalled>>

(***************************************************************************)
(* The threads.                                                            *)
(***************************************************************************)
MainThread ==
  \E n \in Names :
    \/ \E c \in Cells : ArgsNew(n, c)
    \/ ArgsSet(n) \/ NoArgs(n) \/ Spawn(n) \/ Started(n)
    \/ ArgsClear(n) \/ ArgsDestroy(n) \/ SendVerbose(n)

ActorThread(n) ==
  \/ StepsNew(n) \/ GetField(n) \/ GetAsserts(n) \/ Hello(n) \/ SendSignal(n)
  \/ RecvVerbose(n)

(* Every step runner waits for requests, or the process was stopped. *)
Ready ==
  /\ \A n \in Names :
       \/ main[n] = "stdin" /\ actor[n] = "loop" /\ pipe[n] = <<>>
       \/ main[n] = "dead"
  /\ UNCHANGED vars

Next == MainThread \/ (\E n \in Names : ActorThread(n)) \/ Ready

Spec == Init /\ [][Next]_vars

-----------------------------------------------------------------------------
Pointers == {Given[n][f] : n \in Names, f \in Fields} \cup {NULL}

TypeOK ==
  /\ main \in [Names -> MainPlaces]
  /\ steps_args \in [Names -> Cells \cup {NULL}]
  /\ cleared \in [Names -> 0..3]
  /\ owner \in [Cells -> Names \cup {NULL}]
  /\ memory \in [Cells -> [Fields -> Pointers]]
  /\ actor \in [Names -> ActorPlaces]
  /\ args \in [Names -> Cells \cup {NULL}]
  /\ got \in [Names -> 0..3]
  /\ self \in [Names -> [Fields -> Pointers]]
  /\ greeted \subseteq Names
  /\ signalled \subseteq Names
  /\ verbose \in [Names -> BOOLEAN]
  /\ pipe \in [Names -> Seq({"VERBOSE"})]

(***************************************************************************)
(* An actor works with the functions its step runner was defined with: not *)
(* with pointers that were cleared while it read them, nor with those of   *)
(* another step runner whose arguments got the same memory.                *)
(***************************************************************************)
FunctionsAsGiven ==
  \A n \in Names : actor[n] \in {"signal", "loop"} => self[n] = Given[n]

(***************************************************************************)
(* While an actor may still read its arguments they are allocated, and to  *)
(* it; once the program waits for ctrl-d none are left.                    *)
(***************************************************************************)
ArgsOwned ==
  /\ \A n \in Names :
       actor[n] \in {"new", "get"} /\ args[n] # NULL => owner[args[n]] = n
  /\ \A c \in Cells : owner[c] # NULL => main[owner[c]] # "stdin"

(***************************************************************************)
(* A step runner that greets is one that can serve: an actor without its   *)
(* arguments is never seen by a feature runner.                            *)
(***************************************************************************)
OnlyReadyActorsGreet ==
  \A n \in greeted : args[n] # NULL /\ self[n] = Given[n]

-----------------------------------------------------------------------------
(***************************************************************************)
(* The three actions that CucumberSteps has for this.  HELLO and what it   *)
(* depends on is one action, that of the actor; all that the main thread   *)
(* does after the signal is another, when VERBOSE is sent.  Arguments that *)
(* are NULL it does not have.                                              *)
(***************************************************************************)
MainAs(place) ==
  CASE place \in {"boot", "set", "spawn"} -> "boot"
    [] place \in {"wait", "clear", "send"} -> "spawned"
    [] OTHER -> place

ArgsAs(place) ==
  CASE place \in {"boot", "set", "spawn"} -> "none"
    [] place = "stdin" -> "freed"
    [] OTHER -> "live"

ActorAs(place) ==
  CASE place \in {"new", "get"} -> "init"
    [] place \in {"signal", "loop"} -> "loop"
    [] OTHER -> place

MainSeen == [n \in Names |-> MainAs(main[n])]
ArgsSeen == [n \in Names |-> ArgsAs(main[n])]
ActorSeen == [n \in Names |-> ActorAs(actor[n])]

RepliesSeen ==
  [n \in Names |->
     IF n \in greeted THEN <<[command |-> "HELLO", id |-> NULL]>> ELSE <<>>]

Nothing == [n \in Names |-> <<>>]

Coarse == INSTANCE CucumberSteps WITH
  Runners <- Names, Ids <- {}, Names <- {}, Texts <- {}, Defs <- Nothing,
  Constructing <- {}, Destructing <- {}, Quitting <- {}, Crashing <- {},
  Verbose <- IF Verbosely THEN Names ELSE {}, AppCommands <- {}, MaxPipe <- 0,
  main <- MainSeen, args <- ArgsSeen, actor <- ActorSeen,
  cucumber <- [n \in Names |-> NULL], built <- [n \in Names |-> 0],
  live <- [n \in Names |-> {}], log <- Nothing,
  requests <- Nothing, peers <- greeted, replies <- RepliesSeen

ImplementsHandover ==
  /\ Coarse!StepsInit /\ Coarse!TransportInit
  /\ [][\E n \in Names : Coarse!StepRunner(n) \/ GetAsserts(n)]_
        <<Coarse!stepsVars, Coarse!transportVars>>
=============================================================================
