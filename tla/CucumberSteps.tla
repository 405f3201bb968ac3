--------------------------- MODULE CucumberSteps ---------------------------
(***************************************************************************)
(* The step runner processes: the main thread that the STEP_RUNNER macro   *)
(* of cucumber_c.h expands to, and the actor thread of cucumber_steps.c    *)
(* that serves the feature runner.  The two threads of a process share the *)
(* arguments of the actor and the pipe of its zactor.                      *)
(*                                                                         *)
(* One action is one call of a handler: a handler reads from the socket or *)
(* the pipe first, then works on state only its thread sees, and answers   *)
(* last.                                                                   *)
(***************************************************************************)
EXTENDS Transport, Cucumber

CONSTANTS
  Defs,           \* Defs[r]: what the step definitions of r match, in order
  Constructing,   \* step runners given a state constructor
  Destructing,    \* step runners given a state destructor
  Verbose,        \* step runners started with --verbose
  Quitting,       \* step runners whose standard input may end
  Crashing,       \* step runners with a step that may kill the process
  AppCommands,    \* what an application may send to its actor by itself
  MaxPipe         \* bound: commands waiting when the application sends one

ASSUME StepsAssumption ==
  /\ Defs \in [Runners -> Seq(SUBSET Texts)]
  /\ Constructing \cup Destructing \subseteq Runners
  /\ NULL \notin CucumberType
  /\ MaxPipe \in Nat

VARIABLES
  main,        \* main[r]: where the main thread is
  args,        \* args[r]: the cucumber_steps_args_t object
  actor,       \* actor[r]: where the actor thread is
  pipe,        \* pipe[r]: commands the actor has not read
  verbose,     \* verbose[r]: the actor's verbose flag
  cucumber,    \* cucumber[r]: the scenario being run, or NULL
  built,       \* built[r]: how many state objects were constructed
  live,        \* live[r]: those of them that were not destroyed
  log          \* log[r]: history of the requests handled

stepsVars == <<main, args, actor, pipe, verbose, cucumber, built, live, log>>

MainStates == {"boot", "spawned", "stdin", "term", "join", "exited", "dead"}
ActorStates == {"none", "init", "loop", "terminated", "gone", "dead"}

StepsInit ==
  /\ main = [r \in Runners |-> "boot"]
  /\ args = [r \in Runners |-> "none"]
  /\ actor = [r \in Runners |-> "none"]
  /\ pipe = [r \in Runners |-> <<>>]
  /\ verbose = [r \in Runners |-> FALSE]
  /\ cucumber = [r \in Runners |-> NULL]
  /\ built = [r \in Runners |-> 0]
  /\ live = [r \in Runners |-> {}]
  /\ log = [r \in Runners |-> <<>>]

Greeting == [command |-> "HELLO", id |-> NULL]

(***************************************************************************)
(* An assertion fails or the process is killed: both threads stop, and     *)
(* with the process goes its memory.                                       *)
(***************************************************************************)
Die(r) ==
  /\ main' = [main EXCEPT ![r] = "dead"]
  /\ actor' = [actor EXCEPT ![r] = "dead"]
  /\ pipe' = [pipe EXCEPT ![r] = <<>>]
  /\ cucumber' = [cucumber EXCEPT ![r] = NULL]
  /\ live' = [live EXCEPT ![r] = {}]
  /\ Disconnect(r)
  /\ UNCHANGED <<args, verbose, built, log>>

(***************************************************************************)
(* The main thread.                                                        *)
(***************************************************************************)

(* CREATE_STEP_RUNNER_ACTOR: make the arguments, start the actor thread. *)
StartActor(r) ==
  /\ main[r] = "boot"
  /\ main' = [main EXCEPT ![r] = "spawned"]
  /\ args' = [args EXCEPT ![r] = "live"]
  /\ actor' = [actor EXCEPT ![r] = "init"]
  /\ UNCHANGED <<pipe, verbose, cucumber, built, live, log, transportVars>>

(* zactor_new returns when the actor has signalled that it is set up. *)
ActorSignalled(r) == actor[r] # "init"

(* The rest of CREATE_STEP_RUNNER_ACTOR. *)
ActorStarted(r) ==
  /\ main[r] = "spawned"
  /\ ActorSignalled(r)
  /\ main' = [main EXCEPT ![r] = "stdin"]
  /\ args' = [args EXCEPT ![r] = "freed"]
  /\ pipe' = IF r \in Verbose THEN [pipe EXCEPT ![r] = Append(@, "VERBOSE")]
                              ELSE pipe
  /\ UNCHANGED <<actor, verbose, cucumber, built, live, log, transportVars>>

(* An application that has its own main sends a command to the actor. *)
AppSends(r) ==
  /\ main[r] = "stdin"
  /\ Len(pipe[r]) < MaxPipe
  /\ \E command \in AppCommands :
       pipe' = [pipe EXCEPT ![r] = Append(@, command)]
  /\ UNCHANGED <<main, args, actor, verbose, cucumber, built, live, log,
                 transportVars>>

(* ctrl-d ends the loop on standard input; the actor is told to stop. *)
EndOfInput(r) ==
  /\ r \in Quitting
  /\ main[r] = "stdin"
  /\ main' = [main EXCEPT ![r] = "term"]
  /\ pipe' = [pipe EXCEPT ![r] = Append(@, "$TERM")]
  /\ UNCHANGED <<args, actor, verbose, cucumber, built, live, log,
                 transportVars>>

(* zactor_destroy sends its own $TERM, when there is still an actor. *)
DestroyActor(r) ==
  /\ main[r] = "term"
  /\ main' = [main EXCEPT ![r] = "join"]
  /\ pipe' = IF actor[r] = "gone" THEN pipe
                                  ELSE [pipe EXCEPT ![r] = Append(@, "$TERM")]
  /\ UNCHANGED <<args, actor, verbose, cucumber, built, live, log,
                 transportVars>>

(* zactor_destroy returns when the actor has returned. *)
Exit(r) ==
  /\ main[r] = "join"
  /\ actor[r] = "gone"
  /\ main' = [main EXCEPT ![r] = "exited"]
  /\ UNCHANGED <<args, actor, pipe, verbose, cucumber, built, live, log,
                 transportVars>>

(***************************************************************************)
(* The actor thread.                                                       *)
(***************************************************************************)

(* cucumber_steps_new, then the signal that zactor_new waits for. *)
CucumberStepsNew(r) ==
  /\ actor[r] = "init"
  /\ actor' = [actor EXCEPT ![r] = "loop"]
  /\ ConnectAndGreet(r, Greeting)
  /\ UNCHANGED <<main, args, pipe, verbose, cucumber, built, live, log>>

(* Slip: commands are looked at between scenarios only. *)
HasCommand_BetweenScenarios(r) ==
  actor[r] = "loop" /\ pipe[r] # <<>> /\ cucumber[r] = NULL

(* cucumber_steps_recv_api: one command of the pipe. *)
HasCommand(r) == actor[r] = "loop" /\ pipe[r] # <<>>

RecvVerbose(r) ==
  /\ HasCommand(r)
  /\ Head(pipe[r]) = "VERBOSE"
  /\ pipe' = [pipe EXCEPT ![r] = Tail(@)]
  /\ verbose' = [verbose EXCEPT ![r] = TRUE]
  /\ UNCHANGED <<main, args, actor, cucumber, built, live, log, transportVars>>

RecvTerm(r) ==
  /\ HasCommand(r)
  /\ Head(pipe[r]) = "$TERM"
  /\ pipe' = [pipe EXCEPT ![r] = Tail(@)]
  /\ actor' = [actor EXCEPT ![r] = "terminated"]
  /\ UNCHANGED <<main, args, verbose, cucumber, built, live, log,
                 transportVars>>

(* Any other command is refused by an assertion. *)
RecvInvalid(r) ==
  /\ HasCommand(r)
  /\ Head(pipe[r]) \notin {"VERBOSE", "$TERM"}
  /\ Die(r)

(* Slip: the state is forgotten and not destroyed. *)
CucumberDestroy_Forgets(r) ==
  /\ cucumber' = [cucumber EXCEPT ![r] = NULL]
  /\ UNCHANGED live

(* cucumber_destroy: the state goes through its destructor, when it has one. *)
CucumberDestroy(r) ==
  /\ cucumber' = [cucumber EXCEPT ![r] = NULL]
  /\ live' = IF cucumber[r] # NULL /\ r \in Destructing
             THEN [live EXCEPT ![r] = @ \ {cucumber[r].state}]
             ELSE live

(* Slip: the scenario under way is not destroyed with the actor. *)
CucumberStepsDestroy_KeepsScenario(r) ==
  /\ actor[r] = "terminated"
  /\ actor' = [actor EXCEPT ![r] = "gone"]
  /\ Disconnect(r)
  /\ cucumber' = [cucumber EXCEPT ![r] = NULL]
  /\ UNCHANGED <<main, args, pipe, verbose, built, live, log>>

(* The end of cucumber_steps_actor, and cucumber_steps_destroy. *)
CucumberStepsDestroy(r) ==
  /\ actor[r] = "terminated"
  /\ actor' = [actor EXCEPT ![r] = "gone"]
  /\ Disconnect(r)
  /\ CucumberDestroy(r)
  /\ UNCHANGED <<main, args, pipe, verbose, built, log>>

(***************************************************************************)
(* cucumber_steps_recv_pickle: one request of the feature runner.  The     *)
(* first frame is the command, the second the scenario's id.               *)
(***************************************************************************)
Commands == {"START SCENARIO", "RUN STEP", "END SCENARIO"}

(* How many frames the handler of a command reads. *)
FramesRead(command) == IF command = "RUN STEP" THEN 3 ELSE 2

(* zstr_recv waits for a frame that is not there: a request is handled when *)
(* all that its handler reads has come.                                     *)
HasRequest(r, command) ==
  /\ actor[r] = "loop"
  /\ requests[r] # <<>>
  /\ Head(requests[r]) = command
  /\ Len(requests[r]) >= FramesRead(command)

(* History: what was asked, on which state, what the step's function did *)
(* (fails is FALSE when none ran), and the answer.                       *)
Handled(r, n, state, fails, command) ==
  log' = [log EXCEPT ![r] = Append(@,
            [frames |-> SubSeq(requests[r], 1, n), state |-> state,
             fails |-> fails, reply |-> command])]

(* Slip: the state object is constructed once. *)
StateConstructor_Once(r) == IF r \in Constructing THEN 1 ELSE 0

(* The state object a scenario starts with: the next one constructed. *)
StateConstructor(r) == IF r \in Constructing THEN built[r] + 1 ELSE 0

(* Slip: a scenario that is still open is ended first. *)
StartScenario_EndsOpen(r) ==
  /\ HasRequest(r, "START SCENARIO")
  /\ IF cucumber[r] # NULL
     THEN /\ CucumberDestroy(r)
          /\ Handled(r, 2, 0, FALSE, "SCENARIO ENDED")
          /\ UNCHANGED <<main, args, actor, pipe, verbose, built, transportVars>>
     ELSE /\ cucumber' = [cucumber EXCEPT ![r] =
                             CucumberNew(StateConstructor(r), Defs[r])]
          /\ built' = [built EXCEPT ![r] = StateConstructor(r)]
          /\ live' = [live EXCEPT ![r] = @ \cup ({StateConstructor(r)} \ {0})]
          /\ Handled(r, 2, StateConstructor(r), FALSE, "SCENARIO STARTED")
          /\ ReadAndAnswer(r, 2, [command |-> "SCENARIO STARTED",
                                  id |-> requests[r][2]])
          /\ UNCHANGED <<main, args, actor, pipe, verbose>>

StartScenario(r) ==
  /\ HasRequest(r, "START SCENARIO")
  /\ LET state == StateConstructor(r)
     IN  /\ cucumber' = [cucumber EXCEPT ![r] = CucumberNew(state, Defs[r])]
         /\ built' = [built EXCEPT ![r] = IF state = 0 THEN @ ELSE state]
         /\ live' = [live EXCEPT ![r] = @ \cup ({state} \ {0})]
         /\ Handled(r, 2, state, FALSE, "SCENARIO STARTED")
  /\ ReadAndAnswer(r, 2, [command |-> "SCENARIO STARTED", id |-> requests[r][2]])
  /\ UNCHANGED <<main, args, actor, pipe, verbose>>

(* Slip: the scenario is not destroyed. *)
EndScenario_KeepsScenario(r) ==
  /\ HasRequest(r, "END SCENARIO")
  /\ Handled(r, 2, 0, FALSE, "SCENARIO ENDED")
  /\ ReadAndAnswer(r, 2, [command |-> "SCENARIO ENDED", id |-> requests[r][2]])
  /\ UNCHANGED <<main, args, actor, pipe, verbose, cucumber, built, live>>

EndScenario(r) ==
  /\ HasRequest(r, "END SCENARIO")
  /\ CucumberDestroy(r)
  /\ Handled(r, 2, 0, FALSE, "SCENARIO ENDED")
  /\ ReadAndAnswer(r, 2, [command |-> "SCENARIO ENDED", id |-> requests[r][2]])
  /\ UNCHANGED <<main, args, actor, pipe, verbose, built>>

(***************************************************************************)
(* A step is run against the scenario that was started.                    *)
(***************************************************************************)
StepRequested(r) == HasRequest(r, "RUN STEP") /\ cucumber[r] # NULL

StepDefFor(r) == CucumberFindStepDef(cucumber[r], requests[r][3])

(* A step definition matches: it is run, and its failed_str looked at. *)
RunStep(r) ==
  /\ StepRequested(r)
  /\ StepDefFor(r) # 0
  /\ \E fails \in BOOLEAN :
       LET ran == CucumberStepDefRun(cucumber[r], StepDefFor(r), fails)
           command == IF CucumberStepDefFailed(ran, StepDefFor(r))
                      THEN "STEP FAILED" ELSE "STEP SUCCEEDED"
       IN  /\ cucumber' = [cucumber EXCEPT ![r] = ran]
           /\ Handled(r, 3, cucumber[r].state, fails, command)
           /\ ReadAndAnswer(r, 3, [command |-> command, id |-> requests[r][2]])
  /\ UNCHANGED <<main, args, actor, pipe, verbose, built, live>>

(* Slip: only a step that was run is answered. *)
StepNotFound_Silent(r) ==
  /\ StepRequested(r)
  /\ StepDefFor(r) = 0
  /\ Handled(r, 3, cucumber[r].state, FALSE, "STEP NOT FOUND")
  /\ requests' = [requests EXCEPT ![r] = SubSeq(@, 4, Len(@))]
  /\ UNCHANGED <<main, args, actor, pipe, verbose, cucumber, built, live,
                 replies, peers>>

(* No step definition matches. *)
StepNotFound(r) ==
  /\ StepRequested(r)
  /\ StepDefFor(r) = 0
  /\ Handled(r, 3, cucumber[r].state, FALSE, "STEP NOT FOUND")
  /\ ReadAndAnswer(r, 3, [command |-> "STEP NOT FOUND", id |-> requests[r][2]])
  /\ UNCHANGED <<main, args, actor, pipe, verbose, cucumber, built, live>>

(* The user's function ends the process: a plain assert, a signal. *)
StepCrashes(r) ==
  /\ r \in Crashing
  /\ StepRequested(r)
  /\ StepDefFor(r) # 0
  /\ Die(r)

(* Slip: a step that no definition matches fails an assertion too. *)
StepUnscoped_OrUnknown(r) ==
  /\ HasRequest(r, "RUN STEP")
  /\ (cucumber[r] # NULL => StepDefFor(r) = 0)
  /\ Die(r)

(* A step without a scenario: the assertion of cucumber_find_step_def. *)
StepUnscoped(r) ==
  /\ HasRequest(r, "RUN STEP")
  /\ cucumber[r] = NULL
  /\ Die(r)

(* Slip: all that is waiting is dropped with it. *)
IgnoreFrame_Flushes(r) ==
  /\ actor[r] = "loop"
  /\ requests[r] # <<>>
  /\ Head(requests[r]) \notin Commands
  /\ requests' = [requests EXCEPT ![r] = <<>>]
  /\ UNCHANGED <<replies, peers, stepsVars>>

(* A frame that is no command is read and ignored; what follows it in its  *)
(* message is read as the next command.                                    *)
IgnoreFrame(r) ==
  /\ actor[r] = "loop"
  /\ requests[r] # <<>>
  /\ Head(requests[r]) \notin Commands
  /\ requests' = [requests EXCEPT ![r] = Tail(@)]
  /\ UNCHANGED <<replies, peers, stepsVars>>

(***************************************************************************)
(* The two threads.                                                        *)
(***************************************************************************)
MainThread(r) ==
  \/ StartActor(r) \/ ActorStarted(r) \/ DestroyActor(r) \/ Exit(r)

MainInput(r) == AppSends(r) \/ EndOfInput(r)

RecvApi(r) == RecvVerbose(r) \/ RecvTerm(r) \/ RecvInvalid(r)

RecvPickle(r) ==
  \/ StartScenario(r) \/ EndScenario(r)
  \/ RunStep(r) \/ StepNotFound(r) \/ StepCrashes(r)
  \/ StepUnscoped(r) \/ IgnoreFrame(r)

ActorThread(r) ==
  CucumberStepsNew(r) \/ RecvApi(r) \/ RecvPickle(r) \/ CucumberStepsDestroy(r)

StepRunner(r) == MainThread(r) \/ MainInput(r) \/ ActorThread(r)
=============================================================================
