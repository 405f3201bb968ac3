-------------------------- MODULE CucumberSystem --------------------------
(***************************************************************************)
(* A feature runner and its step runners: every interleaving of the        *)
(* feature runner's thread and of the two threads of each step runner.     *)
(***************************************************************************)
EXTENDS FeatureRunner, CucumberSteps

vars == <<runnerVars, stepsVars, transportVars>>

Init == FeatureRunnerInit /\ StepsInit /\ TransportInit

(* A run that has returned leaves the step runners idle. *)
Finished == pc = "done" /\ UNCHANGED vars

Next ==
  \/ RunnerThread /\ UNCHANGED stepsVars
  \/ \E r \in Runners : StepRunner(r) /\ UNCHANGED runnerVars
  \/ Finished

(***************************************************************************)
(* Threads run: the operating system schedules each thread that is not     *)
(* blocked, and the functions of steps return.  Nothing makes standard     *)
(* input end, the application send a command, or a step crash.             *)
(***************************************************************************)
Fairness ==
  /\ WF_vars(RunnerThread /\ UNCHANGED stepsVars)
  /\ \A r \in Runners :
       /\ WF_vars(MainThread(r) /\ UNCHANGED runnerVars)
       /\ WF_vars(ActorThread(r) /\ UNCHANGED runnerVars)

Spec == Init /\ [][Next]_vars
FairSpec == Spec /\ Fairness

-----------------------------------------------------------------------------
(***************************************************************************)
(* Types.                                                                  *)
(***************************************************************************)
Frames == Commands \cup Names \cup Texts
ReplyCommands == {"HELLO", "SCENARIO STARTED", "SCENARIO ENDED"} \cup StepAnswers
Reply == [command : ReplyCommands, id : Names \cup {NULL}]

Verdicts == {"OK", "FAILURE", "NOT FOUND", "NOTHING"}
Report == [at : Nat, verdict : Verdicts]

RunnerTypeOK ==
  /\ pc \in RunnerStates
  /\ listing \in Seq(Entry)
  /\ feature_files \in Seq(Document)
  /\ error \in Nat
  /\ pickles \in Seq(Pickle)
  /\ pickle \in Pickle \cup {NULL}
  /\ steps \in Seq(Texts)
  /\ identities \in Seq(Runners)
  /\ cursor \in Seq(Runners)
  /\ tally \in [succeeded : Nat, failed : Nat, missing : Nat]
  /\ totals \in [scenarios : Nat, steps : Nat]
  /\ isSuccessful \in BOOLEAN
  /\ report \in Seq(Report)
  /\ script \in Seq([pickle : Ids, frames : Seq(Frames)])

StepsTypeOK ==
  /\ main \in [Runners -> MainStates]
  /\ args \in [Runners -> {"none", "live", "freed"}]
  /\ actor \in [Runners -> ActorStates]
  /\ pipe \in [Runners -> Seq({"VERBOSE", "$TERM"} \cup AppCommands)]
  /\ verbose \in [Runners -> BOOLEAN]
  /\ cucumber \in [Runners -> CucumberType \cup {NULL}]
  /\ built \in [Runners -> Nat]
  /\ live \in [Runners -> SUBSET Nat]
  /\ log \in [Runners -> Seq([frames : Seq(Frames), state : Nat,
                              fails : BOOLEAN, reply : ReplyCommands])]

TransportTypeOK ==
  /\ requests \in [Runners -> Seq(Frames)]
  /\ replies \in [Runners -> Seq(Reply)]
  /\ peers \in SUBSET Runners

(* The type of every variable; that the id of an answer is the name of a   *)
(* scenario depends on the frames that handlers read being those of one    *)
(* request.                                                                *)
TypeOK == RunnerTypeOK /\ StepsTypeOK /\ TransportTypeOK

-----------------------------------------------------------------------------
(***************************************************************************)
(* Safety.                                                                 *)
(***************************************************************************)
Running == pc \notin {"list", "collect", "aborted"}

(* The messages to and from step runner r that were not read yet. *)
InFlight(r) == (IF requests[r] = <<>> THEN 0 ELSE 1) + Len(replies[r])

(***************************************************************************)
(* The feature runner and the step runners work in lockstep.  While run is *)
(* being executed nothing is in flight, save one request or one answer of  *)
(* the step runner the loop on identities is at: zsock_recv, which takes   *)
(* the next message of anyone, takes the answer it waits for.              *)
(***************************************************************************)
Lockstep ==
  Running =>
    \A r \in Runners :
      InFlight(r) <= IF pc \in Waiting /\ r = Head(cursor) THEN 1 ELSE 0

(***************************************************************************)
(* None of the assertions of cucumber_feature_runner_run on the command    *)
(* and on the id of an answer fails.                                       *)
(***************************************************************************)
AssertionsHold == pc # "aborted"

(***************************************************************************)
(* Every request meets the step runner in the state its handler needs: the *)
(* frame read as the command is one (so the frames of earlier requests     *)
(* were all read, and cucumber_steps_recv_pickle ignores none), a scenario *)
(* starts where none is left over, and a step is run or a scenario ended   *)
(* where there is one (the assertion of cucumber_find_step_def).           *)
(***************************************************************************)
RequestsUnderstood ==
  \A r \in Runners :
    actor[r] = "loop" /\ requests[r] # <<>> =>
      /\ Head(requests[r]) \in Commands
      /\ Head(requests[r]) = "START SCENARIO" <=> cucumber[r] = NULL

(***************************************************************************)
(* A user's state object lives exactly as long as its scenario: those that *)
(* were constructed and not destroyed are the one of the scenario being    *)
(* run, through ends of scenarios, ctrl-d in the middle of one, and the    *)
(* end of the process.                                                     *)
(***************************************************************************)
StatesBalanced ==
  \A r \in Constructing \cap Destructing :
    live[r] = IF cucumber[r] = NULL THEN {} ELSE {cucumber[r].state}

(***************************************************************************)
(* Scenarios are isolated: one starts on a state object no earlier one was *)
(* run on, and all its steps are run on that object.                       *)
(***************************************************************************)
ScenariosIsolated ==
  \A r \in Constructing : \A k \in DOMAIN log[r] :
    CASE log[r][k].frames[1] = "START SCENARIO" ->
           \A i \in 1..(k - 1) : log[r][i].state # log[r][k].state
      [] log[r][k].frames[1] = "RUN STEP" ->
           k > 1 /\ log[r][k].state = log[r][k - 1].state
      [] OTHER -> TRUE

(***************************************************************************)
(* Every connected step runner handles the whole feature, in its order and *)
(* each request once: what it has handled is what the feature asks for so  *)
(* far, save the last request while it is being sent around.               *)
(***************************************************************************)
FollowsScript ==
  Running =>
    \A r \in peers :
      /\ Len(log[r]) <= Len(script)
      /\ Len(script) - Len(log[r]) <= IF pc \in {"start", "run", "end"} \cup Waiting
                                      THEN 1 ELSE 0
      /\ \A k \in DOMAIN log[r] : log[r][k].frames = script[k].frames

(* What the step runners of the run answered to the step of a verdict. *)
Answers(k) == {log[r][report[k].at].reply : r \in Elements(identities)}

(***************************************************************************)
(* What is printed for a step is what the step runners answered to it: OK  *)
(* when one succeeded, FAILURE when one failed and none succeeded, NOT     *)
(* FOUND when none has a definition for it.  Each step is given one        *)
(* verdict, in the order of the feature, before anything else is asked.    *)
(***************************************************************************)
VerdictsAgree ==
  /\ \A k \in DOMAIN report :
       /\ script[report[k].at].frames[1] = "RUN STEP"
       /\ report[k].verdict = "OK" <=> "STEP SUCCEEDED" \in Answers(k)
       /\ report[k].verdict = "FAILURE" <=>
            "STEP FAILED" \in Answers(k) /\ "STEP SUCCEEDED" \notin Answers(k)
       /\ report[k].verdict = "NOT FOUND" <=> Answers(k) \subseteq {"STEP NOT FOUND"}
  /\ \A j, k \in DOMAIN report : j < k => report[j].at < report[k].at
  /\ \A p \in 1..(Len(script) - 1) : script[p].frames[1] = "RUN STEP" =>
       \E k \in DOMAIN report : report[k].at = p

(***************************************************************************)
(* run returns true exactly when each step that failed at some step runner *)
(* succeeded at another, whatever came after the failure.                  *)
(***************************************************************************)
ResultAgrees ==
  pc = "done" =>
    (isSuccessful <=>
       \A k \in DOMAIN report :
         "STEP FAILED" \in Answers(k) => "STEP SUCCEEDED" \in Answers(k))

(* The step definition that the k-th of the requests of r ran, 0 for none. *)
RunBy(r, k) == CucumberFindStepDef(CucumberNew(0, Defs[r]), log[r][k].frames[3])

(***************************************************************************)
(* A step is answered STEP FAILED exactly when the step definition it runs *)
(* failed in this scenario, now or at an earlier step: a failure is never  *)
(* lost, never outlives its scenario, and is never that of another step    *)
(* definition.                                                             *)
(***************************************************************************)
FailuresStayInScenario ==
  \A r \in Runners : \A k \in DOMAIN log[r] :
    log[r][k].frames[1] = "RUN STEP" =>
      (log[r][k].reply = "STEP FAILED" <=>
         \E i \in 1..k :
           /\ log[r][i].fails
           /\ RunBy(r, i) = RunBy(r, k)
           /\ \A j \in i..k : log[r][j].frames[1] = "RUN STEP")

(***************************************************************************)
(* A step whose function met no failing assertion is not answered STEP     *)
(* FAILED ("the reason of the failure, or NULL if ran did succeed").       *)
(***************************************************************************)
FailureIsOfThisRun ==
  \A r \in Runners : \A k \in DOMAIN log[r] :
    log[r][k].reply = "STEP FAILED" => log[r][k].fails

(***************************************************************************)
(* The arguments of an actor are read before they are destroyed: zactor_new*)
(* returns to the thread that destroys them after the actor's signal.      *)
(***************************************************************************)
ArgsOutliveSetup ==
  \A r \in Runners : actor[r] = "init" => args[r] = "live"

(***************************************************************************)
(* An assertion of run fails only on the HELLO of a step runner that the   *)
(* caller did not collect: that is the message that was read.              *)
(***************************************************************************)
OnlyGreetingsAbort ==
  [][pc # "aborted" /\ pc' = "aborted" =>
       \E r \in Runners \ Elements(identities) :
         Receive(r) /\ Head(replies[r]) = Greeting]_vars

-----------------------------------------------------------------------------
(***************************************************************************)
(* Liveness.                                                               *)
(***************************************************************************)

(* cucumber_feature_runner_run returns. *)
RunReturns == <>(pc = "done")

Lost(r) == actor[r] \in {"terminated", "gone", "dead"}

(* The runner waits, with no time-out, for a step runner that is no more. *)
BlockedOnLost ==
  \/ pc = "collect" /\ \E r \in Awaited \ Elements(identities) : Lost(r)
  \/ pc \in Waiting /\ Lost(Head(cursor))

(***************************************************************************)
(* When step runners leave or die at any moment, run still returns unless  *)
(* it ends up blocked on one of them for good: nothing else holds it up.   *)
(***************************************************************************)
ReturnsUnlessLost == <>[](pc = "done" \/ BlockedOnLost)

(***************************************************************************)
(* ctrl-d ends a step runner, wherever the feature runner is and whether   *)
(* or not it is still there.                                               *)
(***************************************************************************)
QuitEnds ==
  \A r \in Runners : main[r] = "term" ~> main[r] \in {"exited", "dead"}
=============================================================================
