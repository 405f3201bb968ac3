------------------------- MODULE CucumberInvariant -------------------------
(***************************************************************************)
(* The inductive invariant of CucumberSystem, whoever the caller of run    *)
(* waits for: what can be on the wire at each point of run, and which step *)
(* runners have a scenario.                                                *)
(***************************************************************************)
EXTENDS CucumberSystem, Functions

(* In a scenario there is a pickle, in a step a text, and a runner that    *)
(* waits for an answer waits for one of the step runner at its cursor.     *)
Positions ==
  /\ pc \in {"start", "step", "run", "end"} \cup Waiting => pickle \in Pickle
  /\ pc \in {"run", "ran"} => steps # <<>>
  /\ pc \in Waiting => cursor # <<>>

(* Each step runner is at most once in the list, and the cursor stays in it.*)
Lists ==
  /\ IsInjective(identities)
  /\ IsInjective(cursor)
  /\ Elements(cursor) \subseteq Elements(identities)
  /\ pc = "list" => identities = <<>>

(* What the runner asks at this point, and what answers it. *)
Asked ==
  CASE pc = "started" -> StartRequest(pickle)
    [] pc = "ran"     -> StepRequest(pickle, Head(steps))
    [] pc = "ended"   -> EndRequest(pickle)

AnswersAsked(reply) ==
  /\ reply.id = PickleId(pickle)
  /\ pc = "started" => reply.command = "SCENARIO STARTED"
  /\ pc = "ran"     => reply.command \in StepAnswers
  /\ pc = "ended"   => reply.command = "SCENARIO ENDED"

IsRequest(frames) ==
  \E name \in Names :
    \/ frames = <<"START SCENARIO", name>>
    \/ \E text \in Texts : frames = <<"RUN STEP", name, text>>
    \/ frames = <<"END SCENARIO", name>>

Quiet(r) ==
  /\ requests[r] = <<>>
  /\ replies[r] \in {<<>>, <<Greeting>>}

(* The step runner that is waited for was sent the request, and has not    *)
(* answered it, or has answered it once; or its process is no more.        *)
Asking(r) ==
  \/ /\ requests[r] \in {<<>>, Asked}
     /\ replies[r] \in {<<>>, <<Greeting>>}
  \/ /\ requests[r] = <<>>
     /\ \E reply \in Reply :
          /\ AnswersAsked(reply)
          /\ replies[r] \in {<<reply>>, <<Greeting, reply>>}

Wire ==
  \A r \in Runners :
    /\ pc = "aborted" => requests[r] = <<>> \/ IsRequest(requests[r])
    /\ pc \in Waiting /\ r = Head(cursor) => Asking(r)
    /\ pc # "aborted" /\ ~(pc \in Waiting /\ r = Head(cursor)) => Quiet(r)

(* Step runners greet once, when they connect, and are collected once.     *)
Greetings ==
  \A r \in Runners :
    /\ main[r] = "boot" => actor[r] = "none"
    /\ r \in peers <=> actor[r] \in {"loop", "terminated"}
    /\ actor[r] \in {"none", "init"} =>
         /\ requests[r] = <<>>
         /\ replies[r] = <<>>
         /\ r \notin Elements(identities)
    /\ r \in Elements(identities) =>
         replies[r] = <<>> \/ Head(replies[r]) # Greeting

Collected == pc \notin {"list", "collect"} => AllAwaited

(* A run that failed an assertion lacks a step runner that has greeted.    *)
StrangersAbort ==
  pc = "aborted" =>
    \E r \in Runners \ Elements(identities) : actor[r] \notin {"none", "init"}

(* The step runners that have a scenario, by where the runner's loops are. *)
Opened(r) ==
  /\ r \in Elements(identities)
  /\ \/ pc \in {"step", "run", "ran"}
     \/ pc = "start" /\ r \notin Elements(cursor)
     \/ pc = "started" /\ (r \in Elements(cursor)
                             => r = Head(cursor) /\ requests[r] = <<>>)
     \/ pc = "end" /\ r \in Elements(cursor)
     \/ pc = "ended" /\ r \in Elements(cursor)
                     /\ (r = Head(cursor) => requests[r] # <<>>)

Scenarios ==
  \A r \in Runners :
    /\ actor[r] = "loop" /\ pc # "aborted" => (cucumber[r] # NULL <=> Opened(r))
    /\ actor[r] \notin {"loop", "terminated"} => cucumber[r] = NULL

(***************************************************************************)
(* The inductive invariant: at any time at most one request or answer is   *)
(* on the wire, that of the step runner at the cursor, beside greetings;   *)
(* and the step runners before the cursor are one request ahead of those   *)
(* behind it.                                                              *)
(***************************************************************************)
IInv ==
  /\ TypeOK
  /\ Positions
  /\ Lists
  /\ Wire
  /\ Greetings
  /\ Scenarios
  /\ Collected
  /\ StrangersAbort
  /\ RequestsUnderstood
  /\ StatesBalanced
=============================================================================
