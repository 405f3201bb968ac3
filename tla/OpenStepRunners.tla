-------------------------- MODULE OpenStepRunners --------------------------
(***************************************************************************)
(* Step runners on their own, in front of a client that is not the feature *)
(* runner of this repository: it may have several requests under way,      *)
(* start a scenario inside another, run a step outside of one, and send    *)
(* any other message: a part of a request, a request with frames too many, *)
(* a message that is none.                                                 *)
(*                                                                         *)
(* A handler reads frame by frame, whatever message they come in.  It can  *)
(* take the frames of the next message for those its request lacks, and    *)
(* waits for them when there is no next message.                           *)
(***************************************************************************)
EXTENDS CucumberSteps

CONSTANTS
  OtherFrames,     \* frames that are no command, no name and no text
  OtherMessages,   \* what the client may send that is no request
  MaxSent          \* bound: messages to one step runner

Frame == Commands \cup Names \cup Texts \cup OtherFrames

ASSUME OpenAssumption == OtherMessages \subseteq Seq(Frame)

VARIABLES
  reading,  \* reading[r]: the handler of r waits for a frame of its request
  sent,     \* sent[r]: how many messages were sent to r
  tidy,     \* history: tidy[r]: of these, none but requests had a command in it
  asked     \* history: asked[r]: the requests sent while this was so

clientVars == <<sent, tidy, asked>>
openVars == <<reading, clientVars, stepsVars, transportVars>>

ScenarioRequests(command) == {<<command, n>> : n \in Names}
StepRequests(command) == {<<command, n, t>> : n \in Names, t \in Texts}

RequestMessages ==
  ScenarioRequests("START SCENARIO") \cup ScenarioRequests("END SCENARIO")
    \cup StepRequests("RUN STEP")

OpenInit ==
  /\ StepsInit
  /\ TransportInit
  /\ reading = [r \in Runners |-> FALSE]
  /\ sent = [r \in Runners |-> 0]
  /\ tidy = [r \in Runners |-> TRUE]
  /\ asked = [r \in Runners |-> <<>>]

(***************************************************************************)
(* The actor thread.  While its handler waits in zstr_recv, the pipe is    *)
(* not looked at.                                                          *)
(***************************************************************************)

(* A command was read, and a frame that its handler asks for is not there. *)
AwaitFrame(r) ==
  /\ actor[r] = "loop"
  /\ ~reading[r]
  /\ \E command \in Commands :
       /\ requests[r] # <<>>
       /\ Head(requests[r]) = command
       /\ Len(requests[r]) < FramesRead(command)
  /\ reading' = [reading EXCEPT ![r] = TRUE]
  /\ UNCHANGED <<stepsVars, transportVars>>

OpenActor(r) ==
  \/ (CucumberStepsNew(r) \/ CucumberStepsDestroy(r)) /\ UNCHANGED reading
  \/ ~reading[r] /\ RecvApi(r) /\ UNCHANGED reading
  \/ RecvPickle(r) /\ reading' = [reading EXCEPT ![r] = FALSE]
  \/ AwaitFrame(r)

(***************************************************************************)
(* The client.                                                             *)
(***************************************************************************)
ClientSends(r, frames) ==
  /\ r \in peers
  /\ sent[r] < MaxSent
  /\ sent' = [sent EXCEPT ![r] = @ + 1]
  /\ Send(r, frames)
  /\ UNCHANGED <<reading, stepsVars>>

SendRequest(r) ==
  \E frames \in RequestMessages :
    /\ ClientSends(r, frames)
    /\ asked' = IF tidy[r] THEN [asked EXCEPT ![r] = Append(@, frames)] ELSE asked
    /\ UNCHANGED tidy

HoldsCommand(frames) == \E i \in DOMAIN frames : frames[i] \in Commands

SendOther(r) ==
  \E frames \in OtherMessages :
    /\ ClientSends(r, frames)
    /\ tidy' = [tidy EXCEPT ![r] = @ /\ ~HoldsCommand(frames)]
    /\ UNCHANGED asked

CollectReply(r) == Receive(r) /\ UNCHANGED <<reading, clientVars, stepsVars>>

OpenNext ==
  \E r \in Runners :
    \/ (MainThread(r) \/ MainInput(r)) /\ UNCHANGED <<reading, clientVars>>
    \/ OpenActor(r) /\ UNCHANGED clientVars
    \/ SendRequest(r) \/ SendOther(r)
    \/ CollectReply(r)

OpenSpec ==
  /\ OpenInit
  /\ [][OpenNext]_openVars
  /\ \A r \in Runners :
       /\ WF_openVars(OpenActor(r) /\ UNCHANGED clientVars)
       /\ WF_openVars(MainThread(r) /\ UNCHANGED <<reading, clientVars>>)

-----------------------------------------------------------------------------
(***************************************************************************)
(* A step runner handles the requests one by one in the order they were    *)
(* sent, each with its own frames, whatever messages without a command are *)
(* between them and however many are waiting.  Only a message that has a   *)
(* command in it and is no request can make it handle anything else, and   *)
(* not before it has handled the requests sent before that message.        *)
(***************************************************************************)
HandledInOrder ==
  \A r \in Runners :
    /\ tidy[r] => Len(log[r]) <= Len(asked[r])
    /\ \A k \in DOMAIN log[r] \cap DOMAIN asked[r] : log[r][k].frames = asked[r][k]

(* What the k-th of the handled requests l was. *)
Starts(l, k) == l[k].frames[1] = "START SCENARIO"
Steps(l, k) == l[k].frames[1] = "RUN STEP"
Ends(l, k) == l[k].frames[1] = "END SCENARIO"

StepsBetween(l, i, j) == \A k \in (i + 1)..(j - 1) : Steps(l, k)

(* The scenario started at i is open at the end of l, was ended, or had *)
(* another one started in it.                                           *)
Open(l, i) == StepsBetween(l, i, Len(l) + 1)
Ended(l, i) == \E j \in (i + 1)..Len(l) : Ends(l, j) /\ StepsBetween(l, i, j)
Overwritten(l, i) == \E j \in (i + 1)..Len(l) : Starts(l, j) /\ StepsBetween(l, i, j)

InScenario(l) == \E i \in DOMAIN l : Starts(l, i) /\ Open(l, i)

(***************************************************************************)
(* A step runner dies exactly of a step requested outside of a scenario:   *)
(* whatever it is sent, it runs every step inside one, and a dead one had  *)
(* ended its last scenario, or had started none.  It was asked for the     *)
(* step, unless it misread a message that is no request.                   *)
(***************************************************************************)
DiesOfUnscopedStep ==
  \A r \in Runners :
    actor[r] = "dead" =>
      /\ ~InScenario(log[r])
      /\ IF Len(log[r]) < Len(asked[r])
         THEN asked[r][Len(log[r]) + 1][1] = "RUN STEP"
         ELSE ~tidy[r]

(* The states that the scenarios started in l were left with, after l and *)
(* after the end of the actor.                                            *)
StatesLeft(l) == {l[i].state : i \in {k \in DOMAIN l : Starts(l, k) /\ ~Ended(l, k)}}
StatesLost(l) == {l[i].state : i \in {k \in DOMAIN l : Starts(l, k) /\ Overwritten(l, k)}}

(***************************************************************************)
(* A state object is destroyed by the request that ends its scenario or by *)
(* the end of the actor, and by nothing else; one whose scenario is        *)
(* followed by another START SCENARIO is never destroyed.  This holds of   *)
(* whatever the step runner made out of the frames it was sent.            *)
(***************************************************************************)
StatesAccounted ==
  \A r \in Constructing \cap Destructing :
    actor[r] \in {"loop", "terminated", "gone"} =>
      live[r] = IF actor[r] = "gone" THEN StatesLost(log[r]) ELSE StatesLeft(log[r])

(***************************************************************************)
(* Every request is handled, or the step runner is stopped first, when the *)
(* messages sent before it are requests or have no command in them: no     *)
(* such message keeps the step runner from the requests behind it, and     *)
(* what is sent afterwards does not either.                                *)
(***************************************************************************)
RequestsHandled ==
  \A r \in Runners : \A k \in 1..MaxSent :
    Len(asked[r]) >= k
      ~> (Len(log[r]) >= k \/ actor[r] \in {"terminated", "gone", "dead"})

(***************************************************************************)
(* ctrl-d ends a step runner with any client, in whatever order pipe and   *)
(* socket are looked at, unless its handler waits for a frame that its     *)
(* request lacks.                                                          *)
(***************************************************************************)
QuitEndsUnlessReading ==
  \A r \in Runners :
    main[r] \in {"term", "join"} ~> (main[r] \in {"exited", "dead"} \/ reading[r])
=============================================================================
