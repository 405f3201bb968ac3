--------------------------- MODULE CucumberReruns ---------------------------
(***************************************************************************)
(* Feature runners one after the other in front of the same step runners,  *)
(* as they are used: a step runner stays until its ctrl-d, and a feature   *)
(* runner is started for each feature.  One may also be killed wherever it *)
(* is.  That is how an interrupted receive ends it, too: zsock_recv        *)
(* returns with the pointers that the assertions then read unset.          *)
(*                                                                         *)
(* Step runners connect again by themselves (ZeroMQ), but say HELLO only   *)
(* once, and keep the scenario they have.                                  *)
(***************************************************************************)
EXTENDS CucumberSystem, FiniteSets

CONSTANT MaxLives   \* bound: feature runners that are started

VARIABLES
  life,    \* how many were started
  mark     \* history: mark[r]: requests r had handled when run was called

rerunVars == <<life, mark, vars>>

RerunsInit ==
  /\ Init
  /\ life = 1
  /\ mark = [r \in Runners |-> 0]

(***************************************************************************)
(* A feature runner is no more, and another one is started.  What the old  *)
(* one had sent was delivered or is lost; of what it was sent it, or its   *)
(* connection, took a first part with it.                                  *)
(***************************************************************************)
NewConnections ==
  /\ \E delivered \in SUBSET Runners :
       requests' = [r \in Runners |-> IF r \in delivered THEN requests[r] ELSE <<>>]
  /\ \E taken \in [Runners -> 0..2] :
       /\ \A r \in Runners : taken[r] <= Len(replies[r])
       /\ replies' = [r \in Runners |->
                        SubSeq(replies[r], taken[r] + 1, Len(replies[r]))]
  /\ UNCHANGED peers

NewFeatureRunner ==
  /\ pc' = "list"
  /\ \E arg \in Arguments :
       /\ listing' = IF arg.directory THEN arg.entries ELSE <<>>
       /\ feature_files' = IF arg.directory THEN <<>>
                                            ELSE <<arg.entries[1].file>>
  /\ error' = 0
  /\ pickles' = <<>>
  /\ pickle' = NULL
  /\ steps' = <<>>
  /\ identities' = <<>>
  /\ cursor' = <<>>
  /\ tally' = NoAnswer
  /\ totals' = [scenarios |-> 0, steps |-> 0]
  /\ isSuccessful' = TRUE
  /\ report' = <<>>
  /\ script' = <<>>

Rerun ==
  /\ life < MaxLives
  /\ pc # "list"
  /\ life' = life + 1
  /\ NewFeatureRunner
  /\ NewConnections
  /\ UNCHANGED <<stepsVars, mark>>

RunCalled == pc = "collect" /\ pc' = "file"

SameLife ==
  /\ Next
  /\ mark' = IF RunCalled THEN [r \in Runners |-> Len(log[r])] ELSE mark
  /\ UNCHANGED life

RerunsNext == SameLife \/ Rerun

RerunsSpec ==
  /\ RerunsInit
  /\ [][RerunsNext]_rerunVars
  /\ WF_rerunVars(RunnerThread /\ UNCHANGED stepsVars
                  /\ SameLife)
  /\ \A r \in Runners :
       /\ WF_rerunVars(MainThread(r) /\ UNCHANGED runnerVars /\ SameLife)
       /\ WF_rerunVars(ActorThread(r) /\ UNCHANGED runnerVars /\ SameLife)

-----------------------------------------------------------------------------
(***************************************************************************)
(* Each run, also one after a run that was killed in the middle of a       *)
(* scenario with its last request or answer still on its way, asks its     *)
(* step runners for the whole feature, and nothing else, in order.         *)
(***************************************************************************)
RerunFollowsScript ==
  Running =>
    \A r \in Elements(identities) :
      LET handled == SubSeq(log[r], mark[r] + 1, Len(log[r]))
      IN  /\ Len(handled) <= Len(script)
          /\ Len(script) - Len(handled) <=
               IF pc \in {"start", "run", "end"} \cup Waiting THEN 1 ELSE 0
          /\ \A k \in DOMAIN handled : handled[k].frames = script[k].frames

(***************************************************************************)
(* A feature runner that is killed costs a step runner one state at most:  *)
(* that of the scenario it left open, which the next START SCENARIO        *)
(* overwrites.                                                             *)
(***************************************************************************)
OneStateLostPerRun ==
  \A r \in Constructing \cap Destructing :
    Cardinality(live[r] \ (IF cucumber[r] = NULL THEN {} ELSE {cucumber[r].state}))
      < life

(* A step runner that has said HELLO to an earlier feature runner, and     *)
(* owes it no answer: the next one never learns of it.                     *)
Unheard(r) == actor[r] = "loop" /\ requests[r] = <<>> /\ replies[r] = <<>>

(***************************************************************************)
(* The last feature runner that is started returns, or waits for a step    *)
(* runner that was there before it: nothing else holds it up, whatever the *)
(* earlier ones left behind.                                               *)
(***************************************************************************)
RerunReturnsUnlessUnheard ==
  <>[](\/ pc = "done"
       \/ /\ pc = "collect"
          /\ life > 1
          /\ \E r \in Awaited \ Elements(identities) : Unheard(r))
=============================================================================
