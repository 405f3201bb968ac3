------------------------------ MODULE TestRun ------------------------------
(***************************************************************************)
(* What cucumber-c promises, without messages, threads or cursors: a       *)
(* feature is an agenda of requests (start a scenario, run a step, end a   *)
(* scenario).  The party, the step runners that joined before the run      *)
(* began, goes through it in rounds: each of them answers the request at   *)
(* the head of the agenda once, and when all have answered, the round      *)
(* closes.  The round of a step closes with a verdict on its answers.      *)
(* Who is lost may never answer: then the round never closes.              *)
(***************************************************************************)
EXTENDS Sequences

CONSTANTS
  Runners,   \* the step runners
  Awaited,   \* those the run does not begin without
  Knows,     \* Knows[r]: the texts of steps r has a definition for
  Agendas,   \* the features that may be run, as sequences of requests
  NULL       \* no answer yet

VARIABLES
  agenda,     \* the requests whose round has not closed
  begun,      \* whether the run has begun
  party,      \* the step runners that take part
  answers,    \* answers[r]: the answer of r in this round, or NULL
  verdicts,   \* the verdicts on the steps so far
  success     \* FALSE when one of them is a failure

runVars == <<agenda, begun, party, answers, verdicts, success>>

Init ==
  /\ agenda \in Agendas
  /\ begun = FALSE
  /\ party = {}
  /\ answers = [r \in Runners |-> NULL]
  /\ verdicts = <<>>
  /\ success = TRUE

Join(r) ==
  /\ ~begun
  /\ party' = party \cup {r}
  /\ UNCHANGED <<agenda, begun, answers, verdicts, success>>

Begin ==
  /\ ~begun
  /\ Awaited \subseteq party
  /\ begun' = TRUE
  /\ UNCHANGED <<agenda, party, answers, verdicts, success>>

(* What r may answer to a request. *)
Answer(r, request) ==
  CASE request[1] = "START SCENARIO" -> {"SCENARIO STARTED"}
    [] request[1] = "END SCENARIO" -> {"SCENARIO ENDED"}
    [] request[1] = "RUN STEP" ->
         IF request[3] \in Knows[r] THEN {"STEP SUCCEEDED", "STEP FAILED"}
                                    ELSE {"STEP NOT FOUND"}

Respond(r) ==
  /\ begun
  /\ agenda # <<>>
  /\ r \in party
  /\ answers[r] = NULL
  /\ \E a \in Answer(r, Head(agenda)) : answers' = [answers EXCEPT ![r] = a]
  /\ UNCHANGED <<agenda, begun, party, verdicts, success>>

Verdict ==
  LET given == {answers[r] : r \in party}
  IN  CASE "STEP SUCCEEDED" \in given -> "OK"
        [] given \subseteq {"STEP NOT FOUND"} -> "NOT FOUND"
        [] OTHER -> "FAILURE"

CloseRound ==
  /\ begun
  /\ agenda # <<>>
  /\ \A r \in party : answers[r] # NULL
  /\ agenda' = Tail(agenda)
  /\ answers' = [r \in Runners |-> NULL]
  /\ IF Head(agenda)[1] = "RUN STEP"
     THEN /\ verdicts' = Append(verdicts, Verdict)
          /\ success' = (success /\ Verdict # "FAILURE")
     ELSE UNCHANGED <<verdicts, success>>
  /\ UNCHANGED <<begun, party>>

Next ==
  \/ \E r \in Runners : Join(r) \/ Respond(r)
  \/ Begin
  \/ CloseRound

Spec == Init /\ [][Next]_runVars
=============================================================================
