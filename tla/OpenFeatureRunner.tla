------------------------- MODULE OpenFeatureRunner -------------------------
(***************************************************************************)
(* The feature runner on its own, in front of step runners that are not    *)
(* those of this repository: each answers every request once, after        *)
(* reading all of it, with whatever command and id it likes.               *)
(***************************************************************************)
EXTENDS FeatureRunner

CONSTANT Answer   \* the answers step runners may give

VARIABLE answered  \* history: answered[r]: what r was asked, with its answers

openVars == <<answered, runnerVars, transportVars>>

OpenInit ==
  /\ FeatureRunnerInit
  /\ TransportInit
  /\ answered = [r \in Runners |-> <<>>]

Join(r) ==
  /\ r \notin peers
  /\ ConnectAndGreet(r, [command |-> "HELLO", id |-> NULL])
  /\ UNCHANGED <<answered, runnerVars>>

AnswerRequest(r) ==
  /\ requests[r] # <<>>
  /\ \E reply \in Answer :
       /\ ReadAndAnswer(r, Len(requests[r]), reply)
       /\ answered' = [answered EXCEPT ![r] = Append(@,
                         [request |-> requests[r], reply |-> reply])]
  /\ UNCHANGED runnerVars

OpenFinished == pc \in {"done", "aborted"} /\ UNCHANGED openVars

OpenNext ==
  \/ RunnerThread /\ UNCHANGED answered
  \/ \E r \in Runners : Join(r) \/ AnswerRequest(r)
  \/ OpenFinished

OpenSpec ==
  /\ OpenInit
  /\ [][OpenNext]_openVars
  /\ WF_openVars(RunnerThread /\ UNCHANGED answered)
  /\ \A r \in Runners :
       /\ WF_openVars(Join(r))
       /\ WF_openVars(AnswerRequest(r))

-----------------------------------------------------------------------------
(* An answer the assertions of run let through: it is for the scenario the *)
(* request was about, and an acknowledgement when one was asked for.       *)
Acceptable(a) ==
  /\ a.reply.id = a.request[2]
  /\ a.request[1] = "START SCENARIO" => a.reply.command = "SCENARIO STARTED"
  /\ a.request[1] = "END SCENARIO" => a.reply.command = "SCENARIO ENDED"

(* The answers of r that are not. *)
Refused(r) == {k \in DOMAIN answered[r] : ~Acceptable(answered[r][k])}

(***************************************************************************)
(* The assertions of run are a complete check: it goes on after an answer  *)
(* exactly when the answer is acceptable, and stops at the first that is   *)
(* not, so that one that has returned was given acceptable answers only.   *)
(***************************************************************************)
ChecksAnswers ==
  /\ pc \notin Waiting \cup {"aborted"} => \A r \in Runners : Refused(r) = {}
  /\ pc = "aborted" =>
       \E r \in Runners : /\ Refused(r) = {Len(answered[r])}
                          /\ \A s \in Runners \ {r} : Refused(s) = {}

(* The answers of all step runners to the step of the k-th verdict. *)
StepReplies(k) ==
  {answered[r][report[k].at].reply.command : r \in Elements(identities)}

(***************************************************************************)
(* The step runners are asked what the feature says, in its order, each    *)
(* request once.  run returns false exactly when one answered a step with  *)
(* a command that is no step's answer, or the verdict on a step was        *)
(* FAILURE; a verdict is given from the answers to its own step, none left *)
(* out: the unknown ones count for no verdict, and keep NOT FOUND from     *)
(* being given.                                                            *)
(***************************************************************************)
ResultIsJustified ==
  /\ \A r \in Runners : \A k \in DOMAIN answered[r] :
       answered[r][k].request = script[k].frames
  /\ \A k \in DOMAIN report :
       /\ script[report[k].at].frames[1] = "RUN STEP"
       /\ report[k].verdict = "OK" <=> "STEP SUCCEEDED" \in StepReplies(k)
       /\ report[k].verdict = "FAILURE" <=>
            "STEP FAILED" \in StepReplies(k) /\ "STEP SUCCEEDED" \notin StepReplies(k)
       /\ report[k].verdict = "NOT FOUND" <=> StepReplies(k) \subseteq {"STEP NOT FOUND"}
  /\ pc = "done" =>
       (isSuccessful <=>
          \A k \in DOMAIN report :
            report[k].verdict # "FAILURE" /\ StepReplies(k) \subseteq StepAnswers)

(***************************************************************************)
(* Whatever the step runners answer, run returns or stops at an assertion, *)
(* as long as each request is answered.                                    *)
(***************************************************************************)
Ends == <>(pc \in {"done", "aborted"})
=============================================================================
