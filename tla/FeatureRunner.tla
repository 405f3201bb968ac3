--------------------------- MODULE FeatureRunner ---------------------------
(***************************************************************************)
(* The feature runner: cucumber_feature_runner.c, and its caller, which    *)
(* gives it a file or a directory and the list of the step runners to use. *)
(* The caller in this repository, cucumber_runner.c, passes an empty list; *)
(* an application that embeds the library builds the list from the HELLO   *)
(* messages of the step runners, before it calls run.                      *)
(*                                                                         *)
(* A list that is walked with zlist_first and zlist_next is the sequence   *)
(* of what is left of it, its head the current element.                    *)
(***************************************************************************)
EXTENDS Transport, Gherkin

CONSTANTS
  Arguments,   \* what the program may be called with: a file or a directory
  Awaited      \* the step runners the caller waits for before it calls run

(***************************************************************************)
(* A directory entry is a feature file when its path has ".feature" in it. *)
(***************************************************************************)
Entry == [feature : BOOLEAN, file : Document]
Argument == [directory : BOOLEAN, entries : Seq(Entry)]

ASSUME RunnerAssumption ==
  /\ Arguments \subseteq Argument
  /\ \A arg \in Arguments : arg.directory \/ Len(arg.entries) = 1
  /\ Awaited \subseteq Runners
  /\ NULL \notin Pickle
  /\ NULL \notin Names

VARIABLES
  pc,             \* where the runner is
  listing,        \* directory entries left to look at
  feature_files,  \* self->feature_files
  error,          \* the error being printed, 0 for NULL
  pickles,        \* pickles of the document left to run
  pickle,         \* the pickle being run, or NULL
  steps,          \* its steps left to run
  identities,     \* the list of step runners given to run
  cursor,         \* what is left of it in the loop being run
  tally,          \* answers to the current step, by kind
  totals,         \* self->total_scenarios and self->total_steps
  isSuccessful,   \* what run returns
  report,         \* history: the verdicts printed, each with its request
  script          \* history: the requests, in the order of the feature

runnerVars == <<pc, listing, feature_files, error, pickles, pickle, steps,
                identities, cursor, tally, totals, isSuccessful, report,
                script>>

Waiting == {"started", "ran", "ended"}
RunnerStates == {"list", "collect", "file", "pickle", "errors", "start",
                 "step", "run", "end", "done", "aborted"} \cup Waiting

NoAnswer == [succeeded |-> 0, failed |-> 0, missing |-> 0]

Elements(s) == {s[i] : i \in DOMAIN s}

(***************************************************************************)
(* cucumber_feature_runner_new: a directory is listed, anything else is    *)
(* taken as a feature file whatever its name.                              *)
(***************************************************************************)
FeatureRunnerInit ==
  /\ pc = "list"
  /\ \E arg \in Arguments :
       /\ listing = IF arg.directory THEN arg.entries ELSE <<>>
       /\ feature_files = IF arg.directory THEN <<>>
                                           ELSE <<arg.entries[1].file>>
  /\ error = 0
  /\ pickles = <<>>
  /\ pickle = NULL
  /\ steps = <<>>
  /\ identities = <<>>
  /\ cursor = <<>>
  /\ tally = NoAnswer
  /\ totals = [scenarios |-> 0, steps |-> 0]
  /\ isSuccessful = TRUE
  /\ report = <<>>
  /\ script = <<>>

KeepsFeature(entry) == entry.feature

(* Slip: the entry is kept instead of its file. *)
ListFile_KeepsEntry ==
  /\ pc = "list"
  /\ listing # <<>>
  /\ listing' = Tail(listing)
  /\ feature_files' = Append(feature_files, Head(listing))
  /\ UNCHANGED <<pc, error, pickles, pickle, steps, identities, cursor, tally,
                 totals, isSuccessful, report, script, transportVars>>

ListFile ==
  /\ pc = "list"
  /\ listing # <<>>
  /\ listing' = Tail(listing)
  /\ feature_files' = IF KeepsFeature(Head(listing))
                      THEN Append(feature_files, Head(listing).file)
                      ELSE feature_files
  /\ UNCHANGED <<pc, error, pickles, pickle, steps, identities, cursor, tally,
                 totals, isSuccessful, report, script, transportVars>>

Listed ==
  /\ pc = "list"
  /\ listing = <<>>
  /\ pc' = "collect"
  /\ UNCHANGED <<listing, feature_files, error, pickles, pickle, steps,
                 identities, cursor, tally, totals, isSuccessful, report,
                 script, transportVars>>

(***************************************************************************)
(* The caller.  That of this repository calls run at once, with an empty   *)
(* list.  One that embeds the library collects greetings, at least until   *)
(* those awaited are there.  It takes the next message of a step runner    *)
(* for its greeting, as nothing in a message tells it apart: also an       *)
(* answer that a step runner owed to an earlier feature runner.            *)
(***************************************************************************)
(* Slip: the first greeting is taken for all. *)
AllAwaited_FirstOne == identities # <<>>

AllAwaited == Awaited \subseteq Elements(identities)

CollectIdentity(r) ==
  /\ pc = "collect"
  /\ Receive(r)
  /\ identities' = Append(identities, r)
  /\ UNCHANGED <<pc, listing, feature_files, error, pickles, pickle, steps,
                 cursor, tally, totals, isSuccessful, report, script>>

CallRun ==
  /\ pc = "collect"
  /\ AllAwaited
  /\ pc' = "file"
  /\ UNCHANGED <<listing, feature_files, error, pickles, pickle, steps,
                 identities, cursor, tally, totals, isSuccessful, report,
                 script, transportVars>>

(***************************************************************************)
(* cucumber_feature_runner_run: the loop on feature files.                 *)
(***************************************************************************)
ZlistFirst(n) == IF n = 0 THEN 0 ELSE 1

NextFile ==
  /\ pc = "file"
  /\ feature_files # <<>>
  /\ feature_files' = Tail(feature_files)
  /\ LET doc == Head(feature_files)
     IN  IF GherkinDocumentValid(doc)
         THEN /\ pc' = "pickle"
              /\ pickles' = doc.pickles
              /\ UNCHANGED error
         ELSE /\ pc' = "errors"
              /\ error' = ZlistFirst(doc.errors)
              /\ UNCHANGED pickles
  /\ UNCHANGED <<listing, pickle, steps, identities, cursor, tally, totals,
                 isSuccessful, report, script, transportVars>>

(* Slip: the loop on identities stops after the first. *)
ZlistNext_Stops(c) == <<>>

(* zlist_next on the list of identities. *)
ZlistNext(c) == Tail(c)

(* The loop on parse errors: it prints one, and goes to the first again. *)
PrintError ==
  /\ pc = "errors"
  /\ error # 0
  /\ error' = ZlistFirst(error)
  /\ UNCHANGED <<pc, listing, feature_files, pickles, pickle, steps,
                 identities, cursor, tally, totals, isSuccessful, report,
                 script, transportVars>>

EndDocument ==
  /\ pc \in {"pickle", "errors"}
  /\ pickles = <<>>
  /\ error = 0
  /\ pc' = "file"
  /\ UNCHANGED <<listing, feature_files, error, pickles, pickle, steps,
                 identities, cursor, tally, totals, isSuccessful, report,
                 script, transportVars>>

Return ==
  /\ pc = "file"
  /\ feature_files = <<>>
  /\ pc' = "done"
  /\ UNCHANGED <<listing, feature_files, error, pickles, pickle, steps,
                 identities, cursor, tally, totals, isSuccessful, report,
                 script, transportVars>>

(***************************************************************************)
(* The requests of a scenario, as the frames after the identity.           *)
(***************************************************************************)
StartRequest(p) == <<"START SCENARIO", PickleId(p)>>
StepRequest(p, text) == <<"RUN STEP", PickleId(p), text>>
EndRequest(p) == <<"END SCENARIO", PickleId(p)>>

Scripted(p, frames) ==
  script' = Append(script, [pickle |-> p.id, frames |-> frames])

(***************************************************************************)
(* The loop on the scenarios of a document.                                *)
(***************************************************************************)
NextPickle ==
  /\ pc = "pickle"
  /\ pickles # <<>>
  /\ pc' = "start"
  /\ pickles' = Tail(pickles)
  /\ pickle' = Head(pickles)
  /\ totals' = [totals EXCEPT !.scenarios = @ + 1]
  /\ cursor' = identities
  /\ Scripted(Head(pickles), StartRequest(Head(pickles)))
  /\ UNCHANGED <<listing, feature_files, error, steps, identities, tally,
                 isSuccessful, report, transportVars>>

(* A request goes to the step runner the cursor is at, and is waited for. *)
SendTo(frames, waiting) ==
  /\ cursor # <<>>
  /\ Send(Head(cursor), frames)
  /\ pc' = waiting
  /\ UNCHANGED <<listing, feature_files, error, pickles, pickle, steps,
                 identities, cursor, tally, totals, isSuccessful, report,
                 script>>

SendStart == pc = "start" /\ SendTo(StartRequest(pickle), "started")
SendStep == pc = "run" /\ SendTo(StepRequest(pickle, Head(steps)), "ran")
SendEnd == pc = "end" /\ SendTo(EndRequest(pickle), "ended")

(* Slip: the id compared is not the one that was sent. *)
ExpectedId_Compiled(reply) == reply.id = pickle.id

(* Slip: no assertion on the id. *)
ExpectedId_Any(reply) == TRUE

(* The assertions on an answer; an answer that lacks its id fails them. *)
ExpectedId(reply) == reply.id = PickleId(pickle)

(* The next message of any step runner is the answer, whoever sent it. *)
RecvAnswer(r, from, expected, to) ==
  /\ pc = from
  /\ Receive(r)
  /\ IF Head(replies[r]).command = expected /\ ExpectedId(Head(replies[r]))
     THEN /\ pc' = to
          /\ cursor' = ZlistNext(cursor)
     ELSE /\ pc' = "aborted"
          /\ UNCHANGED cursor
  /\ UNCHANGED <<listing, feature_files, error, pickles, pickle, steps,
                 identities, tally, totals, isSuccessful, report, script>>

RecvStarted(r) == RecvAnswer(r, "started", "SCENARIO STARTED", "start")
RecvEnded(r) == RecvAnswer(r, "ended", "SCENARIO ENDED", "end")

(***************************************************************************)
(* The loop on the steps of a scenario.                                    *)
(***************************************************************************)
FirstStep ==
  /\ pc = "start"
  /\ cursor = <<>>
  /\ pc' = "step"
  /\ steps' = pickle.steps
  /\ UNCHANGED <<listing, feature_files, error, pickles, pickle, identities,
                 cursor, tally, totals, isSuccessful, report, script,
                 transportVars>>

BeginStep ==
  /\ pc = "step"
  /\ steps # <<>>
  /\ pc' = "run"
  /\ totals' = [totals EXCEPT !.steps = @ + 1]
  /\ cursor' = identities
  /\ tally' = NoAnswer
  /\ Scripted(pickle, StepRequest(pickle, Head(steps)))
  /\ UNCHANGED <<listing, feature_files, error, pickles, pickle, steps,
                 identities, isSuccessful, report, transportVars>>

StepAnswers == {"STEP SUCCEEDED", "STEP FAILED", "STEP NOT FOUND"}

(* Slip: whatever is neither a success nor a failure counts as missing. *)
Count_MissingByDefault(t, command) ==
  CASE command = "STEP SUCCEEDED" -> [t EXCEPT !.succeeded = @ + 1]
    [] command = "STEP FAILED"    -> [t EXCEPT !.failed = @ + 1]
    [] OTHER                      -> [t EXCEPT !.missing = @ + 1]

(* What an answer adds to; one that is no step's answer adds to nothing. *)
Count(t, command) ==
  CASE command = "STEP SUCCEEDED" -> [t EXCEPT !.succeeded = @ + 1]
    [] command = "STEP FAILED"    -> [t EXCEPT !.failed = @ + 1]
    [] command = "STEP NOT FOUND" -> [t EXCEPT !.missing = @ + 1]
    [] OTHER                      -> t

(* Slip: an unknown answer is skipped, and another one waited for. *)
RecvRan_SkipsUnknown(r) ==
  /\ pc = "ran"
  /\ Receive(r)
  /\ IF Head(replies[r]).command \in StepAnswers
     THEN /\ pc' = "run"
          /\ cursor' = ZlistNext(cursor)
          /\ tally' = Count(tally, Head(replies[r]).command)
     ELSE UNCHANGED <<pc, cursor, tally>>
  /\ UNCHANGED <<listing, feature_files, error, pickles, pickle, steps,
                 identities, totals, isSuccessful, report, script>>

RecvRan(r) ==
  /\ pc = "ran"
  /\ Receive(r)
  /\ IF ExpectedId(Head(replies[r]))
     THEN LET command == Head(replies[r]).command
          IN  /\ pc' = "run"
              /\ cursor' = ZlistNext(cursor)
              /\ tally' = Count(tally, command)
              /\ isSuccessful' = (isSuccessful /\ command \in StepAnswers)
     ELSE /\ pc' = "aborted"
          /\ UNCHANGED <<cursor, tally, isSuccessful>>
  /\ UNCHANGED <<listing, feature_files, error, pickles, pickle, steps,
                 identities, totals, report, script>>

(* Slip: failures are looked at before successes. *)
Verdict_FailuresFirst(t) ==
  CASE t.failed > 0 -> "FAILURE"
    [] t.failed = 0 /\ t.succeeded > 0 -> "OK"
    [] t.failed = 0 /\ t.succeeded = 0 /\ t.missing = Len(identities)
         -> "NOT FOUND"
    [] OTHER -> "NOTHING"

(* Slip: a step that no one was asked to run is given no verdict. *)
Verdict_SomeoneMissing(t) ==
  CASE t.succeeded > 0 -> "OK"
    [] t.succeeded = 0 /\ t.failed > 0 -> "FAILURE"
    [] t.succeeded = 0 /\ t.failed = 0 /\ t.missing > 0
         /\ t.missing = Len(identities) -> "NOT FOUND"
    [] OTHER -> "NOTHING"

(***************************************************************************)
(* What is printed for a step: one success hides the failures, and nothing *)
(* is printed when neither was answered and not all answered NOT FOUND.    *)
(* A step that no one was asked to run is NOT FOUND.                       *)
(***************************************************************************)
Verdict(t) ==
  CASE t.succeeded > 0 -> "OK"
    [] t.succeeded = 0 /\ t.failed > 0 -> "FAILURE"
    [] t.succeeded = 0 /\ t.failed = 0 /\ t.missing = Len(identities)
         -> "NOT FOUND"
    [] OTHER -> "NOTHING"

Reported(verdict) ==
  report' = Append(report, [at |-> Len(script), verdict |-> verdict])

(* Slip: the last step decides what run returns. *)
EndStep_LastDecides ==
  /\ pc = "run"
  /\ cursor = <<>>
  /\ pc' = "step"
  /\ Reported(Verdict(tally))
  /\ isSuccessful' = (Verdict(tally) # "FAILURE")
  /\ steps' = Tail(steps)
  /\ UNCHANGED <<listing, feature_files, error, pickles, pickle, identities,
                 cursor, tally, totals, script, transportVars>>

(* Slip: a step that was not found makes the run fail. *)
EndStep_OnlyOK ==
  /\ pc = "run"
  /\ cursor = <<>>
  /\ pc' = "step"
  /\ Reported(Verdict(tally))
  /\ isSuccessful' = (isSuccessful /\ Verdict(tally) = "OK")
  /\ steps' = Tail(steps)
  /\ UNCHANGED <<listing, feature_files, error, pickles, pickle, identities,
                 cursor, tally, totals, script, transportVars>>

EndStep ==
  /\ pc = "run"
  /\ cursor = <<>>
  /\ pc' = "step"
  /\ Reported(Verdict(tally))
  /\ isSuccessful' = (isSuccessful /\ Verdict(tally) # "FAILURE")
  /\ steps' = Tail(steps)
  /\ UNCHANGED <<listing, feature_files, error, pickles, pickle, identities,
                 cursor, tally, totals, script, transportVars>>

StepsDone ==
  /\ pc = "step"
  /\ steps = <<>>
  /\ pc' = "end"
  /\ cursor' = identities
  /\ Scripted(pickle, EndRequest(pickle))
  /\ UNCHANGED <<listing, feature_files, error, pickles, pickle, steps,
                 identities, tally, totals, isSuccessful, report,
                 transportVars>>

PickleDone ==
  /\ pc = "end"
  /\ cursor = <<>>
  /\ pc' = "pickle"
  /\ pickle' = NULL
  /\ UNCHANGED <<listing, feature_files, error, pickles, steps, identities,
                 cursor, tally, totals, isSuccessful, report, script,
                 transportVars>>

(***************************************************************************)
(* The single thread of the feature runner.                                *)
(***************************************************************************)
RunnerThread ==
  \/ ListFile \/ Listed
  \/ \E r \in Runners : CollectIdentity(r)
  \/ CallRun
  \/ NextFile \/ PrintError \/ EndDocument \/ Return
  \/ NextPickle
  \/ SendStart \/ \E r \in Runners : RecvStarted(r)
  \/ FirstStep \/ BeginStep
  \/ SendStep \/ \E r \in Runners : RecvRan(r)
  \/ EndStep \/ StepsDone
  \/ SendEnd \/ \E r \in Runners : RecvEnded(r)
  \/ PickleDone
=============================================================================
