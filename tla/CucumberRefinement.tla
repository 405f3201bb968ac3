------------------------ MODULE CucumberRefinement ------------------------
(***************************************************************************)
(* CucumberSystem implements TestRun.                                      *)
(***************************************************************************)
EXTENDS CucumberSystem

SeqsExt == INSTANCE SequencesExt

(* The null pointer is no answer. *)
ASSUME AnswerAssumption == NULL \notin ReplyCommands

(* The requests of a scenario from its next step on, and the whole of it. *)
StepsAndEnd(p, texts) ==
  Append([i \in 1..Len(texts) |-> StepRequest(p, texts[i])], EndRequest(p))

ScenarioRequests(p) == <<StartRequest(p)>> \o StepsAndEnd(p, p.steps)

(* The requests of scenarios, of a document (none when it is not valid),  *)
(* of feature files, of the feature files of a directory, of an argument. *)
PicklesRequests(ps) ==
  SeqsExt!FlattenSeq([i \in 1..Len(ps) |-> ScenarioRequests(ps[i])])

DocumentRequests(doc) ==
  IF GherkinDocumentValid(doc) THEN PicklesRequests(doc.pickles) ELSE <<>>

FilesRequests(files) ==
  SeqsExt!FlattenSeq([i \in 1..Len(files) |-> DocumentRequests(files[i])])

EntryRequests(entry) ==
  IF entry.feature THEN DocumentRequests(entry.file) ELSE <<>>

EntriesRequests(entries) ==
  SeqsExt!FlattenSeq([i \in 1..Len(entries) |-> EntryRequests(entries[i])])

ArgumentRequests(arg) ==
  IF arg.directory THEN EntriesRequests(arg.entries)
                   ELSE DocumentRequests(arg.entries[1].file)

-----------------------------------------------------------------------------
(***************************************************************************)
(* The refinement mapping.                                                 *)
(***************************************************************************)

(* A round is open from the first request to the test that ends its loop, *)
(* and stays open when an assertion fails.                                *)
RoundOpen == pc \in {"start", "run", "end", "aborted"} \cup Waiting

(* The request that was made last, that of the round that is open. *)
Round == script[Len(script)].frames

(* The requests of the scenario being run whose round has not closed. *)
ScenarioLeft ==
  IF pickle = NULL THEN <<>>
  ELSE CASE RoundOpen /\ Round[1] = "START SCENARIO" -> ScenarioRequests(pickle)
         [] RoundOpen /\ Round[1] = "END SCENARIO" -> <<EndRequest(pickle)>>
         [] OTHER -> StepsAndEnd(pickle, steps)

AgendaLeft ==
  ScenarioLeft \o PicklesRequests(pickles) \o FilesRequests(feature_files)
    \o EntriesRequests(listing)

(* An answer is given when its handler sends it, before it is received. *)
AnswerGiven(r) ==
  IF RoundOpen /\ Len(log[r]) = Len(script) THEN log[r][Len(script)].reply
                                            ELSE NULL

Promise == INSTANCE TestRun WITH
  Knows <- [r \in Runners |-> UNION Elements(Defs[r])],
  Agendas <- {ArgumentRequests(arg) : arg \in Arguments},
  agenda <- AgendaLeft,
  begun <- pc \notin {"list", "collect"},
  party <- Elements(identities),
  answers <- [r \in Runners |-> AnswerGiven(r)],
  verdicts <- [k \in DOMAIN report |-> report[k].verdict],
  success <- isSuccessful

(***************************************************************************)
(* The feature runner and its step runners do a test run as TestRun has    *)
(* it: cucumber_feature_runner_run asks each step runner of its list each  *)
(* request of each scenario of each file once, in order, goes on to the    *)
(* next only when all have answered, and prints and returns what was       *)
(* answered.  This holds of a run that stops at an assertion, or that is   *)
(* stuck on a lost step runner, as far as it got.                          *)
(***************************************************************************)
ImplementsTestRun == Promise!Spec
=============================================================================
