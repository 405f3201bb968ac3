--------------------------- MODULE FeatureObjects ---------------------------
(***************************************************************************)
(* The objects on the heap of a feature runner: who allocates, reads and   *)
(* frees what, in cucumber_feature_runner.c, cuc_gherkin_doc.c and         *)
(* cuc_pickle.c.  Step runners are left out: this is run with the list of  *)
(* step runners that cucumber_runner.c gives it, which is empty.  The self *)
(* test of cuc_gherkin_doc.c uses documents in another order, without a    *)
(* feature runner.  What a caller owns, the list of step runners itself,   *)
(* and what the parser and printf allocate inside are left out.            *)
(*                                                                         *)
(* An object is <<kind, f, i, k>>: of the f-th feature file, its i-th      *)
(* scenario or error, its k-th step; 0 where there is none.                *)
(***************************************************************************)
EXTENDS Naturals, Sequences, FiniteSets

CONSTANT
  FileLists   \* lists of feature files that it may be called with

(* A feature file: its errors, and the number of steps of each scenario.   *)
File == [errors : Nat, scenarios : Seq(Nat)]

ASSUME FileListsAssumption == FileLists \subseteq Seq(File)

VARIABLES
  Files,          \* the feature files it was called with
  pc,             \* where the thread is
  running,        \* whether this is a feature runner, or the self test
  feature_files,  \* how many files were begun: popped off the list
  file,           \* featurefile, and the file of the document
  scenario,       \* the current element of the list of pickles, 0 for NULL
  step,           \* the current element of the list of steps, 0 for NULL
  error,          \* the current element of the list of errors, 0 for NULL
  alive,          \* the objects that are allocated
  faults          \* those read or freed when they were not, or allocated twice

position == <<Files, running, feature_files, file, scenario, step, error>>
vars == <<pc, position, alive, faults>>

Places == {"ready", "file", "new", "valid", "pickles", "pickle", "steps",
           "step", "errors", "destroy", "free", "returned", "destroyed"}

Kinds == {"runner", "feature_files", "filename", "document", "source", "event",
          "errors", "error", "pickles", "json", "pickle", "id", "name",
          "steps", "step", "success_messages", "failure_messages", "output"}

Object == Kinds \X Nat \X Nat \X Nat

Obj(kind, f) == <<kind, f, 0, 0>>
Runner == {Obj("runner", 0), Obj("feature_files", 0)}
Filename(f) == <<"filename", f, 0, 0>>
FilenamesFrom(f) == {Filename(g) : g \in f..Len(Files)}

Valid(f) == Files[f].errors = 0
Scenarios(f) == DOMAIN Files[f].scenarios
Steps(f, i) == 1..Files[f].scenarios[i]

(* cuc_gherkin_doc_t: an event when the file parsed, else a list of errors. *)
Errors(f) == {<<"error", f, i, 0>> : i \in 1..Files[f].errors}

DocumentObjects(f) ==
  {Obj("document", f), Obj("source", f)}
    \cup IF Valid(f) THEN {Obj("event", f)} ELSE {Obj("errors", f)} \cup Errors(f)

(* What gherkin_document_get_pickles returns: strings, which the caller    *)
(* owns, in a list that does not free them.                                *)
Json(f, i) == <<"json", f, i, 0>>
PicklesObjects(f) == {Obj("pickles", f)} \cup {Json(f, i) : i \in Scenarios(f)}

(* cuc_pickle_t; its list of steps destroys them (pickle_step_destroy).    *)
PickleStep(f, i, k) == <<"step", f, i, k>>

PickleObjects(f, i) ==
  {<<"pickle", f, i, 0>>, <<"id", f, i, 0>>, <<"name", f, i, 0>>,
   <<"steps", f, i, 0>>} \cup {PickleStep(f, i, k) : k \in Steps(f, i)}

(* Of each step: the lists of what is to be printed, which stay empty when *)
(* there is no step runner, and the line that says NOT FOUND then.         *)
Messages(f, i, k) ==
  {<<"success_messages", f, i, k>>, <<"failure_messages", f, i, k>>}

Output(f, i, k) == <<"output", f, i, k>>

(***************************************************************************)
(* A statement reads some objects, then allocates some and frees some.     *)
(***************************************************************************)
Memory(read, allocated, freed) ==
  /\ alive' = (alive \cup allocated) \ freed
  /\ faults' = faults \cup ((read \cup freed) \ (alive \cup allocated))
                      \cup (allocated \cap alive)

(* cucumber_feature_runner_new: the list of the files' names, duplicated.  *)
(* The self test takes a file that parses, then one that does not.         *)
TestFiles == Len(Files) = 2 /\ Valid(1) /\ ~Valid(2)

Init ==
  /\ Files \in FileLists
  /\ running \in BOOLEAN
  /\ running \/ TestFiles
  /\ pc = IF running THEN "ready" ELSE "file"
  /\ feature_files = 0
  /\ file = 0
  /\ scenario = 0
  /\ step = 0
  /\ error = 0
  /\ alive = IF running THEN Runner \cup FilenamesFrom(1) ELSE {}
  /\ faults = {}

(* cucumber_feature_runner_run *)
CallRun ==
  /\ pc = "ready"
  /\ pc' = "file"
  /\ UNCHANGED <<position, alive, faults>>

(***************************************************************************)
(* run.  The self test prints the name of a file where run pops it.        *)
(***************************************************************************)
NextFile ==
  /\ pc = "file"
  /\ feature_files < Len(Files)
  /\ pc' = "new"
  /\ feature_files' = feature_files + 1
  /\ file' = feature_files + 1
  /\ IF running THEN Memory(Runner, {}, {})
                ELSE Memory({}, {Filename(feature_files + 1)}, {})
  /\ UNCHANGED <<Files, running, scenario, step, error>>

Return ==
  /\ pc = "file"
  /\ feature_files = Len(Files)
  /\ pc' = IF running THEN "returned" ELSE "destroyed"
  /\ Memory(IF running THEN Runner ELSE {}, {}, {})
  /\ UNCHANGED position

(* gherkin_document_new *)
DocumentNew ==
  /\ pc = "new"
  /\ pc' = IF running THEN "valid" ELSE "free"
  /\ Memory({Filename(file)}, DocumentObjects(file), {})
  /\ UNCHANGED position

(* gherkin_document_valid, then gherkin_document_get_pickles. *)
GetPickles ==
  /\ pc = "valid"
  /\ Valid(file)
  /\ pc' = "pickles"
  /\ scenario' = IF Files[file].scenarios = <<>> THEN 0 ELSE 1
  /\ Memory({Obj("document", file), Obj("source", file), Obj("event", file)},
            PicklesObjects(file), {})
  /\ UNCHANGED <<Files, running, feature_files, file, step, error>>

(* gherkin_document_valid, then gherkin_document_errors. *)
GetErrors ==
  /\ pc = "valid"
  /\ ~Valid(file)
  /\ pc' = "errors"
  /\ error' = 1
  /\ Memory({Obj("document", file), Obj("errors", file)}, {}, {})
  /\ UNCHANGED <<Files, running, feature_files, file, scenario, step>>

(* The loop on errors goes to the first again. *)
PrintError ==
  /\ pc = "errors"
  /\ Memory({Obj("errors", file), <<"error", file, error, 0>>}, {}, {})
  /\ UNCHANGED <<pc, position>>

(* pickle_new copies what it takes from the string, which is then freed.   *)
PickleNew ==
  /\ pc = "pickles"
  /\ scenario # 0
  /\ pc' = "pickle"
  /\ Memory({Json(file, scenario)}, PickleObjects(file, scenario),
            {Json(file, scenario)})
  /\ UNCHANGED position

(* pickle_name, pickle_id, pickle_first_step *)
FirstStep ==
  /\ pc = "pickle"
  /\ pc' = "steps"
  /\ step' = IF Steps(file, scenario) = {} THEN 0 ELSE 1
  /\ Memory({<<"pickle", file, scenario, 0>>, <<"name", file, scenario, 0>>,
             <<"steps", file, scenario, 0>>}, {}, {})
  /\ UNCHANGED <<Files, running, feature_files, file, scenario, error>>

(* A step begins: its text is printed in place, its lists are made. *)
BeginStep ==
  /\ pc = "steps"
  /\ step # 0
  /\ pc' = "step"
  /\ Memory({PickleStep(file, scenario, step)}, Messages(file, scenario, step), {})
  /\ UNCHANGED position

FollowingStep == IF step = Files[file].scenarios[scenario] THEN 0 ELSE step + 1

(* Slip: the list of failures is not destroyed. *)
NextStep_KeepsFailures ==
  /\ pc = "step"
  /\ pc' = "steps"
  /\ step' = FollowingStep
  /\ LET k == <<"success_messages", file, scenario, step>>
     IN  Memory({}, {Output(file, scenario, step)}, {Output(file, scenario, step), k})
  /\ UNCHANGED <<Files, running, feature_files, file, scenario, error>>

(* None was asked, so all answered NOT FOUND: the line is made of the text, *)
(* printed and freed.  The lists are destroyed; then pickle_next_step.      *)
NextStep ==
  /\ pc = "step"
  /\ pc' = "steps"
  /\ step' = FollowingStep
  /\ Memory({PickleStep(file, scenario, step), <<"steps", file, scenario, 0>>},
            {Output(file, scenario, step)},
            {Output(file, scenario, step)} \cup Messages(file, scenario, step))
  /\ UNCHANGED <<Files, running, feature_files, file, scenario, error>>

(* pickle_destroy, then zlist_next on the list of pickles. *)
PickleDestroy ==
  /\ pc = "steps"
  /\ step = 0
  /\ pc' = "pickles"
  /\ scenario' = IF scenario = Len(Files[file].scenarios) THEN 0 ELSE scenario + 1
  /\ Memory({Obj("pickles", file)}, {}, PickleObjects(file, scenario))
  /\ UNCHANGED <<Files, running, feature_files, file, step, error>>

(* Slip: the list of pickles frees its strings (zlist_autofree). *)
PicklesDestroy_Autofree ==
  /\ pc = "pickles"
  /\ scenario = 0
  /\ pc' = "destroy"
  /\ Memory({}, {}, PicklesObjects(file))
  /\ UNCHANGED position

(* zlist_destroy: the strings were freed one by one. *)
PicklesDestroy ==
  /\ pc = "pickles"
  /\ scenario = 0
  /\ pc' = "destroy"
  /\ Memory({}, {}, {Obj("pickles", file)})
  /\ UNCHANGED position

(* gherkin_document_destroy *)
DocumentDestroy ==
  /\ pc = "destroy"
  /\ pc' = IF running THEN "free" ELSE "file"
  /\ Memory({}, {}, DocumentObjects(file))
  /\ UNCHANGED position

(* zstr_free (&featurefile); the self test frees the name before the       *)
(* document.                                                               *)
FreeFilename ==
  /\ pc = "free"
  /\ pc' = IF running THEN "file" ELSE "destroy"
  /\ Memory({}, {}, {Filename(file)})
  /\ UNCHANGED position

(* cucumber_feature_runner_destroy, after run or without. *)
RunnerDestroy ==
  /\ pc \in {"ready", "returned"}
  /\ pc' = "destroyed"
  /\ Memory({}, {}, Runner \cup FilenamesFrom(feature_files + 1))
  /\ UNCHANGED position

Exited == pc = "destroyed" /\ UNCHANGED vars

Next ==
  \/ CallRun
  \/ NextFile \/ Return
  \/ DocumentNew \/ GetPickles \/ GetErrors \/ PrintError
  \/ PickleNew \/ FirstStep \/ BeginStep \/ NextStep \/ PickleDestroy
  \/ PicklesDestroy \/ DocumentDestroy \/ FreeFilename
  \/ RunnerDestroy
  \/ Exited

Spec == Init /\ [][Next]_vars

-----------------------------------------------------------------------------
(* What the thread owns at each place: its own objects and the names of    *)
(* the files not done, the document, what is left of its scenarios, and    *)
(* the messages of the step being run.                                     *)
InDocument ==
  pc \in {"valid", "pickles", "pickle", "steps", "step", "errors", "destroy"}
    \/ (pc = "free" /\ ~running)

InPickles == pc \in {"pickles", "pickle", "steps", "step"}
InPickle == pc \in {"pickle", "steps", "step"}

HasName ==
  pc \in {"new", "valid", "pickles", "pickle", "steps", "step", "errors", "free"}
    \/ (pc = "destroy" /\ running)

Held ==
  (IF running /\ pc # "destroyed"
   THEN Runner \cup FilenamesFrom(feature_files + 1) ELSE {})
  \cup (IF HasName THEN {Filename(file)} ELSE {})
  \cup (IF InDocument THEN DocumentObjects(file) ELSE {})
  \cup (IF InPickles THEN {Obj("pickles", file)} ELSE {})
  \cup (IF InPickles /\ scenario # 0
        THEN {Json(file, i) : i \in {j \in Scenarios(file) :
                j > scenario \/ (j = scenario /\ ~InPickle)}} ELSE {})
  \cup (IF InPickle THEN PickleObjects(file, scenario) ELSE {})
  \cup (IF pc = "step" THEN Messages(file, scenario, step) ELSE {})

TypeOK ==
  /\ Files \in FileLists
  /\ pc \in Places
  /\ running \in BOOLEAN
  /\ feature_files \in 0..Len(Files)
  /\ file \in 0..Len(Files)
  /\ scenario \in 0..(IF file = 0 THEN 0 ELSE Len(Files[file].scenarios))
  /\ step \in Nat
  /\ error \in {0, 1}
  /\ alive \subseteq Object
  /\ faults \subseteq Object

(***************************************************************************)
(* No object is read after it was freed, freed twice, or replaced while it *)
(* is allocated: strings shared by a list and its reader, the document     *)
(* that pickles came from, and the name of a file outlive their use.       *)
(***************************************************************************)
NoFault == faults = {}

(***************************************************************************)
(* At each place exactly what is still needed is allocated, so that run    *)
(* keeps nothing of a step, a scenario or a file it is done with, and      *)
(* nothing is left when the feature runner is destroyed, used or not, or   *)
(* when the self test has ended.                                           *)
(***************************************************************************)
NothingLeaks == alive = Held
=============================================================================
