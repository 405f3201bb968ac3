----------------------- MODULE FeatureObjects_proofs -----------------------
(***************************************************************************)
(* For every list of feature files: nothing is read or freed that is not   *)
(* allocated, and nothing is left.  The invariant that carries the proof   *)
(* is NothingLeaks itself, with where the thread can be.                   *)
(***************************************************************************)
EXTENDS FeatureObjects, TLAPS

(* Where the thread can be, and on which elements of its lists.            *)
Positions ==
  /\ pc \in {"ready", "valid", "errors", "returned"} \/ InPickles => running
  /\ pc \notin {"ready", "file", "returned", "destroyed"}
       => file = feature_files /\ file \in DOMAIN Files
  /\ InPickles => Valid(file)
  /\ ~InPickles => scenario = 0
  /\ pc = "errors" => ~Valid(file) /\ error = 1
  /\ InPickle => scenario \in Scenarios(file)
  /\ pc = "steps" => step \in 0..Files[file].scenarios[scenario]
  /\ pc = "step" => step \in Steps(file, scenario)
  /\ pc = "returned" => feature_files = Len(Files)

ObjectsInv == TypeOK /\ Positions /\ NothingLeaks /\ NoFault

-----------------------------------------------------------------------------
LEMMA FileType ==
  ASSUME TypeOK, NEW f \in DOMAIN Files
  PROVE  /\ Files[f] \in File
         /\ Files[f].errors \in Nat
         /\ Files[f].scenarios \in Seq(Nat)
         /\ \A i \in Scenarios(f) : Files[f].scenarios[i] \in Nat
         /\ Len(Files[f].scenarios) \in Nat
         /\ DOMAIN Files[f].scenarios = 1..Len(Files[f].scenarios)
         /\ Len(Files) \in Nat
         /\ DOMAIN Files = 1..Len(Files)
<1>1. Files \in Seq(File)  BY FileListsAssumption DEF TypeOK
<1>2. Files[f] \in File  BY <1>1
<1>3. Files[f].scenarios \in Seq(Nat) /\ Files[f].errors \in Nat
  BY <1>2 DEF File
<1>4. \A s \in Seq(Nat) : Len(s) \in Nat /\ DOMAIN s = 1..Len(s)
                        /\ \A i \in DOMAIN s : s[i] \in Nat
  OBVIOUS
<1> QED  BY <1>2, <1>3, <1>4 DEF Scenarios

LEMMA FilesType ==
  ASSUME TypeOK
  PROVE  Len(Files) \in Nat /\ DOMAIN Files = 1..Len(Files)
BY FileListsAssumption DEF TypeOK

LEMMA FilenamesSplit ==
  ASSUME TypeOK, NEW g \in DOMAIN Files
  PROVE  FilenamesFrom(g) = {Filename(g)} \cup FilenamesFrom(g + 1)
<1>1. g..Len(Files) = {g} \cup (g + 1)..Len(Files)  BY FilesType
<1> QED  BY <1>1 DEF FilenamesFrom

LEMMA ObjectTypes ==
  ASSUME TypeOK, NEW f \in DOMAIN Files, NEW i \in Nat
  PROVE  /\ {Filename(f)} \subseteq Object
         /\ DocumentObjects(f) \subseteq Object
         /\ PicklesObjects(f) \subseteq Object
         /\ PickleObjects(f, i) \subseteq Object
         /\ \A k \in Nat : Messages(f, i, k) \subseteq Object
<1> USE FileType, FilesType DEF Object, Kinds, Obj, Scenarios
<1>1. {Filename(f)} \subseteq Object  BY DEF Filename
<1>2. DocumentObjects(f) \subseteq Object  BY DEF DocumentObjects, Errors
<1>3. PicklesObjects(f) \subseteq Object  BY DEF PicklesObjects, Json
<1>4. PickleObjects(f, i) \subseteq Object
  BY DEF PickleObjects, PickleStep, Steps
<1>5. \A k \in Nat : Messages(f, i, k) \subseteq Object  BY DEF Messages
<1> QED  BY <1>1, <1>2, <1>3, <1>4, <1>5

LEMMA InitObjects == Init => ObjectsInv
<1> SUFFICES ASSUME Init PROVE ObjectsInv  OBVIOUS
<1> USE DEF Init
<1>0. Files \in Seq(File)  BY FileListsAssumption
<1>1. TypeOK
  <2>1. alive \subseteq Object
    BY DEF Object, Kinds, Runner, Obj, FilenamesFrom, Filename
  <2> QED  BY <1>0, <2>1 DEF TypeOK, Places
<1>2. Positions  BY DEF Positions, InPickles, InPickle
<1>3. NothingLeaks
  BY DEF NothingLeaks, Held, HasName, InDocument, InPickles, InPickle
<1> QED  BY <1>1, <1>2, <1>3 DEF ObjectsInv, NoFault

LEMMA CallRunObjects ==
  ASSUME ObjectsInv, CallRun
  PROVE  ObjectsInv'
<1> USE DEF CallRun, position
<1>0. TypeOK /\ Positions /\ NothingLeaks /\ NoFault  BY DEF ObjectsInv
<1>1. Positions'
  BY <1>0 DEF Positions, InPickles, InPickle
<1>2. NothingLeaks'
  BY <1>0 DEF NothingLeaks, Held, InPickles, InPickle, InDocument, HasName,
     FilenamesFrom
<1>3. NoFault'
  BY <1>0 DEF NoFault
<1>4. TypeOK'
  <2>1. alive' \subseteq Object /\ faults' \subseteq Object
    BY <1>0 DEF TypeOK
  <2> QED  BY <1>0 DEF TypeOK, Places
<1> QED  BY <1>1, <1>2, <1>3, <1>4 DEF ObjectsInv

LEMMA NextFileObjects ==
  ASSUME ObjectsInv, NextFile
  PROVE  ObjectsInv'
<1> USE DEF NextFile, position
<1>0. TypeOK /\ Positions /\ NothingLeaks /\ NoFault  BY DEF ObjectsInv
<1>1. Positions'
  BY <1>0 DEF TypeOK, Positions, InPickles, InPickle
<1>a. feature_files + 1 \in DOMAIN Files  BY <1>0, FilesType DEF TypeOK
<1>2. NothingLeaks'
  <2> USE <1>0 DEF NothingLeaks, Held, Memory, InPickles, InPickle, InDocument, HasName
  <2>1. CASE running
    <3>1. FilenamesFrom(feature_files + 1)
            = {Filename(feature_files + 1)} \cup FilenamesFrom((feature_files + 1) + 1)
      BY <1>a, FilenamesSplit
    <3>2. FilenamesFrom(feature_files + 1)' = FilenamesFrom((feature_files + 1) + 1)
      BY <1>a, FilesType DEF FilenamesFrom, Filename
    <3>3. Filename(file)' = Filename(feature_files + 1)  BY DEF Filename
    <3>4. Runner' = Runner  BY DEF Runner, Obj
    <3> QED  BY <3>1, <3>2
  <2>2. CASE ~running
    <3>1. alive = {}  BY <2>2
    <3>2. alive' = {Filename(feature_files + 1)}  BY <2>2, <3>1
    <3>3. Held' = {Filename(feature_files + 1)}  BY <2>2 DEF Filename
    <3> QED  BY <3>2, <3>3
  <2> QED  BY <2>1, <2>2
<1>3. NoFault'
  BY <1>0 DEF NothingLeaks, Held, NoFault, HasName, Memory, Obj, Filename,
     DocumentObjects, Errors, Json, PickleObjects, PickleStep
<1>4. TypeOK'
  <2>1. {Filename(feature_files + 1)} \subseteq Object
    BY <1>0, <1>a, ObjectTypes
  <2>2. alive' \subseteq Object /\ faults' \subseteq Object
    BY <1>0, <1>3, <2>1 DEF TypeOK, Memory, NoFault
  <2> QED  BY <1>0, <2>2 DEF TypeOK, Positions, InPickles, Places
<1> QED  BY <1>1, <1>2, <1>3, <1>4 DEF ObjectsInv

LEMMA ReturnObjects ==
  ASSUME ObjectsInv, Return
  PROVE  ObjectsInv'
<1> USE DEF Return, position
<1>0. TypeOK /\ Positions /\ NothingLeaks /\ NoFault  BY DEF ObjectsInv
<1>1. Positions'
  BY <1>0 DEF Positions, InPickles, InPickle
<1>2. NothingLeaks'
  BY <1>0 DEF NothingLeaks, Held, InPickles, InPickle, InDocument, HasName,
     Memory, FilenamesFrom
<1>3. NoFault'
  BY <1>0 DEF NothingLeaks, Held, NoFault, Memory
<1>4. TypeOK'
  <2>1. alive' \subseteq Object /\ faults' \subseteq Object
    BY <1>0, <1>3 DEF TypeOK, Memory, NoFault
  <2> QED  BY <1>0, <2>1 DEF TypeOK, Places
<1> QED  BY <1>1, <1>2, <1>3, <1>4 DEF ObjectsInv

LEMMA DocumentNewObjects ==
  ASSUME ObjectsInv, DocumentNew
  PROVE  ObjectsInv'
<1> USE DEF DocumentNew, position
<1>0. TypeOK /\ Positions /\ NothingLeaks /\ NoFault  BY DEF ObjectsInv
<1>1. Positions'
  BY <1>0 DEF Positions, InPickles, InPickle
<1>2. NothingLeaks'
  BY <1>0 DEF NothingLeaks, Held, InPickles, InPickle, InDocument, HasName,
     Memory, FilenamesFrom, DocumentObjects, Errors, Valid
<1>3. NoFault'
  BY <1>0 DEF NothingLeaks, Held, NoFault, InDocument, HasName, Memory, Runner,
     Obj, Filename, FilenamesFrom, DocumentObjects, Errors, Json,
     PickleObjects, PickleStep
<1>4. TypeOK'
  <2>1. alive' \subseteq Object /\ faults' \subseteq Object
    BY <1>0, ObjectTypes DEF TypeOK, Positions, Memory
  <2> QED  BY <1>0, <2>1 DEF TypeOK, Places
<1> QED  BY <1>1, <1>2, <1>3, <1>4 DEF ObjectsInv

LEMMA GetPicklesObjects ==
  ASSUME ObjectsInv, GetPickles
  PROVE  ObjectsInv'
<1> USE DEF GetPickles, position
<1>0. TypeOK /\ Positions /\ NothingLeaks /\ NoFault  BY DEF ObjectsInv
<1>1. Positions'
  BY <1>0 DEF Positions, InPickles, InPickle, Valid
<1>2. NothingLeaks'
  BY <1>0, FileType DEF NothingLeaks, Held, Positions, InPickles, InPickle,
     InDocument, HasName, Memory, FilenamesFrom, DocumentObjects,
     PicklesObjects, Scenarios, Valid
<1>3. NoFault'
  BY <1>0 DEF NothingLeaks, Held, NoFault, InPickles, InDocument, Memory,
     Runner, Obj, Filename, FilenamesFrom, DocumentObjects, PicklesObjects,
     Json, PickleObjects, PickleStep
<1>4. TypeOK'
  <2>1. alive' \subseteq Object /\ faults' \subseteq Object
    BY <1>0, <1>3, ObjectTypes DEF TypeOK, Positions, Memory, NoFault
  <2> QED  BY <1>0, <2>1 DEF TypeOK, Positions, Places
<1> QED  BY <1>1, <1>2, <1>3, <1>4 DEF ObjectsInv

LEMMA GetErrorsObjects ==
  ASSUME ObjectsInv, GetErrors
  PROVE  ObjectsInv'
<1> USE DEF GetErrors, position
<1>0. TypeOK /\ Positions /\ NothingLeaks /\ NoFault  BY DEF ObjectsInv
<1>1. Positions'
  BY <1>0 DEF Positions, InPickles, InPickle, Valid
<1>2. NothingLeaks'
  BY <1>0 DEF NothingLeaks, Held, InPickles, InPickle, InDocument, HasName,
     Memory, FilenamesFrom, DocumentObjects, Errors, Valid
<1>3. NoFault'
  BY <1>0 DEF NothingLeaks, Held, NoFault, InDocument, Memory, DocumentObjects
<1>4. TypeOK'
  <2>1. alive' \subseteq Object /\ faults' \subseteq Object
    BY <1>0, <1>3 DEF TypeOK, Memory, NoFault
  <2> QED  BY <1>0, <2>1 DEF TypeOK, Places
<1> QED  BY <1>1, <1>2, <1>3, <1>4 DEF ObjectsInv

LEMMA PrintErrorObjects ==
  ASSUME ObjectsInv, PrintError
  PROVE  ObjectsInv'
<1> USE DEF PrintError, position
<1>0. TypeOK /\ Positions /\ NothingLeaks /\ NoFault  BY DEF ObjectsInv
<1>1. Positions'
  BY <1>0 DEF Positions, InPickles, InPickle, Valid
<1>2. NothingLeaks'
  BY <1>0 DEF NothingLeaks, Held, InPickles, InPickle, InDocument, HasName,
     Memory, FilenamesFrom, DocumentObjects, Errors, Valid
<1>3. NoFault'
  BY <1>0, FileType DEF NothingLeaks, Held, NoFault, Positions, InDocument,
     Memory, DocumentObjects, Errors, Valid
<1>4. TypeOK'
  <2>1. alive' \subseteq Object /\ faults' \subseteq Object
    BY <1>0, <1>3 DEF TypeOK, Memory, NoFault
  <2> QED  BY <1>0, <2>1 DEF TypeOK
<1> QED  BY <1>1, <1>2, <1>3, <1>4 DEF ObjectsInv

LEMMA PickleNewObjects ==
  ASSUME ObjectsInv, PickleNew
  PROVE  ObjectsInv'
<1> USE DEF PickleNew, position
<1>0. TypeOK /\ Positions /\ NothingLeaks /\ NoFault  BY DEF ObjectsInv
<1>1. Positions'
  BY <1>0 DEF TypeOK, Positions, InPickles, Valid, Scenarios
<1>2. NothingLeaks'
  BY <1>0, FileType DEF NothingLeaks, Held, Positions, InPickles, InPickle,
     InDocument, HasName, Memory, Runner, Obj, Filename, FilenamesFrom,
     DocumentObjects, Json, PickleObjects, PickleStep, Steps, Scenarios, Valid
<1>3. NoFault'
  <2>0. scenario \in Scenarios(file) /\ file \in DOMAIN Files
    BY <1>0 DEF TypeOK, Scenarios
  <2>1. Json(file, scenario) \in alive
    BY <1>0, <2>0 DEF NothingLeaks, Held, InPickles, InPickle
  <2>2. ASSUME NEW o \in PickleObjects(file, scenario) PROVE o \notin alive
    <3>1. o[1] \in {"pickle", "id", "name", "steps", "step"}
      BY DEF PickleObjects, PickleStep
    <3>2. \A a \in alive : a[1] \notin {"pickle", "id", "name", "steps", "step"}
      BY <1>0 DEF NothingLeaks, Held, InPickle, Runner, Obj, Filename,
         FilenamesFrom, DocumentObjects, Errors, Json
    <3> QED  BY <3>1, <3>2
  <2> QED  BY <1>0, <2>1, <2>2 DEF NoFault, Memory
<1>4. TypeOK'
  <2>1. alive' \subseteq Object /\ faults' \subseteq Object
    BY <1>0, <1>3, ObjectTypes DEF TypeOK, Memory, NoFault
  <2> QED  BY <1>0, <2>1 DEF TypeOK, Places
<1> QED  BY <1>1, <1>2, <1>3, <1>4 DEF ObjectsInv

LEMMA FirstStepObjects ==
  ASSUME ObjectsInv, FirstStep
  PROVE  ObjectsInv'
<1> USE DEF FirstStep, position
<1>0. TypeOK /\ Positions /\ NothingLeaks /\ NoFault  BY DEF ObjectsInv
<1>1. Positions'
  BY <1>0, FileType DEF Positions, InPickles, InPickle, Valid, Scenarios, Steps
<1>2. NothingLeaks'
  BY <1>0 DEF NothingLeaks, Held, InPickles, InPickle, InDocument, HasName,
     Memory, FilenamesFrom, DocumentObjects, Errors, PickleObjects, Steps,
     Scenarios, Valid
<1>3. NoFault'
  BY <1>0 DEF NothingLeaks, Held, NoFault, InPickle, Memory, PickleObjects
<1>4. TypeOK'
  <2>1. alive' \subseteq Object /\ faults' \subseteq Object
    BY <1>0, <1>3 DEF TypeOK, Memory, NoFault
  <2> QED  BY <1>0, <2>1 DEF TypeOK, Places
<1> QED  BY <1>1, <1>2, <1>3, <1>4 DEF ObjectsInv

LEMMA BeginStepObjects ==
  ASSUME ObjectsInv, BeginStep
  PROVE  ObjectsInv'
<1> USE DEF BeginStep, position
<1>0. TypeOK /\ Positions /\ NothingLeaks /\ NoFault  BY DEF ObjectsInv
<1>1. Positions'
  BY <1>0, FileType DEF Positions, InPickles, InPickle, Valid, Scenarios, Steps
<1>2. NothingLeaks'
  BY <1>0 DEF NothingLeaks, Held, InPickles, InPickle, InDocument, HasName,
     Memory, FilenamesFrom, DocumentObjects, Errors, PickleObjects, Steps,
     Scenarios, Valid
<1>3. NoFault'
  <2>1. PickleStep(file, scenario, step) \in alive
    BY <1>0, FileType DEF NothingLeaks, Held, Positions, InPickles, InPickle,
       PickleObjects, Steps, Scenarios
  <2>2. ASSUME NEW o \in Messages(file, scenario, step) PROVE o \notin alive
    <3>1. o[1] \in {"success_messages", "failure_messages"}  BY DEF Messages
    <3>2. \A a \in alive : a[1] \notin {"success_messages", "failure_messages"}
      BY <1>0 DEF NothingLeaks, Held, Runner, Obj, Filename, FilenamesFrom,
         DocumentObjects, Errors, Json, PickleObjects, PickleStep
    <3> QED  BY <3>1, <3>2
  <2> QED  BY <1>0, <2>1, <2>2 DEF NoFault, Memory
<1>4. TypeOK'
  <2>0. file \in DOMAIN Files /\ scenario \in Nat /\ step \in Nat
    BY <1>0, FileType DEF TypeOK, Positions, InPickles, InPickle, Scenarios
  <2>1. alive' \subseteq Object /\ faults' \subseteq Object
    BY <1>0, <1>3, <2>0, ObjectTypes DEF TypeOK, Memory, NoFault
  <2> QED  BY <1>0, <2>1 DEF TypeOK, Places
<1> QED  BY <1>1, <1>2, <1>3, <1>4 DEF ObjectsInv

LEMMA NextStepObjects ==
  ASSUME ObjectsInv, NextStep
  PROVE  ObjectsInv'
<1> USE DEF NextStep, position, FollowingStep
<1>0. TypeOK /\ Positions /\ NothingLeaks /\ NoFault  BY DEF ObjectsInv
<1>1. Positions'
  BY <1>0, FileType DEF Positions, InPickles, InPickle, Valid, Scenarios, Steps
<1>2. NothingLeaks'
  <2> DEFINE own == Messages(file, scenario, step)
             out == Output(file, scenario, step)
  <2>1. Held = Held' \cup own
    BY <1>0 DEF Held, InPickles, InPickle, InDocument, HasName, FilenamesFrom,
       DocumentObjects, Errors, PickleObjects, Steps, Scenarios, Valid
  <2>2. \A o \in own \cup {out} :
          o[1] \in {"success_messages", "failure_messages", "output"}
    BY DEF Messages, Output
  <2>3. \A o \in Held' :
          o[1] \notin {"success_messages", "failure_messages", "output"}
    BY DEF Held, Runner, Obj, Filename, FilenamesFrom, DocumentObjects, Errors,
       Json, PickleObjects, PickleStep
  <2> QED  BY <1>0, <2>1, <2>2, <2>3 DEF NothingLeaks, Memory
<1>3. NoFault'
  <2>1. {PickleStep(file, scenario, step), <<"steps", file, scenario, 0>>}
          \subseteq alive
    BY <1>0, FileType DEF NothingLeaks, Held, Positions, InPickles, InPickle,
       PickleObjects, Steps, Scenarios
  <2>2. Messages(file, scenario, step) \subseteq alive
    BY <1>0 DEF NothingLeaks, Held
  <2>3. Output(file, scenario, step) \notin alive
    <3>1. Output(file, scenario, step)[1] = "output"  BY DEF Output
    <3>2. \A a \in alive : a[1] # "output"
      BY <1>0 DEF NothingLeaks, Held, Runner, Obj, Filename, FilenamesFrom,
         DocumentObjects, Errors, Json, PickleObjects, PickleStep, Messages
    <3> QED  BY <3>1, <3>2
  <2> QED  BY <1>0, <2>1, <2>2, <2>3 DEF NoFault, Memory
<1>4. TypeOK'
  <2>1. alive' \subseteq Object /\ faults' \subseteq Object
    <3>1. alive' \subseteq alive  BY DEF Memory
    <3> QED  BY <1>0, <1>3, <3>1 DEF TypeOK, NoFault
  <2>2. step' \in Nat  BY <1>0 DEF TypeOK
  <2> QED  BY <1>0, <2>1, <2>2 DEF TypeOK, Places
<1> QED  BY <1>1, <1>2, <1>3, <1>4 DEF ObjectsInv

LEMMA PickleDestroyObjects ==
  ASSUME ObjectsInv, PickleDestroy
  PROVE  ObjectsInv'
<1> USE DEF PickleDestroy, position
<1>0. TypeOK /\ Positions /\ NothingLeaks /\ NoFault  BY DEF ObjectsInv
<1>1. Positions'
  BY <1>0 DEF Positions, InPickles, InPickle, Valid
<1>2. NothingLeaks'
  <2>0. file \in DOMAIN Files /\ scenario \in Scenarios(file)
    BY <1>0 DEF Positions, InPickles, InPickle
  <2>1. Scenarios(file) = 1..Len(Files[file].scenarios)
        /\ Len(Files[file].scenarios) \in Nat
    BY <1>0, <2>0, FileType DEF Scenarios
  <2> DEFINE Rest == {Json(file, i) : i \in {j \in Scenarios(file) : j > scenario}}
             Others == (IF running THEN Runner \cup FilenamesFrom(feature_files + 1) ELSE {})
                       \cup {Filename(file)} \cup DocumentObjects(file)
                       \cup {Obj("pickles", file)}
  <2>2. alive = Others \cup Rest \cup PickleObjects(file, scenario)
    <3>1. {j \in Scenarios(file) : j > scenario \/ (j = scenario /\ ~InPickle)}
            = {j \in Scenarios(file) : j > scenario}
      BY DEF InPickle
    <3> QED
      BY <1>0, <2>0, <2>1, <3>1 DEF NothingLeaks, Held, InPickles, InDocument,
         HasName
  <2>3. PickleObjects(file, scenario) \cap (Others \cup Rest) = {}
    <3>1. \A o \in PickleObjects(file, scenario) :
            o[1] \in {"pickle", "id", "name", "steps", "step"}
      BY DEF PickleObjects, PickleStep
    <3>2. \A o \in Others \cup Rest :
            o[1] \notin {"pickle", "id", "name", "steps", "step"}
      BY DEF Runner, Obj, Filename, FilenamesFrom, DocumentObjects, Errors,
         Json
    <3> QED  BY <3>1, <3>2
  <2>4. alive' = Others \cup Rest  BY <2>2, <2>3 DEF Memory
  <2>5. Held' = Others \cup Rest
    <3>1. CASE scenario = Len(Files[file].scenarios)
      <4>1. Rest = {}  BY <2>0, <2>1, <3>1
      <4>2. scenario' = 0  BY <3>1
      <4>3. Others' = Others
        BY DEF FilenamesFrom, DocumentObjects, Errors, Valid
      <4> QED
        BY <4>1, <4>2, <4>3 DEF Held, InPickles, InPickle, InDocument, HasName
    <3>2. CASE scenario # Len(Files[file].scenarios)
      <4>1. scenario' = scenario + 1 /\ scenario' # 0  BY <2>0, <2>1, <3>2
      <4>2. {j \in Scenarios(file) :
               j > scenario' \/ (j = scenario' /\ ~InPickle')}
              = {j \in Scenarios(file) : j > scenario}
        BY <2>0, <2>1, <4>1 DEF InPickle
      <4>3. Others' = Others
        BY DEF FilenamesFrom, DocumentObjects, Errors, Valid
      <4>4. Scenarios(file)' = Scenarios(file)  BY DEF Scenarios
      <4> QED
        BY <4>1, <4>2, <4>3, <4>4 DEF Held, InPickles, InPickle, InDocument,
           HasName
    <3> QED  BY <3>1, <3>2
  <2> QED  BY <2>4, <2>5 DEF NothingLeaks
<1>3. NoFault'
  BY <1>0 DEF NothingLeaks, Held, NoFault, InPickles, InPickle, Memory
<1>4. TypeOK'
  <2>1. alive' \subseteq Object /\ faults' \subseteq Object
    BY <1>0, <1>3 DEF TypeOK, Memory, NoFault
  <2> QED  BY <1>0, <2>1 DEF TypeOK, Positions, Places
<1> QED  BY <1>1, <1>2, <1>3, <1>4 DEF ObjectsInv

LEMMA PicklesDestroyObjects ==
  ASSUME ObjectsInv, PicklesDestroy
  PROVE  ObjectsInv'
<1> USE DEF PicklesDestroy, position
<1>0. TypeOK /\ Positions /\ NothingLeaks /\ NoFault  BY DEF ObjectsInv
<1>1. Positions'
  BY <1>0 DEF Positions, InPickles, InPickle
<1>2. NothingLeaks'
  BY <1>0 DEF NothingLeaks, Held, Positions, InPickles, InPickle, InDocument,
     HasName, Memory, Runner, Obj, Filename, FilenamesFrom, DocumentObjects,
     Valid
<1>3. NoFault'
  BY <1>0 DEF NothingLeaks, Held, NoFault, InPickles, Memory
<1>4. TypeOK'
  <2>1. alive' \subseteq Object /\ faults' \subseteq Object
    BY <1>0, <1>3 DEF TypeOK, Memory, NoFault
  <2> QED  BY <1>0, <2>1 DEF TypeOK, Places
<1> QED  BY <1>1, <1>2, <1>3, <1>4 DEF ObjectsInv

LEMMA DocumentDestroyObjects ==
  ASSUME ObjectsInv, DocumentDestroy
  PROVE  ObjectsInv'
<1> USE DEF DocumentDestroy, position
<1>0. TypeOK /\ Positions /\ NothingLeaks /\ NoFault  BY DEF ObjectsInv
<1>1. Positions'
  BY <1>0 DEF Positions, InPickles, InPickle
<1>2. NothingLeaks'
  BY <1>0 DEF NothingLeaks, Held, InPickles, InPickle, InDocument, HasName,
     Memory, Runner, Obj, Filename, FilenamesFrom, DocumentObjects, Errors
<1>3. NoFault'
  BY <1>0 DEF NothingLeaks, Held, NoFault, InDocument, Memory
<1>4. TypeOK'
  <2>1. alive' \subseteq Object /\ faults' \subseteq Object
    BY <1>0, <1>3 DEF TypeOK, Memory, NoFault
  <2> QED  BY <1>0, <2>1 DEF TypeOK, Places
<1> QED  BY <1>1, <1>2, <1>3, <1>4 DEF ObjectsInv

LEMMA FreeFilenameObjects ==
  ASSUME ObjectsInv, FreeFilename
  PROVE  ObjectsInv'
<1> USE DEF FreeFilename, position
<1>0. TypeOK /\ Positions /\ NothingLeaks /\ NoFault  BY DEF ObjectsInv
<1>1. Positions'
  BY <1>0 DEF Positions, InPickles, InPickle
<1>2. NothingLeaks'
  BY <1>0 DEF NothingLeaks, Held, Positions, InPickles, InPickle, InDocument,
     HasName, Memory, Runner, Obj, Filename, FilenamesFrom, DocumentObjects,
     Errors, Valid
<1>3. NoFault'
  BY <1>0 DEF NothingLeaks, Held, NoFault, HasName, Memory
<1>4. TypeOK'
  <2>1. alive' \subseteq Object /\ faults' \subseteq Object
    BY <1>0, <1>3 DEF TypeOK, Memory, NoFault
  <2> QED  BY <1>0, <2>1 DEF TypeOK, Places
<1> QED  BY <1>1, <1>2, <1>3, <1>4 DEF ObjectsInv

LEMMA RunnerDestroyObjects ==
  ASSUME ObjectsInv, RunnerDestroy
  PROVE  ObjectsInv'
<1> USE DEF RunnerDestroy, position
<1>0. TypeOK /\ Positions /\ NothingLeaks /\ NoFault  BY DEF ObjectsInv
<1>1. Positions'
  BY <1>0 DEF Positions, InPickles, InPickle
<1>2. NothingLeaks'
  BY <1>0 DEF NothingLeaks, Held, InPickles, InPickle, InDocument, HasName,
     Memory
<1>3. NoFault'
  BY <1>0 DEF NothingLeaks, Held, NoFault, Positions, Memory
<1>4. TypeOK'
  <2>1. alive' \subseteq Object /\ faults' \subseteq Object
    BY <1>0, <1>3 DEF TypeOK, Memory, NoFault
  <2> QED  BY <1>0, <2>1 DEF TypeOK, Places
<1> QED  BY <1>1, <1>2, <1>3, <1>4 DEF ObjectsInv

LEMMA NextObjects == ObjectsInv /\ [Next]_vars => ObjectsInv'
<1> SUFFICES ASSUME ObjectsInv, [Next]_vars PROVE ObjectsInv'  OBVIOUS
<1>1. CASE UNCHANGED vars
  <2>1. ObjectsInv  OBVIOUS
  <2> QED
    BY <1>1 DEF vars, position, ObjectsInv, TypeOK, Positions, NothingLeaks,
       NoFault, Held, HasName, InDocument, InPickles, InPickle, FilenamesFrom,
       DocumentObjects, Errors, Valid, Scenarios, PickleObjects, Steps
<1> QED
  BY <1>1, CallRunObjects, NextFileObjects, ReturnObjects, DocumentNewObjects,
     GetPicklesObjects, GetErrorsObjects, PrintErrorObjects, PickleNewObjects,
     FirstStepObjects, BeginStepObjects, NextStepObjects, PickleDestroyObjects,
     PicklesDestroyObjects, DocumentDestroyObjects, FreeFilenameObjects,
     RunnerDestroyObjects DEF Next, Exited

THEOREM ObjectsInvariance == Spec => []ObjectsInv
BY InitObjects, NextObjects, PTL DEF Spec

(***************************************************************************)
(* Every variable keeps its type: the elements of lists that the thread is *)
(* at exist.                                                               *)
(***************************************************************************)
THEOREM ObjectsTypeCorrectness == Spec => []TypeOK
<1>1. ObjectsInv => TypeOK  BY DEF ObjectsInv
<1> QED  BY <1>1, ObjectsInvariance, PTL

(***************************************************************************)
(* No object is read or freed when it is not allocated, or allocated twice.*)
(***************************************************************************)
THEOREM NoObjectMisused == Spec => []NoFault
<1>1. ObjectsInv => NoFault  BY DEF ObjectsInv
<1> QED  BY <1>1, ObjectsInvariance, PTL

(***************************************************************************)
(* At each place exactly what is still needed is allocated.                *)
(***************************************************************************)
THEOREM NoObjectLeaks == Spec => []NothingLeaks
<1>1. ObjectsInv => NothingLeaks  BY DEF ObjectsInv
<1> QED  BY <1>1, ObjectsInvariance, PTL
=============================================================================
