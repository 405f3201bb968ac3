------------------------------ MODULE Gherkin ------------------------------
(***************************************************************************)
(* Feature files as the runner sees them: what cuc_gherkin_doc.c keeps of  *)
(* a parsed feature file, and what cuc_pickle.c keeps of one scenario.     *)
(* The parser and the compiler that turn text into pickles are libraries   *)
(* (gherkin-c, cJSON): a file is described by their result.                *)
(***************************************************************************)
EXTENDS Naturals, Sequences

CONSTANTS
  Ids,     \* identifiers the Gherkin compiler gives to pickles
  Names,   \* names of scenarios, as written in the feature file
  Texts    \* texts of steps

(***************************************************************************)
(* struct _cuc_pickle_t: its id, its name, its steps in order.             *)
(***************************************************************************)
Pickle == [id : Ids, name : Names, steps : Seq(Texts)]

(***************************************************************************)
(* struct _cuc_gherkin_doc_t: the number of parse errors, and the pickles  *)
(* the document compiles to.  A document is valid when the parser returned *)
(* 0, that is, when it met no error; only then does it have pickles.       *)
(***************************************************************************)
Document == [errors : Nat, pickles : Seq(Pickle)]

GherkinDocumentValid(doc) == doc.errors = 0

(***************************************************************************)
(* pickle_id returns self->name, not self->id.                             *)
(***************************************************************************)
PickleId(pickle) == pickle.name
=============================================================================
