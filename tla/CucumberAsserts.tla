-------------------------- MODULE CucumberAsserts --------------------------
(***************************************************************************)
(* The values that assert_that_... compares and prints: cucumber_asserts.h *)
(* and cucumber_asserts.c.  Every type has an _equals, which is C's ==, a  *)
(* _to_string with the printf conversion the macros name, and an           *)
(* assert_that_ of its own.                                                *)
(*                                                                         *)
(* A value is a number, and a string that was printed is the sequence of   *)
(* the numbers one reads in it: one, or none.  A floating point value is   *)
(* counted in tenth parts of what %f prints last.  The widths are those of *)
(* the program, scaled down: an int has IntBits bits.                      *)
(*                                                                         *)
(* bool is left out: it is a macro of C, so that the functions the macros  *)
(* declare for it are _Bool_to_string and _Bool_equals, and no program     *)
(* links that uses assert_that_bool.                                       *)
(***************************************************************************)
EXTENDS Integers

CONSTANT IntBits   \* the width of an int

ASSUME IntBitsAssumption == IntBits \in Nat \ {0}

(* The types, by the conversion __compare_declaration gives them. *)
Conversion ==
  [char |-> "%c", short |-> "%i", int |-> "%i", long |-> "%l",
   float |-> "%f", double |-> "%f", size_t |-> "%zu",
   int8_t |-> "%zu", int16_t |-> "%zu", int32_t |-> "%zu", int64_t |-> "%zu",
   uint8_t |-> "%zu", uint16_t |-> "%zu", uint32_t |-> "%zu",
   uint64_t |-> "%zu", str |-> "strdup"]

Types == DOMAIN Conversion

(* What is passed in the width of an int where a size_t is printed. *)
PassedAsInt ==
  {"int8_t", "int16_t", "int32_t", "uint8_t", "uint16_t", "uint32_t"}

(***************************************************************************)
(* __to_string: the strings that can come out.                             *)
(*   - An int printed as a size_t is its own bits below bits that nobody   *)
(*     has set: they are zero, or anything else.                           *)
(*   - An int64_t printed as a size_t is its value without sign.           *)
(*   - "%l" names no conversion: vsnprintf returns -1, needed + 1 is 0,    *)
(*     and the string stays empty.                                         *)
(*   - %f rounds.                                                          *)
(***************************************************************************)
Unsigned(value, bits) == value % (2 ^ bits)

Numbers(type, value) ==
  CASE Conversion[type] = "%zu" /\ type \in PassedAsInt
         -> {Unsigned(value, IntBits) + above * (2 ^ IntBits) : above \in {0, 1}}
    [] Conversion[type] = "%zu" /\ type \notin PassedAsInt
         -> {Unsigned(value, 2 * IntBits)}
    [] Conversion[type] = "%f" -> {(value + 5) \div 10}
    [] OTHER -> {value}

Printed(type, value) ==
  IF Conversion[type] = "%l" THEN {<<>>}
  ELSE {<<number>> : number \in Numbers(type, value)}

(* ..._equals, and the matchers an application writes itself. *)
Equals(actual, expected) == actual = expected
=============================================================================
