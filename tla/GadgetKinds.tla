---------------------------- MODULE GadgetKinds ----------------------------
(***************************************************************************)
(* What both sides of the system know about a gadget kind (gadget.rs): how *)
(* many operands a site takes and how many results it has. A kind is       *)
(* [tag, n]; n is the width of a permutation, the number of bits of a      *)
(* decomposition, or the number of values opened. The count of results of  *)
(* a permutation is a closed form here; the machine derives it a second    *)
(* time from the layout of its trace (PermutationTrace).                   *)
(***************************************************************************)
EXTENDS Integers

CONSTANTS
  FullRounds,     \* full rounds before, and again after, the partial ones
  PartialRounds,  \* per width, the number of partial rounds
  AliasBits       \* the operands of an alias check

Kind(tag, n) == [tag |-> tag, n |-> n]

SupportedWidths == {2, 3, 4, 8, 16}

InputsPerSite(kind) ==
  CASE kind.tag \in {"Poseidon2", "PrecomputedPoseidon2", "Reveal"} -> kind.n
    [] kind.tag \in {"Num2Bits", "IsZero", "IsZeroReveal"}          -> 1
    [] kind.tag = "AliasCheck"                                      -> AliasBits

-----------------------------------------------------------------------------
(* The signals of the permutation's templates, each with its subtree.      *)

AccSignals(n) == 2 * n + 1

ExternalLeafSignals(t) == CASE t = 2 -> 5 [] t = 3 -> 7 [] OTHER -> 18

ExternalSignals(t) ==
  2 * t + IF t \in 2 .. 4 THEN ExternalLeafSignals(t)
          ELSE (t \div 4) * 18 + 4 * AccSignals(t \div 4)

InternalSignals(t) ==
  CASE t = 2 -> 2 * t + 5
    [] t = 3 -> 2 * t + 7
    [] OTHER -> 2 * t + 1 + AccSignals(t)

FullRoundSignals(t)    == 5 * t + ExternalSignals(t) + 6 * t
PartialRoundSignals(t) == 2 * t + 3 + 4 + InternalSignals(t)

(* A state per round and one more, and every signal but the site's inputs. *)
PermutationResults(t) ==
  LET total == 2 * t + (2 * FullRounds + 1 + PartialRounds[t]) * t + ExternalSignals(t)
                 + 2 * FullRounds * FullRoundSignals(t)
                 + PartialRounds[t] * PartialRoundSignals(t)
  IN  total - t

(* The bits, the weighted parts of the comparison, and its own bits.       *)
ExpectedResults(kind) ==
  CASE kind.tag \in {"Poseidon2", "PrecomputedPoseidon2"} -> PermutationResults(kind.n)
    [] kind.tag \in {"Num2Bits", "Reveal"} -> kind.n
    [] kind.tag = "IsZero"                 -> 2
    [] kind.tag = "IsZeroReveal"           -> 3
    [] kind.tag = "AliasCheck"             ->
         (AliasBits + 1) + AliasBits \div 2 + 1 + (AliasBits \div 2 + 9)
=============================================================================
