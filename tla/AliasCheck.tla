----------------------------- MODULE AliasCheck -----------------------------
(***************************************************************************)
(* The trace of an alias check: whether a decomposition into bits is above *)
(* a constant (the field's modulus minus one), read off one bit of a sum.  *)
(* Bits are taken two at a time; a pair contributes one of two weights or  *)
(* nothing, and the weights change from pair to pair. The shared protocol  *)
(* computes the same parts from shared products. The code has 127 pairs.   *)
(***************************************************************************)
EXTENDS Integers, Sequences, FiniteSetsExt

CONSTANTS P, Pairs

VARIABLES
  constant, input,    \* bits, the least significant first
  i,                  \* the pairs taken
  a, b, e,            \* the weights and their step
  parts,
  out                 \* compConstant.out, once read off the sum; 2 before

aliasVars == <<constant, input, i, a, b, e, parts, out>>

Bits == [1 .. (2 * Pairs) -> {0, 1}]

ValueOf(bits) == MapThenSumSet(LAMBDA n : bits[n] * 2 ^ (n - 1), DOMAIN bits)

(* All ones, one bit wider than there are pairs.                           *)
FirstWeight == 2 ^ (Pairs + 1) - 1

AliasIdle ==
  /\ input = <<>>
  /\ i = 0
  /\ a = 1 /\ b = FirstWeight /\ e = 1
  /\ parts = <<>>
  /\ out = 2

BeginAlias(bits) ==
  /\ input' = bits
  /\ i' = 0
  /\ a' = 1 /\ b' = FirstWeight /\ e' = 1
  /\ parts' = <<>>
  /\ out' = 2
  /\ UNCHANGED constant

(* Mutant: one case forgets that both bits may be set.                     *)
Part_NoProduct(high, low, h, l) ==
  CASE high = 0 /\ low = 0 -> b * h + b * l
    [] high = 0 /\ low = 1 -> a * h * l - a * l + b * h - a * h + a
    [] high = 1 /\ low = 0 -> b * h * l - a * h + a
    [] high = 1 /\ low = 1 -> -a * h * l + a

(* What a pair of input bits adds, given the constant's bits there: the    *)
(* weight b when it is above, a when it is below, nothing when it is equal.*)
Part(high, low, h, l) ==
  CASE high = 0 /\ low = 0 -> -b * h * l + b * h + b * l
    [] high = 0 /\ low = 1 -> a * h * l - a * l + b * h - a * h + a
    [] high = 1 /\ low = 0 -> b * h * l - a * h + a
    [] high = 1 /\ low = 1 -> -a * h * l + a

TakePair ==
  /\ input # <<>> /\ i < Pairs
  /\ LET lo == 2 * i + 1
     IN  parts' = Append(parts, Part(constant[lo + 1], constant[lo],
                                     input[lo + 1], input[lo]) % P)
  /\ b' = b - e /\ a' = a + e /\ e' = e + e
  /\ i' = i + 1
  /\ UNCHANGED <<constant, input, out>>

Sum == MapThenSumSet(LAMBDA n : parts[n], DOMAIN parts) % P

(* Num2Bits of the sum, eight bits wider than there are pairs.             *)
SumBits == [n \in 1 .. (Pairs + 8) |-> (Sum \div 2 ^ (n - 1)) % 2]

ReadBit ==
  /\ i = Pairs /\ out = 2
  /\ out' = SumBits[Pairs + 1]
  /\ UNCHANGED <<constant, input, i, a, b, e, parts>>

AliasStep == TakePair \/ ReadBit

(* The site's results: compConstant.out, its inputs, the parts, their sum, *)
(* and the signals of Num2Bits.                                            *)
AliasTrace == <<out>> \o input \o parts \o <<Sum>> \o SumBits \o <<Sum>>
-----------------------------------------------------------------------------
(* Properties.                                                             *)

(* A higher pair overrules all lower ones: at any point, whatever was      *)
(* added before, the sum so far has that bit exactly when the bits taken   *)
(* so far are above the constant's. This is why the changing weights, and  *)
(* the width they start from, are right.                                   *)
Prefix(bits) == [n \in 1 .. (2 * i) |-> bits[n]]

HigherPairsOverrule ==
  i > 0 => ((Sum \div 2 ^ Pairs) % 2 = 1 <=> ValueOf(Prefix(input)) > ValueOf(Prefix(constant)))
=============================================================================
