------------------------------- MODULE Folding -------------------------------
(***************************************************************************)
(* Operators circom evaluates and the value graph has no node for          *)
(* (fold.rs): division, powers, shifts, bits and comparisons, on operands  *)
(* known at compile time. Most of them work on the representative of a     *)
(* field element between 0 and P - 1, comparisons on a signed one.         *)
(***************************************************************************)
EXTENDS Integers, SequencesExt, Bitwise

CONSTANT P      \* the field's modulus, an odd prime

ASSUME PrimeAssumption == P \in Nat /\ P > 2

(* An operand that is not known, or an operator with nothing to fold.      *)
None == -1

Truth(holds) == IF holds THEN 1 ELSE 0

Power(x, n) == FoldLeft(LAMBDA product, j : (product * x) % P, 1, [j \in 1 .. n |-> j])

(* By Fermat's little theorem.                                             *)
FieldQuotient(x, y) == (x * Power(y, P - 2)) % P

BitLength(x) == CHOOSE n \in 0 .. P : 2 ^ n > x /\ (n = 0 \/ 2 ^ (n - 1) <= x)

Removed == {"Div", "IntDiv", "Pow", "ShiftL", "ShiftR", "BitOr", "BitAnd", "BitXor"}

FoldBinary(op, x, y) ==
  CASE op = "Add"    -> (x + y) % P
    [] op = "Sub"    -> (x - y) % P
    [] op = "Mul"    -> (x * y) % P
    [] op = "Div"    -> IF y = 0 THEN None ELSE FieldQuotient(x, y)
    [] op = "IntDiv" -> IF y = 0 THEN None ELSE x \div y
    [] op = "Pow"    -> Power(x, y)
    [] op = "ShiftL" -> (x * Power(2, y)) % P
    [] op = "ShiftR" -> IF y >= BitLength(x) THEN 0 ELSE x \div 2 ^ y
    [] op = "BitOr"  -> (x | y) % P
    [] op = "BitAnd" -> (x & y) % P
    [] op = "BitXor" -> (x ^^ y) % P
    [] OTHER         -> None

(* Representatives above half of the modulus stand for negative numbers.   *)
CircomLess(x, y) ==
  LET negative(z) == z >= P \div 2 + 1
  IN  IF negative(x) = negative(y) THEN x < y ELSE negative(x)

(* Arrays are not compared.                                                *)
FoldCondition(op, x, y) ==
  CASE op = "Eq"        -> Truth(x = y)
    [] op = "NotEq"     -> Truth(x # y)
    [] op = "Lesser"    -> Truth(CircomLess(x, y))
    [] op = "Greater"   -> Truth(CircomLess(y, x))
    [] op = "LesserEq"  -> Truth(~CircomLess(y, x))
    [] op = "GreaterEq" -> Truth(~CircomLess(x, y))
    [] op = "BoolAnd"   -> Truth(x # 0 /\ y # 0)
    [] op = "BoolOr"    -> Truth(x # 0 \/ y # 0)
    [] OTHER            -> None

FoldUnaryCondition(op, x) == IF op = "BoolNot" THEN Truth(x = 0) ELSE None
=============================================================================
