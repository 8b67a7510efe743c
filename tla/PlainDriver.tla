---------------------------- MODULE PlainDriver ----------------------------
(***************************************************************************)
(* What a driver promises the virtual machine (VmDriver, and Ops inside a  *)
(* permutation): every call yields the values its arithmetic denotes. The  *)
(* plain driver is this promise itself: its shares are the values. The     *)
(* registers are the values the machine has obtained, in order.            *)
(***************************************************************************)
EXTENDS Integers, Sequences, SequencesExt

CONSTANTS
  P,          \* the field's modulus, a prime
  Starts,     \* the register files a run starts from: the secret inputs
  PublicValues,
  Window,     \* bound: operands are among the last registers
  BitCounts,  \* the numbers of bits a decomposition may have
  Pairs,      \* an alias check takes its bits in pairs; the code has 127
  Limit,      \* the bits it compares with, the least significant first
  AliasSites  \* bound: the inputs of an alias check, as places among the last registers

VARIABLES
  regs,       \* the values obtained so far
  opened      \* the last values revealed to everyone

vars == <<regs, opened>>

Field == 0 .. (P - 1)

Operands == (Len(regs) - Window + 1) .. Len(regs)

(* Operand vectors: a call serves a whole batch.                           *)
Vectors == {<<i>> : i \in Operands} \cup {<<i, j>> : i, j \in Operands}

(* The inputs of all sites of an alias check, one site after the other.    *)
AliasVectors == {[n \in DOMAIN places |-> Len(regs) - Window + places[n]] : places \in AliasSites}

FieldInverse(x) == CHOOSE y \in Field : (x * y) % P = 1

Flag(x) == IF x = 0 THEN 1 ELSE 0

Helper(x) == IF x = 0 THEN 0 ELSE FieldInverse(x)

Init == regs \in Starts /\ opened = <<>>

Obtain(results) == regs' = regs \o results

Local(results) == Obtain(results) /\ UNCHANGED opened

Promote(v) == Local(<<v>>)

AddSS(i, j) == Local(<<(regs[i] + regs[j]) % P>>)
SubSS(i, j) == Local(<<(regs[i] - regs[j]) % P>>)
AddSP(i, v) == Local(<<(regs[i] + v) % P>>)
SubSP(i, v) == Local(<<(regs[i] - v) % P>>)
SubPS(v, i) == Local(<<(v - regs[i]) % P>>)
MulSP(i, v) == Local(<<(regs[i] * v) % P>>)

MulVec(lhs, rhs) == Local([n \in DOMAIN lhs |-> (regs[lhs[n]] * regs[rhs[n]]) % P])

Open(xs) == opened' = [n \in DOMAIN xs |-> regs[xs[n]]] /\ UNCHANGED regs

Sbox(x) == LET x2 == x * x
               x4 == x2 * x2
           IN  <<x2 % P, x4 % P, (x * x4) % P>>

(* Square, fourth power and fifth power of every element.                  *)
SboxLayer(xs) ==
  Local(FlattenSeq([n \in DOMAIN xs |-> Sbox(regs[xs[n]])]))

(* Whether a value is zero, and the helper signal of the constraint.       *)
IsZeroTraces(xs) ==
  Local(FlattenSeq([n \in DOMAIN xs |-> <<Flag(regs[xs[n]]), Helper(regs[xs[n]])>>]))

IsZeroRevealTraces(xs) ==
  /\ Obtain(FlattenSeq([n \in DOMAIN xs |-> <<Flag(regs[xs[n]]), Helper(regs[xs[n]])>>]))
  /\ opened' = [n \in DOMAIN xs |-> Flag(regs[xs[n]])]

-----------------------------------------------------------------------------
(* Decompositions into bits, and alias checks.                             *)

BitOf(x, j) == IF (x \div 2 ^ (j - 1)) % 2 = 1 THEN 1 ELSE 0

BitsOf(x, count) == [j \in 1 .. count |-> BitOf(x, j)]

Num2BitsTraces(count, xs) ==
  Local(FlattenSeq([n \in DOMAIN xs |-> BitsOf(regs[xs[n]], count)]))

(* The weights after n pairs: a doubles, and b falls by as much as a grows.*)
Weights[n \in 0 .. Pairs] ==
  IF n = 0 THEN [a |-> 1, b |-> 2 ^ (Pairs + 1) - 1, e |-> 1]
  ELSE LET w == Weights[n - 1]
       IN  [a |-> w.a + w.e, b |-> w.b - w.e, e |-> w.e + w.e]

(* What the n-th pair adds, given the limit's bits there.                  *)
Part(n, high, low) ==
  LET w == Weights[n - 1]
  IN  CASE Limit[2 * n] = 0 /\ Limit[2 * n - 1] = 0 ->
             ((-w.b) * (high * low) + w.b * high + w.b * low) % P
        [] Limit[2 * n] = 0 /\ Limit[2 * n - 1] = 1 ->
             (w.a * (high * low) - w.a * low + w.b * high - w.a * high + w.a) % P
        [] Limit[2 * n] = 1 /\ Limit[2 * n - 1] = 0 ->
             (w.b * (high * low) - w.a * high + w.a) % P
        [] Limit[2 * n] = 1 /\ Limit[2 * n - 1] = 1 ->
             ((-w.a) * (high * low) + w.a) % P

(* The parts added up.                                                     *)
SumOf(parts) ==
  LET sum[n \in 0 .. Pairs] == IF n = 0 THEN 0 ELSE (sum[n - 1] + parts[n]) % P
  IN  sum[Pairs]

(* compConstant.out, a site's inputs, the parts, their sum, and the bits   *)
(* of the sum with what they are the bits of.                              *)
AliasSignals(ins, parts, sum, bits) ==
  <<bits[Pairs + 1]>> \o ins \o parts \o <<sum>> \o bits \o <<sum>>

AliasTrace(ins) ==
  LET parts == [n \in 1 .. Pairs |-> Part(n, ins[2 * n], ins[2 * n - 1])]
      sum   == SumOf(parts)
  IN  AliasSignals(ins, parts, sum, BitsOf(sum, Pairs + 8))

AliasCheckTraces(xs) ==
  Local(FlattenSeq([s \in 1 .. (Len(xs) \div (2 * Pairs)) |->
          AliasTrace([n \in 1 .. (2 * Pairs) |-> regs[xs[(s - 1) * (2 * Pairs) + n]]])]))
-----------------------------------------------------------------------------

Next ==
  \/ \E v \in PublicValues : Promote(v)
  \/ \E i, j \in Operands : AddSS(i, j) \/ SubSS(i, j)
  \/ \E i \in Operands, v \in PublicValues :
       AddSP(i, v) \/ SubSP(i, v) \/ SubPS(v, i) \/ MulSP(i, v)
  \/ \E xs, ys \in Vectors : Len(xs) = Len(ys) /\ MulVec(xs, ys)
  \/ \E xs \in Vectors :
       Open(xs) \/ SboxLayer(xs) \/ IsZeroTraces(xs) \/ IsZeroRevealTraces(xs)
  \/ \E xs \in Vectors, count \in BitCounts : Num2BitsTraces(count, xs)
  \/ \E xs \in AliasVectors : AliasCheckTraces(xs)

Spec == Init /\ [][Next]_vars
=============================================================================
