------------------------ MODULE PermutationTemplates ------------------------
(***************************************************************************)
(* What a trace of the permutation must agree with: the signals of the     *)
(* circuit's own templates (poseidon2.circom, as poseidon2.rs describes    *)
(* it). A component is laid out as its outputs, its inputs, its own        *)
(* signals and then its subcomponents; all full rounds precede all partial *)
(* rounds, although these run between them. The layers are matrices here,  *)
(* and nothing has an address.                                             *)
(***************************************************************************)
EXTENDS GadgetKinds, Sequences, SequencesExt

CONSTANTS
  P,                          \* the field's modulus, a prime
  Full1, Partial, Full2,      \* per width, the rounds' constants, row after row
  Diagonal                    \* per width of four and more, the internal matrix's

(* The layers, as matrices over the field.                                 *)

Dot(row, xs) == MapThenSumSet(LAMBDA j : row[j] * xs[j], DOMAIN xs) % P

Times(matrix, xs) == [i \in DOMAIN matrix |-> Dot(matrix[i], xs)]

Circulant4 == <<<<5, 7, 1, 3>>, <<4, 6, 1, 1>>, <<1, 3, 5, 7>>, <<1, 1, 4, 6>>>>

(* From eight on: blocks of Circulant4, doubled on the diagonal.           *)
ExternalMatrix(t) ==
  [i \in 1 .. t |-> [j \in 1 .. t |->
     CASE t < 4 -> IF i = j THEN 2 ELSE 1
       [] t = 4 -> Circulant4[i][j]
       [] OTHER -> (IF (i - 1) \div 4 = (j - 1) \div 4 THEN 2 ELSE 1)
                     * Circulant4[((i - 1) % 4) + 1][((j - 1) % 4) + 1]]]

InternalMatrix(t) ==
  [i \in 1 .. t |-> [j \in 1 .. t |->
     CASE i # j          -> 1
       [] i = j /\ t > 3 -> 1 + Diagonal[t][i]
       [] OTHER          -> IF i = t THEN 3 ELSE 2]]

External(xs) == Times(ExternalMatrix(Len(xs)), xs)
Internal(xs) == Times(InternalMatrix(Len(xs)), xs)

Fifth(x) == (x ^ 5) % P

PlusEach(xs, cs) == [j \in DOMAIN xs |-> (xs[j] + cs[j]) % P]

Total(xs) == Dot([j \in DOMAIN xs |-> 1], xs)

-----------------------------------------------------------------------------
(* The templates, each the sequence of its signals.                        *)

Component(outs, ins, own, subs) == outs \o ins \o own \o FlattenSeq(subs)

AccTree(xs) == Component(<<Total(xs)>>, xs, [j \in DOMAIN xs |-> Total(SubSeq(xs, 1, j))], <<>>)

(* ExternalMatMul4 names ten sums on the way to its outputs.               *)
NamedSums ==
  <<<<0, 2, 0, 0>>, <<0, 0, 0, 2>>, <<1, 1, 0, 0>>, <<0, 0, 1, 1>>, <<4, 4, 0, 0>>,
    <<0, 0, 4, 4>>, <<0, 2, 1, 1>>, <<1, 1, 0, 2>>, <<1, 1, 4, 6>>, <<4, 6, 1, 1>>>>

LeafTree(xs) ==
  Component(External(xs), xs, IF Len(xs) = 4 THEN Times(NamedSums, xs) ELSE <<Total(xs)>>, <<>>)

Quarter(xs, k) == SubSeq(xs, 4 * k - 3, 4 * k)

(* Four sums over the columns come first, then the blocks.                 *)
ExternalTree(xs) ==
  LET blocks    == Len(xs) \div 4
      column(l) == [k \in 1 .. blocks |-> External(Quarter(xs, k))[l]]
  IN  Component(External(xs), xs, <<>>,
        IF Len(xs) <= 4 THEN <<LeafTree(xs)>>
        ELSE [l \in 1 .. 4 |-> AccTree(column(l))]
               \o [k \in 1 .. blocks |-> LeafTree(Quarter(xs, k))])

InternalTree(xs) ==
  IF Len(xs) < 4
  THEN Component(Internal(xs), xs, <<>>, <<Component(Internal(xs), xs, <<Total(xs)>>, <<>>)>>)
  ELSE Component(Internal(xs), xs, <<Total(xs)>>, <<AccTree(xs)>>)

PowerTree(x) == <<Fifth(x), x, (x ^ 2) % P, (x ^ 4) % P>>

PowersTree(xs) ==
  Component([j \in DOMAIN xs |-> Fifth(xs[j])], xs, <<>>, [j \in DOMAIN xs |-> PowerTree(xs[j])])

-----------------------------------------------------------------------------
(* Rounds: what a round makes of a state, and its signals.                 *)

FullRoundOf(xs, cs) ==
  LET linear  == PlusEach(xs, cs)
      powered == [j \in DOMAIN xs |-> Fifth(linear[j])]
  IN  [out  |-> External(powered),
       tree |-> Component(External(powered), xs, cs \o linear \o powered,
                          <<ExternalTree(powered), PowersTree(linear)>>)]

PartialRoundOf(xs, c) ==
  LET linear  == (xs[1] + c) % P
      powered == [xs EXCEPT ![1] = Fifth(linear)]
  IN  [out  |-> Internal(powered),
       tree |-> Component(Internal(powered), xs, <<c, linear, Fifth(linear)>>,
                          <<PowerTree(linear), InternalTree(powered)>>)]

ConstantsOf(table, t, r) == SubSeq(table[t], (r - 1) * t + 1, r * t)

RoundOf(xs, t, r) ==
  CASE r <= FullRounds -> FullRoundOf(xs, ConstantsOf(Full1, t, r))
    [] r \in (FullRounds + 1) .. (FullRounds + PartialRounds[t]) ->
         PartialRoundOf(xs, Partial[t][r - FullRounds])
    [] OTHER -> FullRoundOf(xs, ConstantsOf(Full2, t, r - FullRounds - PartialRounds[t]))

(* The state ahead of every round, and the result.                         *)
StatesOf(input) ==
  LET t == Len(input)
      states[r \in 0 .. (2 * FullRounds + PartialRounds[t])] ==
        IF r = 0 THEN External(input) ELSE RoundOf(states[r - 1], t, r).out
  IN  states

(* All signals of a permutation but its inputs.                            *)
PermutationTrace(input) ==
  LET t      == Len(input)
      pr     == PartialRounds[t]
      states == StatesOf(input)
      tree(r) == RoundOf(states[r - 1], t, r).tree
      last   == 2 * FullRounds + pr
  IN  states[last]
        \o FlattenSeq([r \in 1 .. (last + 1) |-> states[r - 1]])
        \o ExternalTree(input)
        \o FlattenSeq([r \in 1 .. (2 * FullRounds) |->
                         tree(IF r <= FullRounds THEN r ELSE r + pr)])
        \o FlattenSeq([r \in 1 .. pr |-> tree(FullRounds + r)])
=============================================================================
