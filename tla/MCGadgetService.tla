-------------------------- MODULE MCGadgetService --------------------------
(***************************************************************************)
(* Batches of every kind. Permutations of each arrangement of the external *)
(* layer (two, three, four, eight and sixteen), with two full rounds ahead *)
(* of two partial ones and two behind, so that the second group runs after *)
(* signals it precedes; up to five sites in one chunk or two; rows that    *)
(* ask for everything, for nothing, and for scattered signals, different   *)
(* from site to site. Every alias check of six bits with every constant.  *)
(***************************************************************************)
EXTENDS GadgetService

MCPartialRounds == [t \in SupportedWidths |-> IF t <= 4 THEN 2 ELSE 1]

(* Some constants, all of a table different from their neighbours.         *)
Numbers(seed, n) == [j \in 1 .. n |-> (seed + 7 * j + j * j) % P]

MCFull1    == [t \in SupportedWidths |-> Numbers(t, FullRounds * t)]
MCFull2    == [t \in SupportedWidths |-> Numbers(t + 3, FullRounds * t)]
MCPartial  == [t \in SupportedWidths |-> Numbers(t + 5, MCPartialRounds[t])]
MCDiagonal == [t \in SupportedWidths |-> IF t < 4 THEN <<>> ELSE Numbers(t + 9, t)]

(* A batch with the given rows of requests.                                *)
BatchOf(kind, inputs, rows) ==
  [kind |-> kind, sites |-> Len(rows), inputs |-> inputs,
   requests |-> FlattenSeq(rows),
   offsets  |-> [s \in 1 .. (Len(rows) + 1) |-> Len(FlattenSeq(SubSeq(rows, 1, s - 1)))]]

Everything(kind) == [n \in 1 .. ExpectedResults(kind) |-> n - 1]
Every(step, kind) == SelectSeq(Everything(kind), LAMBDA n : n % step = 1)

PermutationBatches(tag, t, sites) ==
  LET kind == Kind(tag, t)
      rows == <<Every(3, kind), Everything(kind), <<>>, Every(5, kind), Every(3, kind)>>
  IN  {BatchOf(kind, Numbers(seed, sites * t), SubSeq(rows, 1, sites)) : seed \in {0, 1}}

(* A row the compiler never makes: the host may call with any states.      *)
Mistakes ==
  {BatchOf(Kind("PrecomputedPoseidon2", t), Numbers(1, 5), <<<<0>>>>) : t \in {2, 5}}

MCAliasConstants == [1 .. AliasBits -> {0, 1}]

AliasKind == Kind("AliasCheck", 0)
AliasOne  == {BatchOf(AliasKind, x, <<Everything(AliasKind)>>) : x \in MCAliasConstants}
AliasTwo  == {BatchOf(AliasKind, x \o y, <<Every(2, AliasKind), Everything(AliasKind)>>) :
                x \in {<<1, 0, 0, 1, 1, 0>>}, y \in MCAliasConstants}

Others ==
  {BatchOf(Kind("Num2Bits", 6), <<x, 21, x>>, <<<<0, 3>>, <<>>, <<1, 2, 5>>>>) : x \in {0, 1, 60}}
  \cup {BatchOf(Kind("IsZero", 1), <<x, 0>>, <<<<1>>, <<0, 1>>>>) : x \in {0, 1, 60}}
  \cup {BatchOf(Kind("Reveal", 2), <<x, 1, 2, x>>, <<<<0>>, <<0, 1>>>>) : x \in {0, 60}}

MCBatches ==
  PermutationBatches("Poseidon2", 2, 5) \cup PermutationBatches("Poseidon2", 3, 3)
  \cup PermutationBatches("Poseidon2", 4, 2) \cup PermutationBatches("Poseidon2", 8, 2)
  \cup PermutationBatches("Poseidon2", 16, 1)
  \cup PermutationBatches("PrecomputedPoseidon2", 3, 2)
  \cup Mistakes \cup AliasOne \cup AliasTwo \cup Others
=============================================================================
