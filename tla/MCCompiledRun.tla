--------------------------- MODULE MCCompiledRun ---------------------------
(***************************************************************************)
(* Three families of circuits: chains of products, zero tests and reveals; *)
(* two permutations, precomputed by the host or not, in sequence or side   *)
(* by side; two zero tests with their flags opened, which are fused.       *)
(***************************************************************************)
EXTENDS CompiledRun, Circuits

Start == {Circuit(<<Secret(1), Secret(2), PublicLeaf>>)}

(* Wide_schedule may list the products of a round in another order than    *)
(* their nodes; these circuits are kept apart, as FlaggedSources.          *)
RoundsInOrder(c) ==
  \A low \in {Lowered(c)} :
    \A r \in NodesOf(low, "Round") : \A j \in 2 .. Len(low.nodes[r].in) :
      low.nodes[r].in[j - 1] < low.nodes[r].in[j]

Chains ==
  UNION {{AddArith(c, op, v, Newest(c)) : op \in {"Sub", "Mul"}, v \in {1, 3, Inner(c)}} :
           c \in Grow(Grow(Start, {"Mul"}, {"IsZero"}), {"Mul"}, {"Reveal1"})}

Permutation(c, v, w, pre) ==
  AddGadget(c, [kind |-> "Poseidon2", precomputed |-> pre], <<v, w>>, 2)

(* Nodes 4 to 6 and 7 to 9 are the permutations; their inputs vary.        *)
Hashes ==
  {AddArith(Permutation(Permutation(c, v, 3, p), w, x, TRUE), "Mul", y, 8) :
     c \in Start, v \in {1, 3}, w \in {1, 3, 5}, x \in {2, 3, 6}, y \in {1, 6}, p \in BOOLEAN}

ZeroTest(c, v) == AddGadget(c, Site("IsZero"), <<v>>, 2)
Open(c, v)     == AddGadget(c, Site("Reveal1"), <<v>>, 1)

(* Flags are at 5 and 8; the second reveal may open something else.        *)
Fusions ==
  {AddArith(Open(Open(ZeroTest(ZeroTest(c, v), w), 5), x), "Mul", y, 1) :
     c \in Start, v \in {1, 3}, w \in {1, 2, 5}, x \in {2, 8}, y \in {6, 11, 13}}

MCSources ==
  {c \in {BindUnused(c, Inner(c)) : c \in Chains} \cup {Bind(c, 5) : c \in Hashes}
         \cup {Bind(c, 8) : c \in Fusions} \cup {BindUnused(c, 8) : c \in Fusions} :
     RoundsInOrder(c)}

(* The rounds of a permutation of two; no other width occurs.              *)
MCPartialRounds == [t \in {2} |-> 56]

MCInputVectors == {<<2, 0, 3>>}
-----------------------------------------------------------------------------
(* Two products of one round, the first over the flag of a public zero     *)
(* test: (a + isZero(p)) * b and a * b.                                    *)
Flagged(c) == AddArith(ZeroTest(c, 3), "Add", 1, 5)

FlaggedSources ==
  {Bind(AddArith(AddArith(Flagged(c), "Mul", 2, 7), "Mul", 1, 2), 8) : c \in Start}

FlaggedInputs == {<<2, 4, 3>>}
=============================================================================
