--------------------------- MODULE MCPassManager ---------------------------
(***************************************************************************)
(* The classical passes: every circuit of two arithmetic operations over   *)
(* one secret, one public and two constant leaves, and every circuit of a  *)
(* zero test and two operations. One inner value is bound to a signal that *)
(* is, or is not, kept in the witness. The lowering passes: chains of      *)
(* three operations, each a product or a gadget site, so that rounds,      *)
(* shared gadget stages and public gadget chains meet at every relative    *)
(* depth.                                                                  *)
(***************************************************************************)
EXTENDS PassManager, Circuits

Leaves(c) == {Circuit(<<Secret(1), PublicLeaf, Const(c)>>)}
Arith(c)  == Grow(Grow(Leaves(c), {"Add", "Sub", "Mul"}, {}), {"Add", "Sub", "Mul"}, {})
Gadgets   == Grow(Grow(Grow(Leaves(1), {"Mul"}, {}), {}, {"IsZero"}), {"Sub", "Mul"}, {})

Operands == {Circuit(<<Secret(1), Secret(2), PublicLeaf>>)}
Chains   == Grow(Grow(Grow(Operands, {"Mul"}, {"IsZero", "Reveal1"}), {"Mul"}, {"IsZero"}),
                 {"Mul"}, {"IsZero"})

MCSourceGraphs ==
  {Bind(g, 4) : g \in Arith(0)} \cup {BindUnused(g, 4) : g \in Arith(1)}
  \cup {BindUnused(g, 3) : g \in Gadgets \cup Chains}

MCInputVectors == {<<2, 4, 3>>}
=============================================================================
