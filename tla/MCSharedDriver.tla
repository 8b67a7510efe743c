--------------------------- MODULE MCSharedDriver ---------------------------
(***************************************************************************)
(* Values of a field of 31 elements beside a fixed one.                    *)
(* Masks are not zero: a zero mask takes a value for zero, which happens   *)
(* with probability one in the size of the field.                          *)
(* An alias check has four pairs of bits, one for each pair the limit may  *)
(* have, and reads its result off the bit that half of the field's numbers *)
(* have; one site or two, which share their products' exchange.            *)
(***************************************************************************)
EXTENDS SharedDriver

MCStarts == {<<x, 3>> : x \in {0, 1, 30}}

MCRandomness == {<<0, 0>>, <<2, 6>>}

MCZeroShares == {<<0, 0, 0>>, <<1, 3, 27>>}

MCLimit == <<0, 0, 1, 0, 0, 1, 1, 1>>

MCAliasSites ==
  {<<1, 1, 2, 1, 1, 2, 2, 2>>, <<2, 1, 1, 1, 2, 2, 1, 2, 1, 2, 2, 1, 2, 1, 1, 1>>}
=============================================================================
