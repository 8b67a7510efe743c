--------------------------- MODULE MCThreeParties ---------------------------
(***************************************************************************)
(* Programs of two instructions, and of a permutation between two others.  *)
(***************************************************************************)
EXTENDS ThreeParties

Permutation(t, sites, shared) ==
  [kind |-> "Poseidon2", t |-> t, sites |-> sites, shared |-> shared]

Hosted(sites) == [kind |-> "Precomputed", t |-> 2, sites |-> sites]

Instructions ==
  {[kind |-> "Reshare"], [kind |-> "IsZeroReveal"],
   [kind |-> "Reveal", shared |-> TRUE], [kind |-> "Reveal", shared |-> FALSE],
   Permutation(2, 2, TRUE), Permutation(2, 1, FALSE), Hosted(1)}

MCPrograms ==
  {<<i, j>> : i, j \in Instructions}
    \cup {<<i, Permutation(2, 1, TRUE), j>> : i, j \in {Permutation(3, 1, TRUE),
                                                       [kind |-> "IsZeroReveal"]}}

MCPartialRounds == 2 :> 1 @@ 3 :> 2
=============================================================================
