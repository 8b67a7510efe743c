----------------------------- MODULE MCCodegen -----------------------------
(***************************************************************************)
(* What lowering makes of chains of two or three operations (products,     *)
(* sums and gadget sites over two secret inputs and a public one), and     *)
(* hand-built graphs most of which no pass produces: two or three nodes of *)
(* any kind over two leaves, or over the local product of two secrets.     *)
(***************************************************************************)
EXTENDS Codegen, Cleanup, Lowering, Circuits

Start == {Circuit(<<Secret(1), Secret(2), PublicLeaf>>)}

Lowered(c) == Lower(DeadCode(c).graph)

Sums     == Grow(Grow(Start, {"Mul", "Add"}, {}), {"Mul", "Sub"}, {"IsZero"})
Gadgets  == Grow(Grow(Start, {"Mul"}, {"IsZero", "Reveal1"}), {"Mul"}, {"IsZero", "Reveal1"})

Chains == {Lowered(Bind(c, Inner(c))) : c \in Sums}
          \cup {Lowered(BindUnused(c, Inner(c))) : c \in Grow(Gadgets, {"Mul"}, {"Reveal1"})}
-----------------------------------------------------------------------------
LocalProduct == Node("MulLocal", 0, <<1, 2>>)

Add(c, op, arg, in) == [c EXCEPT !.nodes = Append(@, Node(op, arg, in))]

Extended(c) ==
  {Add(c, op, 0, <<v, Newest(c)>>) : op \in {"Mul", "MulLocal", "Sub"}, v \in {1, Newest(c)}}
  \cup {Add(c, "Round", 1 + Cardinality(NodesOf(c, "Round")), <<v>>) : v \in {1, Newest(c)}}
  \cup {Add(c, "RoundResult", slotOf, <<v>>) : slotOf \in {0, 1}, v \in NodesOf(c, "Round")}
  \cup {AddGadget(c, Site("IsZero"), <<Newest(c)>>, 1)}

Grown(S) == UNION {Extended(c) : c \in S}

HandBuilt ==
  {[c EXCEPT !.outputs = <<[signal |-> 0, value |-> Newest(c)]>>, !.witness = <<0, 1>>] :
     c \in Grown(Grown({Circuit(<<Secret(1), Secret(2)>>), Circuit(<<Secret(1), PublicLeaf>>)}))
           \cup Grown(Grown(Grown({Circuit(<<Secret(1), Secret(2), LocalProduct>>)})))}

MCGraphs == Chains \cup HandBuilt
=============================================================================
