------------------------------ MODULE Circuits ------------------------------
(***************************************************************************)
(* Generators of small circuits for the model-checking modules: graphs the *)
(* frontend can produce by appending operations to a few leaves. Signal 0  *)
(* is the output, 1 and 2 are secret inputs, 3 is a public input, and 4    *)
(* names an inner signal.                                                  *)
(***************************************************************************)
EXTENDS CircuitIr

Secret(k) == Node("Input", k, <<>>)
PublicLeaf == Node("Input", 3, <<>>)
Const(c)  == Node("Constant", c, <<>>)

Circuit(nodes) ==
  [nodes |-> nodes, outputs |-> <<>>, sites |-> <<>>, public |-> {3},
   numOutputs |-> 1, numInputs |-> 3, witness |-> <<>>]

(* Values an operation may read.                                           *)
Readable(g) == {v \in Values(g) : g.nodes[v].op # "Gadget"}

AddArith(g, op, v, w) == [g EXCEPT !.nodes = Append(@, Node(op, 0, <<v, w>>))]

(* A gadget site with the result slots of a wrapped component.             *)
AddGadget(g, site, in, slots) ==
  LET at == Len(g.nodes) + 1
  IN  [g EXCEPT !.nodes = @ \o <<Node("Gadget", Len(g.sites) + 1, in)>>
                            \o [k \in 1 .. slots |-> Node("GadgetResult", k - 1, <<at>>)],
                !.sites = Append(@, site)]

Site(kind) == [kind |-> kind, precomputed |-> FALSE]

(* The most recent value, which a chain of operations continues from.      *)
Newest(g) == Len(g.nodes)

(* Operands of Add and Mul are taken in ascending order.                   *)
ArithSteps(g, ops) ==
  {AddArith(g, op, v, w) :
     op \in ops, <<v, w>> \in {vw \in Readable(g) \X Readable(g) : vw[1] <= vw[2]}}
  \cup {AddArith(g, "Sub", v, w) : <<v, w>> \in
          {vw \in Readable(g) \X Readable(g) : "Sub" \in ops /\ vw[1] > vw[2]}}

(* An IsZero site has a flag and a helper result, the others one.          *)
UnarySteps(g, kinds) ==
  {AddGadget(g, Site(kind), <<v>>, IF kind = "IsZero" THEN 2 ELSE 1) :
     kind \in kinds, v \in Readable(g)}

Grow(S, ops, kinds) == UNION {ArithSteps(g, ops) \cup UnarySteps(g, kinds) : g \in S}

(* The first value that is not a leaf.                                     *)
Inner(g) == Min({v \in Readable(g) : g.nodes[v].op \notin LeafOps})

(* Binds the last value to the output and value v to the inner signal; the *)
(* witness keeps both.                                                     *)
Bind(g, v) ==
  [g EXCEPT !.outputs = <<[signal |-> 4, value |-> v], [signal |-> 0, value |-> Newest(g)]>>,
            !.witness = <<0, 1, 4, 5>>]

(* The same bindings, but the inner signal never reaches the witness.      *)
BindUnused(g, v) == [Bind(g, v) EXCEPT !.witness = <<0, 1, 4>>]
=============================================================================
