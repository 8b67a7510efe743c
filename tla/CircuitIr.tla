----------------------------- MODULE CircuitIr -----------------------------
(***************************************************************************)
(* The value graph every stage of the compiler works on (ir.rs) and the    *)
(* two analyses the MPC lowering shares: the domain of a value (domain.rs) *)
(* and its level (level.rs).                                               *)
(*                                                                         *)
(* A graph is a record                                                     *)
(*   nodes      : sequence of nodes; a value IS the position of its node   *)
(*   outputs    : sequence of [signal, value], the circuit-level sinks     *)
(*   sites      : sequence of gadget sites [kind, precomputed]             *)
(*   public     : the input signals every party holds in cleartext         *)
(*   numOutputs : output signals come first, then the input signals        *)
(*   numInputs, witness : the input count, and the signal landing at every *)
(*                witness position (0 is the constant one)                 *)
(* Positions and site ids start at 1 here and at 0 in the code; field      *)
(* elements are the integers modulo the prime P.                           *)
(***************************************************************************)
EXTENDS Integers, Sequences, FiniteSets, SequencesExt

CONSTANT P              \* the field's modulus, a prime

ASSUME PAssumption == P \in Nat /\ P > 2

-----------------------------------------------------------------------------
(* Nodes.                                                                  *)

Node(op, arg, in) == [op |-> op, arg |-> arg, in |-> in]

LeafOps   == {"Input", "Constant"}
ArithOps  == {"Add", "Sub", "Mul"}
Ops       == LeafOps \cup ArithOps \cup
             {"Gadget", "GadgetResult", "MulLocal", "Round", "RoundResult"}

(* How many operands an op may have.                                       *)
Arities(op) ==
  CASE op \in LeafOps                         -> {0}
    [] op \in ArithOps \cup {"MulLocal"}      -> {2}
    [] op \in {"GadgetResult", "RoundResult"} -> {1}
    [] op \in {"Gadget", "Round"}             -> Nat

Kinds     == {"IsZero", "Num2Bits", "Poseidon2", "Reveal1", "Reveal2"}
Reveals   == {"Reveal1", "Reveal2"}

(* Every op has its operands, each a node of the list, every site is a     *)
(* known gadget, and outputs are nodes.                                    *)
WellTyped(g) ==
  /\ g.nodes \in Seq([op : Ops, arg : Nat, in : Seq(Nat)])
  /\ g.sites \in Seq([kind : Kinds, precomputed : BOOLEAN])
  /\ \A v \in DOMAIN g.nodes :
       /\ Len(g.nodes[v].in) \in Arities(g.nodes[v].op)
       /\ \A j \in DOMAIN g.nodes[v].in : g.nodes[v].in[j] \in DOMAIN g.nodes
  /\ \A j \in DOMAIN g.outputs : g.outputs[j].value \in DOMAIN g.nodes

(* A graph has these fields and no other.                                  *)
IsGraph(g) ==
  /\ g = [nodes |-> g.nodes, outputs |-> g.outputs, sites |-> g.sites, public |-> g.public,
          numOutputs |-> g.numOutputs, numInputs |-> g.numInputs, witness |-> g.witness]
  /\ g.outputs \in Seq([signal : Nat, value : Nat])

Values(g) == DOMAIN g.nodes

NodesOf(g, op) == {v \in Values(g) : g.nodes[v].op = op}

InputsOf(g, v) == ToSet(g.nodes[v].in)

(* The nodes that name v as an operand.                                    *)
ReadersOf(g, v) == {r \in Values(g) : v \in InputsOf(g, r)}

(* The site a Gadget node, or a GadgetResult node, belongs to.             *)
SiteOf(g, v) ==
  IF g.nodes[v].op = "Gadget" THEN g.nodes[v].arg ELSE g.nodes[g.nodes[v].in[1]].arg

(* The elements of S in the order of a strict total order.                 *)
Ordered(S, before(_, _)) ==
  [p \in 1 .. Cardinality(S) |->
     CHOOSE v \in S : Cardinality({w \in S : before(w, v)}) = p - 1]

(* Every operand points strictly earlier.                                  *)
Topological(g) == \A v \in Values(g) : \A w \in InputsOf(g, v) : w < v

(* Only the lowering passes make products to reshare and rounds.           *)
LoweredOps == {"MulLocal", "Round", "RoundResult"}

Unlowered(g) == \A v \in Values(g) : g.nodes[v].op \notin LoweredOps

(* Every site has its one Gadget node, and results, at most one per slot,  *)
(* are read off Gadget and Round nodes.                                    *)
WellFormed(g) ==
  /\ \A s \in DOMAIN g.sites : \E v \in NodesOf(g, "Gadget") : g.nodes[v].arg = s
  /\ \A v, w \in NodesOf(g, "Gadget") : g.nodes[v].arg = g.nodes[w].arg => v = w
  /\ \A v \in NodesOf(g, "Gadget") : g.nodes[v].arg \in DOMAIN g.sites
  /\ \A v, w \in NodesOf(g, "GadgetResult") : g.nodes[v] = g.nodes[w] => v = w
  /\ \A v \in NodesOf(g, "GadgetResult") : InputsOf(g, v) \subseteq NodesOf(g, "Gadget")
  /\ \A v \in NodesOf(g, "RoundResult") : InputsOf(g, v) \subseteq NodesOf(g, "Round")

-----------------------------------------------------------------------------
(* Domains: the lattice Public < Shared < Local.                           *)

Public  == 0
Shared  == 1
Local   == 2
Domain3 == {Public, Shared, Local}

Join(S) == Max({Public} \cup S)

SignalDomain(g, signal) ==
  IF signal < g.numOutputs THEN Shared
  ELSE IF signal \in g.public THEN Public ELSE Shared

NodeDomain(g, known, n) ==
  CASE n.op = "Input"                 -> SignalDomain(g, n.arg)
    [] n.op \in {"Constant", "Round"} -> Public
    [] n.op \in ArithOps \cup {"Gadget"} -> Join({known[w] : w \in ToSet(n.in)})
    [] n.op = "MulLocal"              -> Local
    [] n.op = "RoundResult"           -> Shared
    [] n.op = "GadgetResult" ->
         IF g.sites[g.nodes[n.in[1]].arg].kind \in Reveals
         THEN Public ELSE known[n.in[1]]

(* One forward pass; the result is indexed by value.                       *)
Domains(g) ==
  FoldLeft(LAMBDA known, n : Append(known, NodeDomain(g, known, n)), <<>>, g.nodes)

-----------------------------------------------------------------------------
(* Levels: how many communicating events must complete before a value      *)
(* exists.  charged is the set of Gadget nodes whose results advance the   *)
(* level.                                                                  *)

NodeLevel(charged, known, n) ==
  CASE n.op \in LeafOps -> 0
    [] n.op \in ArithOps \cup {"MulLocal", "Round", "Gadget"} ->
         Max({0} \cup {known[w] : w \in ToSet(n.in)})
    [] n.op = "RoundResult"  -> known[n.in[1]] + 1
    [] n.op = "GadgetResult" ->
         IF n.in[1] \in charged THEN known[n.in[1]] + 1 ELSE known[n.in[1]]

LevelsWith(g, charged) ==
  FoldLeft(LAMBDA known, n : Append(known, NodeLevel(charged, known, n)), <<>>, g.nodes)

(* Mutant: no gadget advances the network axis.                            *)
NetworkLevels_RoundsOnly(g) == LevelsWith(g, {})

(* A public gadget is local work and does not advance the network axis.    *)
NetworkLevels(g) ==
  LET domain == Domains(g)
  IN  LevelsWith(g, {v \in NodesOf(g, "Gadget") : domain[v] # Public})

(* Every gadget result advances the full axis.                             *)
FullLevels(g) == LevelsWith(g, NodesOf(g, "Gadget"))

SiteNode(g, s) == CHOOSE v \in NodesOf(g, "Gadget") : g.nodes[v].arg = s

SiteStages(g) ==
  LET level == NetworkLevels(g) IN [s \in DOMAIN g.sites |-> level[SiteNode(g, s)]]

-----------------------------------------------------------------------------
(* The meaning of a graph, against which every later stage is compared.    *)
(* A Gadget or Round node denotes the tuple of its operands; a gadget      *)
(* kind's k-th result is a function of that tuple.                         *)

(* Inverse modulo P, with 0 mapped to 0 as the gadget's helper signal is.  *)
InverseOf(x) ==
  IF x = 0 THEN 0 ELSE CHOOSE y \in 1 .. (P - 1) : (x * y) % P = 1

(* The permutation is abstracted to some fixed mixing of both inputs.      *)
Mix(args, k) == (args[1] * args[1] + 3 * args[2] + 5 * k + 1) % P

GadgetValue(kind, args, k) ==
  CASE kind = "IsZero"     -> IF k > 0 THEN InverseOf(args[1])
                              ELSE IF args[1] = 0 THEN 1 ELSE 0
    [] kind = "Num2Bits"   -> (args[1] \div (2 ^ k)) % 2
    [] kind = "Poseidon2"  -> Mix(args, k)
    [] kind \in Reveals    -> args[k + 1]

ArithValue(op, x, y) ==
  CASE op = "Add" -> (x + y) % P
    [] op = "Sub" -> (x - y) % P
    [] op \in {"Mul", "MulLocal"} -> (x * y) % P

NodeValue(g, input, known, n) ==
  LET arg(j) == known[n.in[j]]
  IN  CASE n.op = "Input"        -> input[n.arg]
        [] n.op = "Constant"     -> n.arg
        [] n.op \in ArithOps \cup {"MulLocal"} -> ArithValue(n.op, arg(1), arg(2))
        [] n.op \in {"Gadget", "Round"} -> [j \in DOMAIN n.in |-> arg(j)]
        [] n.op = "RoundResult"  -> arg(1)[n.arg + 1]
        [] n.op = "GadgetResult" ->
             GadgetValue(g.sites[g.nodes[n.in[1]].arg].kind, arg(1), n.arg)

(* The value of every node when signal s carries input[s].                 *)
Denotation(g, input) ==
  FoldLeft(LAMBDA known, n : Append(known, NodeValue(g, input, known, n)), <<>>, g.nodes)

(* Arithmetic is on field elements, never on the tuple of a gadget.        *)
FieldArithmetic(g, input) ==
  LET denotes == Denotation(g, input)
  IN  \A v \in Values(g) : g.nodes[v].op \in ArithOps =>
        \A w \in InputsOf(g, v) : denotes[w] \in 0 .. (P - 1)

(* What the witness carries, position by position: the constant one, an    *)
(* input, the last output bound to the signal, or zero.                    *)
WitnessOf(g, input) ==
  LET denotes       == Denotation(g, input)
      bindings(sig) == {j \in DOMAIN g.outputs : g.outputs[j].signal + 1 = sig}
      inputs        == g.numOutputs .. (g.numOutputs + g.numInputs - 1)
      carried(sig)  ==
        CASE sig = 0                -> 1
          [] sig - 1 \in inputs    -> input[sig - 1]
          [] bindings(sig) # {}     -> denotes[g.outputs[Max(bindings(sig))].value]
          [] OTHER                  -> 0
  IN  [p \in DOMAIN g.witness |-> carried(g.witness[p])]
=============================================================================
