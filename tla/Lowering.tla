------------------------------ MODULE Lowering ------------------------------
(***************************************************************************)
(* MPC lowering: every secret product becomes a local half and a network   *)
(* round (mul_split), the rounds of one network level become one round     *)
(* (round_schedule), and nodes are ordered so that public gadget chains of *)
(* the same depth become neighbours (wide_schedule).                       *)
(***************************************************************************)
EXTENDS Rewriting

(* A product of two shared values becomes MulLocal, Round, RoundResult(0)  *)
(* at three consecutive positions; rounds are numbered in order.           *)
MulSplit(g) ==
  LET domain == Domains(g)
      secret == {v \in NodesOf(g, "Mul") : \A w \in InputsOf(g, v) : domain[w] = Shared}
      split(n, id, at) == <<Node("MulLocal", 0, n.in),
                            Node("Round", id, <<at + 1>>),
                            Node("RoundResult", 0, <<at + 2>>)>>
      roundId(v) == Cardinality({w \in secret : w <= v})
  IN  Rewrite(g, LAMBDA v, n, emitted :
                   IF v \in secret THEN EmitMany(split(n, roundId(v), Len(emitted)))
                   ELSE Keep(n))

(* One bucket per network level, in source order, each followed by the one *)
(* round that merges the level's singleton rounds. The layout lists old    *)
(* nodes; a level's first singleton Round stands for the merged one.       *)
(* Without a round, and already sorted, this is the identity: the code's   *)
(* early return.                                                           *)
RoundSchedule(g) ==
  LET level      == NetworkLevels(g)
      top        == Max({0} \cup ToSet(level))
      at(L)      == {v \in Values(g) : level[v] = L}
      rounds(L)  == Ascending(at(L) \cap NodesOf(g, "Round"))
      plain(L)   == Ascending(at(L) \ (NodesOf(g, "Round") \cup NodesOf(g, "RoundResult")))
      results(L) == [k \in DOMAIN rounds(L) |-> rounds(L)[k] + 1]
      merged(L)  == IF rounds(L) = <<>> THEN <<>> ELSE <<rounds(L)[1]>> \o results(L)
      layout     == FlattenSeq([j \in 1 .. (top + 1) |-> plain(j - 1) \o merged(j - 1)])
      place      == [v \in ToSet(layout) |-> CHOOSE p \in DOMAIN layout : layout[p] = v]
      roundId(L) == Cardinality({K \in 0 .. L : rounds(K) # <<>>})
      operands(L) == [k \in DOMAIN rounds(L) |-> place[g.nodes[rounds(L)[k]].in[1]]]
      rebuilt(v) ==
        CASE g.nodes[v].op = "Round" ->
               Node("Round", roundId(level[v]), operands(level[v]))
          [] g.nodes[v].op = "RoundResult" ->
               LET L == level[v] - 1
                   k == CHOOSE j \in DOMAIN results(L) : results(L)[j] = v
               IN  Node("RoundResult", k - 1, <<place[rounds(L)[1]]>>)
          [] OTHER -> Renumber(g.nodes[v], place)
  IN  RebuildNodes(g, [p \in DOMAIN layout |-> rebuilt(layout[p])], place)

(* Mutant: the results of a round are sorted by keys of their own.         *)
UnitStart_Own(g, v) == v

(* A Round and its RoundResults move as one unit, keyed by the Round.      *)
UnitStart(g, v) == IF g.nodes[v].op = "RoundResult" THEN g.nodes[v].in[1] ELSE v

(* The units, stably sorted by (network level, full level).                *)
WideSchedule(g) ==
  LET net  == NetworkLevels(g)
      full == FullLevels(g)
      key(v) == <<net[UnitStart(g, v)], full[UnitStart(g, v)], v>>
      before(v, w) ==
        \/ key(v)[1] < key(w)[1]
        \/ key(v)[1] = key(w)[1] /\ key(v)[2] < key(w)[2]
        \/ key(v)[1] = key(w)[1] /\ key(v)[2] = key(w)[2] /\ v < w
  IN  Relayout(g, Ordered(Values(g), before))

(* The lowering pipeline, run once.                                        *)
Lower(g) == WideSchedule(RoundSchedule(MulSplit(g).graph))
=============================================================================
