--------------------------- MODULE RewritingProofs ---------------------------
(***************************************************************************)
(* What the passes do to a graph, for every graph: each yields a graph of  *)
(* the same kind in which every value that is left has the meaning it had. *)
(* First folds and rewriting, then the classical passes, then the lowering *)
(* (levels, the splitting of products, the two schedules), then what the   *)
(* graphs denote.                                                          *)
(***************************************************************************)
EXTENDS Cleanup, Lowering, GadgetScheduleProofs

-----------------------------------------------------------------------------
(* Folds. The denotation, the levels, the rewriting passes and the sweep   *)
(* of gc are folds over the nodes, and FoldLeft and FoldRight a recursion  *)
(* over sets of positions.                                                 *)

(* The callbacks of the rewriting passes.                                  *)
SecretProducts(gr) ==
  {v \in NodesOf(gr, "Mul") : \A w \in InputsOf(gr, v) : Domains(gr)[w] = Shared}

SplitProduct(n, id, at) ==
  <<Node("MulLocal", 0, n.in), Node("Round", id, <<at + 1>>),
    Node("RoundResult", 0, <<at + 2>>)>>

RoundId(gr, v) == Cardinality({w \in SecretProducts(gr) : w <= v})

SplitNode(gr, v, n, emitted) ==
  IF v \in SecretProducts(gr) THEN EmitMany(SplitProduct(n, RoundId(gr, v), Len(emitted)))
  ELSE Keep(n)

Decide(pass, gr, v, n, emitted) ==
  CASE pass = "fold"  -> FoldNode(n, emitted)
    [] pass = "cse"   -> CseNode(n, emitted)
    [] pass = "split" -> SplitNode(gr, v, n, emitted)

NodesAfter(acc, action) ==
  IF action.tag = "Emit" THEN acc.nodes \o action.nodes ELSE acc.nodes

Continue(acc, action) ==
  [nodes   |-> NodesAfter(acc, action),
   remap   |-> Append(acc.remap,
                 IF action.tag = "Emit" THEN Len(NodesAfter(acc, action)) ELSE action.target),
   changed |-> acc.changed \/ action.tag = "ReplaceWith" \/ action.changes]

Rewriting1(pass, gr, acc, v) ==
  Continue(acc, Decide(pass, gr, v, Renumber(gr.nodes[v], acc.remap), acc.nodes))

(* One turn of a fold. What else it depends on is in of.                   *)
Turn(fold, of, acc, x) ==
  CASE fold = "denotation" -> Append(acc, NodeValue(of[1], of[2], acc, x))
    [] fold = "level"      -> Append(acc, NodeLevel(of, acc, x))
    [] fold = "sweep"      -> (IF x \in acc THEN acc \cup InputsOf(of, x) ELSE acc)
    [] OTHER               -> Rewriting1(fold, of, acc, x)

(* The sweep goes backwards.                                               *)
Outermost(fold, s) == IF fold = "sweep" THEN Min(s) ELSE Max(s)

Step(fold, of, base, list, f, s) ==
  IF s = {} THEN base
  ELSE LET x == Outermost(fold, s) IN Turn(fold, of, f[s \ {x}], list[x])

Obeys(fold, of, base, list, f, D) == f = [s \in D |-> Step(fold, of, base, list, f, s)]

(* A set of numbers that is not empty has a smallest element.              *)
LEMMA SmallestElement ==
  ASSUME NEW s \in SUBSET Nat, s # {}
  PROVE  Min(s) \in s /\ \A x \in s : Min(s) <= x
<1>1. PICK m \in s : \A n \in s : m <= n
  BY LeastElement
<1> QED
  BY <1>1 DEF Min

(* Some function obeys the recursion on all subsets of the positions.      *)
LEMMA FoldRecursionExists ==
  ASSUME NEW fold, NEW of, NEW base, NEW list, NEW m \in Nat
  PROVE  \E f : Obeys(fold, of, base, list, f, SUBSET (1 .. m))
<1> DEFINE S == 1 .. m
           Small(n) == {s \in SUBSET S : Cardinality(s) <= n}
           T == {n \in Nat : \E f : Obeys(fold, of, base, list, f, Small(n))}
<1>1. IsFiniteSet(S) /\ S \subseteq 0 .. m
  BY FS_Interval
<1> HIDE DEF S
<1>2. \A s \in SUBSET S : IsFiniteSet(s) /\ Cardinality(s) \in Nat
                         /\ Cardinality(s) <= Cardinality(S)
  BY <1>1, FS_Subset, FS_CardinalityType
<1>3. 0 \in T
  <2> DEFINE f == [s \in Small(0) |-> base]
  <2>1. \A s \in Small(0) : s = {}
    BY <1>2, FS_EmptySet
  <2>2. Obeys(fold, of, base, list, f, Small(0))
    BY <2>1 DEF Obeys, Step
  <2> QED
    BY <2>2
<1>4. ASSUME NEW n \in T
      PROVE  n + 1 \in T
  <2>1. PICK f : Obeys(fold, of, base, list, f, Small(n))
    OBVIOUS
  <2> DEFINE h == [s \in Small(n + 1) |-> Step(fold, of, base, list, f, s)]
  <2>2. \A s \in Small(n) : s \in Small(n + 1) /\ h[s] = f[s]
    BY <1>2, <2>1 DEF Obeys
  <2>3. ASSUME NEW s \in Small(n + 1)
        PROVE  Step(fold, of, base, list, f, s) = Step(fold, of, base, list, h, s)
    <3>1. CASE s = {}
      BY <3>1 DEF Step
    <3>2. CASE s # {}
      <4> DEFINE x == Outermost(fold, s)
      <4>1. x \in s
        <5>1. s \in SUBSET (0 .. m) /\ s \in SUBSET Nat
          BY <1>1
        <5> QED
          BY <3>2, <5>1, LargestElement, SmallestElement DEF Outermost
      <4> HIDE DEF x
      <4>2. s \ {x} \in Small(n)
        BY <1>2, <4>1, FS_RemoveElement
      <4>3. f[s \ {x}] = h[s \ {x}]
        BY <2>2, <4>2
      <4> QED
        BY <3>2, <4>3 DEF Step, x
    <3> QED
      BY <3>1, <3>2
  <2>4. Obeys(fold, of, base, list, h, Small(n + 1))
    BY <2>3 DEF Obeys
  <2>5. \E e : Obeys(fold, of, base, list, e, Small(n + 1))
    BY <2>4
  <2> HIDE DEF Small, h
  <2> QED
    BY <2>5
<1>5. T = Nat
  <2> HIDE DEF T
  <2>1. T \in SUBSET Nat
    BY DEF T
  <2> QED
    BY <1>3, <1>4, <2>1, NaturalsFrom0
<1>6. Small(Cardinality(S)) = SUBSET S
  BY <1>2
<1>7. Cardinality(S) \in Nat
  BY <1>1, FS_CardinalityType
<1>8. \E f : Obeys(fold, of, base, list, f, Small(Cardinality(S)))
  BY <1>5, <1>7
<1>9. \E f : Obeys(fold, of, base, list, f, SUBSET S)
  BY <1>6, <1>8
<1> QED
  BY <1>9 DEF S

(* What a fold has come to after each element of the list, the last one    *)
(* first for the sweep.                                                    *)
Runs(fold, of, base, list, m, e, last) ==
  /\ e[0] = base /\ e[m] = last
  /\ \A n \in 1 .. m :
       e[n] = Turn(fold, of, e[n - 1], list[IF fold = "sweep" THEN m + 1 - n ELSE n])

LEMMA FoldRuns ==
  ASSUME NEW fold, NEW of, NEW base, NEW list, NEW m \in Nat, NEW f,
         Obeys(fold, of, base, list, f, SUBSET (1 .. m))
  PROVE  \E e : Runs(fold, of, base, list, m, e, f[1 .. m])
<1> DEFINE part(n) == IF fold = "sweep" THEN (m + 1 - n) .. m ELSE 1 .. n
           e == [n \in 0 .. m |-> f[part(n)]]
<1>1. e[0] = base
  <2>1. part(0) = {} /\ {} \in SUBSET (1 .. m)
    OBVIOUS
  <2>2. f[{}] = base
    BY <2>1 DEF Obeys, Step
  <2> QED
    BY <2>1, <2>2
<1>2. e[m] = f[1 .. m]
  <2>1. part(m) = 1 .. m
    OBVIOUS
  <2> HIDE DEF part
  <2> QED
    BY <2>1
<1>3. ASSUME NEW n \in 1 .. m
      PROVE  e[n] = Turn(fold, of, e[n - 1], list[IF fold = "sweep" THEN m + 1 - n ELSE n])
  <2> DEFINE x == IF fold = "sweep" THEN m + 1 - n ELSE n
  <2>1. part(n) \in SUBSET (1 .. m) /\ x \in part(n) /\ part(n) \ {x} = part(n - 1)
    <3>1. CASE fold = "sweep"
      BY <3>1
    <3>2. CASE fold # "sweep"
      BY <3>2
    <3> QED
      BY <3>1, <3>2
  <2>2. Outermost(fold, part(n)) = x
    <3>1. CASE fold # "sweep"
      BY <3>1, LargestUpTo DEF Outermost
    <3>2. CASE fold = "sweep"
      <4>1. part(n) \in SUBSET Nat /\ part(n) # {} /\ \A y \in part(n) : x <= y
        BY <2>1, <3>2
      <4>2. Min(part(n)) \in part(n) /\ \A y \in part(n) : Min(part(n)) <= y
        BY <4>1, SmallestElement
      <4>3. x \in Nat /\ Min(part(n)) \in Nat
        BY <2>1, <4>1, <4>2
      <4>4. Min(part(n)) = x
        BY <2>1, <4>1, <4>2, <4>3
      <4> QED
        BY <3>2, <4>4 DEF Outermost
    <3> QED
      BY <3>1, <3>2
  <2>3. f[part(n)] = Step(fold, of, base, list, f, part(n))
    BY <2>1 DEF Obeys
  <2>4. e[n] = f[part(n)] /\ e[n - 1] = f[part(n - 1)]
    OBVIOUS
  <2> HIDE DEF part, e, x
  <2>5. part(n) # {}
    BY <2>1
  <2>6. e[n] = Turn(fold, of, e[n - 1], list[x])
    BY <2>1, <2>2, <2>3, <2>4, <2>5 DEF Step
  <2> QED
    BY <2>6 DEF x
<1> HIDE DEF e
<1>4. Runs(fold, of, base, list, m, e, f[1 .. m])
  BY <1>1, <1>2, <1>3 DEF Runs
<1> QED
  BY <1>4

-----------------------------------------------------------------------------
(* The meaning of a graph is that of its operations.                       *)

IsList(q, n) == Len(q) = n /\ \E S : q \in Seq(S)

LEMMA ListGrows ==
  ASSUME NEW n \in Nat, NEW q, IsList(q, n), NEW x
  PROVE  /\ IsList(Append(q, x), n + 1)
         /\ DOMAIN q = 1 .. n /\ DOMAIN Append(q, x) = 1 .. (n + 1)
         /\ \A j \in 1 .. n : Append(q, x)[j] = q[j]
         /\ Append(q, x)[n + 1] = x
<1>1. PICK S : q \in Seq(S)
  BY DEF IsList
<1> DEFINE T == S \cup {x}
           r == Append(q, x)
<1>2. q \in Seq(T) /\ x \in T
  BY <1>1, SeqMonotonic
<1> HIDE DEF T
<1>3. /\ r \in Seq(T) /\ Len(r) = n + 1
      /\ \A j \in 1 .. n : r[j] = q[j]
      /\ r[n + 1] = x
  BY <1>2 DEF IsList
<1>4. DOMAIN q = 1 .. n /\ DOMAIN r = 1 .. (n + 1)
  BY <1>2, <1>3, LenProperties DEF IsList
<1> HIDE DEF r
<1>5. IsList(r, n + 1)
  BY <1>3 DEF IsList
<1> QED
  BY <1>3, <1>4, <1>5 DEF r

(* A node's value depends on those of its operands only.                   *)
LEMMA NodeValueLocal ==
  ASSUME NEW gr, Sound(gr), NEW input, NEW v \in Values(gr), NEW known, NEW more,
         \A w \in InputsOf(gr, v) : known[w] = more[w]
  PROVE  NodeValue(gr, input, known, gr.nodes[v]) = NodeValue(gr, input, more, gr.nodes[v])
<1> DEFINE n == gr.nodes[v]
<1>0. n.op \in Ops /\ \A j \in DOMAIN n.in : known[n.in[j]] = more[n.in[j]]
  BY GraphFacts, OperandFacts
<1>1. CASE n.op \in LeafOps
  BY <1>1 DEF NodeValue, LeafOps, ArithOps
<1>2. CASE n.op \in ArithOps \cup {"MulLocal"}
  <2>1. 1 \in DOMAIN n.in /\ 2 \in DOMAIN n.in
    BY <1>2, ArityFacts, GraphFacts
  <2>2. known[n.in[1]] = more[n.in[1]] /\ known[n.in[2]] = more[n.in[2]]
    BY <1>0, <2>1
  <2> QED
    BY <1>2, <2>2 DEF NodeValue, LeafOps, ArithOps
<1>3. CASE n.op \in {"RoundResult", "GadgetResult"}
  <2>1. 1 \in DOMAIN n.in
    BY <1>3, ArityFacts, GraphFacts
  <2>2. known[n.in[1]] = more[n.in[1]]
    BY <1>0, <2>1
  <2> QED
    BY <1>3, <2>2 DEF NodeValue, LeafOps, ArithOps
<1>4. CASE n.op \in {"Gadget", "Round"}
  <2>1. [j \in DOMAIN n.in |-> known[n.in[j]]] = [j \in DOMAIN n.in |-> more[n.in[j]]]
    BY <1>0
  <2> QED
    BY <1>4, <2>1 DEF NodeValue, LeafOps, ArithOps
<1> QED
  BY <1>0, <1>1, <1>2, <1>3, <1>4 DEF Ops

(* Every value is that of its operation.                                   *)
Denotes(gr, input, D) ==
  /\ DOMAIN D = Values(gr)
  /\ \A v \in Values(gr) : D[v] = NodeValue(gr, input, D, gr.nodes[v])

LEMMA DenotationFacts ==
  ASSUME NEW gr, Sound(gr), NEW input
  PROVE  Denotes(gr, input, Denotation(gr, input))
<1> DEFINE m == Len(gr.nodes)
           of == <<gr, input>>
<1>0. m \in Nat /\ Values(gr) = 1 .. m /\ DOMAIN gr.nodes = 1 .. m
  BY GraphFacts
<1>1. \E f : /\ Obeys("denotation", of, <<>>, gr.nodes, f, SUBSET (1 .. m))
             /\ Denotation(gr, input) = f[1 .. m]
  <2> DEFINE f == CHOOSE h : Obeys("denotation", of, <<>>, gr.nodes, h, SUBSET (1 .. m))
  <2>1. Obeys("denotation", of, <<>>, gr.nodes, f, SUBSET (1 .. m))
    <3> HIDE DEF of, m
    <3> QED
      BY <1>0, FoldRecursionExists
  <2>2. Denotation(gr, input) = f[1 .. m]
    BY <1>0 DEF Denotation, FoldLeft, MapThenFoldSet, Obeys, Step, Outermost, Turn
  <2> QED
    BY <2>1, <2>2
<1>2. PICK e : Runs("denotation", of, <<>>, gr.nodes, m, e, Denotation(gr, input))
  BY <1>0, <1>1, FoldRuns
<1>3. /\ e[0] = <<>> /\ e[m] = Denotation(gr, input)
      /\ \A n \in 1 .. m : e[n] = Append(e[n - 1], NodeValue(gr, input, e[n - 1], gr.nodes[n]))
  BY <1>2 DEF Runs, Turn
<1> DEFINE Good(n) == /\ IsList(e[n], n)
                      /\ \A v \in 1 .. n : e[n][v] = NodeValue(gr, input, e[n], gr.nodes[v])
           T == {n \in Nat : n <= m => Good(n)}
<1>4. 0 \in T
  <2>1. IsList(<<>>, 0)
    <3>1. <<>> \in Seq({}) /\ Len(<<>>) = 0
      OBVIOUS
    <3> QED
      BY <3>1 DEF IsList
  <2> QED
    BY <1>3, <2>1
<1>5. ASSUME NEW n \in T
      PROVE  n + 1 \in T
  <2> SUFFICES ASSUME n + 1 <= m PROVE Good(n + 1)
    OBVIOUS
  <2>1. n \in Nat /\ Good(n) /\ n + 1 \in 1 .. m
    BY <1>0
  <2> DEFINE x == NodeValue(gr, input, e[n], gr.nodes[n + 1])
  <2>2. e[n + 1] = Append(e[n], x)
    BY <1>3, <2>1
  <2> HIDE DEF x
  <2>3. /\ IsList(e[n + 1], n + 1) /\ e[n + 1][n + 1] = x
        /\ \A v \in 1 .. n : e[n + 1][v] = e[n][v]
    BY <2>1, <2>2, ListGrows
  <2>4. ASSUME NEW v \in 1 .. (n + 1)
        PROVE  e[n + 1][v] = NodeValue(gr, input, e[n + 1], gr.nodes[v])
    <3>1. v \in Values(gr)
      BY <1>0, <2>1
    <3>2. \A w \in InputsOf(gr, v) : e[n][w] = e[n + 1][w]
      <4>1. \A w \in InputsOf(gr, v) : w \in 1 .. m /\ w < v
        BY <1>0, <3>1, OperandFacts
      <4> QED
        BY <2>1, <2>3, <4>1
    <3>3. NodeValue(gr, input, e[n], gr.nodes[v]) = NodeValue(gr, input, e[n + 1], gr.nodes[v])
      BY <3>1, <3>2, NodeValueLocal, SMTT(40)
    <3> QED
      BY <2>1, <2>3, <3>3 DEF x
  <2> QED
    BY <2>3, <2>4
<1>6. T = Nat
  <2> HIDE DEF T
  <2>1. T \in SUBSET Nat
    BY DEF T
  <2> QED
    BY <1>4, <1>5, <2>1, NaturalsFrom0
<1>7. Good(m)
  BY <1>0, <1>6
<1>8. DOMAIN e[m] = 1 .. m
  <2>1. PICK S : e[m] \in Seq(S)
    BY <1>7 DEF IsList
  <2> QED
    BY <1>7, <2>1, LenProperties DEF IsList
<1> QED
  BY <1>0, <1>3, <1>7, <1>8 DEF Denotes

-----------------------------------------------------------------------------
(* Renumbering.                                                            *)

NodeType == [op : Ops, arg : Nat, in : Seq(Nat)]

(* Nothing but the operands is changed.                                    *)
LEMMA RenumberFacts ==
  ASSUME NEW n \in NodeType, NEW m
  PROVE  /\ Renumber(n, m).op = n.op /\ Renumber(n, m).arg = n.arg
         /\ Renumber(n, m).in = [j \in DOMAIN n.in |-> m[n.in[j]]]
         /\ DOMAIN Renumber(n, m).in = DOMAIN n.in
         /\ \A j \in DOMAIN n.in : Renumber(n, m).in[j] = m[n.in[j]]
         /\ Renumber(n, m) = [op |-> n.op, arg |-> n.arg, in |-> [j \in DOMAIN n.in |-> m[n.in[j]]]]
<1> DEFINE l == [j \in DOMAIN n.in |-> m[n.in[j]]]
<1>1. Renumber(n, m) = [n EXCEPT !.in = l]
  BY DEF Renumber
<1>2. DOMAIN l = DOMAIN n.in /\ \A j \in DOMAIN n.in : l[j] = m[n.in[j]]
  OBVIOUS
<1> HIDE DEF l
<1>3. Renumber(n, m) = [op |-> n.op, arg |-> n.arg, in |-> l]
  BY <1>1 DEF NodeType
<1> DEFINE r == Renumber(n, m)
<1>4. r.op = n.op /\ r.arg = n.arg /\ r.in = l
  BY <1>3
<1> HIDE DEF r
<1>5. DOMAIN r.in = DOMAIN n.in /\ \A j \in DOMAIN n.in : r.in[j] = m[n.in[j]]
  BY <1>2, <1>4
<1> QED
  BY <1>3, <1>4, <1>5 DEF r, l

LEMMA NodeFacts ==
  ASSUME NEW gr, Sound(gr), NEW v \in Values(gr)
  PROVE  gr.nodes[v] \in NodeType
  BY GraphFacts, ElementOfSeq DEF Sound, WellTyped, NodeType, Values

(* Two graphs and two assignments that agree on what a node reads.         *)
ReadsAlike(gr, h, m, D, E, v) ==
  /\ h.sites = gr.sites
  /\ \A w \in InputsOf(gr, v) : E[m[w]] = D[w]
  /\ gr.nodes[v].op = "GadgetResult" =>
       h.nodes[m[gr.nodes[v].in[1]]].arg = gr.nodes[gr.nodes[v].in[1]].arg

(* A node whose operands are renumbered to ones of their values has the    *)
(* value it had.                                                           *)
LEMMA RenumberedValue ==
  ASSUME NEW gr, Sound(gr), NEW v \in Values(gr), NEW h, NEW m, NEW input, NEW D, NEW E,
         ReadsAlike(gr, h, m, D, E, v)
  PROVE  NodeValue(h, input, E, Renumber(gr.nodes[v], m)) = NodeValue(gr, input, D, gr.nodes[v])
<1>0. /\ h.sites = gr.sites
      /\ \A w \in InputsOf(gr, v) : E[m[w]] = D[w]
      /\ gr.nodes[v].op = "GadgetResult" =>
           h.nodes[m[gr.nodes[v].in[1]]].arg = gr.nodes[gr.nodes[v].in[1]].arg
  BY DEF ReadsAlike
<1> DEFINE n == gr.nodes[v]
           r == Renumber(gr.nodes[v], m)
<1>1. /\ n.op \in Ops /\ \A j \in DOMAIN n.in : E[m[n.in[j]]] = D[n.in[j]]
      /\ n.op \in ArithOps \cup {"MulLocal"} => 1 \in DOMAIN n.in /\ 2 \in DOMAIN n.in
      /\ n.op \in {"RoundResult", "GadgetResult"} => 1 \in DOMAIN n.in
      /\ n.op = "GadgetResult" => h.nodes[m[n.in[1]]].arg = gr.nodes[n.in[1]].arg
  <2>1. /\ n.op \in ArithOps \cup {"MulLocal"} => Len(n.in) = 2
        /\ n.op \in {"RoundResult", "GadgetResult"} => Len(n.in) = 1
        /\ n.op \in Ops /\ DOMAIN n.in = 1 .. Len(n.in)
    BY GraphFacts, ArityFacts
  <2>2. \A j \in DOMAIN n.in : E[m[n.in[j]]] = D[n.in[j]]
    BY <1>0, OperandFacts
  <2> HIDE DEF n
  <2>3. n.op = "GadgetResult" => h.nodes[m[n.in[1]]].arg = gr.nodes[n.in[1]].arg
    BY <1>0 DEF n
  <2>4. 1 \in 1 .. 1 /\ 1 \in 1 .. 2 /\ 2 \in 1 .. 2
    OBVIOUS
  <2>5. n.op \in ArithOps \cup {"MulLocal"} => 1 \in DOMAIN n.in /\ 2 \in DOMAIN n.in
    BY <2>1, <2>4
  <2>6. n.op \in {"RoundResult", "GadgetResult"} => 1 \in DOMAIN n.in
    BY <2>1, <2>4
  <2> QED
    BY <2>1, <2>2, <2>3, <2>5, <2>6
<1>2. /\ r.op = n.op /\ r.arg = n.arg /\ DOMAIN r.in = DOMAIN n.in
      /\ \A j \in DOMAIN n.in : r.in[j] = m[n.in[j]]
  <2>1. n \in NodeType
    BY NodeFacts
  <2> HIDE DEF n
  <2>2. r = Renumber(n, m)
    BY DEF n
  <2> HIDE DEF r
  <2> QED
    BY <2>1, <2>2, RenumberFacts, ZenonT(60)
<1> HIDE DEF r, n
<1>3. CASE n.op \in LeafOps
  <2>1. NodeValue(h, input, E, r) = NodeValue(gr, input, D, n)
    BY <1>2, <1>3 DEF NodeValue, LeafOps, ArithOps
  <2> QED
    BY <2>1 DEF n, r
<1>4. CASE n.op \in ArithOps \cup {"MulLocal"}
  <2>1. E[r.in[1]] = D[n.in[1]] /\ E[r.in[2]] = D[n.in[2]]
    BY <1>1, <1>2, <1>4
  <2>2. NodeValue(h, input, E, r) = NodeValue(gr, input, D, n)
    BY <1>2, <1>4, <2>1 DEF NodeValue, LeafOps, ArithOps
  <2> QED
    BY <2>2 DEF n, r
<1>5. CASE n.op = "RoundResult"
  <2>1. E[r.in[1]] = D[n.in[1]]
    BY <1>1, <1>2, <1>5
  <2>2. NodeValue(h, input, E, r) = NodeValue(gr, input, D, n)
    BY <1>2, <1>5, <2>1 DEF NodeValue, LeafOps, ArithOps
  <2> QED
    BY <2>2 DEF n, r
<1>6. CASE n.op = "GadgetResult"
  <2>1. E[r.in[1]] = D[n.in[1]] /\ h.nodes[r.in[1]].arg = gr.nodes[n.in[1]].arg
    BY <1>1, <1>2, <1>6
  <2>2. NodeValue(h, input, E, r) = NodeValue(gr, input, D, n)
    BY <1>0, <1>2, <1>6, <2>1 DEF NodeValue, LeafOps, ArithOps
  <2> QED
    BY <2>2 DEF n, r
<1>7. CASE n.op \in {"Gadget", "Round"}
  <2>1. [j \in DOMAIN r.in |-> E[r.in[j]]] = [j \in DOMAIN n.in |-> D[n.in[j]]]
    BY <1>1, <1>2
  <2>2. NodeValue(h, input, E, r) = NodeValue(gr, input, D, n)
    BY <1>2, <1>7, <2>1 DEF NodeValue, LeafOps, ArithOps
  <2> QED
    BY <2>2 DEF n, r
<1> QED
  BY <1>1, <1>3, <1>4, <1>5, <1>6, <1>7 DEF Ops

(* Some nodes of a graph, with all they depend on, found again in another. *)
Represents(gr, h, K, m) ==
  /\ h.sites = gr.sites
  /\ \A v \in K : /\ v \in Values(gr) /\ InputsOf(gr, v) \subseteq K
                  /\ m[v] \in Values(h)
                  /\ h.nodes[m[v]] = Renumber(gr.nodes[v], m)

LEMMA RepresentedValues ==
  ASSUME NEW gr, Sound(gr), NEW h, NEW K, NEW m, Represents(gr, h, K, m),
         NEW input, NEW D, Denotes(gr, input, D), NEW E, Denotes(h, input, E)
  PROVE  \A v \in K : E[m[v]] = D[v]
<1> DEFINE T == {v \in Nat : v \in K /\ E[m[v]] # D[v]}
<1>1. ASSUME NEW v \in K, \A w \in K : w < v => E[m[w]] = D[w]
      PROVE  E[m[v]] = D[v]
  <2>1. /\ v \in Values(gr) /\ InputsOf(gr, v) \subseteq K /\ m[v] \in Values(h)
        /\ h.nodes[m[v]] = Renumber(gr.nodes[v], m) /\ h.sites = gr.sites
    BY DEF Represents
  <2>2. \A w \in InputsOf(gr, v) : E[m[w]] = D[w]
    BY <1>1, <2>1, OperandFacts
  <2>3. ASSUME gr.nodes[v].op = "GadgetResult"
        PROVE  h.nodes[m[gr.nodes[v].in[1]]].arg = gr.nodes[gr.nodes[v].in[1]].arg
    <3> DEFINE w == gr.nodes[v].in[1]
    <3>1. 1 \in DOMAIN gr.nodes[v].in
      BY <2>1, <2>3, ArityFacts, GraphFacts
    <3>2. w \in InputsOf(gr, v)
      BY <2>1, <3>1, OperandFacts
    <3>3. w \in Values(gr) /\ h.nodes[m[w]] = Renumber(gr.nodes[w], m)
      BY <2>1, <3>2 DEF Represents
    <3>4. gr.nodes[w] \in NodeType
      BY <3>3, NodeFacts
    <3> HIDE DEF w
    <3>5. Renumber(gr.nodes[w], m).arg = gr.nodes[w].arg
      BY <3>4, RenumberFacts
    <3>6. h.nodes[m[w]].arg = gr.nodes[w].arg
      BY <3>3, <3>5
    <3> QED
      BY <3>6 DEF w
  <2>4. NodeValue(h, input, E, Renumber(gr.nodes[v], m)) = NodeValue(gr, input, D, gr.nodes[v])
    <3>1. ReadsAlike(gr, h, m, D, E, v)
      BY <2>1, <2>2, <2>3 DEF ReadsAlike
    <3> QED
      BY <2>1, <3>1, RenumberedValue
  <2> QED
    BY <2>1, <2>4 DEF Denotes
<1>2. K \subseteq Nat
  BY GraphFacts DEF Represents
<1>3. T = {}
  <2> SUFFICES ASSUME T # {} PROVE FALSE
    OBVIOUS
  <2>1. T \in SUBSET Nat
    OBVIOUS
  <2>2. PICK v \in T : \A w \in T : v <= w
    BY <2>1, LeastElement
  <2>3. \A w \in K : w < v => E[m[w]] = D[w]
    BY <1>2, <2>2
  <2> QED
    BY <1>1, <2>2, <2>3
<1> QED
  BY <1>2, <1>3

-----------------------------------------------------------------------------
(* The shape of a graph.                                                   *)

(* Nothing but the nodes and the values of the outputs is replaced.        *)
Rebuilt(gr, nodes, m, h) ==
  /\ h.nodes = nodes /\ h.sites = gr.sites /\ h.public = gr.public
  /\ h.numOutputs = gr.numOutputs /\ h.numInputs = gr.numInputs
  /\ h.witness = gr.witness
  /\ DOMAIN h.outputs = DOMAIN gr.outputs
  /\ \A j \in DOMAIN gr.outputs :
       h.outputs[j] = [signal |-> gr.outputs[j].signal, value |-> m[gr.outputs[j].value]]
  /\ h.outputs = [j \in DOMAIN gr.outputs |->
                    [signal |-> gr.outputs[j].signal, value |-> m[gr.outputs[j].value]]]
  /\ h = [nodes |-> h.nodes, outputs |-> h.outputs, sites |-> h.sites,
          public |-> h.public, numOutputs |-> h.numOutputs,
          numInputs |-> h.numInputs, witness |-> h.witness]

LEMMA RebuildFacts ==
  ASSUME NEW gr, IsGraph(gr), NEW nodes, NEW m
  PROVE  Rebuilt(gr, nodes, m, RebuildNodes(gr, nodes, m))
<1> DEFINE h == RebuildNodes(gr, nodes, m)
           out == [j \in DOMAIN gr.outputs |-> [gr.outputs[j] EXCEPT !.value = m[gr.outputs[j].value]]]
<1>0. h = [gr EXCEPT !.nodes = nodes, !.outputs = out]
  BY DEF RebuildNodes
<1> HIDE DEF h, out
<1>1. h = [nodes |-> nodes, outputs |-> out, sites |-> gr.sites,
           public |-> gr.public, numOutputs |-> gr.numOutputs,
           numInputs |-> gr.numInputs, witness |-> gr.witness]
  BY <1>0 DEF IsGraph
<1> USE DEF out
<1>2. \A j \in DOMAIN gr.outputs : gr.outputs[j] \in [signal : Nat, value : Nat]
  BY ElementOfSeq, LenProperties DEF IsGraph
<1>3. \A j \in DOMAIN gr.outputs :
        out[j] = [signal |-> gr.outputs[j].signal, value |-> m[gr.outputs[j].value]]
  BY <1>2
<1>4. h.outputs = out /\ DOMAIN out = DOMAIN gr.outputs
  BY <1>1
<1>7. out = [j \in DOMAIN gr.outputs |->
               [signal |-> gr.outputs[j].signal, value |-> m[gr.outputs[j].value]]]
  BY <1>3
<1> HIDE DEF out
<1>5. /\ h.nodes = nodes /\ h.sites = gr.sites /\ h.public = gr.public
      /\ h.numOutputs = gr.numOutputs /\ h.numInputs = gr.numInputs
      /\ h.witness = gr.witness
  BY <1>1
<1>6. /\ h = [nodes |-> h.nodes, outputs |-> h.outputs, sites |-> h.sites,
              public |-> h.public, numOutputs |-> h.numOutputs,
              numInputs |-> h.numInputs, witness |-> h.witness]
  BY <1>1, <1>4, <1>5
<1> QED
  BY <1>3, <1>4, <1>5, <1>6, <1>7 DEF h, Rebuilt

-----------------------------------------------------------------------------
(* The rewriting passes.                                                   *)

RewritingPasses == {"fold", "cse", "split"}

Rewritten(pass, gr) ==
  CASE pass = "fold"  -> ConstFold(gr)
    [] pass = "cse"   -> Cse(gr)
    [] pass = "split" -> MulSplit(gr)

Blank == [nodes |-> <<>>, remap |-> <<>>, changed |-> FALSE]

Positions(gr) == [i \in DOMAIN gr.nodes |-> i]

(* A pass is a fold over the positions.                                    *)
LEMMA RewritingRuns ==
  ASSUME NEW gr, Sound(gr), NEW pass \in RewritingPasses
  PROVE  \E e : \E last :
           /\ Runs(pass, gr, Blank, Positions(gr), Len(gr.nodes), e, last)
           /\ Rewritten(pass, gr) =
                [graph   |-> RebuildNodes(gr, last.nodes, last.remap),
                 changed |-> last.changed \/ Len(last.nodes) # Len(gr.nodes)]
<1> DEFINE m == Len(gr.nodes)
           pos == Positions(gr)
           D == SUBSET DOMAIN pos
           n(h, s, x) == Renumber(gr.nodes[pos[x]], h[s \ {x}].remap)
           at(h, s, x) == h[s \ {x}].nodes
           Fold(h) == h = [s \in D |-> IF s = {} THEN Blank
                                       ELSE LET x == Max(s)
                                            IN  Continue(h[s \ {x}], FoldNode(n(h, s, x), at(h, s, x)))]
           Merge(h) == h = [s \in D |-> IF s = {} THEN Blank
                                        ELSE LET x == Max(s)
                                             IN  Continue(h[s \ {x}], CseNode(n(h, s, x), at(h, s, x)))]
           Split(h) == h = [s \in D |-> IF s = {} THEN Blank
                                        ELSE LET x == Max(s)
                                             IN  Continue(h[s \ {x}],
                                                   SplitNode(gr, pos[x], n(h, s, x), at(h, s, x)))]
           Is(last) == Rewritten(pass, gr) =
                         [graph   |-> RebuildNodes(gr, last.nodes, last.remap),
                          changed |-> last.changed \/ Len(last.nodes) # Len(gr.nodes)]
<1>0. m \in Nat /\ D = SUBSET (1 .. m) /\ \A x \in 1 .. m : pos[x] = x
  BY GraphFacts DEF Positions
<1>1. PICK h : Obeys(pass, gr, Blank, pos, h, D)
  <2> HIDE DEF m, pos, D
  <2> QED
    BY <1>0, FoldRecursionExists
<1>2. ASSUME pass = "fold"
      PROVE  \E g : Obeys(pass, gr, Blank, pos, g, D) /\ Is(g[DOMAIN pos])
  <2>1. ASSUME NEW g
        PROVE  Fold(g) <=> Obeys(pass, gr, Blank, pos, g, D)
    BY <1>2 DEF Obeys, Step, Outermost, Turn, Rewriting1, Decide
  <2>2. Fold(CHOOSE g : Fold(g))
    BY Zenon, <1>1, <2>1
  <2>3. Is((CHOOSE g : Fold(g))[DOMAIN pos])
    <3>1. ConstFold(gr) =
            LET last == (CHOOSE g : Fold(g))[DOMAIN pos]
            IN  [graph   |-> RebuildNodes(gr, last.nodes, last.remap),
                 changed |-> last.changed \/ Len(last.nodes) # Len(gr.nodes)]
      BY ZenonT(20) DEF ConstFold, Rewrite, FoldLeftDomain, FoldLeft, MapThenFoldSet,
         Blank, Positions, Continue, NodesAfter
    <3> QED
      BY Zenon, <1>2, <3>1 DEF Rewritten
  <2> HIDE DEF Is, Fold
  <2> QED
    BY <2>1, <2>2, <2>3
<1>3. ASSUME pass = "cse"
      PROVE  \E g : Obeys(pass, gr, Blank, pos, g, D) /\ Is(g[DOMAIN pos])
  <2>1. ASSUME NEW g
        PROVE  Merge(g) <=> Obeys(pass, gr, Blank, pos, g, D)
    BY <1>3 DEF Obeys, Step, Outermost, Turn, Rewriting1, Decide
  <2>2. Merge(CHOOSE g : Merge(g))
    BY <1>1, <2>1
  <2>3. Is((CHOOSE g : Merge(g))[DOMAIN pos])
    <3>1. Cse(gr) =
            LET last == (CHOOSE g : Merge(g))[DOMAIN pos]
            IN  [graph   |-> RebuildNodes(gr, last.nodes, last.remap),
                 changed |-> last.changed \/ Len(last.nodes) # Len(gr.nodes)]
      BY ZenonT(20) DEF Cse, Rewrite, FoldLeftDomain, FoldLeft, MapThenFoldSet,
         Blank, Positions, Continue, NodesAfter
    <3> QED
      BY Zenon, <1>3, <3>1 DEF Rewritten
  <2> HIDE DEF Is, Merge
  <2> QED
    BY <2>1, <2>2, <2>3
<1>4. ASSUME pass = "split"
      PROVE  \E g : Obeys(pass, gr, Blank, pos, g, D) /\ Is(g[DOMAIN pos])
  <2>1. ASSUME NEW g
        PROVE  Split(g) <=> Obeys(pass, gr, Blank, pos, g, D)
    BY <1>4 DEF Obeys, Step, Outermost, Turn, Rewriting1, Decide
  <2>2. Split(CHOOSE g : Split(g))
    BY Zenon, <1>1, <2>1
  <2>3. Is((CHOOSE g : Split(g))[DOMAIN pos])
    <3>1. MulSplit(gr) =
            LET last == (CHOOSE g : Split(g))[DOMAIN pos]
            IN  [graph   |-> RebuildNodes(gr, last.nodes, last.remap),
                 changed |-> last.changed \/ Len(last.nodes) # Len(gr.nodes)]
      BY ZenonT(20) DEF MulSplit, SplitNode, SecretProducts, SplitProduct, RoundId,
         Rewrite, FoldLeftDomain, FoldLeft, MapThenFoldSet,
         Blank, Positions, Continue, NodesAfter
    <3> QED
      BY Zenon, <1>4, <3>1 DEF Rewritten
  <2> HIDE DEF Is, Split
  <2> QED
    BY <2>1, <2>2, <2>3
<1>5. PICK g : Obeys(pass, gr, Blank, pos, g, D) /\ Is(g[DOMAIN pos])
  <2> HIDE DEF Is
  <2>1. pass = "fold" \/ pass = "cse" \/ pass = "split"
    BY DEF RewritingPasses
  <2> QED
    BY <1>2, <1>3, <1>4, <2>1
<1>6. DOMAIN pos = 1 .. m
  BY GraphFacts DEF Positions
<1>7. \E e : Runs(pass, gr, Blank, pos, m, e, g[DOMAIN pos])
  <2> HIDE DEF m, pos, D
  <2> QED
    BY <1>0, <1>5, <1>6, FoldRuns
<1> QED
  BY <1>5, <1>7

(* A node that may stand after the first k of a list.                      *)
Placed(n, k) ==
  /\ n \in NodeType
  /\ Len(n.in) \in Arities(n.op)
  /\ \A j \in DOMAIN n.in : n.in[j] \in 1 .. k

NodeList(q) == q \in Seq(NodeType) /\ \A p \in 1 .. Len(q) : Placed(q[p], p - 1)

(* What a callback may answer after k nodes.                               *)
Sane(action, k) ==
  \/ /\ action.tag = "Emit"
     /\ action.changes \in BOOLEAN
     /\ action.nodes \in Seq(NodeType)
     /\ Len(action.nodes) >= 1
     /\ \A j \in 1 .. Len(action.nodes) : Placed(action.nodes[j], k + j - 1)
  \/ action.tag = "ReplaceWith" /\ action.target \in 1 .. k

LEMMA ArityOfPlaced ==
  ASSUME NEW k \in Nat, NEW n, Placed(n, k)
  PROVE  /\ n.op \in Ops /\ n.arg \in Nat /\ n.in \in Seq(Nat)
         /\ n = [op |-> n.op, arg |-> n.arg, in |-> n.in]
         /\ DOMAIN n.in = 1 .. Len(n.in) /\ Len(n.in) \in Nat
         /\ n.op \in ArithOps \cup {"MulLocal"} =>
              /\ Len(n.in) = 2 /\ 1 \in DOMAIN n.in /\ 2 \in DOMAIN n.in
              /\ n.in[1] \in 1 .. k /\ n.in[2] \in 1 .. k
         /\ n.op \in {"GadgetResult", "RoundResult"} =>
              Len(n.in) = 1 /\ 1 \in DOMAIN n.in /\ n.in[1] \in 1 .. k
         /\ n.op \in LeafOps => Len(n.in) = 0
<1>1. /\ n.op \in Ops /\ n.arg \in Nat /\ n.in \in Seq(Nat)
      /\ n = [op |-> n.op, arg |-> n.arg, in |-> n.in]
  BY DEF Placed, NodeType
<1>2. DOMAIN n.in = 1 .. Len(n.in) /\ Len(n.in) \in Nat
  BY <1>1, LenProperties
<1>3. Len(n.in) \in Arities(n.op)
  BY DEF Placed
<1>4. /\ n.op \in ArithOps \cup {"MulLocal"} => Len(n.in) = 2
      /\ n.op \in {"GadgetResult", "RoundResult"} => Len(n.in) = 1
      /\ n.op \in LeafOps => Len(n.in) = 0
  BY <1>3 DEF Arities, ArithOps, LeafOps
<1>5. 1 \in 1 .. 1 /\ 1 \in 1 .. 2 /\ 2 \in 1 .. 2
  OBVIOUS
<1>6. n.op \in ArithOps \cup {"MulLocal"} => 1 \in DOMAIN n.in /\ 2 \in DOMAIN n.in
  BY <1>2, <1>4, <1>5
<1>7. n.op \in {"GadgetResult", "RoundResult"} => 1 \in DOMAIN n.in
  BY <1>2, <1>4, <1>5
<1>8. \A j \in DOMAIN n.in : n.in[j] \in 1 .. k
  BY DEF Placed
<1> QED
  BY <1>1, <1>2, <1>4, <1>6, <1>7, <1>8

(* The answer to emit some nodes, or one.                                  *)
LEMMA EmitSane ==
  ASSUME NEW k \in Nat, NEW q \in Seq(NodeType), Len(q) >= 1, NEW c \in BOOLEAN,
         \A j \in 1 .. Len(q) : Placed(q[j], k + j - 1)
  PROVE  Sane([tag |-> "Emit", nodes |-> q, changes |-> c], k)
<1> DEFINE action == [tag |-> "Emit", nodes |-> q, changes |-> c]
<1>1. action.tag = "Emit" /\ action.nodes = q /\ action.changes = c
  OBVIOUS
<1> HIDE DEF action
<1>2. Sane(action, k)
  BY <1>1 DEF Sane
<1> QED
  BY <1>2 DEF action

LEMMA EmitOneSane ==
  ASSUME NEW k \in Nat, NEW n, Placed(n, k), NEW c \in BOOLEAN
  PROVE  Sane([tag |-> "Emit", nodes |-> <<n>>, changes |-> c], k)
<1>1. n \in NodeType
  BY DEF Placed
<1>2. <<n>> \in Seq(NodeType) /\ Len(<<n>>) = 1 /\ <<n>>[1] = n
  BY <1>1
<1> DEFINE q == <<n>>
<1> HIDE DEF q
<1>3. \A j \in 1 .. Len(q) : Placed(q[j], k + j - 1)
  BY <1>2 DEF q
<1>4. Sane([tag |-> "Emit", nodes |-> q, changes |-> c], k)
  <2>1. q \in Seq(NodeType) /\ Len(q) >= 1
    BY <1>2 DEF q
  <2> QED
    BY <1>3, <2>1, EmitSane
<1> QED
  BY <1>4 DEF q

Zero(n, emitted, j, c) == emitted[n.in[j]].op = "Constant" /\ emitted[n.in[j]].arg = c

(* The answers of constant folding.                                        *)
FoldCases(n, emitted, action) ==
  \/ action = Keep(n)
  \/ /\ n.op \in ArithOps
     /\ emitted[n.in[1]].op = "Constant" /\ emitted[n.in[2]].op = "Constant"
     /\ action = Emit(Constant(ArithValue(n.op, emitted[n.in[1]].arg, emitted[n.in[2]].arg)))
  \/ /\ n.op = "Mul"
     /\ Zero(n, emitted, 1, 0) \/ Zero(n, emitted, 2, 0)
     /\ action = Emit(Constant(0))
  \/ /\ \/ n.op = "Add" /\ Zero(n, emitted, 1, 0)
        \/ n.op = "Mul" /\ Zero(n, emitted, 1, 1)
     /\ action = ReplaceWith(n.in[2])
  \/ /\ \/ n.op \in {"Add", "Sub"} /\ Zero(n, emitted, 2, 0)
        \/ n.op = "Mul" /\ Zero(n, emitted, 2, 1)
     /\ action = ReplaceWith(n.in[1])

LEMMA FoldAnswers ==
  ASSUME NEW n, NEW emitted
  PROVE  FoldCases(n, emitted, FoldNode(n, emitted))
  BY DEF FoldCases, FoldNode, Zero, ArithOps

LEMMA ArithValueType ==
  ASSUME NEW op \in ArithOps \cup {"MulLocal"}, NEW x \in Int, NEW y \in Int
  PROVE  ArithValue(op, x, y) \in 0 .. (P - 1)
<1>1. x + y \in Int /\ x - y \in Int /\ x * y \in Int
  OBVIOUS
<1>2. \A z \in Int : z % P \in 0 .. (P - 1)
  BY PAssumption
<1> QED
  BY <1>1, <1>2 DEF ArithValue, ArithOps

Same(n, emitted) ==
  {w \in DOMAIN emitted : emitted[w].op \in PureOps /\ CseKey(emitted[w]) = CseKey(n)}

(* The answers of common-subexpression elimination.                        *)
LEMMA CseAnswers ==
  ASSUME NEW n, NEW emitted, DOMAIN emitted \in SUBSET Nat
  PROVE  \/ /\ CseNode(n, emitted) = Keep(n)
            /\ n.op \notin PureOps \/ Same(n, emitted) = {}
         \/ \E t \in Same(n, emitted) : n.op \in PureOps /\ CseNode(n, emitted) = ReplaceWith(t)
<1>1. Same(n, emitted) \in SUBSET Nat
  BY DEF Same
<1>2. Same(n, emitted) # {} => Min(Same(n, emitted)) \in Same(n, emitted)
  BY <1>1, SmallestElement
<1>3. CseNode(n, emitted) = IF n.op \in PureOps /\ Same(n, emitted) # {}
                            THEN ReplaceWith(Min(Same(n, emitted))) ELSE Keep(n)
  BY DEF CseNode, Same
<1> QED
  BY <1>2, <1>3

(* The three nodes of a split product.                                     *)
LEMMA SplitSane ==
  ASSUME NEW k \in Nat, NEW n, Placed(n, k), n.op = "Mul", NEW id \in Nat
  PROVE  Sane(EmitMany(SplitProduct(n, id, k)), k)
<1> DEFINE a == [op |-> "MulLocal", arg |-> 0, in |-> n.in]
           b == [op |-> "Round", arg |-> id, in |-> <<k + 1>>]
           c == [op |-> "RoundResult", arg |-> 0, in |-> <<k + 2>>]
<1>1. n.in \in Seq(Nat) /\ Len(n.in) = 2 /\ \A j \in DOMAIN n.in : n.in[j] \in 1 .. k
  BY ArityOfPlaced DEF ArithOps, Placed
<1>2. a \in NodeType /\ b \in NodeType /\ c \in NodeType
  BY <1>1 DEF NodeType, Ops
<1>3. Placed(a, k)
  BY <1>1, <1>2 DEF Placed, Arities, ArithOps, LeafOps
<1>4. Placed(b, k + 1)
  BY <1>2 DEF Placed, Arities, ArithOps, LeafOps
<1>5. Placed(c, k + 2)
  BY <1>2 DEF Placed, Arities, ArithOps, LeafOps
<1>6. SplitProduct(n, id, k) = <<a, b, c>>
  BY DEF SplitProduct, Node
<1> HIDE DEF a, b, c
<1> DEFINE q == <<a, b, c>>
<1>7. q \in Seq(NodeType) /\ Len(q) = 3 /\ q[1] = a /\ q[2] = b /\ q[3] = c
  BY <1>2
<1> HIDE DEF q
<1>8. ASSUME NEW j \in 1 .. Len(q)
      PROVE  Placed(q[j], k + j - 1)
  <2>1. k + 1 - 1 = k /\ k + 2 - 1 = k + 1 /\ k + 3 - 1 = k + 2
    OBVIOUS
  <2>2. j = 1 \/ j = 2 \/ j = 3
    BY <1>7
  <2> QED
    BY <1>3, <1>4, <1>5, <1>7, <2>1, <2>2
<1>9. \A d \in BOOLEAN : Sane([tag |-> "Emit", nodes |-> q, changes |-> d], k)
  <2>1. Len(q) >= 1
    BY <1>7
  <2> QED
    BY <1>7, <1>8, <2>1, EmitSane
<1> QED
  BY <1>6, <1>9 DEF EmitMany, q

(* Every pass answers something it may.                                    *)
LEMMA AnswersSane ==
  ASSUME NEW gr, Sound(gr), NEW pass \in RewritingPasses, NEW v \in Values(gr),
         NEW emitted, NodeList(emitted),
         NEW n, Placed(n, Len(emitted)), n.op = gr.nodes[v].op
  PROVE  Sane(Decide(pass, gr, v, n, emitted), Len(emitted))
<1> DEFINE k == Len(emitted)
<1>0. k \in Nat /\ DOMAIN emitted = 1 .. k /\ \A p \in 1 .. k : emitted[p] \in NodeType
  BY LenProperties, ElementOfSeq DEF NodeList
<1>1. Sane(Keep(n), k)
  BY <1>0, EmitOneSane DEF Keep
<1>2. ASSUME pass = "fold"
      PROVE  Sane(FoldNode(n, emitted), k)
  <2> DEFINE action == FoldNode(n, emitted)
  <2>1. FoldCases(n, emitted, action)
    BY FoldAnswers
  <2> HIDE DEF action
  <2>2. ASSUME NEW c \in Nat
        PROVE  Sane(Emit(Constant(c)), k)
    <3>1. Constant(c) = [op |-> "Constant", arg |-> c, in |-> <<>>]
      BY DEF Constant, Node
    <3>2. <<>> \in Seq(Nat) /\ Len(<<>>) = 0 /\ DOMAIN <<>> = {}
      OBVIOUS
    <3>3. Placed(Constant(c), k)
      <4> DEFINE in == <<>>
                 x == [op |-> "Constant", arg |-> c, in |-> in]
      <4>1. in \in Seq(Nat) /\ Len(in) = 0 /\ DOMAIN in = {}
        BY <3>2
      <4> HIDE DEF in
      <4>2. x.op = "Constant" /\ x.in = in /\ x \in NodeType
        BY <4>1 DEF NodeType, Ops, LeafOps
      <4> HIDE DEF x
      <4>3. 0 \in Arities(x.op)
        <5>1. 0 \in Arities("Constant")
          BY DEF LeafOps, ArithOps, Arities
        <5> QED
          BY <4>2, <5>1
      <4>4. Placed(x, k)
        BY <4>1, <4>2, <4>3 DEF Placed
      <4> QED
        BY <3>1, <4>4 DEF x, in
    <3> QED
      BY <1>0, <3>3, EmitOneSane DEF Emit
  <2>3. ASSUME n.op \in ArithOps
        PROVE  n.in[1] \in 1 .. k /\ n.in[2] \in 1 .. k
    BY <1>0, <2>3, ArityOfPlaced
  <2>4. \A j \in 1 .. k : Sane(ReplaceWith(j), k)
    BY DEF Sane, ReplaceWith
  <2>5. ASSUME n.op \in ArithOps
        PROVE  ArithValue(n.op, emitted[n.in[1]].arg, emitted[n.in[2]].arg) \in Nat
    <3>1. emitted[n.in[1]].arg \in Nat /\ emitted[n.in[2]].arg \in Nat
      BY <1>0, <2>3, <2>5 DEF NodeType
    <3> HIDE DEF k
    <3>2. ArithValue(n.op, emitted[n.in[1]].arg, emitted[n.in[2]].arg) \in 0 .. (P - 1)
      BY <2>5, <3>1, ArithValueType
    <3> QED
      BY <3>2
  <2> HIDE DEF k
  <2>6. Sane(action, k)
    BY <1>1, <2>1, <2>2, <2>3, <2>4, <2>5 DEF FoldCases, ArithOps
  <2> QED
    BY <2>6 DEF action
<1>3. ASSUME pass = "cse"
      PROVE  Sane(CseNode(n, emitted), k)
  <2>1. \A t \in Same(n, emitted) : Sane(ReplaceWith(t), k)
    BY <1>0 DEF Sane, ReplaceWith, Same
  <2> QED
    BY <1>0, <1>1, <2>1, CseAnswers
<1>4. ASSUME pass = "split"
      PROVE  Sane(SplitNode(gr, v, n, emitted), k)
  <2>1. RoundId(gr, v) \in Nat
    <3>1. SecretProducts(gr) \subseteq 1 .. Len(gr.nodes) /\ Len(gr.nodes) \in Nat
      BY GraphFacts DEF SecretProducts, NodesOf
    <3> DEFINE S == {w \in SecretProducts(gr) : w <= v}
    <3>0. S \subseteq 1 .. Len(gr.nodes) /\ IsFiniteSet(1 .. Len(gr.nodes))
      <4>1. IsFiniteSet(1 .. Len(gr.nodes))
        BY <3>1, FS_Interval
      <4> QED
        BY <3>1, <4>1
    <3>2. IsFiniteSet(S)
      BY <3>0, FS_Subset
    <3> QED
      BY <3>2, FS_CardinalityType DEF RoundId
  <2>2. v \in SecretProducts(gr) => n.op = "Mul"
    BY DEF SecretProducts, NodesOf
  <2>3. v \in SecretProducts(gr) => Sane(EmitMany(SplitProduct(n, RoundId(gr, v), k)), k)
    BY <1>0, <2>1, <2>2, SplitSane
  <2> QED
    BY <1>1, <2>3 DEF SplitNode
<1> QED
  BY <1>2, <1>3, <1>4 DEF Decide, RewritingPasses

-----------------------------------------------------------------------------
(* The course of a rewrite.                                                *)

(* Positions of values in a list.                                          *)
Indexes(m, v, k) == m \in Seq(Nat) /\ Len(m) = v /\ \A w \in 1 .. v : m[w] \in 1 .. k

(* One list of nodes begins another.                                       *)
Begins(q, r) == Len(q) <= Len(r) /\ \A p \in 1 .. Len(q) : r[p] = q[p]

(* What an answer makes of a list.                                         *)
Answered(action, q, r, target) ==
  /\ action.tag = "Emit" =>
       /\ Len(r) = Len(q) + Len(action.nodes)
       /\ \A j \in 1 .. Len(action.nodes) : r[Len(q) + j] = action.nodes[j]
       /\ target = Len(r)
  /\ action.tag # "Emit" => r = q /\ target = action.target

Quiet(action) == action.tag = "Emit" /\ ~ action.changes

LEMMA ContinueFacts ==
  ASSUME NEW acc, NodeList(acc.nodes), acc.changed \in BOOLEAN,
         NEW v \in Nat, Indexes(acc.remap, v, Len(acc.nodes)),
         NEW action, Sane(action, Len(acc.nodes)),
         NEW new, new = Continue(acc, action)
  PROVE  /\ NodeList(new.nodes) /\ new.changed \in BOOLEAN
         /\ Indexes(new.remap, v + 1, Len(new.nodes))
         /\ Begins(acc.nodes, new.nodes)
         /\ \A w \in 1 .. v : new.remap[w] = acc.remap[w]
         /\ Answered(action, acc.nodes, new.nodes, new.remap[v + 1])
         /\ ~ new.changed <=> ~ acc.changed /\ Quiet(action)
<1> DEFINE q == acc.nodes
           k == Len(q)
           target == IF action.tag = "Emit" THEN Len(NodesAfter(acc, action)) ELSE action.target
<1>0. /\ q \in Seq(NodeType) /\ k \in Nat /\ DOMAIN q = 1 .. k
      /\ \A p \in 1 .. k : Placed(q[p], p - 1)
      /\ acc.remap \in Seq(Nat) /\ Len(acc.remap) = v
      /\ \A w \in 1 .. v : acc.remap[w] \in 1 .. k
  BY LenProperties DEF NodeList, Indexes
<1>1. /\ new.nodes = NodesAfter(acc, action)
      /\ new.remap = Append(acc.remap, target)
      /\ new.changed = (acc.changed \/ action.tag = "ReplaceWith" \/ action.changes)
  BY DEF Continue
<1> HIDE DEF q, k
<1>2. /\ NodeList(new.nodes) /\ Begins(q, new.nodes)
      /\ target \in 1 .. Len(new.nodes)
      /\ Len(new.nodes) \in Nat /\ k <= Len(new.nodes)
      /\ Answered(action, q, new.nodes, target)
  <2>1. CASE action.tag = "Emit"
    <3> DEFINE x == action.nodes
               r == q \o x
    <3>1. /\ x \in Seq(NodeType) /\ Len(x) \in Nat /\ Len(x) >= 1
          /\ \A j \in 1 .. Len(x) : Placed(x[j], k + j - 1)
      BY <2>1, LenProperties DEF Sane, k, q
    <3> HIDE DEF x
    <3>2. /\ r \in Seq(NodeType) /\ Len(r) = k + Len(x)
          /\ \A p \in 1 .. k : r[p] = q[p]
          /\ \A j \in 1 .. Len(x) : r[k + j] = x[j]
      BY <1>0, <3>1 DEF k
    <3>3. new.nodes = r /\ target = Len(r)
      BY <1>1, <2>1 DEF NodesAfter, q, x
    <3> HIDE DEF r
    <3>4. ASSUME NEW p \in 1 .. Len(r)
          PROVE  Placed(r[p], p - 1)
      <4>1. CASE p \in 1 .. k
        BY <1>0, <3>2, <4>1
      <4>2. CASE p \notin 1 .. k
        <5>1. p - k \in 1 .. Len(x) /\ k + (p - k) = p /\ k + (p - k) - 1 = p - 1
          BY <1>0, <3>1, <3>2, <4>2
        <5>2. r[k + (p - k)] = x[p - k] /\ Placed(x[p - k], k + (p - k) - 1)
          BY <3>1, <3>2, <5>1
        <5> QED
          BY <5>1, <5>2
      <4> QED
        BY <4>1, <4>2
    <3>5. NodeList(r) /\ Begins(q, r)
      BY <1>0, <3>1, <3>2, <3>4 DEF NodeList, Begins, k
    <3> HIDE DEF target
    <3>6. Answered(action, q, new.nodes, target)
      BY <2>1, <3>2, <3>3 DEF Answered, k, x
    <3> QED
      BY <1>0, <3>1, <3>2, <3>3, <3>5, <3>6
  <2>2. CASE action.tag # "Emit"
    <3>1. action.tag = "ReplaceWith" /\ action.target \in 1 .. k
      BY <2>2 DEF Sane, k, q
    <3>2. new.nodes = q /\ target = action.target
      BY <1>1, <2>2 DEF NodesAfter, q
    <3>3. NodeList(q) /\ Begins(q, q)
      BY <1>0 DEF NodeList, Begins, k
    <3> HIDE DEF target
    <3>4. Answered(action, q, new.nodes, target)
      BY <2>2, <3>2 DEF Answered
    <3> QED
      BY <1>0, <3>1, <3>2, <3>3, <3>4 DEF k
  <2> QED
    BY <2>1, <2>2
<1> HIDE DEF target
<1>3. /\ new.remap \in Seq(Nat) /\ Len(new.remap) = v + 1
      /\ \A w \in 1 .. v : new.remap[w] = acc.remap[w]
      /\ new.remap[v + 1] = target
  <2>1. target \in Nat
    BY <1>2
  <2> QED
    BY <1>0, <1>1, <2>1
<1>4. Indexes(new.remap, v + 1, Len(new.nodes))
  <2>1. \A w \in 1 .. (v + 1) : w \in 1 .. v \/ w = v + 1
    OBVIOUS
  <2>2. \A w \in 1 .. (v + 1) : new.remap[w] \in 1 .. Len(new.nodes)
    <3>1. ASSUME NEW w \in 1 .. v
          PROVE  new.remap[w] \in 1 .. Len(new.nodes)
      <4>1. new.remap[w] = acc.remap[w] /\ acc.remap[w] \in 1 .. k
        BY <1>0, <1>3
      <4> QED
        BY <1>0, <1>2, <4>1
    <3>2. new.remap[v + 1] \in 1 .. Len(new.nodes)
      BY <1>2, <1>3
    <3> QED
      BY <2>1, <3>1, <3>2
  <2> QED
    BY <1>3, <2>2 DEF Indexes
<1>5. new.changed \in BOOLEAN /\ (~ new.changed <=> ~ acc.changed /\ Quiet(action))
  BY <1>1 DEF Sane, Quiet
<1> QED
  BY <1>2, <1>3, <1>4, <1>5 DEF q

(* How a pass went over a graph: em[v] is the list after node v, m where   *)
(* every value has gone.                                                   *)
Visited(pass, gr, em, m, v) ==
  LET n      == Renumber(gr.nodes[v], m)
      action == Decide(pass, gr, v, n, em[v - 1])
  IN  /\ Placed(n, Len(em[v - 1]))
      /\ Sane(action, Len(em[v - 1]))
      /\ Answered(action, em[v - 1], em[v], m[v])
      /\ m[v] \in 1 .. Len(em[v])

Stays(pass, gr, em, m) ==
  \A v \in Values(gr) : Quiet(Decide(pass, gr, v, Renumber(gr.nodes[v], m), em[v - 1]))

Course(pass, gr, em, m) ==
  /\ em[0] = <<>>
  /\ \A v \in 0 .. Len(gr.nodes) : NodeList(em[v])
  /\ Indexes(m, Len(gr.nodes), Len(em[Len(gr.nodes)]))
  /\ \A v \in Values(gr) : Begins(em[v - 1], em[v]) /\ Visited(pass, gr, em, m, v)

LEMMA RewritingCourse ==
  ASSUME NEW gr, Sound(gr), NEW pass \in RewritingPasses
  PROVE  \E em, m :
           /\ Course(pass, gr, em, m)
           /\ Rewritten(pass, gr).graph = RebuildNodes(gr, em[Len(gr.nodes)], m)
           /\ Rewritten(pass, gr).changed \in BOOLEAN
           /\ ~ Rewritten(pass, gr).changed => Stays(pass, gr, em, m)
           /\ Stays(pass, gr, em, m) /\ Len(em[Len(gr.nodes)]) = Len(gr.nodes) =>
                ~ Rewritten(pass, gr).changed
<1> DEFINE N == Len(gr.nodes)
           R == Rewritten(pass, gr)
<1>0. N \in Nat /\ Values(gr) = 1 .. N
  BY GraphFacts
<1>1. PICK e, last :
        /\ Runs(pass, gr, Blank, Positions(gr), N, e, last)
        /\ R = [graph   |-> RebuildNodes(gr, last.nodes, last.remap),
                changed |-> last.changed \/ Len(last.nodes) # N]
  BY RewritingRuns
<1> HIDE DEF R, N
<1>2. /\ e[0] = Blank /\ e[N] = last
      /\ \A v \in 1 .. N : e[v] = Rewriting1(pass, gr, e[v - 1], v)
  <2>1. pass \notin {"denotation", "level", "sweep"}
    BY DEF RewritingPasses
  <2>2. \A v \in 1 .. N : Positions(gr)[v] = v
    BY <1>0 DEF Positions, Values
  <2> QED
    BY <1>1, <2>1, <2>2 DEF Runs, Turn
<1> DEFINE em == [v \in 0 .. N |-> e[v].nodes]
           m == last.remap
           n(v) == Renumber(gr.nodes[v], e[v - 1].remap)
           act(v) == Decide(pass, gr, v, n(v), e[v - 1].nodes)
           Good(v) == NodeList(e[v].nodes) /\ e[v].changed \in BOOLEAN
                      /\ Indexes(e[v].remap, v, Len(e[v].nodes))
           Moved(v) == /\ Placed(n(v), Len(e[v - 1].nodes)) /\ Sane(act(v), Len(e[v - 1].nodes))
                       /\ Begins(e[v - 1].nodes, e[v].nodes)
                       /\ \A w \in 1 .. (v - 1) : e[v].remap[w] = e[v - 1].remap[w]
                       /\ Answered(act(v), e[v - 1].nodes, e[v].nodes, e[v].remap[v])
                       /\ ~ e[v].changed <=> ~ e[v - 1].changed /\ Quiet(act(v))
<1>3. Good(0)
  <2>1. <<>> \in Seq(NodeType) /\ <<>> \in Seq(Nat) /\ Len(<<>>) = 0
    OBVIOUS
  <2>2. e[0].nodes = <<>> /\ e[0].remap = <<>> /\ e[0].changed = FALSE
    BY <1>2 DEF Blank
  <2> DEFINE q == <<>>
  <2>3. q \in Seq(NodeType) /\ q \in Seq(Nat) /\ Len(q) = 0
    BY <2>1
  <2> HIDE DEF q
  <2>4. NodeList(q) /\ Indexes(q, 0, Len(q))
    BY <2>3 DEF NodeList, Indexes
  <2> QED
    BY <2>2, <2>4 DEF q
<1>4. ASSUME NEW v \in 1 .. N, Good(v - 1)
      PROVE  Good(v) /\ Moved(v)
  <2> DEFINE acc == e[v - 1]
             new == e[v]
  <2>1. v - 1 \in Nat /\ v - 1 + 1 = v /\ v \in Values(gr)
    BY <1>0
  <2>2. /\ NodeList(acc.nodes) /\ acc.changed \in BOOLEAN
        /\ Indexes(acc.remap, v - 1, Len(acc.nodes))
    BY <1>4
  <2>3. Placed(n(v), Len(acc.nodes)) /\ n(v).op = gr.nodes[v].op
    <3> DEFINE x == gr.nodes[v]
               r == Renumber(x, acc.remap)
    <3>1. x \in NodeType /\ Len(x.in) \in Arities(x.op) /\ DOMAIN x.in = 1 .. Len(x.in)
      BY <2>1, NodeFacts, GraphFacts DEF Sound, WellTyped, Values
    <3>2. \A j \in DOMAIN x.in : x.in[j] \in 1 .. (v - 1)
      BY <1>0, <2>1, GraphFacts
    <3> HIDE DEF x
    <3>3. /\ r.op = x.op /\ r.arg = x.arg /\ r.in = [j \in DOMAIN x.in |-> acc.remap[x.in[j]]]
          /\ r = [op |-> x.op, arg |-> x.arg, in |-> [j \in DOMAIN x.in |-> acc.remap[x.in[j]]]]
      BY <3>1, RenumberFacts
    <3> HIDE DEF acc, r
    <3>4. \A j \in 1 .. Len(x.in) : acc.remap[x.in[j]] \in 1 .. Len(acc.nodes)
      BY <2>2, <3>1, <3>2 DEF Indexes
    <3>5. Len(x.in) \in Nat
      BY <3>1, LenProperties DEF NodeType
    <3> DEFINE l == [j \in DOMAIN x.in |-> acc.remap[x.in[j]]]
    <3>6. l \in Seq(Nat) /\ Len(l) = Len(x.in) /\ DOMAIN l = 1 .. Len(x.in)
          /\ \A j \in DOMAIN l : l[j] \in 1 .. Len(acc.nodes)
      <4>1. \A j \in 1 .. Len(x.in) : acc.remap[x.in[j]] \in Nat
        BY <3>4
      <4>2. l = [j \in 1 .. Len(x.in) |-> acc.remap[x.in[j]]]
        BY <3>1
      <4>3. l \in Seq(Nat) /\ DOMAIN l = 1 .. Len(x.in)
        BY <3>5, <4>1, <4>2
      <4>4. Len(l) = Len(x.in)
        BY <3>5, <4>3, LenProperties
      <4> QED
        BY <3>4, <4>2, <4>3, <4>4
    <3> HIDE DEF l
    <3>7. r = [op |-> x.op, arg |-> x.arg, in |-> l] /\ r.in = l /\ r.op = x.op
      BY <3>3 DEF l
    <3>8. Placed(r, Len(acc.nodes))
      BY <3>1, <3>6, <3>7 DEF Placed, NodeType
    <3> QED
      BY <3>7, <3>8 DEF r, x, acc
  <2>4. Sane(act(v), Len(acc.nodes))
    BY <2>1, <2>2, <2>3, AnswersSane
  <2>5. new = Continue(acc, act(v))
    BY <1>2 DEF Rewriting1
  <2> HIDE DEF acc, new, act, n
  <2>6. /\ NodeList(new.nodes) /\ new.changed \in BOOLEAN
        /\ Indexes(new.remap, v - 1 + 1, Len(new.nodes))
        /\ Begins(acc.nodes, new.nodes)
        /\ \A w \in 1 .. (v - 1) : new.remap[w] = acc.remap[w]
        /\ Answered(act(v), acc.nodes, new.nodes, new.remap[v - 1 + 1])
        /\ ~ new.changed <=> ~ acc.changed /\ Quiet(act(v))
    BY <2>1, <2>2, <2>4, <2>5, ContinueFacts
  <2> QED
    BY <2>1, <2>3, <2>4, <2>6 DEF acc, new
<1> HIDE DEF Good, Moved, n, act
<1>5. \A v \in 0 .. N : Good(v)
  <2> DEFINE T == {v \in Nat : v <= N => Good(v)}
  <2>1. 0 \in T
    BY <1>3
  <2>2. ASSUME NEW v \in T
        PROVE  v + 1 \in T
    <3>1. v \in Nat /\ v + 1 \in Nat /\ v + 1 - 1 = v
      OBVIOUS
    <3>2. v + 1 <= N => v + 1 \in 1 .. N /\ v <= N
      BY <1>0, <3>1
    <3> QED
      BY <1>4, <3>1, <3>2
  <2>3. T = Nat
    <3> HIDE DEF T
    <3>1. T \in SUBSET Nat
      BY DEF T
    <3> QED
      BY <2>1, <2>2, <3>1, NaturalsFrom0
  <2> QED
    BY <1>0, <2>3
<1>6. \A v \in 1 .. N : Moved(v)
  <2>1. \A v \in 1 .. N : v - 1 \in 0 .. N
    BY <1>0
  <2> QED
    BY <1>4, <1>5, <2>1
<1>7. \A v \in 0 .. N : \A u \in 0 .. v : \A w \in 1 .. u : e[v].remap[w] = e[u].remap[w]
  <2> DEFINE Q(v) == \A u \in 0 .. v : \A w \in 1 .. u : e[v].remap[w] = e[u].remap[w]
             T == {v \in Nat : v <= N => Q(v)}
  <2>1. 0 \in T
    OBVIOUS
  <2>2. ASSUME NEW v \in T
        PROVE  v + 1 \in T
    <3> SUFFICES ASSUME v + 1 <= N, NEW u \in 0 .. (v + 1), NEW w \in 1 .. u
                 PROVE  e[v + 1].remap[w] = e[u].remap[w]
      OBVIOUS
    <3>1. v \in Nat /\ v + 1 \in 1 .. N /\ v + 1 - 1 = v /\ v <= N
      BY <1>0
    <3>2. \A x \in 1 .. v : e[v + 1].remap[x] = e[v].remap[x]
      BY <1>6, <3>1 DEF Moved
    <3>3. u = v + 1 \/ u \in 0 .. v
      BY <3>1
    <3>4. CASE u \in 0 .. v
      <4>1. w \in 1 .. v /\ e[v].remap[w] = e[u].remap[w]
        BY <3>1, <3>4
      <4> QED
        BY <3>2, <4>1
    <3> QED
      BY <3>3, <3>4
  <2>3. T = Nat
    <3> HIDE DEF T
    <3>1. T \in SUBSET Nat
      BY DEF T
    <3> QED
      BY <2>1, <2>2, <3>1, NaturalsFrom0
  <2> QED
    BY <1>0, <2>3
<1>8. \A v \in 1 .. N : m[v] = e[v].remap[v] /\ n(v) = Renumber(gr.nodes[v], m)
  <2> SUFFICES ASSUME NEW v \in 1 .. N
               PROVE  m[v] = e[v].remap[v] /\ n(v) = Renumber(gr.nodes[v], m)
    OBVIOUS
  <2>1. N \in 0 .. N /\ v \in 0 .. N /\ v - 1 \in 0 .. N /\ v \in 1 .. v
    BY <1>0
  <2>2. m[v] = e[v].remap[v] /\ \A w \in 1 .. (v - 1) : m[w] = e[v - 1].remap[w]
    BY <1>2, <1>7, <2>1
  <2> DEFINE x == gr.nodes[v]
  <2>3. x \in NodeType /\ \A j \in DOMAIN x.in : x.in[j] \in 1 .. (v - 1)
    BY <1>0, NodeFacts, GraphFacts
  <2> HIDE DEF x, m
  <2>4. [j \in DOMAIN x.in |-> m[x.in[j]]] = [j \in DOMAIN x.in |-> e[v - 1].remap[x.in[j]]]
    BY <2>2, <2>3
  <2>5. /\ Renumber(x, m) = [op |-> x.op, arg |-> x.arg, in |-> [j \in DOMAIN x.in |-> m[x.in[j]]]]
        /\ Renumber(x, e[v - 1].remap) =
             [op |-> x.op, arg |-> x.arg, in |-> [j \in DOMAIN x.in |-> e[v - 1].remap[x.in[j]]]]
    BY <2>3, RenumberFacts
  <2> QED
    BY Zenon, <2>2, <2>4, <2>5 DEF n, x
<1>9. \A v \in 0 .. N : ~ e[v].changed <=> \A u \in 1 .. v : Quiet(act(u))
  <2> DEFINE Q(v) == ~ e[v].changed <=> \A u \in 1 .. v : Quiet(act(u))
             T == {v \in Nat : v <= N => Q(v)}
  <2>1. 0 \in T
    BY <1>2 DEF Blank
  <2>2. ASSUME NEW v \in T
        PROVE  v + 1 \in T
    <3>1. v \in Nat /\ v + 1 \in Nat /\ v + 1 - 1 = v
      OBVIOUS
    <3>2. v + 1 <= N => (~ e[v + 1].changed <=> ~ e[v].changed /\ Quiet(act(v + 1)))
      <4>1. v + 1 <= N => v + 1 \in 1 .. N
        BY <1>0, <3>1
      <4> QED
        BY <1>6, <3>1, <4>1 DEF Moved
    <3>3. v + 1 <= N => Q(v)
      BY <1>0, <3>1
    <3>4. \A u \in 1 .. (v + 1) : u \in 1 .. v \/ u = v + 1
      BY <3>1
    <3>5. \A u \in 1 .. v : u \in 1 .. (v + 1)
      BY <3>1
    <3>6. v + 1 \in 1 .. (v + 1)
      BY <3>1
    <3> QED
      BY <3>1, <3>2, <3>3, <3>4, <3>5, <3>6
  <2>3. T = Nat
    <3> HIDE DEF T
    <3>1. T \in SUBSET Nat
      BY DEF T
    <3> QED
      BY <2>1, <2>2, <3>1, NaturalsFrom0
  <2> QED
    BY <1>0, <2>3
<1>10. \A v \in 0 .. N : em[v] = e[v].nodes
  OBVIOUS
<1>11. \A v \in 1 .. N : v - 1 \in 0 .. N /\ v \in 0 .. N /\ v \in 1 .. v
  BY <1>0
<1>12. 0 \in 0 .. N /\ N \in 0 .. N
  BY <1>0
<1> HIDE DEF em, m
<1>13. \A v \in 1 .. N : act(v) = Decide(pass, gr, v, Renumber(gr.nodes[v], m), em[v - 1])
  BY <1>8, <1>10, <1>11 DEF act
<1>14. Course(pass, gr, em, m)
  <2>1. em[0] = <<>>
    BY <1>2, <1>10, <1>12 DEF Blank
  <2>2. \A v \in 0 .. N : NodeList(em[v])
    BY <1>5, <1>10 DEF Good
  <2>3. Indexes(m, N, Len(em[N]))
    BY <1>2, <1>5, <1>10, <1>12 DEF Good, m
  <2>4. ASSUME NEW v \in 1 .. N
        PROVE  Begins(em[v - 1], em[v]) /\ Visited(pass, gr, em, m, v)
    <3>1. /\ Placed(n(v), Len(em[v - 1])) /\ Sane(act(v), Len(em[v - 1]))
          /\ Begins(em[v - 1], em[v]) /\ Answered(act(v), em[v - 1], em[v], m[v])
      BY <1>6, <1>8, <1>10, <1>11 DEF Moved
    <3>2. m[v] \in 1 .. Len(em[v])
      BY <1>5, <1>8, <1>10, <1>11 DEF Good, Indexes
    <3> QED
      BY <1>8, <1>13, <3>1, <3>2 DEF Visited
  <2> QED
    BY <1>0, <2>1, <2>2, <2>3, <2>4 DEF Course, N
<1>15. ~ last.changed <=> Stays(pass, gr, em, m)
  BY <1>0, <1>2, <1>9, <1>12, <1>13 DEF Stays
<1>16. last.changed \in BOOLEAN /\ last.nodes = em[N]
  BY <1>2, <1>5, <1>10, <1>12 DEF Good
<1>17. /\ R.graph = RebuildNodes(gr, em[N], m)
       /\ R.changed = (last.changed \/ Len(em[N]) # N)
  BY <1>1, <1>16 DEF m
<1>18. /\ R.changed \in BOOLEAN
       /\ ~ R.changed => Stays(pass, gr, em, m)
       /\ Stays(pass, gr, em, m) /\ Len(em[N]) = N => ~ R.changed
  BY <1>15, <1>16, <1>17
<1> QED
  BY <1>14, <1>17, <1>18 DEF N, R

(* The list never shrinks, and what is in it stays.                        *)
LEMMA CourseGrows ==
  ASSUME NEW gr, Sound(gr), NEW pass \in RewritingPasses, NEW em, NEW m, Course(pass, gr, em, m)
  PROVE  /\ \A v \in 0 .. Len(gr.nodes) : Len(em[v]) \in Nat /\ em[v] \in Seq(NodeType)
                                          /\ DOMAIN em[v] = 1 .. Len(em[v])
         /\ \A v \in 0 .. Len(gr.nodes) : \A u \in 0 .. v : Begins(em[u], em[v])
<1> DEFINE N == Len(gr.nodes)
<1>0. N \in Nat /\ Values(gr) = 1 .. N
  BY GraphFacts
<1> HIDE DEF N
<1>1. \A v \in 0 .. N : Len(em[v]) \in Nat /\ em[v] \in Seq(NodeType)
                        /\ DOMAIN em[v] = 1 .. Len(em[v])
  BY LenProperties DEF Course, NodeList, N
<1>2. \A v \in 1 .. N : Begins(em[v - 1], em[v])
  BY <1>0 DEF Course
<1> DEFINE T == {v \in Nat : v <= N => \A u \in 0 .. v : Begins(em[u], em[v])}
<1>3. 0 \in T
  BY <1>0, <1>1 DEF Begins
<1>4. ASSUME NEW v \in T
      PROVE  v + 1 \in T
  <2> SUFFICES ASSUME v + 1 <= N, NEW u \in 0 .. (v + 1)
               PROVE  Begins(em[u], em[v + 1])
    OBVIOUS
  <2>1. v \in Nat /\ v + 1 \in 1 .. N /\ v + 1 - 1 = v /\ v <= N /\ v \in 0 .. N /\ v + 1 \in 0 .. N
    BY <1>0
  <2>2. Begins(em[v], em[v + 1])
    BY <1>2, <2>1
  <2>3. Len(em[v]) \in Nat /\ Len(em[v + 1]) \in Nat
    BY <1>1, <2>1
  <2>4. CASE u = v + 1
    BY <2>3, <2>4 DEF Begins
  <2>5. CASE u \in 0 .. v
    <3>1. Begins(em[u], em[v]) /\ Len(em[u]) \in Nat
      BY <1>1, <2>1, <2>5
    <3> QED
      BY <2>2, <2>3, <3>1 DEF Begins
  <2> QED
    BY <2>1, <2>4, <2>5
<1>5. T = Nat
  <2> HIDE DEF T
  <2>1. T \in SUBSET Nat
    BY DEF T
  <2> QED
    BY <1>3, <1>4, <2>1, NaturalsFrom0
<1> QED
  BY <1>0, <1>1, <1>5 DEF N

(* The answer for a node.                                                  *)
Answer(pass, gr, em, m, v) == Decide(pass, gr, v, Renumber(gr.nodes[v], m), em[v - 1])

Keeps(pass, gr, em, m, v) ==
  Answer(pass, gr, em, m, v) = Keep(Renumber(gr.nodes[v], m))

(* Every node of the new graph was emitted for some old node.              *)
LEMMA Emitted ==
  ASSUME NEW gr, Sound(gr), NEW pass \in RewritingPasses, NEW em, NEW m, Course(pass, gr, em, m),
         NEW p \in 1 .. Len(em[Len(gr.nodes)])
  PROVE  \E v \in Values(gr) : Len(em[v - 1]) < p /\ p <= Len(em[v])
<1> DEFINE N == Len(gr.nodes)
           T == {v \in Nat : v <= N /\ p <= Len(em[v])}
<1>0. N \in Nat /\ Values(gr) = 1 .. N
  BY GraphFacts
<1>1. \A v \in 0 .. N : Len(em[v]) \in Nat
  BY CourseGrows
<1>2. N \in T /\ T \in SUBSET Nat
  BY <1>0, <1>1
<1>3. PICK v \in T : \A u \in T : v <= u
  BY <1>2, LeastElement
<1>4. Len(em[0]) = 0
  BY DEF Course
<1>5. v # 0
  BY <1>1, <1>3, <1>4
<1>6. v \in 1 .. N /\ v - 1 \in 0 .. N /\ v - 1 \notin T
  BY <1>0, <1>3, <1>5
<1>7. ~ (p <= Len(em[v - 1])) /\ Len(em[v - 1]) \in Nat
  BY <1>0, <1>1, <1>6
<1>8. p \in Nat
  OBVIOUS
<1>9. Len(em[v - 1]) < p /\ p <= Len(em[v])
  BY <1>3, <1>7, <1>8
<1> HIDE DEF T
<1> QED
  BY <1>0, <1>6, <1>9

(* Where a value goes.                                                     *)
LEMMA AnswerFacts ==
  ASSUME NEW gr, Sound(gr), NEW pass \in RewritingPasses, NEW em, NEW m, Course(pass, gr, em, m),
         NEW v \in Values(gr)
  PROVE  /\ Placed(Renumber(gr.nodes[v], m), Len(em[v - 1]))
         /\ Sane(Answer(pass, gr, em, m, v), Len(em[v - 1]))
         /\ Answered(Answer(pass, gr, em, m, v), em[v - 1], em[v], m[v])
         /\ m[v] \in 1 .. Len(em[v])
  BY DEF Course, Visited, Answer

LEMMA ListFacts ==
  ASSUME NEW gr, Sound(gr), NEW pass \in RewritingPasses, NEW em, NEW m, Course(pass, gr, em, m),
         NEW v \in Values(gr)
  PROVE  /\ Len(em[v - 1]) \in Nat /\ Len(em[v]) \in Nat /\ Len(em[Len(gr.nodes)]) \in Nat
         /\ Len(em[v - 1]) <= Len(em[v]) /\ Len(em[v]) <= Len(em[Len(gr.nodes)])
         /\ \A p \in 1 .. Len(em[v - 1]) : em[v - 1][p] = em[Len(gr.nodes)][p]
         /\ \A p \in 1 .. Len(em[v]) : em[v][p] = em[Len(gr.nodes)][p]
         /\ DOMAIN em[v - 1] = 1 .. Len(em[v - 1])
         /\ m[v] \in 1 .. Len(em[Len(gr.nodes)])
<1> DEFINE N == Len(gr.nodes)
           k == Len(em[v - 1])
<1>0. N \in Nat /\ v \in 1 .. N /\ v - 1 \in 0 .. N /\ v \in 0 .. N /\ N \in 0 .. N /\ v - 1 \in 0 .. v
  BY GraphFacts
<1>1. /\ Len(em[v]) \in Nat /\ k \in Nat /\ DOMAIN em[v - 1] = 1 .. k /\ Len(em[N]) \in Nat
      /\ Begins(em[v - 1], em[v]) /\ Begins(em[v], em[N]) /\ Begins(em[v - 1], em[N])
  BY <1>0, CourseGrows
<1>2. m[v] \in 1 .. Len(em[v])
  BY AnswerFacts
<1> QED
  BY <1>1, <1>2 DEF Begins

(* What an answer puts there.                                              *)
Puts(q, before, after, target, out) ==
  /\ after = before + Len(q) /\ target = after
  /\ \A j \in 1 .. Len(q) : out[before + j] = q[j]

LEMMA EmitFacts ==
  ASSUME NEW gr, Sound(gr), NEW pass \in RewritingPasses, NEW em, NEW m, Course(pass, gr, em, m),
         NEW v \in Values(gr), Answer(pass, gr, em, m, v).tag = "Emit",
         NEW q, q = Answer(pass, gr, em, m, v).nodes
  PROVE  Puts(q, Len(em[v - 1]), Len(em[v]), m[v], em[Len(gr.nodes)])
<1> DEFINE k == Len(em[v - 1])
           action == Answer(pass, gr, em, m, v)
<1>1. Answered(action, em[v - 1], em[v], m[v])
  BY AnswerFacts
<1>2. k \in Nat /\ Len(em[v]) \in Nat /\ \A p \in 1 .. Len(em[v]) : em[v][p] = em[Len(gr.nodes)][p]
  BY ListFacts
<1> HIDE DEF k, action
<1>3. action.tag = "Emit" /\ action.nodes = q
  BY DEF action
<1>4. /\ Len(em[v]) = k + Len(q) /\ m[v] = Len(em[v])
      /\ \A j \in 1 .. Len(q) : em[v][k + j] = q[j]
  BY <1>1, <1>3 DEF Answered, k
<1>6. Len(q) \in Nat
  <2>1. Sane(action, k)
    BY AnswerFacts DEF action, k
  <2> QED
    BY <1>3, <2>1, LenProperties DEF Sane
<1>5. \A j \in 1 .. Len(q) : k + j \in 1 .. Len(em[v])
  BY <1>2, <1>4, <1>6
<1> QED
  BY <1>2, <1>4, <1>5 DEF k, Puts

LEMMA ReplaceFacts ==
  ASSUME NEW gr, Sound(gr), NEW pass \in RewritingPasses, NEW em, NEW m, Course(pass, gr, em, m),
         NEW v \in Values(gr), NEW t, Answer(pass, gr, em, m, v) = ReplaceWith(t)
  PROVE  em[v] = em[v - 1] /\ m[v] = t /\ t \in 1 .. Len(em[v - 1])
<1>1. /\ Sane(ReplaceWith(t), Len(em[v - 1]))
      /\ Answered(ReplaceWith(t), em[v - 1], em[v], m[v])
  BY AnswerFacts
<1>2. ReplaceWith(t).tag # "Emit" /\ ReplaceWith(t).target = t
  BY DEF ReplaceWith
<1> QED
  BY <1>1, <1>2 DEF Sane, Answered

(* A node that is kept is the only one of its turn.                        *)
LEMMA KeptFacts ==
  ASSUME NEW gr, Sound(gr), NEW pass \in RewritingPasses, NEW em, NEW m, Course(pass, gr, em, m),
         NEW v \in Values(gr), Keeps(pass, gr, em, m, v)
  PROVE  /\ Len(em[v]) = Len(em[v - 1]) + 1 /\ m[v] = Len(em[v])
         /\ m[v] \in 1 .. Len(em[Len(gr.nodes)])
         /\ em[Len(gr.nodes)][m[v]] = Renumber(gr.nodes[v], m)
<1> DEFINE n == Renumber(gr.nodes[v], m)
           q == <<n>>
<1>1. Answer(pass, gr, em, m, v).tag = "Emit" /\ q = Answer(pass, gr, em, m, v).nodes
  BY DEF Keeps, Keep
<1>2. 1 \in 1 .. 1 /\ Len(q) = 1 /\ q[1] = n
  OBVIOUS
<1> HIDE DEF n, q
<1>3. Puts(q, Len(em[v - 1]), Len(em[v]), m[v], em[Len(gr.nodes)])
  BY <1>1, EmitFacts
<1>4. m[v] \in 1 .. Len(em[Len(gr.nodes)])
  BY ListFacts
<1> QED
  BY <1>2, <1>3, <1>4 DEF n, Puts

(* Values that are kept go to different places.                            *)
LEMMA KeptApart ==
  ASSUME NEW gr, Sound(gr), NEW pass \in RewritingPasses, NEW em, NEW m, Course(pass, gr, em, m),
         NEW v \in Values(gr), Keeps(pass, gr, em, m, v),
         NEW w \in Values(gr), w < v
  PROVE  m[w] < m[v]
<1>0. /\ v \in 1 .. Len(gr.nodes) /\ w \in 1 .. Len(gr.nodes) /\ Len(gr.nodes) \in Nat
      /\ v - 1 \in 0 .. Len(gr.nodes) /\ w \in 0 .. (v - 1)
  BY GraphFacts
<1>1. m[v] = Len(em[v - 1]) + 1
  BY KeptFacts
<1>2. m[w] \in 1 .. Len(em[w]) /\ Len(em[w]) \in Nat
  BY AnswerFacts, ListFacts
<1>3. Len(em[w]) <= Len(em[v - 1]) /\ Len(em[v - 1]) \in Nat
  BY <1>0, CourseGrows DEF Begins
<1> QED
  BY <1>1, <1>2, <1>3

(* The operations a pass looks at, and those it makes.                     *)
Touched(pass) ==
  CASE pass = "fold"  -> ArithOps
    [] pass = "cse"   -> PureOps
    [] pass = "split" -> {"Mul"}

Fresh(pass) ==
  CASE pass = "fold"  -> {"Constant"}
    [] pass = "cse"   -> {}
    [] pass = "split" -> {"MulLocal", "Round", "RoundResult"}

(* All other nodes are kept.                                               *)
LEMMA UntouchedKept ==
  ASSUME NEW gr, Sound(gr), NEW pass \in RewritingPasses, NEW em, NEW m, Course(pass, gr, em, m),
         NEW v \in Values(gr), gr.nodes[v].op \notin Touched(pass)
  PROVE  Keeps(pass, gr, em, m, v)
<1> DEFINE n == Renumber(gr.nodes[v], m)
<1>1. n.op = gr.nodes[v].op
  BY NodeFacts, RenumberFacts
<1> HIDE DEF n
<1>2. CASE pass = "fold"
  <2>1. FoldNode(n, em[v - 1]) = Keep(n)
    BY <1>1, <1>2 DEF Touched, FoldNode
  <2> QED
    BY <1>2, <2>1 DEF Keeps, Answer, Decide, n
<1>3. CASE pass = "cse"
  <2>1. CseNode(n, em[v - 1]) = Keep(n)
    BY <1>1, <1>3 DEF Touched, CseNode
  <2> QED
    BY <1>3, <2>1 DEF Keeps, Answer, Decide, n
<1>4. CASE pass = "split"
  <2>1. SplitNode(gr, v, n, em[v - 1]) = Keep(n)
    BY <1>4 DEF Touched, SplitNode, SecretProducts, NodesOf
  <2> QED
    BY <1>4, <2>1 DEF Keeps, Answer, Decide, n
<1> QED
  BY <1>2, <1>3, <1>4 DEF RewritingPasses

(* What a pass may answer.                                                 *)
LEMMA AnswerCases ==
  ASSUME NEW gr, Sound(gr), NEW pass \in RewritingPasses, NEW em, NEW m, Course(pass, gr, em, m),
         NEW v \in Values(gr)
  PROVE  \/ Keeps(pass, gr, em, m, v)
         \/ pass \in {"fold", "cse"} /\ \E t : Answer(pass, gr, em, m, v) = ReplaceWith(t)
         \/ pass = "fold" /\ \E c : Answer(pass, gr, em, m, v) = Emit(Constant(c))
         \/ /\ pass = "split" /\ v \in SecretProducts(gr)
            /\ Answer(pass, gr, em, m, v) =
                 EmitMany(SplitProduct(Renumber(gr.nodes[v], m), RoundId(gr, v), Len(em[v - 1])))
<1> DEFINE n == Renumber(gr.nodes[v], m)
<1>1. DOMAIN em[v - 1] \in SUBSET Nat
  BY ListFacts
<1> HIDE DEF n
<1>2. CASE pass = "fold"
  BY <1>2, FoldAnswers DEF FoldCases, Keeps, Answer, Decide, n
<1>3. CASE pass = "cse"
  BY <1>1, <1>3, CseAnswers DEF Keeps, Answer, Decide, n
<1>4. CASE pass = "split"
  BY <1>4 DEF SplitNode, Keeps, Answer, Decide, n
<1> QED
  BY <1>2, <1>3, <1>4 DEF RewritingPasses

(* A node of the new graph that the pass did not make was kept.            *)
LEMMA Origins ==
  ASSUME NEW gr, Sound(gr), NEW pass \in RewritingPasses, NEW em, NEW m, Course(pass, gr, em, m),
         NEW p \in 1 .. Len(em[Len(gr.nodes)])
  PROVE  \/ \E v \in Values(gr) : Keeps(pass, gr, em, m, v) /\ p = m[v]
         \/ pass = "fold" /\ em[Len(gr.nodes)][p].op = "Constant"
         \/ /\ pass = "split"
            /\ \E v \in SecretProducts(gr) : \E j \in 1 .. 3 :
                 /\ v \in Values(gr) /\ p = Len(em[v - 1]) + j
                 /\ Answer(pass, gr, em, m, v) =
                      EmitMany(SplitProduct(Renumber(gr.nodes[v], m), RoundId(gr, v), Len(em[v - 1])))
<1> DEFINE out == em[Len(gr.nodes)]
<1>1. PICK v \in Values(gr) : Len(em[v - 1]) < p /\ p <= Len(em[v])
  BY Emitted
<1>2. Len(em[v - 1]) \in Nat /\ Len(em[v]) \in Nat /\ p \in Nat
  BY ListFacts
<1> HIDE DEF out
<1>3. CASE Keeps(pass, gr, em, m, v)
  <2>1. p = m[v]
    BY <1>1, <1>2, <1>3, KeptFacts
  <2> QED
    BY <1>3, <2>1
<1>4. ASSUME NEW t, Answer(pass, gr, em, m, v) = ReplaceWith(t)
      PROVE  FALSE
  <2>1. em[v] = em[v - 1]
    BY <1>4, ReplaceFacts
  <2> QED
    BY <1>1, <1>2, <2>1
<1>5. ASSUME NEW c, Answer(pass, gr, em, m, v) = Emit(Constant(c))
      PROVE  out[p].op = "Constant"
  <2> DEFINE q == <<Constant(c)>>
  <2>1. Answer(pass, gr, em, m, v).tag = "Emit" /\ q = Answer(pass, gr, em, m, v).nodes
    BY <1>5 DEF Emit
  <2>2. Len(q) = 1 /\ q[1].op = "Constant" /\ 1 \in 1 .. 1
    BY DEF Constant, Node
  <2> HIDE DEF q
  <2>3. Puts(q, Len(em[v - 1]), Len(em[v]), m[v], out)
    BY <2>1, EmitFacts DEF out
  <2>4. p = Len(em[v - 1]) + 1 /\ out[p] = q[1]
    BY <1>1, <1>2, <2>2, <2>3 DEF Puts
  <2> QED
    BY <2>2, <2>4
<1>6. ASSUME Answer(pass, gr, em, m, v) =
               EmitMany(SplitProduct(Renumber(gr.nodes[v], m), RoundId(gr, v), Len(em[v - 1])))
      PROVE  \E j \in 1 .. 3 : p = Len(em[v - 1]) + j
  <2> DEFINE q == SplitProduct(Renumber(gr.nodes[v], m), RoundId(gr, v), Len(em[v - 1]))
  <2>1. Answer(pass, gr, em, m, v).tag = "Emit" /\ q = Answer(pass, gr, em, m, v).nodes
    BY <1>6 DEF EmitMany
  <2>2. Len(q) = 3
    BY DEF SplitProduct
  <2> HIDE DEF q
  <2>3. Puts(q, Len(em[v - 1]), Len(em[v]), m[v], out)
    BY <2>1, EmitFacts DEF out
  <2>4. Len(em[v]) = Len(em[v - 1]) + 3
    BY <2>2, <2>3 DEF Puts
  <2>5. p - Len(em[v - 1]) \in 1 .. 3 /\ p = Len(em[v - 1]) + (p - Len(em[v - 1]))
    BY <1>1, <1>2, <2>4
  <2> QED
    BY <2>5
<1> QED
  BY <1>3, <1>4, <1>5, <1>6, AnswerCases DEF out

(* The nodes of a split product, where they stand.                         *)
SplitInto(n, id, k, out, after, target) ==
  /\ out[k + 1] = Node("MulLocal", 0, n.in)
  /\ out[k + 2] = Node("Round", id, <<k + 1>>)
  /\ out[k + 3] = Node("RoundResult", 0, <<k + 2>>)
  /\ after = k + 3 /\ target = k + 3

LEMMA SplitFacts ==
  ASSUME NEW gr, Sound(gr), NEW pass, pass = "split", NEW em, NEW m, Course(pass, gr, em, m),
         NEW v \in Values(gr),
         Answer(pass, gr, em, m, v) =
           EmitMany(SplitProduct(Renumber(gr.nodes[v], m), RoundId(gr, v), Len(em[v - 1])))
  PROVE  SplitInto(Renumber(gr.nodes[v], m), RoundId(gr, v), Len(em[v - 1]), em[Len(gr.nodes)],
                   Len(em[v]), m[v])
<1> DEFINE k == Len(em[v - 1])
           out == em[Len(gr.nodes)]
           q == SplitProduct(Renumber(gr.nodes[v], m), RoundId(gr, v), k)
<1>1. Answer(pass, gr, em, m, v).tag = "Emit" /\ q = Answer(pass, gr, em, m, v).nodes
  BY DEF EmitMany
<1>2. /\ Len(q) = 3
      /\ q[1] = Node("MulLocal", 0, Renumber(gr.nodes[v], m).in)
      /\ q[2] = Node("Round", RoundId(gr, v), <<k + 1>>)
      /\ q[3] = Node("RoundResult", 0, <<k + 2>>)
  BY DEF SplitProduct
<1>3. Course(pass, gr, em, m) /\ pass \in RewritingPasses
  BY DEF RewritingPasses
<1> HIDE DEF q, out
<1>4. Puts(q, k, Len(em[v]), m[v], out)
  BY <1>1, <1>3, EmitFacts DEF out
<1>5. 1 \in 1 .. 3 /\ 2 \in 1 .. 3 /\ 3 \in 1 .. 3
  OBVIOUS
<1> HIDE DEF k
<1>6. /\ Len(em[v]) = k + 3 /\ m[v] = k + 3
      /\ out[k + 1] = q[1] /\ out[k + 2] = q[2] /\ out[k + 3] = q[3]
  BY <1>2, <1>4, <1>5 DEF Puts
<1> QED
  BY <1>2, <1>6 DEF k, out, SplitInto

-----------------------------------------------------------------------------
(* The new graph is one.                                                   *)

LEMMA OutputFacts ==
  ASSUME NEW gr, IsGraph(gr), WellTyped(gr)
  PROVE  /\ Len(gr.outputs) \in Nat /\ DOMAIN gr.outputs = 1 .. Len(gr.outputs)
         /\ \A j \in DOMAIN gr.outputs :
              /\ gr.outputs[j] \in [signal : Nat, value : Nat]
              /\ gr.outputs[j].signal \in Nat
              /\ gr.outputs[j].value \in Values(gr)
<1>1. gr.outputs \in Seq([signal : Nat, value : Nat])
  BY DEF IsGraph
<1>2. Len(gr.outputs) \in Nat /\ DOMAIN gr.outputs = 1 .. Len(gr.outputs)
  BY <1>1, LenProperties
<1>3. \A j \in DOMAIN gr.outputs : gr.outputs[j] \in [signal : Nat, value : Nat]
  BY <1>1, <1>2, ElementOfSeq
<1> QED
  BY <1>2, <1>3 DEF WellTyped, Values

LEMMA RebuiltShape ==
  ASSUME NEW gr, IsGraph(gr), WellTyped(gr), NEW nodes, NodeList(nodes), NEW m,
         \A j \in DOMAIN gr.outputs : m[gr.outputs[j].value] \in 1 .. Len(nodes)
  PROVE  /\ IsGraph(RebuildNodes(gr, nodes, m))
         /\ WellTyped(RebuildNodes(gr, nodes, m))
         /\ Topological(RebuildNodes(gr, nodes, m))
         /\ Values(RebuildNodes(gr, nodes, m)) = 1 .. Len(nodes)
<1> DEFINE h == RebuildNodes(gr, nodes, m)
<1>1. /\ h.nodes = nodes /\ h.sites = gr.sites
      /\ DOMAIN h.outputs = DOMAIN gr.outputs
      /\ \A j \in DOMAIN gr.outputs :
           h.outputs[j] = [signal |-> gr.outputs[j].signal, value |-> m[gr.outputs[j].value]]
      /\ h.outputs = [j \in DOMAIN gr.outputs |->
                        [signal |-> gr.outputs[j].signal, value |-> m[gr.outputs[j].value]]]
      /\ h = [nodes |-> h.nodes, outputs |-> h.outputs, sites |-> h.sites, public |-> h.public,
              numOutputs |-> h.numOutputs, numInputs |-> h.numInputs, witness |-> h.witness]
  BY RebuildFacts DEF Rebuilt
<1> HIDE DEF h
<1>2. /\ nodes \in Seq(NodeType) /\ Len(nodes) \in Nat /\ DOMAIN nodes = 1 .. Len(nodes)
      /\ \A p \in 1 .. Len(nodes) : Placed(nodes[p], p - 1)
  BY LenProperties DEF NodeList
<1>3. /\ Len(gr.outputs) \in Nat /\ DOMAIN gr.outputs = 1 .. Len(gr.outputs)
      /\ \A j \in DOMAIN gr.outputs : gr.outputs[j].signal \in Nat
  BY OutputFacts
<1>10. \A j \in DOMAIN gr.outputs :
        h.outputs[j].value \in 1 .. Len(nodes) /\ h.outputs[j].value \in Nat
  <2>1. \A j \in DOMAIN gr.outputs : h.outputs[j].value = m[gr.outputs[j].value]
    BY <1>1
  <2> QED
    BY <1>2, <2>1
<1>4. h.outputs \in Seq([signal : Nat, value : Nat])
  <2> DEFINE O == [signal : Nat, value : Nat]
             o(j) == [signal |-> gr.outputs[j].signal, value |-> m[gr.outputs[j].value]]
  <2>1. \A j \in 1 .. Len(gr.outputs) : m[gr.outputs[j].value] \in Nat
    BY <1>2, <1>3
  <2>2. \A j \in 1 .. Len(gr.outputs) : o(j) \in O
    BY <1>3, <2>1
  <2>3. h.outputs = [j \in 1 .. Len(gr.outputs) |-> o(j)]
    BY <1>1, <1>3
  <2> HIDE DEF O, o
  <2>4. h.outputs \in Seq(O)
    BY <1>3, <2>2, <2>3
  <2> QED
    BY <2>4 DEF O
<1>5. IsGraph(h)
  BY <1>1, <1>4 DEF IsGraph
<1>6. ASSUME NEW p \in DOMAIN h.nodes
      PROVE  /\ Len(h.nodes[p].in) \in Arities(h.nodes[p].op)
             /\ \A j \in DOMAIN h.nodes[p].in : h.nodes[p].in[j] \in 1 .. (p - 1)
  BY SMTT(20), <1>1, <1>2 DEF Placed
<1>7. WellTyped(h)
  <2>1. gr.sites \in Seq([kind : Kinds, precomputed : BOOLEAN])
    BY DEF WellTyped
  <2>2. \A j \in DOMAIN h.outputs : h.outputs[j].value \in DOMAIN h.nodes
    BY <1>1, <1>2, <1>10
  <2>3. \A p \in DOMAIN h.nodes : \A j \in DOMAIN h.nodes[p].in : h.nodes[p].in[j] \in DOMAIN h.nodes
    <3>1. \A p \in DOMAIN h.nodes : \A x \in 1 .. (p - 1) : x \in DOMAIN h.nodes
      BY <1>1, <1>2
    <3> QED
      BY <1>6, <3>1
  <2> QED
    BY <1>1, <1>2, <1>6, <2>1, <2>2, <2>3 DEF WellTyped, NodeType
<1>8. Topological(h)
  <2> SUFFICES ASSUME NEW p \in Values(h), NEW w \in InputsOf(h, p)
               PROVE  w < p
    BY DEF Topological
  <2>1. p \in DOMAIN h.nodes /\ p \in Nat
    BY <1>1, <1>2 DEF Values
  <2>2. PICK j \in DOMAIN h.nodes[p].in : w = h.nodes[p].in[j]
    BY DEF InputsOf, ToSet
  <2> QED
    BY <1>6, <2>1, <2>2
<1>9. Values(h) = 1 .. Len(nodes)
  BY <1>1, <1>2 DEF Values
<1> QED
  BY <1>5, <1>7, <1>8, <1>9 DEF h

NewGraph(gr, em, m) == RebuildNodes(gr, em[Len(gr.nodes)], m)

LEMMA NewShape ==
  ASSUME NEW gr, Sound(gr), IsGraph(gr), NEW pass \in RewritingPasses, NEW em, NEW m,
         Course(pass, gr, em, m), NEW h, h = NewGraph(gr, em, m)
  PROVE  /\ IsGraph(h) /\ WellTyped(h) /\ Topological(h)
         /\ Values(h) = 1 .. Len(em[Len(gr.nodes)]) /\ Len(em[Len(gr.nodes)]) \in Nat
         /\ h.nodes = em[Len(gr.nodes)] /\ h.sites = gr.sites
         /\ \A p \in Values(h) : Placed(h.nodes[p], p - 1)
<1> DEFINE out == em[Len(gr.nodes)]
<1>1. NodeList(out) /\ Len(out) \in Nat
  BY GraphFacts, CourseGrows DEF Course
<1>2. \A j \in DOMAIN gr.outputs : m[gr.outputs[j].value] \in 1 .. Len(out)
  <2>1. WellTyped(gr)
    BY DEF Sound
  <2> QED
    BY <2>1, OutputFacts, ListFacts
<1>3. h = RebuildNodes(gr, out, m)
  BY DEF NewGraph
<1>4. h.nodes = out /\ h.sites = gr.sites
  <2>1. Rebuilt(gr, out, m, h)
    BY <1>3, RebuildFacts
  <2> QED
    BY <2>1 DEF Rebuilt
<1> HIDE DEF out
<1>5. IsGraph(h) /\ WellTyped(h) /\ Topological(h) /\ Values(h) = 1 .. Len(out)
  BY <1>1, <1>2, <1>3, RebuiltShape DEF Sound
<1>6. \A p \in Values(h) : Placed(h.nodes[p], p - 1)
  BY <1>1, <1>4, <1>5 DEF NodeList
<1> QED
  BY <1>1, <1>4, <1>5, <1>6 DEF out

(* A kept node, in its new place.                                          *)
KeptAt(gr, h, m, v) ==
  /\ m[v] \in Values(h)
  /\ h.nodes[m[v]] = Renumber(gr.nodes[v], m)
  /\ h.nodes[m[v]].op = gr.nodes[v].op
  /\ h.nodes[m[v]].arg = gr.nodes[v].arg
  /\ DOMAIN h.nodes[m[v]].in = DOMAIN gr.nodes[v].in
  /\ \A j \in DOMAIN gr.nodes[v].in : h.nodes[m[v]].in[j] = m[gr.nodes[v].in[j]]

LEMMA RenumberedAt ==
  ASSUME NEW gr, Sound(gr), NEW v \in Values(gr), NEW h, NEW m,
         m[v] \in Values(h), h.nodes[m[v]] = Renumber(gr.nodes[v], m)
  PROVE  KeptAt(gr, h, m, v)
<1> DEFINE n == gr.nodes[v]
           r == Renumber(n, m)
<1>1. n \in NodeType
  BY NodeFacts
<1> HIDE DEF n
<1>2. /\ r.op = n.op /\ r.arg = n.arg /\ DOMAIN r.in = DOMAIN n.in
      /\ \A j \in DOMAIN n.in : r.in[j] = m[n.in[j]]
  BY <1>1, RenumberFacts
<1> HIDE DEF r
<1>3. h.nodes[m[v]] = r
  BY DEF r, n
<1> QED
  BY <1>2, <1>3 DEF KeptAt, r, n

LEMMA KeptInPlace ==
  ASSUME NEW gr, Sound(gr), IsGraph(gr), NEW pass \in RewritingPasses, NEW em, NEW m,
         Course(pass, gr, em, m), NEW h, h = NewGraph(gr, em, m),
         NEW v \in Values(gr), Keeps(pass, gr, em, m, v)
  PROVE  KeptAt(gr, h, m, v)
<1>1. h.nodes = em[Len(gr.nodes)] /\ Values(h) = 1 .. Len(em[Len(gr.nodes)])
  BY NewShape
<1>2. m[v] \in Values(h) /\ h.nodes[m[v]] = Renumber(gr.nodes[v], m)
  BY <1>1, KeptFacts
<1> QED
  BY <1>2, RenumberedAt

(* A node the passes never make is an old one.                             *)
LEMMA OldNode ==
  ASSUME NEW gr, Sound(gr), IsGraph(gr), NEW pass \in RewritingPasses, NEW em, NEW m,
         Course(pass, gr, em, m), NEW h, h = NewGraph(gr, em, m),
         NEW p \in Values(h), h.nodes[p].op \notin Fresh(pass)
  PROVE  \E v \in Values(gr) : Keeps(pass, gr, em, m, v) /\ p = m[v] /\ KeptAt(gr, h, m, v)
<1>1. h.nodes = em[Len(gr.nodes)] /\ Values(h) = 1 .. Len(em[Len(gr.nodes)])
  BY NewShape
<1>2. ASSUME pass = "split", NEW v \in Values(gr),
             Answer(pass, gr, em, m, v) =
               EmitMany(SplitProduct(Renumber(gr.nodes[v], m), RoundId(gr, v), Len(em[v - 1]))),
             NEW j \in 1 .. 3, p = Len(em[v - 1]) + j
      PROVE  h.nodes[p].op \in {"MulLocal", "Round", "RoundResult"}
  <2>1. j = 1 \/ j = 2 \/ j = 3
    OBVIOUS
  <2>2. SplitInto(Renumber(gr.nodes[v], m), RoundId(gr, v), Len(em[v - 1]), em[Len(gr.nodes)],
                  Len(em[v]), m[v])
    BY <1>2, SplitFacts
  <2>3. h.nodes[p] = em[Len(gr.nodes)][Len(em[v - 1]) + j]
    BY <1>1, <1>2
  <2> QED
    BY <2>1, <2>2, <2>3 DEF Node, SplitInto
<1>3. \E v \in Values(gr) : Keeps(pass, gr, em, m, v) /\ p = m[v]
  BY <1>1, <1>2, Origins DEF Fresh
<1> QED
  BY <1>3, KeptInPlace

(* Gadget nodes and their results, moved: none is left behind, and no two  *)
(* meet.                                                                   *)
Carried(gr, h, K, m) ==
  /\ h.sites = gr.sites
  /\ K \subseteq Values(gr) /\ NodesOf(gr, "Gadget") \subseteq K
  /\ \A v \in K : KeptAt(gr, h, m, v)
  /\ \A v, w \in K : m[v] = m[w] => v = w
  /\ \A p \in Values(h) : h.nodes[p].op \in {"Gadget", "GadgetResult"} => \E v \in K : p = m[v]

(* The one operand of a result.                                            *)
LEMMA ResultOperand ==
  ASSUME NEW gr, Sound(gr), NEW v \in Values(gr),
         gr.nodes[v].op \in {"GadgetResult", "RoundResult"}
  PROVE  /\ DOMAIN gr.nodes[v].in = {1} /\ gr.nodes[v].in[1] \in Values(gr)
         /\ InputsOf(gr, v) = {gr.nodes[v].in[1]}
         /\ gr.nodes[v].op = "GadgetResult" => gr.nodes[v].in[1] \in NodesOf(gr, "Gadget")
         /\ gr.nodes[v].op = "RoundResult" => gr.nodes[v].in[1] \in NodesOf(gr, "Round")
<1>1. Len(gr.nodes[v].in) = 1
  BY ArityFacts
<1>2. DOMAIN gr.nodes[v].in = {1}
  BY <1>1, GraphFacts
<1>3. InputsOf(gr, v) = {gr.nodes[v].in[1]}
  BY <1>2, OperandFacts
<1>4. gr.nodes[v].in[1] \in Values(gr)
  BY <1>2, GraphFacts
<1> QED
  BY <1>2, <1>3, <1>4 DEF Sound, WellFormed, NodesOf

LEMMA CarriedSites ==
  ASSUME NEW gr, Sound(gr), NEW h, WellTyped(h), NEW K, NEW m, Carried(gr, h, K, m),
         \A p \in NodesOf(h, "RoundResult") : InputsOf(h, p) \subseteq NodesOf(h, "Round")
  PROVE  WellFormed(h)
<1>0. /\ h.sites = gr.sites
      /\ K \subseteq Values(gr) /\ NodesOf(gr, "Gadget") \subseteq K
      /\ \A v \in K : KeptAt(gr, h, m, v)
      /\ \A v, w \in K : m[v] = m[w] => v = w
      /\ \A p \in Values(h) : h.nodes[p].op \in {"Gadget", "GadgetResult"} => \E v \in K : p = m[v]
  BY DEF Carried
<1>1. \A v \in NodesOf(gr, "Gadget") :
        m[v] \in NodesOf(h, "Gadget") /\ h.nodes[m[v]].arg = gr.nodes[v].arg
  BY <1>0 DEF NodesOf, KeptAt
<1>2. ASSUME NEW p \in NodesOf(h, "Gadget")
      PROVE  \E v \in NodesOf(gr, "Gadget") : p = m[v] /\ h.nodes[p].arg = gr.nodes[v].arg
  <2>1. PICK v \in K : p = m[v]
    BY <1>0 DEF NodesOf
  <2> QED
    BY <1>0, <2>1 DEF NodesOf, KeptAt
<1>3. ASSUME NEW p \in NodesOf(h, "GadgetResult")
      PROVE  \E v \in NodesOf(gr, "GadgetResult") :
               /\ v \in K /\ p = m[v] /\ KeptAt(gr, h, m, v)
               /\ gr.nodes[v].in[1] \in NodesOf(gr, "Gadget")
               /\ DOMAIN h.nodes[p].in = {1} /\ DOMAIN gr.nodes[v].in = {1}
               /\ h.nodes[p].in[1] = m[gr.nodes[v].in[1]]
  <2>1. PICK v \in K : p = m[v]
    BY <1>0 DEF NodesOf
  <2>2. KeptAt(gr, h, m, v) /\ gr.nodes[v].op = "GadgetResult" /\ v \in Values(gr)
    BY <1>0, <2>1 DEF NodesOf, KeptAt
  <2>3. DOMAIN gr.nodes[v].in = {1} /\ gr.nodes[v].in[1] \in NodesOf(gr, "Gadget")
    BY <2>2, ResultOperand
  <2> QED
    BY <2>1, <2>2, <2>3, ZenonT(60) DEF NodesOf, KeptAt
<1>4. \A s \in DOMAIN h.sites : \E p \in NodesOf(h, "Gadget") : h.nodes[p].arg = s
  <2> SUFFICES ASSUME NEW s \in DOMAIN gr.sites
               PROVE  \E p \in NodesOf(h, "Gadget") : h.nodes[p].arg = s
    BY <1>0
  <2>1. PICK v \in NodesOf(gr, "Gadget") : gr.nodes[v].arg = s
    BY DEF Sound, WellFormed
  <2> QED
    BY <1>1, <2>1
<1>5. \A p, q \in NodesOf(h, "Gadget") : h.nodes[p].arg = h.nodes[q].arg => p = q
  <2> SUFFICES ASSUME NEW p \in NodesOf(h, "Gadget"), NEW q \in NodesOf(h, "Gadget"),
                      h.nodes[p].arg = h.nodes[q].arg
               PROVE  p = q
    OBVIOUS
  <2>1. PICK v \in NodesOf(gr, "Gadget") : p = m[v] /\ h.nodes[p].arg = gr.nodes[v].arg
    BY <1>2
  <2>2. PICK w \in NodesOf(gr, "Gadget") : q = m[w] /\ h.nodes[q].arg = gr.nodes[w].arg
    BY <1>2
  <2>3. v = w
    BY <2>1, <2>2 DEF Sound, WellFormed
  <2> QED
    BY <2>1, <2>2, <2>3
<1>6. \A p \in NodesOf(h, "Gadget") : h.nodes[p].arg \in DOMAIN h.sites
  <2> SUFFICES ASSUME NEW p \in NodesOf(h, "Gadget")
               PROVE  h.nodes[p].arg \in DOMAIN gr.sites
    BY <1>0
  <2>1. PICK v \in NodesOf(gr, "Gadget") : p = m[v] /\ h.nodes[p].arg = gr.nodes[v].arg
    BY <1>2
  <2> QED
    BY <2>1 DEF Sound, WellFormed
<1>7. \A p, q \in NodesOf(h, "GadgetResult") : h.nodes[p] = h.nodes[q] => p = q
  <2> SUFFICES ASSUME NEW p \in NodesOf(h, "GadgetResult"), NEW q \in NodesOf(h, "GadgetResult"),
                      h.nodes[p] = h.nodes[q]
               PROVE  p = q
    OBVIOUS
  <2>1. PICK v \in NodesOf(gr, "GadgetResult") :
          /\ v \in K /\ p = m[v] /\ KeptAt(gr, h, m, v)
          /\ gr.nodes[v].in[1] \in NodesOf(gr, "Gadget")
          /\ DOMAIN h.nodes[p].in = {1} /\ DOMAIN gr.nodes[v].in = {1}
          /\ h.nodes[p].in[1] = m[gr.nodes[v].in[1]]
    BY <1>3
  <2>2. PICK w \in NodesOf(gr, "GadgetResult") :
          /\ w \in K /\ q = m[w] /\ KeptAt(gr, h, m, w)
          /\ gr.nodes[w].in[1] \in NodesOf(gr, "Gadget")
          /\ DOMAIN h.nodes[q].in = {1} /\ DOMAIN gr.nodes[w].in = {1}
          /\ h.nodes[q].in[1] = m[gr.nodes[w].in[1]]
    BY <1>3
  <2>3. gr.nodes[v].in[1] = gr.nodes[w].in[1]
    BY <1>0, <2>1, <2>2
  <2>4. gr.nodes[v] \in NodeType /\ gr.nodes[w] \in NodeType
    BY NodeFacts DEF NodesOf
  <2>5. gr.nodes[v].in = gr.nodes[w].in
    <3>1. Len(gr.nodes[v].in) = 1 /\ Len(gr.nodes[w].in) = 1
      BY ArityFacts DEF NodesOf
    <3>2. gr.nodes[v].in \in Seq(Nat) /\ gr.nodes[w].in \in Seq(Nat)
      BY <2>4 DEF NodeType
    <3> QED
      BY <2>3, <3>1, <3>2
  <2>6. gr.nodes[v].op = gr.nodes[w].op /\ gr.nodes[v].arg = gr.nodes[w].arg
    BY <2>1, <2>2, ZenonT(60) DEF KeptAt, NodesOf
  <2>7. gr.nodes[v] = gr.nodes[w]
    BY <2>4, <2>5, <2>6, SMTT(40) DEF NodeType
  <2>8. v = w
    BY <2>7 DEF Sound, WellFormed
  <2> QED
    BY <2>1, <2>2, <2>8
<1>8. \A p \in NodesOf(h, "GadgetResult") : InputsOf(h, p) \subseteq NodesOf(h, "Gadget")
  <2> SUFFICES ASSUME NEW p \in NodesOf(h, "GadgetResult"), NEW x \in InputsOf(h, p)
               PROVE  x \in NodesOf(h, "Gadget")
    OBVIOUS
  <2>1. PICK v \in NodesOf(gr, "GadgetResult") :
          /\ v \in K /\ p = m[v] /\ KeptAt(gr, h, m, v)
          /\ gr.nodes[v].in[1] \in NodesOf(gr, "Gadget")
          /\ DOMAIN h.nodes[p].in = {1} /\ DOMAIN gr.nodes[v].in = {1}
          /\ h.nodes[p].in[1] = m[gr.nodes[v].in[1]]
    BY <1>3
  <2>2. x = h.nodes[p].in[1]
    BY <2>1 DEF InputsOf, ToSet
  <2> QED
    BY <1>1, <2>1, <2>2
<1> QED
  BY <1>4, <1>5, <1>6, <1>7, <1>8 DEF WellFormed

KeptValues(pass, gr, em, m) == {v \in Values(gr) : Keeps(pass, gr, em, m, v)}

LEMMA RewritingCarries ==
  ASSUME NEW gr, Sound(gr), IsGraph(gr), NEW pass \in RewritingPasses, NEW em, NEW m,
         Course(pass, gr, em, m), NEW h, h = NewGraph(gr, em, m)
  PROVE  Carried(gr, h, KeptValues(pass, gr, em, m), m)
<1> DEFINE K == KeptValues(pass, gr, em, m)
<1>1. h.sites = gr.sites
  BY NewShape
<1>2. K \subseteq Values(gr) /\ \A v \in K : KeptAt(gr, h, m, v)
  BY KeptInPlace DEF KeptValues
<1>3. NodesOf(gr, "Gadget") \subseteq K
  <2>1. "Gadget" \notin Touched(pass)
    BY DEF Touched, PureOps, LeafOps, ArithOps, RewritingPasses
  <2> QED
    BY <2>1, UntouchedKept DEF NodesOf, KeptValues
<1>4. ASSUME NEW v \in K, NEW w \in K, m[v] = m[w]
      PROVE  v = w
  <2>1. v \in Nat /\ w \in Nat /\ v \in Values(gr) /\ w \in Values(gr)
    BY <1>2, GraphFacts
  <2>2. Keeps(pass, gr, em, m, v) /\ Keeps(pass, gr, em, m, w)
    BY DEF KeptValues
  <2>3. m[v] \in Nat /\ m[w] \in Nat
    <3>1. m[v] \in Values(h) /\ m[w] \in Values(h)
      BY <1>2 DEF KeptAt
    <3>2. Values(h) \subseteq Nat
      BY NewShape
    <3> QED
      BY <3>1, <3>2
  <2>4. ~ (v < w)
    <3> SUFFICES ASSUME v < w PROVE FALSE
      OBVIOUS
    <3>1. m[v] < m[w]
      BY <2>1, <2>2, KeptApart
    <3> QED
      BY <1>4, <2>3, <3>1
  <2>5. ~ (w < v)
    <3> SUFFICES ASSUME w < v PROVE FALSE
      OBVIOUS
    <3>1. m[w] < m[v]
      BY <2>1, <2>2, KeptApart
    <3> QED
      BY <1>4, <2>3, <3>1
  <2> QED
    BY <2>1, <2>4, <2>5
<1>5. ASSUME NEW p \in Values(h), h.nodes[p].op \in {"Gadget", "GadgetResult"}
      PROVE  \E v \in K : p = m[v]
  <2>1. h.nodes[p].op \notin Fresh(pass)
    BY <1>5 DEF Fresh, RewritingPasses
  <2>2. PICK v \in Values(gr) : Keeps(pass, gr, em, m, v) /\ p = m[v]
    BY <2>1, OldNode
  <2> QED
    BY <2>2 DEF KeptValues
<1> QED
  BY <1>1, <1>2, <1>3, <1>4, <1>5 DEF Carried

(* Results of rounds are still read off rounds.                            *)
LEMMA RoundsRewritten ==
  ASSUME NEW gr, Sound(gr), IsGraph(gr), NEW pass \in RewritingPasses, NEW em, NEW m,
         Course(pass, gr, em, m), NEW h, h = NewGraph(gr, em, m),
         NEW p \in NodesOf(h, "RoundResult")
  PROVE  InputsOf(h, p) \subseteq NodesOf(h, "Round")
<1>0. /\ h.nodes = em[Len(gr.nodes)] /\ Values(h) = 1 .. Len(em[Len(gr.nodes)])
      /\ Len(em[Len(gr.nodes)]) \in Nat /\ p \in Values(h) /\ h.nodes[p].op = "RoundResult"
  BY NewShape DEF NodesOf
<1>1. ASSUME NEW v \in Values(gr), Keeps(pass, gr, em, m, v), p = m[v]
      PROVE  InputsOf(h, p) \subseteq NodesOf(h, "Round")
  <2>1. KeptAt(gr, h, m, v)
    BY <1>1, KeptInPlace
  <2>2. gr.nodes[v].op = "RoundResult"
    BY <1>0, <1>1, <2>1 DEF KeptAt
  <2> DEFINE r == gr.nodes[v].in[1]
  <2>3. r \in Values(gr) /\ gr.nodes[r].op = "Round" /\ DOMAIN gr.nodes[v].in = {1}
    BY <2>2, ResultOperand DEF NodesOf
  <2> HIDE DEF r
  <2>4. "Round" \notin Touched(pass)
    BY DEF Touched, PureOps, LeafOps, ArithOps, RewritingPasses
  <2>5. KeptAt(gr, h, m, r)
    BY <2>3, <2>4, UntouchedKept, KeptInPlace
  <2>6. DOMAIN h.nodes[p].in = {1} /\ h.nodes[p].in[1] = m[r]
    BY <1>1, <2>1, <2>3 DEF KeptAt, r
  <2> QED
    BY <2>3, <2>5, <2>6 DEF KeptAt, NodesOf, InputsOf, ToSet
<1>2. ASSUME pass = "split", NEW v \in Values(gr),
             Answer(pass, gr, em, m, v) =
               EmitMany(SplitProduct(Renumber(gr.nodes[v], m), RoundId(gr, v), Len(em[v - 1]))),
             NEW j \in 1 .. 3, p = Len(em[v - 1]) + j
      PROVE  InputsOf(h, p) \subseteq NodesOf(h, "Round")
  <2> DEFINE k == Len(em[v - 1])
  <2>1. j = 1 \/ j = 2 \/ j = 3
    OBVIOUS
  <2>2. SplitInto(Renumber(gr.nodes[v], m), RoundId(gr, v), k, em[Len(gr.nodes)],
                  Len(em[v]), m[v])
    BY <1>2, SplitFacts
  <2>3. k \in Nat
    BY ListFacts
  <2> HIDE DEF k
  <2>4. p = k + j
    BY <1>2 DEF k
  <2>5. /\ h.nodes[k + 1].op = "MulLocal" /\ h.nodes[k + 2].op = "Round"
        /\ h.nodes[k + 3].in = <<k + 2>>
    BY <1>0, <2>2 DEF SplitInto, Node
  <2>6. p = k + 3
    BY <1>0, <2>1, <2>4, <2>5
  <2>7. k + 2 \in Values(h)
    BY <1>0, <2>3, <2>6
  <2>8. InputsOf(h, p) = {k + 2}
    BY <2>5, <2>6 DEF InputsOf, ToSet
  <2> QED
    BY <2>5, <2>7, <2>8 DEF NodesOf
<1> QED
  BY <1>0, <1>1, <1>2, Origins DEF Fresh

LEMMA RewritingSound ==
  ASSUME NEW gr, Sound(gr), IsGraph(gr), NEW pass \in RewritingPasses, NEW em, NEW m,
         Course(pass, gr, em, m), NEW h, h = NewGraph(gr, em, m)
  PROVE  Sound(h) /\ IsGraph(h)
<1>1. IsGraph(h) /\ WellTyped(h) /\ Topological(h)
  BY NewShape
<1>2. Carried(gr, h, KeptValues(pass, gr, em, m), m)
  BY RewritingCarries
<1>3. \A p \in NodesOf(h, "RoundResult") : InputsOf(h, p) \subseteq NodesOf(h, "Round")
  BY RoundsRewritten
<1>4. WellFormed(h)
  BY <1>1, <1>2, <1>3, CarriedSites
<1> QED
  BY <1>1, <1>4 DEF Sound

-----------------------------------------------------------------------------
(* Other orders of the nodes.                                              *)

(* An order that names every node of a set once, operands first, and the   *)
(* set has all that is needed.                                             *)
Orderly(gr, S, layout) ==
  /\ Lists(layout, S) /\ S \subseteq Values(gr)
  /\ \A v \in S : InputsOf(gr, v) \subseteq S
  /\ \A p, q \in DOMAIN layout : layout[q] \in InputsOf(gr, layout[p]) => q < p
  /\ \A j \in DOMAIN gr.outputs : gr.outputs[j].value \in S
  /\ NodesOf(gr, "Gadget") \subseteq S

(* The graph in that order.                                                *)
Moved(gr, h, S, layout, place) ==
  /\ Rebuilt(gr, h.nodes, place, h)
  /\ Values(h) = 1 .. Cardinality(S) /\ Len(h.nodes) = Cardinality(S)
  /\ Values(h) = DOMAIN layout
  /\ \A v \in S : /\ KeptAt(gr, h, place, v)
                  /\ h.nodes[place[v]] = Renumber(gr.nodes[v], place)
                  /\ layout[place[v]] = v
  /\ \A p \in Values(h) : layout[p] \in S /\ place[layout[p]] = p

LEMMA RelayoutMoves ==
  ASSUME NEW gr, Sound(gr), IsGraph(gr), NEW S, NEW layout, Orderly(gr, S, layout),
         NEW h, h = Relayout(gr, layout)
  PROVE  Sound(h) /\ IsGraph(h) /\ \E place : Moved(gr, h, S, layout, place)
<1> DEFINE place == [v \in ToSet(layout) |-> CHOOSE p \in DOMAIN layout : layout[p] = v]
           node(p) == Renumber(gr.nodes[layout[p]], place)
           nodes == [p \in DOMAIN layout |-> node(p)]
           N == Cardinality(S)
<1>0. /\ Lists(layout, S) /\ S \subseteq Values(gr)
      /\ \A v \in S : InputsOf(gr, v) \subseteq S
      /\ \A p, q \in DOMAIN layout : layout[q] \in InputsOf(gr, layout[p]) => q < p
      /\ \A j \in DOMAIN gr.outputs : gr.outputs[j].value \in S
      /\ NodesOf(gr, "Gadget") \subseteq S
  BY DEF Orderly
<1>1. /\ Len(gr.nodes) \in Nat /\ Values(gr) = 1 .. Len(gr.nodes)
  BY GraphFacts
<1>2. N \in Nat
  <2>1. IsFiniteSet(1 .. Len(gr.nodes))
    BY <1>1, FS_Interval
  <2>2. IsFiniteSet(S)
    BY <1>0, <1>1, <2>1, FS_Subset
  <2> QED
    BY <2>2, FS_CardinalityType
<1>3. /\ DOMAIN layout = 1 .. N
      /\ \A p \in DOMAIN layout : layout[p] \in S
      /\ \A p, q \in DOMAIN layout : layout[p] = layout[q] => p = q
      /\ \A v \in S : \E p \in DOMAIN layout : layout[p] = v
  BY <1>0 DEF Lists
<1> HIDE DEF N
<1>4. ToSet(layout) = S
  BY <1>3 DEF ToSet
<1>5. \A v \in S : place[v] \in 1 .. N /\ layout[place[v]] = v
  BY <1>3, <1>4
<1>6. \A p \in 1 .. N : place[layout[p]] = p
  BY <1>3, <1>5
<1>7. h = RebuildNodes(gr, nodes, place)
  BY Zenon DEF Relayout
<1> HIDE DEF place
<1>8. ASSUME NEW p \in 1 .. N
      PROVE  Placed(node(p), p - 1)
  <2> DEFINE v == layout[p]
  <2>1. v \in S /\ v \in Values(gr)
    BY <1>0, <1>3
  <2> HIDE DEF v
  <2>2. gr.nodes[v] \in NodeType
    BY <2>1, NodeFacts
  <2>3. /\ node(p).op = gr.nodes[v].op /\ node(p).arg = gr.nodes[v].arg
        /\ node(p).in = [j \in DOMAIN gr.nodes[v].in |-> place[gr.nodes[v].in[j]]]
        /\ node(p) = [op |-> gr.nodes[v].op, arg |-> gr.nodes[v].arg,
                      in |-> [j \in DOMAIN gr.nodes[v].in |-> place[gr.nodes[v].in[j]]]]
    BY <2>2, RenumberFacts DEF v
  <2> HIDE DEF node
  <2>4. \A j \in DOMAIN gr.nodes[v].in :
          place[gr.nodes[v].in[j]] \in 1 .. (p - 1)
    <3> SUFFICES ASSUME NEW j \in DOMAIN gr.nodes[v].in
                 PROVE  place[gr.nodes[v].in[j]] \in 1 .. (p - 1)
      OBVIOUS
    <3> DEFINE w == gr.nodes[v].in[j]
    <3>1. w \in InputsOf(gr, v)
      BY <2>1, OperandFacts
    <3>2. w \in S
      BY <1>0, <2>1, <3>1
    <3>3. place[w] \in 1 .. N /\ layout[place[w]] = w
      BY <1>5, <3>2
    <3>4. place[w] < p
      BY <1>0, <1>3, <3>1, <3>3 DEF v
    <3> QED
      BY <1>2, <3>3, <3>4
  <2>5. DOMAIN gr.nodes[v].in = 1 .. Len(gr.nodes[v].in) /\ Len(gr.nodes[v].in) \in Nat
    BY <2>1, GraphFacts
  <2>6. node(p).in \in Seq(Nat) /\ Len(node(p).in) = Len(gr.nodes[v].in)
    <3>1. \A j \in 1 .. Len(gr.nodes[v].in) : place[gr.nodes[v].in[j]] \in Nat
      BY <2>4, <2>5
    <3> QED
      BY <2>3, <2>5, <3>1
  <2>7. node(p) \in NodeType
    BY <2>2, <2>3, <2>6 DEF NodeType
  <2>8. Len(node(p).in) \in Arities(node(p).op)
    <3>1. Len(gr.nodes[v].in) \in Arities(gr.nodes[v].op)
      BY <2>1 DEF Sound, WellTyped, Values
    <3> QED
      BY <2>3, <2>6, <3>1
  <2> QED
    BY <2>3, <2>4, <2>7, <2>8 DEF Placed
<1>9. NodeList(nodes) /\ Len(nodes) = N /\ DOMAIN nodes = 1 .. N
      /\ \A p \in 1 .. N : nodes[p] = node(p)
  <2>1. \A p \in 1 .. N : node(p) \in NodeType
    BY <1>8 DEF Placed
  <2>2. nodes = [p \in 1 .. N |-> node(p)]
    BY <1>3
  <2> HIDE DEF node, nodes
  <2>3. nodes \in Seq(NodeType) /\ Len(nodes) = N /\ \A p \in 1 .. N : nodes[p] = node(p)
    BY <1>2, <2>1, <2>2
  <2> QED
    BY <1>8, <2>2, <2>3 DEF NodeList
<1>10. \A j \in DOMAIN gr.outputs : place[gr.outputs[j].value] \in 1 .. Len(nodes)
  BY <1>0, <1>5, <1>9
<1> HIDE DEF nodes
<1>11. Rebuilt(gr, nodes, place, h)
  BY <1>7, RebuildFacts
<1>12. h.nodes = nodes /\ h.sites = gr.sites
  BY <1>11 DEF Rebuilt
<1>13. IsGraph(h) /\ WellTyped(h) /\ Topological(h) /\ Values(h) = 1 .. N
  BY <1>7, <1>9, <1>10, RebuiltShape DEF Sound
<1>14. ASSUME NEW v \in S
       PROVE  /\ KeptAt(gr, h, place, v)
              /\ h.nodes[place[v]] = Renumber(gr.nodes[v], place)
              /\ layout[place[v]] = v
  <2>1. h.nodes[place[v]] = Renumber(gr.nodes[v], place)
    BY <1>5, <1>9, <1>12 DEF node
  <2> QED
    BY <1>0, <1>5, <1>13, <2>1, RenumberedAt
<1>15. Moved(gr, h, S, layout, place)
  BY <1>3, <1>6, <1>9, <1>11, <1>12, <1>13, <1>14 DEF Moved, N
<1>16. Carried(gr, h, S, place)
  <2>1. \A v, w \in S : place[v] = place[w] => v = w
    BY <1>5
  <2>2. \A p \in Values(h) : \E v \in S : p = place[v]
    BY <1>3, <1>6, <1>13
  <2> QED
    BY <1>0, <1>12, <1>14, <2>1, <2>2 DEF Carried
<1>17. \A p \in NodesOf(h, "RoundResult") : InputsOf(h, p) \subseteq NodesOf(h, "Round")
  <2> SUFFICES ASSUME NEW p \in NodesOf(h, "RoundResult")
               PROVE  InputsOf(h, p) \subseteq NodesOf(h, "Round")
    OBVIOUS
  <2> DEFINE v == layout[p]
  <2>1. v \in S /\ place[v] = p /\ v \in Values(gr) /\ KeptAt(gr, h, place, v)
    BY <1>0, <1>3, <1>6, <1>13, <1>14 DEF NodesOf
  <2> HIDE DEF v
  <2>2. gr.nodes[v].op = "RoundResult"
    BY <2>1 DEF KeptAt, NodesOf
  <2> DEFINE r == gr.nodes[v].in[1]
  <2>3. r \in Values(gr) /\ gr.nodes[r].op = "Round" /\ DOMAIN gr.nodes[v].in = {1} /\ r \in S
    BY <1>0, <2>1, <2>2, ResultOperand DEF NodesOf
  <2> HIDE DEF r
  <2>4. KeptAt(gr, h, place, r)
    BY <1>14, <2>3
  <2>5. DOMAIN h.nodes[p].in = {1} /\ h.nodes[p].in[1] = place[r]
    BY <2>1, <2>3 DEF KeptAt, r
  <2> QED
    BY <2>3, <2>4, <2>5 DEF KeptAt, NodesOf, InputsOf, ToSet
<1> HIDE DEF node
<1>18. WellFormed(h)
  BY <1>13, <1>16, <1>17, CarriedSites
<1> QED
  BY <1>13, <1>15, <1>18 DEF Sound

(* Ranks follow the order.                                                 *)
LEMMA RankGrows ==
  ASSUME NEW S, IsFiniteSet(S), NEW R, StrictOrder(S, R), NEW v \in S, NEW w \in S, <<v, w>> \in R
  PROVE  Rank(S, R, v) < Rank(S, R, w)
<1> DEFINE below(x) == {y \in S : <<y, x>> \in R}
<1>1. \A x \in S : IsFiniteSet(below(x)) /\ Cardinality(below(x)) \in Nat
  BY FS_Subset, FS_CardinalityType
<1>2. below(v) \subseteq below(w)
  BY DEF StrictOrder
<1>3. v \in below(w) /\ v \notin below(v)
  BY DEF StrictOrder
<1> HIDE DEF below
<1>4. Cardinality(below(v)) <= Cardinality(below(w)) /\ Cardinality(below(v)) # Cardinality(below(w))
  BY <1>1, <1>2, <1>3, FS_Subset
<1>5. Cardinality(below(v)) < Cardinality(below(w))
  BY <1>1, <1>4
<1> QED
  BY <1>5 DEF below, Rank

(* A list by rank is in order.                                             *)
Follows(l, R) == \A p, q \in DOMAIN l : <<l[p], l[q]>> \in R <=> p < q

LEMMA RankedFollows ==
  ASSUME NEW S, IsFiniteSet(S), NEW R, StrictOrder(S, R), NEW l,
         DOMAIN l = 1 .. Cardinality(S),
         \A p \in 1 .. Cardinality(S) : l[p] \in S /\ Rank(S, R, l[p]) = p - 1
  PROVE  Follows(l, R)
<1>1. Cardinality(S) \in Nat
  BY FS_CardinalityType
<1> SUFFICES ASSUME NEW p \in 1 .. Cardinality(S), NEW q \in 1 .. Cardinality(S)
             PROVE  <<l[p], l[q]>> \in R <=> p < q
  BY DEF Follows
<1>2. l[p] \in S /\ l[q] \in S /\ Rank(S, R, l[p]) = p - 1 /\ Rank(S, R, l[q]) = q - 1
  OBVIOUS
<1>3. <<l[p], l[q]>> \in R => p - 1 < q - 1
  BY <1>2, RankGrows
<1>4. ASSUME p < q PROVE <<l[p], l[q]>> \in R
  <2>1. l[p] # l[q]
    BY <1>1, <1>2, <1>4
  <2>2. <<l[q], l[p]>> \notin R
    <3> SUFFICES ASSUME <<l[q], l[p]>> \in R PROVE FALSE
      OBVIOUS
    <3>1. q - 1 < p - 1
      BY <1>2, RankGrows
    <3> QED
      BY <1>1, <1>4, <3>1
  <2> QED
    BY <1>2, <2>1, <2>2 DEF StrictOrder
<1> QED
  BY <1>1, <1>3, <1>4

(* Every rank is that of an element.                                       *)
FullyRanked(S, R) == \A p \in 1 .. Cardinality(S) : \E v \in S : Rank(S, R, v) = p - 1

LEMMA AllRanked ==
  ASSUME NEW S, IsFiniteSet(S), NEW R, StrictOrder(S, R)
  PROVE  FullyRanked(S, R)
BY Ranks DEF FullyRanked

(* The ascending order of a set of numbers.                                *)
Rises(S, l) ==
  /\ Lists(l, S)
  /\ \A p, q \in DOMAIN l : l[p] < l[q] <=> p < q
  /\ \A N \in Nat : S = 1 .. N => \A p \in 1 .. N : l[p] = p

LEMMA AscendingFacts ==
  ASSUME NEW S, S \in SUBSET Nat, IsFiniteSet(S)
  PROVE  Rises(S, Ascending(S))
<1> DEFINE R == {vw \in S \X S : vw[1] < vw[2]}
           l == Ascending(S)
<1>1. \A v, w \in S : <<v, w>> \in R <=> v < w
  OBVIOUS
<1>2. StrictOrder(S, R)
  BY <1>1 DEF StrictOrder
<1>3. \A v \in S : {w \in S : w < v} = {w \in S : <<w, v>> \in R}
  BY <1>1
<1> HIDE DEF R
<1>4. \A v \in S : Cardinality({w \in S : w < v}) = Rank(S, R, v)
  BY <1>3 DEF Rank
<1>5. DOMAIN l = 1 .. Cardinality(S)
  BY DEF Ascending, Ordered
<1>11. \A p \in 1 .. Cardinality(S) : \E v \in S : Rank(S, R, v) = p - 1
  <2>1. FullyRanked(S, R)
    BY <1>2, AllRanked
  <2> QED
    BY <2>1 DEF FullyRanked
<1>6. ASSUME NEW p \in 1 .. Cardinality(S)
      PROVE  l[p] \in S /\ Rank(S, R, l[p]) = p - 1
  <2>1. l[p] = CHOOSE v \in S : Cardinality({w \in S : w < v}) = p - 1
    BY DEF Ascending, Ordered
  <2>2. \E v \in S : Rank(S, R, v) = p - 1
    BY <1>11
  <2>3. l[p] \in S /\ Cardinality({w \in S : w < l[p]}) = p - 1
    BY <1>4, <2>1, <2>2
  <2> QED
    BY <1>4, <2>3
<1> HIDE DEF l
<1>7. Lists(l, S)
  BY <1>2, <1>5, <1>6, ListedByRank
<1>8. Follows(l, R)
  BY <1>2, <1>5, <1>6, RankedFollows
<1>9. ASSUME NEW N \in Nat, S = 1 .. N, NEW p \in 1 .. N
      PROVE  l[p] = p
  <2>1. Cardinality(S) = N
    BY <1>9, FS_Interval
  <2>2. l[p] \in 1 .. N /\ Rank(S, R, l[p]) = p - 1
    BY <1>6, <1>9, <2>1
  <2>3. {w \in S : w < l[p]} = 1 .. (l[p] - 1)
    BY <1>9, <2>2
  <2>4. Rank(S, R, l[p]) = l[p] - 1
    <3> DEFINE x == l[p] - 1
    <3>1. x \in Nat /\ 1 \in Int
      BY <2>2
    <3>2. Cardinality(1 .. x) = x
      <4> HIDE DEF x
      <4> QED
        BY <3>1, FS_Interval
    <3> QED
      BY <1>4, <1>9, <2>2, <2>3, <3>2
  <2> QED
    BY <2>2, <2>4
<1>10. \A p, q \in DOMAIN l : l[p] < l[q] <=> p < q
  BY <1>1, <1>5, <1>6, <1>8 DEF Follows
<1>12. Rises(S, l)
  BY <1>7, <1>9, <1>10 DEF Rises
<1> QED
  BY <1>12 DEF l

-----------------------------------------------------------------------------
(* Collecting garbage.                                                     *)

(* What is needed by itself.                                               *)
Roots(gr) == {gr.outputs[j].value : j \in DOMAIN gr.outputs} \cup NodesOf(gr, "Gadget")

(* All that is needed, and no more: whatever is kept is a root or read by  *)
(* something that is kept.                                                 *)
Swept(gr, K) ==
  /\ Roots(gr) \subseteq K /\ K \subseteq Values(gr)
  /\ \A v \in K : InputsOf(gr, v) \subseteq K
  /\ \A v \in K : v \in Roots(gr) \/ \E r \in K : v \in InputsOf(gr, r)

LEMMA SweepFacts ==
  ASSUME NEW gr, Sound(gr)
  PROVE  \E K : Swept(gr, K) /\ Gc(gr) = Relayout(gr, Ascending(K))
<1> DEFINE m == Len(gr.nodes)
           pos == Positions(gr)
           D == SUBSET DOMAIN pos
           roots == Roots(gr)
           Sweep(h) == h = [s \in D |-> IF s = {} THEN roots
                                        ELSE LET x == Min(s)
                                             IN  IF pos[x] \in h[s \ {x}]
                                                 THEN h[s \ {x}] \cup InputsOf(gr, pos[x])
                                                 ELSE h[s \ {x}]]
<1>0. m \in Nat /\ D = SUBSET (1 .. m) /\ Values(gr) = 1 .. m /\ \A x \in 1 .. m : pos[x] = x
  BY GraphFacts DEF Positions
<1>1. PICK h : Obeys("sweep", gr, roots, pos, h, D)
  <2> HIDE DEF m, pos, D, roots
  <2> QED
    BY <1>0, FoldRecursionExists
<1>2. ASSUME NEW g
      PROVE  Sweep(g) <=> Obeys("sweep", gr, roots, pos, g, D)
  BY DEF Obeys, Step, Outermost, Turn
<1>3. Sweep(CHOOSE g : Sweep(g))
  BY Zenon, <1>1, <1>2
<1>4. Gc(gr) = Relayout(gr, Ascending((CHOOSE g : Sweep(g))[DOMAIN pos]))
  BY ZenonT(20) DEF Gc, FoldRightDomain, FoldRight, MapThenFoldSet, Positions, Roots
<1> DEFINE f == CHOOSE g : Sweep(g)
           K == f[DOMAIN pos]
<1>5. Obeys("sweep", gr, roots, pos, f, SUBSET (1 .. m)) /\ DOMAIN pos = 1 .. m
  <2>1. DOMAIN pos = 1 .. m
    BY GraphFacts DEF Positions
  <2> QED
    BY Zenon, <1>0, <1>2, <1>3, <2>1
<1> HIDE DEF f, Sweep, D, roots, pos
<1>6. PICK e : Runs("sweep", gr, roots, pos, m, e, K)
  <2>1. \E e : Runs("sweep", gr, roots, pos, m, e, f[1 .. m])
    <3> HIDE DEF m
    <3> QED
      BY <1>0, <1>5, FoldRuns
  <2> QED
    BY <1>5, <2>1
<1> HIDE DEF K, m
<1>7. /\ e[0] = roots /\ e[m] = K
      /\ \A n \in 1 .. m : e[n] = IF m + 1 - n \in e[n - 1]
                                  THEN e[n - 1] \cup InputsOf(gr, m + 1 - n) ELSE e[n - 1]
  <2>1. \A n \in 1 .. m : m + 1 - n \in 1 .. m
    BY <1>0
  <2>2. \A n \in 1 .. m : pos[m + 1 - n] = m + 1 - n
    BY <1>0, <2>1
  <2> QED
    BY <1>6, <2>2 DEF Runs, Turn
<1>8. roots \subseteq Values(gr)
  BY DEF roots, Roots, NodesOf, Sound, WellTyped, Values
<1> DEFINE Good(n) == /\ roots \subseteq e[n] /\ e[n] \subseteq Values(gr)
                      /\ \A v \in e[n] : v > m - n => InputsOf(gr, v) \subseteq e[n]
                      /\ \A v \in e[n] : v \in roots \/ \E r \in e[n] : v \in InputsOf(gr, r)
<1>9. Good(0)
  BY <1>0, <1>7, <1>8
<1>10. ASSUME NEW n \in 1 .. m, Good(n - 1)
       PROVE  Good(n)
  <2> DEFINE x == m + 1 - n
             a == e[n - 1]
             b == e[n]
  <2>1. x \in Values(gr) /\ x \in Nat /\ m - n = x - 1 /\ m - (n - 1) = x
    BY <1>0
  <2>2. b = IF x \in a THEN a \cup InputsOf(gr, x) ELSE a
    BY <1>7
  <2>3. /\ roots \subseteq a /\ a \subseteq Values(gr)
        /\ \A v \in a : v > x => InputsOf(gr, v) \subseteq a
        /\ \A v \in a : v \in roots \/ \E r \in a : v \in InputsOf(gr, r)
    BY <1>10, <2>1
  <2> HIDE DEF x, a, b
  <2>4. \A w \in InputsOf(gr, x) : w \in Values(gr) /\ w < x
    BY <2>1, OperandFacts
  <2>5. \A v \in Values(gr) : v \in Nat
    BY <1>0
  <2>6. ASSUME NEW v \in b, v > x - 1
        PROVE  InputsOf(gr, v) \subseteq b
    <3>3. v \in a \/ v \in InputsOf(gr, x)
      BY <2>2, <2>6
    <3>4. ~ (v \in InputsOf(gr, x))
      <4> SUFFICES ASSUME v \in InputsOf(gr, x) PROVE FALSE
        OBVIOUS
      <4>1. v \in Nat /\ v < x /\ x \in Nat
        BY <2>1, <2>4, <2>5
      <4> QED
        BY <2>6, <4>1
    <3>1. v \in a
      BY <3>3, <3>4
    <3>2. v = x \/ v > x
      BY <2>1, <2>3, <2>5, <2>6, <3>1
    <3> QED
      BY <2>2, <2>3, <3>1, <3>2
  <2>7. \A v \in b : v \in roots \/ \E r \in b : v \in InputsOf(gr, r)
    BY <2>2, <2>3
  <2>8. roots \subseteq b /\ b \subseteq Values(gr)
    BY <2>2, <2>3, <2>4
  <2> QED
    BY <2>1, <2>6, <2>7, <2>8 DEF b
<1> DEFINE T == {n \in Nat : n <= m => Good(n)}
<1>11. T = Nat
  <2>1. 0 \in T
    BY <1>9
  <2>2. ASSUME NEW n \in T
        PROVE  n + 1 \in T
    <3>1. CASE n + 1 <= m
      <4>1. n \in Nat /\ n + 1 \in 1 .. m /\ Good(n) /\ (n + 1) - 1 = n
        BY <1>0, <3>1
      <4>2. Good((n + 1) - 1)
        BY <4>1
      <4> HIDE DEF Good
      <4>3. Good(n + 1)
        BY <1>10, <4>1, <4>2
      <4> QED
        BY <4>1, <4>3
    <3>2. CASE ~ (n + 1 <= m)
      BY <3>2
    <3> QED
      BY <3>1, <3>2
  <2> HIDE DEF T
  <2>3. T \in SUBSET Nat
    BY DEF T
  <2> QED
    BY <2>1, <2>2, <2>3, NaturalsFrom0
<1>12. Good(m)
  <2> HIDE DEF Good
  <2>1. m \in T
    BY <1>0, <1>11
  <2> QED
    BY <1>0, <2>1
<1>13. \A v \in Values(gr) : v > m - m
  BY <1>0
<1>14. Swept(gr, K)
  BY <1>7, <1>12, <1>13 DEF Swept, roots
<1>15. Gc(gr) = Relayout(gr, Ascending(K))
  BY <1>4 DEF K, f
<1> QED
  BY <1>14, <1>15

-----------------------------------------------------------------------------
(* Passes that change nothing.                                             *)

(* Operands that stay.                                                     *)
LEMMA RenumberNothing ==
  ASSUME NEW n \in NodeType, NEW m, \A j \in DOMAIN n.in : m[n.in[j]] = n.in[j]
  PROVE  Renumber(n, m) = n
<1> DEFINE f == n.in
<1>1. f = [j \in DOMAIN f |-> f[j]]
  BY DEF NodeType
<1>2. [j \in DOMAIN f |-> m[f[j]]] = [j \in DOMAIN f |-> f[j]]
  OBVIOUS
<1>3. Renumber(n, m) = [op |-> n.op, arg |-> n.arg, in |-> [j \in DOMAIN f |-> m[f[j]]]]
  BY RenumberFacts
<1>4. n = [op |-> n.op, arg |-> n.arg, in |-> f]
  BY DEF NodeType
<1> HIDE DEF f
<1> QED
  BY <1>1, <1>2, <1>3, <1>4

(* Where a node that is kept goes.                                         *)
InItsPlace(gr, em, m, v) ==
  /\ Len(em[v]) = Len(em[v - 1]) + 1 /\ m[v] = Len(em[v])
  /\ em[Len(gr.nodes)][m[v]] = Renumber(gr.nodes[v], m)

LEMMA KeptPlace ==
  ASSUME NEW gr, Sound(gr), NEW pass \in RewritingPasses, NEW em, NEW m, Course(pass, gr, em, m),
         NEW v \in Values(gr), Keeps(pass, gr, em, m, v)
  PROVE  InItsPlace(gr, em, m, v)
BY KeptFacts DEF InItsPlace

(* What a list held stays where it was.                                    *)
LEMMA ListBegins ==
  ASSUME NEW gr, Sound(gr), NEW pass \in RewritingPasses, NEW em, NEW m, Course(pass, gr, em, m),
         NEW v \in Values(gr)
  PROVE  /\ \A p \in 1 .. Len(em[v - 1]) : em[v - 1][p] = em[Len(gr.nodes)][p]
         /\ \A p \in 1 .. Len(em[v]) : em[v][p] = em[Len(gr.nodes)][p]
BY ListFacts

(* The course of a pass that has kept everything so far.                   *)
LEMMA KeptSoFar ==
  ASSUME NEW gr, Sound(gr), NEW pass \in RewritingPasses, NEW em, NEW m, Course(pass, gr, em, m),
         NEW v \in 0 .. Len(gr.nodes), \A u \in 1 .. v : Keeps(pass, gr, em, m, u)
  PROVE  /\ Len(em[v]) = v
         /\ \A u \in 1 .. v : m[u] = u /\ em[v][u] = gr.nodes[u]
<1> DEFINE N == Len(gr.nodes)
           Plain(x) == Len(em[x]) = x /\ \A u \in 1 .. x : m[u] = u /\ em[x][u] = gr.nodes[u]
           T == {x \in Nat : x <= v => Plain(x)}
<1>0. N \in Nat /\ Values(gr) = 1 .. N /\ v \in 0 .. N
  BY GraphFacts
<1>1. 0 \in T
  <2>1. em[0] = <<>>
    BY DEF Course
  <2> QED
    BY <2>1
<1>2. ASSUME NEW x \in T
      PROVE  x + 1 \in T
  <2>1. CASE ~ (x + 1 <= v)
    BY <2>1
  <2>2. CASE x + 1 <= v
    <3> DEFINE y == x + 1
    <3>1. x \in Nat /\ y \in Values(gr) /\ y \in 1 .. v /\ y - 1 = x /\ Plain(x)
      BY <1>0, <2>2
    <3> HIDE DEF y, T
    <3>2. Keeps(pass, gr, em, m, y)
      BY <3>1
    <3>3. /\ Len(em[y]) = Len(em[x]) + 1 /\ m[y] = Len(em[y])
          /\ em[N][m[y]] = Renumber(gr.nodes[y], m)
      <4>1. /\ Len(em[y]) = Len(em[y - 1]) + 1 /\ m[y] = Len(em[y])
            /\ em[N][m[y]] = Renumber(gr.nodes[y], m)
        <5>1. InItsPlace(gr, em, m, y)
          BY <3>1, <3>2, KeptPlace
        <5> QED
          BY <5>1 DEF InItsPlace
      <4> QED
        BY <3>1, <4>1
    <3>4. m[y] = y /\ Len(em[y]) = y
      BY <3>1, <3>3
    <3>5. Renumber(gr.nodes[y], m) = gr.nodes[y]
      <4>1. gr.nodes[y] \in NodeType
        BY <3>1, NodeFacts
      <4>2. \A j \in DOMAIN gr.nodes[y].in : m[gr.nodes[y].in[j]] = gr.nodes[y].in[j]
        <5> SUFFICES ASSUME NEW j \in DOMAIN gr.nodes[y].in
                     PROVE  m[gr.nodes[y].in[j]] = gr.nodes[y].in[j]
          OBVIOUS
        <5>1. gr.nodes[y].in[j] \in Values(gr) /\ gr.nodes[y].in[j] < y
          BY <3>1, GraphFacts
        <5>2. gr.nodes[y].in[j] \in 1 .. x
          BY <1>0, <3>1, <5>1
        <5> QED
          BY <3>1, <5>2
      <4> QED
        BY <4>1, <4>2, RenumberNothing
    <3>11. y \in Values(gr)
      BY <3>1
    <3>12. /\ \A p \in 1 .. Len(em[y - 1]) : em[y - 1][p] = em[Len(gr.nodes)][p]
           /\ \A p \in 1 .. Len(em[y]) : em[y][p] = em[Len(gr.nodes)][p]
      BY <3>11, ListBegins, ZenonT(60)
    <3>13. y - 1 = x
      BY <3>1
    <3>6. \A p \in 1 .. Len(em[x]) : em[x][p] = em[N][p]
      BY <3>12, <3>13, ZenonT(60)
    <3>7. \A p \in 1 .. Len(em[y]) : em[y][p] = em[N][p]
      BY <3>12, ZenonT(60)
    <3>8. \A u \in 1 .. y : u \in 1 .. x \/ u = y
      BY <3>1
    <3>9. \A u \in 1 .. y : m[u] = u /\ em[y][u] = gr.nodes[u]
      BY <3>1, <3>3, <3>4, <3>5, <3>6, <3>7, <3>8
    <3>10. Plain(y)
      BY <3>4, <3>9
    <3> QED
      BY <3>1, <3>10 DEF T, y
  <2> QED
    BY <2>1, <2>2
<1> HIDE DEF T
<1>3. T = Nat
  <2>1. T \in SUBSET Nat
    BY DEF T
  <2> QED
    BY <1>1, <1>2, <2>1, NaturalsFrom0
<1>4. v \in T /\ v \in Nat
  BY <1>0, <1>3
<1> QED
  BY <1>4 DEF T

(* The next node, in that course, is what it was.                          *)
LEMMA NextUnchanged ==
  ASSUME NEW gr, Sound(gr), NEW pass \in RewritingPasses, NEW em, NEW m, Course(pass, gr, em, m),
         NEW v \in Values(gr), \A u \in 1 .. (v - 1) : Keeps(pass, gr, em, m, u)
  PROVE  /\ Renumber(gr.nodes[v], m) = gr.nodes[v]
         /\ DOMAIN em[v - 1] = 1 .. (v - 1)
         /\ \A u \in 1 .. (v - 1) : em[v - 1][u] = gr.nodes[u]
<1> DEFINE x == v - 1
           f == gr.nodes[v].in
<1>0. x \in 0 .. Len(gr.nodes) /\ v \in Nat /\ \A u \in 1 .. x : Keeps(pass, gr, em, m, u)
  BY GraphFacts
<1> HIDE DEF x
<1>1. /\ Len(em[x]) = x
      /\ \A u \in 1 .. x : m[u] = u /\ em[x][u] = gr.nodes[u]
  BY <1>0, KeptSoFar
<1>2. DOMAIN em[x] = 1 .. x
  BY <1>0, <1>1, CourseGrows
<1>3. gr.nodes[v] \in NodeType
  BY NodeFacts
<1>4. \A j \in DOMAIN f : m[f[j]] = f[j]
  <2> SUFFICES ASSUME NEW j \in DOMAIN f
               PROVE  m[f[j]] = f[j]
    OBVIOUS
  <2>1. f[j] \in Values(gr) /\ f[j] < v
    BY GraphFacts
  <2>2. f[j] \in 1 .. x
    BY <2>1, GraphFacts DEF x
  <2> QED
    BY <1>1, <2>2
<1>5. Renumber(gr.nodes[v], m) = gr.nodes[v]
  BY <1>3, <1>4, RenumberNothing DEF f
<1> QED
  BY <1>1, <1>2, <1>5 DEF x

(* Rebuilding a graph from its own nodes.                                  *)
LEMMA RebuiltAsItWas ==
  ASSUME NEW gr, Sound(gr), IsGraph(gr), NEW nodes, nodes = gr.nodes,
         NEW m, \A v \in Values(gr) : m[v] = v, NEW h, Rebuilt(gr, nodes, m, h)
  PROVE  h = gr
<1> DEFINE o == gr.outputs
<1>2. \A j \in DOMAIN o : o[j] = [signal |-> o[j].signal, value |-> m[o[j].value]]
  <2> SUFFICES ASSUME NEW j \in DOMAIN o
               PROVE  o[j] = [signal |-> o[j].signal, value |-> m[o[j].value]]
    OBVIOUS
  <2>1. o[j] \in [signal : Nat, value : Nat] /\ o[j].value \in Values(gr)
    BY OutputFacts DEF Sound
  <2>2. m[o[j].value] = o[j].value
    BY <2>1
  <2> HIDE DEF o
  <2> QED
    BY <2>1, <2>2
<1>3. o = [j \in DOMAIN o |-> o[j]]
  BY DEF IsGraph
<1>4. h.outputs = [j \in DOMAIN o |-> [signal |-> o[j].signal, value |-> m[o[j].value]]]
  BY DEF Rebuilt
<1>5. h.outputs = o
  <2> DEFINE c(j) == [signal |-> o[j].signal, value |-> m[o[j].value]]
  <2>1. \A j \in DOMAIN o : o[j] = c(j)
    BY <1>2
  <2>2. h.outputs = [j \in DOMAIN o |-> c(j)]
    BY <1>4
  <2> HIDE DEF c, o
  <2> QED
    BY <1>3, <2>1, <2>2
<1>6. /\ h.nodes = gr.nodes /\ h.sites = gr.sites /\ h.public = gr.public
      /\ h.numOutputs = gr.numOutputs /\ h.numInputs = gr.numInputs /\ h.witness = gr.witness
      /\ h = [nodes |-> h.nodes, outputs |-> h.outputs, sites |-> h.sites, public |-> h.public,
              numOutputs |-> h.numOutputs, numInputs |-> h.numInputs, witness |-> h.witness]
  BY DEF Rebuilt
<1>7. gr = [nodes |-> gr.nodes, outputs |-> gr.outputs, sites |-> gr.sites, public |-> gr.public,
            numOutputs |-> gr.numOutputs, numInputs |-> gr.numInputs, witness |-> gr.witness]
  BY DEF IsGraph
<1> QED
  BY <1>5, <1>6, <1>7

(* A pass that kept everything.                                            *)
LEMMA KeptEverything ==
  ASSUME NEW gr, Sound(gr), IsGraph(gr), NEW pass \in RewritingPasses, NEW em, NEW m,
         Course(pass, gr, em, m), \A v \in Values(gr) : Keeps(pass, gr, em, m, v)
  PROVE  NewGraph(gr, em, m) = gr /\ Len(em[Len(gr.nodes)]) = Len(gr.nodes)
<1> DEFINE N == Len(gr.nodes)
<1>0. N \in Nat /\ Values(gr) = 1 .. N /\ DOMAIN gr.nodes = 1 .. N
  BY GraphFacts
<1> HIDE DEF N
<1>1. N \in 0 .. N /\ \A u \in 1 .. N : Keeps(pass, gr, em, m, u)
  BY <1>0
<1>2. Len(em[N]) = N /\ \A u \in 1 .. N : m[u] = u /\ em[N][u] = gr.nodes[u]
  BY <1>1, KeptSoFar DEF N
<1>3. em[N] \in Seq(NodeType) /\ gr.nodes \in Seq(NodeType)
  <2>1. em[N] \in Seq(NodeType)
    BY <1>1, CourseGrows DEF N
  <2> QED
    BY <2>1 DEF Sound, WellTyped, NodeType
<1>4. em[N] = gr.nodes
  <2>1. DOMAIN em[N] = 1 .. N
    BY <1>0, <1>2, <1>3, LenProperties
  <2> QED
    BY <1>0, <1>2, <1>3, <2>1
<1>5. RebuildNodes(gr, em[N], m) = gr
  <2>1. Rebuilt(gr, em[N], m, RebuildNodes(gr, em[N], m))
    BY RebuildFacts
  <2> QED
    BY <1>0, <1>2, <1>4, <2>1, RebuiltAsItWas
<1> QED
  BY <1>2, <1>5 DEF NewGraph, N

LEMMA StaysKeeps ==
  ASSUME NEW gr, Sound(gr), NEW pass \in RewritingPasses, NEW em, NEW m, Course(pass, gr, em, m)
  PROVE  Stays(pass, gr, em, m) <=> \A v \in Values(gr) : Keeps(pass, gr, em, m, v)
<1>1. ASSUME NEW v \in Values(gr), Keeps(pass, gr, em, m, v)
      PROVE  Quiet(Answer(pass, gr, em, m, v))
  BY <1>1 DEF Keeps, Keep, Quiet
<1>2. ASSUME NEW v \in Values(gr), Quiet(Answer(pass, gr, em, m, v))
      PROVE  Keeps(pass, gr, em, m, v)
  <2>1. Answer(pass, gr, em, m, v).tag = "Emit" /\ ~ Answer(pass, gr, em, m, v).changes
    BY <1>2 DEF Quiet
  <2>2. \A t : ReplaceWith(t).tag = "ReplaceWith"
    BY DEF ReplaceWith
  <2>3. \A n : Emit(n).changes
    BY DEF Emit
  <2>4. \A q : EmitMany(q).changes
    BY DEF EmitMany
  <2> QED
    BY <2>1, <2>2, <2>3, <2>4, AnswerCases
<1>3. Stays(pass, gr, em, m) <=> \A v \in Values(gr) : Quiet(Answer(pass, gr, em, m, v))
  BY DEF Stays, Answer
<1> QED
  BY <1>1, <1>2, <1>3

(* If nothing has changed, nothing has.                                    *)
LEMMA SilentRewrite ==
  ASSUME NEW gr, Sound(gr), IsGraph(gr), NEW pass \in RewritingPasses,
         ~ Rewritten(pass, gr).changed
  PROVE  Rewritten(pass, gr).graph = gr
<1>1. PICK em, m :
        /\ Course(pass, gr, em, m)
        /\ Rewritten(pass, gr).graph = RebuildNodes(gr, em[Len(gr.nodes)], m)
        /\ Stays(pass, gr, em, m)
  BY RewritingCourse
<1>2. NewGraph(gr, em, m) = gr
  BY <1>1, StaysKeeps, KeptEverything
<1> QED
  BY <1>1, <1>2 DEF NewGraph

(* What a pass makes of a graph is a graph.                                *)
LEMMA RewrittenSound ==
  ASSUME NEW gr, Sound(gr), IsGraph(gr), NEW pass \in RewritingPasses
  PROVE  Sound(Rewritten(pass, gr).graph) /\ IsGraph(Rewritten(pass, gr).graph)
         /\ Rewritten(pass, gr).changed \in BOOLEAN
<1>1. PICK em, m :
        /\ Course(pass, gr, em, m)
        /\ Rewritten(pass, gr).graph = RebuildNodes(gr, em[Len(gr.nodes)], m)
        /\ Rewritten(pass, gr).changed \in BOOLEAN
  BY RewritingCourse
<1>2. Rewritten(pass, gr).graph = NewGraph(gr, em, m)
  BY <1>1 DEF NewGraph
<1> QED
  BY <1>1, <1>2, RewritingSound

-----------------------------------------------------------------------------
(* What the classical passes leave nothing to do about.                    *)

(* A node constant folding replaces.                                       *)
Foldable(n, nodes) ==
  /\ n.op \in ArithOps
  /\ \/ nodes[n.in[1]].op = "Constant" /\ nodes[n.in[2]].op = "Constant"
     \/ n.op = "Mul" /\ (Zero(n, nodes, 1, 0) \/ Zero(n, nodes, 2, 0))
     \/ n.op = "Add" /\ Zero(n, nodes, 1, 0)
     \/ n.op = "Mul" /\ Zero(n, nodes, 1, 1)
     \/ n.op \in {"Add", "Sub"} /\ Zero(n, nodes, 2, 0)
     \/ n.op = "Mul" /\ Zero(n, nodes, 2, 1)

Folded(gr)   == \A v \in Values(gr) : ~ Foldable(gr.nodes[v], gr.nodes)

Distinct(gr) ==
  \A v, w \in Values(gr) :
    /\ gr.nodes[v].op \in PureOps /\ gr.nodes[w].op \in PureOps
    /\ CseKey(gr.nodes[v]) = CseKey(gr.nodes[w])
    => v = w

LEMMA FoldsFoldable ==
  ASSUME NEW n, NEW emitted
  PROVE  FoldNode(n, emitted) = Keep(n) <=> ~ Foldable(n, emitted)
<1>1. \A c : Keep(n) # Emit(c) /\ Keep(n) # ReplaceWith(c)
  BY DEF Keep, Emit, ReplaceWith
<1>2. ASSUME n.op \notin ArithOps
      PROVE  FoldNode(n, emitted) = Keep(n) /\ ~ Foldable(n, emitted)
  BY <1>2 DEF FoldNode, Foldable
<1>3. ASSUME n.op \in ArithOps, Foldable(n, emitted)
      PROVE  FoldNode(n, emitted) # Keep(n)
  <2> QED
    BY <1>1, <1>3 DEF FoldNode, Foldable, Zero, ArithOps
<1>4. ASSUME n.op \in ArithOps, ~ Foldable(n, emitted)
      PROVE  FoldNode(n, emitted) = Keep(n)
  BY <1>4 DEF FoldNode, Foldable, Zero, ArithOps
<1> QED
  BY <1>2, <1>3, <1>4

(* Whether a node can be folded, and how it is looked up, depends on the   *)
(* operation and the payload of its operands.                              *)
Alike(n, nodes, k, others) ==
  /\ n.op = k.op
  /\ n.op \in ArithOps =>
       \A j \in {1, 2} : /\ nodes[n.in[j]].op = others[k.in[j]].op
                         /\ nodes[n.in[j]].arg = others[k.in[j]].arg

LEMMA FoldableLocal ==
  ASSUME NEW n, NEW nodes, NEW k, NEW others, Alike(n, nodes, k, others)
  PROVE  Foldable(n, nodes) <=> Foldable(k, others)
<1>1. CASE n.op \in ArithOps
  <2>1. /\ n.op = k.op
        /\ nodes[n.in[1]].op = others[k.in[1]].op /\ nodes[n.in[1]].arg = others[k.in[1]].arg
        /\ nodes[n.in[2]].op = others[k.in[2]].op /\ nodes[n.in[2]].arg = others[k.in[2]].arg
    BY <1>1 DEF Alike
  <2> QED
    BY <2>1 DEF Foldable, Zero
<1>2. CASE n.op \notin ArithOps
  BY <1>2 DEF Foldable, Alike
<1> QED
  BY <1>1, <1>2

(* The nodes of a list that is extended stay what they are.                *)
LEMMA FoldableBefore ==
  ASSUME NEW k \in Nat, NEW n, Placed(n, k), NEW nodes, NEW more,
         \A p \in 1 .. k : nodes[p] = more[p]
  PROVE  Foldable(n, nodes) <=> Foldable(n, more)
<1>1. n.op \in ArithOps => n.in[1] \in 1 .. k /\ n.in[2] \in 1 .. k
  BY ArityOfPlaced
<1>2. Alike(n, nodes, n, more)
  BY <1>1 DEF Alike
<1> QED
  BY <1>2, FoldableLocal

(* A node is placed after its operands.                                    *)
LEMMA PlacedNode ==
  ASSUME NEW gr, Sound(gr), NEW v \in Values(gr)
  PROVE  Placed(gr.nodes[v], v - 1)
<1>1. Len(gr.nodes[v].in) \in Arities(gr.nodes[v].op)
  BY DEF Sound, WellTyped, Values
<1>2. \A j \in DOMAIN gr.nodes[v].in : gr.nodes[v].in[j] \in 1 .. (v - 1)
  BY GraphFacts
<1>3. gr.nodes[v] \in NodeType
  BY NodeFacts
<1> QED
  BY <1>1, <1>2, <1>3 DEF Placed

(* Constant folding leaves nothing to fold.                                *)
LEMMA FoldLeavesFolded ==
  ASSUME NEW gr, Sound(gr), IsGraph(gr)
  PROVE  Folded(ConstFold(gr).graph)
<1> DEFINE pass == "fold"
<1>0. pass \in RewritingPasses /\ Rewritten(pass, gr) = ConstFold(gr)
  BY DEF RewritingPasses, Rewritten
<1>1. PICK em, m :
        /\ Course(pass, gr, em, m)
        /\ Rewritten(pass, gr).graph = RebuildNodes(gr, em[Len(gr.nodes)], m)
  BY <1>0, RewritingCourse
<1> DEFINE h == NewGraph(gr, em, m)
           N == Len(gr.nodes)
<1>2. ConstFold(gr).graph = h
  BY <1>0, <1>1 DEF NewGraph
<1> HIDE DEF h, pass
<1>3. /\ Values(h) = 1 .. Len(em[N]) /\ h.nodes = em[N]
      /\ \A p \in Values(h) : Placed(h.nodes[p], p - 1)
  BY <1>0, <1>1, NewShape DEF h
<1>4. ASSUME NEW p \in Values(h), h.nodes[p].op = "Constant"
      PROVE  ~ Foldable(h.nodes[p], h.nodes)
  BY <1>4 DEF Foldable, ArithOps
<1>5. ASSUME NEW p \in Values(h), NEW v \in Values(gr), Keeps(pass, gr, em, m, v), p = m[v]
      PROVE  ~ Foldable(h.nodes[p], h.nodes)
  <2> DEFINE n == Renumber(gr.nodes[v], m)
             k == Len(em[v - 1])
  <2>1. FoldNode(n, em[v - 1]) = Keep(n)
    BY <1>5 DEF Keeps, Answer, Decide, pass
  <2>2. ~ Foldable(n, em[v - 1])
    BY <2>1, FoldsFoldable
  <2>3. h.nodes[p] = n
    <3>1. InItsPlace(gr, em, m, v)
      BY <1>0, <1>1, <1>5, KeptPlace
    <3> QED
      BY <1>3, <1>5, <3>1 DEF InItsPlace
  <2>4. k \in Nat /\ \A x \in 1 .. k : em[v - 1][x] = em[N][x]
    BY <1>0, <1>1, ListFacts
  <2>5. Placed(n, k)
    BY <1>0, <1>1, AnswerFacts
  <2> DEFINE a == em[v - 1]
             b == em[N]
  <2>6. \A x \in 1 .. k : a[x] = b[x]
    BY <2>4
  <2> HIDE DEF n, k, a, b
  <2>7. Foldable(n, a) <=> Foldable(n, b)
    BY <2>4, <2>5, <2>6, FoldableBefore
  <2> QED
    BY <1>3, <2>2, <2>3, <2>7 DEF a, b
<1>6. ASSUME NEW p \in Values(h)
      PROVE  ~ Foldable(h.nodes[p], h.nodes)
  <2>1. p \in 1 .. Len(em[Len(gr.nodes)])
    BY <1>3
  <2>2. \/ \E v \in Values(gr) : Keeps(pass, gr, em, m, v) /\ p = m[v]
        \/ em[Len(gr.nodes)][p].op = "Constant"
    <3>1. pass # "split"
      BY DEF pass
    <3> QED
      BY <1>0, <1>1, <2>1, <3>1, Origins
  <2> QED
    BY <1>3, <1>4, <1>5, <2>2
<1>7. Folded(h)
  BY <1>6 DEF Folded
<1> QED
  BY <1>2, <1>7

(* Then folding again changes nothing.                                     *)
LEMMA FoldedStays ==
  ASSUME NEW gr, Sound(gr), IsGraph(gr), Folded(gr)
  PROVE  ConstFold(gr).graph = gr /\ ~ ConstFold(gr).changed
<1> DEFINE pass == "fold"
<1>0. pass \in RewritingPasses /\ Rewritten(pass, gr) = ConstFold(gr)
  BY DEF RewritingPasses, Rewritten
<1>1. PICK em, m :
        /\ Course(pass, gr, em, m)
        /\ Rewritten(pass, gr).graph = RebuildNodes(gr, em[Len(gr.nodes)], m)
        /\ Stays(pass, gr, em, m) /\ Len(em[Len(gr.nodes)]) = Len(gr.nodes) =>
             ~ Rewritten(pass, gr).changed
  BY <1>0, RewritingCourse
<1> DEFINE T == {v \in Values(gr) : ~ Keeps(pass, gr, em, m, v)}
<1>2. T = {}
  <2> SUFFICES ASSUME T # {} PROVE FALSE
    OBVIOUS
  <2>1. T \in SUBSET Nat
    BY GraphFacts
  <2>2. PICK v \in T : \A u \in T : v <= u
    BY <2>1, LeastElement
  <2>3. v \in Values(gr) /\ v \in Nat
    BY <2>1
  <2>4. \A u \in 1 .. (v - 1) : Keeps(pass, gr, em, m, u)
    BY <2>2, <2>3, GraphFacts
  <2>5. /\ Renumber(gr.nodes[v], m) = gr.nodes[v]
        /\ \A u \in 1 .. (v - 1) : em[v - 1][u] = gr.nodes[u]
    BY <1>0, <1>1, <2>3, <2>4, NextUnchanged
  <2>6. Placed(gr.nodes[v], v - 1)
    BY <2>3, PlacedNode
  <2>7. ~ Foldable(gr.nodes[v], gr.nodes)
    BY <2>3 DEF Folded
  <2>8. ~ Foldable(gr.nodes[v], em[v - 1])
    <3> DEFINE k == v - 1
               a == em[v - 1]
               b == gr.nodes
               n == gr.nodes[v]
    <3>1. k \in Nat /\ Placed(n, k) /\ (\A u \in 1 .. k : a[u] = b[u]) /\ ~ Foldable(n, b)
      BY <2>3, <2>5, <2>6, <2>7, GraphFacts
    <3> HIDE DEF k, a, b, n
    <3>2. ~ Foldable(n, a)
      BY <3>1, FoldableBefore
    <3> QED
      BY <3>2 DEF a, n
  <2>9. FoldNode(gr.nodes[v], em[v - 1]) = Keep(gr.nodes[v])
    BY <2>8, FoldsFoldable
  <2>10. Keeps(pass, gr, em, m, v)
    BY <2>5, <2>9 DEF Keeps, Answer, Decide
  <2> QED
    BY <2>2, <2>10
<1> HIDE DEF pass
<1>3. \A v \in Values(gr) : Keeps(pass, gr, em, m, v)
  BY <1>2
<1>4. NewGraph(gr, em, m) = gr /\ Len(em[Len(gr.nodes)]) = Len(gr.nodes)
  BY <1>0, <1>1, <1>3, KeptEverything
<1>5. Stays(pass, gr, em, m)
  BY <1>0, <1>1, <1>3, StaysKeeps
<1> QED
  BY <1>0, <1>1, <1>4, <1>5 DEF NewGraph

(* Merging: nodes of one key.                                              *)
LEMMA SameKeyAlike ==
  ASSUME NEW n, NEW k, CseKey(n) = CseKey(k)
  PROVE  n.op = k.op /\ n.arg = k.arg
BY DEF CseKey

LEMMA MergedCases ==
  ASSUME NEW gr, Sound(gr), NEW pass, pass = "cse", NEW em, NEW m, Course(pass, gr, em, m),
         NEW v \in Values(gr), NEW n, n = Renumber(gr.nodes[v], m)
  PROVE  \/ /\ Keeps(pass, gr, em, m, v)
            /\ n.op \notin PureOps \/ Same(n, em[v - 1]) = {}
         \/ /\ ~ Keeps(pass, gr, em, m, v)
            /\ n.op \in PureOps
            /\ \E t \in Same(n, em[v - 1]) : Answer(pass, gr, em, m, v) = ReplaceWith(t)
<1>1. Answer(pass, gr, em, m, v) = CseNode(n, em[v - 1])
  BY DEF Answer, Decide
<1>2. DOMAIN em[v - 1] \in SUBSET Nat
  <2>1. pass \in RewritingPasses
    BY DEF RewritingPasses
  <2>2. DOMAIN em[v - 1] = 1 .. Len(em[v - 1])
    BY <2>1, ListFacts
  <2> QED
    BY <2>2
<1>3. \/ /\ CseNode(n, em[v - 1]) = Keep(n)
         /\ n.op \notin PureOps \/ Same(n, em[v - 1]) = {}
      \/ \E t \in Same(n, em[v - 1]) : n.op \in PureOps /\ CseNode(n, em[v - 1]) = ReplaceWith(t)
  BY <1>2, CseAnswers
<1>4. \A t : ReplaceWith(t) # Keep(n)
  BY DEF ReplaceWith, Keep
<1>5. Keeps(pass, gr, em, m, v) <=> Answer(pass, gr, em, m, v) = Keep(n)
  BY DEF Keeps
<1> QED
  BY <1>1, <1>3, <1>4, <1>5

(* A value that is merged goes to a node that says the same.               *)
MergedAt(gr, h, m, v) ==
  /\ m[v] \in Values(h)
  /\ h.nodes[m[v]].op = gr.nodes[v].op /\ h.nodes[m[v]].arg = gr.nodes[v].arg

LEMMA MergedAlike ==
  ASSUME NEW gr, Sound(gr), IsGraph(gr), NEW pass, pass = "cse", NEW em, NEW m,
         Course(pass, gr, em, m), NEW h, h = NewGraph(gr, em, m), NEW v \in Values(gr)
  PROVE  MergedAt(gr, h, m, v)
<1> DEFINE n == Renumber(gr.nodes[v], m)
<1>0. pass \in RewritingPasses
  BY DEF RewritingPasses
<1>1. n.op = gr.nodes[v].op /\ n.arg = gr.nodes[v].arg
  BY NodeFacts, RenumberFacts
<1>2. CASE Keeps(pass, gr, em, m, v)
  <2>1. KeptAt(gr, h, m, v)
    BY <1>0, <1>2, KeptInPlace
  <2> QED
    BY <2>1 DEF KeptAt, MergedAt
<1>3. CASE ~ Keeps(pass, gr, em, m, v)
  <2>1. PICK t \in Same(n, em[v - 1]) : Answer(pass, gr, em, m, v) = ReplaceWith(t)
    BY <1>3, MergedCases
  <2>2. m[v] = t /\ t \in 1 .. Len(em[v - 1])
    BY <1>0, <2>1, ReplaceFacts
  <2>3. CseKey(em[v - 1][t]) = CseKey(n)
    BY <2>1 DEF Same
  <2>4. em[v - 1][t] = em[Len(gr.nodes)][t] /\ m[v] \in 1 .. Len(em[Len(gr.nodes)])
    BY <1>0, <2>2, ListFacts
  <2>5. h.nodes[t] = em[v - 1][t] /\ m[v] \in Values(h)
    BY <1>0, <2>4, NewShape
  <2> HIDE DEF n
  <2>6. h.nodes[t].op = n.op /\ h.nodes[t].arg = n.arg
    BY <2>3, <2>5, SameKeyAlike
  <2> QED
    BY <1>1, <2>2, <2>5, <2>6 DEF MergedAt
<1> QED
  BY <1>2, <1>3

(* Merging leaves nothing to merge, and nothing to fold.                   *)
LEMMA MergeLeavesDistinct ==
  ASSUME NEW gr, Sound(gr), IsGraph(gr)
  PROVE  Distinct(Cse(gr).graph) /\ (Folded(gr) => Folded(Cse(gr).graph))
<1> DEFINE pass == "cse"
<1>0. pass \in RewritingPasses /\ Rewritten(pass, gr) = Cse(gr) /\ Fresh(pass) = {} /\ pass = "cse"
  BY DEF RewritingPasses, Rewritten, Fresh
<1> HIDE DEF pass
<1>1. PICK em, m :
        /\ Course(pass, gr, em, m)
        /\ Rewritten(pass, gr).graph = RebuildNodes(gr, em[Len(gr.nodes)], m)
  BY <1>0, RewritingCourse
<1> DEFINE h == NewGraph(gr, em, m)
           N == Len(gr.nodes)
<1>2. Cse(gr).graph = h
  BY <1>0, <1>1 DEF NewGraph
<1> HIDE DEF h
<1>3. /\ Values(h) = 1 .. Len(em[N]) /\ h.nodes = em[N] /\ Len(em[N]) \in Nat
  BY <1>0, <1>1, NewShape DEF h
<1>4. \A p \in Values(h) :
        \E v \in Values(gr) : Keeps(pass, gr, em, m, v) /\ p = m[v] /\ KeptAt(gr, h, m, v)
  BY <1>0, <1>1, OldNode DEF h
<1>5. ASSUME NEW p \in Values(h), NEW q \in Values(h), p < q,
             h.nodes[p].op \in PureOps, h.nodes[q].op \in PureOps,
             CseKey(h.nodes[p]) = CseKey(h.nodes[q])
      PROVE  FALSE
  <2>1. PICK v \in Values(gr) : Keeps(pass, gr, em, m, v) /\ q = m[v]
    BY <1>4
  <2> DEFINE n == Renumber(gr.nodes[v], m)
             a == em[v - 1]
  <2>2. InItsPlace(gr, em, m, v)
    BY <1>0, <1>1, <2>1, KeptPlace
  <2>3. h.nodes[q] = n
    BY <1>3, <2>1, <2>2 DEF InItsPlace
  <2>4. Len(a) \in Nat /\ DOMAIN a = 1 .. Len(a) /\ \A x \in 1 .. Len(a) : a[x] = em[N][x]
    BY <1>0, <1>1, ListFacts
  <2>5. p \in DOMAIN a
    <3>1. q = Len(a) + 1
      BY <2>1, <2>2 DEF InItsPlace
    <3> QED
      BY <1>3, <1>5, <2>4, <3>1
  <2>6. a[p] = h.nodes[p]
    BY <1>3, <2>4, <2>5
  <2>7. n.op \notin PureOps \/ Same(n, a) = {}
    BY <1>0, <1>1, <2>1, MergedCases
  <2> HIDE DEF n, a
  <2>8. p \in Same(n, a)
    BY <1>5, <2>3, <2>5, <2>6 DEF Same
  <2> QED
    BY <1>5, <2>3, <2>7, <2>8
<1>6. Distinct(h)
  <2> SUFFICES ASSUME NEW p \in Values(h), NEW q \in Values(h), p # q,
                      h.nodes[p].op \in PureOps, h.nodes[q].op \in PureOps,
                      CseKey(h.nodes[p]) = CseKey(h.nodes[q])
               PROVE  FALSE
    BY DEF Distinct
  <2>1. CASE p < q
    BY <1>5, <2>1
  <2>2. CASE q < p
    BY <1>5, <2>2
  <2> QED
    BY <1>3, <2>1, <2>2
<1>7. ASSUME Folded(gr), NEW p \in Values(h)
      PROVE  ~ Foldable(h.nodes[p], h.nodes)
  <2>1. PICK v \in Values(gr) : p = m[v] /\ KeptAt(gr, h, m, v)
    BY <1>4
  <2> DEFINE n == gr.nodes[v]
             k == h.nodes[p]
  <2>2. n.op = k.op /\ DOMAIN n.in = DOMAIN k.in /\ \A j \in DOMAIN n.in : k.in[j] = m[n.in[j]]
    BY SMTT(20), <2>1 DEF KeptAt
  <2>3. ASSUME n.op \in ArithOps, NEW j \in {1, 2}
        PROVE  /\ gr.nodes[n.in[j]].op = h.nodes[k.in[j]].op
               /\ gr.nodes[n.in[j]].arg = h.nodes[k.in[j]].arg
    <3>1. j \in DOMAIN n.in /\ n.in[j] \in Values(gr)
      BY <2>3, ArityFacts, GraphFacts
    <3>2. MergedAt(gr, h, m, n.in[j])
      BY <1>0, <1>1, <3>1, MergedAlike DEF h
    <3> QED
      BY <2>2, <3>1, <3>2 DEF MergedAt
  <2> HIDE DEF n, k
  <2>4. Alike(n, gr.nodes, k, h.nodes)
    BY <2>2, <2>3 DEF Alike
  <2>5. ~ Foldable(n, gr.nodes)
    BY <1>7 DEF Folded, n
  <2>6. ~ Foldable(k, h.nodes)
    BY <2>4, <2>5, FoldableLocal
  <2> QED
    BY <2>6 DEF k
<1> QED
  BY <1>2, <1>6, <1>7 DEF Folded

LEMMA DistinctStays ==
  ASSUME NEW gr, Sound(gr), IsGraph(gr), Distinct(gr)
  PROVE  Cse(gr).graph = gr /\ ~ Cse(gr).changed
<1> DEFINE pass == "cse"
<1>0. pass \in RewritingPasses /\ Rewritten(pass, gr) = Cse(gr) /\ pass = "cse"
  BY DEF RewritingPasses, Rewritten
<1> HIDE DEF pass
<1>1. PICK em, m :
        /\ Course(pass, gr, em, m)
        /\ Rewritten(pass, gr).graph = RebuildNodes(gr, em[Len(gr.nodes)], m)
        /\ Stays(pass, gr, em, m) /\ Len(em[Len(gr.nodes)]) = Len(gr.nodes) =>
             ~ Rewritten(pass, gr).changed
  BY <1>0, RewritingCourse
<1> DEFINE T == {v \in Values(gr) : ~ Keeps(pass, gr, em, m, v)}
<1>2. T = {}
  <2> SUFFICES ASSUME T # {} PROVE FALSE
    OBVIOUS
  <2>1. T \in SUBSET Nat
    BY GraphFacts
  <2>2. PICK v \in T : \A u \in T : v <= u
    BY <2>1, LeastElement
  <2>3. v \in Values(gr) /\ v \in Nat
    BY <2>1
  <2>4. \A u \in 1 .. (v - 1) : Keeps(pass, gr, em, m, u)
    BY <2>2, <2>3, GraphFacts
  <2> DEFINE n == gr.nodes[v]
             a == em[v - 1]
  <2>5. Renumber(n, m) = n /\ DOMAIN a = 1 .. (v - 1) /\ \A u \in 1 .. (v - 1) : a[u] = gr.nodes[u]
    BY <1>0, <1>1, <2>3, <2>4, NextUnchanged
  <2>6. ~ Keeps(pass, gr, em, m, v)
    BY <2>2
  <2>7. n.op \in PureOps /\ \E t : t \in Same(n, a)
    BY <1>0, <1>1, <2>3, <2>5, <2>6, MergedCases, SMTT(40)
  <2>8. PICK t : t \in Same(n, a)
    BY <2>7
  <2>9. t \in 1 .. (v - 1) /\ gr.nodes[t].op \in PureOps /\ CseKey(gr.nodes[t]) = CseKey(n)
    BY <2>5, <2>8 DEF Same
  <2>10. t \in Values(gr) /\ t < v
    BY <2>3, <2>9, GraphFacts
  <2>11. t = v
    BY <2>3, <2>7, <2>9, <2>10 DEF Distinct
  <2> QED
    BY <2>3, <2>10, <2>11
<1>3. \A v \in Values(gr) : Keeps(pass, gr, em, m, v)
  BY <1>2
<1>4. NewGraph(gr, em, m) = gr /\ Len(em[Len(gr.nodes)]) = Len(gr.nodes)
  BY <1>0, <1>1, <1>3, KeptEverything
<1>5. Stays(pass, gr, em, m)
  BY <1>0, <1>1, <1>3, StaysKeeps
<1> QED
  BY <1>0, <1>1, <1>4, <1>5 DEF NewGraph

-----------------------------------------------------------------------------
(* Dead code.                                                              *)

(* A graph with the nodes and the sites of another one.                    *)
LEMMA SameNodesSound ==
  ASSUME NEW gr, Sound(gr), NEW h, h.nodes = gr.nodes, h.sites = gr.sites,
         \A j \in DOMAIN h.outputs : h.outputs[j].value \in Values(gr)
  PROVE  Sound(h)
<1>1. Values(h) = Values(gr) /\ \A v : InputsOf(h, v) = InputsOf(gr, v)
  BY DEF Values, InputsOf
<1>2. \A op : NodesOf(h, op) = NodesOf(gr, op)
  BY <1>1 DEF NodesOf
<1>3. WellTyped(h)
  BY <1>1 DEF Sound, WellTyped, Values
<1>4. Topological(h)
  BY <1>1 DEF Sound, Topological
<1>5. WellFormed(h)
  BY <1>1, <1>2 DEF Sound, WellFormed
<1> QED
  BY <1>3, <1>4, <1>5 DEF Sound

(* The outputs that reach the witness.                                     *)
LiveOutputs(gr) ==
  IF gr.witness = <<>> THEN DOMAIN gr.outputs
  ELSE {j \in DOMAIN gr.outputs : gr.outputs[j].signal + 1 \in ToSet(gr.witness)}

Pruned(gr) ==
  [gr EXCEPT !.outputs = [p \in DOMAIN Ascending(LiveOutputs(gr)) |->
                            gr.outputs[Ascending(LiveOutputs(gr))[p]]]]

(* The graph with the outputs at the positions l only.                     *)
PrunedTo(gr, h, l) ==
  /\ h.nodes = gr.nodes /\ h.sites = gr.sites /\ h.public = gr.public
  /\ h.numOutputs = gr.numOutputs /\ h.numInputs = gr.numInputs /\ h.witness = gr.witness
  /\ Rises(LiveOutputs(gr), l) /\ DOMAIN h.outputs = DOMAIN l
  /\ \A p \in DOMAIN l : l[p] \in LiveOutputs(gr) /\ h.outputs[p] = gr.outputs[l[p]]
  /\ h.outputs = gr.outputs => h = gr

LEMMA PrunedFacts ==
  ASSUME NEW gr, Sound(gr), IsGraph(gr), NEW h, h = Pruned(gr)
  PROVE  /\ Sound(h) /\ IsGraph(h) /\ \E l : PrunedTo(gr, h, l)
         /\ LiveOutputs(gr) = DOMAIN gr.outputs => h = gr
<1> DEFINE L == LiveOutputs(gr)
           l == Ascending(L)
           o(p) == gr.outputs[l[p]]
           out == [p \in DOMAIN l |-> o(p)]
<1>1. Len(gr.outputs) \in Nat /\ DOMAIN gr.outputs = 1 .. Len(gr.outputs)
      /\ \A j \in DOMAIN gr.outputs :
           gr.outputs[j] \in [signal : Nat, value : Nat] /\ gr.outputs[j].value \in Values(gr)
  BY OutputFacts DEF Sound
<1>2. L \subseteq DOMAIN gr.outputs
  BY DEF LiveOutputs
<1> HIDE DEF L
<1>3. L \in SUBSET Nat /\ IsFiniteSet(L) /\ Cardinality(L) \in Nat
  <2>1. IsFiniteSet(1 .. Len(gr.outputs))
    BY <1>1, FS_Interval
  <2>2. IsFiniteSet(L)
    BY <1>1, <1>2, <2>1, FS_Subset
  <2> QED
    BY <1>1, <1>2, <2>2, FS_CardinalityType
<1>4. Rises(L, l)
  BY <1>3, AscendingFacts
<1> HIDE DEF l
<1>5. DOMAIN l = 1 .. Cardinality(L) /\ \A p \in DOMAIN l : l[p] \in L
  BY <1>4 DEF Rises, Lists
<1>6. h = [gr EXCEPT !.outputs = out]
  BY DEF Pruned, L, l
<1> HIDE DEF out
<1>7. /\ h.nodes = gr.nodes /\ h.sites = gr.sites /\ h.public = gr.public
      /\ h.numOutputs = gr.numOutputs /\ h.numInputs = gr.numInputs /\ h.witness = gr.witness
      /\ h.outputs = out
      /\ h = [nodes |-> h.nodes, outputs |-> h.outputs, sites |-> h.sites, public |-> h.public,
              numOutputs |-> h.numOutputs, numInputs |-> h.numInputs, witness |-> h.witness]
  BY <1>6 DEF IsGraph
<1>8. /\ DOMAIN out = DOMAIN l
      /\ \A p \in DOMAIN l : out[p] = gr.outputs[l[p]]
  BY DEF out
<1>9. out \in Seq([signal : Nat, value : Nat])
  <2> DEFINE O == [signal : Nat, value : Nat]
  <2>1. \A p \in 1 .. Cardinality(L) : o(p) \in O
    BY <1>1, <1>2, <1>5
  <2>2. out = [p \in 1 .. Cardinality(L) |-> o(p)]
    BY <1>5 DEF out
  <2> HIDE DEF O, o
  <2>3. out \in Seq(O)
    BY <1>3, <2>1, <2>2
  <2> QED
    BY <2>3 DEF O
<1>10. IsGraph(h)
  BY <1>7, <1>9 DEF IsGraph
<1>11. \A j \in DOMAIN h.outputs : h.outputs[j].value \in Values(gr)
  BY <1>1, <1>2, <1>5, <1>7, <1>8
<1>12. Sound(h)
  BY <1>7, <1>11, SameNodesSound
<1>13. h.outputs = gr.outputs => h = gr
  BY <1>7 DEF IsGraph
<1>14. PrunedTo(gr, h, l)
  BY <1>4, <1>5, <1>7, <1>8, <1>13 DEF PrunedTo, L
<1>15. ASSUME L = DOMAIN gr.outputs
       PROVE  h = gr
  <2>1. \A p \in 1 .. Len(gr.outputs) : l[p] = p
    BY <1>1, <1>4, <1>15 DEF Rises
  <2>2. Cardinality(L) = Len(gr.outputs)
    <3>1. Cardinality(1 .. Len(gr.outputs)) = Len(gr.outputs)
      BY <1>1, FS_Interval
    <3> QED
      BY <1>1, <1>15, <3>1
  <2>3. gr.outputs = [p \in 1 .. Len(gr.outputs) |-> gr.outputs[p]]
    BY <1>1 DEF IsGraph
  <2>4. out = gr.outputs
    BY <1>5, <1>8, <2>1, <2>2, <2>3 DEF out
  <2> QED
    BY <1>7, <1>13, <2>4
<1> QED
  BY <1>10, <1>12, <1>14, <1>15 DEF L

(* What gc makes of a graph.                                               *)
Collected(gr, h, K, layout, place) ==
  Swept(gr, K) /\ Rises(K, layout) /\ Moved(gr, h, K, layout, place)

LEMMA GcFacts ==
  ASSUME NEW gr, Sound(gr), IsGraph(gr), NEW h, h = Gc(gr)
  PROVE  Sound(h) /\ IsGraph(h) /\ \E K, layout, place : Collected(gr, h, K, layout, place)
<1>1. PICK K : Swept(gr, K) /\ Gc(gr) = Relayout(gr, Ascending(K))
  BY SweepFacts
<1> DEFINE l == Ascending(K)
<1>2. /\ Len(gr.nodes) \in Nat /\ Values(gr) = 1 .. Len(gr.nodes) /\ K \subseteq Values(gr)
  BY <1>1, GraphFacts DEF Swept
<1>3. K \in SUBSET Nat /\ IsFiniteSet(K)
  <2>1. IsFiniteSet(1 .. Len(gr.nodes))
    BY <1>2, FS_Interval
  <2> QED
    BY <1>2, <2>1, FS_Subset
<1>4. Rises(K, l)
  BY <1>3, AscendingFacts
<1> HIDE DEF l
<1>5. Lists(l, K) /\ \A p, q \in DOMAIN l : l[p] \in K /\ (l[p] < l[q] <=> p < q)
  BY <1>4 DEF Rises, Lists
<1>6. Orderly(gr, K, l)
  <2>1. \A p, q \in DOMAIN l : l[q] \in InputsOf(gr, l[p]) => q < p
    <3> SUFFICES ASSUME NEW p \in DOMAIN l, NEW q \in DOMAIN l, l[q] \in InputsOf(gr, l[p])
                 PROVE  q < p
      OBVIOUS
    <3>1. l[p] \in Values(gr)
      BY <1>2, <1>5
    <3>2. l[q] < l[p]
      BY <3>1, OperandFacts
    <3> QED
      BY <1>5, <3>2
  <2>2. \A j \in DOMAIN gr.outputs : gr.outputs[j].value \in K
    BY <1>1 DEF Swept, Roots
  <2>3. NodesOf(gr, "Gadget") \subseteq K
    BY <1>1 DEF Swept, Roots
  <2>4. \A v \in K : InputsOf(gr, v) \subseteq K
    BY <1>1 DEF Swept
  <2> QED
    BY <1>2, <1>5, <2>1, <2>2, <2>3, <2>4 DEF Orderly
<1>7. h = Relayout(gr, l)
  BY <1>1 DEF l
<1>8. Sound(h) /\ IsGraph(h) /\ \E place : Moved(gr, h, K, l, place)
  BY <1>6, <1>7, RelayoutMoves
<1> QED
  BY <1>1, <1>4, <1>8 DEF Collected

(* If gc dropped nothing, nothing has changed.                             *)
LEMMA NothingCollected ==
  ASSUME NEW gr, Sound(gr), IsGraph(gr), NEW h, NEW K, NEW layout, NEW place,
         Collected(gr, h, K, layout, place)
  PROVE  Len(h.nodes) = Len(gr.nodes) <=> K = Values(gr)
<1>1. Values(gr) = 1 .. Len(gr.nodes) /\ Len(gr.nodes) \in Nat
  BY GraphFacts
<1>2. Len(h.nodes) = Cardinality(K) /\ K \subseteq Values(gr)
  BY DEF Collected, Moved, Swept
<1>3. IsFiniteSet(Values(gr)) /\ Cardinality(Values(gr)) = Len(gr.nodes)
  <2>1. IsFiniteSet(1 .. Len(gr.nodes)) /\ Cardinality(1 .. Len(gr.nodes)) = Len(gr.nodes)
    BY <1>1, FS_Interval
  <2> QED
    BY <1>1, <2>1
<1> QED
  BY <1>2, <1>3, FS_Subset

LEMMA AllCollected ==
  ASSUME NEW gr, Sound(gr), IsGraph(gr), NEW h, Sound(h), NEW K, NEW layout, NEW place,
         Collected(gr, h, K, layout, place), K = Values(gr)
  PROVE  h = gr
<1>0. Values(gr) = 1 .. Len(gr.nodes) /\ Len(gr.nodes) \in Nat /\ DOMAIN gr.nodes = 1 .. Len(gr.nodes)
  BY GraphFacts
<1>1. \A p \in 1 .. Len(gr.nodes) : layout[p] = p
  BY <1>0 DEF Collected, Rises
<1>2. \A v \in Values(gr) : /\ KeptAt(gr, h, place, v)
                            /\ h.nodes[place[v]] = Renumber(gr.nodes[v], place)
                            /\ layout[place[v]] = v
  BY DEF Collected, Moved
<1>3. Rebuilt(gr, h.nodes, place, h) /\ Values(h) = DOMAIN layout /\ Values(h) = 1 .. Cardinality(K)
      /\ \A p \in Values(h) : place[layout[p]] = p
  BY DEF Collected, Moved
<1>4. Values(h) = Values(gr)
  <2> DEFINE N == Len(gr.nodes)
  <2>1. N \in Nat /\ K = 1 .. N
    BY <1>0
  <2> HIDE DEF N
  <2>2. Cardinality(1 .. N) = N
    BY <2>1, FS_Interval
  <2> QED
    BY <1>3, <2>1, <2>2
<1>5. \A v \in Values(gr) : place[v] = v
  BY <1>0, <1>1, <1>3, <1>4
<1>6. \A v \in Values(gr) : h.nodes[v] = gr.nodes[v]
  <2> SUFFICES ASSUME NEW v \in Values(gr)
               PROVE  h.nodes[v] = gr.nodes[v]
    OBVIOUS
  <2>1. gr.nodes[v] \in NodeType
    BY NodeFacts
  <2>2. \A j \in DOMAIN gr.nodes[v].in : place[gr.nodes[v].in[j]] = gr.nodes[v].in[j]
    BY <1>5, GraphFacts
  <2>3. Renumber(gr.nodes[v], place) = gr.nodes[v]
    BY <2>1, <2>2, RenumberNothing
  <2> QED
    BY <1>2, <1>5, <2>3
<1>7. h.nodes = gr.nodes
  <2>1. gr.nodes \in Seq(NodeType) /\ h.nodes \in Seq(NodeType)
    BY DEF Sound, WellTyped, NodeType
  <2>2. DOMAIN h.nodes = DOMAIN gr.nodes
    BY <1>4 DEF Values
  <2>3. \A v \in DOMAIN gr.nodes : h.nodes[v] = gr.nodes[v]
    BY <1>6 DEF Values
  <2> QED
    BY <2>1, <2>2, <2>3
<1> QED
  BY <1>3, <1>5, <1>7, RebuiltAsItWas

(* Dead code elimination prunes the outputs, then collects garbage.        *)
Cleaned(gr, c, q, K, layout, place) ==
  /\ q = Pruned(gr) /\ Sound(q) /\ IsGraph(q) /\ \E l : PrunedTo(gr, q, l)
  /\ LiveOutputs(gr) = DOMAIN gr.outputs => q = gr
  /\ Sound(c.graph) /\ IsGraph(c.graph)
  /\ Collected(q, c.graph, K, layout, place)
  /\ c.changed \in BOOLEAN
  /\ ~ c.changed <=> q.outputs = gr.outputs /\ Len(c.graph.nodes) = Len(gr.nodes)

LEMMA DeadCodeFacts ==
  ASSUME NEW gr, Sound(gr), IsGraph(gr), NEW c, c = DeadCode(gr)
  PROVE  \E q, K, layout, place : Cleaned(gr, c, q, K, layout, place)
<1> DEFINE q == Pruned(gr)
<1>1. /\ c.graph = Gc(q)
      /\ c.changed = (q.outputs # gr.outputs \/ Len(c.graph.nodes) # Len(gr.nodes))
  BY Zenon DEF DeadCode, Pruned, LiveOutputs
<1> HIDE DEF q
<1>2. q = Pruned(gr)
  BY DEF q
<1>3. /\ Sound(q) /\ IsGraph(q) /\ \E l : PrunedTo(gr, q, l)
      /\ LiveOutputs(gr) = DOMAIN gr.outputs => q = gr
  BY <1>2, PrunedFacts
<1>4. Sound(c.graph) /\ IsGraph(c.graph)
      /\ \E K, layout, place : Collected(q, c.graph, K, layout, place)
  BY <1>1, <1>3, GcFacts
<1> QED
  BY Zenon, <1>1, <1>2, <1>3, <1>4 DEF Cleaned

(* It says when it changed something.                                      *)
LEMMA SilentDeadCode ==
  ASSUME NEW gr, Sound(gr), IsGraph(gr), ~ DeadCode(gr).changed
  PROVE  DeadCode(gr).graph = gr
<1> DEFINE c == DeadCode(gr)
<1>1. PICK q, K, layout, place : Cleaned(gr, c, q, K, layout, place)
  BY DeadCodeFacts
<1> HIDE DEF c
<1>2. ~ c.changed
  BY DEF c
<1>3. q.outputs = gr.outputs /\ Len(c.graph.nodes) = Len(gr.nodes)
  BY <1>1, <1>2 DEF Cleaned
<1>4. q = gr
  BY <1>1, <1>3 DEF Cleaned, PrunedTo
<1>5. Collected(gr, c.graph, K, layout, place) /\ Sound(c.graph)
  BY <1>1, <1>4 DEF Cleaned
<1>6. K = Values(gr)
  BY <1>3, <1>5, NothingCollected
<1>7. c.graph = gr
  BY <1>5, <1>6, AllCollected
<1> QED
  BY <1>7 DEF c

(* Nothing in the graph is dead.                                           *)
Live(gr) ==
  /\ LiveOutputs(gr) = DOMAIN gr.outputs
  /\ \A v \in Values(gr) : v \in Roots(gr) \/ \E r \in Values(gr) : v \in InputsOf(gr, r)

LEMMA LiveStays ==
  ASSUME NEW gr, Sound(gr), IsGraph(gr), Live(gr)
  PROVE  DeadCode(gr).graph = gr /\ ~ DeadCode(gr).changed
<1> DEFINE c == DeadCode(gr)
<1>1. PICK q, K, layout, place : Cleaned(gr, c, q, K, layout, place)
  BY DeadCodeFacts
<1> HIDE DEF c
<1>2. q = gr
  BY <1>1 DEF Cleaned, Live
<1>3. Collected(gr, c.graph, K, layout, place) /\ Sound(c.graph)
  BY <1>1, <1>2 DEF Cleaned
<1>4. /\ K \subseteq Values(gr) /\ Roots(gr) \subseteq K
      /\ \A v \in K : InputsOf(gr, v) \subseteq K
  BY <1>3 DEF Collected, Swept
<1>5. K = Values(gr)
  <2> SUFFICES ASSUME Values(gr) \ K # {} PROVE FALSE
    BY <1>4
  <2> DEFINE T == Values(gr) \ K
             N == Len(gr.nodes)
  <2>0. N \in Nat /\ Values(gr) = 1 .. N
    BY GraphFacts
  <2>1. T \in SUBSET (0 .. N) /\ T # {}
    BY <2>0
  <2> HIDE DEF N
  <2>2. Max(T) \in T /\ \A u \in T : u <= Max(T)
    <3> HIDE DEF T
    <3> QED
      BY <2>0, <2>1, LargestElement
  <2> DEFINE v == Max(T)
  <2> HIDE DEF v
  <2>3. v \in Values(gr) /\ v \notin K /\ \A u \in Values(gr) : u \notin K => u <= v
    BY <2>2 DEF v
  <2>4. PICK r \in Values(gr) : v \in InputsOf(gr, r)
    BY <1>4, <2>3 DEF Live
  <2>5. v < r
    BY <2>4, OperandFacts
  <2>6. r \in K
    BY <2>0, <2>3, <2>5
  <2> QED
    BY <1>4, <2>3, <2>4, <2>6
<1>6. c.graph = gr
  BY <1>3, <1>5, AllCollected
<1>7. ~ c.changed
  BY <1>1, <1>2, <1>6 DEF Cleaned
<1> QED
  BY <1>6, <1>7 DEF c

(* A node that is kept has kept its operands, in their order.              *)
LEMMA CollectedNodes ==
  ASSUME NEW gr, Sound(gr), NEW h, NEW K, NEW layout, NEW place,
         Collected(gr, h, K, layout, place), NEW p \in Values(h), NEW v, v = layout[p]
  PROVE  /\ v \in K /\ v \in Values(gr) /\ p = place[v] /\ KeptAt(gr, h, place, v)
         /\ \A j \in DOMAIN gr.nodes[v].in :
              /\ gr.nodes[v].in[j] \in K /\ gr.nodes[v].in[j] \in Values(gr)
              /\ KeptAt(gr, h, place, gr.nodes[v].in[j])
<1>1. v \in K /\ place[v] = p
  BY DEF Collected, Moved
<1>2. v \in Values(gr) /\ InputsOf(gr, v) \subseteq K
  BY <1>1 DEF Collected, Swept
<1>3. \A w \in K : KeptAt(gr, h, place, w)
  BY DEF Collected, Moved
<1>4. \A j \in DOMAIN gr.nodes[v].in : gr.nodes[v].in[j] \in InputsOf(gr, v)
  BY <1>2, OperandFacts
<1> QED
  BY <1>1, <1>2, <1>3, <1>4, OperandFacts

(* The new place of values is in their order.                              *)
LEMMA PlaceRises ==
  ASSUME NEW gr, NEW h, NEW K, NEW layout, NEW place, Collected(gr, h, K, layout, place),
         NEW v \in K, NEW w \in K
  PROVE  /\ place[v] < place[w] <=> v < w
         /\ place[v] = place[w] => v = w
<1>1. /\ \A u \in K : place[u] \in DOMAIN layout /\ layout[place[u]] = u
      /\ \A p, q \in DOMAIN layout : layout[p] < layout[q] <=> p < q
  BY DEF Collected, Moved, Rises, KeptAt
<1> QED
  BY <1>1

LEMMA DeadCodeLeavesLive ==
  ASSUME NEW gr, Sound(gr), IsGraph(gr)
  PROVE  Live(DeadCode(gr).graph)
<1> DEFINE c == DeadCode(gr)
           h == c.graph
<1>1. PICK q, K, layout, place : Cleaned(gr, c, q, K, layout, place)
  BY DeadCodeFacts
<1> HIDE DEF c
<1>2. Sound(q) /\ Collected(q, h, K, layout, place)
  BY <1>1 DEF Cleaned
<1>3. PICK l : PrunedTo(gr, q, l)
  BY <1>1 DEF Cleaned
<1> HIDE DEF h
<1>4. /\ h.witness = q.witness /\ DOMAIN h.outputs = DOMAIN q.outputs
      /\ \A j \in DOMAIN q.outputs :
           h.outputs[j].signal = q.outputs[j].signal /\ h.outputs[j].value = place[q.outputs[j].value]
  BY <1>2 DEF Collected, Moved, Rebuilt
<1>5. LiveOutputs(h) = DOMAIN h.outputs
  <2>1. CASE h.witness = <<>>
    BY <2>1 DEF LiveOutputs
  <2>2. CASE h.witness # <<>>
    <3>1. gr.witness = h.witness /\ DOMAIN q.outputs = DOMAIN l
          /\ \A p \in DOMAIN l : l[p] \in LiveOutputs(gr) /\ q.outputs[p] = gr.outputs[l[p]]
      BY <1>3, <1>4 DEF PrunedTo
    <3>2. \A p \in DOMAIN l : gr.outputs[l[p]].signal + 1 \in ToSet(h.witness)
      BY <2>2, <3>1 DEF LiveOutputs
    <3>3. \A p \in DOMAIN h.outputs : h.outputs[p].signal + 1 \in ToSet(h.witness)
      BY <1>4, <3>1, <3>2
    <3> QED
      BY <2>2, <3>3 DEF LiveOutputs
  <2> QED
    BY <2>1, <2>2
<1>6. ASSUME NEW p \in Values(h)
      PROVE  p \in Roots(h) \/ \E r \in Values(h) : p \in InputsOf(h, r)
  <2> DEFINE v == layout[p]
  <2>1. v \in K /\ p = place[v] /\ KeptAt(q, h, place, v)
    BY <1>2, CollectedNodes
  <2> HIDE DEF v
  <2>2. v \in Roots(q) \/ \E r \in K : v \in InputsOf(q, r)
    BY <1>2, <2>1 DEF Collected, Swept
  <2>3. ASSUME NEW j \in DOMAIN q.outputs, q.outputs[j].value = v
        PROVE  p \in Roots(h)
    BY <1>4, <2>1, <2>3 DEF Roots
  <2>4. ASSUME v \in NodesOf(q, "Gadget")
        PROVE  p \in Roots(h)
    BY <2>1, <2>4 DEF Roots, NodesOf, KeptAt
  <2>5. ASSUME NEW r \in K, v \in InputsOf(q, r)
        PROVE  \E s \in Values(h) : p \in InputsOf(h, s)
    <3>1. KeptAt(q, h, place, r) /\ r \in Values(q)
      BY <1>2 DEF Collected, Moved, Swept
    <3>2. PICK j \in DOMAIN q.nodes[r].in : v = q.nodes[r].in[j]
      BY <1>2, <2>5, <3>1, OperandFacts
    <3>3. place[r] \in Values(h) /\ j \in DOMAIN h.nodes[place[r]].in /\ h.nodes[place[r]].in[j] = p
      BY Zenon, <2>1, <3>1, <3>2 DEF KeptAt
    <3>4. p \in InputsOf(h, place[r])
      BY <3>3 DEF InputsOf, ToSet
    <3> QED
      BY <3>3, <3>4
  <2> QED
    BY <2>2, <2>3, <2>4, <2>5 DEF Roots
<1> QED
  BY <1>5, <1>6 DEF Live, h, c

(* It leaves nothing to fold that was not there.                           *)
LEMMA DeadCodeKeepsFolded ==
  ASSUME NEW gr, Sound(gr), IsGraph(gr), Folded(gr)
  PROVE  Folded(DeadCode(gr).graph)
<1> DEFINE c == DeadCode(gr)
           h == c.graph
<1>1. PICK q, K, layout, place : Cleaned(gr, c, q, K, layout, place)
  BY DeadCodeFacts
<1> HIDE DEF c
<1>2. Sound(q) /\ Collected(q, h, K, layout, place)
  BY <1>1 DEF Cleaned
<1>3. q.nodes = gr.nodes
  BY <1>1 DEF Cleaned, PrunedTo
<1> HIDE DEF h
<1>4. ASSUME NEW p \in Values(h)
      PROVE  ~ Foldable(h.nodes[p], h.nodes)
  <2> DEFINE v == layout[p]
             n == q.nodes[v]
             k == h.nodes[p]
  <2>1. /\ v \in Values(q) /\ p = place[v] /\ KeptAt(q, h, place, v)
        /\ \A j \in DOMAIN n.in : n.in[j] \in K /\ KeptAt(q, h, place, n.in[j])
    BY <1>2, CollectedNodes
  <2>2. n.op \in ArithOps => 1 \in DOMAIN n.in /\ 2 \in DOMAIN n.in
    BY <1>2, <2>1, ArityFacts, GraphFacts
  <2>3. n.op = k.op /\ \A j \in DOMAIN n.in : k.in[j] = place[n.in[j]]
    BY Zenon, <2>1 DEF KeptAt
  <2>4. \A j \in DOMAIN n.in : /\ q.nodes[n.in[j]].op = h.nodes[k.in[j]].op
                              /\ q.nodes[n.in[j]].arg = h.nodes[k.in[j]].arg
    BY <2>1, <2>3, ZenonT(60) DEF KeptAt
  <2>5. ~ Foldable(n, q.nodes)
    <3>1. ~ Foldable(gr.nodes[v], gr.nodes)
      BY <1>3, <2>1 DEF Folded, Values
    <3> QED
      BY <1>3, <3>1
  <2> HIDE DEF n, k
  <2>6. Alike(n, q.nodes, k, h.nodes)
    BY <2>2, <2>3, <2>4 DEF Alike
  <2>7. ~ Foldable(k, h.nodes)
    BY <2>5, <2>6, FoldableLocal
  <2> QED
    BY <2>7 DEF k
<1> QED
  BY <1>4 DEF Folded, h, c

(* The two operands of an arithmetic node, in the order they are compared. *)
InOrder(sorted, a, b) == IF sorted /\ b < a THEN <<b, a>> ELSE <<a, b>>

LEMMA PairKey ==
  ASSUME NEW n, NEW a, NEW b, n.in = <<a, b>>, NEW sorted, sorted = (n.op \in {"Add", "Mul"})
  PROVE  CseKey(n) = <<n.op, n.arg, InOrder(sorted, a, b)>>
<1>1. n.in[1] = a /\ n.in[2] = b
  OBVIOUS
<1>2. (IF n.op \in {"Add", "Mul"} /\ n.in[2] < n.in[1] THEN <<n.in[2], n.in[1]>> ELSE n.in)
        = InOrder(sorted, a, b)
  BY <1>1 DEF InOrder
<1> QED
  BY <1>2 DEF CseKey

LEMMA SameThird ==
  ASSUME NEW a, NEW b, NEW c, NEW d, NEW e, NEW f, <<a, b, c>> = <<d, e, f>>
  PROVE  c = f
OBVIOUS

(* The operands of an arithmetic node are a pair.                          *)
LEMMA OperandPair ==
  ASSUME NEW q, q \in Seq(Nat), Len(q) = 2
  PROVE  q = <<q[1], q[2]>> /\ DOMAIN q = {1, 2}
OBVIOUS

LEMMA LeafKey ==
  ASSUME NEW n, n.op \in LeafOps
  PROVE  CseKey(n) = <<n.op, n.arg, n.in>>
BY DEF CseKey, LeafOps

(* Pairs in order, renumbered in order.                                    *)
LEMMA SamePair ==
  ASSUME NEW a \in Int, NEW b \in Int, NEW c \in Int, NEW d \in Int, NEW sorted \in BOOLEAN,
         NEW a1 \in Int, NEW b1 \in Int, NEW c1 \in Int, NEW d1 \in Int,
         b1 < a1 <=> b < a, d1 < c1 <=> d < c,
         a1 = c1 => a = c, a1 = d1 => a = d, b1 = c1 => b = c, b1 = d1 => b = d,
         InOrder(sorted, a1, b1) = InOrder(sorted, c1, d1)
  PROVE  InOrder(sorted, a, b) = InOrder(sorted, c, d)
BY DEF InOrder

LEMMA DeadCodeKeepsDistinct ==
  ASSUME NEW gr, Sound(gr), IsGraph(gr), Distinct(gr)
  PROVE  Distinct(DeadCode(gr).graph)
<1> DEFINE c == DeadCode(gr)
           h == c.graph
<1>1. PICK q, K, layout, place : Cleaned(gr, c, q, K, layout, place)
  BY DeadCodeFacts
<1> HIDE DEF c
<1>2. Sound(q) /\ Sound(h) /\ Collected(q, h, K, layout, place)
  BY <1>1 DEF Cleaned
<1>3. q.nodes = gr.nodes
  BY <1>1 DEF Cleaned, PrunedTo
<1> HIDE DEF h
<1>4. /\ K \subseteq Nat /\ Values(h) \subseteq Nat
      /\ \A v \in K : place[v] \in Values(h)
  <2>1. Values(q) \subseteq Nat /\ Values(h) \subseteq Nat
    BY <1>2, GraphFacts
  <2> QED
    BY <1>2, <2>1 DEF Collected, Swept, Moved, KeptAt
<1>5. ASSUME NEW p \in Values(h), NEW r \in Values(h),
             h.nodes[p].op \in PureOps, h.nodes[r].op \in PureOps,
             CseKey(h.nodes[p]) = CseKey(h.nodes[r])
      PROVE  p = r
  <2> DEFINE v == layout[p]
             w == layout[r]
             n == q.nodes[v]
             k == q.nodes[w]
             n1 == h.nodes[p]
             k1 == h.nodes[r]
  <2>1. /\ v \in K /\ v \in Values(q) /\ p = place[v] /\ KeptAt(q, h, place, v)
        /\ \A j \in DOMAIN n.in : n.in[j] \in K
    BY <1>2, CollectedNodes
  <2>2. /\ w \in K /\ w \in Values(q) /\ r = place[w] /\ KeptAt(q, h, place, w)
        /\ \A j \in DOMAIN k.in : k.in[j] \in K
    BY <1>2, CollectedNodes
  <2>3. /\ n1.op = n.op /\ n1.arg = n.arg /\ DOMAIN n1.in = DOMAIN n.in
        /\ \A j \in DOMAIN n.in : n1.in[j] = place[n.in[j]]
    BY <2>1 DEF KeptAt
  <2>4. /\ k1.op = k.op /\ k1.arg = k.arg /\ DOMAIN k1.in = DOMAIN k.in
        /\ \A j \in DOMAIN k.in : k1.in[j] = place[k.in[j]]
    BY <2>2 DEF KeptAt
  <2>5. n1.op = k1.op /\ n1.arg = k1.arg
    BY <1>5, SameKeyAlike
  <2>6. /\ n.in \in Seq(Nat) /\ k.in \in Seq(Nat) /\ n1.in \in Seq(Nat) /\ k1.in \in Seq(Nat)
        /\ n.op \in LeafOps => Len(n.in) = 0
        /\ k.op \in LeafOps => Len(k.in) = 0
        /\ n.op \in ArithOps => Len(n.in) = 2
        /\ k.op \in ArithOps => Len(k.in) = 2
        /\ n1.op \in ArithOps => Len(n1.in) = 2
        /\ k1.op \in ArithOps => Len(k1.in) = 2
    BY <1>2, <2>1, <2>2, ArityFacts, GraphFacts
  <2>7. CseKey(n1) = CseKey(k1) /\ n1.op \in PureOps
    BY <1>5
  <2>8. n = gr.nodes[v] /\ k = gr.nodes[w] /\ v \in Values(gr) /\ w \in Values(gr)
    BY <1>3, <2>1, <2>2 DEF Values
  <2> HIDE DEF v, w, n, k, n1, k1
  <2>9. CASE n.op \in LeafOps
    <3>1. n.in = <<>> /\ k.in = <<>>
      BY <2>3, <2>4, <2>5, <2>6, <2>9
    <3>2. CseKey(n) = CseKey(k)
      BY <2>3, <2>4, <2>5, <2>9, <3>1, LeafKey
    <3>3. v = w
      BY <2>3, <2>4, <2>5, <2>7, <2>8, <3>2 DEF Distinct
    <3> QED
      BY <2>1, <2>2, <3>3
  <2>10. CASE n.op \in ArithOps
    <3> DEFINE a == n.in[1]
               b == n.in[2]
               d == k.in[1]
               e == k.in[2]
    <3>1. /\ n.in = <<a, b>> /\ k.in = <<d, e>> /\ DOMAIN n.in = {1, 2} /\ DOMAIN k.in = {1, 2}
      BY <2>3, <2>4, <2>5, <2>6, <2>10, OperandPair
    <3>2. a \in K /\ b \in K /\ d \in K /\ e \in K
      BY <2>1, <2>2, <3>1 DEF n, k
    <3>3. /\ n1.in[1] = place[a] /\ n1.in[2] = place[b]
          /\ k1.in[1] = place[d] /\ k1.in[2] = place[e]
      BY <2>3, <2>4, <3>1
    <3> DEFINE a1 == place[a]
               b1 == place[b]
               d1 == place[d]
               e1 == place[e]
               sorted == n.op \in {"Add", "Mul"}
    <3>4. n1.in = <<a1, b1>> /\ k1.in = <<d1, e1>>
      <4>1. n1.in = <<n1.in[1], n1.in[2]>> /\ k1.in = <<k1.in[1], k1.in[2]>>
        BY <2>3, <2>4, <2>5, <2>6, <2>10, OperandPair
      <4> QED
        BY <3>3, <4>1
    <3>5. /\ b1 < a1 <=> b < a
          /\ e1 < d1 <=> e < d
          /\ a1 = d1 => a = d
          /\ a1 = e1 => a = e
          /\ b1 = d1 => b = d
          /\ b1 = e1 => b = e
      BY <1>2, <3>2, PlaceRises
    <3>6. /\ a \in Int /\ b \in Int /\ d \in Int /\ e \in Int
          /\ a1 \in Int /\ b1 \in Int /\ d1 \in Int /\ e1 \in Int
      <4> HIDE DEF a, b, d, e
      <4>1. \A x \in K : x \in Int /\ place[x] \in Int
        BY <1>4
      <4> QED
        BY <3>2, <4>1
    <3>7. sorted \in BOOLEAN
      OBVIOUS
    <3> HIDE DEF a, b, d, e, a1, b1, d1, e1
    <3>8. /\ CseKey(n1) = <<n1.op, n1.arg, InOrder(sorted, a1, b1)>>
          /\ CseKey(k1) = <<k1.op, k1.arg, InOrder(sorted, d1, e1)>>
          /\ CseKey(n) = <<n.op, n.arg, InOrder(sorted, a, b)>>
          /\ CseKey(k) = <<k.op, k.arg, InOrder(sorted, d, e)>>
      <4>1. /\ sorted = (n.op \in {"Add", "Mul"}) /\ sorted = (k.op \in {"Add", "Mul"})
            /\ sorted = (n1.op \in {"Add", "Mul"}) /\ sorted = (k1.op \in {"Add", "Mul"})
        BY <2>3, <2>4, <2>5
      <4> HIDE DEF sorted
      <4> QED
        BY <3>1, <3>4, <4>1, PairKey DEF a, b, d, e
    <3>10. n.op = k.op /\ n.arg = k.arg
      BY <2>3, <2>4, <2>5
    <3> HIDE DEF sorted
    <3>11. InOrder(sorted, a1, b1) = InOrder(sorted, d1, e1)
      <4>1. <<n1.op, n1.arg, InOrder(sorted, a1, b1)>> = <<k1.op, k1.arg, InOrder(sorted, d1, e1)>>
        BY <2>7, <3>8
      <4> QED
        BY <4>1, SameThird
    <3>12. InOrder(sorted, a, b) = InOrder(sorted, d, e)
      BY <3>5, <3>6, <3>7, <3>11, SamePair
    <3>13. CseKey(n) = CseKey(k)
      BY <3>8, <3>10, <3>12
    <3>14. v = w
      BY <2>3, <2>4, <2>5, <2>7, <2>8, <3>13 DEF Distinct
    <3> QED
      BY <2>1, <2>2, <3>14
  <2> QED
    BY <2>3, <2>7, <2>9, <2>10 DEF PureOps
<1> QED
  BY <1>5 DEF Distinct, h, c

-----------------------------------------------------------------------------
(* Levels.                                                                 *)

LEMMA NodeLevelLocal ==
  ASSUME NEW gr, Sound(gr), NEW charged, NEW v \in Values(gr), NEW known, NEW more,
         \A w \in InputsOf(gr, v) : known[w] = more[w]
  PROVE  NodeLevel(charged, known, gr.nodes[v]) = NodeLevel(charged, more, gr.nodes[v])
<1> DEFINE n == gr.nodes[v]
<1>0. n.op \in Ops /\ \A j \in DOMAIN n.in : known[n.in[j]] = more[n.in[j]]
  BY GraphFacts, OperandFacts
<1>1. CASE n.op \in LeafOps
  BY <1>1 DEF NodeLevel, LeafOps, ArithOps
<1>2. CASE n.op \in ArithOps \cup {"MulLocal", "Round", "Gadget"}
  <2>1. {known[w] : w \in ToSet(n.in)} = {more[w] : w \in ToSet(n.in)}
    BY DEF InputsOf
  <2>2. /\ NodeLevel(charged, known, n) = Max({0} \cup {known[w] : w \in ToSet(n.in)})
        /\ NodeLevel(charged, more, n) = Max({0} \cup {more[w] : w \in ToSet(n.in)})
    BY <1>2 DEF NodeLevel, LeafOps, ArithOps
  <2> QED
    BY <2>1, <2>2
<1>3. CASE n.op \in {"RoundResult", "GadgetResult"}
  <2>1. 1 \in DOMAIN n.in
    BY <1>3, ArityFacts, GraphFacts
  <2>2. known[n.in[1]] = more[n.in[1]]
    BY <1>0, <2>1
  <2> QED
    BY <1>3, <2>2 DEF NodeLevel, LeafOps, ArithOps
<1> QED
  BY <1>0, <1>1, <1>2, <1>3 DEF Ops

(* A level counts no further than the node's position.                     *)
LEMMA NodeLevelBound ==
  ASSUME NEW gr, Sound(gr), NEW charged, NEW v \in Values(gr), NEW known,
         \A w \in 1 .. (v - 1) : known[w] \in 0 .. w
  PROVE  NodeLevel(charged, known, gr.nodes[v]) \in 0 .. v
<1> DEFINE n == gr.nodes[v]
<1>0. /\ n.op \in Ops /\ v \in Nat /\ v >= 1
      /\ \A w \in InputsOf(gr, v) : w \in 1 .. (v - 1)
  <2>1. \A w \in InputsOf(gr, v) : w \in Values(gr) /\ w < v
    BY OperandFacts
  <2> QED
    BY <2>1, GraphFacts
<1>1. CASE n.op \in LeafOps
  <2>1. NodeLevel(charged, known, n) = 0
    BY <1>1 DEF NodeLevel, LeafOps, ArithOps
  <2> QED
    BY <1>0, <2>1
<1>2. CASE n.op \in ArithOps \cup {"MulLocal", "Round", "Gadget"}
  <2> DEFINE s == {0} \cup {known[w] : w \in ToSet(n.in)}
  <2>1. NodeLevel(charged, known, n) = Max(s)
    BY <1>2 DEF NodeLevel, LeafOps, ArithOps
  <2>2. s \in SUBSET (0 .. v) /\ s # {}
    <3>1. \A w \in ToSet(n.in) : known[w] \in 0 .. v
      <4> SUFFICES ASSUME NEW w \in ToSet(n.in) PROVE known[w] \in 0 .. v
        OBVIOUS
      <4>1. w \in 1 .. (v - 1)
        BY <1>0 DEF InputsOf
      <4>2. known[w] \in 0 .. w
        BY <4>1
      <4> QED
        BY <1>0, <4>1, <4>2
    <3> QED
      BY <1>0, <3>1
  <2> HIDE DEF s
  <2>3. Max(s) \in s
    BY <1>0, <2>2, LargestElement
  <2> QED
    BY <2>1, <2>2, <2>3
<1>3. CASE n.op \in {"RoundResult", "GadgetResult"}
  <2>1. 1 \in DOMAIN n.in
    BY <1>3, ArityFacts, GraphFacts
  <2>2. n.in[1] \in InputsOf(gr, v)
    BY <2>1, OperandFacts
  <2>3. n.in[1] \in 1 .. (v - 1) /\ known[n.in[1]] \in 0 .. (n.in[1])
    BY <1>0, <2>2
  <2>4. known[n.in[1]] \in 0 .. v /\ known[n.in[1]] + 1 \in 0 .. v
    BY <1>0, <2>3
  <2>5. \/ NodeLevel(charged, known, n) = known[n.in[1]]
        \/ NodeLevel(charged, known, n) = known[n.in[1]] + 1
    BY <1>3 DEF NodeLevel, LeafOps, ArithOps
  <2> QED
    BY <2>4, <2>5
<1> QED
  BY <1>0, <1>1, <1>2, <1>3 DEF Ops

(* Every level is that of its operation.                                   *)
Leveled(gr, charged, l) ==
  /\ DOMAIN l = Values(gr)
  /\ \A v \in Values(gr) : l[v] \in 0 .. v /\ l[v] = NodeLevel(charged, l, gr.nodes[v])

LEMMA LevelsComputed ==
  ASSUME NEW gr, Sound(gr), NEW charged
  PROVE  Leveled(gr, charged, LevelsWith(gr, charged))
<1> DEFINE m == Len(gr.nodes)
<1>0. m \in Nat /\ Values(gr) = 1 .. m /\ DOMAIN gr.nodes = 1 .. m
  BY GraphFacts
<1>1. \E f : /\ Obeys("level", charged, <<>>, gr.nodes, f, SUBSET (1 .. m))
             /\ LevelsWith(gr, charged) = f[1 .. m]
  <2> DEFINE f == CHOOSE h : Obeys("level", charged, <<>>, gr.nodes, h, SUBSET (1 .. m))
  <2>1. Obeys("level", charged, <<>>, gr.nodes, f, SUBSET (1 .. m))
    <3> HIDE DEF m
    <3> QED
      BY <1>0, FoldRecursionExists
  <2>2. LevelsWith(gr, charged) = f[1 .. m]
    BY <1>0 DEF LevelsWith, FoldLeft, MapThenFoldSet, Obeys, Step, Outermost, Turn
  <2> QED
    BY <2>1, <2>2
<1>2. PICK e : Runs("level", charged, <<>>, gr.nodes, m, e, LevelsWith(gr, charged))
  BY <1>0, <1>1, FoldRuns
<1>3. /\ e[0] = <<>> /\ e[m] = LevelsWith(gr, charged)
      /\ \A n \in 1 .. m : e[n] = Append(e[n - 1], NodeLevel(charged, e[n - 1], gr.nodes[n]))
  BY <1>2 DEF Runs, Turn
<1> DEFINE Good(n) == /\ IsList(e[n], n)
                      /\ \A v \in 1 .. n : /\ e[n][v] \in 0 .. v
                                           /\ e[n][v] = NodeLevel(charged, e[n], gr.nodes[v])
           T == {n \in Nat : n <= m => Good(n)}
<1>4. 0 \in T
  <2>1. IsList(<<>>, 0)
    <3>1. <<>> \in Seq({}) /\ Len(<<>>) = 0
      OBVIOUS
    <3> QED
      BY <3>1 DEF IsList
  <2> QED
    BY <1>3, <2>1
<1>5. ASSUME NEW n \in T
      PROVE  n + 1 \in T
  <2> SUFFICES ASSUME n + 1 <= m PROVE Good(n + 1)
    OBVIOUS
  <2>1. n \in Nat /\ Good(n) /\ n + 1 \in 1 .. m
    BY <1>0
  <2> DEFINE x == NodeLevel(charged, e[n], gr.nodes[n + 1])
  <2>2. e[n + 1] = Append(e[n], x)
    BY <1>3, <2>1
  <2>6. x \in 0 .. (n + 1)
    <3> DEFINE v == n + 1
    <3>1. v \in Values(gr) /\ \A w \in 1 .. (v - 1) : e[n][w] \in 0 .. w
      BY <1>0, <2>1
    <3> HIDE DEF v
    <3>2. NodeLevel(charged, e[n], gr.nodes[v]) \in 0 .. v
      BY <3>1, NodeLevelBound
    <3> QED
      BY <3>2 DEF v
  <2> HIDE DEF x
  <2>3. /\ IsList(e[n + 1], n + 1) /\ e[n + 1][n + 1] = x
        /\ \A v \in 1 .. n : e[n + 1][v] = e[n][v]
    BY <2>1, <2>2, ListGrows
  <2>4. ASSUME NEW v \in 1 .. (n + 1)
        PROVE  e[n + 1][v] \in 0 .. v /\ e[n + 1][v] = NodeLevel(charged, e[n + 1], gr.nodes[v])
    <3>1. v \in Values(gr)
      BY <1>0, <2>1
    <3>2. \A w \in InputsOf(gr, v) : e[n][w] = e[n + 1][w]
      <4>1. \A w \in InputsOf(gr, v) : w \in 1 .. m /\ w < v
        BY <1>0, <3>1, OperandFacts
      <4> QED
        BY <2>1, <2>3, <4>1
    <3>3. NodeLevel(charged, e[n], gr.nodes[v]) = NodeLevel(charged, e[n + 1], gr.nodes[v])
      <4>1. PICK a, b : a = e[n] /\ b = e[n + 1]
        OBVIOUS
      <4>2. \A w \in InputsOf(gr, v) : a[w] = b[w]
        BY <3>2, <4>1
      <4>3. NodeLevel(charged, a, gr.nodes[v]) = NodeLevel(charged, b, gr.nodes[v])
        BY <3>1, <4>2, NodeLevelLocal, ZenonT(60)
      <4> QED
        BY <4>1, <4>3
    <3> QED
      BY <2>1, <2>3, <2>6, <3>3 DEF x
  <2> QED
    BY <2>3, <2>4
<1>6. T = Nat
  <2> HIDE DEF T
  <2>1. T \in SUBSET Nat
    BY DEF T
  <2> QED
    BY <1>4, <1>5, <2>1, NaturalsFrom0
<1>7. Good(m)
  BY <1>0, <1>6
<1>8. DOMAIN e[m] = 1 .. m
  <2>1. PICK S : e[m] \in Seq(S)
    BY <1>7 DEF IsList
  <2> QED
    BY <1>7, <2>1, LenProperties DEF IsList
<1>9. \A v \in Values(gr) : /\ e[m][v] \in 0 .. v
                            /\ e[m][v] = NodeLevel(charged, e[m], gr.nodes[v])
  BY <1>0, <1>7
<1>10. DOMAIN e[m] = Values(gr)
  BY <1>0, <1>8
<1> QED
  BY <1>3, <1>9, <1>10, Zenon DEF Leveled

(* The level of a node is at least that of each operand, and beyond that   *)
(* of its round.                                                           *)
LevelsGrowAt(gr, l, v) ==
  /\ l[v] \in Nat
  /\ \A w \in InputsOf(gr, v) : w \in Values(gr) /\ w < v /\ l[w] \in Nat /\ l[w] <= l[v]
  /\ gr.nodes[v].op = "RoundResult" => l[v] = l[gr.nodes[v].in[1]] + 1

LEMMA LevelsAlong ==
  ASSUME NEW gr, Sound(gr), NEW charged, NEW l, Leveled(gr, charged, l), NEW v \in Values(gr)
  PROVE  LevelsGrowAt(gr, l, v)
<1> DEFINE n == gr.nodes[v]
<1>0. /\ n.op \in Ops /\ v \in Nat
      /\ \A w \in InputsOf(gr, v) : w \in Values(gr) /\ w < v
      /\ \A w \in Values(gr) : l[w] \in 0 .. w /\ w \in Nat /\ l[w] \in Nat
      /\ l[v] = NodeLevel(charged, l, n)
  <2>1. \A w \in InputsOf(gr, v) : w \in Values(gr) /\ w < v
    BY OperandFacts
  <2>2. \A w \in Values(gr) : l[w] \in 0 .. w /\ w \in Nat
    BY GraphFacts DEF Leveled
  <2> QED
    BY <2>1, <2>2, GraphFacts DEF Leveled
<1>1. CASE n.op \in LeafOps
  <2>1. InputsOf(gr, v) = {}
    <3>1. Len(n.in) = 0
      <4>1. Placed(n, v - 1) /\ v - 1 \in Nat
        BY PlacedNode, GraphFacts
      <4> QED
        BY <1>1, <4>1, ArityOfPlaced
    <3>2. DOMAIN n.in = {}
      BY <3>1, GraphFacts
    <3> QED
      BY <3>2, OperandFacts
  <2> QED
    BY <1>0, <1>1, <2>1 DEF LevelsGrowAt, LeafOps
<1>2. CASE n.op \in ArithOps \cup {"MulLocal", "Round", "Gadget"}
  <2> DEFINE s == {0} \cup {l[w] : w \in ToSet(n.in)}
  <2>1. l[v] = Max(s)
    BY <1>0, <1>2 DEF NodeLevel, LeafOps, ArithOps
  <2>2. s \in SUBSET (0 .. v) /\ s # {}
    <3>1. \A w \in ToSet(n.in) : l[w] \in 0 .. v
      <4> SUFFICES ASSUME NEW w \in ToSet(n.in) PROVE l[w] \in 0 .. v
        OBVIOUS
      <4>1. w \in Values(gr) /\ w < v
        BY <1>0 DEF InputsOf
      <4>2. l[w] \in 0 .. w /\ w \in Nat
        BY <1>0, <4>1
      <4> QED
        BY <1>0, <4>1, <4>2
    <3> QED
      BY <1>0, <3>1
  <2>4. \A w \in InputsOf(gr, v) : l[w] \in s
    BY DEF InputsOf
  <2> HIDE DEF s
  <2>3. \A x \in s : x <= Max(s)
    BY <1>0, <2>2, LargestElement
  <2> QED
    BY <1>0, <1>2, <2>1, <2>3, <2>4 DEF LevelsGrowAt, ArithOps
<1>3. CASE n.op \in {"RoundResult", "GadgetResult"}
  <2>1. InputsOf(gr, v) = {n.in[1]}
    BY <1>3, ResultOperand
  <2>2. \/ l[v] = l[n.in[1]] /\ n.op = "GadgetResult"
        \/ l[v] = l[n.in[1]] + 1
    BY <1>0, <1>3 DEF NodeLevel, LeafOps, ArithOps
  <2>3. l[n.in[1]] \in Nat /\ n.in[1] \in Values(gr) /\ n.in[1] < v
    BY <1>0, <2>1
  <2> QED
    BY <1>0, <1>3, <2>1, <2>2, <2>3 DEF LevelsGrowAt
<1> QED
  BY <1>0, <1>1, <1>2, <1>3 DEF Ops

(* The charged sites of the two axes.                                      *)
NetworkSites(gr) == {v \in NodesOf(gr, "Gadget") : Domains(gr)[v] # Public}

LEMMA AxesFacts ==
  ASSUME NEW gr, Sound(gr)
  PROVE  /\ Leveled(gr, NetworkSites(gr), NetworkLevels(gr))
         /\ Leveled(gr, NodesOf(gr, "Gadget"), FullLevels(gr))
<1>1. NetworkLevels(gr) = LevelsWith(gr, NetworkSites(gr))
  BY DEF NetworkLevels, NetworkSites
<1>2. FullLevels(gr) = LevelsWith(gr, NodesOf(gr, "Gadget"))
  BY DEF FullLevels
<1> QED
  BY <1>1, <1>2, LevelsComputed

-----------------------------------------------------------------------------
(* wide_schedule.                                                          *)

(* Keys of two values, compared.                                           *)
KeysBefore(net, full, a, b, v, w) ==
  \/ net[a] < net[b]
  \/ net[a] = net[b] /\ full[a] < full[b]
  \/ net[a] = net[b] /\ full[a] = full[b] /\ v < w

WideBefore(gr, v, w) ==
  KeysBefore(NetworkLevels(gr), FullLevels(gr), UnitStart(gr, v), UnitStart(gr, w), v, w)

LEMMA UnitFacts ==
  ASSUME NEW gr, Sound(gr), NEW v \in Values(gr), NEW a, a = UnitStart(gr, v)
  PROVE  /\ a \in Values(gr) /\ v \in Nat /\ a \in Nat /\ a <= v
         /\ NetworkLevels(gr)[a] \in Nat /\ FullLevels(gr)[a] \in Nat
<1>1. a \in Values(gr) /\ a <= v
  <2>1. CASE gr.nodes[v].op = "RoundResult"
    <3>1. a = gr.nodes[v].in[1] /\ a \in InputsOf(gr, v)
      BY <2>1, ResultOperand DEF UnitStart
    <3> QED
      BY <3>1, OperandFacts, GraphFacts
  <2>2. CASE gr.nodes[v].op # "RoundResult"
    BY <2>2, GraphFacts DEF UnitStart
  <2> QED
    BY <2>1, <2>2
<1>2. \A w \in Values(gr) : w \in Nat
  BY GraphFacts
<1> QED
  BY <1>1, <1>2, AxesFacts, LevelsAlong DEF LevelsGrowAt

SortedBy(gr, l) ==
  /\ Lists(l, Values(gr))
  /\ \A p, q \in DOMAIN l : WideBefore(gr, l[p], l[q]) <=> p < q

LEMMA WideLayout ==
  ASSUME NEW gr, Sound(gr)
  PROVE  \E l : SortedBy(gr, l) /\ WideSchedule(gr) = Relayout(gr, l)
<1> DEFINE S == Values(gr)
           R == {vw \in S \X S : WideBefore(gr, vw[1], vw[2])}
           l == [p \in 1 .. Cardinality(S) |->
                   CHOOSE v \in S : Cardinality({w \in S : WideBefore(gr, w, v)}) = p - 1]
<1>0. IsFiniteSet(S)
  BY GraphFacts, FS_Interval
<1>1. \A v, w \in S : <<v, w>> \in R <=> WideBefore(gr, v, w)
  OBVIOUS
<1>2. StrictOrder(S, R)
  <2> DEFINE net == NetworkLevels(gr)
             full == FullLevels(gr)
             u(v) == UnitStart(gr, v)
  <2>1. \A v \in S : v \in Nat /\ net[u(v)] \in Nat /\ full[u(v)] \in Nat
    BY UnitFacts
  <2>2. \A v, w \in S : <<v, w>> \in R <=> KeysBefore(net, full, u(v), u(w), v, w)
    BY <1>1 DEF WideBefore
  <2> HIDE DEF net, full, u, S, R
  <2>3. \A v \in S : <<v, v>> \notin R
    BY <2>1, <2>2 DEF KeysBefore
  <2>4. \A v, w \in S : v # w => <<v, w>> \in R \/ <<w, v>> \in R
    BY <2>1, <2>2 DEF KeysBefore
  <2>5. ASSUME NEW x \in S, NEW y \in S, NEW z \in S, <<x, y>> \in R, <<y, z>> \in R
        PROVE  <<x, z>> \in R
    <3>1. /\ net[u(x)] \in Nat /\ net[u(y)] \in Nat /\ net[u(z)] \in Nat
          /\ full[u(x)] \in Nat /\ full[u(y)] \in Nat /\ full[u(z)] \in Nat
          /\ x \in Nat /\ y \in Nat /\ z \in Nat
      BY <2>1
    <3>2. KeysBefore(net, full, u(x), u(y), x, y) /\ KeysBefore(net, full, u(y), u(z), y, z)
      BY <2>2, <2>5
    <3>3. KeysBefore(net, full, u(x), u(z), x, z)
      BY <3>1, <3>2 DEF KeysBefore
    <3> QED
      BY <2>2, <3>3
  <2> QED
    BY <2>3, <2>4, <2>5 DEF StrictOrder
<1>3. \A v \in S : {w \in S : WideBefore(gr, w, v)} = {w \in S : <<w, v>> \in R}
  BY <1>1
<1>13. WideSchedule(gr) = Relayout(gr, l)
  BY DEF WideSchedule, Ordered, WideBefore, KeysBefore
<1> HIDE DEF R
<1>4. \A v \in S : Cardinality({w \in S : WideBefore(gr, w, v)}) = Rank(S, R, v)
  BY <1>3 DEF Rank
<1>5. DOMAIN l = 1 .. Cardinality(S)
  OBVIOUS
<1>11. \A p \in 1 .. Cardinality(S) : \E v \in S : Rank(S, R, v) = p - 1
  <2>1. FullyRanked(S, R)
    BY <1>0, <1>2, AllRanked
  <2> QED
    BY <2>1 DEF FullyRanked
<1>6. ASSUME NEW p \in 1 .. Cardinality(S)
      PROVE  l[p] \in S /\ Rank(S, R, l[p]) = p - 1
  <2>1. l[p] = CHOOSE v \in S : Cardinality({w \in S : WideBefore(gr, w, v)}) = p - 1
    OBVIOUS
  <2>2. \E v \in S : Rank(S, R, v) = p - 1
    BY <1>11
  <2>3. l[p] \in S /\ Cardinality({w \in S : WideBefore(gr, w, l[p])}) = p - 1
    BY <1>4, <2>1, <2>2
  <2> QED
    BY <1>4, <2>3
<1> HIDE DEF l
<1>7. Lists(l, S)
  BY <1>0, <1>2, <1>5, <1>6, ListedByRank
<1>8. Follows(l, R)
  BY <1>0, <1>2, <1>5, <1>6, RankedFollows
<1>9. \A p, q \in DOMAIN l : WideBefore(gr, l[p], l[q]) <=> p < q
  BY <1>1, <1>5, <1>6, <1>8 DEF Follows
<1>10. SortedBy(gr, l)
  BY <1>7, <1>9 DEF SortedBy
<1> QED
  BY <1>10, <1>13

(* Operands have smaller keys than their readers.                          *)
LEMMA SortedOrderly ==
  ASSUME NEW gr, Sound(gr), NEW l, SortedBy(gr, l)
  PROVE  Orderly(gr, Values(gr), l)
<1>1. ASSUME NEW v \in Values(gr), NEW w \in InputsOf(gr, v)
      PROVE  WideBefore(gr, w, v)
  <2> DEFINE net == NetworkLevels(gr)
             full == FullLevels(gr)
  <2> DEFINE a == UnitStart(gr, w)
             b == UnitStart(gr, v)
  <2>1. w \in Values(gr) /\ w < v
    BY OperandFacts
  <2>2. /\ a \in Values(gr) /\ net[a] \in Nat /\ full[a] \in Nat /\ w \in Nat
        /\ b \in Values(gr) /\ net[b] \in Nat /\ full[b] \in Nat /\ v \in Nat
    BY <2>1, UnitFacts
  <2>3. net[a] <= net[b] /\ full[a] <= full[b]
    <3>1. /\ LevelsGrowAt(gr, net, v) /\ LevelsGrowAt(gr, full, v)
          /\ LevelsGrowAt(gr, net, w) /\ LevelsGrowAt(gr, full, w)
      BY <2>1, AxesFacts, LevelsAlong
    <3>2. CASE gr.nodes[v].op = "RoundResult"
      <4>1. InputsOf(gr, v) = {gr.nodes[v].in[1]} /\ gr.nodes[v].in[1] \in NodesOf(gr, "Round")
        BY <3>2, ResultOperand
      <4>2. a = w /\ b = w
        BY <3>2, <4>1 DEF UnitStart, NodesOf
      <4> QED
        BY <2>2, <4>2
    <3>3. CASE gr.nodes[v].op # "RoundResult"
      <4>1. b = v
        BY <3>3 DEF UnitStart
      <4>2. net[w] \in Nat /\ full[w] \in Nat /\ net[w] <= net[v] /\ full[w] <= full[v]
        BY <3>1 DEF LevelsGrowAt
      <4>3. net[a] <= net[w] /\ full[a] <= full[w]
        <5>1. CASE gr.nodes[w].op = "RoundResult"
          <6>1. a \in InputsOf(gr, w)
            BY <2>1, <5>1, ResultOperand DEF UnitStart
          <6> QED
            BY <3>1, <6>1 DEF LevelsGrowAt
        <5>2. CASE gr.nodes[w].op # "RoundResult"
          BY <4>2, <5>2 DEF UnitStart
        <5> QED
          BY <5>1, <5>2
      <4> HIDE DEF a, b, net, full
      <4> QED
        BY <2>2, <4>1, <4>2, <4>3
    <3> QED
      BY <3>2, <3>3
  <2>4. KeysBefore(net, full, a, b, w, v)
    <3> HIDE DEF a, b, net, full
    <3> QED
      BY <2>1, <2>2, <2>3 DEF KeysBefore
  <2> QED
    BY <2>4 DEF WideBefore
<1>2. ASSUME NEW p \in DOMAIN l, NEW q \in DOMAIN l, l[q] \in InputsOf(gr, l[p])
      PROVE  q < p
  <2>1. l[p] \in Values(gr)
    BY DEF SortedBy, Lists
  <2>2. WideBefore(gr, l[q], l[p])
    BY <1>1, <1>2, <2>1
  <2> QED
    BY <2>2 DEF SortedBy
<1>3. \A v \in Values(gr) : InputsOf(gr, v) \subseteq Values(gr)
  BY OperandFacts
<1>4. \A j \in DOMAIN gr.outputs : gr.outputs[j].value \in Values(gr)
  BY DEF Sound, WellTyped, Values
<1>5. NodesOf(gr, "Gadget") \subseteq Values(gr)
  BY DEF NodesOf
<1> QED
  BY <1>2, <1>3, <1>4, <1>5 DEF Orderly, SortedBy

LEMMA WideFacts ==
  ASSUME NEW gr, Sound(gr), IsGraph(gr), NEW h, h = WideSchedule(gr)
  PROVE  /\ Sound(h) /\ IsGraph(h)
         /\ \E l, place : SortedBy(gr, l) /\ Moved(gr, h, Values(gr), l, place)
<1>1. PICK l : SortedBy(gr, l) /\ h = Relayout(gr, l)
  BY WideLayout
<1> DEFINE S == Values(gr)
<1>2. Orderly(gr, S, l)
  BY <1>1, SortedOrderly
<1> HIDE DEF S
<1>3. Sound(h) /\ IsGraph(h) /\ \E place : Moved(gr, h, S, l, place)
  BY <1>1, <1>2, RelayoutMoves
<1> QED
  BY <1>1, <1>3 DEF S

-----------------------------------------------------------------------------
(* mul_split.                                                              *)

(* A product, its round and the round's result.                            *)
Trio(h, r) ==
  /\ r - 1 \in Values(h) /\ r \in Values(h) /\ r + 1 \in Values(h)
  /\ h.nodes[r - 1].op = "MulLocal"
  /\ h.nodes[r].op = "Round" /\ h.nodes[r].in = <<r - 1>>
  /\ h.nodes[r + 1] = Node("RoundResult", 0, <<r>>)

(* A value that is neither half of a product.                              *)
Whole(h, v) == v \in Values(h) /\ h.nodes[v].op \notin {"MulLocal", "Round"}

(* Products and rounds stand in threes; all else reads results only.       *)
SplitShape(h) ==
  /\ \A v \in NodesOf(h, "Round") : Trio(h, v)
  /\ \A v \in NodesOf(h, "RoundResult") : Trio(h, v - 1)
  /\ \A v \in NodesOf(h, "MulLocal") : Trio(h, v + 1)
  /\ \A v \in Values(h) : h.nodes[v].op \notin {"Round", "RoundResult"} =>
       \A j \in DOMAIN h.nodes[v].in : Whole(h, h.nodes[v].in[j])
  /\ \A j \in DOMAIN h.outputs : Whole(h, h.outputs[j].value)

(* Where a product was split.                                              *)
SplitAt(gr, h, m, v, k) ==
  /\ Trio(h, k + 2) /\ k \in Nat /\ m[v] = k + 3
  /\ v \in SecretProducts(gr)
  /\ h.nodes[k + 1] = Node("MulLocal", 0, Renumber(gr.nodes[v], m).in)

LEMMA SplitStands ==
  ASSUME NEW gr, Sound(gr), IsGraph(gr), NEW pass, pass = "split", NEW em, NEW m,
         Course(pass, gr, em, m), NEW h, h = NewGraph(gr, em, m), NEW v \in Values(gr),
         Answer(pass, gr, em, m, v) =
           EmitMany(SplitProduct(Renumber(gr.nodes[v], m), RoundId(gr, v), Len(em[v - 1]))),
         v \in SecretProducts(gr)
  PROVE  SplitAt(gr, h, m, v, Len(em[v - 1]))
<1> DEFINE k == Len(em[v - 1])
<1>0. pass \in RewritingPasses
  BY DEF RewritingPasses
<1>1. SplitInto(Renumber(gr.nodes[v], m), RoundId(gr, v), k, em[Len(gr.nodes)], Len(em[v]), m[v])
  BY SplitFacts
<1>2. /\ k \in Nat /\ m[v] \in 1 .. Len(em[Len(gr.nodes)]) /\ Len(em[Len(gr.nodes)]) \in Nat
      /\ h.nodes = em[Len(gr.nodes)] /\ Values(h) = 1 .. Len(em[Len(gr.nodes)])
  BY <1>0, ListFacts, NewShape
<1> HIDE DEF k
<1>3. /\ m[v] = k + 3
      /\ h.nodes[k + 1] = Node("MulLocal", 0, Renumber(gr.nodes[v], m).in)
      /\ h.nodes[k + 2] = Node("Round", RoundId(gr, v), <<k + 1>>)
      /\ h.nodes[k + 3] = Node("RoundResult", 0, <<k + 2>>)
  BY <1>1, <1>2 DEF SplitInto
<1>4. (k + 2) - 1 = k + 1 /\ (k + 2) + 1 = k + 3
  BY <1>2
<1>5. k + 1 \in Values(h) /\ k + 2 \in Values(h) /\ k + 3 \in Values(h)
  BY <1>2, <1>3
<1>6. /\ h.nodes[k + 1].op = "MulLocal"
      /\ h.nodes[k + 2].op = "Round" /\ h.nodes[k + 2].in = <<k + 1>>
  BY <1>3 DEF Node
<1>7. Trio(h, k + 2)
  BY <1>3, <1>4, <1>5, <1>6 DEF Trio
<1> QED
  BY <1>2, <1>3, <1>7 DEF SplitAt, k

(* Every value is carried by a node that is whole.                         *)
LEMMA SplitTargets ==
  ASSUME NEW gr, Sound(gr), IsGraph(gr), Unlowered(gr), NEW pass, pass = "split", NEW em, NEW m,
         Course(pass, gr, em, m), NEW h, h = NewGraph(gr, em, m), NEW v \in Values(gr)
  PROVE  /\ Whole(h, m[v])
         /\ \/ Keeps(pass, gr, em, m, v) /\ KeptAt(gr, h, m, v) /\ v \notin SecretProducts(gr)
            \/ SplitAt(gr, h, m, v, Len(em[v - 1]))
<1>0. pass \in RewritingPasses
  BY DEF RewritingPasses
<1>1. CASE Keeps(pass, gr, em, m, v)
  <2>1. KeptAt(gr, h, m, v)
    BY <1>0, <1>1, KeptInPlace
  <2>2. v \notin SecretProducts(gr)
    BY <1>1 DEF Keeps, Answer, Decide, SplitNode, Keep, EmitMany
  <2> QED
    BY <1>1, <2>1, <2>2 DEF KeptAt, Whole, Unlowered, LoweredOps
<1>2. CASE ~ Keeps(pass, gr, em, m, v)
  <2>1. /\ v \in SecretProducts(gr)
        /\ Answer(pass, gr, em, m, v) =
             EmitMany(SplitProduct(Renumber(gr.nodes[v], m), RoundId(gr, v), Len(em[v - 1])))
    BY <1>0, <1>2, AnswerCases
  <2> DEFINE k == Len(em[v - 1])
  <2>2. SplitAt(gr, h, m, v, k)
    BY <2>1, SplitStands
  <2> HIDE DEF k
  <2>3. (k + 2) + 1 = k + 3
    BY <2>2 DEF SplitAt
  <2>4. Whole(h, m[v])
    BY <2>2, <2>3 DEF SplitAt, Trio, Whole, Node
  <2> QED
    BY <2>2, <2>4 DEF k
<1> QED
  BY <1>1, <1>2

(* And every node is a value's, or stands in a trio.                       *)
LEMMA SplitOrigins ==
  ASSUME NEW gr, Sound(gr), IsGraph(gr), Unlowered(gr), NEW pass, pass = "split", NEW em, NEW m,
         Course(pass, gr, em, m), NEW h, h = NewGraph(gr, em, m), NEW p \in Values(h)
  PROVE  \/ /\ h.nodes[p].op \notin LoweredOps
            /\ \E v \in Values(gr) : p = m[v] /\ KeptAt(gr, h, m, v) /\ v \notin SecretProducts(gr)
         \/ \E v \in Values(gr) : \E k \in Nat :
              SplitAt(gr, h, m, v, k) /\ (p = k + 1 \/ p = k + 2 \/ p = k + 3)
<1>0. pass \in RewritingPasses /\ Values(h) = 1 .. Len(em[Len(gr.nodes)])
  BY NewShape DEF RewritingPasses
<1>1. ASSUME NEW v \in Values(gr), Keeps(pass, gr, em, m, v), p = m[v]
      PROVE  /\ h.nodes[p].op \notin LoweredOps
             /\ p = m[v] /\ KeptAt(gr, h, m, v) /\ v \notin SecretProducts(gr)
  <2>1. KeptAt(gr, h, m, v)
    BY <1>0, <1>1, KeptInPlace
  <2>2. v \notin SecretProducts(gr)
    BY <1>1 DEF Keeps, Answer, Decide, SplitNode, Keep, EmitMany
  <2> QED
    BY <1>1, <2>1, <2>2 DEF KeptAt, Unlowered
<1>2. ASSUME NEW v \in SecretProducts(gr), v \in Values(gr), NEW j \in 1 .. 3,
             p = Len(em[v - 1]) + j,
             Answer(pass, gr, em, m, v) =
               EmitMany(SplitProduct(Renumber(gr.nodes[v], m), RoundId(gr, v), Len(em[v - 1])))
      PROVE  \E k \in Nat : SplitAt(gr, h, m, v, k) /\ (p = k + 1 \/ p = k + 2 \/ p = k + 3)
  <2> DEFINE k == Len(em[v - 1])
  <2>1. SplitAt(gr, h, m, v, k)
    BY <1>2, SplitStands
  <2>2. j = 1 \/ j = 2 \/ j = 3
    OBVIOUS
  <2>3. p = k + j /\ k \in Nat
    BY <1>2, <2>1 DEF SplitAt
  <2> HIDE DEF k
  <2> QED
    BY <2>1, <2>2, <2>3
<1>3. pass # "fold" /\ p \in 1 .. Len(em[Len(gr.nodes)])
  BY <1>0
<1>4. \/ \E v \in Values(gr) : Keeps(pass, gr, em, m, v) /\ p = m[v]
      \/ \E v \in SecretProducts(gr) : \E j \in 1 .. 3 :
           /\ v \in Values(gr) /\ p = Len(em[v - 1]) + j
           /\ Answer(pass, gr, em, m, v) =
                EmitMany(SplitProduct(Renumber(gr.nodes[v], m), RoundId(gr, v), Len(em[v - 1])))
  BY <1>0, <1>3, Origins
<1> QED
  BY <1>1, <1>2, <1>4

LEMMA SplitFits ==
  ASSUME NEW gr, Sound(gr), IsGraph(gr), Unlowered(gr), NEW pass, pass = "split", NEW em, NEW m,
         Course(pass, gr, em, m), NEW h, h = NewGraph(gr, em, m)
  PROVE  SplitShape(h)
<1>0. pass \in RewritingPasses
  BY DEF RewritingPasses
<1>1. \A p \in Values(h) : p \in Nat
  BY <1>0, NewShape
<1>2. ASSUME NEW v \in Values(gr), NEW k \in Nat, SplitAt(gr, h, m, v, k)
      PROVE  /\ Trio(h, k + 2) /\ (k + 2) - 1 = k + 1 /\ (k + 2) + 1 = k + 3
             /\ h.nodes[k + 1].op = "MulLocal" /\ h.nodes[k + 2].op = "Round"
             /\ h.nodes[k + 3].op = "RoundResult"
             /\ h.nodes[k + 1].in = Renumber(gr.nodes[v], m).in
             /\ v \in Values(gr)
  <2>1. (k + 2) - 1 = k + 1 /\ (k + 2) + 1 = k + 3 /\ Trio(h, k + 2)
    BY <1>2 DEF SplitAt
  <2> QED
    BY <1>2, <2>1 DEF SplitAt, Trio, Node
<1>3. ASSUME NEW p \in Values(h)
      PROVE  /\ h.nodes[p].op = "Round" => Trio(h, p)
             /\ h.nodes[p].op = "RoundResult" => Trio(h, p - 1)
             /\ h.nodes[p].op = "MulLocal" => Trio(h, p + 1)
             /\ h.nodes[p].op \notin {"Round", "RoundResult"} =>
                  \E v \in Values(gr) : h.nodes[p].in = Renumber(gr.nodes[v], m).in
  <2>1. CASE /\ h.nodes[p].op \notin LoweredOps
             /\ \E v \in Values(gr) : p = m[v] /\ KeptAt(gr, h, m, v) /\ v \notin SecretProducts(gr)
    BY <2>1 DEF LoweredOps, KeptAt
  <2>2. CASE \E v \in Values(gr) : \E k \in Nat :
               SplitAt(gr, h, m, v, k) /\ (p = k + 1 \/ p = k + 2 \/ p = k + 3)
    <3>1. PICK v \in Values(gr), k \in Nat :
            SplitAt(gr, h, m, v, k) /\ (p = k + 1 \/ p = k + 2 \/ p = k + 3)
      BY <2>2
    <3>2. /\ Trio(h, k + 2) /\ h.nodes[k + 1].op = "MulLocal" /\ h.nodes[k + 2].op = "Round"
          /\ h.nodes[k + 3].op = "RoundResult"
          /\ h.nodes[k + 1].in = Renumber(gr.nodes[v], m).in
      BY <1>2, <3>1
    <3>3. CASE p = k + 1
      <4>1. p + 1 = k + 2
        BY <3>3
      <4> QED
        BY <3>2, <3>3, <4>1
    <3>4. CASE p = k + 2
      BY <3>2, <3>4
    <3>5. CASE p = k + 3
      <4>1. p - 1 = k + 2
        BY <3>5
      <4> QED
        BY <3>2, <3>5, <4>1
    <3> QED
      BY <3>1, <3>3, <3>4, <3>5
  <2> QED
    BY <2>1, <2>2, SplitOrigins
<1>4. ASSUME NEW p \in Values(h), h.nodes[p].op \notin {"Round", "RoundResult"},
             NEW j \in DOMAIN h.nodes[p].in
      PROVE  Whole(h, h.nodes[p].in[j])
  <2>1. PICK v \in Values(gr) : h.nodes[p].in = Renumber(gr.nodes[v], m).in
    BY <1>3, <1>4
  <2>4. gr.nodes[v] \in NodeType
    BY NodeFacts
  <2>5. Renumber(gr.nodes[v], m).in = [i \in DOMAIN gr.nodes[v].in |-> m[gr.nodes[v].in[i]]]
    BY <2>4, RenumberFacts
  <2>2. DOMAIN h.nodes[p].in = DOMAIN gr.nodes[v].in /\ h.nodes[p].in[j] = m[gr.nodes[v].in[j]]
    BY <2>1, <2>5
  <2>3. gr.nodes[v].in[j] \in Values(gr)
    BY <2>2, GraphFacts
  <2> QED
    BY <2>2, <2>3, SplitTargets
<1>5. ASSUME NEW j \in DOMAIN h.outputs
      PROVE  Whole(h, h.outputs[j].value)
  <2>1. Rebuilt(gr, em[Len(gr.nodes)], m, h)
    BY RebuildFacts DEF NewGraph
  <2>2. j \in DOMAIN gr.outputs /\ h.outputs[j].value = m[gr.outputs[j].value]
    BY <2>1 DEF Rebuilt
  <2>3. gr.outputs[j].value \in Values(gr)
    BY <2>2, OutputFacts DEF Sound
  <2> QED
    BY <2>2, <2>3, SplitTargets
<1> QED
  BY <1>3, <1>4, <1>5 DEF SplitShape, NodesOf

-----------------------------------------------------------------------------
(* round_schedule.                                                         *)

(* The elements of a set, each once, in order.                             *)
Strung(l, S, R) ==
  /\ l \in Seq(Nat)
  /\ \A p \in DOMAIN l : l[p] \in S
  /\ \A v \in S : \E p \in DOMAIN l : l[p] = v
  /\ \A p, q \in DOMAIN l : p < q => <<l[p], l[q]>> \in R

(* A list, then another one.                                               *)
Follow(j, l, m) ==
  /\ Len(j) = Len(l) + Len(m) /\ Len(l) \in Nat /\ Len(m) \in Nat
  /\ DOMAIN j = 1 .. Len(j) /\ DOMAIN l = 1 .. Len(l) /\ DOMAIN m = 1 .. Len(m)
  /\ \A p \in 1 .. Len(l) : j[p] = l[p]
  /\ \A p \in 1 .. Len(m) : j[Len(l) + p] = m[p]

LEMMA StrungTogether ==
  ASSUME NEW R, NEW S, NEW l, Strung(l, S, R), NEW T, NEW m, Strung(m, T, R),
         \A v \in S : \A w \in T : <<v, w>> \in R,
         NEW j, j = l \o m
  PROVE  Strung(j, S \cup T, R) /\ Follow(j, l, m)
<1>1. l \in Seq(Nat) /\ m \in Seq(Nat)
  BY DEF Strung
<1>2. /\ j \in Seq(Nat) /\ Len(j) = Len(l) + Len(m) /\ Len(l) \in Nat /\ Len(m) \in Nat
      /\ DOMAIN l = 1 .. Len(l) /\ DOMAIN m = 1 .. Len(m) /\ DOMAIN j = 1 .. (Len(l) + Len(m))
  BY <1>1, LenProperties
<1>3. \A p \in 1 .. Len(l) : j[p] = l[p] /\ p \in DOMAIN j
  BY <1>1, <1>2
<1>4. \A p \in 1 .. Len(m) : j[Len(l) + p] = m[p] /\ Len(l) + p \in DOMAIN j
  BY <1>1, <1>2
<1>5. Follow(j, l, m)
  BY <1>2, <1>3, <1>4 DEF Follow
<1>6. \A p \in DOMAIN j : \/ p \in DOMAIN l /\ j[p] = l[p] /\ l[p] \in S
                          \/ \E q \in DOMAIN m : p = Len(l) + q /\ j[p] = m[q] /\ m[q] \in T
  <2> SUFFICES ASSUME NEW p \in DOMAIN j, p \notin DOMAIN l
               PROVE  \E q \in DOMAIN m : p = Len(l) + q /\ j[p] = m[q] /\ m[q] \in T
    BY <1>2, <1>3 DEF Strung
  <2> DEFINE q == p - Len(l)
  <2>1. q \in DOMAIN m /\ p = Len(l) + q
    BY <1>2
  <2> HIDE DEF q
  <2>2. j[p] = m[q] /\ m[q] \in T
    BY <1>2, <1>4, <2>1 DEF Strung
  <2> QED
    BY <2>1, <2>2
<1>7. \A v \in S \cup T : \E p \in DOMAIN j : j[p] = v
  <2>1. \A v \in S : \E p \in DOMAIN l : l[p] = v
    BY DEF Strung
  <2>2. \A v \in T : \E p \in DOMAIN m : m[p] = v
    BY DEF Strung
  <2> QED
    <3>1. ASSUME NEW v \in S
          PROVE  \E p \in DOMAIN j : j[p] = v
      <4>1. PICK p \in DOMAIN l : l[p] = v
        BY <2>1
      <4> QED
        BY <1>2, <1>3, <1>4, <4>1
    <3>2. ASSUME NEW v \in T
          PROVE  \E p \in DOMAIN j : j[p] = v
      <4>1. PICK p \in DOMAIN m : m[p] = v
        BY <2>2
      <4>2. Len(l) + p \in DOMAIN j /\ j[Len(l) + p] = m[p]
        BY <1>2, <1>3, <1>4, <4>1
      <4> QED
        BY <4>1, <4>2
    <3> QED
      BY <3>1, <3>2
<1>8. ASSUME NEW p \in DOMAIN j, NEW q \in DOMAIN j, p < q
      PROVE  <<j[p], j[q]>> \in R
  <2>1. CASE p \in DOMAIN l /\ j[p] = l[p] /\ l[p] \in S
    <3>1. CASE q \in DOMAIN l /\ j[q] = l[q]
      BY <1>8, <2>1, <3>1 DEF Strung
    <3>2. CASE \E t \in DOMAIN m : q = Len(l) + t /\ j[q] = m[t] /\ m[t] \in T
      BY <2>1, <3>2
    <3> QED
      BY <1>6, <3>1, <3>2
  <2>2. CASE \E t \in DOMAIN m : p = Len(l) + t /\ j[p] = m[t] /\ m[t] \in T
    <3>1. PICK t \in DOMAIN m : p = Len(l) + t /\ j[p] = m[t]
      BY <2>2
    <3>2. q \notin DOMAIN l
      BY <1>2, <1>8, <3>1
    <3>3. PICK u \in DOMAIN m : q = Len(l) + u /\ j[q] = m[u]
      BY <1>6, <3>2
    <3>4. t < u
      BY <1>2, <1>8, <3>1, <3>3
    <3>5. <<m[t], m[u]>> \in R
      BY <3>4 DEF Strung
    <3> QED
      BY <3>1, <3>3, <3>5
  <2> QED
    BY <1>6, <2>1, <2>2
<1>9. \A p \in DOMAIN j : j[p] \in S \cup T
  BY <1>6
<1> QED
  BY <1>2, <1>5, <1>7, <1>8, <1>9 DEF Strung

LEMMA NothingStrung ==
  ASSUME NEW R
  PROVE  Strung(<<>>, {}, R)
<1>1. <<>> \in Seq(Nat) /\ DOMAIN <<>> = {}
  OBVIOUS
<1> QED
  BY <1>1 DEF Strung

LEMMA OneStrung ==
  ASSUME NEW R, NEW v \in Nat
  PROVE  Strung(<<v>>, {v}, R) /\ Len(<<v>>) = 1 /\ <<v>>[1] = v
<1>1. <<v>> \in Seq(Nat) /\ DOMAIN <<v>> = {1} /\ <<v>>[1] = v
  OBVIOUS
<1> QED
  BY <1>1 DEF Strung

(* Some values in their order.                                             *)
LEMMA AscendingStrung ==
  ASSUME NEW gr, Sound(gr), NEW S \in SUBSET Values(gr), NEW l, l = Ascending(S), NEW R,
         \A v, w \in S : v < w => <<v, w>> \in R
  PROVE  /\ Strung(l, S, R)
         /\ \A p, q \in DOMAIN l : p < q => l[p] < l[q]
         /\ l = <<>> <=> S = {}
         /\ DOMAIN l = 1 .. Len(l) /\ Len(l) \in Nat
<1>1. S \in SUBSET Nat /\ IsFiniteSet(S)
  <2>1. Values(gr) = 1 .. Len(gr.nodes) /\ Len(gr.nodes) \in Nat
    BY GraphFacts
  <2>2. IsFiniteSet(Values(gr))
    BY <2>1, FS_Interval
  <2>3. IsFiniteSet(S)
    BY <2>2, FS_Subset
  <2> QED
    BY <2>1, <2>3
<1>2. Rises(S, l)
  BY <1>1, AscendingFacts
<1>3. /\ DOMAIN l = 1 .. Cardinality(S)
      /\ \A p \in DOMAIN l : l[p] \in S
      /\ \A v \in S : \E p \in DOMAIN l : l[p] = v
      /\ \A p, q \in DOMAIN l : l[p] < l[q] <=> p < q
  BY <1>2 DEF Rises, Lists
<1>4. Cardinality(S) \in Nat
  BY <1>1, FS_CardinalityType
<1>5. l \in [1 .. Cardinality(S) -> Nat]
  <2> DEFINE c == Cardinality(S)
             g == [p \in 1 .. c |-> CHOOSE v \in S : Cardinality({w \in S : w < v}) = p - 1]
  <2>1. l = g
    BY DEF Ascending, Ordered
  <2>2. ASSUME NEW p \in 1 .. c
        PROVE  (CHOOSE v \in S : Cardinality({w \in S : w < v}) = p - 1) \in Nat
    <3>1. g[p] = CHOOSE v \in S : Cardinality({w \in S : w < v}) = p - 1
      OBVIOUS
    <3>2. g[p] \in Nat
      <4> HIDE DEF g
      <4> QED
        BY <1>1, <1>3, <2>1
    <3> QED
      BY <3>1, <3>2, Zenon
  <2>4. g \in [1 .. c -> Nat]
    BY <2>2, Zenon
  <2> QED
    BY <2>1, <2>4 DEF c
<1>6. l \in Seq(Nat) /\ Len(l) = Cardinality(S)
  BY <1>4, <1>5, ListOf
<1>7. Strung(l, S, R)
  BY <1>3, <1>6 DEF Strung
<1>8. l = <<>> <=> S = {}
  <2>1. ASSUME l = <<>> PROVE S = {}
    <3>1. DOMAIN l = {}
      BY <2>1
    <3> QED
      BY <1>3, <3>1
  <2>2. ASSUME S = {} PROVE l = <<>>
    <3>1. Len(l) = 0
      BY <1>6, <2>2, FS_EmptySet
    <3> QED
      BY <1>6, <3>1, EmptySeq
  <2> QED
    BY <2>1, <2>2
<1> QED
  BY <1>3, <1>4, <1>6, <1>7, <1>8

(* The levels of a product, its round and its result.                      *)
TrioLevels(gr, r) ==
  /\ r \in Nat /\ r - 1 \in Nat /\ r + 1 \in Nat
  /\ r - 1 \in Values(gr) /\ r \in Values(gr) /\ r + 1 \in Values(gr)
  /\ NetworkLevels(gr)[r] \in Nat
  /\ NetworkLevels(gr)[r - 1] = NetworkLevels(gr)[r]
  /\ NetworkLevels(gr)[r + 1] = NetworkLevels(gr)[r] + 1
  /\ gr.nodes[r - 1].op = "MulLocal"
  /\ gr.nodes[r].op = "Round" /\ gr.nodes[r].in[1] = r - 1
  /\ gr.nodes[r + 1].op = "RoundResult"

LEMMA TrioFacts ==
  ASSUME NEW gr, Sound(gr), NEW r, Trio(gr, r)
  PROVE  TrioLevels(gr, r)
<1> DEFINE l == NetworkLevels(gr)
           u == r - 1
           v == r + 1
<1>1. /\ u \in Values(gr) /\ r \in Values(gr) /\ v \in Values(gr)
      /\ gr.nodes[u].op = "MulLocal"
      /\ gr.nodes[r].op = "Round" /\ gr.nodes[r].in = <<u>>
      /\ gr.nodes[v].op = "RoundResult" /\ gr.nodes[v].in = <<r>>
  BY DEF Trio, Node
<1>2. u \in Nat /\ r \in Nat /\ v \in Nat
  BY <1>1, GraphFacts
<1>3. Leveled(gr, NetworkSites(gr), l)
  BY AxesFacts
<1> HIDE DEF l, u, v
<1>4. l[u] \in 0 .. u /\ l[r] \in Nat /\ l[u] \in Nat
  BY <1>1, <1>2, <1>3 DEF Leveled
<1>5. l[r] = Max({0} \cup {l[w] : w \in ToSet(gr.nodes[r].in)})
  <2>1. l[r] = NodeLevel(NetworkSites(gr), l, gr.nodes[r])
    BY <1>1, <1>3 DEF Leveled
  <2> QED
    BY <1>1, <2>1 DEF NodeLevel, LeafOps, ArithOps
<1>6. ToSet(gr.nodes[r].in) = {u}
  BY <1>1 DEF ToSet
<1>7. l[r] = l[u]
  <2> DEFINE s == {0} \cup {l[w] : w \in ToSet(gr.nodes[r].in)}
  <2>1. s = {0, l[u]}
    BY <1>6
  <2>2. s \in SUBSET (0 .. u) /\ s # {}
    BY <1>2, <1>4, <2>1
  <2> HIDE DEF s
  <2>3. Max(s) \in s /\ \A x \in s : x <= Max(s)
    BY <1>2, <2>2, LargestElement
  <2>4. l[r] = Max(s)
    BY <1>5 DEF s
  <2> QED
    BY <1>4, <2>1, <2>3, <2>4
<1>8. l[v] = l[r] + 1
  <2>1. LevelsGrowAt(gr, l, v)
    BY <1>1, <1>3, LevelsAlong
  <2> QED
    BY <1>1, <2>1 DEF LevelsGrowAt
<1>9. gr.nodes[r].in[1] = u
  BY <1>1
<1> QED
  BY <1>1, <1>2, <1>4, <1>7, <1>8, <1>9 DEF TrioLevels, u, v, l

(* Where a value goes: first by the level at which it is worked on, then   *)
(* what is local, the round, its results.                                  *)
Home(gr, v) ==
  IF gr.nodes[v].op = "RoundResult" THEN NetworkLevels(gr)[v] - 1 ELSE NetworkLevels(gr)[v]

Class(gr, v) ==
  CASE gr.nodes[v].op = "Round"       -> 1
    [] gr.nodes[v].op = "RoundResult" -> 2
    [] OTHER                          -> 0

SlotOrder(gr) ==
  {vw \in Values(gr) \X Values(gr) :
     \/ Home(gr, vw[1]) < Home(gr, vw[2])
     \/ Home(gr, vw[1]) = Home(gr, vw[2]) /\ Class(gr, vw[1]) < Class(gr, vw[2])
     \/ /\ Home(gr, vw[1]) = Home(gr, vw[2]) /\ Class(gr, vw[1]) = Class(gr, vw[2])
        /\ vw[1] < vw[2]}

SlotBefore(gr, v, w) ==
  \/ Home(gr, v) < Home(gr, w)
  \/ Home(gr, v) = Home(gr, w) /\ Class(gr, v) < Class(gr, w)
  \/ Home(gr, v) = Home(gr, w) /\ Class(gr, v) = Class(gr, w) /\ v < w

LEMMA SlotPair ==
  ASSUME NEW gr, NEW v \in Values(gr), NEW w \in Values(gr)
  PROVE  <<v, w>> \in SlotOrder(gr) <=> SlotBefore(gr, v, w)
  BY DEF SlotOrder, SlotBefore

LEMMA HomeFacts ==
  ASSUME NEW gr, Sound(gr), SplitShape(gr), NEW v \in Values(gr)
  PROVE  /\ v \in Nat /\ Home(gr, v) \in Nat /\ Class(gr, v) \in {0, 1, 2}
         /\ NetworkLevels(gr)[v] \in Nat
         /\ Class(gr, v) = 1 <=> gr.nodes[v].op = "Round"
         /\ Class(gr, v) = 2 <=> gr.nodes[v].op = "RoundResult"
         /\ Class(gr, v) # 2 => Home(gr, v) = NetworkLevels(gr)[v]
         /\ Class(gr, v) = 2 => /\ Home(gr, v) = NetworkLevels(gr)[v - 1]
                                /\ v - 1 \in NodesOf(gr, "Round")
                                /\ NetworkLevels(gr)[v] = Home(gr, v) + 1
<1>1. v \in Nat /\ NetworkLevels(gr)[v] \in Nat
  BY GraphFacts, AxesFacts, LevelsAlong DEF LevelsGrowAt
<1>2. CASE gr.nodes[v].op = "RoundResult"
  <2> DEFINE r == v - 1
  <2>1. Trio(gr, r) /\ r + 1 = v
    BY <1>1, <1>2 DEF SplitShape, NodesOf
  <2> HIDE DEF r
  <2>2. TrioLevels(gr, r)
    BY <2>1, TrioFacts
  <2>3. /\ NetworkLevels(gr)[v] = NetworkLevels(gr)[r] + 1 /\ NetworkLevels(gr)[r] \in Nat
        /\ r \in Values(gr) /\ gr.nodes[r].op = "Round"
    BY <2>1, <2>2 DEF TrioLevels
  <2>4. Home(gr, v) = NetworkLevels(gr)[v] - 1 /\ Class(gr, v) = 2
    BY <1>2 DEF Home, Class
  <2>5. Home(gr, v) = NetworkLevels(gr)[r]
    BY <2>3, <2>4
  <2>6. r \in NodesOf(gr, "Round")
    BY <2>3 DEF NodesOf
  <2> QED
    BY <1>1, <1>2, <2>3, <2>4, <2>5, <2>6 DEF r
<1>3. CASE gr.nodes[v].op # "RoundResult"
  BY <1>1, <1>3 DEF Home, Class
<1> QED
  BY <1>2, <1>3

(* The values of a network level, listed as the pass lists them.           *)
NetAt(gr, L) == {v \in Values(gr) : NetworkLevels(gr)[v] = L}

RoundSet(gr, L) == NetAt(gr, L) \cap NodesOf(gr, "Round")

PlainSet(gr, L) == NetAt(gr, L) \ (NodesOf(gr, "Round") \cup NodesOf(gr, "RoundResult"))

RoundsAt(gr, L) == Ascending(RoundSet(gr, L))

PlainAt(gr, L) == Ascending(PlainSet(gr, L))

ResultsAt(gr, L) == [k \in DOMAIN RoundsAt(gr, L) |-> RoundsAt(gr, L)[k] + 1]

UnitAt(gr, L) ==
  IF RoundsAt(gr, L) = <<>> THEN <<>> ELSE <<RoundsAt(gr, L)[1]>> \o ResultsAt(gr, L)

BlockAt(gr, L) == PlainAt(gr, L) \o UnitAt(gr, L)

(* All values but the rounds a merged one stands for.                      *)
Slots(gr) == {v \in Values(gr) : Class(gr, v) # 1 \/ v = RoundsAt(gr, Home(gr, v))[1]}

SlotsAt(gr, L) == {v \in Slots(gr) : Home(gr, v) = L}

(* A round is followed by its results.                                     *)
UnitPlaced(gr, L, l) ==
  RoundsAt(gr, L) # <<>> =>
    \E b \in Nat :
      /\ b \in DOMAIN l /\ l[b] = RoundsAt(gr, L)[1]
      /\ \A k \in DOMAIN RoundsAt(gr, L) : b + k \in DOMAIN l /\ l[b + k] = RoundsAt(gr, L)[k] + 1

LEMMA RoundsListed ==
  ASSUME NEW gr, Sound(gr), SplitShape(gr), NEW L \in Nat, NEW l, l = RoundsAt(gr, L)
  PROVE  /\ l \in Seq(Nat) /\ DOMAIN l = 1 .. Len(l) /\ Len(l) \in Nat
         /\ l # <<>> => 1 \in DOMAIN l
         /\ l = <<>> <=> RoundSet(gr, L) = {}
         /\ \A p \in DOMAIN l : /\ l[p] \in Values(gr) /\ l[p] \in Nat
                                /\ gr.nodes[l[p]].op = "Round"
                                /\ NetworkLevels(gr)[l[p]] = L
                                /\ Class(gr, l[p]) = 1 /\ Home(gr, l[p]) = L
                                /\ TrioLevels(gr, l[p])
         /\ \A v \in RoundSet(gr, L) : \E p \in DOMAIN l : l[p] = v
         /\ \A p, q \in DOMAIN l : p < q => l[p] < l[q]
<1> DEFINE S == RoundSet(gr, L)
           R == {vw \in S \X S : vw[1] < vw[2]}
<1>1. S \in SUBSET Values(gr) /\ \A v, w \in S : v < w => <<v, w>> \in R
  BY DEF RoundSet, NetAt
<1>2. l = Ascending(S)
  BY DEF RoundsAt
<1> HIDE DEF S, R
<1>3. /\ Strung(l, S, R) /\ \A p, q \in DOMAIN l : p < q => l[p] < l[q]
      /\ l = <<>> <=> S = {}
      /\ DOMAIN l = 1 .. Len(l) /\ Len(l) \in Nat
  BY <1>1, <1>2, AscendingStrung
<1>4. ASSUME NEW p \in DOMAIN l
      PROVE  /\ l[p] \in Values(gr) /\ l[p] \in Nat
             /\ gr.nodes[l[p]].op = "Round"
             /\ NetworkLevels(gr)[l[p]] = L
             /\ Class(gr, l[p]) = 1 /\ Home(gr, l[p]) = L
             /\ TrioLevels(gr, l[p])
  <2>1. /\ l[p] \in Values(gr) /\ gr.nodes[l[p]].op = "Round" /\ NetworkLevels(gr)[l[p]] = L
        /\ l[p] \in NodesOf(gr, "Round")
    BY <1>3 DEF Strung, S, RoundSet, NetAt, NodesOf
  <2>2. TrioLevels(gr, l[p])
    BY <2>1, TrioFacts DEF SplitShape
  <2>3. Class(gr, l[p]) = 1 /\ Home(gr, l[p]) = L
    BY <2>1 DEF Class, Home
  <2> QED
    BY <2>1, <2>2, <2>3 DEF TrioLevels
<1>5. l # <<>> => 1 \in DOMAIN l
  <2> SUFFICES ASSUME l # <<>> PROVE 1 \in DOMAIN l
    OBVIOUS
  <2>1. Len(l) # 0
    BY <1>3, EmptySeq DEF Strung
  <2> QED
    BY <1>3, <2>1
<1> QED
  BY <1>3, <1>4, <1>5 DEF Strung, S

LEMMA ResultsStrung ==
  ASSUME NEW gr, Sound(gr), SplitShape(gr), NEW L \in Nat, NEW l, l = ResultsAt(gr, L),
         NEW T, T = {v \in Values(gr) : Class(gr, v) = 2 /\ Home(gr, v) = L}
  PROVE  /\ Strung(l, T, SlotOrder(gr)) /\ Len(l) = Len(RoundsAt(gr, L))
         /\ DOMAIN l = DOMAIN RoundsAt(gr, L)
         /\ \A k \in DOMAIN l : l[k] = RoundsAt(gr, L)[k] + 1
<1> DEFINE q == RoundsAt(gr, L)
<1>1. /\ q \in Seq(Nat) /\ DOMAIN q = 1 .. Len(q) /\ Len(q) \in Nat
      /\ \A p \in DOMAIN q : /\ q[p] \in Values(gr) /\ q[p] \in Nat
                             /\ NetworkLevels(gr)[q[p]] = L /\ TrioLevels(gr, q[p])
      /\ \A v \in RoundSet(gr, L) : \E p \in DOMAIN q : q[p] = v
      /\ \A p, s \in DOMAIN q : p < s => q[p] < q[s]
  BY RoundsListed
<1>2. l = [k \in DOMAIN q |-> q[k] + 1]
  BY DEF ResultsAt
<1> HIDE DEF q
<1>3. l \in [1 .. Len(q) -> Nat]
  BY <1>1, <1>2
<1>4. l \in Seq(Nat) /\ Len(l) = Len(q)
  BY <1>1, <1>3, ListOf
<1>5. DOMAIN l = DOMAIN q /\ \A k \in DOMAIN l : l[k] = q[k] + 1
  BY <1>2
<1>6. ASSUME NEW k \in DOMAIN l
      PROVE  l[k] \in T
  <2>1. /\ q[k] + 1 \in Values(gr) /\ gr.nodes[q[k] + 1].op = "RoundResult"
        /\ NetworkLevels(gr)[q[k] + 1] = L + 1
    BY <1>1, <1>5 DEF TrioLevels
  <2>2. Class(gr, q[k] + 1) = 2 /\ Home(gr, q[k] + 1) = L
    BY <2>1 DEF Class, Home
  <2> QED
    BY <1>5, <2>1, <2>2
<1>7. ASSUME NEW v \in T
      PROVE  \E k \in DOMAIN l : l[k] = v
  <2>1. v - 1 \in NodesOf(gr, "Round") /\ NetworkLevels(gr)[v - 1] = L /\ v \in Nat
    BY HomeFacts
  <2>2. v - 1 \in RoundSet(gr, L)
    BY <2>1 DEF RoundSet, NetAt, NodesOf
  <2>3. PICK k \in DOMAIN q : q[k] = v - 1
    BY <1>1, <2>2
  <2>4. k \in DOMAIN l /\ l[k] = v
    BY <1>5, <2>1, <2>3
  <2> QED
    BY <2>4
<1>8. ASSUME NEW p \in DOMAIN l, NEW s \in DOMAIN l, p < s
      PROVE  <<l[p], l[s]>> \in SlotOrder(gr)
  <2>1. l[p] \in T /\ l[s] \in T
    BY <1>6
  <2>2. q[p] \in Nat /\ q[s] \in Nat /\ q[p] < q[s] /\ l[p] = q[p] + 1 /\ l[s] = q[s] + 1
    BY <1>1, <1>5, <1>8
  <2>3. l[p] < l[s]
    BY <2>2
  <2>4. SlotBefore(gr, l[p], l[s])
    BY <2>1, <2>3 DEF SlotBefore
  <2> QED
    BY <2>1, <2>4, SlotPair
<1>9. Strung(l, T, SlotOrder(gr))
  BY <1>4, <1>6, <1>7, <1>8 DEF Strung
<1> QED
  BY <1>4, <1>5, <1>9 DEF q

LEMMA BlockStrung ==
  ASSUME NEW gr, Sound(gr), SplitShape(gr), NEW L \in Nat, NEW l, l = BlockAt(gr, L)
  PROVE  Strung(l, SlotsAt(gr, L), SlotOrder(gr)) /\ UnitPlaced(gr, L, l)
<1> DEFINE R == SlotOrder(gr)
           q == RoundsAt(gr, L)
           a == PlainAt(gr, L)
           A == PlainSet(gr, L)
           t == ResultsAt(gr, L)
           T == {v \in Values(gr) : Class(gr, v) = 2 /\ Home(gr, v) = L}
<1>1. /\ q \in Seq(Nat) /\ DOMAIN q = 1 .. Len(q) /\ Len(q) \in Nat
      /\ q # <<>> => 1 \in DOMAIN q
      /\ q = <<>> <=> RoundSet(gr, L) = {}
      /\ \A p \in DOMAIN q : /\ q[p] \in Values(gr) /\ q[p] \in Nat
                             /\ Class(gr, q[p]) = 1 /\ Home(gr, q[p]) = L
  BY RoundsListed
<1>2. /\ Strung(t, T, R) /\ Len(t) = Len(q) /\ DOMAIN t = DOMAIN q
      /\ \A k \in DOMAIN t : t[k] = q[k] + 1
  <2> PICK tt, TT : tt = t /\ TT = T
    OBVIOUS
  <2>1. tt = ResultsAt(gr, L) /\ TT = {v \in Values(gr) : Class(gr, v) = 2 /\ Home(gr, v) = L}
    OBVIOUS
  <2>2. /\ Strung(tt, TT, SlotOrder(gr)) /\ Len(tt) = Len(RoundsAt(gr, L))
        /\ DOMAIN tt = DOMAIN RoundsAt(gr, L)
        /\ \A k \in DOMAIN tt : tt[k] = RoundsAt(gr, L)[k] + 1
    BY <2>1, ResultsStrung
  <2> QED
    BY <2>2
<1>3. \A v \in Values(gr) : v \in A <=> Class(gr, v) = 0 /\ Home(gr, v) = L
  BY HomeFacts DEF PlainSet, NetAt, NodesOf, Class, Home
<1>4. A \in SUBSET Values(gr)
  BY DEF PlainSet, NetAt
<1>5. Strung(a, A, R)
  <2>1. ASSUME NEW v \in A, NEW w \in A, v < w
        PROVE  <<v, w>> \in R
    <3>1. SlotBefore(gr, v, w)
      BY <1>3, <1>4, <2>1 DEF SlotBefore
    <3> QED
      BY <1>4, <3>1, SlotPair
  <2>2. a = Ascending(A)
    BY DEF PlainAt
  <2> HIDE DEF A, a, R
  <2> QED
    BY <1>4, <2>1, <2>2, AscendingStrung
<1>6. l = a \o UnitAt(gr, L)
  BY DEF BlockAt
<1>7. \A v \in T : v \in Values(gr) /\ Class(gr, v) = 2 /\ Home(gr, v) = L
  OBVIOUS
<1>8. \A v \in Values(gr) : Class(gr, v) = 2 /\ Home(gr, v) = L => v \in T
  OBVIOUS
<1>9. \A v \in Values(gr) : Class(gr, v) = 1 /\ Home(gr, v) = L => v \in RoundSet(gr, L)
  BY HomeFacts DEF RoundSet, NetAt, NodesOf, Home
<1> HIDE DEF R, q, a, A, t, T
<1>10. CASE q = <<>>
  <2>1. UnitAt(gr, L) = <<>>
    BY <1>10 DEF UnitAt, q
  <2>2. DOMAIN q = {} /\ T = {}
    <3>1. DOMAIN q = {}
      BY <1>10
    <3> QED
      BY <1>2, <3>1 DEF Strung
  <2>3. Strung(l, A \cup {}, R)
    <3>1. Strung(<<>>, {}, R)
      BY NothingStrung
    <3>2. \A v \in A : \A w \in {} : <<v, w>> \in R
      OBVIOUS
    <3> QED
      BY <1>5, <1>6, <2>1, <3>1, <3>2, StrungTogether
  <2>4. SlotsAt(gr, L) = A
    <3>1. ASSUME NEW v \in SlotsAt(gr, L)
          PROVE  v \in A
      <4>1. v \in Values(gr) /\ Home(gr, v) = L /\ Class(gr, v) \in {0, 1, 2}
        BY HomeFacts DEF SlotsAt, Slots
      <4>2. Class(gr, v) # 1 /\ Class(gr, v) # 2
        BY <1>1, <1>8, <1>9, <1>10, <2>2, <4>1
      <4> QED
        BY <1>3, <4>1, <4>2
    <3>2. ASSUME NEW v \in A
          PROVE  v \in SlotsAt(gr, L)
      BY <1>3, <1>4 DEF SlotsAt, Slots
    <3> QED
      BY <3>1, <3>2
  <2> QED
    BY <1>10, <2>3, <2>4 DEF UnitPlaced, q, R
<1>11. CASE q # <<>>
  <2> DEFINE b == q[1]
             u == <<b>> \o t
  <2>1. 1 \in DOMAIN q /\ b \in Nat /\ b \in Values(gr) /\ Class(gr, b) = 1 /\ Home(gr, b) = L
    BY <1>1, <1>11
  <2>2. UnitAt(gr, L) = u
    BY <1>11 DEF UnitAt, q, t
  <2> HIDE DEF b
  <2>3. Strung(<<b>>, {b}, R) /\ Len(<<b>>) = 1 /\ <<b>>[1] = b
    BY <2>1, OneStrung
  <2>4. ASSUME NEW v \in {b}, NEW w \in T
        PROVE  <<v, w>> \in R
    <3>1. SlotBefore(gr, v, w)
      BY <1>7, <2>1, <2>4 DEF SlotBefore
    <3> QED
      BY <1>7, <2>1, <3>1, SlotPair DEF R
  <2>5. Strung(u, {b} \cup T, R) /\ Follow(u, <<b>>, t)
    <3>1. PICK s : s = <<b>>
      OBVIOUS
    <3>2. PICK B : B = {b}
      OBVIOUS
    <3>3. Strung(s, B, R) /\ u = s \o t
      BY <2>3, <3>1, <3>2
    <3>4. \A v \in B : \A w \in T : <<v, w>> \in R
      BY <2>4, <3>2
    <3> HIDE DEF u
    <3>5. Strung(u, B \cup T, R) /\ Follow(u, s, t)
      BY <1>2, <3>3, <3>4, StrungTogether
    <3> QED
      BY <3>1, <3>2, <3>5
  <2> HIDE DEF u
  <2>6. ASSUME NEW v \in A, NEW w \in {b} \cup T
        PROVE  <<v, w>> \in R
    <3>1. Class(gr, v) = 0 /\ Home(gr, v) = L /\ v \in Values(gr)
      BY <1>3, <1>4
    <3>2. Class(gr, w) \in {1, 2} /\ Home(gr, w) = L /\ w \in Values(gr)
      BY <1>7, <2>1
    <3>3. SlotBefore(gr, v, w)
      BY <3>1, <3>2 DEF SlotBefore
    <3> QED
      BY <3>1, <3>2, <3>3, SlotPair DEF R
  <2>7. Strung(l, A \cup ({b} \cup T), R) /\ Follow(l, a, u)
    BY <1>5, <1>6, <2>2, <2>5, <2>6, StrungTogether
  <2>8. SlotsAt(gr, L) = A \cup ({b} \cup T)
    <3>1. ASSUME NEW v \in SlotsAt(gr, L)
          PROVE  v \in A \cup ({b} \cup T)
      <4>1. v \in Values(gr) /\ Home(gr, v) = L /\ Class(gr, v) \in {0, 1, 2}
            /\ (Class(gr, v) # 1 \/ v = RoundsAt(gr, L)[1])
        BY HomeFacts DEF SlotsAt, Slots
      <4>2. v = RoundsAt(gr, L)[1] => v = b
        BY DEF b, q
      <4> QED
        BY <1>3, <1>8, <4>1, <4>2
    <3>2. ASSUME NEW v \in A \cup ({b} \cup T)
          PROVE  v \in SlotsAt(gr, L)
      <4>1. v \in Values(gr) /\ Home(gr, v) = L /\ (v = b \/ Class(gr, v) # 1)
        BY <1>3, <1>4, <1>7, <2>1
      <4>2. v = b => v = RoundsAt(gr, Home(gr, v))[1]
        BY <4>1 DEF b, q
      <4> QED
        BY <4>1, <4>2 DEF SlotsAt, Slots
    <3> QED
      BY <3>1, <3>2
  <2>9. UnitPlaced(gr, L, l)
    <3> DEFINE c == Len(a) + 1
    <3>0. /\ Len(a) \in Nat /\ Len(u) = 1 + Len(q) /\ Len(t) = Len(q) /\ DOMAIN l = 1 .. Len(l)
          /\ Len(l) = Len(a) + Len(u)
          /\ \A p \in 1 .. Len(u) : l[Len(a) + p] = u[p]
          /\ u[1] = b /\ \A p \in 1 .. Len(q) : u[1 + p] = t[p]
      <4>1. Len(u) = 1 + Len(q) /\ \A p \in 1 .. Len(q) : u[1 + p] = t[p]
        BY <1>2, <2>3, <2>5 DEF Follow
      <4>2. u[1] = <<b>>[1]
        <5>1. 1 \in 1 .. 1
          OBVIOUS
        <5> QED
          BY <2>3, <2>5, <5>1 DEF Follow
      <4> QED
        BY <1>2, <2>3, <2>7, <4>1, <4>2 DEF Follow
    <3>1. c \in Nat /\ c \in DOMAIN l /\ l[c] = b
      BY <1>1, <3>0
    <3>2. ASSUME NEW k \in DOMAIN q
          PROVE  c + k \in DOMAIN l /\ l[c + k] = q[k] + 1
      <4>0. k \in 1 .. Len(q) /\ k \in Nat /\ Len(q) \in Nat
        BY <1>1
      <4>4. 1 + k \in 1 .. (1 + Len(q))
        BY <4>0
      <4>1. k \in 1 .. Len(q) /\ 1 + k \in 1 .. Len(u) /\ Len(a) + (1 + k) = c + k
        BY <3>0, <4>0, <4>4
      <4>2. l[c + k] = t[k]
        BY <3>0, <4>1
      <4>3. c + k \in DOMAIN l
        BY <1>1, <3>0, <4>1
      <4> QED
        BY <1>2, <4>2, <4>3
    <3> HIDE DEF c
    <3> QED
      BY <3>1, <3>2 DEF UnitPlaced, q, b
  <2> QED
    BY <2>7, <2>8, <2>9 DEF R
<1> QED
  BY <1>10, <1>11

(* The layout of the pass.                                                 *)
TopLevel(gr) == Max({0} \cup ToSet(NetworkLevels(gr)))

LevelBlocks(gr) == [j \in 1 .. (TopLevel(gr) + 1) |-> BlockAt(gr, j - 1)]

SlotList(gr) == FlattenSeq(LevelBlocks(gr))

SlotsBelow(gr, L) == {v \in Slots(gr) : Home(gr, v) < L}

LaidOutTo(gr, l, n) ==
  /\ Strung(l, SlotsBelow(gr, n), SlotOrder(gr))
  /\ \A L \in 0 .. (n - 1) : UnitPlaced(gr, L, l)

(* A list that begins with another one, or ends with it, has its rounds    *)
(* in place.                                                               *)
LEMMA UnitShifted ==
  ASSUME NEW gr, Sound(gr), SplitShape(gr), NEW L \in Nat, NEW a, NEW b, NEW l, Follow(l, a, b),
         UnitPlaced(gr, L, a) \/ UnitPlaced(gr, L, b)
  PROVE  UnitPlaced(gr, L, l)
<1> DEFINE q == RoundsAt(gr, L)
<1>1. /\ Len(a) \in Nat /\ Len(b) \in Nat /\ DOMAIN a = 1 .. Len(a) /\ DOMAIN b = 1 .. Len(b)
      /\ DOMAIN l = 1 .. (Len(a) + Len(b))
      /\ \A p \in 1 .. Len(a) : l[p] = a[p]
      /\ \A p \in 1 .. Len(b) : l[Len(a) + p] = b[p]
  BY DEF Follow
<1>2. DOMAIN q = 1 .. Len(q) /\ Len(q) \in Nat
  BY RoundsListed
<1> HIDE DEF q
<1> SUFFICES ASSUME q # <<>>
             PROVE  \E c \in Nat : /\ c \in DOMAIN l /\ l[c] = q[1]
                                   /\ \A k \in DOMAIN q : c + k \in DOMAIN l /\ l[c + k] = q[k] + 1
  BY DEF UnitPlaced, q
<1>3. CASE UnitPlaced(gr, L, a)
  <2>1. PICK c \in Nat : /\ c \in DOMAIN a /\ a[c] = q[1]
                         /\ \A k \in DOMAIN q : c + k \in DOMAIN a /\ a[c + k] = q[k] + 1
    BY <1>3 DEF UnitPlaced, q
  <2>2. \A p \in DOMAIN a : p \in DOMAIN l /\ l[p] = a[p]
    BY <1>1
  <2> QED
    BY <2>1, <2>2
<1>4. CASE UnitPlaced(gr, L, b)
  <2>1. PICK d \in Nat : /\ d \in DOMAIN b /\ b[d] = q[1]
                         /\ \A k \in DOMAIN q : d + k \in DOMAIN b /\ b[d + k] = q[k] + 1
    BY <1>4 DEF UnitPlaced, q
  <2>2. \A p \in DOMAIN b : Len(a) + p \in DOMAIN l /\ l[Len(a) + p] = b[p]
    BY <1>1
  <2> DEFINE c == Len(a) + d
  <2>3. c \in Nat /\ c \in DOMAIN l /\ l[c] = q[1]
    BY <1>1, <2>1, <2>2
  <2>4. ASSUME NEW k \in DOMAIN q
        PROVE  c + k \in DOMAIN l /\ l[c + k] = q[k] + 1
    <3>1. c + k = Len(a) + (d + k)
      BY <1>1, <1>2, <2>1
    <3>2. d + k \in DOMAIN b /\ b[d + k] = q[k] + 1
      BY <2>1
    <3> QED
      BY <2>2, <3>1, <3>2
  <2> HIDE DEF c
  <2> QED
    BY <2>3, <2>4
<1> QED
  BY <1>3, <1>4

(* One more level.                                                         *)
LEMMA LevelLaidOut ==
  ASSUME NEW gr, Sound(gr), SplitShape(gr), NEW n \in Nat, NEW a, LaidOutTo(gr, a, n),
         NEW b, b = BlockAt(gr, n), NEW l, l = a \o b
  PROVE  LaidOutTo(gr, l, n + 1)
<1> DEFINE S == SlotsBelow(gr, n)
           T == SlotsAt(gr, n)
           R == SlotOrder(gr)
<1>1. Strung(b, T, R) /\ UnitPlaced(gr, n, b)
  BY BlockStrung
<1>2. ASSUME NEW v \in S, NEW w \in T
      PROVE  <<v, w>> \in R
  <2>1. /\ v \in Values(gr) /\ w \in Values(gr) /\ Home(gr, v) < n /\ Home(gr, w) = n
    BY DEF SlotsBelow, SlotsAt, Slots
  <2>2. SlotBefore(gr, v, w)
    BY <2>1 DEF SlotBefore
  <2> QED
    BY <2>1, <2>2, SlotPair
<1>3. Strung(a, S, R)
  BY DEF LaidOutTo
<1> HIDE DEF S, T, R
<1>4. Strung(l, S \cup T, R) /\ Follow(l, a, b)
  BY <1>1, <1>2, <1>3, StrungTogether
<1>5. S \cup T = SlotsBelow(gr, n + 1)
  <2>1. \A v \in Slots(gr) : Home(gr, v) < n + 1 <=> Home(gr, v) < n \/ Home(gr, v) = n
    <3> SUFFICES ASSUME NEW v \in Slots(gr)
                 PROVE  Home(gr, v) < n + 1 <=> Home(gr, v) < n \/ Home(gr, v) = n
      OBVIOUS
    <3>1. Home(gr, v) \in Nat
      BY HomeFacts DEF Slots
    <3> QED
      BY <3>1
  <2> QED
    BY <2>1 DEF S, T, SlotsBelow, SlotsAt
<1>6. ASSUME NEW L \in 0 .. ((n + 1) - 1)
      PROVE  UnitPlaced(gr, L, l)
  <2>1. L \in Nat /\ (L = n \/ L \in 0 .. (n - 1))
    OBVIOUS
  <2>2. UnitPlaced(gr, L, a) \/ UnitPlaced(gr, L, b)
    BY <1>1, <2>1 DEF LaidOutTo
  <2> QED
    BY <1>4, <2>1, <2>2, UnitShifted
<1> QED
  BY <1>4, <1>5, <1>6 DEF LaidOutTo, R

LEMMA TopFacts ==
  ASSUME NEW gr, Sound(gr), SplitShape(gr)
  PROVE  /\ TopLevel(gr) \in Nat
         /\ \A v \in Values(gr) : NetworkLevels(gr)[v] <= TopLevel(gr)
                                  /\ Home(gr, v) <= TopLevel(gr)
<1> DEFINE l == NetworkLevels(gr)
           s == {0} \cup ToSet(l)
           n == Len(gr.nodes)
<1>1. n \in Nat /\ Values(gr) = 1 .. n
  BY GraphFacts
<1>2. DOMAIN l = Values(gr) /\ \A v \in Values(gr) : l[v] \in 0 .. v
  BY AxesFacts DEF Leveled
<1>3. TopLevel(gr) = Max(s)
  BY DEF TopLevel
<1> HIDE DEF l, n
<1>4. \A v \in Values(gr) : l[v] \in s /\ l[v] \in 0 .. n
  BY <1>1, <1>2 DEF ToSet
<1>5. s \in SUBSET (0 .. n) /\ s # {}
  BY <1>1, <1>2, <1>4 DEF ToSet
<1> HIDE DEF s
<1>6. Max(s) \in s /\ \A x \in s : x <= Max(s)
  BY <1>1, <1>5, LargestElement
<1>7. Max(s) \in Nat
  <2>1. Max(s) \in 0 .. n
    BY <1>5, <1>6
  <2> QED
    BY <1>1, <2>1
<1>8. ASSUME NEW v \in Values(gr)
      PROVE  l[v] <= Max(s) /\ Home(gr, v) <= Max(s)
  <2>1. l[v] \in Nat /\ l[v] <= Max(s)
    BY <1>4, <1>6
  <2>2. Home(gr, v) = l[v] \/ Home(gr, v) = l[v] - 1
    BY DEF Home, l
  <2> QED
    BY <1>7, <2>1, <2>2
<1> QED
  BY <1>3, <1>7, <1>8 DEF l

(* The layout lists every slot once, in the order of levels and classes.   *)
LEMMA SlotListFacts ==
  ASSUME NEW gr, Sound(gr), SplitShape(gr), NEW l, l = SlotList(gr)
  PROVE  /\ Strung(l, Slots(gr), SlotOrder(gr))
         /\ \A L \in Nat : UnitPlaced(gr, L, l)
<1> DEFINE ss == LevelBlocks(gr)
           N == TopLevel(gr) + 1
           f == CHOOSE g : ObeysFlatten(ss, g, N)
<1>1. N \in Nat /\ N # 0 /\ N - 1 = TopLevel(gr)
  BY TopFacts
<1>2. DOMAIN ss = 1 .. N /\ \A j \in 1 .. N : ss[j] = BlockAt(gr, j - 1)
  BY DEF LevelBlocks
<1>3. Len(ss) = N
  <2>1. ss = [j \in 1 .. N |-> BlockAt(gr, j - 1)]
    BY DEF LevelBlocks
  <2>2. ss \in [1 .. N -> {BlockAt(gr, j - 1) : j \in 1 .. N}]
    BY <2>1
  <2> HIDE DEF ss, N
  <2> QED
    BY <1>1, <2>2, ListOf
<1>4. ObeysFlatten(ss, f, N)
  <2> HIDE DEF ss, N
  <2> QED
    BY <1>1, FlattenRecursionExists
<1>5. l = f[N]
  <2>1. SlotList(gr) = FlattenSeq(ss)
    BY DEF SlotList
  <2> HIDE DEF ss, N
  <2>2. FlattenSeq(ss) = (CHOOSE g : ObeysFlatten(ss, g, N))[N]
    BY <1>1, <1>3 DEF FlattenSeq, ObeysFlatten, FlattenStep
  <2> QED
    BY <2>1, <2>2
<1> HIDE DEF f, ss, N
<1>6. f[1] = ss[1] /\ \A j \in 1 .. N : j # 1 => f[j] = f[j - 1] \o ss[j]
  <2>1. \A j \in 1 .. N : f[j] = FlattenStep(ss, f, j)
    BY <1>4 DEF ObeysFlatten
  <2>2. 1 \in 1 .. N
    BY <1>1
  <2>3. f[1] = FlattenStep(ss, f, 1)
    BY <2>1, <2>2
  <2>4. f[1] = ss[1]
    BY <2>3 DEF FlattenStep
  <2>5. ASSUME NEW j \in 1 .. N, j # 1
        PROVE  f[j] = f[j - 1] \o ss[j]
    <3>1. f[j] = FlattenStep(ss, f, j)
      BY <2>1
    <3> QED
      BY <2>5, <3>1 DEF FlattenStep
  <2> QED
    BY <2>4, <2>5
<1> DEFINE Good(n) == LaidOutTo(gr, f[n], n)
           T == {n \in Nat : n + 1 <= N => Good(n + 1)}
<1>7. 0 \in T
  <2>1. f[1] = BlockAt(gr, 0)
    BY <1>1, <1>2, <1>6
  <2>2. Strung(f[1], SlotsAt(gr, 0), SlotOrder(gr)) /\ UnitPlaced(gr, 0, f[1])
    BY <2>1, BlockStrung
  <2>3. SlotsAt(gr, 0) = SlotsBelow(gr, 1)
    <3>1. \A v \in Slots(gr) : Home(gr, v) \in Nat
      BY HomeFacts DEF Slots
    <3> QED
      BY <3>1 DEF SlotsAt, SlotsBelow
  <2>4. \A L \in 0 .. (1 - 1) : L = 0
    OBVIOUS
  <2>5. Good(1)
    BY <2>2, <2>3, <2>4 DEF LaidOutTo
  <2>6. 0 + 1 = 1
    OBVIOUS
  <2> HIDE DEF Good
  <2> QED
    BY <2>5, <2>6
<1>8. ASSUME NEW n \in T
      PROVE  n + 1 \in T
  <2> DEFINE m == n + 1
  <2>0. m \in Nat /\ m + 1 # 1 /\ (m + 1) - 1 = m
    OBVIOUS
  <2> SUFFICES ASSUME m + 1 <= N PROVE Good(m + 1)
    OBVIOUS
  <2>1. Good(m)
    BY <1>1
  <2>2. m + 1 \in 1 .. N
    BY <1>1
  <2> HIDE DEF m, T
  <2>3. f[m + 1] = f[m] \o BlockAt(gr, m)
    BY <1>2, <1>6, <2>0, <2>2
  <2> QED
    BY <2>0, <2>1, <2>3, LevelLaidOut
<1>9. T = Nat
  <2> HIDE DEF T
  <2>1. T \in SUBSET Nat
    BY DEF T
  <2> QED
    BY <1>7, <1>8, <2>1, NaturalsFrom0
<1>10. LaidOutTo(gr, l, N)
  <2>1. N - 1 \in T /\ (N - 1) + 1 = N
    BY <1>1, <1>9
  <2> QED
    BY <1>5, <2>1
<1>11. SlotsBelow(gr, N) = Slots(gr)
  <2>1. \A v \in Slots(gr) : Home(gr, v) < N
    <3> SUFFICES ASSUME NEW v \in Slots(gr) PROVE Home(gr, v) < N
      OBVIOUS
    <3>1. v \in Values(gr)
      BY DEF Slots
    <3>2. Home(gr, v) \in Nat /\ Home(gr, v) <= TopLevel(gr) /\ TopLevel(gr) \in Nat
      BY <3>1, HomeFacts, TopFacts
    <3> QED
      BY <3>2 DEF N
  <2> QED
    BY <2>1 DEF SlotsBelow
<1>12. ASSUME NEW L \in Nat
       PROVE  UnitPlaced(gr, L, l)
  <2>1. CASE L \in 0 .. (N - 1)
    BY <1>10, <2>1 DEF LaidOutTo
  <2>2. CASE L \notin 0 .. (N - 1)
    <3>1. L > TopLevel(gr) /\ TopLevel(gr) \in Nat
      BY <1>1, <2>2, TopFacts
    <3>2. RoundSet(gr, L) = {}
      <4> SUFFICES ASSUME NEW v \in RoundSet(gr, L) PROVE FALSE
        OBVIOUS
      <4>1. v \in Values(gr) /\ NetworkLevels(gr)[v] = L
        BY DEF RoundSet, NetAt
      <4>2. L <= TopLevel(gr)
        BY <4>1, TopFacts
      <4> QED
        BY <3>1, <4>2
    <3>3. RoundsAt(gr, L) = <<>>
      BY <3>2, RoundsListed
    <3> QED
      BY <3>3 DEF UnitPlaced
  <2> QED
    BY <2>1, <2>2
<1> QED
  BY <1>10, <1>11, <1>12 DEF LaidOutTo

(* Where a slot stands, and what stands there.                             *)
SlotPlace(gr) ==
  [v \in ToSet(SlotList(gr)) |-> CHOOSE p \in DOMAIN SlotList(gr) : SlotList(gr)[p] = v]

MergedId(gr, L) == Cardinality({K \in 0 .. L : RoundsAt(gr, K) # <<>>})

MergedIn(gr, L) ==
  [k \in DOMAIN RoundsAt(gr, L) |-> SlotPlace(gr)[gr.nodes[RoundsAt(gr, L)[k]].in[1]]]

Number(gr, L, v) == CHOOSE j \in DOMAIN ResultsAt(gr, L) : ResultsAt(gr, L)[j] = v

Regrouped(gr, v) ==
  CASE gr.nodes[v].op = "Round" ->
         Node("Round", MergedId(gr, NetworkLevels(gr)[v]), MergedIn(gr, NetworkLevels(gr)[v]))
    [] gr.nodes[v].op = "RoundResult" ->
         Node("RoundResult", Number(gr, NetworkLevels(gr)[v] - 1, v) - 1,
              <<SlotPlace(gr)[RoundsAt(gr, NetworkLevels(gr)[v] - 1)[1]]>>)
    [] OTHER -> Renumber(gr.nodes[v], SlotPlace(gr))

RegroupedNodes(gr) == [p \in DOMAIN SlotList(gr) |-> Regrouped(gr, SlotList(gr)[p])]

LEMMA ScheduleShape ==
  ASSUME NEW gr
  PROVE  RoundSchedule(gr) = RebuildNodes(gr, RegroupedNodes(gr), SlotPlace(gr))
  BY ZenonT(60) DEF RoundSchedule, RegroupedNodes, Regrouped, Number, MergedIn, MergedId, SlotPlace,
                    SlotList, LevelBlocks, TopLevel, BlockAt, UnitAt, ResultsAt, PlainAt, RoundsAt,
                    PlainSet, RoundSet, NetAt

(* The places rise along the order of the slots.                           *)
PlacedInOrder(gr, m, N) ==
  /\ N \in Nat /\ DOMAIN SlotList(gr) = 1 .. N
  /\ \A p \in 1 .. N : SlotList(gr)[p] \in Slots(gr) /\ m[SlotList(gr)[p]] = p
  /\ \A v \in Slots(gr) : m[v] \in 1 .. N /\ SlotList(gr)[m[v]] = v
  /\ \A v, w \in Slots(gr) : SlotBefore(gr, v, w) => m[v] < m[w]

LEMMA SlotsInOrder ==
  ASSUME NEW gr, Sound(gr), SplitShape(gr), NEW m, m = SlotPlace(gr)
  PROVE  \E N : PlacedInOrder(gr, m, N)
<1> DEFINE l == SlotList(gr)
           S == Slots(gr)
           N == Len(l)
<1>1. Strung(l, S, SlotOrder(gr))
  BY SlotListFacts
<1>2. S \subseteq Values(gr)
  BY DEF Slots
<1>3. \A v, w \in S : <<v, w>> \in SlotOrder(gr) <=> SlotBefore(gr, v, w)
  BY <1>2, SlotPair
<1>4. \A v, w \in S : ~ (SlotBefore(gr, v, w) /\ SlotBefore(gr, w, v))
  <2>1. \A v \in S : v \in Nat /\ Home(gr, v) \in Nat /\ Class(gr, v) \in Nat
    BY <1>2, HomeFacts
  <2> HIDE DEF S
  <2> QED
    BY <2>1 DEF SlotBefore
<1>5. /\ N \in Nat /\ DOMAIN l = 1 .. N
      /\ \A p \in DOMAIN l : l[p] \in S
      /\ \A v \in S : \E p \in DOMAIN l : l[p] = v
      /\ \A p, q \in DOMAIN l : p < q => SlotBefore(gr, l[p], l[q])
  <2>1. l \in Seq(Nat) /\ \A p, q \in DOMAIN l : p < q => <<l[p], l[q]>> \in SlotOrder(gr)
    BY <1>1 DEF Strung
  <2>2. N \in Nat /\ DOMAIN l = 1 .. N
    BY <2>1, LenProperties
  <2>3. \A p \in DOMAIN l : l[p] \in S
    BY <1>1 DEF Strung
  <2>4. \A v \in S : \E p \in DOMAIN l : l[p] = v
    BY <1>1 DEF Strung
  <2> HIDE DEF l, S, N
  <2> QED
    BY <1>3, <2>1, <2>2, <2>3, <2>4
<1>6. m = [v \in ToSet(l) |-> CHOOSE p \in DOMAIN l : l[p] = v]
  BY DEF SlotPlace
<1> HIDE DEF l, S, N
<1>7. ToSet(l) = S
  BY <1>5 DEF ToSet
<1>8. \A v \in S : m[v] \in DOMAIN l /\ l[m[v]] = v
  BY <1>5, <1>6, <1>7
<1>9. \A p, q \in DOMAIN l : l[p] = l[q] => p = q
  <2> SUFFICES ASSUME NEW p \in DOMAIN l, NEW q \in DOMAIN l, l[p] = l[q], p < q \/ q < p
               PROVE  FALSE
    BY <1>5
  <2> QED
    BY <1>4, <1>5
<1>10. \A p \in DOMAIN l : m[l[p]] = p
  BY <1>5, <1>8, <1>9
<1>11. ASSUME NEW v \in S, NEW w \in S, SlotBefore(gr, v, w)
       PROVE  m[v] < m[w]
  <2>1. m[v] \in DOMAIN l /\ l[m[v]] = v /\ m[w] \in DOMAIN l /\ l[m[w]] = w
    BY <1>8
  <2>2. ~ (m[w] < m[v])
    BY <1>4, <1>5, <1>11, <2>1
  <2>3. m[v] # m[w]
    BY <1>4, <1>11, <2>1
  <2>4. m[v] \in Nat /\ m[w] \in Nat
    BY <1>5, <2>1
  <2> QED
    BY <2>2, <2>3, <2>4
<1>12. PlacedInOrder(gr, m, N)
  BY <1>5, <1>8, <1>10, <1>11 DEF PlacedInOrder, l, S
<1> QED
  BY <1>12

LEMMA ClassFacts ==
  ASSUME NEW gr, NEW v
  PROVE  /\ Class(gr, v) \in {0, 1, 2}
         /\ Class(gr, v) = 1 <=> gr.nodes[v].op = "Round"
         /\ Class(gr, v) = 2 <=> gr.nodes[v].op = "RoundResult"
         /\ Class(gr, v) = 0 <=> gr.nodes[v].op \notin {"Round", "RoundResult"}
  BY DEF Class

(* What stays as it is reads slots before its own.                         *)
LEMMA PlainOperands ==
  ASSUME NEW gr, Sound(gr), SplitShape(gr), NEW v \in Values(gr), Class(gr, v) = 0,
         NEW w \in InputsOf(gr, v)
  PROVE  w \in Slots(gr) /\ SlotBefore(gr, w, v)
<1>1. w \in Values(gr) /\ w < v /\ \E j \in DOMAIN gr.nodes[v].in : w = gr.nodes[v].in[j]
  <2>1. w \in Values(gr) /\ w < v
    BY OperandFacts
  <2> QED
    BY <2>1 DEF InputsOf, ToSet
<1>2. gr.nodes[w].op \notin {"MulLocal", "Round"}
  <2>1. gr.nodes[v].op \notin {"Round", "RoundResult"}
    BY ClassFacts
  <2> QED
    BY <1>1, <2>1 DEF SplitShape, Whole
<1>3. Class(gr, w) \in {0, 2}
  BY <1>2, ClassFacts
<1>4. w \in Slots(gr)
  BY <1>1, <1>3 DEF Slots
<1>5. /\ NetworkLevels(gr)[w] \in Nat /\ NetworkLevels(gr)[v] \in Nat
      /\ NetworkLevels(gr)[w] <= NetworkLevels(gr)[v]
  <2>1. LevelsGrowAt(gr, NetworkLevels(gr), v)
    BY AxesFacts, LevelsAlong
  <2> QED
    BY <2>1 DEF LevelsGrowAt
<1>6. Home(gr, v) = NetworkLevels(gr)[v]
  BY HomeFacts
<1>7. Class(gr, w) = 0 => Home(gr, w) = NetworkLevels(gr)[w]
  BY <1>1, HomeFacts
<1>8. Class(gr, w) = 2 => NetworkLevels(gr)[w] = Home(gr, w) + 1 /\ Home(gr, w) \in Nat
  BY <1>1, HomeFacts
<1> QED
  BY <1>1, <1>3, <1>4, <1>5, <1>6, <1>7, <1>8 DEF SlotBefore

(* A merged round, the products it reads and its results.                  *)
UnitAround(gr, L, q) ==
  /\ q[1] \in Slots(gr) /\ Class(gr, q[1]) = 1 /\ Home(gr, q[1]) = L
  /\ \A k \in DOMAIN q :
       /\ q[k] + 1 \in Slots(gr) /\ Class(gr, q[k] + 1) = 2 /\ Home(gr, q[k] + 1) = L
       /\ SlotBefore(gr, q[1], q[k] + 1)
       /\ q[k] - 1 \in Slots(gr) /\ SlotBefore(gr, q[k] - 1, q[1])
       /\ gr.nodes[q[k] - 1].op = "MulLocal" /\ gr.nodes[q[k]].in[1] = q[k] - 1

LEMMA UnitSlots ==
  ASSUME NEW gr, Sound(gr), SplitShape(gr), NEW L \in Nat, NEW q, q = RoundsAt(gr, L), q # <<>>
  PROVE  UnitAround(gr, L, q)
<1>1. 1 \in DOMAIN q
  BY RoundsListed
<1>2. ASSUME NEW k \in DOMAIN q
      PROVE  /\ q[k] \in Values(gr) /\ q[k] \in Nat
             /\ Class(gr, q[k]) = 1 /\ Home(gr, q[k]) = L
             /\ TrioLevels(gr, q[k]) /\ NetworkLevels(gr)[q[k]] = L
  BY RoundsListed
<1>3. q[1] \in Slots(gr) /\ Class(gr, q[1]) = 1 /\ Home(gr, q[1]) = L
  BY <1>1, <1>2 DEF Slots
<1>4. ASSUME NEW k \in DOMAIN q
      PROVE  /\ q[k] + 1 \in Slots(gr) /\ Class(gr, q[k] + 1) = 2 /\ Home(gr, q[k] + 1) = L
             /\ SlotBefore(gr, q[1], q[k] + 1)
             /\ q[k] - 1 \in Slots(gr) /\ SlotBefore(gr, q[k] - 1, q[1])
             /\ gr.nodes[q[k] - 1].op = "MulLocal" /\ gr.nodes[q[k]].in[1] = q[k] - 1
  <2> DEFINE r == q[k]
             u == r - 1
             v == r + 1
  <2>1. TrioLevels(gr, r) /\ NetworkLevels(gr)[r] = L
    BY <1>2
  <2>2. /\ u \in Values(gr) /\ v \in Values(gr) /\ v - 1 = r
        /\ NetworkLevels(gr)[u] = L
        /\ gr.nodes[u].op = "MulLocal" /\ gr.nodes[r].in[1] = u
        /\ gr.nodes[v].op = "RoundResult"
    BY <2>1 DEF TrioLevels
  <2> HIDE DEF u, v
  <2>3. Class(gr, u) = 0 /\ Class(gr, v) = 2
    BY <2>2, ClassFacts
  <2>4. Home(gr, u) = L
    BY <2>2, <2>3, HomeFacts
  <2>5. Home(gr, v) = L
    BY <2>1, <2>2, <2>3, HomeFacts
  <2>6. u \in Slots(gr) /\ v \in Slots(gr)
    BY <2>2, <2>3 DEF Slots
  <2>7. SlotBefore(gr, q[1], v) /\ SlotBefore(gr, u, q[1])
    BY <1>3, <2>3, <2>4, <2>5 DEF SlotBefore
  <2> QED
    BY <2>2, <2>3, <2>5, <2>6, <2>7 DEF u, v
<1> QED
  BY <1>3, <1>4, Zenon DEF UnitAround

(* The round a result is read from, and its place among the results.       *)
LEMMA NumberFacts ==
  ASSUME NEW gr, Sound(gr), SplitShape(gr), NEW v \in Values(gr), Class(gr, v) = 2,
         NEW L, L = NetworkLevels(gr)[v] - 1, NEW q, q = RoundsAt(gr, L),
         NEW k, k = Number(gr, L, v)
  PROVE  /\ L \in Nat /\ L = Home(gr, v) /\ q # <<>>
         /\ k \in DOMAIN q /\ q[k] + 1 = v /\ k \in Nat /\ k >= 1
         /\ \A j \in DOMAIN q : q[j] + 1 = v => j = k
<1>1. /\ NetworkLevels(gr)[v] = Home(gr, v) + 1 /\ Home(gr, v) \in Nat /\ v \in Nat
      /\ Home(gr, v) = NetworkLevels(gr)[v - 1] /\ v - 1 \in NodesOf(gr, "Round")
  BY HomeFacts
<1>2. L \in Nat /\ L = Home(gr, v)
  BY <1>1
<1>3. v - 1 \in RoundSet(gr, L)
  BY <1>1, <1>2 DEF RoundSet, NetAt, NodesOf
<1>4. /\ DOMAIN q = 1 .. Len(q) /\ Len(q) \in Nat
      /\ \A p \in DOMAIN q : q[p] \in Nat
      /\ \A w \in RoundSet(gr, L) : \E p \in DOMAIN q : q[p] = w
      /\ \A p, j \in DOMAIN q : p < j => q[p] < q[j]
  BY <1>2, RoundsListed
<1>5. PICK j \in DOMAIN q : q[j] = v - 1
  BY <1>3, <1>4
<1>6. q[j] + 1 = v
  BY <1>1, <1>5
<1>7. k = CHOOSE i \in DOMAIN q : q[i] + 1 = v
  <2>1. k = CHOOSE i \in DOMAIN ResultsAt(gr, L) : ResultsAt(gr, L)[i] = v
    BY DEF Number
  <2>2. DOMAIN ResultsAt(gr, L) = DOMAIN q /\ \A i \in DOMAIN q : ResultsAt(gr, L)[i] = q[i] + 1
    BY DEF ResultsAt
  <2> QED
    BY <2>1, <2>2
<1>8. k \in DOMAIN q /\ q[k] + 1 = v
  BY <1>6, <1>7
<1>9. k \in Nat /\ k >= 1 /\ q # <<>>
  <2>1. k \in 1 .. Len(q)
    BY <1>4, <1>8
  <2>2. Len(q) \in Nat /\ Len(q) # 0
    BY <1>4, <2>1
  <2> QED
    BY <2>1, <2>2
<1>10. ASSUME NEW i \in DOMAIN q, q[i] + 1 = v
       PROVE  i = k
  <2>1. q[i] = q[k] /\ i \in Nat /\ k \in Nat
    BY <1>4, <1>8, <1>10
  <2>2. ~ (q[i] < q[k]) /\ ~ (q[k] < q[i])
    BY <1>4, <1>8, <2>1
  <2> QED
    BY <1>4, <1>8, <2>1, <2>2
<1> QED
  BY <1>2, <1>8, <1>9, <1>10

(* Every rebuilt node may stand where it is put.                           *)
LEMMA RegroupedPlaced ==
  ASSUME NEW gr, Sound(gr), SplitShape(gr), NEW m, m = SlotPlace(gr), NEW N, PlacedInOrder(gr, m, N),
         NEW v \in Slots(gr)
  PROVE  /\ Placed(Regrouped(gr, v), m[v] - 1)
         /\ Regrouped(gr, v).op = gr.nodes[v].op
<1>0. /\ v \in Values(gr) /\ N \in Nat /\ m[v] \in 1 .. N
      /\ \A w \in Slots(gr) : m[w] \in 1 .. N /\ (SlotBefore(gr, w, v) => m[w] < m[v])
  BY DEF Slots, PlacedInOrder
<1>1. \A w \in Slots(gr) : SlotBefore(gr, w, v) => m[w] \in 1 .. (m[v] - 1) /\ m[w] \in Nat
  BY <1>0
<1>2. CASE Class(gr, v) = 0
  <2> DEFINE n == gr.nodes[v]
             r == Renumber(n, m)
  <2>1. Regrouped(gr, v) = r
    BY <1>2, ClassFacts DEF Regrouped
  <2>2. n \in NodeType
    BY <1>0, NodeFacts
  <2>3. DOMAIN n.in = 1 .. Len(n.in) /\ Len(n.in) \in Nat /\ Len(n.in) \in Arities(n.op)
    BY <1>0, GraphFacts DEF Sound, WellTyped, Values
  <2>4. \A w \in InputsOf(gr, v) : m[w] \in 1 .. (m[v] - 1) /\ m[w] \in Nat
    BY <1>0, <1>1, <1>2, PlainOperands
  <2>5. \A j \in DOMAIN n.in : n.in[j] \in InputsOf(gr, v)
    BY <1>0, OperandFacts
  <2> HIDE DEF n
  <2>6. /\ r.op = n.op /\ r.arg = n.arg /\ r.in = [j \in DOMAIN n.in |-> m[n.in[j]]]
        /\ r = [op |-> n.op, arg |-> n.arg, in |-> [j \in DOMAIN n.in |-> m[n.in[j]]]]
    BY <2>2, RenumberFacts
  <2> HIDE DEF r
  <2>7. \A j \in 1 .. Len(n.in) : m[n.in[j]] \in 1 .. (m[v] - 1) /\ m[n.in[j]] \in Nat
    BY <2>3, <2>4, <2>5
  <2>8. r.in \in Seq(Nat) /\ Len(r.in) = Len(n.in)
    BY <2>3, <2>6, <2>7
  <2>9. r \in NodeType
    BY <2>2, <2>6, <2>8 DEF NodeType
  <2>10. Placed(r, m[v] - 1)
    BY <2>3, <2>6, <2>7, <2>8, <2>9 DEF Placed
  <2> QED
    BY <2>1, <2>6, <2>10 DEF n
<1>3. CASE Class(gr, v) = 1
  <2> DEFINE L == NetworkLevels(gr)[v]
             q == RoundsAt(gr, L)
             in == MergedIn(gr, L)
             id == MergedId(gr, L)
  <2>1. L \in Nat /\ Home(gr, v) = L
    BY <1>0, <1>3, HomeFacts
  <2>2. v = q[1]
    BY <1>3, <2>1 DEF Slots
  <2>3. v \in RoundSet(gr, L)
    BY <1>0, <1>3, ClassFacts DEF RoundSet, NetAt, NodesOf
  <2>4. DOMAIN q = 1 .. Len(q) /\ Len(q) \in Nat /\ q # <<>>
    BY <2>1, <2>3, RoundsListed
  <2>5. Regrouped(gr, v) = Node("Round", id, in)
    BY <1>3, ClassFacts DEF Regrouped
  <2>6. id \in Nat
    <3> DEFINE T == {K \in 0 .. L : RoundsAt(gr, K) # <<>>}
    <3>1. IsFiniteSet(0 .. L)
      BY <2>1, FS_Interval
    <3>2. T \subseteq 0 .. L
      OBVIOUS
    <3>3. id = Cardinality(T)
      BY DEF MergedId
    <3> HIDE DEF T, L, id
    <3>4. IsFiniteSet(T)
      BY <3>1, <3>2, FS_Subset
    <3> QED
      BY <3>3, <3>4, FS_CardinalityType
  <2> HIDE DEF L, id
  <2>7. UnitAround(gr, L, q)
    BY <2>1, <2>4, UnitSlots
  <2>8. \A k \in DOMAIN q : m[gr.nodes[q[k]].in[1]] \in 1 .. (m[v] - 1) /\ m[gr.nodes[q[k]].in[1]] \in Nat
    BY <1>1, <2>2, <2>7 DEF UnitAround
  <2>9. in = [k \in DOMAIN q |-> m[gr.nodes[q[k]].in[1]]]
    BY DEF MergedIn
  <2> HIDE DEF q, in
  <2>10. in \in Seq(Nat) /\ Len(in) \in Nat /\ DOMAIN in = DOMAIN q
         /\ \A k \in DOMAIN in : in[k] \in 1 .. (m[v] - 1)
    <3>1. DOMAIN in = DOMAIN q /\ \A k \in DOMAIN q : in[k] = m[gr.nodes[q[k]].in[1]]
      BY <2>9
    <3>2. \A k \in DOMAIN in : in[k] \in 1 .. (m[v] - 1) /\ in[k] \in Nat
      BY <2>8, <3>1
    <3>3. in \in Seq(Nat)
      BY <2>4, <2>9, <3>1, <3>2
    <3> QED
      BY <3>1, <3>2, <3>3
  <2>11. Placed(Node("Round", id, in), m[v] - 1)
    <3> DEFINE n == Node("Round", id, in)
    <3>1. n.op = "Round" /\ n.arg = id /\ n.in = in /\ n \in NodeType
      BY <2>6, <2>10 DEF Node, NodeType, Ops
    <3>2. Arities("Round") = Nat
      BY DEF Arities, LeafOps, ArithOps
    <3> HIDE DEF n
    <3> QED
      BY <2>10, <3>1, <3>2 DEF Placed, n
  <2> QED
    BY <1>3, <2>5, <2>11, ClassFacts DEF Node
<1>4. CASE Class(gr, v) = 2
  <2> DEFINE L == NetworkLevels(gr)[v] - 1
             q == RoundsAt(gr, L)
             k == Number(gr, L, v)
             r == m[q[1]]
  <2>1. L \in Nat /\ Home(gr, v) = L /\ q # <<>> /\ k \in DOMAIN q /\ q[k] + 1 = v /\ k \in Nat /\ k >= 1
    BY <1>0, <1>4, NumberFacts
  <2>2. Regrouped(gr, v) = Node("RoundResult", k - 1, <<r>>)
    BY <1>4, ClassFacts DEF Regrouped
  <2> HIDE DEF L
  <2>3. UnitAround(gr, L, q)
    BY <2>1, UnitSlots
  <2> HIDE DEF k, q
  <2>4. r \in 1 .. (m[v] - 1) /\ r \in Nat
    BY <1>1, <2>1, <2>3 DEF UnitAround
  <2> HIDE DEF r
  <2>5. k - 1 \in Nat
    BY <2>1
  <2>6. Placed(Node("RoundResult", k - 1, <<r>>), m[v] - 1)
    <3> DEFINE n == Node("RoundResult", k - 1, <<r>>)
    <3>1. n.op = "RoundResult" /\ n.arg = k - 1 /\ n.in = <<r>> /\ n \in NodeType
      BY <2>4, <2>5 DEF Node, NodeType, Ops
    <3>2. Arities("RoundResult") = {1}
      BY DEF Arities, LeafOps, ArithOps
    <3>3. Len(n.in) = 1 /\ \A j \in DOMAIN n.in : n.in[j] = r
      BY <3>1
    <3> HIDE DEF n
    <3> QED
      BY <2>4, <3>1, <3>2, <3>3 DEF Placed, n
  <2> QED
    BY <1>4, <2>2, <2>6, ClassFacts DEF Node
<1> QED
  BY <1>2, <1>3, <1>4, ClassFacts

(* A round is followed by its results.                                     *)
RoundsInPlace(gr) ==
  /\ \A r \in NodesOf(gr, "Round") : \A k \in DOMAIN gr.nodes[r].in :
       /\ r + k <= Len(gr.nodes)
       /\ gr.nodes[r + k] = Node("RoundResult", k - 1, <<r>>)
  /\ \A v \in NodesOf(gr, "RoundResult") :
       v - gr.nodes[v].in[1] \in DOMAIN gr.nodes[gr.nodes[v].in[1]].in

(* The graph as the pass leaves it.                                        *)
Grouped(gr, h, m, N) ==
  /\ Rebuilt(gr, h.nodes, m, h)
  /\ Values(h) = 1 .. N /\ Len(h.nodes) = N
  /\ PlacedInOrder(gr, m, N) /\ m = SlotPlace(gr)
  /\ \A v \in Slots(gr) : h.nodes[m[v]] = Regrouped(gr, v) /\ h.nodes[m[v]].op = gr.nodes[v].op

LEMMA ScheduleGroups ==
  ASSUME NEW gr, Sound(gr), IsGraph(gr), SplitShape(gr), NEW h, h = RoundSchedule(gr)
  PROVE  /\ IsGraph(h) /\ WellTyped(h) /\ Topological(h)
         /\ \E m, N : Grouped(gr, h, m, N)
<1> DEFINE m == SlotPlace(gr)
           l == SlotList(gr)
           node(p) == Regrouped(gr, l[p])
           nodes == RegroupedNodes(gr)
<1>1. PICK N : PlacedInOrder(gr, m, N)
  BY SlotsInOrder
<1>2. /\ N \in Nat /\ DOMAIN l = 1 .. N
      /\ \A p \in 1 .. N : l[p] \in Slots(gr) /\ m[l[p]] = p
      /\ \A v \in Slots(gr) : m[v] \in 1 .. N /\ l[m[v]] = v
  BY <1>1 DEF PlacedInOrder
<1>3. h = RebuildNodes(gr, nodes, m)
  BY ScheduleShape
<1> HIDE DEF m
<1>4. \A p \in 1 .. N : Placed(node(p), p - 1)
  <2> SUFFICES ASSUME NEW p \in 1 .. N PROVE Placed(node(p), p - 1)
    OBVIOUS
  <2> DEFINE v == l[p]
  <2>1. v \in Slots(gr) /\ m[v] = p
    BY <1>2
  <2>2. Placed(Regrouped(gr, v), m[v] - 1)
    BY <1>1, <2>1, RegroupedPlaced DEF m
  <2> QED
    BY <2>1, <2>2
<1>5. nodes = [p \in 1 .. N |-> node(p)]
  BY <1>2 DEF RegroupedNodes
<1>6. NodeList(nodes) /\ Len(nodes) = N /\ DOMAIN nodes = 1 .. N
      /\ \A p \in 1 .. N : nodes[p] = node(p)
  <2>1. \A p \in 1 .. N : node(p) \in NodeType
    BY <1>4 DEF Placed
  <2> HIDE DEF node, nodes
  <2>3. nodes \in Seq(NodeType) /\ Len(nodes) = N /\ \A p \in 1 .. N : nodes[p] = node(p)
    BY <1>2, <2>1, <1>5
  <2> QED
    BY <1>4, <1>5, <2>3 DEF NodeList
<1>7. \A j \in DOMAIN gr.outputs : m[gr.outputs[j].value] \in 1 .. Len(nodes)
  <2> SUFFICES ASSUME NEW j \in DOMAIN gr.outputs PROVE m[gr.outputs[j].value] \in 1 .. N
    BY <1>6
  <2> DEFINE v == gr.outputs[j].value
  <2>1. Whole(gr, v)
    BY DEF SplitShape
  <2>2. v \in Values(gr) /\ gr.nodes[v].op # "Round"
    BY <2>1 DEF Whole
  <2>3. v \in Slots(gr)
    BY <2>2, ClassFacts DEF Slots
  <2> QED
    BY <1>2, <2>3
<1> HIDE DEF nodes, l
<1>8. Rebuilt(gr, nodes, m, h)
  BY <1>3, RebuildFacts
<1>9. h.nodes = nodes
  BY <1>8 DEF Rebuilt
<1>10. IsGraph(h) /\ WellTyped(h) /\ Topological(h) /\ Values(h) = 1 .. N
  BY <1>3, <1>6, <1>7, RebuiltShape DEF Sound
<1>11. ASSUME NEW v \in Slots(gr)
       PROVE  h.nodes[m[v]] = Regrouped(gr, v) /\ h.nodes[m[v]].op = gr.nodes[v].op
  <2>1. m[v] \in 1 .. N /\ l[m[v]] = v
    BY <1>2
  <2>2. h.nodes[m[v]] = Regrouped(gr, v)
    BY <1>6, <1>9, <2>1
  <2>3. Regrouped(gr, v).op = gr.nodes[v].op
    BY <1>1, RegroupedPlaced DEF m
  <2> QED
    BY <2>2, <2>3
<1>12. Grouped(gr, h, m, N)
  BY <1>1, <1>6, <1>8, <1>9, <1>10, <1>11 DEF Grouped, m
<1> QED
  BY <1>10, <1>12

(* Where the members of a unit end up.                                     *)
UnitIn(gr, h, m, L, q) ==
  /\ m[q[1]] \in Values(h) /\ DOMAIN h.nodes[m[q[1]]].in = DOMAIN q
  /\ h.nodes[m[q[1]]].op = "Round"
  /\ h.nodes[m[q[1]]].in = [k \in DOMAIN q |-> m[gr.nodes[q[k]].in[1]]]
  /\ \A k \in DOMAIN q :
       /\ m[q[1]] + k \in Values(h) /\ m[q[k] + 1] = m[q[1]] + k
       /\ h.nodes[m[q[1]] + k] = Node("RoundResult", k - 1, <<m[q[1]]>>)

LEMMA GroupedUnits ==
  ASSUME NEW gr, Sound(gr), SplitShape(gr), NEW h, NEW m, NEW N, Grouped(gr, h, m, N),
         NEW L \in Nat, NEW q, q = RoundsAt(gr, L), q # <<>>
  PROVE  UnitIn(gr, h, m, L, q)
<1> DEFINE l == SlotList(gr)
           r == q[1]
<1>0. /\ Values(h) = 1 .. N /\ N \in Nat /\ DOMAIN l = 1 .. N
      /\ \A p \in 1 .. N : l[p] \in Slots(gr) /\ m[l[p]] = p
      /\ \A v \in Slots(gr) : m[v] \in 1 .. N /\ h.nodes[m[v]] = Regrouped(gr, v)
      /\ m = SlotPlace(gr)
  BY DEF Grouped, PlacedInOrder
<1>1. UnitAround(gr, L, q)
  BY UnitSlots
<1>2. 1 \in DOMAIN q /\ \A k \in DOMAIN q : k \in Nat /\ q[k] \in Nat /\ q[k] \in Values(gr)
  BY RoundsListed
<1>3. PICK b \in Nat : /\ b \in DOMAIN l /\ l[b] = q[1]
                       /\ \A k \in DOMAIN q : b + k \in DOMAIN l /\ l[b + k] = q[k] + 1
  <2>1. UnitPlaced(gr, L, l)
    BY SlotListFacts
  <2> QED
    BY <2>1 DEF UnitPlaced
<1>4. r \in Slots(gr) /\ Class(gr, r) = 1 /\ Home(gr, r) = L /\ r \in Values(gr)
  BY <1>1, <1>2 DEF UnitAround
<1>5. NetworkLevels(gr)[r] = L
  BY <1>4, HomeFacts
<1>6. m[r] = b /\ b \in Values(h)
  BY <1>0, <1>3
<1>7. h.nodes[b] = Node("Round", MergedId(gr, L), MergedIn(gr, L))
  <2>1. h.nodes[b] = Regrouped(gr, r)
    BY <1>0, <1>4, <1>6
  <2> HIDE DEF r
  <2> QED
    BY <1>4, <1>5, <2>1, ClassFacts DEF Regrouped
<1>8. /\ h.nodes[b].op = "Round" /\ h.nodes[b].in = MergedIn(gr, L)
      /\ MergedIn(gr, L) = [k \in DOMAIN q |-> m[gr.nodes[q[k]].in[1]]]
  BY <1>0, <1>7 DEF Node, MergedIn
<1>9. ASSUME NEW k \in DOMAIN q
      PROVE  /\ b + k \in Values(h) /\ m[q[k] + 1] = b + k
             /\ h.nodes[b + k] = Node("RoundResult", k - 1, <<b>>)
  <2> DEFINE v == q[k] + 1
  <2>1. /\ v \in Slots(gr) /\ Class(gr, v) = 2 /\ Home(gr, v) = L
    BY <1>1 DEF UnitAround
  <2>2. v \in Values(gr)
    BY <2>1 DEF Slots
  <2>3. b + k \in Values(h) /\ m[v] = b + k
    BY <1>0, <1>3
  <2> HIDE DEF v
  <2>4. NetworkLevels(gr)[v] - 1 = L
    <3>1. NetworkLevels(gr)[v] = Home(gr, v) + 1
      BY <2>1, <2>2, HomeFacts
    <3> QED
      BY <2>1, <3>1
  <2>5. Number(gr, L, v) = k
    <3>1. \A j \in DOMAIN q : q[j] + 1 = v => j = Number(gr, L, v)
      BY <2>1, <2>2, <2>4, NumberFacts
    <3> QED
      BY <3>1 DEF v
  <2>6. h.nodes[b + k] = Regrouped(gr, v)
    BY <1>0, <2>1, <2>3
  <2>7. Regrouped(gr, v) = Node("RoundResult", k - 1, <<m[q[1]]>>)
    BY <1>0, <2>1, <2>4, <2>5, ClassFacts DEF Regrouped
  <2> QED
    BY <1>6, <2>3, <2>6, <2>7 DEF v
<1> QED
  BY <1>6, <1>8, <1>9 DEF UnitIn

(* What stands at a place of the grouped graph.                            *)
LEMMA GroupedNode ==
  ASSUME NEW gr, Sound(gr), SplitShape(gr), NEW h, NEW m, NEW N, Grouped(gr, h, m, N),
         NEW p \in Values(h)
  PROVE  /\ h.nodes[p].op = "Round" =>
              \E L \in Nat : \E q : /\ q = RoundsAt(gr, L) /\ q # <<>> /\ UnitIn(gr, h, m, L, q)
                                    /\ p = m[q[1]]
         /\ h.nodes[p].op = "RoundResult" =>
              \E L \in Nat : \E q : \E k \in DOMAIN q :
                /\ q = RoundsAt(gr, L) /\ q # <<>> /\ UnitIn(gr, h, m, L, q)
                /\ k \in Nat /\ m[q[1]] \in Nat /\ p = m[q[1]] + k
         /\ h.nodes[p].op \notin {"Round", "RoundResult"} =>
              \E v \in Slots(gr) : Class(gr, v) = 0 /\ p = m[v] /\ KeptAt(gr, h, m, v)
<1> DEFINE v == SlotList(gr)[p]
<1>1. /\ v \in Slots(gr) /\ m[v] = p /\ h.nodes[p] = Regrouped(gr, v)
      /\ h.nodes[p].op = gr.nodes[v].op /\ m = SlotPlace(gr)
      /\ Values(h) = 1 .. N /\ N \in Nat
  BY DEF Grouped, PlacedInOrder
<1> HIDE DEF v
<1>2. v \in Values(gr)
  BY <1>1 DEF Slots
<1>3. ASSUME h.nodes[p].op = "Round"
      PROVE  \E L \in Nat : \E q : /\ q = RoundsAt(gr, L) /\ q # <<>> /\ UnitIn(gr, h, m, L, q)
                                   /\ p = m[q[1]]
  <2> DEFINE L == NetworkLevels(gr)[v]
             q == RoundsAt(gr, L)
  <2>0. gr.nodes[v].op = "Round"
    BY <1>1, <1>3
  <2>1. Class(gr, v) = 1 /\ gr.nodes[v].op = "Round"
    BY <2>0, ClassFacts
  <2>2. L \in Nat /\ Home(gr, v) = L
    BY <1>2, <2>1, HomeFacts
  <2>3. v = q[1]
    BY <1>1, <2>1, <2>2 DEF Slots
  <2>4. v \in RoundSet(gr, L)
    BY <1>2, <2>1 DEF RoundSet, NetAt, NodesOf
  <2>5. q # <<>>
    BY <2>2, <2>4, RoundsListed
  <2>6. UnitIn(gr, h, m, L, q)
    BY <2>2, <2>5, GroupedUnits
  <2> HIDE DEF L, q
  <2>7. q = RoundsAt(gr, L)
    BY DEF q
  <2> QED
    BY <1>1, <2>2, <2>3, <2>5, <2>6, <2>7
<1>4. ASSUME h.nodes[p].op = "RoundResult"
      PROVE  \E L \in Nat : \E q : \E k \in DOMAIN q :
               /\ q = RoundsAt(gr, L) /\ q # <<>> /\ UnitIn(gr, h, m, L, q)
               /\ k \in Nat /\ m[q[1]] \in Nat /\ p = m[q[1]] + k
  <2> DEFINE L == NetworkLevels(gr)[v] - 1
             q == RoundsAt(gr, L)
             k == Number(gr, L, v)
  <2>1. Class(gr, v) = 2
    BY <1>1, <1>4, ClassFacts
  <2>2. L \in Nat /\ q # <<>> /\ k \in DOMAIN q /\ q[k] + 1 = v /\ k \in Nat
    BY <1>2, <2>1, NumberFacts
  <2>3. UnitIn(gr, h, m, L, q)
    BY <2>2, GroupedUnits
  <2> HIDE DEF L, q, k
  <2>4. m[q[1]] \in Nat /\ p = m[q[1]] + k
    BY <1>1, <2>2, <2>3 DEF UnitIn
  <2>5. q = RoundsAt(gr, L)
    BY DEF q
  <2> QED
    BY <2>2, <2>3, <2>4, <2>5
<1>5. ASSUME h.nodes[p].op \notin {"Round", "RoundResult"}
      PROVE  \E w \in Slots(gr) : Class(gr, w) = 0 /\ p = m[w] /\ KeptAt(gr, h, m, w)
  <2>1. Class(gr, v) = 0 /\ gr.nodes[v].op \notin {"Round", "RoundResult"}
    BY <1>1, <1>5, ClassFacts
  <2>2. h.nodes[m[v]] = Renumber(gr.nodes[v], m) /\ m[v] \in Values(h)
    BY <1>1, <2>1 DEF Regrouped
  <2>3. KeptAt(gr, h, m, v)
    BY <1>2, <2>2, RenumberedAt
  <2> QED
    BY <1>1, <2>1, <2>3
<1> QED
  BY <1>3, <1>4, <1>5

LEMMA GroupedInPlace ==
  ASSUME NEW gr, Sound(gr), SplitShape(gr), NEW h, NEW m, NEW N, Grouped(gr, h, m, N)
  PROVE  /\ RoundsInPlace(h)
         /\ \A p \in NodesOf(h, "RoundResult") : InputsOf(h, p) \subseteq NodesOf(h, "Round")
<1>0. Values(h) = 1 .. N /\ Len(h.nodes) = N /\ N \in Nat
  BY DEF Grouped, PlacedInOrder
<1>1. ASSUME NEW r \in NodesOf(h, "Round"), NEW k \in DOMAIN h.nodes[r].in
      PROVE  r + k <= Len(h.nodes) /\ h.nodes[r + k] = Node("RoundResult", k - 1, <<r>>)
  <2>1. r \in Values(h) /\ h.nodes[r].op = "Round"
    BY DEF NodesOf
  <2>4. PICK L \in Nat : \E q : UnitIn(gr, h, m, L, q) /\ r = m[q[1]]
    BY <2>1, GroupedNode
  <2>2. PICK q : UnitIn(gr, h, m, L, q) /\ r = m[q[1]]
    BY <2>4
  <2>3. r + k \in Values(h) /\ h.nodes[r + k] = Node("RoundResult", k - 1, <<r>>)
    BY <2>2 DEF UnitIn
  <2> QED
    BY <1>0, <2>3
<1>2. ASSUME NEW p \in NodesOf(h, "RoundResult")
      PROVE  \E r \in NodesOf(h, "Round") :
               /\ h.nodes[p].in = <<r>> /\ p - r \in DOMAIN h.nodes[r].in
  <2>1. p \in Values(h) /\ h.nodes[p].op = "RoundResult"
    BY DEF NodesOf
  <2>0. PICK L \in Nat : \E q : \E k \in DOMAIN q :
          UnitIn(gr, h, m, L, q) /\ k \in Nat /\ m[q[1]] \in Nat /\ p = m[q[1]] + k
    BY <2>1, GroupedNode
  <2>2. PICK q : \E k \in DOMAIN q :
          UnitIn(gr, h, m, L, q) /\ k \in Nat /\ m[q[1]] \in Nat /\ p = m[q[1]] + k
    BY <2>0
  <2>3. PICK k \in DOMAIN q :
          UnitIn(gr, h, m, L, q) /\ k \in Nat /\ m[q[1]] \in Nat /\ p = m[q[1]] + k
    BY <2>2
  <2> DEFINE r == m[q[1]]
  <2>4. /\ r \in Values(h) /\ h.nodes[r].op = "Round" /\ DOMAIN h.nodes[r].in = DOMAIN q
        /\ h.nodes[p] = Node("RoundResult", k - 1, <<r>>)
    BY <2>3 DEF UnitIn
  <2>5. p - r = k
    BY <2>3
  <2> HIDE DEF r
  <2>6. h.nodes[p].in = <<r>> /\ r \in NodesOf(h, "Round") /\ p - r \in DOMAIN h.nodes[r].in
    BY <2>4, <2>5 DEF Node, NodesOf
  <2> QED
    BY <2>6
<1>3. ASSUME NEW p \in NodesOf(h, "RoundResult")
      PROVE  /\ p - h.nodes[p].in[1] \in DOMAIN h.nodes[h.nodes[p].in[1]].in
             /\ InputsOf(h, p) \subseteq NodesOf(h, "Round")
  <2>1. PICK r \in NodesOf(h, "Round") : h.nodes[p].in = <<r>> /\ p - r \in DOMAIN h.nodes[r].in
    BY <1>2
  <2>2. h.nodes[p].in[1] = r /\ InputsOf(h, p) = {r}
    BY <2>1 DEF InputsOf, ToSet
  <2> QED
    BY <2>1, <2>2
<1> QED
  BY <1>1, <1>3 DEF RoundsInPlace

(* round_schedule: the rounds of a level are one, results and all.         *)
LEMMA RoundScheduleFacts ==
  ASSUME NEW gr, Sound(gr), IsGraph(gr), SplitShape(gr), NEW h, h = RoundSchedule(gr)
  PROVE  Sound(h) /\ IsGraph(h) /\ RoundsInPlace(h) /\ \E m, N : Grouped(gr, h, m, N)
<1>1. IsGraph(h) /\ WellTyped(h) /\ Topological(h)
  BY ScheduleGroups
<1>2. PICK m, N : Grouped(gr, h, m, N)
  BY ScheduleGroups
<1>3. /\ RoundsInPlace(h)
      /\ \A p \in NodesOf(h, "RoundResult") : InputsOf(h, p) \subseteq NodesOf(h, "Round")
  BY <1>2, GroupedInPlace
<1> DEFINE K == {v \in Slots(gr) : Class(gr, v) = 0}
<1>4. Carried(gr, h, K, m)
  <2>0. /\ Values(h) = 1 .. N /\ h.sites = gr.sites /\ m = SlotPlace(gr)
        /\ \A v \in Slots(gr) : /\ m[v] \in 1 .. N /\ SlotList(gr)[m[v]] = v
                                /\ h.nodes[m[v]] = Regrouped(gr, v)
    BY <1>2 DEF Grouped, PlacedInOrder, Rebuilt
  <2>1. K \subseteq Values(gr)
    BY DEF Slots
  <2>2. NodesOf(gr, "Gadget") \subseteq K
    BY ClassFacts DEF NodesOf, Slots
  <2>3. ASSUME NEW v \in K
        PROVE  KeptAt(gr, h, m, v)
    <3>1. m[v] \in Values(h) /\ h.nodes[m[v]] = Regrouped(gr, v)
      BY <2>0
    <3>2. gr.nodes[v].op \notin {"Round", "RoundResult"}
      BY ClassFacts
    <3>3. h.nodes[m[v]] = Renumber(gr.nodes[v], m)
      BY <2>0, <3>1, <3>2 DEF Regrouped
    <3> QED
      BY <2>1, <3>1, <3>3, RenumberedAt
  <2>4. \A v, w \in K : m[v] = m[w] => v = w
    BY <2>0
  <2>5. \A p \in Values(h) : h.nodes[p].op \in {"Gadget", "GadgetResult"} => \E v \in K : p = m[v]
    BY <1>2, GroupedNode
  <2> QED
    BY <2>0, <2>1, <2>2, <2>3, <2>4, <2>5 DEF Carried
<1> HIDE DEF K
<1>5. WellFormed(h)
  BY <1>1, <1>3, <1>4, CarriedSites
<1> QED
  BY <1>1, <1>2, <1>3, <1>5 DEF Sound

-----------------------------------------------------------------------------
(* Rounds keep their results through the other two passes.                 *)

LEMMA SplitInPlace ==
  ASSUME NEW h, Sound(h), SplitShape(h)
  PROVE  RoundsInPlace(h)
<1>1. ASSUME NEW r \in NodesOf(h, "Round"), NEW k \in DOMAIN h.nodes[r].in
      PROVE  r + k <= Len(h.nodes) /\ h.nodes[r + k] = Node("RoundResult", k - 1, <<r>>)
  <2>1. Trio(h, r)
    BY DEF SplitShape
  <2>2. k = 1
    BY <2>1 DEF Trio
  <2>3. 1 - 1 = 0
    OBVIOUS
  <2>4. r + 1 \in Values(h) /\ h.nodes[r + 1] = Node("RoundResult", 0, <<r>>)
    BY <2>1 DEF Trio
  <2>5. r + 1 <= Len(h.nodes)
    BY <2>4, GraphFacts
  <2> QED
    BY <2>2, <2>3, <2>4, <2>5
<1>2. ASSUME NEW v \in NodesOf(h, "RoundResult")
      PROVE  v - h.nodes[v].in[1] \in DOMAIN h.nodes[h.nodes[v].in[1]].in
  <2> DEFINE r == v - 1
  <2>1. v \in Nat /\ r + 1 = v /\ v - r = 1
    BY GraphFacts DEF NodesOf
  <2>2. Trio(h, r)
    BY DEF SplitShape
  <2> HIDE DEF r
  <2>3. h.nodes[v] = Node("RoundResult", 0, <<r>>) /\ h.nodes[r].in = <<r - 1>>
    BY <2>1, <2>2 DEF Trio
  <2>4. h.nodes[v].in[1] = r
    BY <2>3 DEF Node
  <2>5. 1 \in DOMAIN h.nodes[r].in
    BY <2>3
  <2> QED
    BY <2>1, <2>4, <2>5
<1> QED
  BY <1>1, <1>2 DEF RoundsInPlace

(* The members of a unit are neighbours in the order of the keys.          *)
UnitAtPlace(gr, place, r) ==
  \A k \in 0 .. Len(gr.nodes[r].in) : r + k \in Values(gr) /\ place[r + k] = place[r] + k

LEMMA WideNeighbours ==
  ASSUME NEW gr, Sound(gr), NEW l, SortedBy(gr, l), NEW v \in Values(gr), v + 1 \in Values(gr),
         NEW r \in Values(gr), UnitStart(gr, v) = r, UnitStart(gr, v + 1) = r,
         NEW p \in DOMAIN l, l[p] = v, NEW q \in DOMAIN l, l[q] = v + 1
  PROVE  q = p + 1
<1> DEFINE N == Cardinality(Values(gr))
           w == v + 1
<1>0. /\ N \in Nat /\ DOMAIN l = 1 .. N /\ \A x \in DOMAIN l : l[x] \in Values(gr)
  <2>1. N \in Nat
    <3>1. IsFiniteSet(Values(gr))
      BY GraphFacts, FS_Interval
    <3> QED
      BY <3>1, FS_CardinalityType
  <2> QED
    BY <2>1 DEF SortedBy, Lists
<1>1. \A x, y \in DOMAIN l : WideBefore(gr, l[x], l[y]) <=> x < y
  BY DEF SortedBy
<1>2. v \in Nat /\ w \in Nat /\ w = v + 1 /\ \A x \in Values(gr) : x \in Nat
  BY GraphFacts
<1>3. NetworkLevels(gr)[r] \in Nat /\ FullLevels(gr)[r] \in Nat
  BY UnitFacts
<1>4. WideBefore(gr, v, w)
  BY <1>2 DEF WideBefore, KeysBefore
<1>5. ASSUME NEW x \in Values(gr), WideBefore(gr, v, x), WideBefore(gr, x, w)
      PROVE  FALSE
  <2> DEFINE net == NetworkLevels(gr)
             full == FullLevels(gr)
             a == UnitStart(gr, x)
  <2>1. a \in Values(gr) /\ net[a] \in Nat /\ full[a] \in Nat /\ x \in Nat
    BY UnitFacts
  <2>2. KeysBefore(net, full, r, a, v, x) /\ KeysBefore(net, full, a, r, x, w)
    BY <1>5 DEF WideBefore
  <2> HIDE DEF net, full, a
  <2>3. net[r] \in Nat /\ full[r] \in Nat
    BY <1>3 DEF net, full
  <2>4. v < x /\ x < w
    BY <2>1, <2>2, <2>3 DEF KeysBefore
  <2> QED
    BY <1>2, <2>1, <2>4
<1> HIDE DEF w, N
<1>6. p < q
  BY <1>1, <1>4 DEF w
<1>7. p + 1 \in DOMAIN l /\ ~ (p + 1 < q)
  <2>1. p + 1 \in DOMAIN l /\ p < p + 1
    BY <1>0, <1>6
  <2> SUFFICES ASSUME p + 1 < q PROVE FALSE
    BY <2>1
  <2> DEFINE x == l[p + 1]
  <2>2. x \in Values(gr)
    BY <1>0, <2>1
  <2>3. WideBefore(gr, v, x) /\ WideBefore(gr, x, w)
    BY <1>1, <2>1 DEF w
  <2> HIDE DEF x
  <2> QED
    BY <1>5, <2>2, <2>3
<1> QED
  BY <1>0, <1>6, <1>7

LEMMA WideUnits ==
  ASSUME NEW gr, Sound(gr), RoundsInPlace(gr), NEW l, SortedBy(gr, l), NEW h, NEW place,
         Moved(gr, h, Values(gr), l, place), NEW r \in NodesOf(gr, "Round")
  PROVE  UnitAtPlace(gr, place, r)
<1> DEFINE n == Len(gr.nodes[r].in)
           Good(k) == r + k \in Values(gr) /\ place[r + k] = place[r] + k
           T == {k \in Nat : k <= n => Good(k)}
<1>1. /\ r \in Values(gr) /\ r \in Nat /\ n \in Nat /\ DOMAIN gr.nodes[r].in = 1 .. n
      /\ gr.nodes[r].op = "Round"
      /\ Values(gr) = 1 .. Len(gr.nodes) /\ Len(gr.nodes) \in Nat
  BY GraphFacts DEF NodesOf
<1>2. \A v \in Values(gr) : place[v] \in DOMAIN l /\ l[place[v]] = v
  BY DEF Moved, KeptAt
<1>3. DOMAIN l \subseteq Nat
  <2>1. DOMAIN l = 1 .. Cardinality(Values(gr))
    BY DEF SortedBy, Lists
  <2> QED
    BY <2>1
<1>4. ASSUME NEW k \in 1 .. n
      PROVE  r + k \in Values(gr) /\ gr.nodes[r + k] = Node("RoundResult", k - 1, <<r>>)
  <2>1. r + k <= Len(gr.nodes) /\ gr.nodes[r + k] = Node("RoundResult", k - 1, <<r>>)
    BY <1>1 DEF RoundsInPlace
  <2> QED
    BY <1>1, <2>1
<1>5. ASSUME NEW k \in 0 .. n
      PROVE  r + k \in Values(gr) /\ UnitStart(gr, r + k) = r
  <2>1. CASE k = 0
    <3>1. r + 0 = r
      BY <1>1
    <3> QED
      BY <1>1, <2>1, <3>1 DEF UnitStart
  <2>2. CASE k # 0
    <3>1. k \in 1 .. n
      BY <1>1, <2>2
    <3>2. r + k \in Values(gr) /\ gr.nodes[r + k] = Node("RoundResult", k - 1, <<r>>)
      BY <1>4, <3>1
    <3> QED
      BY <3>2 DEF UnitStart, Node
  <2> QED
    BY <2>1, <2>2
<1> HIDE DEF n
<1>6. 0 \in T
  BY <1>1, <1>2, <1>3
<1>7. ASSUME NEW k \in T
      PROVE  k + 1 \in T
  <2> SUFFICES ASSUME k + 1 <= n PROVE Good(k + 1)
    OBVIOUS
  <2> DEFINE v == r + k
  <2>1. k \in 0 .. n /\ k + 1 \in 0 .. n /\ k \in Nat
    BY <1>1
  <2>2. place[v] = place[r] + k
    BY <1>1
  <2>3. v \in Values(gr) /\ UnitStart(gr, v) = r
    BY <1>5, <2>1
  <2>4. v + 1 = r + (k + 1)
    BY <1>1, <2>1
  <2>5. v + 1 \in Values(gr) /\ UnitStart(gr, v + 1) = r
    BY <1>5, <2>1, <2>4
  <2> HIDE DEF v
  <2>6. place[v + 1] = place[v] + 1
    BY <1>1, <1>2, <2>3, <2>5, WideNeighbours
  <2>7. place[r] \in Nat
    BY <1>1, <1>2, <1>3
  <2> QED
    BY <2>1, <2>2, <2>4, <2>5, <2>6, <2>7
<1>8. T = Nat
  <2> HIDE DEF T
  <2>1. T \in SUBSET Nat
    BY DEF T
  <2> QED
    BY <1>6, <1>7, <2>1, NaturalsFrom0
<1>9. \A k \in 0 .. n : Good(k)
  <2> SUFFICES ASSUME NEW k \in 0 .. n PROVE Good(k)
    OBVIOUS
  <2>1. k \in Nat /\ k <= n
    BY <1>1
  <2>2. k \in T
    <3> HIDE DEF T
    <3> QED
      BY <1>8, <2>1
  <2> QED
    BY <2>1, <2>2
<1> QED
  BY <1>9 DEF UnitAtPlace, n

LEMMA WideInPlace ==
  ASSUME NEW gr, Sound(gr), IsGraph(gr), RoundsInPlace(gr), NEW h, h = WideSchedule(gr)
  PROVE  RoundsInPlace(h)
<1>1. PICK l, place : SortedBy(gr, l) /\ Moved(gr, h, Values(gr), l, place)
  BY WideFacts
<1>2. \A r \in NodesOf(gr, "Round") : UnitAtPlace(gr, place, r)
  BY <1>1, WideUnits
<1>3. /\ \A v \in Values(gr) : place[v] \in Values(h) /\ KeptAt(gr, h, place, v)
                               /\ h.nodes[place[v]] = Renumber(gr.nodes[v], place)
      /\ \A p \in Values(h) : l[p] \in Values(gr) /\ place[l[p]] = p
      /\ Len(h.nodes) \in Nat /\ Values(h) = 1 .. Len(h.nodes)
  <2>1. /\ \A v \in Values(gr) : KeptAt(gr, h, place, v) /\ h.nodes[place[v]] = Renumber(gr.nodes[v], place)
        /\ \A p \in Values(h) : l[p] \in Values(gr) /\ place[l[p]] = p
    BY <1>1 DEF Moved
  <2>2. Len(h.nodes) \in Nat /\ Values(h) = 1 .. Len(h.nodes)
    BY WideFacts, GraphFacts
  <2> QED
    BY <2>1, <2>2 DEF KeptAt
<1>4. ASSUME NEW p \in NodesOf(h, "Round"), NEW k \in DOMAIN h.nodes[p].in
      PROVE  p + k <= Len(h.nodes) /\ h.nodes[p + k] = Node("RoundResult", k - 1, <<p>>)
  <2> DEFINE r == l[p]
  <2>1. r \in Values(gr) /\ place[r] = p /\ KeptAt(gr, h, place, r)
    BY <1>3 DEF NodesOf
  <2> HIDE DEF r
  <2>2. r \in NodesOf(gr, "Round") /\ k \in DOMAIN gr.nodes[r].in
    BY <2>1 DEF KeptAt, NodesOf
  <2>3. k \in 1 .. Len(gr.nodes[r].in) /\ k \in 0 .. Len(gr.nodes[r].in)
    <3>1. Len(gr.nodes[r].in) \in Nat /\ DOMAIN gr.nodes[r].in = 1 .. Len(gr.nodes[r].in)
      BY <2>1, GraphFacts
    <3> QED
      BY <2>2, <3>1
  <2>4. r + k \in Values(gr) /\ place[r + k] = p + k
    BY <1>2, <2>1, <2>2, <2>3 DEF UnitAtPlace
  <2>5. gr.nodes[r + k] = Node("RoundResult", k - 1, <<r>>)
    BY <2>2 DEF RoundsInPlace
  <2> DEFINE v == r + k
             n == gr.nodes[v]
  <2>6. n.op = "RoundResult" /\ n.arg = k - 1 /\ n.in = <<r>> /\ n \in NodeType
    BY <2>4, <2>5, NodeFacts DEF Node
  <2> HIDE DEF v, n
  <2>7. Renumber(n, place) = [op |-> n.op, arg |-> n.arg, in |-> [j \in DOMAIN n.in |-> place[n.in[j]]]]
    BY <2>6, RenumberFacts
  <2>8. [j \in DOMAIN n.in |-> place[n.in[j]]] = <<p>>
    BY <2>1, <2>6
  <2>9. h.nodes[p + k] = Node("RoundResult", k - 1, <<p>>)
    <3>1. h.nodes[p + k] = Renumber(n, place)
      BY <1>3, <2>4 DEF v, n
    <3> QED
      BY <2>6, <2>7, <2>8, <3>1 DEF Node
  <2>10. p + k \in Values(h)
    BY <1>3, <2>4
  <2> QED
    BY <1>3, <2>9, <2>10
<1>5. ASSUME NEW p \in NodesOf(h, "RoundResult")
      PROVE  p - h.nodes[p].in[1] \in DOMAIN h.nodes[h.nodes[p].in[1]].in
  <2> DEFINE v == l[p]
  <2>1. v \in Values(gr) /\ place[v] = p /\ KeptAt(gr, h, place, v)
    BY <1>3 DEF NodesOf
  <2> HIDE DEF v
  <2>2. gr.nodes[v].op = "RoundResult"
    BY <2>1 DEF KeptAt, NodesOf
  <2> DEFINE r == gr.nodes[v].in[1]
             k == v - r
  <2>3. r \in NodesOf(gr, "Round") /\ r \in Values(gr) /\ DOMAIN gr.nodes[v].in = {1}
    BY <2>1, <2>2, ResultOperand
  <2>4. k \in DOMAIN gr.nodes[r].in
    BY <2>1, <2>2 DEF RoundsInPlace, NodesOf
  <2>5. h.nodes[p].in[1] = place[r]
    BY <2>1, <2>3 DEF KeptAt
  <2> HIDE DEF r
  <2>6. /\ Len(gr.nodes[r].in) \in Nat /\ DOMAIN gr.nodes[r].in = 1 .. Len(gr.nodes[r].in)
        /\ r \in Nat /\ v \in Nat
    BY <2>1, <2>3, GraphFacts
  <2>7. k \in 0 .. Len(gr.nodes[r].in) /\ r + k = v
    BY <2>4, <2>6
  <2> HIDE DEF k
  <2>8. place[v] = place[r] + k
    BY <1>2, <2>3, <2>7 DEF UnitAtPlace
  <2>9. place[r] \in Nat /\ k \in Nat
    BY <1>3, <2>3, <2>7
  <2>10. p - place[r] = k
    BY <2>1, <2>8, <2>9
  <2>11. DOMAIN h.nodes[place[r]].in = DOMAIN gr.nodes[r].in
    BY <1>3, <2>3 DEF KeptAt
  <2> QED
    BY <2>4, <2>5, <2>10, <2>11
<1> QED
  BY <1>4, <1>5 DEF RoundsInPlace

(* mul_split of what the frontend and the classical passes hand over.      *)
LEMMA MulSplitFacts ==
  ASSUME NEW gr, Sound(gr), IsGraph(gr), Unlowered(gr), NEW h, h = MulSplit(gr).graph
  PROVE  Sound(h) /\ IsGraph(h) /\ SplitShape(h)
<1>1. PICK pass : pass = "split"
  OBVIOUS
<1>2. pass \in RewritingPasses /\ h = Rewritten(pass, gr).graph
  BY <1>1 DEF RewritingPasses, Rewritten
<1>3. PICK em, m :
        /\ Course(pass, gr, em, m)
        /\ Rewritten(pass, gr).graph = RebuildNodes(gr, em[Len(gr.nodes)], m)
  BY <1>2, RewritingCourse
<1>4. h = NewGraph(gr, em, m)
  BY <1>2, <1>3 DEF NewGraph
<1>5. SplitShape(h)
  BY <1>1, <1>3, <1>4, SplitFits
<1> QED
  BY <1>2, <1>5, RewrittenSound

(* The classical passes make none of the lowering's operations.            *)
LEMMA RewrittenUnlowered ==
  ASSUME NEW gr, Sound(gr), IsGraph(gr), Unlowered(gr), NEW pass \in {"fold", "cse"},
         NEW h, h = Rewritten(pass, gr).graph
  PROVE  Unlowered(h)
<1>1. pass \in RewritingPasses /\ pass # "split"
  BY DEF RewritingPasses
<1>2. PICK em, m :
        /\ Course(pass, gr, em, m)
        /\ Rewritten(pass, gr).graph = RebuildNodes(gr, em[Len(gr.nodes)], m)
  BY <1>1, RewritingCourse
<1>3. h = NewGraph(gr, em, m)
  BY <1>2 DEF NewGraph
<1>4. h.nodes = em[Len(gr.nodes)] /\ Values(h) = 1 .. Len(em[Len(gr.nodes)])
  BY <1>1, <1>2, <1>3, NewShape
<1>5. ASSUME NEW p \in Values(h)
      PROVE  h.nodes[p].op \notin LoweredOps
  <2>1. CASE \E v \in Values(gr) : Keeps(pass, gr, em, m, v) /\ p = m[v]
    <3>1. PICK v \in Values(gr) : Keeps(pass, gr, em, m, v) /\ p = m[v]
      BY <2>1
    <3>2. KeptAt(gr, h, m, v)
      BY <1>1, <1>2, <1>3, <3>1, KeptInPlace
    <3> QED
      BY <3>1, <3>2 DEF KeptAt, Unlowered
  <2>2. CASE em[Len(gr.nodes)][p].op = "Constant"
    BY <1>4, <2>2 DEF LoweredOps
  <2> QED
    BY <1>1, <1>2, <1>4, <2>1, <2>2, Origins
<1> QED
  BY <1>5 DEF Unlowered

LEMMA CleanedUnlowered ==
  ASSUME NEW gr, Sound(gr), IsGraph(gr), Unlowered(gr), NEW c, c = DeadCode(gr)
  PROVE  Unlowered(c.graph)
<1>1. PICK q, K, layout, place : Cleaned(gr, c, q, K, layout, place)
  BY DeadCodeFacts
<1>2. Sound(q) /\ Collected(q, c.graph, K, layout, place) /\ q.nodes = gr.nodes
  BY <1>1 DEF Cleaned, PrunedTo
<1>3. ASSUME NEW p \in Values(c.graph)
      PROVE  c.graph.nodes[p].op \notin LoweredOps
  <2> DEFINE v == layout[p]
  <2>1. v \in Values(q) /\ p = place[v] /\ KeptAt(q, c.graph, place, v)
    BY <1>2, CollectedNodes
  <2> HIDE DEF v
  <2>2. c.graph.nodes[p].op = gr.nodes[v].op /\ v \in Values(gr)
    BY <1>2, <2>1 DEF KeptAt, Values
  <2> QED
    BY <2>2 DEF Unlowered
<1> QED
  BY <1>3 DEF Unlowered

-----------------------------------------------------------------------------
(* Meaning.                                                                *)

(* Arithmetic is on field elements.                                        *)
FieldOperands(gr, D) ==
  \A v \in Values(gr) : gr.nodes[v].op \in ArithOps => \A w \in InputsOf(gr, v) : D[w] \in 0 .. (P - 1)

(* The units, the zeros and the commutative operations.                    *)
LEMMA ArithUnits ==
  ASSUME NEW x \in 0 .. (P - 1), NEW y \in 0 .. (P - 1)
  PROVE  /\ ArithValue("Mul", x, 0) = 0 /\ ArithValue("Mul", 0, y) = 0
         /\ ArithValue("Add", 0, y) = y /\ ArithValue("Mul", 1, y) = y
         /\ ArithValue("Add", x, 0) = x /\ ArithValue("Sub", x, 0) = x /\ ArithValue("Mul", x, 1) = x
         /\ ArithValue("Add", x, y) = ArithValue("Add", y, x)
         /\ ArithValue("Mul", x, y) = ArithValue("Mul", y, x)
<1>1. \A z \in 0 .. (P - 1) : z % P = z
  BY PAssumption
<1>2. x \in Int /\ y \in Int /\ 0 \in 0 .. (P - 1)
  BY PAssumption
<1>3. x * 0 = 0 /\ 0 * y = 0 /\ 0 + y = y /\ 1 * y = y /\ x + 0 = x /\ x - 0 = x /\ x * 1 = x
  BY <1>2
<1>4. x + y = y + x
  BY <1>2
<1>5. x * y = y * x
  BY <1>2
<1>6. \A a, b : /\ ArithValue("Mul", a, b) = (a * b) % P
                /\ ArithValue("Add", a, b) = (a + b) % P
                /\ ArithValue("Sub", a, b) = (a - b) % P
  BY DEF ArithValue
<1>7. /\ 0 % P = 0 /\ x % P = x /\ y % P = y
  BY <1>1, <1>2
<1> QED
  BY <1>3, <1>4, <1>5, <1>6, <1>7

(* A node of arithmetic, renumbered.                                       *)
ArithAt(gr, h, E, D, n, k, v) ==
  /\ n.op = gr.nodes[v].op /\ k \in Nat
  /\ n.in[1] \in 1 .. k /\ n.in[2] \in 1 .. k
  /\ n.in[1] \in Values(h) /\ n.in[2] \in Values(h)
  /\ E[n.in[1]] \in 0 .. (P - 1) /\ E[n.in[2]] \in 0 .. (P - 1)
  /\ D[v] = ArithValue(n.op, E[n.in[1]], E[n.in[2]])

LEMMA ArithFacts ==
  ASSUME NEW gr, Sound(gr), IsGraph(gr), NEW pass \in RewritingPasses, NEW em, NEW m,
         Course(pass, gr, em, m), NEW h, h = NewGraph(gr, em, m),
         NEW input, NEW D, Denotes(gr, input, D), FieldOperands(gr, D), NEW E,
         NEW v \in Values(gr), gr.nodes[v].op \in ArithOps,
         \A w \in InputsOf(gr, v) : E[m[w]] = D[w],
         NEW n, n = Renumber(gr.nodes[v], m)
  PROVE  ArithAt(gr, h, E, D, n, Len(em[v - 1]), v)
<1> DEFINE k == Len(em[v - 1])
           o == gr.nodes[v]
<1>1. o \in NodeType
  BY NodeFacts
<1>2. n.op = o.op /\ DOMAIN n.in = DOMAIN o.in /\ \A j \in DOMAIN o.in : n.in[j] = m[o.in[j]]
  <2>1. /\ Renumber(o, m).op = o.op /\ DOMAIN Renumber(o, m).in = DOMAIN o.in
        /\ \A j \in DOMAIN o.in : Renumber(o, m).in[j] = m[o.in[j]]
    BY <1>1, RenumberFacts
  <2> QED
    BY <2>1
<1>3. Placed(n, k) /\ k \in Nat
  BY AnswerFacts, ListFacts
<1>4. 1 \in DOMAIN o.in /\ 2 \in DOMAIN o.in
  <2>1. Len(o.in) = 2
    BY ArityFacts
  <2>2. DOMAIN o.in = 1 .. Len(o.in)
    BY GraphFacts
  <2> QED
    BY <2>1, <2>2
<1>5. o.in[1] \in InputsOf(gr, v) /\ o.in[2] \in InputsOf(gr, v)
  BY <1>4, OperandFacts
<1>6. D[o.in[1]] \in 0 .. (P - 1) /\ D[o.in[2]] \in 0 .. (P - 1)
  BY <1>5 DEF FieldOperands
<1>7. E[n.in[1]] = D[o.in[1]] /\ E[n.in[2]] = D[o.in[2]]
  BY <1>2, <1>4, <1>5
<1>8. D[v] = ArithValue(o.op, D[o.in[1]], D[o.in[2]])
  <2>1. D[v] = NodeValue(gr, input, D, o)
    BY DEF Denotes
  <2> HIDE DEF o
  <2>2. o.op \in ArithOps
    BY DEF o
  <2> QED
    BY <2>1, <2>2 DEF NodeValue, ArithOps
<1>9. n.in[1] \in 1 .. k /\ n.in[2] \in 1 .. k
  BY <1>2, <1>3, <1>4 DEF Placed
<1>10. n.in[1] \in Values(h) /\ n.in[2] \in Values(h)
  <2>1. Values(h) = 1 .. Len(em[Len(gr.nodes)])
    BY NewShape
  <2>2. k <= Len(em[Len(gr.nodes)]) /\ Len(em[Len(gr.nodes)]) \in Nat
    <3>1. k <= Len(em[v]) /\ Len(em[v]) <= Len(em[Len(gr.nodes)]) /\ Len(em[v]) \in Nat
          /\ Len(em[Len(gr.nodes)]) \in Nat
      BY ListFacts
    <3> QED
      BY <1>3, <3>1
  <2> HIDE DEF k
  <2> QED
    BY <1>3, <1>9, <2>1, <2>2
<1> HIDE DEF k
<1>11. ArithAt(gr, h, E, D, n, k, v)
  BY <1>2, <1>3, <1>6, <1>7, <1>8, <1>9, <1>10 DEF ArithAt
<1> QED
  BY <1>11 DEF k

(* Folding an operation leaves its value.                                  *)
LEMMA FoldedValue ==
  ASSUME NEW gr, Sound(gr), IsGraph(gr), NEW pass, pass = "fold", NEW em, NEW m,
         Course(pass, gr, em, m), NEW h, h = NewGraph(gr, em, m),
         NEW input, NEW D, Denotes(gr, input, D), FieldOperands(gr, D),
         NEW E, Denotes(h, input, E),
         NEW v \in Values(gr), ~ Keeps(pass, gr, em, m, v),
         \A w \in InputsOf(gr, v) : E[m[w]] = D[w]
  PROVE  E[m[v]] = D[v]
<1> DEFINE n == Renumber(gr.nodes[v], m)
           k == Len(em[v - 1])
           a == n.in[1]
           b == n.in[2]
<1>0. pass \in RewritingPasses
  BY DEF RewritingPasses
<1>1. gr.nodes[v].op \in ArithOps
  BY <1>0, UntouchedKept DEF Touched
<1>2. ArithAt(gr, h, E, D, n, k, v)
  BY <1>0, <1>1, ArithFacts
<1>3. /\ n.op = gr.nodes[v].op /\ k \in Nat
      /\ a \in 1 .. k /\ b \in 1 .. k /\ a \in Values(h) /\ b \in Values(h)
      /\ E[a] \in 0 .. (P - 1) /\ E[b] \in 0 .. (P - 1)
      /\ D[v] = ArithValue(n.op, E[a], E[b])
  BY <1>2 DEF ArithAt
<1>4. \A q \in 1 .. k : em[v - 1][q] = h.nodes[q]
  <2>1. h.nodes = em[Len(gr.nodes)]
    BY <1>0, NewShape
  <2>2. \A q \in 1 .. Len(em[v - 1]) : em[v - 1][q] = em[Len(gr.nodes)][q]
    BY <1>0, ListFacts
  <2> QED
    BY <2>1, <2>2
<1>5. \A q \in Values(h) : h.nodes[q].op = "Constant" => E[q] = h.nodes[q].arg
  <2> SUFFICES ASSUME NEW q \in Values(h), h.nodes[q].op = "Constant" PROVE E[q] = h.nodes[q].arg
    OBVIOUS
  <2>1. E[q] = NodeValue(h, input, E, h.nodes[q])
    BY DEF Denotes
  <2> QED
    BY <2>1 DEF NodeValue, ArithOps
<1>6. /\ em[v - 1][a].op = "Constant" => E[a] = em[v - 1][a].arg
      /\ em[v - 1][b].op = "Constant" => E[b] = em[v - 1][b].arg
  BY <1>3, <1>4, <1>5
<1>7. FoldCases(n, em[v - 1], Answer(pass, gr, em, m, v))
  BY FoldAnswers DEF Answer, Decide
<1>8. Answer(pass, gr, em, m, v) # Keep(n)
  BY DEF Keeps
<1>9. ASSUME NEW c, Answer(pass, gr, em, m, v) = Emit(Constant(c))
      PROVE  E[m[v]] = c
  <2> DEFINE q == <<Constant(c)>>
  <2>1. Answer(pass, gr, em, m, v).tag = "Emit" /\ q = Answer(pass, gr, em, m, v).nodes
    BY <1>9 DEF Emit
  <2>2. Len(q) = 1 /\ q[1] = Constant(c) /\ 1 \in 1 .. 1
    OBVIOUS
  <2> HIDE DEF q
  <2>3. Puts(q, k, Len(em[v]), m[v], em[Len(gr.nodes)])
    BY <1>0, <2>1, EmitFacts
  <2>4. em[Len(gr.nodes)][m[v]] = Constant(c)
    BY <2>2, <2>3 DEF Puts
  <2>5. m[v] \in Values(h) /\ h.nodes[m[v]] = Constant(c)
    BY <1>0, <2>4, NewShape, ListFacts
  <2>6. Constant(c).op = "Constant" /\ Constant(c).arg = c
    BY DEF Constant, Node
  <2> QED
    BY <1>5, <2>5, <2>6
<1>10. \A t : Answer(pass, gr, em, m, v) = ReplaceWith(t) => m[v] = t
  BY <1>0, ReplaceFacts
<1> HIDE DEF n, k
<1> DEFINE x == E[a]
           y == E[b]
           A == Answer(pass, gr, em, m, v)
           known(j, c) == Zero(n, em[v - 1], j, c)
<1>11. /\ \A c : known(1, c) => x = c
       /\ \A c : known(2, c) => y = c
  BY <1>6 DEF Zero
<1>13. /\ ArithValue("Mul", x, 0) = 0 /\ ArithValue("Mul", 0, y) = 0
       /\ ArithValue("Add", 0, y) = y /\ ArithValue("Mul", 1, y) = y
       /\ ArithValue("Add", x, 0) = x /\ ArithValue("Sub", x, 0) = x /\ ArithValue("Mul", x, 1) = x
  BY <1>3, ArithUnits
<1>14. ASSUME em[v - 1][a].op = "Constant", em[v - 1][b].op = "Constant",
              A = Emit(Constant(ArithValue(n.op, em[v - 1][a].arg, em[v - 1][b].arg)))
       PROVE  E[m[v]] = D[v]
  BY <1>3, <1>6, <1>9, <1>14
<1>15. ASSUME n.op = "Mul", known(1, 0) \/ known(2, 0), A = Emit(Constant(0))
       PROVE  E[m[v]] = D[v]
  BY <1>3, <1>9, <1>11, <1>13, <1>15
<1>16. ASSUME \/ n.op = "Add" /\ known(1, 0)
              \/ n.op = "Mul" /\ known(1, 1), A = ReplaceWith(b)
       PROVE  E[m[v]] = D[v]
  BY <1>3, <1>10, <1>11, <1>13, <1>16
<1>17. ASSUME \/ n.op \in {"Add", "Sub"} /\ known(2, 0)
              \/ n.op = "Mul" /\ known(2, 1),
              A = ReplaceWith(a)
       PROVE  E[m[v]] = D[v]
  BY <1>3, <1>10, <1>11, <1>13, <1>17
<1> QED
  BY <1>7, <1>8, <1>14, <1>15, <1>16, <1>17 DEF FoldCases

(* Merging an operation leaves its value.                                  *)
LEMMA MergedValue ==
  ASSUME NEW gr, Sound(gr), IsGraph(gr), NEW pass, pass = "cse", NEW em, NEW m,
         Course(pass, gr, em, m), NEW h, h = NewGraph(gr, em, m),
         NEW input, NEW D, Denotes(gr, input, D), FieldOperands(gr, D),
         NEW E, Denotes(h, input, E),
         NEW v \in Values(gr), ~ Keeps(pass, gr, em, m, v),
         \A w \in InputsOf(gr, v) : E[m[w]] = D[w]
  PROVE  E[m[v]] = D[v]
<1> DEFINE n == Renumber(gr.nodes[v], m)
           k == Len(em[v - 1])
           o == gr.nodes[v]
<1>0. pass \in RewritingPasses
  BY DEF RewritingPasses
<1>1. /\ n.op = o.op /\ n.arg = o.arg /\ DOMAIN n.in = DOMAIN o.in
  BY NodeFacts, RenumberFacts
<1>2. n.op \in PureOps /\ \E t \in Same(n, em[v - 1]) : Answer(pass, gr, em, m, v) = ReplaceWith(t)
  BY MergedCases
<1>3. PICK t \in Same(n, em[v - 1]) : Answer(pass, gr, em, m, v) = ReplaceWith(t)
  BY <1>2
<1>4. m[v] = t /\ t \in 1 .. k
  BY <1>0, <1>3, ReplaceFacts
<1>5. m[v] \in Values(h) /\ h.nodes[m[v]] = em[v - 1][t]
  <2>1. h.nodes = em[Len(gr.nodes)] /\ Values(h) = 1 .. Len(em[Len(gr.nodes)])
    BY <1>0, NewShape
  <2>2. em[v - 1][t] = em[Len(gr.nodes)][t] /\ m[v] \in 1 .. Len(em[Len(gr.nodes)])
    BY <1>0, <1>4, ListFacts
  <2> QED
    BY <1>4, <2>1, <2>2
<1> DEFINE s == em[v - 1][t]
<1>6. CseKey(s) = CseKey(n)
  BY <1>3 DEF Same
<1>7. E[m[v]] = NodeValue(h, input, E, s)
  BY <1>5 DEF Denotes
<1>8. D[v] = NodeValue(gr, input, D, o)
  BY SMTT(20) DEF Denotes
<1>9. CASE o.op \in LeafOps
  <2> HIDE DEF n, s, o
  <2>1. s.op = n.op /\ s.arg = n.arg
    BY <1>6, SameKeyAlike
  <2> QED
    BY <1>1, <1>7, <1>8, <1>9, <2>1 DEF NodeValue, LeafOps, ArithOps
<1>10. CASE o.op \in ArithOps
  <2> DEFINE a == n.in[1]
             b == n.in[2]
  <2>1. ArithAt(gr, h, E, D, n, k, v)
    BY <1>0, <1>10, ArithFacts
  <2>2. /\ E[a] \in 0 .. (P - 1) /\ E[b] \in 0 .. (P - 1) /\ D[v] = ArithValue(n.op, E[a], E[b])
    BY <2>1 DEF ArithAt
  <2>3. n.op \in ArithOps
    BY <1>1, <1>10
  <2> HIDE DEF n, s, o
  <2>4. s.op = n.op
    BY SMTT(20), <1>6, SameKeyAlike
  <2>5. E[m[v]] = ArithValue(s.op, E[s.in[1]], E[s.in[2]])
    BY <1>7, <2>3, <2>4 DEF NodeValue, LeafOps, ArithOps
  <2>6. /\ \/ s.in[1] = a /\ s.in[2] = b
           \/ s.op \in {"Add", "Mul"} /\ s.in[1] = b /\ s.in[2] = a
    BY <1>6, <2>4 DEF CseKey
  <2>7. /\ ArithValue("Add", E[a], E[b]) = ArithValue("Add", E[b], E[a])
        /\ ArithValue("Mul", E[a], E[b]) = ArithValue("Mul", E[b], E[a])
    BY <2>2, ArithUnits
  <2> QED
    BY <2>2, <2>4, <2>5, <2>6, <2>7
<1> QED
  BY <1>1, <1>2, <1>9, <1>10 DEF PureOps

(* A split product is read off its round.                                  *)
LEMMA SplitValue ==
  ASSUME NEW gr, Sound(gr), IsGraph(gr), NEW pass, pass = "split", NEW em, NEW m,
         Course(pass, gr, em, m), NEW h, h = NewGraph(gr, em, m),
         NEW input, NEW D, Denotes(gr, input, D), FieldOperands(gr, D),
         NEW E, Denotes(h, input, E),
         NEW v \in Values(gr), ~ Keeps(pass, gr, em, m, v),
         \A w \in InputsOf(gr, v) : E[m[w]] = D[w]
  PROVE  E[m[v]] = D[v]
<1> DEFINE n == Renumber(gr.nodes[v], m)
           k == Len(em[v - 1])
           A == Answer(pass, gr, em, m, v)
<1>0. pass \in RewritingPasses
  BY DEF RewritingPasses
<1>1. v \in SecretProducts(gr) /\ A = EmitMany(SplitProduct(n, RoundId(gr, v), k))
  BY <1>0, AnswerCases
<1>2. gr.nodes[v].op = "Mul" /\ gr.nodes[v].op \in ArithOps
  BY <1>1 DEF SecretProducts, NodesOf, ArithOps
<1>3. ArithAt(gr, h, E, D, n, k, v)
  BY <1>0, <1>2, ArithFacts
<1>4. /\ n.op = "Mul" /\ k \in Nat /\ n.in[1] \in Values(h) /\ n.in[2] \in Values(h)
      /\ D[v] = ArithValue("Mul", E[n.in[1]], E[n.in[2]])
  BY <1>2, <1>3 DEF ArithAt
<1>5. SplitInto(n, RoundId(gr, v), k, em[Len(gr.nodes)], Len(em[v]), m[v])
  BY <1>1, SplitFacts
<1>6. h.nodes = em[Len(gr.nodes)] /\ Values(h) = 1 .. Len(em[Len(gr.nodes)])
      /\ Len(em[Len(gr.nodes)]) \in Nat
  BY <1>0, NewShape
<1>7. m[v] \in Values(h)
  BY <1>0, <1>6, ListFacts
<1>8. k + 1 \in Values(h) /\ k + 2 \in Values(h) /\ k + 3 \in Values(h) /\ m[v] = k + 3
  <2>1. m[v] = k + 3
    BY <1>5 DEF SplitInto
  <2> HIDE DEF k
  <2> QED
    BY <1>4, <1>6, <1>7, <2>1
<1>9. /\ h.nodes[k + 1] = Node("MulLocal", 0, n.in)
      /\ h.nodes[k + 2] = Node("Round", RoundId(gr, v), <<k + 1>>)
      /\ h.nodes[k + 3] = Node("RoundResult", 0, <<k + 2>>)
  BY <1>5, <1>6 DEF SplitInto
<1>10. /\ E[k + 1] = NodeValue(h, input, E, h.nodes[k + 1])
       /\ E[k + 2] = NodeValue(h, input, E, h.nodes[k + 2])
       /\ E[k + 3] = NodeValue(h, input, E, h.nodes[k + 3])
  BY <1>8 DEF Denotes
<1> HIDE DEF n, k, A
<1>11. E[k + 1] = ArithValue("MulLocal", E[n.in[1]], E[n.in[2]])
  BY <1>9, <1>10 DEF NodeValue, Node, LeafOps, ArithOps
<1>12. E[k + 2] = [j \in DOMAIN <<k + 1>> |-> E[<<k + 1>>[j]]]
  BY <1>9, <1>10 DEF NodeValue, Node, LeafOps, ArithOps
<1>13. E[k + 2][1] = E[k + 1]
  BY <1>12
<1>14. E[k + 3] = E[k + 2][0 + 1]
  BY <1>9, <1>10 DEF NodeValue, Node, LeafOps, ArithOps
<1>15. ArithValue("MulLocal", E[n.in[1]], E[n.in[2]]) = ArithValue("Mul", E[n.in[1]], E[n.in[2]])
  BY DEF ArithValue
<1>16. 0 + 1 = 1
  OBVIOUS
<1> QED
  BY <1>4, <1>8, <1>11, <1>13, <1>14, <1>15, <1>16

(* What a node denotes, the pass leaves.                                   *)
LEMMA RewrittenValues ==
  ASSUME NEW gr, Sound(gr), IsGraph(gr), NEW pass \in RewritingPasses, NEW em, NEW m,
         Course(pass, gr, em, m), NEW h, h = NewGraph(gr, em, m),
         NEW input, NEW D, Denotes(gr, input, D), FieldOperands(gr, D),
         NEW E, Denotes(h, input, E)
  PROVE  \A v \in Values(gr) : E[m[v]] = D[v]
<1> DEFINE T == {v \in Nat : v \in Values(gr) /\ E[m[v]] # D[v]}
<1>1. ASSUME NEW v \in Values(gr), \A w \in Values(gr) : w < v => E[m[w]] = D[w]
      PROVE  E[m[v]] = D[v]
  <2>1. \A w \in InputsOf(gr, v) : E[m[w]] = D[w]
    BY <1>1, OperandFacts
  <2>2. CASE Keeps(pass, gr, em, m, v)
    <3>1. KeptAt(gr, h, m, v)
      BY <2>2, KeptInPlace
    <3>2. h.sites = gr.sites
      BY NewShape
    <3>3. ASSUME gr.nodes[v].op = "GadgetResult"
          PROVE  h.nodes[m[gr.nodes[v].in[1]]].arg = gr.nodes[gr.nodes[v].in[1]].arg
      <4> DEFINE w == gr.nodes[v].in[1]
      <4>1. w \in NodesOf(gr, "Gadget")
        BY <3>3, ResultOperand
      <4> HIDE DEF w
      <4>2. w \in Values(gr) /\ gr.nodes[w].op \notin Touched(pass)
        BY <4>1 DEF NodesOf, Touched, RewritingPasses, ArithOps, PureOps, LeafOps
      <4>3. KeptAt(gr, h, m, w)
        BY <4>2, UntouchedKept, KeptInPlace
      <4>4. h.nodes[m[w]].arg = gr.nodes[w].arg
        BY <4>3 DEF KeptAt
      <4> QED
        BY <4>4 DEF w
    <3>4. ReadsAlike(gr, h, m, D, E, v)
      BY <2>1, <3>2, <3>3 DEF ReadsAlike
    <3>5. NodeValue(h, input, E, Renumber(gr.nodes[v], m)) = NodeValue(gr, input, D, gr.nodes[v])
      BY <3>4, RenumberedValue
    <3>6. m[v] \in Values(h) /\ h.nodes[m[v]] = Renumber(gr.nodes[v], m)
      BY <3>1 DEF KeptAt
    <3> QED
      BY <3>5, <3>6 DEF Denotes
  <2>3. CASE ~ Keeps(pass, gr, em, m, v)
    <3>1. CASE pass = "fold"
      BY <2>1, <2>3, <3>1, FoldedValue
    <3>2. CASE pass = "cse"
      BY <2>1, <2>3, <3>2, MergedValue
    <3>3. CASE pass = "split"
      BY <2>1, <2>3, <3>3, SplitValue
    <3> QED
      BY <3>1, <3>2, <3>3 DEF RewritingPasses
  <2> QED
    BY <2>2, <2>3
<1>2. Values(gr) \subseteq Nat
  BY GraphFacts
<1>3. T = {}
  <2> SUFFICES ASSUME T # {} PROVE FALSE
    OBVIOUS
  <2>1. T \in SUBSET Nat
    OBVIOUS
  <2>2. PICK v \in T : \A w \in T : v <= w
    BY <2>1, LeastElement
  <2>3. \A w \in Values(gr) : w < v => E[m[w]] = D[w]
    BY <1>2, <2>2
  <2> QED
    BY <1>1, <2>2, <2>3
<1> QED
  BY <1>2, <1>3

(* Arithmetic stays on field elements while no product is split.           *)
LEMMA RewrittenOperands ==
  ASSUME NEW gr, Sound(gr), IsGraph(gr), NEW pass \in {"fold", "cse"}, NEW em, NEW m,
         Course(pass, gr, em, m), NEW h, h = NewGraph(gr, em, m),
         NEW D, FieldOperands(gr, D), NEW E, \A v \in Values(gr) : E[m[v]] = D[v]
  PROVE  FieldOperands(h, E)
<1>0. pass \in RewritingPasses
  BY DEF RewritingPasses
<1> SUFFICES ASSUME NEW p \in Values(h), h.nodes[p].op \in ArithOps, NEW u \in InputsOf(h, p)
             PROVE  E[u] \in 0 .. (P - 1)
  BY DEF FieldOperands
<1>1. h.nodes[p].op \notin Fresh(pass)
  BY DEF Fresh, ArithOps
<1>2. PICK v \in Values(gr) : p = m[v] /\ KeptAt(gr, h, m, v)
  BY <1>0, <1>1, OldNode
<1>3. /\ gr.nodes[v].op \in ArithOps
      /\ DOMAIN h.nodes[p].in = DOMAIN gr.nodes[v].in
      /\ \A j \in DOMAIN gr.nodes[v].in : h.nodes[p].in[j] = m[gr.nodes[v].in[j]]
  BY <1>2 DEF KeptAt
<1>4. Sound(h)
  BY <1>0, RewritingSound
<1>5. PICK j \in DOMAIN h.nodes[p].in : u = h.nodes[p].in[j]
  BY <1>4, OperandFacts
<1>6. gr.nodes[v].in[j] \in InputsOf(gr, v) /\ gr.nodes[v].in[j] \in Values(gr)
  BY <1>3, <1>5, OperandFacts
<1>7. D[gr.nodes[v].in[j]] \in 0 .. (P - 1)
  BY <1>3, <1>6 DEF FieldOperands
<1> QED
  BY <1>3, <1>5, <1>6, <1>7

-----------------------------------------------------------------------------
(* The witness.                                                            *)

(* The outputs bound to a signal, and what it carries.                     *)
Bindings(gr, sig) == {j \in DOMAIN gr.outputs : gr.outputs[j].signal + 1 = sig}

Borne(gr, input, D, sig) ==
  CASE sig = 0 -> 1
    [] sig - 1 \in gr.numOutputs .. (gr.numOutputs + gr.numInputs - 1) -> input[sig - 1]
    [] Bindings(gr, sig) # {} -> D[gr.outputs[Max(Bindings(gr, sig))].value]
    [] OTHER -> 0

LEMMA WitnessIs ==
  ASSUME NEW gr, NEW input
  PROVE  WitnessOf(gr, input) =
           [p \in DOMAIN gr.witness |-> Borne(gr, input, Denotation(gr, input), gr.witness[p])]
BY DEF WitnessOf, Borne, Bindings

(* Another graph whose outputs bind the same signals to the same values.   *)
BindsAlike(gr, h, D, E, sig) ==
  /\ Bindings(gr, sig) = {} <=> Bindings(h, sig) = {}
  /\ Bindings(gr, sig) # {} =>
       E[h.outputs[Max(Bindings(h, sig))].value] = D[gr.outputs[Max(Bindings(gr, sig))].value]

LEMMA SameWitness ==
  ASSUME NEW gr, NEW h, NEW input, NEW D, D = Denotation(gr, input), NEW E, E = Denotation(h, input),
         h.witness = gr.witness, h.numOutputs = gr.numOutputs, h.numInputs = gr.numInputs,
         \A p \in DOMAIN gr.witness : BindsAlike(gr, h, D, E, gr.witness[p])
  PROVE  WitnessOf(h, input) = WitnessOf(gr, input)
<1>1. ASSUME NEW p \in DOMAIN gr.witness
      PROVE  Borne(h, input, E, gr.witness[p]) = Borne(gr, input, D, gr.witness[p])
  <2> DEFINE sig == gr.witness[p]
             held == gr.numOutputs .. (gr.numOutputs + gr.numInputs - 1)
  <2>1. BindsAlike(gr, h, D, E, sig)
    OBVIOUS
  <2>2. /\ Bindings(gr, sig) = {} <=> Bindings(h, sig) = {}
        /\ Bindings(gr, sig) # {} =>
             E[h.outputs[Max(Bindings(h, sig))].value] = D[gr.outputs[Max(Bindings(gr, sig))].value]
    BY <2>1 DEF BindsAlike
  <2> DEFINE X == E[h.outputs[Max(Bindings(h, sig))].value]
             Y == D[gr.outputs[Max(Bindings(gr, sig))].value]
  <2>3. Borne(h, input, E, sig) =
          CASE sig = 0 -> 1 [] sig - 1 \in held -> input[sig - 1] [] Bindings(h, sig) # {} -> X
            [] OTHER -> 0
    BY DEF Borne
  <2>4. Borne(gr, input, D, sig) =
          CASE sig = 0 -> 1 [] sig - 1 \in held -> input[sig - 1] [] Bindings(gr, sig) # {} -> Y
            [] OTHER -> 0
    BY DEF Borne
  <2>5. Bindings(gr, sig) # {} => X = Y
    BY <2>2
  <2> HIDE DEF X, Y, held, sig
  <2>6. CASE Bindings(gr, sig) = {}
    <3>1. Bindings(h, sig) = {}
      BY <2>2, <2>6
    <3>2. Borne(h, input, E, sig) = Borne(gr, input, D, sig)
      BY <2>3, <2>4, <2>6, <3>1
    <3> QED
      BY <3>2 DEF sig
  <2>7. CASE Bindings(gr, sig) # {}
    <3>1. Bindings(h, sig) # {} /\ X = Y
      BY <2>2, <2>5, <2>7
    <3>2. Borne(h, input, E, sig) = Borne(gr, input, D, sig)
      BY <2>3, <2>4, <2>7, <3>1
    <3> QED
      BY <3>2 DEF sig
  <2> QED
    BY <2>6, <2>7
<1>2. WitnessOf(gr, input) = [p \in DOMAIN gr.witness |-> Borne(gr, input, D, gr.witness[p])]
  BY WitnessIs
<1>3. WitnessOf(h, input) = [p \in DOMAIN gr.witness |-> Borne(h, input, E, gr.witness[p])]
  BY WitnessIs
<1> QED
  BY <1>1, <1>2, <1>3

LEMMA LastBinding ==
  ASSUME NEW gr, IsGraph(gr), NEW sig, Bindings(gr, sig) # {}
  PROVE  /\ Max(Bindings(gr, sig)) \in Bindings(gr, sig)
         /\ \A j \in Bindings(gr, sig) : j <= Max(Bindings(gr, sig))
         /\ Bindings(gr, sig) \subseteq DOMAIN gr.outputs /\ DOMAIN gr.outputs \subseteq Nat
<1> DEFINE n == Len(gr.outputs)
<1>1. n \in Nat /\ DOMAIN gr.outputs = 1 .. n
  BY DEF IsGraph
<1>2. Bindings(gr, sig) \subseteq DOMAIN gr.outputs
  BY DEF Bindings
<1>3. Bindings(gr, sig) \in SUBSET (0 .. n)
  BY <1>1, <1>2
<1> DEFINE s == Bindings(gr, sig)
<1>4. s \in SUBSET (0 .. n) /\ s # {}
  BY <1>3
<1> HIDE DEF n, s
<1>5. Max(s) \in s /\ \A j \in s : j <= Max(s)
  BY <1>1, <1>4, LargestElement
<1> QED
  BY <1>1, <1>2, <1>5 DEF s

(* Outputs renumbered to values of the same meaning leave the witness.     *)
LEMMA RebuiltWitness ==
  ASSUME NEW gr, Sound(gr), IsGraph(gr), NEW nodes, NEW m, NEW h, Rebuilt(gr, nodes, m, h),
         NEW input, NEW D, D = Denotation(gr, input), NEW E, E = Denotation(h, input),
         \A j \in DOMAIN gr.outputs : E[m[gr.outputs[j].value]] = D[gr.outputs[j].value]
  PROVE  WitnessOf(h, input) = WitnessOf(gr, input)
<1>1. /\ h.numOutputs = gr.numOutputs /\ h.numInputs = gr.numInputs /\ h.witness = gr.witness
      /\ DOMAIN h.outputs = DOMAIN gr.outputs
      /\ \A j \in DOMAIN gr.outputs :
           h.outputs[j].signal = gr.outputs[j].signal /\ h.outputs[j].value = m[gr.outputs[j].value]
  <2>1. /\ h.numOutputs = gr.numOutputs /\ h.numInputs = gr.numInputs /\ h.witness = gr.witness
        /\ DOMAIN h.outputs = DOMAIN gr.outputs
        /\ \A j \in DOMAIN gr.outputs :
             h.outputs[j] = [signal |-> gr.outputs[j].signal, value |-> m[gr.outputs[j].value]]
    BY DEF Rebuilt
  <2>2. ASSUME NEW j \in DOMAIN gr.outputs
        PROVE  h.outputs[j].signal = gr.outputs[j].signal /\ h.outputs[j].value = m[gr.outputs[j].value]
    <3>1. h.outputs[j] = [signal |-> gr.outputs[j].signal, value |-> m[gr.outputs[j].value]]
      BY <2>1
    <3> QED
      BY <3>1
  <2> QED
    BY <2>1, <2>2
<1>2. ASSUME NEW sig
      PROVE  BindsAlike(gr, h, D, E, sig)
  <2>1. Bindings(h, sig) = Bindings(gr, sig)
    BY <1>1 DEF Bindings
  <2>2. CASE Bindings(gr, sig) # {}
    <3> DEFINE j == Max(Bindings(gr, sig))
    <3>1. j \in DOMAIN gr.outputs
      BY <2>2, LastBinding
    <3> HIDE DEF j
    <3>2. h.outputs[j].value = m[gr.outputs[j].value]
      BY <1>1, <3>1
    <3>3. E[h.outputs[j].value] = D[gr.outputs[j].value]
      BY <3>1, <3>2
    <3> QED
      BY <2>1, <3>3 DEF BindsAlike, j
  <2> QED
    BY <2>1, <2>2 DEF BindsAlike
<1> QED
  BY <1>1, <1>2, SameWitness

(* Outputs that the witness never reads are not missed.                    *)
LEMMA PrunedWitness ==
  ASSUME NEW gr, Sound(gr), IsGraph(gr), NEW h, IsGraph(h), NEW l, PrunedTo(gr, h, l),
         NEW input, NEW D, D = Denotation(gr, input), NEW E, E = Denotation(h, input),
         \A v \in Values(gr) : E[v] = D[v]
  PROVE  WitnessOf(h, input) = WitnessOf(gr, input)
<1>1. /\ h.numOutputs = gr.numOutputs /\ h.numInputs = gr.numInputs /\ h.witness = gr.witness
      /\ Rises(LiveOutputs(gr), l) /\ DOMAIN h.outputs = DOMAIN l
      /\ \A p \in DOMAIN l : l[p] \in LiveOutputs(gr) /\ h.outputs[p] = gr.outputs[l[p]]
  BY DEF PrunedTo
<1>2. /\ \A p, q \in DOMAIN l : l[p] < l[q] <=> p < q
      /\ \A j \in LiveOutputs(gr) : \E p \in DOMAIN l : l[p] = j
  BY <1>1 DEF Rises, Lists
<1>3. LiveOutputs(gr) \subseteq DOMAIN gr.outputs
  BY DEF LiveOutputs
<1>4. ASSUME NEW i \in DOMAIN gr.witness, NEW sig, sig = gr.witness[i]
      PROVE  BindsAlike(gr, h, D, E, sig)
  <2>1. Bindings(gr, sig) \subseteq LiveOutputs(gr)
    <3>1. sig \in ToSet(gr.witness)
      BY <1>4 DEF ToSet
    <3> QED
      BY <3>1 DEF Bindings, LiveOutputs
  <2>2. \A p \in DOMAIN l : p \in Bindings(h, sig) <=> l[p] \in Bindings(gr, sig)
    BY <1>1, <1>3 DEF Bindings
  <2>3. \A j \in Bindings(gr, sig) : \E p \in Bindings(h, sig) : l[p] = j
    BY <1>2, <2>1, <2>2
  <2>4. Bindings(h, sig) \subseteq DOMAIN l
    BY <1>1 DEF Bindings
  <2>5. Bindings(gr, sig) = {} <=> Bindings(h, sig) = {}
    BY <2>2, <2>3, <2>4
  <2>6. CASE Bindings(gr, sig) # {}
    <3> DEFINE M == Max(Bindings(h, sig))
               N == Max(Bindings(gr, sig))
    <3>1. /\ M \in Bindings(h, sig) /\ \A p \in Bindings(h, sig) : p <= M
          /\ DOMAIN h.outputs \subseteq Nat
      BY <2>5, <2>6, LastBinding
    <3>2. /\ N \in Bindings(gr, sig) /\ \A p \in Bindings(gr, sig) : p <= N
          /\ DOMAIN gr.outputs \subseteq Nat
      BY <2>6, LastBinding
    <3> HIDE DEF M, N
    <3>3. PICK p \in Bindings(h, sig) : l[p] = N
      BY <2>3, <3>2
    <3>4. p \in DOMAIN l /\ M \in DOMAIN l /\ p <= M /\ p \in Nat /\ M \in Nat
      BY <1>1, <2>4, <3>1, <3>3
    <3>5. l[M] \in Bindings(gr, sig) /\ l[M] <= N /\ l[M] \in Nat /\ N \in Nat
      <4>1. l[M] \in Bindings(gr, sig)
        BY <2>2, <3>1, <3>4
      <4>2. Bindings(gr, sig) \subseteq Nat
        BY <1>3, <2>1, <3>2
      <4> QED
        BY <3>2, <4>1, <4>2
    <3>6. ~ (p < M)
      BY <1>2, <3>3, <3>4, <3>5
    <3>7. p = M
      BY <3>4, <3>6
    <3>8. h.outputs[M] = gr.outputs[N]
      BY <1>1, <3>3, <3>4, <3>7
    <3>9. E[h.outputs[M].value] = D[gr.outputs[N].value]
      <4>1. N \in DOMAIN gr.outputs
        BY <1>3, <2>1, <3>2
      <4>2. gr.outputs[N].value \in Values(gr)
        BY <4>1 DEF Sound, WellTyped, Values
      <4> QED
        BY <3>8, <4>2
    <3> QED
      BY <2>5, <3>9 DEF BindsAlike, M, N
  <2> QED
    BY <2>5, <2>6 DEF BindsAlike
<1> QED
  BY <1>1, <1>4, SameWitness

-----------------------------------------------------------------------------
(* Every pass keeps the witness.                                           *)

LEMMA FieldFacts ==
  ASSUME NEW gr, NEW input
  PROVE  FieldArithmetic(gr, input) <=> FieldOperands(gr, Denotation(gr, input))
BY DEF FieldArithmetic, FieldOperands

LEMMA RewrittenMeaning ==
  ASSUME NEW gr, Sound(gr), IsGraph(gr), NEW pass \in RewritingPasses, NEW input,
         FieldArithmetic(gr, input), NEW h, h = Rewritten(pass, gr).graph
  PROVE  /\ WitnessOf(h, input) = WitnessOf(gr, input)
         /\ pass # "split" => FieldArithmetic(h, input)
<1>1. PICK em, m :
        /\ Course(pass, gr, em, m)
        /\ Rewritten(pass, gr).graph = RebuildNodes(gr, em[Len(gr.nodes)], m)
  BY RewritingCourse
<1>2. h = NewGraph(gr, em, m)
  BY <1>1 DEF NewGraph
<1>3. Sound(h) /\ IsGraph(h)
  BY <1>1, <1>2, RewritingSound
<1> PICK D, E : D = Denotation(gr, input) /\ E = Denotation(h, input)
  OBVIOUS
<1>4. Denotes(gr, input, D) /\ Denotes(h, input, E) /\ FieldOperands(gr, D)
  BY <1>3, DenotationFacts, FieldFacts
<1>5. \A v \in Values(gr) : E[m[v]] = D[v]
  BY <1>1, <1>2, <1>4, RewrittenValues
<1>6. Rebuilt(gr, em[Len(gr.nodes)], m, h)
  BY <1>2, RebuildFacts DEF NewGraph
<1>7. \A j \in DOMAIN gr.outputs : gr.outputs[j].value \in Values(gr)
  BY DEF Sound, WellTyped, Values
<1>8. WitnessOf(h, input) = WitnessOf(gr, input)
  BY <1>5, <1>6, <1>7, RebuiltWitness
<1>9. ASSUME pass # "split"
      PROVE  FieldArithmetic(h, input)
  <2>1. pass \in {"fold", "cse"}
    BY <1>9 DEF RewritingPasses
  <2>2. FieldOperands(h, E)
    BY <1>1, <1>2, <1>4, <1>5, <2>1, RewrittenOperands
  <2> QED
    BY <2>2, FieldFacts
<1> QED
  BY <1>8, <1>9

(* What is moved, with all it needs, keeps its meaning.                    *)
LEMMA MovedMeaning ==
  ASSUME NEW gr, Sound(gr), IsGraph(gr), NEW h, Sound(h), NEW S, S \subseteq Values(gr),
         \A v \in S : InputsOf(gr, v) \subseteq S,
         \A j \in DOMAIN gr.outputs : gr.outputs[j].value \in S,
         NEW layout, NEW place, Moved(gr, h, S, layout, place), NEW input
  PROVE  /\ WitnessOf(h, input) = WitnessOf(gr, input)
         /\ FieldArithmetic(gr, input) => FieldArithmetic(h, input)
<1> PICK D, E : D = Denotation(gr, input) /\ E = Denotation(h, input)
  OBVIOUS
<1>1. Denotes(gr, input, D) /\ Denotes(h, input, E)
  BY DenotationFacts
<1>2. /\ Rebuilt(gr, h.nodes, place, h)
      /\ \A v \in S : KeptAt(gr, h, place, v) /\ h.nodes[place[v]] = Renumber(gr.nodes[v], place)
      /\ \A p \in Values(h) : layout[p] \in S /\ place[layout[p]] = p
  BY DEF Moved
<1>3. Represents(gr, h, S, place)
  <2>1. h.sites = gr.sites
    BY <1>2 DEF Rebuilt
  <2> QED
    BY <1>2, <2>1 DEF Represents, KeptAt
<1>4. \A v \in S : E[place[v]] = D[v]
  BY <1>1, <1>3, RepresentedValues
<1>5. WitnessOf(h, input) = WitnessOf(gr, input)
  BY <1>2, <1>4, RebuiltWitness
<1>6. ASSUME FieldArithmetic(gr, input)
      PROVE  FieldArithmetic(h, input)
  <2>1. FieldOperands(gr, D)
    BY <1>6, FieldFacts
  <2>2. ASSUME NEW p \in Values(h), h.nodes[p].op \in ArithOps, NEW u \in InputsOf(h, p)
        PROVE  E[u] \in 0 .. (P - 1)
    <3> PICK v \in S : p = place[v]
      BY <1>2
    <3>1. v \in Values(gr) /\ KeptAt(gr, h, place, v)
      BY <1>2
    <3>2. /\ gr.nodes[v].op \in ArithOps
          /\ DOMAIN h.nodes[p].in = DOMAIN gr.nodes[v].in
          /\ \A j \in DOMAIN gr.nodes[v].in : h.nodes[p].in[j] = place[gr.nodes[v].in[j]]
      BY <2>2, <3>1 DEF KeptAt
    <3>3. PICK j \in DOMAIN h.nodes[p].in : u = h.nodes[p].in[j]
      BY <2>2, OperandFacts
    <3>4. gr.nodes[v].in[j] \in InputsOf(gr, v)
      BY <3>1, <3>2, <3>3, OperandFacts
    <3>5. gr.nodes[v].in[j] \in S
      BY <3>4
    <3>6. D[gr.nodes[v].in[j]] \in 0 .. (P - 1)
      BY <2>1, <3>1, <3>2, <3>4 DEF FieldOperands
    <3> QED
      BY <1>4, <3>2, <3>3, <3>5, <3>6
  <2>3. FieldOperands(h, E)
    BY <2>2 DEF FieldOperands
  <2> QED
    BY <2>3, FieldFacts
<1> QED
  BY <1>5, <1>6

(* The same nodes denote the same.                                         *)
LEMMA SameNodesDenote ==
  ASSUME NEW gr, Sound(gr), NEW h, Sound(h), h.nodes = gr.nodes, h.sites = gr.sites, NEW input
  PROVE  \A v \in Values(gr) : Denotation(h, input)[v] = Denotation(gr, input)[v]
<1> DEFINE m == [v \in Values(gr) |-> v]
<1> PICK D, E : D = Denotation(gr, input) /\ E = Denotation(h, input)
  OBVIOUS
<1>1. Denotes(gr, input, D) /\ Denotes(h, input, E)
  BY DenotationFacts
<1>2. ASSUME NEW v \in Values(gr)
      PROVE  /\ InputsOf(gr, v) \subseteq Values(gr) /\ m[v] \in Values(h)
             /\ h.nodes[m[v]] = Renumber(gr.nodes[v], m)
  <2>1. InputsOf(gr, v) \subseteq Values(gr)
        /\ \A j \in DOMAIN gr.nodes[v].in : gr.nodes[v].in[j] \in Values(gr)
    BY OperandFacts
  <2>2. Values(h) = Values(gr)
    BY DEF Values
  <2>3. Renumber(gr.nodes[v], m) = gr.nodes[v]
    <3>1. \A j \in DOMAIN gr.nodes[v].in : m[gr.nodes[v].in[j]] = gr.nodes[v].in[j]
      BY <2>1
    <3> HIDE DEF m
    <3> QED
      BY <3>1, NodeFacts, RenumberNothing
  <2> QED
    BY <2>1, <2>2, <2>3
<1>3. \A v \in Values(gr) : m[v] = v
  OBVIOUS
<1> HIDE DEF m
<1>4. Represents(gr, h, Values(gr), m)
  BY <1>2 DEF Represents
<1>5. \A v \in Values(gr) : E[m[v]] = D[v]
  BY <1>1, <1>4, RepresentedValues
<1> QED
  BY <1>3, <1>5

LEMMA CleanedMeaning ==
  ASSUME NEW gr, Sound(gr), IsGraph(gr), NEW input, FieldArithmetic(gr, input),
         NEW c, c = DeadCode(gr)
  PROVE  /\ WitnessOf(c.graph, input) = WitnessOf(gr, input)
         /\ FieldArithmetic(c.graph, input)
<1>1. PICK q, K, layout, place : Cleaned(gr, c, q, K, layout, place)
  BY DeadCodeFacts
<1>2. /\ Sound(q) /\ IsGraph(q) /\ \E l : PrunedTo(gr, q, l)
      /\ Sound(c.graph) /\ IsGraph(c.graph) /\ Collected(q, c.graph, K, layout, place)
  BY <1>1 DEF Cleaned
<1>3. PICK l : PrunedTo(gr, q, l)
  BY <1>2
<1>4. q.nodes = gr.nodes /\ q.sites = gr.sites
  BY <1>3 DEF PrunedTo
<1>5. \A v \in Values(gr) : Denotation(q, input)[v] = Denotation(gr, input)[v]
  BY <1>2, <1>4, SameNodesDenote
<1>6. WitnessOf(q, input) = WitnessOf(gr, input)
  BY <1>2, <1>3, <1>5, PrunedWitness
<1>7. FieldArithmetic(q, input)
  <2>1. FieldOperands(gr, Denotation(gr, input))
    BY FieldFacts
  <2>2. FieldOperands(q, Denotation(q, input))
    <3>1. Values(q) = Values(gr) /\ \A v \in Values(gr) : InputsOf(q, v) = InputsOf(gr, v)
      BY <1>4 DEF Values, InputsOf
    <3>2. \A v \in Values(gr) : InputsOf(gr, v) \subseteq Values(gr)
      BY OperandFacts
    <3> QED
      BY <1>4, <1>5, <2>1, <3>1, <3>2 DEF FieldOperands
  <2> QED
    BY <2>2, FieldFacts
<1>8. /\ K \subseteq Values(q) /\ \A v \in K : InputsOf(q, v) \subseteq K
      /\ \A j \in DOMAIN q.outputs : q.outputs[j].value \in K
      /\ Moved(q, c.graph, K, layout, place)
  BY <1>2 DEF Collected, Swept, Roots
<1> PICK h : h = c.graph
  OBVIOUS
<1>9. /\ WitnessOf(h, input) = WitnessOf(q, input)
      /\ FieldArithmetic(h, input)
  BY <1>2, <1>7, <1>8, MovedMeaning
<1> QED
  BY <1>6, <1>9

LEMMA WideMeaning ==
  ASSUME NEW gr, Sound(gr), IsGraph(gr), NEW input, NEW h, h = WideSchedule(gr)
  PROVE  WitnessOf(h, input) = WitnessOf(gr, input)
<1>1. Sound(h) /\ IsGraph(h)
  BY WideFacts
<1>2. PICK l, place : SortedBy(gr, l) /\ Moved(gr, h, Values(gr), l, place)
  BY WideFacts
<1> DEFINE S == Values(gr)
<1>3. /\ S \subseteq Values(gr) /\ \A v \in S : InputsOf(gr, v) \subseteq S
      /\ \A j \in DOMAIN gr.outputs : gr.outputs[j].value \in S
  <2>1. \A v \in S : InputsOf(gr, v) \subseteq S
    BY OperandFacts
  <2>2. \A j \in DOMAIN gr.outputs : gr.outputs[j].value \in S
    BY DEF Sound, WellTyped, Values
  <2> QED
    BY <2>1, <2>2
<1>4. Moved(gr, h, S, l, place)
  BY <1>2
<1> HIDE DEF S
<1> QED
  BY <1>1, <1>3, <1>4, MovedMeaning

(* A node that is neither a round nor a result reads what it read.         *)
LEMMA GroupedReads ==
  ASSUME NEW gr, Sound(gr), SplitShape(gr), NEW h, NEW m, NEW N, Grouped(gr, h, m, N),
         NEW D, NEW E, NEW v \in Slots(gr), Class(gr, v) = 0,
         \A w \in InputsOf(gr, v) : w \in Slots(gr) /\ w < v /\ Class(gr, w) # 1 => E[m[w]] = D[w]
  PROVE  /\ ReadsAlike(gr, h, m, D, E, v)
         /\ v \in Values(gr) /\ m[v] \in Values(h) /\ h.nodes[m[v]] = Renumber(gr.nodes[v], m)
<1>1. /\ m = SlotPlace(gr) /\ h.sites = gr.sites
      /\ \A w \in Slots(gr) : m[w] \in Values(h) /\ h.nodes[m[w]] = Regrouped(gr, w)
  <2>1. /\ Rebuilt(gr, h.nodes, m, h) /\ Values(h) = 1 .. N /\ PlacedInOrder(gr, m, N)
        /\ m = SlotPlace(gr) /\ \A w \in Slots(gr) : h.nodes[m[w]] = Regrouped(gr, w)
    BY DEF Grouped
  <2>2. h.sites = gr.sites
    BY <2>1 DEF Rebuilt
  <2>3. \A w \in Slots(gr) : m[w] \in 1 .. N
    BY <2>1 DEF PlacedInOrder
  <2> QED
    BY <2>1, <2>2, <2>3
<1>2. ASSUME NEW w \in Slots(gr), Class(gr, w) = 0
      PROVE  h.nodes[m[w]] = Renumber(gr.nodes[w], m)
  <2>1. gr.nodes[w].op \notin {"Round", "RoundResult"}
    BY <1>2, ClassFacts
  <2> QED
    BY <1>1, <2>1 DEF Regrouped
<1>3. v \in Values(gr) /\ gr.nodes[v].op \notin {"Round", "RoundResult"}
  BY ClassFacts DEF Slots
<1>4. ASSUME NEW w \in InputsOf(gr, v)
      PROVE  w \in Slots(gr) /\ w < v /\ Class(gr, w) # 1
  <2>1. w \in Slots(gr) /\ w < v
    BY <1>3, PlainOperands, OperandFacts
  <2>2. PICK j \in DOMAIN gr.nodes[v].in : w = gr.nodes[v].in[j]
    BY <1>3, OperandFacts
  <2>3. Whole(gr, w)
    BY <1>3, <2>2 DEF SplitShape
  <2>4. gr.nodes[w].op # "Round"
    BY <2>3 DEF Whole
  <2> QED
    BY <2>1, <2>4, ClassFacts
<1>5. \A w \in InputsOf(gr, v) : E[m[w]] = D[w]
  BY <1>4
<1>6. ASSUME gr.nodes[v].op = "GadgetResult"
      PROVE  h.nodes[m[gr.nodes[v].in[1]]].arg = gr.nodes[gr.nodes[v].in[1]].arg
  <2> DEFINE w == gr.nodes[v].in[1]
  <2>1. w \in NodesOf(gr, "Gadget") /\ InputsOf(gr, v) = {w}
    BY <1>3, <1>6, ResultOperand
  <2> HIDE DEF w
  <2>2. w \in Slots(gr) /\ w \in Values(gr) /\ gr.nodes[w].op = "Gadget"
    BY <1>4, <2>1 DEF NodesOf
  <2>3. Class(gr, w) = 0
    BY <2>2, ClassFacts
  <2>4. h.nodes[m[w]] = Renumber(gr.nodes[w], m)
    BY <1>2, <2>2, <2>3
  <2>5. h.nodes[m[w]].arg = gr.nodes[w].arg
    <3>1. gr.nodes[w] \in NodeType
      BY <2>2, NodeFacts
    <3>2. Renumber(gr.nodes[w], m).arg = gr.nodes[w].arg
      BY <3>1, RenumberFacts
    <3> QED
      BY <2>4, <3>2
  <2> QED
    BY <2>5 DEF w
<1>7. ReadsAlike(gr, h, m, D, E, v)
  BY <1>1, <1>5, <1>6 DEF ReadsAlike
<1> QED
  BY <1>1, <1>2, <1>3, <1>7

(* It keeps its value.                                                     *)
LEMMA GroupedPlain ==
  ASSUME NEW gr, Sound(gr), SplitShape(gr), NEW h, NEW m, NEW N, Grouped(gr, h, m, N),
         NEW input, NEW D, Denotes(gr, input, D), NEW E, Denotes(h, input, E),
         NEW v \in Slots(gr), Class(gr, v) = 0,
         \A w \in Slots(gr) : w < v /\ Class(gr, w) # 1 => E[m[w]] = D[w]
  PROVE  E[m[v]] = D[v]
<1>1. /\ ReadsAlike(gr, h, m, D, E, v)
      /\ v \in Values(gr) /\ m[v] \in Values(h) /\ h.nodes[m[v]] = Renumber(gr.nodes[v], m)
  BY GroupedReads
<1>2. NodeValue(h, input, E, Renumber(gr.nodes[v], m)) = NodeValue(gr, input, D, gr.nodes[v])
  BY <1>1, RenumberedValue
<1>3. E[m[v]] = NodeValue(h, input, E, h.nodes[m[v]]) /\ D[v] = NodeValue(gr, input, D, gr.nodes[v])
  BY <1>1 DEF Denotes
<1> QED
  BY <1>1, <1>2, <1>3

(* The result of a round is the product it reshares.                       *)
LEMMA ResultValue ==
  ASSUME NEW gr, NEW input, NEW D, Denotes(gr, input, D), NEW r \in Values(gr),
         gr.nodes[r].op = "Round", NEW v \in Values(gr), NEW k \in DOMAIN gr.nodes[r].in, k \in Nat,
         gr.nodes[v] = Node("RoundResult", k - 1, <<r>>)
  PROVE  D[v] = D[gr.nodes[r].in[k]]
<1>1. D[r] = [j \in DOMAIN gr.nodes[r].in |-> D[gr.nodes[r].in[j]]]
  BY Zenon DEF Denotes, NodeValue, LeafOps, ArithOps
<1> PICK n : n = gr.nodes[v]
  OBVIOUS
<1>2. n.op = "RoundResult" /\ n.arg = k - 1 /\ n.in = <<r>>
  BY DEF Node
<1>3. D[v] = NodeValue(gr, input, D, n)
  BY SMTT(20) DEF Denotes
<1>4. D[v] = D[n.in[1]][n.arg + 1]
  BY <1>2, <1>3 DEF NodeValue, LeafOps, ArithOps
<1>5. n.arg + 1 = k /\ n.in[1] = r
  BY <1>2
<1> QED
  BY <1>1, <1>4, <1>5

(* A result is read off the merged round.                                  *)
LEMMA GroupedResult ==
  ASSUME NEW gr, Sound(gr), SplitShape(gr), NEW h, NEW m, NEW N, Grouped(gr, h, m, N),
         NEW input, NEW D, Denotes(gr, input, D), NEW E, Denotes(h, input, E),
         NEW v \in Slots(gr), Class(gr, v) = 2,
         \A w \in Slots(gr) : w < v /\ Class(gr, w) # 1 => E[m[w]] = D[w]
  PROVE  E[m[v]] = D[v]
<1> PICK L : L = NetworkLevels(gr)[v] - 1
  OBVIOUS
<1> PICK q : q = RoundsAt(gr, L)
  OBVIOUS
<1> PICK k : k = Number(gr, L, v)
  OBVIOUS
<1>1. v \in Values(gr) /\ v \in Nat /\ gr.nodes[v].op = "RoundResult"
  <2>1. v \in Values(gr)
    BY DEF Slots
  <2> QED
    BY <2>1, ClassFacts, GraphFacts
<1>2. L \in Nat /\ q # <<>> /\ k \in DOMAIN q /\ q[k] + 1 = v /\ k \in Nat /\ k >= 1
  BY <1>1, NumberFacts
<1>3. UnitIn(gr, h, m, L, q)
  BY <1>2, GroupedUnits
<1>4. UnitAround(gr, L, q)
  BY <1>2, UnitSlots
<1> DEFINE r == m[q[1]]
           u == q[k] - 1
<1>5. /\ r \in Values(h) /\ h.nodes[r].op = "Round" /\ DOMAIN h.nodes[r].in = DOMAIN q
      /\ h.nodes[r].in[k] = m[gr.nodes[q[k]].in[1]]
      /\ r + k \in Values(h) /\ m[v] = r + k
      /\ h.nodes[r + k] = Node("RoundResult", k - 1, <<r>>)
  <2>1. /\ r \in Values(h) /\ h.nodes[r].op = "Round" /\ DOMAIN h.nodes[r].in = DOMAIN q
        /\ h.nodes[r].in = [j \in DOMAIN q |-> m[gr.nodes[q[j]].in[1]]]
        /\ \A j \in DOMAIN q : /\ r + j \in Values(h) /\ m[q[j] + 1] = r + j
                               /\ h.nodes[r + j] = Node("RoundResult", j - 1, <<r>>)
    BY Zenon, <1>3 DEF UnitIn
  <2> HIDE DEF r
  <2>2. h.nodes[r].in[k] = m[gr.nodes[q[k]].in[1]]
    BY Zenon, <1>2, <2>1
  <2>3. r + k \in Values(h) /\ m[q[k] + 1] = r + k /\ h.nodes[r + k] = Node("RoundResult", k - 1, <<r>>)
    BY <1>2, <2>1
  <2> QED
    BY Zenon, <1>2, <2>1, <2>2, <2>3
<1>6. u \in Slots(gr) /\ gr.nodes[u].op = "MulLocal" /\ gr.nodes[q[k]].in[1] = u
  BY <1>2, <1>4 DEF UnitAround
<1>7. Trio(gr, v - 1) /\ v - 1 \in Nat
  <2>1. v \in NodesOf(gr, "RoundResult")
    BY <1>1 DEF NodesOf
  <2>2. Trio(gr, v - 1)
    BY <2>1 DEF SplitShape
  <2>3. v - 1 \in Nat
    BY <2>2, GraphFacts DEF Trio
  <2> QED
    BY <2>2, <2>3
<1>8. q[k] = v - 1
  <2>1. q[k] \in Nat
    BY <1>2, RoundsListed
  <2> QED
    BY <1>1, <1>2, <2>1
<1>9. u < v /\ u \in Nat
  <2>1. u \in Nat
    BY <1>6, GraphFacts DEF Slots
  <2> QED
    BY <1>1, <1>8, <2>1
<1>10. Class(gr, u) # 1
  BY <1>6, ClassFacts
<1> HIDE DEF u, r
<1>11. E[m[u]] = D[u]
  BY <1>6, <1>9, <1>10
<1>12. E[m[v]] = E[m[u]]
  <2>1. k \in DOMAIN h.nodes[r].in
    BY <1>2, <1>5
  <2> PICK w : w = r + k
    OBVIOUS
  <2>2. w \in Values(h) /\ h.nodes[w] = Node("RoundResult", k - 1, <<r>>)
    BY <1>5
  <2> PICK x : x = r
    OBVIOUS
  <2>3. x \in Values(h) /\ h.nodes[x].op = "Round" /\ k \in DOMAIN h.nodes[x].in /\ k \in Nat
    BY <1>2, <1>5, <2>1
  <2>4. h.nodes[w] = Node("RoundResult", k - 1, <<x>>)
    BY <2>2
  <2>5. E[w] = E[h.nodes[x].in[k]]
    BY <2>2, <2>3, <2>4, ResultValue
  <2> QED
    BY <1>5, <1>6, <2>5
<1>13. D[v] = D[u]
  <2> PICK s : s = v - 1
    OBVIOUS
  <2>1. /\ s \in Values(gr) /\ s + 1 = v /\ gr.nodes[s].op = "Round" /\ gr.nodes[s].in = <<s - 1>>
        /\ gr.nodes[s + 1] = Node("RoundResult", 0, <<s>>)
    BY <1>1, <1>7 DEF Trio
  <2>2. gr.nodes[s].in[1] = u
    BY <1>6, <1>8
  <2> PICK o : o = 1
    OBVIOUS
  <2>3. o \in DOMAIN gr.nodes[s].in /\ o \in Nat /\ o - 1 = 0
    BY <2>1
  <2>4. gr.nodes[v] = Node("RoundResult", o - 1, <<s>>)
    BY <2>1, <2>3
  <2>5. D[v] = D[gr.nodes[s].in[o]]
    BY <1>1, <2>1, <2>3, <2>4, ResultValue
  <2> QED
    BY <2>2, <2>5
<1> QED
  BY <1>11, <1>12, <1>13

LEMMA GroupedValues ==
  ASSUME NEW gr, Sound(gr), SplitShape(gr), NEW h, NEW m, NEW N, Grouped(gr, h, m, N),
         NEW input, NEW D, Denotes(gr, input, D), NEW E, Denotes(h, input, E)
  PROVE  \A v \in Slots(gr) : Class(gr, v) # 1 => E[m[v]] = D[v]
<1> DEFINE T == {v \in Nat : v \in Slots(gr) /\ Class(gr, v) # 1 /\ E[m[v]] # D[v]}
<1>1. Slots(gr) \subseteq Nat
  BY GraphFacts DEF Slots
<1>2. T = {}
  <2> SUFFICES ASSUME T # {} PROVE FALSE
    OBVIOUS
  <2>1. T \in SUBSET Nat
    OBVIOUS
  <2>2. PICK v \in T : \A w \in T : v <= w
    BY <2>1, LeastElement
  <2>3. \A w \in Slots(gr) : w < v /\ Class(gr, w) # 1 => E[m[w]] = D[w]
    BY <1>1, <2>2
  <2>4. v \in Slots(gr) /\ (Class(gr, v) = 0 \/ Class(gr, v) = 2) /\ E[m[v]] # D[v]
    BY <2>2, ClassFacts
  <2> QED
    BY <2>3, <2>4, GroupedPlain, GroupedResult
<1> QED
  BY <1>1, <1>2

LEMMA ScheduleMeaning ==
  ASSUME NEW gr, Sound(gr), IsGraph(gr), SplitShape(gr), NEW input, NEW h, h = RoundSchedule(gr)
  PROVE  WitnessOf(h, input) = WitnessOf(gr, input)
<1>1. Sound(h) /\ \E m, N : Grouped(gr, h, m, N)
  BY RoundScheduleFacts
<1>2. PICK m, N : Grouped(gr, h, m, N)
  BY <1>1
<1> PICK D, E : D = Denotation(gr, input) /\ E = Denotation(h, input)
  OBVIOUS
<1>3. Denotes(gr, input, D) /\ Denotes(h, input, E)
  BY <1>1, DenotationFacts
<1>4. \A v \in Slots(gr) : Class(gr, v) # 1 => E[m[v]] = D[v]
  BY <1>2, <1>3, GroupedValues
<1>5. ASSUME NEW j \in DOMAIN gr.outputs
      PROVE  E[m[gr.outputs[j].value]] = D[gr.outputs[j].value]
  <2> DEFINE v == gr.outputs[j].value
  <2>1. Whole(gr, v)
    BY DEF SplitShape
  <2> HIDE DEF v
  <2>2. v \in Values(gr) /\ gr.nodes[v].op # "Round"
    BY <2>1 DEF Whole
  <2>3. v \in Slots(gr) /\ Class(gr, v) # 1
    BY <2>2, ClassFacts DEF Slots
  <2> QED
    BY <1>4, <2>3 DEF v
<1>6. Rebuilt(gr, h.nodes, m, h)
  BY <1>2 DEF Grouped
<1> QED
  BY <1>5, <1>6, RebuiltWitness

-----------------------------------------------------------------------------
(* Domains and levels from pass to pass.                                   *)

(* What the domains of a graph depend on beside its nodes.                 *)
SameSignals(gr, h) ==
  h.sites = gr.sites /\ h.public = gr.public /\ h.numOutputs = gr.numOutputs

(* What a renumbered node keeps, and where its operands point.             *)
LEMMA RenumberReads ==
  ASSUME NEW n \in NodeType, NEW m, NEW o, o = Renumber(n, m)
  PROVE  o.op = n.op /\ o.arg = n.arg /\ DOMAIN o.in = DOMAIN n.in
         /\ \A j \in DOMAIN n.in : o.in[j] = m[n.in[j]]
<1>1. Renumber(n, m).op = n.op /\ Renumber(n, m).arg = n.arg
  BY RenumberFacts
<1>2. DOMAIN Renumber(n, m).in = DOMAIN n.in
  BY RenumberFacts
<1>3. \A j \in DOMAIN n.in : Renumber(n, m).in[j] = m[n.in[j]]
  BY RenumberFacts
<1> QED
  BY <1>1, <1>2, <1>3

LEMMA DomainAlike ==
  ASSUME NEW gr, Sound(gr), NEW v \in Values(gr), NEW h, SameSignals(gr, h), NEW m, NEW D, NEW E,
         ReadsAlike(gr, h, m, D, E, v)
  PROVE  NodeDomain(h, E, Renumber(gr.nodes[v], m)) = NodeDomain(gr, D, gr.nodes[v])
<1> PICK n, o : n = gr.nodes[v] /\ o = Renumber(n, m)
  OBVIOUS
<1>1. /\ n \in NodeType /\ n.op \in Ops
      /\ o.op = n.op /\ o.arg = n.arg /\ DOMAIN o.in = DOMAIN n.in
      /\ \A j \in DOMAIN n.in : o.in[j] = m[n.in[j]]
  <2>1. n \in NodeType
    BY NodeFacts
  <2>2. n.op \in Ops
    BY <2>1 DEF NodeType
  <2>3. o.op = n.op /\ o.arg = n.arg /\ DOMAIN o.in = DOMAIN n.in
        /\ \A j \in DOMAIN n.in : o.in[j] = m[n.in[j]]
    BY <2>1, RenumberReads
  <2> QED
    BY <2>1, <2>2, <2>3
<1>2. h.sites = gr.sites /\ h.public = gr.public /\ h.numOutputs = gr.numOutputs
  BY DEF SameSignals
<1>3. \A j \in DOMAIN n.in : E[o.in[j]] = D[n.in[j]]
  <2>1. \A j \in DOMAIN n.in : n.in[j] \in InputsOf(gr, v)
    BY OperandFacts
  <2> QED
    BY <1>1, <2>1 DEF ReadsAlike
<1>4. {E[w] : w \in ToSet(o.in)} = {D[w] : w \in ToSet(n.in)}
  <2>1. ToSet(o.in) = {o.in[j] : j \in DOMAIN o.in} /\ ToSet(n.in) = {n.in[j] : j \in DOMAIN n.in}
    BY DEF ToSet
  <2> QED
    BY <1>1, <1>3, <2>1
<1>5. CASE n.op \in {"Constant", "Round", "MulLocal", "RoundResult"}
  BY Zenon, <1>1, <1>5 DEF NodeDomain, ArithOps
<1>6. CASE n.op = "Input"
  <2>1. SignalDomain(h, o.arg) = SignalDomain(gr, n.arg)
    BY <1>1, <1>2 DEF SignalDomain
  <2> QED
    BY <1>1, <1>6, <2>1 DEF NodeDomain
<1>7. CASE n.op \in ArithOps \cup {"Gadget"}
  BY Zenon, <1>1, <1>4, <1>7 DEF NodeDomain, ArithOps
<1>8. CASE n.op = "GadgetResult"
  <2>1. 1 \in DOMAIN n.in
    BY <1>8, ArityFacts, GraphFacts
  <2>2. o.in[1] = m[n.in[1]] /\ E[o.in[1]] = D[n.in[1]]
    BY SMTT(20), <1>1, <1>3, <2>1
  <2>3. h.nodes[o.in[1]].arg = gr.nodes[n.in[1]].arg
    BY <1>8, <2>2 DEF ReadsAlike
  <2> QED
    BY Zenon, <1>1, <1>2, <1>8, <2>2, <2>3 DEF NodeDomain, ArithOps
<1> QED
  BY <1>1, <1>5, <1>6, <1>7, <1>8 DEF Ops, LeafOps, ArithOps

LEMMA LevelAlike ==
  ASSUME NEW gr, Sound(gr), NEW v \in Values(gr), NEW h, NEW m, NEW D, NEW E,
         ReadsAlike(gr, h, m, D, E, v), NEW X, NEW Y,
         gr.nodes[v].op = "GadgetResult" =>
           (m[gr.nodes[v].in[1]] \in Y <=> gr.nodes[v].in[1] \in X)
  PROVE  NodeLevel(Y, E, Renumber(gr.nodes[v], m)) = NodeLevel(X, D, gr.nodes[v])
<1> PICK n, o : n = gr.nodes[v] /\ o = Renumber(n, m)
  OBVIOUS
<1>1. /\ n \in NodeType /\ n.op \in Ops
      /\ o.op = n.op /\ DOMAIN o.in = DOMAIN n.in
      /\ \A j \in DOMAIN n.in : o.in[j] = m[n.in[j]]
  <2>1. n \in NodeType
    BY NodeFacts
  <2>2. n.op \in Ops
    BY <2>1 DEF NodeType
  <2>3. o.op = n.op /\ o.arg = n.arg /\ DOMAIN o.in = DOMAIN n.in
        /\ \A j \in DOMAIN n.in : o.in[j] = m[n.in[j]]
    BY <2>1, RenumberReads
  <2> QED
    BY <2>1, <2>2, <2>3
<1>3. \A j \in DOMAIN n.in : E[o.in[j]] = D[n.in[j]]
  <2>1. \A j \in DOMAIN n.in : n.in[j] \in InputsOf(gr, v)
    BY OperandFacts
  <2> QED
    BY <1>1, <2>1 DEF ReadsAlike
<1>4. {E[w] : w \in ToSet(o.in)} = {D[w] : w \in ToSet(n.in)}
  <2>1. ToSet(o.in) = {o.in[j] : j \in DOMAIN o.in} /\ ToSet(n.in) = {n.in[j] : j \in DOMAIN n.in}
    BY DEF ToSet
  <2> QED
    BY <1>1, <1>3, <2>1
<1>5. CASE n.op \in LeafOps
  BY <1>1, <1>5 DEF NodeLevel
<1>6. CASE n.op \in ArithOps \cup {"MulLocal", "Round", "Gadget"}
  BY <1>1, <1>4, <1>6 DEF NodeLevel, ArithOps, LeafOps
<1>7. CASE n.op \in {"RoundResult", "GadgetResult"}
  <2>1. 1 \in DOMAIN n.in
    BY <1>7, ArityFacts, GraphFacts
  <2>2. o.in[1] = m[n.in[1]] /\ E[o.in[1]] = D[n.in[1]]
    BY <1>1, <1>3, <2>1
  <2>3. n.op = "GadgetResult" => (o.in[1] \in Y <=> n.in[1] \in X)
    BY <2>2
  <2> QED
    BY <1>1, <1>7, <2>2, <2>3 DEF NodeLevel, ArithOps, LeafOps
<1> QED
  BY <1>1, <1>5, <1>6, <1>7 DEF Ops

(* The join of some domains.                                               *)
LEMMA JoinFacts ==
  ASSUME NEW S \in SUBSET Domain3
  PROVE  /\ Join(S) = Public \/ Join(S) \in S
         /\ Join(S) = Public => \A x \in S : x = Public
<1> DEFINE T == {Public} \cup S
<1>1. T \in SUBSET (0 .. 2) /\ T # {}
  BY DEF Domain3, Public, Shared, Local
<1>2. Max(T) \in T /\ \A x \in T : x <= Max(T)
  BY <1>1, LargestElement
<1>3. Join(S) = Max(T)
  BY DEF Join
<1> QED
  BY <1>2, <1>3 DEF Domain3, Public, Shared, Local

(* Nothing is local before products are split.                             *)
LEMMA NothingLocal ==
  ASSUME NEW gr, Sound(gr), Unlowered(gr)
  PROVE  \A v \in Values(gr) : Domains(gr)[v] # Local
<1> PICK D : D = Domains(gr)
  OBVIOUS
<1>1. \A v \in Values(gr) : D[v] \in Domain3 /\ D[v] = NodeDomain(gr, D, gr.nodes[v])
  BY DomainFacts
<1> DEFINE T == {v \in Nat : v \in Values(gr) /\ D[v] = Local}
<1>2. T = {}
  <2> SUFFICES ASSUME T # {} PROVE FALSE
    OBVIOUS
  <2>1. T \in SUBSET Nat
    OBVIOUS
  <2>2. PICK v \in T : \A w \in T : v <= w
    BY <2>1, LeastElement
  <2>3. v \in Values(gr) /\ D[v] = Local
    OBVIOUS
  <2> PICK n : n = gr.nodes[v]
    OBVIOUS
  <2>4. \A w \in InputsOf(gr, v) : w \in Values(gr) /\ D[w] \in Domain3 /\ D[w] # Local
    <3>1. \A w \in InputsOf(gr, v) : w \in Values(gr) /\ w < v
      BY <2>3, OperandFacts
    <3>2. \A w \in Values(gr) : w \in Nat
      BY GraphFacts
    <3> QED
      BY <1>1, <2>2, <3>1, <3>2
  <2>5. n.op \in Ops /\ n.op \notin LoweredOps /\ D[v] = NodeDomain(gr, D, n)
    BY <1>1, <2>3, GraphFacts DEF Unlowered
  <2>6. CASE n.op = "Input"
    <3>1. D[v] = SignalDomain(gr, n.arg)
      BY <2>5, <2>6 DEF NodeDomain, ArithOps
    <3> QED
      BY <2>3, <3>1 DEF SignalDomain, Public, Shared, Local
  <2>7. CASE n.op = "Constant"
    <3>1. D[v] = Public
      BY <2>5, <2>7 DEF NodeDomain, ArithOps
    <3> QED
      BY <2>3, <3>1 DEF Public, Local
  <2>8. CASE n.op \in ArithOps \cup {"Gadget"}
    <3> DEFINE S == {D[w] : w \in ToSet(n.in)}
    <3>1. D[v] = Join(S)
      BY Zenon, <2>5, <2>8 DEF NodeDomain, ArithOps
    <3>2. S \in SUBSET Domain3 /\ Local \notin S
      BY <2>4 DEF InputsOf
    <3> HIDE DEF S
    <3> QED
      BY <2>3, <3>1, <3>2, JoinOfDomains
  <2>9. CASE n.op = "GadgetResult"
    <3>1. n.in[1] \in InputsOf(gr, v)
      BY <2>3, <2>9, ResultOperand
    <3>2. D[v] = Public \/ D[v] = D[n.in[1]]
      BY Zenon, <2>5, <2>9 DEF NodeDomain, ArithOps
    <3> QED
      BY <2>3, <2>4, <3>1, <3>2 DEF Public, Local
  <2> QED
    BY <2>5, <2>6, <2>7, <2>8, <2>9 DEF Ops, LoweredOps, LeafOps, ArithOps
<1>3. \A v \in Values(gr) : v \in Nat
  BY GraphFacts
<1> QED
  BY <1>2, <1>3

-----------------------------------------------------------------------------
(* What the lowering is for.                                               *)

(* Every product that is left has a public factor.                         *)
ProductsSplit(h) ==
  \A v \in NodesOf(h, "Mul") : \E w \in InputsOf(h, v) : Domains(h)[w] = Public

(* No level has two rounds.                                                *)
RoundsApart(h) ==
  \A r, s \in NodesOf(h, "Round") : NetworkLevels(h)[r] = NetworkLevels(h)[s] => r = s

(* A value is the operand of one round, at one position.                   *)
TakenBy(h, u, r, k) == r \in NodesOf(h, "Round") /\ k \in DOMAIN h.nodes[r].in /\ h.nodes[r].in[k] = u

TakenOnce(h, u) ==
  \E r, k : /\ TakenBy(h, u, r, k)
            /\ \A s, j : TakenBy(h, u, s, j) => s = r /\ j = k

ProductsTaken(h) == \A u \in NodesOf(h, "MulLocal") : TakenOnce(h, u)

(* mul_split: a value keeps its domain.                                    *)
LEMMA SecretShared ==
  ASSUME NEW gr, Sound(gr), NEW v \in SecretProducts(gr)
  PROVE  Domains(gr)[v] = Shared
<1> PICK D, n : D = Domains(gr) /\ n = gr.nodes[v]
  OBVIOUS
<1>1. v \in Values(gr) /\ n.op = "Mul" /\ \A w \in InputsOf(gr, v) : D[w] = Shared
  BY DEF SecretProducts, NodesOf
<1>2. D[v] = NodeDomain(gr, D, n)
  BY SMTT(20), <1>1, DomainFacts
<1> DEFINE S == {D[w] : w \in ToSet(n.in)}
<1>3. D[v] = Join(S)
  BY <1>1, <1>2 DEF NodeDomain, ArithOps
<1>4. \A x \in S : x = Shared
  BY <1>1 DEF InputsOf
<1>5. Shared \in S
  <2>1. 1 \in DOMAIN n.in
    BY <1>1, ArityFacts, GraphFacts DEF ArithOps
  <2>2. n.in[1] \in InputsOf(gr, v)
    BY <1>1, <2>1, OperandFacts
  <2>3. D[n.in[1]] = Shared /\ n.in[1] \in ToSet(n.in)
    BY <1>1, <2>2 DEF InputsOf
  <2> QED
    BY <2>3
<1>6. S \in SUBSET Domain3
  BY <1>4 DEF Domain3
<1> HIDE DEF S
<1> QED
  BY <1>3, <1>4, <1>5, <1>6, JoinFacts DEF Public, Shared

LEMMA SplitReads ==
  ASSUME NEW gr, Sound(gr), IsGraph(gr), Unlowered(gr), NEW pass, pass = "split", NEW em, NEW m,
         Course(pass, gr, em, m), NEW h, h = NewGraph(gr, em, m), NEW v \in Values(gr),
         NEW D, NEW E, \A w \in InputsOf(gr, v) : E[m[w]] = D[w]
  PROVE  ReadsAlike(gr, h, m, D, E, v)
<1>1. h.sites = gr.sites
  BY NewShape DEF RewritingPasses
<1>2. ASSUME gr.nodes[v].op = "GadgetResult"
      PROVE  h.nodes[m[gr.nodes[v].in[1]]].arg = gr.nodes[gr.nodes[v].in[1]].arg
  <2> PICK w : w = gr.nodes[v].in[1]
    OBVIOUS
  <2>1. w \in NodesOf(gr, "Gadget")
    BY <1>2, ResultOperand
  <2>2. w \in Values(gr) /\ w \notin SecretProducts(gr)
    BY <2>1 DEF NodesOf, SecretProducts
  <2>3. KeptAt(gr, h, m, w)
    <3>1. KeptAt(gr, h, m, w) \/ SplitAt(gr, h, m, w, Len(em[w - 1]))
      BY <2>2, SplitTargets
    <3> QED
      BY <2>2, <3>1 DEF SplitAt
  <2> QED
    BY Zenon, <2>3 DEF KeptAt
<1> QED
  BY <1>1, <1>2 DEF ReadsAlike

LEMMA SplitDomains ==
  ASSUME NEW gr, Sound(gr), IsGraph(gr), Unlowered(gr), NEW pass, pass = "split", NEW em, NEW m,
         Course(pass, gr, em, m), NEW h, h = NewGraph(gr, em, m), Sound(h)
  PROVE  \A v \in Values(gr) : Domains(h)[m[v]] = Domains(gr)[v]
<1> PICK D, E : D = Domains(gr) /\ E = Domains(h)
  OBVIOUS
<1>1. /\ \A v \in Values(gr) : D[v] = NodeDomain(gr, D, gr.nodes[v])
      /\ \A p \in Values(h) : E[p] = NodeDomain(h, E, h.nodes[p])
  BY DomainFacts
<1>2. SameSignals(gr, h)
  <2> PICK nodes : nodes = em[Len(gr.nodes)]
    OBVIOUS
  <2>1. h = RebuildNodes(gr, nodes, m)
    BY DEF NewGraph
  <2>2. Rebuilt(gr, nodes, m, h)
    BY <2>1, RebuildFacts
  <2> QED
    BY <2>2 DEF Rebuilt, SameSignals
<1>3. \A v \in Values(gr) : v \in Nat
  BY GraphFacts
<1> DEFINE T == {v \in Nat : v \in Values(gr) /\ E[m[v]] # D[v]}
<1>4. T = {}
  <2> SUFFICES ASSUME T # {} PROVE FALSE
    OBVIOUS
  <2>1. T \in SUBSET Nat
    OBVIOUS
  <2>2. PICK v \in T : \A w \in T : v <= w
    BY <2>1, LeastElement
  <2>3. v \in Values(gr) /\ E[m[v]] # D[v]
    OBVIOUS
  <2>4. \A w \in InputsOf(gr, v) : E[m[w]] = D[w]
    <3>1. \A w \in InputsOf(gr, v) : w \in Values(gr) /\ w < v
      BY <2>3, OperandFacts
    <3> QED
      BY <1>3, <2>2, <3>1
  <2>5. CASE KeptAt(gr, h, m, v)
    <3>1. ReadsAlike(gr, h, m, D, E, v)
      BY <2>3, <2>4, SplitReads
    <3>2. NodeDomain(h, E, Renumber(gr.nodes[v], m)) = NodeDomain(gr, D, gr.nodes[v])
      BY <1>2, <2>3, <3>1, DomainAlike
    <3>3. m[v] \in Values(h) /\ h.nodes[m[v]] = Renumber(gr.nodes[v], m)
      BY <2>5 DEF KeptAt
    <3>4. E[m[v]] = NodeDomain(h, E, h.nodes[m[v]])
      BY <1>1, <3>3
    <3>5. D[v] = NodeDomain(gr, D, gr.nodes[v])
      BY <1>1, <2>3
    <3>6. E[m[v]] = NodeDomain(h, E, Renumber(gr.nodes[v], m))
      BY Zenon, <3>3, <3>4
    <3> QED
      BY Zenon, <2>3, <3>2, <3>5, <3>6
  <2>6. CASE SplitAt(gr, h, m, v, Len(em[v - 1]))
    <3>1. v \in SecretProducts(gr)
      BY <2>6 DEF SplitAt
    <3>2. D[v] = Shared
      BY <3>1, SecretShared
    <3> PICK k : k = Len(em[v - 1])
      OBVIOUS
    <3>3. Trio(h, k + 2) /\ k \in Nat /\ m[v] = k + 3
      BY <2>6 DEF SplitAt
    <3>4. (k + 2) + 1 = k + 3
      BY <3>3
    <3>5. m[v] \in Values(h) /\ h.nodes[m[v]].op = "RoundResult"
      BY <3>3, <3>4 DEF Trio, Node
    <3>6. E[m[v]] = Shared
      BY Zenon, <1>1, <3>5 DEF NodeDomain, ArithOps
    <3> QED
      BY <2>3, <3>2, <3>6
  <2> QED
    BY <2>3, <2>5, <2>6, SplitTargets
<1> QED
  BY <1>3, <1>4

(* It leaves no secret product whole.                                      *)
LEMMA SplitSplits ==
  ASSUME NEW gr, Sound(gr), IsGraph(gr), Unlowered(gr), NEW pass, pass = "split", NEW em, NEW m,
         Course(pass, gr, em, m), NEW h, h = NewGraph(gr, em, m), Sound(h)
  PROVE  ProductsSplit(h)
<1> SUFFICES ASSUME NEW p \in NodesOf(h, "Mul")
             PROVE  \E w \in InputsOf(h, p) : Domains(h)[w] = Public
  BY DEF ProductsSplit
<1>1. p \in Values(h) /\ h.nodes[p].op = "Mul"
  BY DEF NodesOf
<1>2. ASSUME NEW v \in Values(gr), NEW k \in Nat, SplitAt(gr, h, m, v, k),
             p = k + 1 \/ p = k + 2 \/ p = k + 3
      PROVE  FALSE
  <2>1. (k + 2) + 1 = k + 3 /\ (k + 2) - 1 = k + 1
    OBVIOUS
  <2>2. Trio(h, k + 2)
    BY <1>2 DEF SplitAt
  <2>3. h.nodes[p].op \in {"MulLocal", "Round", "RoundResult"}
    BY <1>2, <2>1, <2>2 DEF Trio, Node
  <2> QED
    BY <1>1, <2>3
<1>3. \E v \in Values(gr) : p = m[v] /\ KeptAt(gr, h, m, v) /\ v \notin SecretProducts(gr)
  BY <1>1, <1>2, SplitOrigins
<1>4. PICK v \in Values(gr) : p = m[v] /\ KeptAt(gr, h, m, v) /\ v \notin SecretProducts(gr)
  BY <1>3
<1>5. gr.nodes[v].op = "Mul"
  BY <1>1, <1>4 DEF KeptAt
<1>6. PICK w \in InputsOf(gr, v) : Domains(gr)[w] # Shared
  BY <1>4, <1>5 DEF SecretProducts, NodesOf
<1>7. w \in Values(gr) /\ \E j \in DOMAIN gr.nodes[v].in : w = gr.nodes[v].in[j]
  BY OperandFacts
<1>8. Domains(gr)[w] = Public
  BY <1>6, <1>7, NothingLocal, DomainFacts DEF Domain3
<1>9. Domains(h)[m[w]] = Public
  BY <1>7, <1>8, SplitDomains
<1>10. m[w] \in InputsOf(h, p)
  <2>1. PICK j \in DOMAIN gr.nodes[v].in : w = gr.nodes[v].in[j]
    BY <1>7
  <2>2. j \in DOMAIN h.nodes[p].in /\ h.nodes[p].in[j] = m[w]
    BY <1>4, <2>1 DEF KeptAt
  <2> QED
    BY <1>1, <2>2, OperandFacts
<1> QED
  BY <1>9, <1>10

-----------------------------------------------------------------------------
(* round_schedule: domains and levels stay, and a level's rounds are one.  *)

(* The operands of what is neither a round nor a result.                   *)
LEMMA PlainReads ==
  ASSUME NEW gr, Sound(gr), SplitShape(gr), NEW v \in Values(gr), Class(gr, v) = 0,
         NEW w \in InputsOf(gr, v)
  PROVE  w \in Slots(gr) /\ w \in Values(gr) /\ w < v /\ Class(gr, w) # 1 /\ SlotBefore(gr, w, v)
<1>1. w \in Slots(gr) /\ SlotBefore(gr, w, v)
  BY PlainOperands
<1>2. w \in Values(gr) /\ w < v /\ \E j \in DOMAIN gr.nodes[v].in : w = gr.nodes[v].in[j]
  BY OperandFacts
<1>3. gr.nodes[v].op \notin {"Round", "RoundResult"}
  BY ClassFacts
<1>4. Whole(gr, w)
  BY <1>2, <1>3 DEF SplitShape
<1>5. Class(gr, w) # 1
  BY <1>4, ClassFacts DEF Whole
<1> QED
  BY <1>1, <1>2, <1>5

LEMMA GroupedDomains ==
  ASSUME NEW gr, Sound(gr), SplitShape(gr), NEW h, Sound(h), NEW m, NEW N, Grouped(gr, h, m, N)
  PROVE  \A v \in Slots(gr) : Class(gr, v) # 1 => Domains(h)[m[v]] = Domains(gr)[v]
<1> PICK D, E : D = Domains(gr) /\ E = Domains(h)
  OBVIOUS
<1>1. /\ \A v \in Values(gr) : D[v] = NodeDomain(gr, D, gr.nodes[v])
      /\ \A p \in Values(h) : E[p] = NodeDomain(h, E, h.nodes[p])
  BY DomainFacts
<1>2. SameSignals(gr, h)
  BY DEF Grouped, Rebuilt, SameSignals
<1>3. \A v \in Slots(gr) : v \in Nat /\ v \in Values(gr)
  BY GraphFacts DEF Slots
<1> DEFINE T == {v \in Nat : v \in Slots(gr) /\ Class(gr, v) # 1 /\ E[m[v]] # D[v]}
<1>4. T = {}
  <2> SUFFICES ASSUME T # {} PROVE FALSE
    OBVIOUS
  <2>1. T \in SUBSET Nat
    OBVIOUS
  <2>2. PICK v \in T : \A w \in T : v <= w
    BY <2>1, LeastElement
  <2>3. v \in Slots(gr) /\ v \in Values(gr) /\ Class(gr, v) # 1 /\ E[m[v]] # D[v]
    BY <1>3, <2>2
  <2>4. \A w \in Slots(gr) : w < v /\ Class(gr, w) # 1 => E[m[w]] = D[w]
    BY <1>3, <2>2
  <2>5. CASE Class(gr, v) = 0
    <3>1. \A w \in InputsOf(gr, v) : w \in Slots(gr) /\ w < v /\ Class(gr, w) # 1 => E[m[w]] = D[w]
      BY <2>4
    <3>2. ReadsAlike(gr, h, m, D, E, v) /\ m[v] \in Values(h) /\ h.nodes[m[v]] = Renumber(gr.nodes[v], m)
      BY <2>3, <2>5, <3>1, GroupedReads
    <3>3. NodeDomain(h, E, Renumber(gr.nodes[v], m)) = NodeDomain(gr, D, gr.nodes[v])
      BY <1>2, <2>3, <3>2, DomainAlike
    <3> QED
      BY <1>1, <2>3, <3>2, <3>3
  <2>6. CASE Class(gr, v) = 2
    <3>1. gr.nodes[v].op = "RoundResult"
      BY <2>6, ClassFacts
    <3>2. D[v] = Shared
      BY Zenon, <1>1, <2>3, <3>1 DEF NodeDomain, ArithOps
    <3>3. m[v] \in Values(h) /\ h.nodes[m[v]].op = "RoundResult"
      <4>1. Values(h) = 1 .. N /\ m[v] \in 1 .. N /\ h.nodes[m[v]].op = gr.nodes[v].op
        BY <2>3 DEF Grouped, PlacedInOrder
      <4> QED
        BY <3>1, <4>1
    <3>4. E[m[v]] = Shared
      BY Zenon, <1>1, <3>3 DEF NodeDomain, ArithOps
    <3> QED
      BY <2>3, <3>2, <3>4
  <2> QED
    BY <2>3, <2>5, <2>6, ClassFacts
<1> QED
  BY <1>3, <1>4

(* The largest of numbers that are all the same.                           *)
LEMMA MaxOfSame ==
  ASSUME NEW L \in Nat, NEW S, L \in S, \A x \in S : x = L
  PROVE  Max({0} \cup S) = L
<1> DEFINE T == {0} \cup S
<1>1. T \in SUBSET (0 .. L) /\ T # {} /\ L \in T
  OBVIOUS
<1> PICK y : y = Max(T)
  OBVIOUS
<1>2. y \in T /\ L <= y
  BY <1>1, LargestElement
<1>3. y = 0 \/ y = L
  BY <1>2
<1> QED
  BY <1>2, <1>3

(* A listed round and its split are at the level asked for.                *)
LEMMA ListedLevels ==
  ASSUME NEW gr, Sound(gr), SplitShape(gr), NEW L \in Nat, NEW k \in DOMAIN RoundsAt(gr, L)
  PROVE  NetworkLevels(gr)[RoundsAt(gr, L)[k] - 1] = L
<1> DEFINE q == RoundsAt(gr, L)
<1>1. TrioLevels(gr, q[k]) /\ NetworkLevels(gr)[q[k]] = L
  <2> HIDE DEF q
  <2>1. \A p \in DOMAIN q : NetworkLevels(gr)[q[p]] = L /\ TrioLevels(gr, q[p])
    BY RoundsListed DEF q
  <2> QED
    BY <2>1 DEF q
<1> HIDE DEF q
<1>2. NetworkLevels(gr)[q[k] - 1] = L
  BY <1>1 DEF TrioLevels
<1> QED
  BY <1>2 DEF q

(* The merged round is at the level of its products.                       *)
LEMMA MergedLevel ==
  ASSUME NEW gr, Sound(gr), SplitShape(gr), NEW h, Sound(h), NEW m, NEW N, Grouped(gr, h, m, N),
         NEW L \in Nat, NEW q, q = RoundsAt(gr, L), q # <<>>, NEW r, r = m[q[1]],
         NEW X, NEW E, Leveled(h, X, E),
         \A k \in DOMAIN q : E[m[q[k] - 1]] = NetworkLevels(gr)[q[k] - 1]
  PROVE  E[r] = L
<1>1. UnitIn(gr, h, m, L, q) /\ UnitAround(gr, L, q)
  BY GroupedUnits, UnitSlots
<1>2. /\ r \in Values(h) /\ h.nodes[r].op = "Round" /\ DOMAIN h.nodes[r].in = DOMAIN q
      /\ \A k \in DOMAIN q : h.nodes[r].in[k] = m[gr.nodes[q[k]].in[1]]
  BY <1>1 DEF UnitIn
<1>3. \A k \in DOMAIN q : gr.nodes[q[k]].in[1] = q[k] - 1
  BY <1>1 DEF UnitAround
<1>4. \A k \in DOMAIN q : NetworkLevels(gr)[q[k] - 1] = L
  BY ListedLevels
<1>5. 1 \in DOMAIN q
  BY RoundsListed
<1> DEFINE S == {E[w] : w \in ToSet(h.nodes[r].in)}
<1>6. E[r] = Max({0} \cup S)
  BY <1>2 DEF Leveled, NodeLevel, LeafOps, ArithOps
<1>7. \A k \in DOMAIN q : E[h.nodes[r].in[k]] = L
  BY <1>2, <1>3, <1>4
<1>8. ToSet(h.nodes[r].in) = {h.nodes[r].in[k] : k \in DOMAIN q}
  BY <1>2 DEF ToSet
<1>9. L \in S /\ \A x \in S : x = L
  BY <1>5, <1>7, <1>8
<1> HIDE DEF S
<1> QED
  BY <1>6, <1>9, MaxOfSame

LEMMA GroupedLevels ==
  ASSUME NEW gr, Sound(gr), SplitShape(gr), NEW h, Sound(h), NEW m, NEW N, Grouped(gr, h, m, N)
  PROVE  \A v \in Slots(gr) : NetworkLevels(h)[m[v]] = NetworkLevels(gr)[v]
<1> PICK D, E, X, Y : /\ D = NetworkLevels(gr) /\ E = NetworkLevels(h)
                      /\ X = NetworkSites(gr) /\ Y = NetworkSites(h)
  OBVIOUS
<1>1. Leveled(gr, X, D) /\ Leveled(h, Y, E)
  BY AxesFacts
<1>2. /\ \A v \in Slots(gr) : v \in Nat /\ v \in Values(gr) /\ m[v] \in Nat /\ m[v] \in Values(h)
      /\ \A v, w \in Slots(gr) : SlotBefore(gr, v, w) => m[v] < m[w]
      /\ \A v \in Slots(gr) : h.nodes[m[v]].op = gr.nodes[v].op
  <2>1. /\ PlacedInOrder(gr, m, N) /\ Values(h) = 1 .. N
        /\ \A v \in Slots(gr) : h.nodes[m[v]].op = gr.nodes[v].op
    BY DEF Grouped
  <2>2. N \in Nat /\ \A v \in Slots(gr) : m[v] \in 1 .. N
    BY <2>1 DEF PlacedInOrder
  <2>3. \A v, w \in Slots(gr) : SlotBefore(gr, v, w) => m[v] < m[w]
    BY <2>1 DEF PlacedInOrder
  <2>4. \A v \in Slots(gr) : v \in Nat /\ v \in Values(gr)
    BY GraphFacts DEF Slots
  <2> QED
    BY <2>1, <2>2, <2>3, <2>4
<1>3. ASSUME NEW w \in Slots(gr), gr.nodes[w].op = "Gadget"
      PROVE  m[w] \in Y <=> w \in X
  <2>1. Class(gr, w) # 1
    BY <1>3, ClassFacts
  <2>2. Domains(h)[m[w]] = Domains(gr)[w]
    BY <2>1, GroupedDomains
  <2>3. h.nodes[m[w]].op = "Gadget" /\ m[w] \in Values(h) /\ w \in Values(gr)
    BY <1>2, <1>3
  <2> QED
    BY <1>3, <2>2, <2>3 DEF NetworkSites, NodesOf
<1> DEFINE T == {p \in Nat : \E v \in Slots(gr) : p = m[v] /\ E[p] # D[v]}
<1>4. T = {}
  <2> SUFFICES ASSUME T # {} PROVE FALSE
    OBVIOUS
  <2>1. T \in SUBSET Nat
    OBVIOUS
  <2>2. PICK p \in T : \A q \in T : p <= q
    BY <2>1, LeastElement
  <2>3. PICK v \in Slots(gr) : p = m[v] /\ E[p] # D[v]
    OBVIOUS
  <2>4. ASSUME NEW w \in Slots(gr), SlotBefore(gr, w, v)
        PROVE  E[m[w]] = D[w]
    <3>1. m[w] < p /\ m[w] \in Nat /\ p \in Nat
      BY <1>2, <2>3, <2>4
    <3>2. m[w] \notin T
      BY <2>2, <3>1
    <3> QED
      BY <3>1, <3>2
  <2>5. v \in Values(gr) /\ p \in Values(h) /\ h.nodes[p].op = gr.nodes[v].op
    BY <1>2, <2>3
  <2>6. CASE Class(gr, v) = 0
    <3>1. \A w \in InputsOf(gr, v) : w \in Slots(gr) /\ E[m[w]] = D[w]
      BY <2>4, <2>5, <2>6, PlainReads
    <3>2. \A w \in InputsOf(gr, v) : w \in Slots(gr) /\ w < v /\ Class(gr, w) # 1 => E[m[w]] = D[w]
      BY <3>1
    <3>3. ReadsAlike(gr, h, m, D, E, v) /\ h.nodes[p] = Renumber(gr.nodes[v], m)
      BY <2>3, <2>6, <3>2, GroupedReads
    <3>4. gr.nodes[v].op = "GadgetResult" =>
            (m[gr.nodes[v].in[1]] \in Y <=> gr.nodes[v].in[1] \in X)
      <4> SUFFICES ASSUME gr.nodes[v].op = "GadgetResult"
                   PROVE  m[gr.nodes[v].in[1]] \in Y <=> gr.nodes[v].in[1] \in X
        OBVIOUS
      <4> PICK w : w = gr.nodes[v].in[1]
        OBVIOUS
      <4>1. w \in NodesOf(gr, "Gadget") /\ w \in InputsOf(gr, v)
        BY <2>5, ResultOperand
      <4>2. w \in Slots(gr) /\ gr.nodes[w].op = "Gadget"
        BY <3>1, <4>1 DEF NodesOf
      <4> QED
        BY <1>3, <4>2
    <3>5. NodeLevel(Y, E, Renumber(gr.nodes[v], m)) = NodeLevel(X, D, gr.nodes[v])
      BY <2>5, <3>3, <3>4, LevelAlike
    <3>6. E[p] = NodeLevel(Y, E, h.nodes[p]) /\ D[v] = NodeLevel(X, D, gr.nodes[v])
      BY <1>1, <2>5 DEF Leveled
    <3> QED
      BY <2>3, <3>3, <3>5, <3>6
  <2>7. CASE Class(gr, v) = 1
    <3> PICK L, q : L = Home(gr, v) /\ q = RoundsAt(gr, L)
      OBVIOUS
    <3>1. L \in Nat /\ L = D[v] /\ v = q[1]
      BY <2>5, <2>7, HomeFacts DEF Slots
    <3>2. q # <<>>
      <4>1. v \in RoundSet(gr, L)
        BY <2>5, <2>7, <3>1, HomeFacts DEF RoundSet, NetAt, NodesOf
      <4> QED
        BY <3>1, <4>1, RoundsListed
    <3>3. UnitAround(gr, L, q)
      BY <3>1, <3>2, UnitSlots
    <3>4. \A k \in DOMAIN q : q[k] - 1 \in Slots(gr) /\ SlotBefore(gr, q[k] - 1, v)
      BY <3>1, <3>3 DEF UnitAround
    <3>5. \A k \in DOMAIN q : E[m[q[k] - 1]] = D[q[k] - 1]
      BY <2>4, <3>4
    <3>6. E[p] = L
      BY <1>1, <2>3, <3>1, <3>2, <3>5, MergedLevel
    <3> QED
      BY <2>3, <3>1, <3>6
  <2>8. CASE Class(gr, v) = 2
    <3> PICK L : L = D[v] - 1
      OBVIOUS
    <3> PICK q : q = RoundsAt(gr, L)
      OBVIOUS
    <3> PICK k : k = Number(gr, L, v)
      OBVIOUS
    <3>1. L \in Nat /\ q # <<>> /\ k \in DOMAIN q /\ q[k] + 1 = v /\ k \in Nat /\ k >= 1
      BY <2>5, <2>8, NumberFacts
    <3>2. UnitIn(gr, h, m, L, q) /\ UnitAround(gr, L, q)
      BY <3>1, GroupedUnits, UnitSlots
    <3> PICK r : r = m[q[1]]
      OBVIOUS
    <3>3. p = r + k /\ h.nodes[p] = Node("RoundResult", k - 1, <<r>>)
      <4>1. m[q[k] + 1] = r + k /\ h.nodes[r + k] = Node("RoundResult", k - 1, <<r>>)
        BY Zenon, <3>1, <3>2 DEF UnitIn
      <4> QED
        BY <2>3, <3>1, <4>1
    <3>4. q[1] \in Slots(gr) /\ SlotBefore(gr, q[1], v)
      BY <3>1, <3>2 DEF UnitAround
    <3>5. E[r] = D[q[1]]
      BY <2>4, <3>4
    <3>6. D[q[1]] = L
      BY <3>1, RoundsListed
    <3>7. E[p] = E[r] + 1
      <4> PICK n : n = h.nodes[p]
        OBVIOUS
      <4>1. n.op = "RoundResult" /\ n.in = <<r>>
        BY <3>3 DEF Node
      <4>2. E[p] = NodeLevel(Y, E, n)
        BY <1>1, <2>5 DEF Leveled
      <4> QED
        BY <4>1, <4>2 DEF NodeLevel, LeafOps, ArithOps
    <3>8. D[v] \in Nat
      BY <2>5, HomeFacts
    <3> QED
      BY <2>3, <3>1, <3>5, <3>6, <3>7, <3>8
  <2> QED
    BY <2>6, <2>7, <2>8, ClassFacts
<1>5. ASSUME NEW v \in Slots(gr)
      PROVE  E[m[v]] = D[v]
  BY <1>2, <1>4
<1> QED
  BY <1>5

LEMMA GroupedSplit ==
  ASSUME NEW gr, Sound(gr), SplitShape(gr), NEW h, Sound(h), NEW m, NEW N, Grouped(gr, h, m, N),
         ProductsSplit(gr)
  PROVE  ProductsSplit(h)
<1> SUFFICES ASSUME NEW p \in NodesOf(h, "Mul")
             PROVE  \E w \in InputsOf(h, p) : Domains(h)[w] = Public
  BY DEF ProductsSplit
<1>1. p \in Values(h) /\ h.nodes[p].op = "Mul"
  BY DEF NodesOf
<1>2. PICK v \in Slots(gr) : Class(gr, v) = 0 /\ p = m[v] /\ KeptAt(gr, h, m, v)
  BY <1>1, GroupedNode
<1>3. v \in NodesOf(gr, "Mul") /\ v \in Values(gr)
  BY <1>1, <1>2 DEF KeptAt, NodesOf, Slots
<1>4. PICK w \in InputsOf(gr, v) : Domains(gr)[w] = Public
  BY <1>3 DEF ProductsSplit
<1>5. w \in Slots(gr) /\ Class(gr, w) # 1
  BY <1>2, <1>3, PlainReads
<1>6. Domains(h)[m[w]] = Public
  BY <1>4, <1>5, GroupedDomains
<1>7. m[w] \in InputsOf(h, p)
  <2>1. PICK j \in DOMAIN gr.nodes[v].in : w = gr.nodes[v].in[j]
    BY <1>3, OperandFacts
  <2>2. j \in DOMAIN h.nodes[p].in /\ h.nodes[p].in[j] = m[w]
    BY <1>2, <2>1 DEF KeptAt
  <2> QED
    BY <1>1, <2>2, OperandFacts
<1> QED
  BY <1>6, <1>7

(* The round of a level, and the operands it has.                          *)
MergedRound(gr, h, m, r, L, q) ==
  /\ L \in Nat /\ q = RoundsAt(gr, L) /\ q # <<>> /\ r = m[q[1]]
  /\ NetworkLevels(h)[r] = L
  /\ r \in NodesOf(h, "Round") /\ DOMAIN h.nodes[r].in = DOMAIN q
  /\ \A k \in DOMAIN q : /\ q[k] \in Nat /\ q[k] - 1 \in Slots(gr)
                         /\ h.nodes[r].in[k] = m[q[k] - 1]
                         /\ NetworkLevels(gr)[q[k] - 1] = L

LEMMA MergedFacts ==
  ASSUME NEW gr, Sound(gr), SplitShape(gr), NEW h, Sound(h), NEW m, NEW N, Grouped(gr, h, m, N),
         NEW L \in Nat, NEW q, q = RoundsAt(gr, L), q # <<>>, NEW r, r = m[q[1]]
  PROVE  MergedRound(gr, h, m, r, L, q)
<1>1. UnitIn(gr, h, m, L, q) /\ UnitAround(gr, L, q)
  BY GroupedUnits, UnitSlots
<1>2. 1 \in DOMAIN q /\ NetworkLevels(gr)[q[1]] = L
  BY RoundsListed
<1>3. NetworkLevels(h)[r] = L
  <2>1. q[1] \in Slots(gr)
    BY <1>1 DEF UnitAround
  <2> QED
    BY <1>2, <2>1, GroupedLevels
<1>4. r \in NodesOf(h, "Round") /\ DOMAIN h.nodes[r].in = DOMAIN q
      /\ \A k \in DOMAIN q : h.nodes[r].in[k] = m[gr.nodes[q[k]].in[1]]
  BY <1>1 DEF UnitIn, NodesOf
<1>5. ASSUME NEW k \in DOMAIN q
      PROVE  /\ q[k] \in Nat /\ q[k] - 1 \in Slots(gr)
             /\ h.nodes[r].in[k] = m[q[k] - 1]
             /\ NetworkLevels(gr)[q[k] - 1] = L
  <2>1. q[k] - 1 \in Slots(gr) /\ gr.nodes[q[k]].in[1] = q[k] - 1
    BY <1>1 DEF UnitAround
  <2>2. q[k] \in Nat /\ TrioLevels(gr, q[k]) /\ NetworkLevels(gr)[q[k]] = L
    BY RoundsListed
  <2> QED
    BY <1>4, <2>1, <2>2 DEF TrioLevels
<1> QED
  BY <1>3, <1>4, <1>5 DEF MergedRound

LEMMA EveryRoundMerged ==
  ASSUME NEW gr, Sound(gr), SplitShape(gr), NEW h, Sound(h), NEW m, NEW N, Grouped(gr, h, m, N),
         NEW r \in NodesOf(h, "Round")
  PROVE  \E L, q : MergedRound(gr, h, m, r, L, q)
<1>1. r \in Values(h) /\ h.nodes[r].op = "Round"
  BY DEF NodesOf
<1>2. PICK L \in Nat : \E q : q = RoundsAt(gr, L) /\ q # <<>> /\ r = m[q[1]]
  BY <1>1, GroupedNode
<1>3. PICK q : q = RoundsAt(gr, L) /\ q # <<>> /\ r = m[q[1]]
  BY <1>2
<1> QED
  BY <1>3, MergedFacts

LEMMA GroupedApart ==
  ASSUME NEW gr, Sound(gr), SplitShape(gr), NEW h, Sound(h), NEW m, NEW N, Grouped(gr, h, m, N)
  PROVE  RoundsApart(h)
<1> SUFFICES ASSUME NEW r \in NodesOf(h, "Round"), NEW s \in NodesOf(h, "Round"),
                    NetworkLevels(h)[r] = NetworkLevels(h)[s]
             PROVE  r = s
  BY DEF RoundsApart
<1>1. PICK L, q : MergedRound(gr, h, m, r, L, q)
  BY EveryRoundMerged
<1>2. PICK K, t : MergedRound(gr, h, m, s, K, t)
  BY EveryRoundMerged
<1>3. L = K /\ q = t
  BY <1>1, <1>2 DEF MergedRound
<1> QED
  BY <1>1, <1>2, <1>3 DEF MergedRound

LEMMA GroupedTaken ==
  ASSUME NEW gr, Sound(gr), SplitShape(gr), NEW h, Sound(h), NEW m, NEW N, Grouped(gr, h, m, N)
  PROVE  ProductsTaken(h)
<1> SUFFICES ASSUME NEW u \in NodesOf(h, "MulLocal")
             PROVE  TakenOnce(h, u)
  BY DEF ProductsTaken
<1>1. u \in Values(h) /\ h.nodes[u].op = "MulLocal"
  BY DEF NodesOf
<1>2. PICK x \in Slots(gr) : Class(gr, x) = 0 /\ u = m[x] /\ KeptAt(gr, h, m, x)
  BY <1>1, GroupedNode
<1>3. x \in NodesOf(gr, "MulLocal") /\ x \in Nat
  BY <1>1, <1>2, GraphFacts DEF KeptAt, NodesOf, Slots
<1> PICK y : y = x + 1
  OBVIOUS
<1>4. Trio(gr, y)
  BY <1>3 DEF SplitShape
<1> PICK L : L = NetworkLevels(gr)[y]
  OBVIOUS
<1> PICK q : q = RoundsAt(gr, L)
  OBVIOUS
<1>5. L \in Nat /\ y \in RoundSet(gr, L) /\ y - 1 = x /\ y \in Nat
  <2>1. TrioLevels(gr, y)
    BY <1>4, TrioFacts
  <2> QED
    BY <1>3, <2>1 DEF TrioLevels, RoundSet, NetAt, NodesOf
<1>6. PICK k \in DOMAIN q : q[k] = y
  BY <1>5, RoundsListed
<1>7. q # <<>>
  BY <1>5, RoundsListed
<1> PICK r : r = m[q[1]]
  OBVIOUS
<1>8. MergedRound(gr, h, m, r, L, q)
  BY SMTT(20), <1>5, <1>7, MergedFacts
<1>9. TakenBy(h, u, r, k)
  BY <1>2, <1>5, <1>6, <1>8 DEF MergedRound, TakenBy
<1>10. ASSUME NEW s, NEW j, TakenBy(h, u, s, j)
       PROVE  s = r /\ j = k
  <2>1. s \in NodesOf(h, "Round") /\ j \in DOMAIN h.nodes[s].in /\ h.nodes[s].in[j] = u
    BY <1>10 DEF TakenBy
  <2>2. PICK K, t : MergedRound(gr, h, m, s, K, t)
    BY <2>1, EveryRoundMerged
  <2>3. /\ j \in DOMAIN t /\ t[j] \in Nat /\ t[j] - 1 \in Slots(gr) /\ u = m[t[j] - 1]
        /\ NetworkLevels(gr)[t[j] - 1] = K /\ K \in Nat
        /\ t = RoundsAt(gr, K) /\ t # <<>> /\ s = m[t[1]]
    BY <2>1, <2>2 DEF MergedRound
  <2>4. t[j] - 1 = x
    <3>1. \A v \in Slots(gr) : SlotList(gr)[m[v]] = v
      BY DEF Grouped, PlacedInOrder
    <3> QED
      BY <1>2, <2>3, <3>1
  <2>5. K = L
    <3>1. NetworkLevels(gr)[x] = L
      BY <1>5, <1>6, <1>8 DEF MergedRound
    <3> QED
      BY SMTT(20), <2>3, <2>4, <3>1
  <2>6. t = q /\ s = r
    BY <2>3, <2>5
  <2>7. q[j] = q[k] /\ j \in DOMAIN q
    BY <1>5, <1>6, <2>3, <2>4, <2>6
  <2>8. DOMAIN q = 1 .. Len(q) /\ Len(q) \in Nat /\ \A a, b \in DOMAIN q : a < b => q[a] < q[b]
    BY <1>5, RoundsListed
  <2>9. q[j] \in Nat /\ q[k] \in Nat
    BY <1>5, <1>6, <2>7
  <2>10. ~ (j < k) /\ ~ (k < j)
    BY <1>6, <2>7, <2>8, <2>9
  <2>11. j \in Nat /\ k \in Nat
    BY <1>6, <2>7, <2>8
  <2> QED
    BY <2>6, <2>10, <2>11
<1> QED
  BY <1>9, <1>10 DEF TakenOnce

-----------------------------------------------------------------------------
(* wide_schedule: domains and levels stay.                                 *)

(* A value that is moved reads what it read.                               *)
LEMMA KeptReads ==
  ASSUME NEW gr, Sound(gr), NEW h, NEW m, SameSignals(gr, h),
         \A v \in Values(gr) : KeptAt(gr, h, m, v),
         NEW v \in Values(gr), NEW D, NEW E, \A w \in InputsOf(gr, v) : E[m[w]] = D[w]
  PROVE  ReadsAlike(gr, h, m, D, E, v)
<1>1. ASSUME gr.nodes[v].op = "GadgetResult"
      PROVE  h.nodes[m[gr.nodes[v].in[1]]].arg = gr.nodes[gr.nodes[v].in[1]].arg
  BY <1>1, ResultOperand DEF KeptAt
<1> QED
  BY <1>1 DEF ReadsAlike, SameSignals

LEMMA MovedDomains ==
  ASSUME NEW gr, Sound(gr), NEW h, Sound(h), NEW layout, NEW place,
         Moved(gr, h, Values(gr), layout, place)
  PROVE  \A v \in Values(gr) : Domains(h)[place[v]] = Domains(gr)[v]
<1> PICK D, E : D = Domains(gr) /\ E = Domains(h)
  OBVIOUS
<1>1. /\ \A v \in Values(gr) : D[v] = NodeDomain(gr, D, gr.nodes[v])
      /\ \A p \in Values(h) : E[p] = NodeDomain(h, E, h.nodes[p])
  BY DomainFacts
<1>2. SameSignals(gr, h) /\ \A v \in Values(gr) : KeptAt(gr, h, place, v)
  BY DEF Moved, Rebuilt, SameSignals
<1>3. \A v \in Values(gr) : v \in Nat
  BY GraphFacts
<1> DEFINE T == {v \in Nat : v \in Values(gr) /\ E[place[v]] # D[v]}
<1>4. T = {}
  <2> SUFFICES ASSUME T # {} PROVE FALSE
    OBVIOUS
  <2>1. T \in SUBSET Nat
    OBVIOUS
  <2>2. PICK v \in T : \A w \in T : v <= w
    BY <2>1, LeastElement
  <2>3. v \in Values(gr) /\ E[place[v]] # D[v]
    OBVIOUS
  <2>4. \A w \in InputsOf(gr, v) : E[place[w]] = D[w]
    <3>1. \A w \in InputsOf(gr, v) : w \in Values(gr) /\ w < v
      BY <2>3, OperandFacts
    <3> QED
      BY <1>3, <2>2, <3>1
  <2>5. ReadsAlike(gr, h, place, D, E, v)
    BY <1>2, <2>3, <2>4, KeptReads
  <2>6. NodeDomain(h, E, Renumber(gr.nodes[v], place)) = NodeDomain(gr, D, gr.nodes[v])
    BY <1>2, <2>3, <2>5, DomainAlike
  <2>7. place[v] \in Values(h) /\ h.nodes[place[v]] = Renumber(gr.nodes[v], place)
    BY <1>2, <2>3 DEF KeptAt
  <2> QED
    BY <1>1, <2>3, <2>6, <2>7
<1> QED
  BY <1>3, <1>4

LEMMA MovedLevels ==
  ASSUME NEW gr, Sound(gr), NEW h, Sound(h), NEW layout, NEW place,
         Moved(gr, h, Values(gr), layout, place)
  PROVE  \A v \in Values(gr) : NetworkLevels(h)[place[v]] = NetworkLevels(gr)[v]
<1> PICK D, E, X, Y : /\ D = NetworkLevels(gr) /\ E = NetworkLevels(h)
                      /\ X = NetworkSites(gr) /\ Y = NetworkSites(h)
  OBVIOUS
<1>1. Leveled(gr, X, D) /\ Leveled(h, Y, E)
  BY AxesFacts
<1>2. SameSignals(gr, h) /\ \A v \in Values(gr) : KeptAt(gr, h, place, v)
  BY DEF Moved, Rebuilt, SameSignals
<1>3. \A v \in Values(gr) : v \in Nat
  BY GraphFacts
<1>4. ASSUME NEW w \in NodesOf(gr, "Gadget")
      PROVE  place[w] \in Y <=> w \in X
  <2>1. w \in Values(gr) /\ gr.nodes[w].op = "Gadget"
    BY DEF NodesOf
  <2>2. place[w] \in Values(h) /\ h.nodes[place[w]].op = "Gadget"
    BY <1>2, <2>1 DEF KeptAt
  <2>3. Domains(h)[place[w]] = Domains(gr)[w]
    BY <2>1, MovedDomains
  <2> QED
    BY <2>1, <2>2, <2>3 DEF NetworkSites, NodesOf
<1> DEFINE T == {v \in Nat : v \in Values(gr) /\ E[place[v]] # D[v]}
<1>5. T = {}
  <2> SUFFICES ASSUME T # {} PROVE FALSE
    OBVIOUS
  <2>1. T \in SUBSET Nat
    OBVIOUS
  <2>2. PICK v \in T : \A w \in T : v <= w
    BY <2>1, LeastElement
  <2>3. v \in Values(gr) /\ E[place[v]] # D[v]
    OBVIOUS
  <2>4. \A w \in InputsOf(gr, v) : E[place[w]] = D[w]
    <3>1. \A w \in InputsOf(gr, v) : w \in Values(gr) /\ w < v
      BY <2>3, OperandFacts
    <3> QED
      BY <1>3, <2>2, <3>1
  <2>5. ReadsAlike(gr, h, place, D, E, v)
    BY <1>2, <2>3, <2>4, KeptReads
  <2>6. gr.nodes[v].op = "GadgetResult" =>
          (place[gr.nodes[v].in[1]] \in Y <=> gr.nodes[v].in[1] \in X)
    BY <1>4, <2>3, ResultOperand
  <2>7. NodeLevel(Y, E, Renumber(gr.nodes[v], place)) = NodeLevel(X, D, gr.nodes[v])
    BY <2>3, <2>5, <2>6, LevelAlike
  <2>8. place[v] \in Values(h) /\ h.nodes[place[v]] = Renumber(gr.nodes[v], place)
    BY <1>2, <2>3 DEF KeptAt
  <2>9. E[place[v]] = NodeLevel(Y, E, h.nodes[place[v]]) /\ D[v] = NodeLevel(X, D, gr.nodes[v])
    BY <1>1, <2>3, <2>8 DEF Leveled
  <2> QED
    BY <2>3, <2>7, <2>8, <2>9
<1> QED
  BY <1>3, <1>5

(* Each of the three, when every value is moved.                           *)
LEMMA MovedBack ==
  ASSUME NEW gr, Sound(gr), NEW h, Sound(h), NEW layout, NEW place,
         Moved(gr, h, Values(gr), layout, place), NEW p \in Values(h)
  PROVE  /\ layout[p] \in Values(gr) /\ place[layout[p]] = p
         /\ gr.nodes[layout[p]].op = h.nodes[p].op
         /\ DOMAIN gr.nodes[layout[p]].in = DOMAIN h.nodes[p].in
         /\ \A j \in DOMAIN h.nodes[p].in : /\ gr.nodes[layout[p]].in[j] \in Values(gr)
                                            /\ h.nodes[p].in[j] = place[gr.nodes[layout[p]].in[j]]
<1> PICK v : v = layout[p]
  OBVIOUS
<1>1. v \in Values(gr) /\ place[v] = p
  BY DEF Moved
<1>2. KeptAt(gr, h, place, v)
  BY <1>1 DEF Moved
<1>3. \A j \in DOMAIN gr.nodes[v].in : gr.nodes[v].in[j] \in Values(gr)
  BY <1>1, OperandFacts
<1> QED
  BY <1>1, <1>2, <1>3 DEF KeptAt

LEMMA MovedSplit ==
  ASSUME NEW gr, Sound(gr), NEW h, Sound(h), NEW layout, NEW place,
         Moved(gr, h, Values(gr), layout, place), ProductsSplit(gr)
  PROVE  ProductsSplit(h)
<1> SUFFICES ASSUME NEW p \in NodesOf(h, "Mul")
             PROVE  \E w \in InputsOf(h, p) : Domains(h)[w] = Public
  BY DEF ProductsSplit
<1>1. p \in Values(h) /\ h.nodes[p].op = "Mul"
  BY DEF NodesOf
<1> PICK v : v = layout[p]
  OBVIOUS
<1>2. /\ v \in Values(gr) /\ gr.nodes[v].op = "Mul" /\ DOMAIN gr.nodes[v].in = DOMAIN h.nodes[p].in
      /\ \A j \in DOMAIN h.nodes[p].in : h.nodes[p].in[j] = place[gr.nodes[v].in[j]]
  BY <1>1, MovedBack
<1>3. PICK w \in InputsOf(gr, v) : Domains(gr)[w] = Public
  BY <1>2 DEF ProductsSplit, NodesOf
<1>4. PICK j \in DOMAIN gr.nodes[v].in : w = gr.nodes[v].in[j]
  BY <1>2, <1>3, OperandFacts
<1>5. place[w] \in InputsOf(h, p)
  BY <1>1, <1>2, <1>4, OperandFacts
<1>6. w \in Values(gr)
  BY <1>2, <1>3, OperandFacts
<1>7. Domains(h)[place[w]] = Public
  BY <1>3, <1>6, MovedDomains
<1> QED
  BY <1>5, <1>7

LEMMA MovedApart ==
  ASSUME NEW gr, Sound(gr), NEW h, Sound(h), NEW layout, NEW place,
         Moved(gr, h, Values(gr), layout, place), RoundsApart(gr)
  PROVE  RoundsApart(h)
<1> SUFFICES ASSUME NEW p \in NodesOf(h, "Round"), NEW q \in NodesOf(h, "Round"),
                    NetworkLevels(h)[p] = NetworkLevels(h)[q]
             PROVE  p = q
  BY DEF RoundsApart
<1>1. p \in Values(h) /\ h.nodes[p].op = "Round" /\ q \in Values(h) /\ h.nodes[q].op = "Round"
  BY DEF NodesOf
<1> PICK r, s : r = layout[p] /\ s = layout[q]
  OBVIOUS
<1>2. /\ r \in Values(gr) /\ gr.nodes[r].op = "Round" /\ place[r] = p
      /\ s \in Values(gr) /\ gr.nodes[s].op = "Round" /\ place[s] = q
  BY <1>1, MovedBack
<1>3. /\ NetworkLevels(h)[place[r]] = NetworkLevels(gr)[r]
      /\ NetworkLevels(h)[place[s]] = NetworkLevels(gr)[s]
  BY <1>2, MovedLevels
<1>4. NetworkLevels(gr)[r] = NetworkLevels(gr)[s]
  BY <1>2, <1>3
<1>5. r = s
  BY <1>2, <1>4 DEF RoundsApart, NodesOf
<1> QED
  BY <1>2, <1>5

LEMMA MovedTaken ==
  ASSUME NEW gr, Sound(gr), NEW h, Sound(h), NEW layout, NEW place,
         Moved(gr, h, Values(gr), layout, place), ProductsTaken(gr)
  PROVE  ProductsTaken(h)
<1> SUFFICES ASSUME NEW u \in NodesOf(h, "MulLocal")
             PROVE  TakenOnce(h, u)
  BY DEF ProductsTaken
<1>1. u \in Values(h) /\ h.nodes[u].op = "MulLocal"
  BY DEF NodesOf
<1> PICK x : x = layout[u]
  OBVIOUS
<1>2. x \in NodesOf(gr, "MulLocal") /\ place[x] = u /\ x \in Values(gr)
  BY <1>1, MovedBack DEF NodesOf
<1>3. TakenOnce(gr, x)
  BY <1>2 DEF ProductsTaken
<1>4. PICK r, k : TakenBy(gr, x, r, k) /\ \A s, j : TakenBy(gr, x, s, j) => s = r /\ j = k
  BY <1>3 DEF TakenOnce
<1>4a. \A a, b : TakenBy(gr, x, a, b) => a = r /\ b = k
  BY <1>4
<1>5. r \in Values(gr) /\ gr.nodes[r].op = "Round" /\ k \in DOMAIN gr.nodes[r].in /\ gr.nodes[r].in[k] = x
  BY <1>4 DEF TakenBy, NodesOf
<1>6. TakenBy(h, u, place[r], k)
  <2>1. KeptAt(gr, h, place, r)
    BY <1>5 DEF Moved
  <2> QED
    BY <1>2, <1>5, <2>1 DEF KeptAt, TakenBy, NodesOf
<1>7. ASSUME NEW s, NEW j, TakenBy(h, u, s, j)
      PROVE  s = place[r] /\ j = k
  <2>1. s \in Values(h) /\ h.nodes[s].op = "Round" /\ j \in DOMAIN h.nodes[s].in /\ h.nodes[s].in[j] = u
    BY <1>7 DEF TakenBy, NodesOf
  <2> PICK t : t = layout[s]
    OBVIOUS
  <2>2. /\ t \in Values(gr) /\ place[t] = s /\ gr.nodes[t].op = "Round"
        /\ j \in DOMAIN gr.nodes[t].in /\ gr.nodes[t].in[j] \in Values(gr)
        /\ u = place[gr.nodes[t].in[j]]
    BY <2>1, MovedBack
  <2>3. gr.nodes[t].in[j] = x
    <3>1. \A v \in Values(gr) : layout[place[v]] = v
      BY DEF Moved
    <3> QED
      BY <2>2, <3>1
  <2>4. TakenBy(gr, x, t, j)
    BY <2>2, <2>3 DEF TakenBy, NodesOf
  <2>5. t = r /\ j = k
    BY <1>4a, <2>4
  <2> QED
    BY <2>2, <2>5
<1> QED
  BY <1>6, <1>7 DEF TakenOnce

(* The three passes.                                                       *)
OnSchedule(h) == ProductsSplit(h) /\ RoundsApart(h) /\ ProductsTaken(h)

LEMMA MulSplitSplits ==
  ASSUME NEW gr, Sound(gr), IsGraph(gr), Unlowered(gr), NEW h, h = MulSplit(gr).graph
  PROVE  ProductsSplit(h)
<1>1. PICK pass : pass = "split"
  OBVIOUS
<1>2. pass \in RewritingPasses /\ h = Rewritten(pass, gr).graph
  BY <1>1 DEF RewritingPasses, Rewritten
<1>3. PICK em, m :
        /\ Course(pass, gr, em, m)
        /\ Rewritten(pass, gr).graph = RebuildNodes(gr, em[Len(gr.nodes)], m)
  BY <1>2, RewritingCourse
<1>4. h = NewGraph(gr, em, m)
  BY <1>2, <1>3 DEF NewGraph
<1>5. Sound(h)
  BY MulSplitFacts
<1> QED
  BY <1>1, <1>3, <1>4, <1>5, SplitSplits

LEMMA RoundScheduleSchedules ==
  ASSUME NEW gr, Sound(gr), IsGraph(gr), SplitShape(gr), ProductsSplit(gr),
         NEW h, h = RoundSchedule(gr)
  PROVE  OnSchedule(h)
<1>1. Sound(h) /\ \E m, N : Grouped(gr, h, m, N)
  BY RoundScheduleFacts
<1>2. PICK m, N : Grouped(gr, h, m, N)
  BY <1>1
<1>3. ProductsSplit(h)
  BY <1>1, <1>2, GroupedSplit
<1>4. RoundsApart(h)
  BY <1>1, <1>2, GroupedApart
<1>5. ProductsTaken(h)
  BY <1>1, <1>2, GroupedTaken
<1> QED
  BY <1>3, <1>4, <1>5 DEF OnSchedule

LEMMA WideKeepsSchedule ==
  ASSUME NEW gr, Sound(gr), IsGraph(gr), OnSchedule(gr), NEW h, h = WideSchedule(gr)
  PROVE  OnSchedule(h)
<1>1. Sound(h)
  BY WideFacts
<1>2. PICK l, place : SortedBy(gr, l) /\ Moved(gr, h, Values(gr), l, place)
  BY WideFacts
<1>3. ProductsSplit(h)
  BY <1>1, <1>2, MovedSplit DEF OnSchedule
<1>4. RoundsApart(h)
  BY <1>1, <1>2, MovedApart DEF OnSchedule
<1>5. ProductsTaken(h)
  BY <1>1, <1>2, MovedTaken DEF OnSchedule
<1> QED
  BY <1>3, <1>4, <1>5 DEF OnSchedule

(* Nodes stand in the order of their network levels.                       *)
ByLevel(h) ==
  \A v, w \in Values(h) :
    /\ h.nodes[v].op # "RoundResult" /\ h.nodes[w].op # "RoundResult"
    /\ NetworkLevels(h)[v] < NetworkLevels(h)[w]
    => v < w

LEMMA WideByLevel ==
  ASSUME NEW gr, Sound(gr), IsGraph(gr), NEW h, h = WideSchedule(gr)
  PROVE  ByLevel(h)
<1>1. Sound(h)
  BY WideFacts
<1>2. PICK l, place : SortedBy(gr, l) /\ Moved(gr, h, Values(gr), l, place)
  BY WideFacts
<1> SUFFICES ASSUME NEW v \in Values(h), NEW w \in Values(h),
                    h.nodes[v].op # "RoundResult", h.nodes[w].op # "RoundResult",
                    NetworkLevels(h)[v] < NetworkLevels(h)[w]
             PROVE  v < w
  BY DEF ByLevel
<1> PICK a, b : a = l[v] /\ b = l[w]
  OBVIOUS
<1>3. /\ a \in Values(gr) /\ place[a] = v /\ gr.nodes[a].op # "RoundResult"
      /\ b \in Values(gr) /\ place[b] = w /\ gr.nodes[b].op # "RoundResult"
  BY <1>1, <1>2, MovedBack
<1>4. NetworkLevels(h)[v] = NetworkLevels(gr)[a] /\ NetworkLevels(h)[w] = NetworkLevels(gr)[b]
  BY <1>1, <1>2, <1>3, MovedLevels
<1>5. UnitStart(gr, a) = a /\ UnitStart(gr, b) = b
  BY <1>3 DEF UnitStart
<1>6. WideBefore(gr, a, b)
  BY <1>4, <1>5 DEF WideBefore, KeysBefore
<1>7. v \in DOMAIN l /\ w \in DOMAIN l
  BY <1>2 DEF Moved
<1> QED
  BY <1>2, <1>6, <1>7 DEF SortedBy

(* Then all shared sites of a stage are reached before a result of any of  *)
(* them is read: a reader is a level deeper.                               *)
LEMMA SharedRoomy ==
  ASSUME NEW h, Sound(h), ByLevel(h), NEW key, key.domain = Shared
  PROVE  Roomy(h, key)
<1> SUFFICES ASSUME NEW s \in DOMAIN h.sites, NEW t \in DOMAIN h.sites,
                    PlanKey(h, s) = key, PlanKey(h, t) = key
             PROVE  SiteNode(h, s) < FirstReader(h, t)
  BY DEF Roomy
<1> PICK v, w, r, L : /\ v = SiteNode(h, s) /\ w = SiteNode(h, t) /\ r = FirstReader(h, t)
                      /\ L = NetworkLevels(h)
  OBVIOUS
<1>1. /\ v \in Values(h) /\ h.nodes[v].op = "Gadget"
      /\ w \in Values(h) /\ w \in NodesOf(h, "Gadget")
  BY SiteNodeFacts
<1>2. L[v] = L[w] /\ Domains(h)[w] = Shared
  <2>1. PlanKey(h, s).stage = L[v] /\ PlanKey(h, t).stage = L[w] /\ PlanKey(h, t).domain = Domains(h)[w]
    BY DEF PlanKey, SiteStages
  <2> QED
    BY <2>1
<1>3. w \in NetworkSites(h)
  BY <1>1, <1>2 DEF NetworkSites, Shared, Public
<1>4. Leveled(h, NetworkSites(h), L)
  BY AxesFacts
<1>5. CASE r = Len(h.nodes) + 1
  BY <1>1, <1>5, GraphFacts
<1>6. CASE r \in ReadersOfSite(h, t)
  <2>1. PICK x \in ResultsOf(h, t) : r \in ReadersOf(h, x)
    BY <1>6 DEF ReadersOfSite
  <2>2. x \in NodesOf(h, "GadgetResult") /\ SiteOf(h, x) = t
    BY <2>1 DEF ResultsOf
  <2>3. x \in Values(h) /\ h.nodes[x].op = "GadgetResult" /\ h.nodes[x].in[1] = w
    BY <2>2, ResultFacts DEF NodesOf
  <2>4. L[x] = L[w] + 1
    BY <1>3, <1>4, <2>3 DEF Leveled, NodeLevel, LeafOps, ArithOps
  <2>5. r \in Values(h) /\ x \in InputsOf(h, r)
    BY <2>1 DEF ReadersOf
  <2>6. L[x] <= L[r] /\ L[r] \in Nat /\ L[w] \in Nat
    <3>1. LevelsGrowAt(h, L, r)
      BY <1>4, <2>5, LevelsAlong
    <3>2. LevelsGrowAt(h, L, w)
      BY <1>1, <1>4, LevelsAlong
    <3> QED
      BY <2>5, <3>1, <3>2 DEF LevelsGrowAt
  <2>7. h.nodes[r].op # "RoundResult"
    <3>1. ASSUME h.nodes[r].op = "RoundResult"
          PROVE  FALSE
      <4>1. x \in NodesOf(h, "Round")
        BY <2>5, <3>1, ResultOperand
      <4> QED
        BY <2>3, <4>1 DEF NodesOf
    <3> QED
      BY <3>1
  <2>8. L[v] < L[r]
    BY <1>2, <2>4, <2>6
  <2> QED
    BY <1>1, <2>5, <2>7, <2>8 DEF ByLevel
<1> QED
  BY <1>5, <1>6, FirstReaderFacts

(* So the planner never opens a second batch for them.                     *)
LEMMA SharedOnce ==
  ASSUME NEW h, Sound(h), ByLevel(h), NEW plans, plans = PlanPlainBatches(h),
         NEW i \in DOMAIN plans, NEW j \in DOMAIN plans,
         plans[i].key.domain = Shared, plans[i].key = plans[j].key
  PROVE  i = j
<1>1. Planned(h, DOMAIN h.sites, plans)
  BY PlainBatches
<1>2. Roomy(h, plans[i].key)
  BY SharedRoomy
<1> QED
  BY <1>1, <1>2 DEF Planned
=============================================================================
