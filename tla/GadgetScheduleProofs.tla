------------------------ MODULE GadgetScheduleProofs ------------------------
(***************************************************************************)
(* Facts about the analyses code generation starts from, for every graph:  *)
(* the domain of every value is that of its operation, and every gadget    *)
(* site is planned once, at a Gadget node where its operands exist and     *)
(* none of its results has been read.                                      *)
(***************************************************************************)
EXTENDS GadgetSchedule, NumberTheorems, SequenceTheorems

-----------------------------------------------------------------------------
(* Graphs.                                                                 *)

(* The graphs the analyses are for.                                        *)
Sound(gr) == WellTyped(gr) /\ Topological(gr) /\ WellFormed(gr)

(* What the typing of a graph says of its nodes.                           *)
LEMMA GraphFacts ==
  ASSUME NEW gr, Sound(gr)
  PROVE  /\ Len(gr.nodes) \in Nat
         /\ Values(gr) = 1 .. Len(gr.nodes)
         /\ DOMAIN gr.nodes = 1 .. Len(gr.nodes)
         /\ \A v \in Values(gr) :
              /\ gr.nodes[v].op \in Ops
              /\ gr.nodes[v].arg \in Nat
              /\ gr.nodes[v].in \in Seq(Nat)
              /\ DOMAIN gr.nodes[v].in = 1 .. Len(gr.nodes[v].in)
              /\ Len(gr.nodes[v].in) \in Nat
              /\ \A j \in DOMAIN gr.nodes[v].in :
                   gr.nodes[v].in[j] \in Values(gr) /\ gr.nodes[v].in[j] < v
<1>1. Len(gr.nodes) \in Nat /\ DOMAIN gr.nodes = 1 .. Len(gr.nodes)
  BY LenProperties DEF Sound, WellTyped
<1>2. ASSUME NEW v \in Values(gr)
      PROVE  /\ gr.nodes[v].op \in Ops
             /\ gr.nodes[v].arg \in Nat
             /\ gr.nodes[v].in \in Seq(Nat)
             /\ DOMAIN gr.nodes[v].in = 1 .. Len(gr.nodes[v].in)
             /\ Len(gr.nodes[v].in) \in Nat
             /\ \A j \in DOMAIN gr.nodes[v].in :
                  gr.nodes[v].in[j] \in Values(gr) /\ gr.nodes[v].in[j] < v
  <2>1. gr.nodes[v] \in [op : Ops, arg : Nat, in : Seq(Nat)]
    BY <1>1, ElementOfSeq DEF Sound, WellTyped, Values
  <2>2. DOMAIN gr.nodes[v].in = 1 .. Len(gr.nodes[v].in) /\ Len(gr.nodes[v].in) \in Nat
    BY <2>1, LenProperties
  <2>3. ASSUME NEW j \in DOMAIN gr.nodes[v].in
        PROVE  gr.nodes[v].in[j] \in Values(gr) /\ gr.nodes[v].in[j] < v
    <3>1. gr.nodes[v].in[j] \in InputsOf(gr, v)
      BY DEF InputsOf, ToSet
    <3> QED
      BY <3>1 DEF Sound, WellTyped, Topological, Values
  <2> QED
    BY <2>1, <2>2, <2>3
<1> QED
  BY <1>1, <1>2 DEF Values

(* The operands of a node, as a set.                                       *)
LEMMA OperandFacts ==
  ASSUME NEW gr, Sound(gr), NEW v \in Values(gr)
  PROVE  /\ InputsOf(gr, v) = {gr.nodes[v].in[j] : j \in DOMAIN gr.nodes[v].in}
         /\ \A w \in InputsOf(gr, v) : w \in Values(gr) /\ w < v
<1>1. InputsOf(gr, v) = {gr.nodes[v].in[j] : j \in DOMAIN gr.nodes[v].in}
  BY DEF InputsOf, ToSet
<1> QED
  BY <1>1, GraphFacts

(* An operation has the operands its arity asks for.                       *)
LEMMA ArityFacts ==
  ASSUME NEW gr, Sound(gr), NEW v \in Values(gr)
  PROVE  /\ gr.nodes[v].op \in ArithOps \cup {"MulLocal"} => Len(gr.nodes[v].in) = 2
         /\ gr.nodes[v].op \in {"GadgetResult", "RoundResult"} => Len(gr.nodes[v].in) = 1
         /\ gr.nodes[v].op \in LeafOps => Len(gr.nodes[v].in) = 0
<1>1. Len(gr.nodes[v].in) \in Arities(gr.nodes[v].op)
  BY DEF Sound, WellTyped, Values
<1>2. CASE gr.nodes[v].op \in ArithOps \cup {"MulLocal"}
  BY <1>1, <1>2 DEF Arities, LeafOps, ArithOps
<1>3. CASE gr.nodes[v].op \in {"GadgetResult", "RoundResult"}
  BY <1>1, <1>3 DEF Arities, LeafOps, ArithOps
<1>4. CASE gr.nodes[v].op \in LeafOps
  BY <1>1, <1>4 DEF Arities, LeafOps, ArithOps
<1> QED
  BY <1>2, <1>3, <1>4 DEF LeafOps, ArithOps

-----------------------------------------------------------------------------
(* Domains. The forward pass of compute_domains is a fold; its recursion   *)
(* equation is obtained from the functions that obey it.                   *)

DomainStep(gr, f, s) ==
  IF s = {} THEN <<>>
  ELSE LET x == Max(s)
       IN  Append(f[s \ {x}], NodeDomain(gr, f[s \ {x}], gr.nodes[x]))

ObeysDomain(gr, f, D) == f = [s \in D |-> DomainStep(gr, f, s)]

(* Some function obeys the recursion on all subsets of the nodes.          *)
LEMMA DomainRecursionExists ==
  ASSUME NEW gr, NEW m \in Nat
  PROVE  \E f : ObeysDomain(gr, f, SUBSET (1 .. m))
<1> DEFINE S == 1 .. m
           Small(n) == {s \in SUBSET S : Cardinality(s) <= n}
           T == {n \in Nat : \E f : ObeysDomain(gr, f, Small(n))}
<1>1. IsFiniteSet(S) /\ S \subseteq 0 .. m
  BY FS_Interval
<1> HIDE DEF S
<1>2. \A s \in SUBSET S : IsFiniteSet(s) /\ Cardinality(s) \in Nat
                         /\ Cardinality(s) <= Cardinality(S)
  BY <1>1, FS_Subset, FS_CardinalityType
<1>3. 0 \in T
  <2> DEFINE f == [s \in Small(0) |-> <<>>]
  <2>1. \A s \in Small(0) : s = {}
    BY <1>2, FS_EmptySet
  <2>2. ObeysDomain(gr, f, Small(0))
    BY <2>1 DEF ObeysDomain, DomainStep
  <2> QED
    BY <2>2
<1>4. ASSUME NEW n \in T
      PROVE  n + 1 \in T
  <2>1. PICK f : ObeysDomain(gr, f, Small(n))
    OBVIOUS
  <2> DEFINE h == [s \in Small(n + 1) |-> DomainStep(gr, f, s)]
  <2>2. \A s \in Small(n) : s \in Small(n + 1) /\ h[s] = f[s]
    BY <1>2, <2>1 DEF ObeysDomain
  <2>3. ASSUME NEW s \in Small(n + 1)
        PROVE  DomainStep(gr, f, s) = DomainStep(gr, h, s)
    <3>1. CASE s = {}
      BY <3>1 DEF DomainStep
    <3>2. CASE s # {}
      <4> DEFINE x == Max(s)
      <4>1. x \in s
        BY <1>1, <3>2, LargestElement
      <4> HIDE DEF x
      <4>2. s \ {x} \in Small(n)
        BY <1>2, <4>1, FS_RemoveElement
      <4>3. f[s \ {x}] = h[s \ {x}]
        BY <2>2, <4>2
      <4> QED
        BY <3>2, <4>3 DEF DomainStep, x
    <3> QED
      BY <3>1, <3>2
  <2>4. ObeysDomain(gr, h, Small(n + 1))
    BY <2>3 DEF ObeysDomain
  <2>5. \E e : ObeysDomain(gr, e, Small(n + 1))
    BY <2>4
  <2> HIDE DEF Small, h
  <2> QED
    BY <2>5
<1>5. T = Nat
  <2> HIDE DEF T
  <2>1. T \in SUBSET Nat
    BY DEF T
  <2> QED
    BY <1>3, <1>4, <2>1, NaturalsFrom0
<1>6. Small(Cardinality(S)) = SUBSET S
  BY <1>2
<1>7. Cardinality(S) \in Nat
  BY <1>1, FS_CardinalityType
<1>8. \E f : ObeysDomain(gr, f, Small(Cardinality(S)))
  BY <1>5, <1>7
<1>9. \E f : ObeysDomain(gr, f, SUBSET S)
  BY <1>6, <1>8
<1> QED
  BY <1>9 DEF S

(* The domains are what such a function says of all nodes.                 *)
LEMMA DomainsByRecursion ==
  ASSUME NEW gr, Sound(gr)
  PROVE  \E f : /\ ObeysDomain(gr, f, SUBSET (1 .. Len(gr.nodes)))
                /\ Domains(gr) = f[1 .. Len(gr.nodes)]
<1>0. DOMAIN gr.nodes = 1 .. Len(gr.nodes) /\ Len(gr.nodes) \in Nat
  BY GraphFacts
<1> DEFINE f == CHOOSE h : ObeysDomain(gr, h, SUBSET (1 .. Len(gr.nodes)))
<1>1. ObeysDomain(gr, f, SUBSET (1 .. Len(gr.nodes)))
  BY <1>0, DomainRecursionExists
<1>2. Domains(gr) = f[1 .. Len(gr.nodes)]
  BY <1>0 DEF Domains, FoldLeft, MapThenFoldSet, ObeysDomain, DomainStep
<1> QED
  BY <1>1, <1>2

(* The join of some domains is one of them, or public.                     *)
LEMMA JoinOfDomains ==
  ASSUME NEW S \in SUBSET Domain3
  PROVE  /\ Join(S) \in Domain3
         /\ Join(S) = Local => Local \in S
         /\ Local \in S => Join(S) = Local
         /\ Join(S) = Shared => Shared \in S
<1> DEFINE T == {Public} \cup S
<1>1. T \in SUBSET (0 .. 2) /\ T # {} /\ T \subseteq Domain3
  BY DEF Domain3, Public, Shared, Local
<1>2. Max(T) \in T /\ \A x \in T : x <= Max(T)
  BY <1>1, LargestElement
<1>3. Join(S) = Max(T)
  BY DEF Join
<1> HIDE DEF T
<1>4. Join(S) \in Domain3 /\ (Join(S) = Local => Local \in S) /\ (Join(S) = Shared => Shared \in S)
  BY <1>1, <1>2, <1>3 DEF T, Public, Shared, Local
<1>5. ASSUME Local \in S
      PROVE  Join(S) = Local
  <2>1. Local <= Max(T) /\ Max(T) \in Domain3
    BY <1>1, <1>2, <1>5 DEF T
  <2>2. \A x \in Domain3 : Local <= x => x = Local
    BY DEF Domain3, Public, Shared, Local
  <2> QED
    BY <1>3, <2>1, <2>2
<1> QED
  BY <1>4, <1>5

(* The domain of a node is a domain when those of its operands are.        *)
LEMMA NodeDomainType ==
  ASSUME NEW gr, Sound(gr), NEW v \in Values(gr), NEW known,
         \A w \in InputsOf(gr, v) : known[w] \in Domain3
  PROVE  NodeDomain(gr, known, gr.nodes[v]) \in Domain3
<1> DEFINE n == gr.nodes[v]
<1>0. n.op \in Ops
  BY GraphFacts
<1>1. CASE n.op = "Input"
  <2>1. NodeDomain(gr, known, n) = SignalDomain(gr, n.arg)
    BY <1>1 DEF NodeDomain, ArithOps
  <2> QED
    BY <2>1 DEF SignalDomain, Domain3
<1>2. CASE n.op \in {"Constant", "Round"}
  BY <1>2 DEF NodeDomain, Domain3, ArithOps
<1>3. CASE n.op \in ArithOps \cup {"Gadget"}
  <2>1. {known[w] : w \in ToSet(n.in)} \in SUBSET Domain3
    BY DEF InputsOf
  <2>2. NodeDomain(gr, known, n) = Join({known[w] : w \in ToSet(n.in)})
    BY <1>3 DEF NodeDomain, ArithOps
  <2> QED
    BY <2>1, <2>2, JoinOfDomains
<1>4. CASE n.op = "MulLocal"
  BY <1>4 DEF NodeDomain, Domain3, ArithOps
<1>5. CASE n.op = "RoundResult"
  BY <1>5 DEF NodeDomain, Domain3, ArithOps
<1>6. CASE n.op = "GadgetResult"
  <2>1. n.in[1] \in InputsOf(gr, v)
    BY <1>6, ArityFacts, OperandFacts, GraphFacts
  <2>2. \/ NodeDomain(gr, known, n) = Public
        \/ NodeDomain(gr, known, n) = known[n.in[1]]
    BY <1>6 DEF NodeDomain, ArithOps
  <2> QED
    BY <2>1, <2>2 DEF Domain3
<1> QED
  BY <1>0, <1>1, <1>2, <1>3, <1>4, <1>5, <1>6 DEF Ops, LeafOps

(* The domain of a node depends on the domains of its operands only.       *)
LEMMA NodeDomainLocal ==
  ASSUME NEW gr, Sound(gr), NEW v \in Values(gr), NEW known, NEW more,
         \A w \in InputsOf(gr, v) : known[w] = more[w]
  PROVE  NodeDomain(gr, known, gr.nodes[v]) = NodeDomain(gr, more, gr.nodes[v])
<1> DEFINE n == gr.nodes[v]
<1>0. n.op \in Ops
  BY GraphFacts
<1>1. CASE n.op \in {"Input", "Constant", "Round", "MulLocal", "RoundResult"}
  BY <1>1 DEF NodeDomain, ArithOps
<1>3. CASE n.op \in ArithOps \cup {"Gadget"}
  <2>1. {known[w] : w \in ToSet(n.in)} = {more[w] : w \in ToSet(n.in)}
    BY DEF InputsOf
  <2> QED
    BY <1>3, <2>1 DEF NodeDomain, ArithOps
<1>6. CASE n.op = "GadgetResult"
  <2>1. n.in[1] \in InputsOf(gr, v)
    BY <1>6, ArityFacts, OperandFacts, GraphFacts
  <2> QED
    BY <1>6, <2>1 DEF NodeDomain, ArithOps
<1> QED
  BY <1>0, <1>1, <1>3, <1>6 DEF Ops, LeafOps

(* Domains of the first n values.                                          *)
Known(gr, d, n) ==
  /\ d \in Seq(Domain3) /\ Len(d) = n
  /\ \A v \in 1 .. n : d[v] = NodeDomain(gr, d, gr.nodes[v])

(* The pass extends them by one.                                           *)
LEMMA KnownGrows ==
  ASSUME NEW gr, Sound(gr), NEW n \in Nat, n + 1 \in Values(gr),
         NEW d, Known(gr, d, n),
         NEW e, e = Append(d, NodeDomain(gr, d, gr.nodes[n + 1]))
  PROVE  Known(gr, e, n + 1)
<1> DEFINE x == NodeDomain(gr, d, gr.nodes[n + 1])
<1>1. d \in Seq(Domain3) /\ Len(d) = n /\ DOMAIN d = 1 .. n
  BY LenProperties DEF Known
<1>2. ASSUME NEW v \in 1 .. (n + 1), NEW w \in InputsOf(gr, v)
      PROVE  w \in 1 .. n /\ w \in 1 .. v
  <2>1. v \in Values(gr)
    BY GraphFacts
  <2>2. w \in Values(gr) /\ w < v
    BY <2>1, OperandFacts
  <2> QED
    BY <2>1, <2>2, GraphFacts
<1>3. x \in Domain3
  <2>1. \A w \in InputsOf(gr, n + 1) : d[w] \in Domain3
    <3>1. \A w \in 1 .. n : d[w] \in Domain3
      BY <1>1, ElementOfSeq
    <3>2. n + 1 \in 1 .. (n + 1)
      OBVIOUS
    <3> QED
      BY <1>2, <3>1, <3>2
  <2> QED
    BY <2>1, NodeDomainType
<1> HIDE DEF x
<1>4. e = Append(d, x)
  BY DEF x
<1>5. /\ e \in Seq(Domain3) /\ Len(e) = n + 1 /\ e[n + 1] = x
      /\ \A v \in 1 .. n : e[v] = d[v]
  BY <1>1, <1>3, <1>4
<1>6. ASSUME NEW v \in 1 .. (n + 1)
      PROVE  e[v] = NodeDomain(gr, e, gr.nodes[v])
  <2>1. NodeDomain(gr, e, gr.nodes[v]) = NodeDomain(gr, d, gr.nodes[v])
    <3>1. v \in Values(gr)
      BY GraphFacts
    <3>2. \A w \in InputsOf(gr, v) : e[w] = d[w]
      BY <1>2, <1>5
    <3> QED
      BY <3>1, <3>2, NodeDomainLocal
  <2>2. CASE v = n + 1
    BY <1>5, <2>1, <2>2 DEF x
  <2>3. CASE v # n + 1
    <3>1. v \in 1 .. n
      BY <2>3
    <3> QED
      BY <1>5, <2>1, <3>1 DEF Known
  <2> QED
    BY <2>2, <2>3
<1> QED
  BY <1>5, <1>6 DEF Known

(* Every value has the domain of its operation, computed from the domains  *)
(* of its operands.                                                        *)
LEMMA DomainFacts ==
  ASSUME NEW gr, Sound(gr)
  PROVE  /\ DOMAIN Domains(gr) = Values(gr)
         /\ \A v \in Values(gr) :
              /\ Domains(gr)[v] \in Domain3
              /\ Domains(gr)[v] = NodeDomain(gr, Domains(gr), gr.nodes[v])
<1> DEFINE last == Len(gr.nodes)
<1>0. last \in Nat /\ Values(gr) = 1 .. last
  BY GraphFacts
<1>1. PICK f : ObeysDomain(gr, f, SUBSET (1 .. last)) /\ Domains(gr) = f[1 .. last]
  BY DomainsByRecursion
<1> HIDE DEF last
<1> DEFINE T == {n \in Nat : n <= last => Known(gr, f[1 .. n], n)}
<1>2. 0 \in T
  <2>1. 1 .. 0 = {} /\ {} \in SUBSET (1 .. last)
    OBVIOUS
  <2>2. f[{}] = <<>>
    BY <1>1, <2>1 DEF ObeysDomain, DomainStep
  <2>3. f[1 .. 0] = <<>>
    BY <2>1, <2>2
  <2>4. Known(gr, <<>>, 0)
    BY DEF Known
  <2> QED
    BY <2>3, <2>4
<1>3. ASSUME NEW n \in T
      PROVE  n + 1 \in T
  <2> SUFFICES ASSUME n + 1 <= last PROVE Known(gr, f[1 .. (n + 1)], n + 1)
    OBVIOUS
  <2>1. n \in Nat /\ Known(gr, f[1 .. n], n) /\ n + 1 \in 1 .. last
    BY <1>0
  <2>2. 1 .. (n + 1) \in SUBSET (1 .. last) /\ 1 .. (n + 1) # {}
    <3>1. n + 1 \in 1 .. (n + 1)
      BY <2>1
    <3>2. \A x \in 1 .. (n + 1) : x \in 1 .. last
      BY <1>0, <2>1
    <3> QED
      BY <3>1, <3>2
  <2>3. (1 .. (n + 1)) \ {n + 1} = 1 .. n
    BY <2>1
  <2>4. Max(1 .. (n + 1)) = n + 1
    BY <2>1, LargestUpTo
  <2>5. f[1 .. (n + 1)] = DomainStep(gr, f, 1 .. (n + 1))
    BY <1>1, <2>2 DEF ObeysDomain
  <2>6. DomainStep(gr, f, 1 .. (n + 1))
          = Append(f[1 .. n], NodeDomain(gr, f[1 .. n], gr.nodes[n + 1]))
    BY <2>2, <2>3, <2>4 DEF DomainStep
  <2> HIDE DEF T
  <2> QED
    BY <1>0, <2>1, <2>5, <2>6, KnownGrows
<1>4. T = Nat
  <2> HIDE DEF T
  <2>1. T \in SUBSET Nat
    BY DEF T
  <2> QED
    BY <1>2, <1>3, <2>1, NaturalsFrom0
<1>5. Known(gr, Domains(gr), last)
  <2>1. last \in T
    BY <1>0, <1>4
  <2> QED
    BY <1>0, <1>1, <2>1
<1>6. DOMAIN Domains(gr) = 1 .. last
  BY <1>5, LenProperties DEF Known
<1>7. \A v \in 1 .. last : Domains(gr)[v] \in Domain3
  BY <1>5, <1>6, ElementOfSeq DEF Known
<1> QED
  BY <1>0, <1>5, <1>6, <1>7 DEF Known

-----------------------------------------------------------------------------
(* Enumerations. Ordered lists a finite set by rank: every element has a   *)
(* rank of its own, and every rank an element.                             *)

StrictOrder(S, R) ==
  /\ \A x \in S : <<x, x>> \notin R
  /\ \A x, y \in S : x # y => <<x, y>> \in R \/ <<y, x>> \in R
  /\ \A x, y, z \in S : <<x, y>> \in R /\ <<y, z>> \in R => <<x, z>> \in R

Rank(S, R, v) == Cardinality({w \in S : <<w, v>> \in R})

(* Ranks in a finite strict order run from 0, without a gap and without a  *)
(* repetition.                                                             *)
LEMMA Ranks ==
  ASSUME NEW S, IsFiniteSet(S), NEW R, StrictOrder(S, R)
  PROVE  /\ Cardinality(S) \in Nat
         /\ \A v \in S : Rank(S, R, v) \in 0 .. (Cardinality(S) - 1)
         /\ \A v, w \in S : Rank(S, R, v) = Rank(S, R, w) => v = w
         /\ \A p \in 1 .. Cardinality(S) : \E v \in S : Rank(S, R, v) = p - 1
<1> DEFINE n == Cardinality(S)
           below(v) == {w \in S : <<w, v>> \in R}
<1>1. n \in Nat
  BY FS_CardinalityType
<1>2. ASSUME NEW v \in S
      PROVE  Rank(S, R, v) \in 0 .. (n - 1)
  <2>1. below(v) \in SUBSET S /\ below(v) # S
    BY DEF StrictOrder
  <2> HIDE DEF below
  <2>2. /\ Cardinality(below(v)) \in Nat /\ Cardinality(below(v)) <= n
        /\ Cardinality(below(v)) # n
    <3>1. IsFiniteSet(below(v)) /\ Cardinality(below(v)) <= n
          /\ (n = Cardinality(below(v)) => S = below(v))
      BY <2>1, FS_Subset
    <3>2. Cardinality(below(v)) \in Nat
      BY <3>1, FS_CardinalityType
    <3> QED
      BY <2>1, <3>1, <3>2
  <2>3. Cardinality(below(v)) \in 0 .. (n - 1)
    BY <1>1, <2>2
  <2> QED
    BY <2>3 DEF Rank, below
<1>3. ASSUME NEW v \in S, NEW w \in S, <<v, w>> \in R
      PROVE  Rank(S, R, v) # Rank(S, R, w)
  <2>1. below(v) \in SUBSET below(w) /\ v \in below(w) /\ v \notin below(v)
    BY <1>3 DEF StrictOrder
  <2>2. IsFiniteSet(below(w))
    <3>1. below(w) \in SUBSET S
      OBVIOUS
    <3> QED
      BY <3>1, FS_Subset
  <2> HIDE DEF below
  <2>3. Cardinality(below(v)) # Cardinality(below(w))
    BY <2>1, <2>2, FS_Subset
  <2> QED
    BY <2>3 DEF Rank, below
<1>4. \A v, w \in S : Rank(S, R, v) = Rank(S, R, w) => v = w
  BY <1>3 DEF StrictOrder
<1> DEFINE T == 0 .. (n - 1)
           rank == [v \in S |-> Rank(S, R, v)]
<1>5. IsFiniteSet(T) /\ Cardinality(T) = n
  BY <1>1, FS_Interval
<1>6. rank \in Injection(S, T)
  BY <1>2, <1>4 DEF Injection, IsInjective
<1>7. rank \in Surjection(S, T)
  <2> HIDE DEF rank, T, n
  <2> QED
    BY <1>5, <1>6, FS_Injection DEF n
<1>8. ASSUME NEW p \in 1 .. n
      PROVE  \E v \in S : Rank(S, R, v) = p - 1
  <2>1. p - 1 \in T
    BY <1>1
  <2> QED
    BY <1>7, <2>1 DEF Surjection
<1> QED
  BY <1>1, <1>2, <1>4, <1>8

(* A list names every element of a set, and each at one place.             *)
Lists(l, S) ==
  /\ DOMAIN l = 1 .. Cardinality(S)
  /\ \A p \in DOMAIN l : l[p] \in S
  /\ \A p, q \in DOMAIN l : l[p] = l[q] => p = q
  /\ \A v \in S : \E p \in DOMAIN l : l[p] = v

(* Elements chosen by rank list the set.                                   *)
LEMMA ListedByRank ==
  ASSUME NEW S, IsFiniteSet(S), NEW R, StrictOrder(S, R), NEW l,
         DOMAIN l = 1 .. Cardinality(S),
         \A p \in 1 .. Cardinality(S) : l[p] \in S /\ Rank(S, R, l[p]) = p - 1
  PROVE  Lists(l, S)
<1>1. Cardinality(S) \in Nat
  BY Ranks
<1>2. ASSUME NEW p \in DOMAIN l, NEW q \in DOMAIN l, l[p] = l[q]
      PROVE  p = q
  <2>1. p - 1 = q - 1
    BY <1>2
  <2> QED
    BY <1>1, <2>1
<1>3. ASSUME NEW v \in S
      PROVE  \E p \in DOMAIN l : l[p] = v
  <2>1. Rank(S, R, v) \in 0 .. (Cardinality(S) - 1)
    BY Ranks
  <2> DEFINE p == Rank(S, R, v) + 1
  <2>2. p \in 1 .. Cardinality(S) /\ p - 1 = Rank(S, R, v)
    BY <1>1, <2>1
  <2>3. l[p] \in S /\ Rank(S, R, l[p]) = Rank(S, R, v)
    BY <2>2
  <2>4. l[p] = v
    BY <2>3, Ranks
  <2> QED
    BY <2>2, <2>4
<1> QED
  BY <1>2, <1>3 DEF Lists

-----------------------------------------------------------------------------
(* Sites and their nodes.                                                  *)

(* Every site has a Gadget node of its own.                                *)
LEMMA SiteNodeFacts ==
  ASSUME NEW gr, Sound(gr)
  PROVE  /\ \A s \in DOMAIN gr.sites :
              /\ SiteNode(gr, s) \in NodesOf(gr, "Gadget")
              /\ SiteNode(gr, s) \in Values(gr)
              /\ gr.nodes[SiteNode(gr, s)].op = "Gadget"
              /\ gr.nodes[SiteNode(gr, s)].arg = s
         /\ \A s, t \in DOMAIN gr.sites : SiteNode(gr, s) = SiteNode(gr, t) => s = t
         /\ \A v \in NodesOf(gr, "Gadget") :
              gr.nodes[v].arg \in DOMAIN gr.sites /\ SiteNode(gr, gr.nodes[v].arg) = v
<1>1. ASSUME NEW s \in DOMAIN gr.sites
      PROVE  SiteNode(gr, s) \in NodesOf(gr, "Gadget") /\ gr.nodes[SiteNode(gr, s)].arg = s
  BY DEF Sound, WellFormed, SiteNode
<1>2. \A v \in NodesOf(gr, "Gadget") : v \in Values(gr) /\ gr.nodes[v].op = "Gadget"
  BY DEF NodesOf
<1>3. ASSUME NEW v \in NodesOf(gr, "Gadget")
      PROVE  gr.nodes[v].arg \in DOMAIN gr.sites /\ SiteNode(gr, gr.nodes[v].arg) = v
  <2>1. gr.nodes[v].arg \in DOMAIN gr.sites
    BY DEF Sound, WellFormed
  <2> QED
    BY <1>1, <2>1 DEF Sound, WellFormed
<1> QED
  BY <1>1, <1>2, <1>3

(* A result is read off the node of its site, before any reader of it.     *)
LEMMA ResultFacts ==
  ASSUME NEW gr, Sound(gr), NEW v \in NodesOf(gr, "GadgetResult")
  PROVE  /\ SiteOf(gr, v) \in DOMAIN gr.sites
         /\ v \in ResultsOf(gr, SiteOf(gr, v))
         /\ gr.nodes[v].in = <<SiteNode(gr, SiteOf(gr, v))>>
         /\ SiteNode(gr, SiteOf(gr, v)) < v
         /\ \A r \in ReadersOf(gr, v) : r \in Values(gr) /\ v < r
<1>1. v \in Values(gr) /\ gr.nodes[v].op = "GadgetResult"
  BY DEF NodesOf
<1>2. Len(gr.nodes[v].in) = 1 /\ gr.nodes[v].in \in Seq(Nat)
  BY <1>1, ArityFacts, GraphFacts
<1> DEFINE w == gr.nodes[v].in[1]
<1>3. w \in InputsOf(gr, v)
  BY <1>1, <1>2, OperandFacts, GraphFacts
<1>4. w \in NodesOf(gr, "Gadget")
  BY <1>3 DEF Sound, WellFormed
<1>5. SiteOf(gr, v) = gr.nodes[w].arg
  BY <1>1 DEF SiteOf
<1>6. SiteOf(gr, v) \in DOMAIN gr.sites /\ SiteNode(gr, SiteOf(gr, v)) = w
  BY <1>4, <1>5, SiteNodeFacts
<1>7. w < v
  BY <1>1, <1>3, OperandFacts
<1>8. gr.nodes[v].in = <<w>>
  BY <1>2
<1>9. \A r \in ReadersOf(gr, v) : r \in Values(gr) /\ v < r
  BY OperandFacts DEF ReadersOf
<1> QED
  BY <1>6, <1>7, <1>8, <1>9 DEF ResultsOf

(* A site's node comes before the first reader of its results.             *)
LEMMA FirstReaderFacts ==
  ASSUME NEW gr, Sound(gr), NEW s \in DOMAIN gr.sites
  PROVE  /\ FirstReader(gr, s) \in Nat
         /\ SiteNode(gr, s) \in Nat
         /\ SiteNode(gr, s) < FirstReader(gr, s)
         /\ \A v \in ResultsOf(gr, s) : \A r \in ReadersOf(gr, v) : FirstReader(gr, s) <= r
         /\ FirstReader(gr, s) = Len(gr.nodes) + 1 \/ FirstReader(gr, s) \in ReadersOfSite(gr, s)
<1> DEFINE T == {Len(gr.nodes) + 1} \cup ReadersOfSite(gr, s)
<1>1. ASSUME NEW v \in ResultsOf(gr, s), NEW r \in ReadersOf(gr, v)
      PROVE  r \in T /\ r \in Values(gr) /\ SiteNode(gr, s) < r
  <2>1. v \in NodesOf(gr, "GadgetResult") /\ SiteOf(gr, v) = s
    BY DEF ResultsOf
  <2>2. r \in Values(gr) /\ v < r /\ SiteNode(gr, s) < v
    BY <2>1, ResultFacts
  <2>3. v \in Nat /\ r \in Nat /\ SiteNode(gr, s) \in Nat
    BY <2>1, <2>2, GraphFacts, SiteNodeFacts DEF NodesOf
  <2> QED
    BY <2>2, <2>3 DEF ReadersOfSite
<1>2. SiteNode(gr, s) \in Nat /\ SiteNode(gr, s) < Len(gr.nodes) + 1
  BY SiteNodeFacts, GraphFacts
<1>3. T \in SUBSET Nat /\ T # {} /\ \A r \in T : SiteNode(gr, s) < r
  <2>1. \A r \in ReadersOfSite(gr, s) : r \in Nat /\ SiteNode(gr, s) < r
    BY <1>1, GraphFacts DEF ReadersOfSite
  <2> QED
    BY <1>2, <2>1, GraphFacts
<1> HIDE DEF T
<1>4. Min(T) \in T /\ \A r \in T : Min(T) <= r
  <2>1. \E m \in T : \A r \in T : m <= r
    BY <1>3, LeastElement
  <2> QED
    BY <2>1 DEF Min
<1>5. FirstReader(gr, s) = Min(T)
  BY DEF FirstReader, T
<1>6. \A r \in T : r = Len(gr.nodes) + 1 \/ r \in ReadersOfSite(gr, s)
  BY DEF T
<1> QED
  BY <1>1, <1>2, <1>3, <1>4, <1>5, <1>6

(* The planner visits every site once.                                     *)
LEMMA SiteOrderLists ==
  ASSUME NEW gr, Sound(gr)
  PROVE  Lists(SiteOrder(gr), DOMAIN gr.sites) /\ IsFiniteSet(DOMAIN gr.sites)
<1> DEFINE S == DOMAIN gr.sites
           R == {st \in S \X S : SiteNode(gr, st[1]) < SiteNode(gr, st[2])}
           l == SiteOrder(gr)
<1>1. IsFiniteSet(S)
  <2>1. Len(gr.sites) \in Nat /\ S = 1 .. Len(gr.sites)
    BY LenProperties DEF Sound, WellTyped
  <2> QED
    BY <2>1, FS_Interval
<1>2. \A s \in S : SiteNode(gr, s) \in Nat
  BY FirstReaderFacts
<1>3. \A s, t \in S : <<s, t>> \in R <=> SiteNode(gr, s) < SiteNode(gr, t)
  OBVIOUS
<1>4. StrictOrder(S, R)
  BY <1>2, <1>3, SiteNodeFacts DEF StrictOrder
<1>5. \A s \in S : {t \in S : SiteNode(gr, t) < SiteNode(gr, s)} = {t \in S : <<t, s>> \in R}
  BY <1>3
<1> HIDE DEF R
<1>6. \A s \in S : Cardinality({t \in S : SiteNode(gr, t) < SiteNode(gr, s)}) = Rank(S, R, s)
  BY <1>5 DEF Rank
<1>7. DOMAIN l = 1 .. Cardinality(S)
  BY DEF SiteOrder, Ordered
<1>8. ASSUME NEW p \in 1 .. Cardinality(S)
      PROVE  l[p] \in S /\ Rank(S, R, l[p]) = p - 1
  <2>1. l[p] = CHOOSE s \in S : Cardinality({t \in S : SiteNode(gr, t) < SiteNode(gr, s)}) = p - 1
    BY DEF SiteOrder, Ordered
  <2>2. \E s \in S : Rank(S, R, s) = p - 1
    BY <1>1, <1>4, Ranks
  <2>3. \E s \in S : Cardinality({t \in S : SiteNode(gr, t) < SiteNode(gr, s)}) = p - 1
    BY <1>6, <2>2
  <2>4. l[p] \in S /\ Cardinality({t \in S : SiteNode(gr, t) < SiteNode(gr, l[p])}) = p - 1
    BY <2>1, <2>3
  <2> QED
    BY <1>6, <2>4
<1> QED
  BY <1>1, <1>4, <1>7, <1>8, ListedByRank

-----------------------------------------------------------------------------
(* Levels. The forward pass of level.rs is a fold of the same shape, and   *)
(* the stage of a site is a number.                                        *)

LevelStep(gr, charged, f, s) ==
  IF s = {} THEN <<>>
  ELSE LET x == Max(s)
       IN  Append(f[s \ {x}], NodeLevel(charged, f[s \ {x}], gr.nodes[x]))

ObeysLevel(gr, charged, f, D) == f = [s \in D |-> LevelStep(gr, charged, f, s)]

(* Some function obeys the recursion on all subsets of the nodes.          *)
LEMMA LevelRecursionExists ==
  ASSUME NEW gr, NEW charged, NEW m \in Nat
  PROVE  \E f : ObeysLevel(gr, charged, f, SUBSET (1 .. m))
<1> DEFINE S == 1 .. m
           Small(n) == {s \in SUBSET S : Cardinality(s) <= n}
           T == {n \in Nat : \E f : ObeysLevel(gr, charged, f, Small(n))}
<1>1. IsFiniteSet(S) /\ S \subseteq 0 .. m
  BY FS_Interval
<1> HIDE DEF S
<1>2. \A s \in SUBSET S : IsFiniteSet(s) /\ Cardinality(s) \in Nat
                         /\ Cardinality(s) <= Cardinality(S)
  BY <1>1, FS_Subset, FS_CardinalityType
<1>3. 0 \in T
  <2> DEFINE f == [s \in Small(0) |-> <<>>]
  <2>1. \A s \in Small(0) : s = {}
    BY <1>2, FS_EmptySet
  <2>2. ObeysLevel(gr, charged, f, Small(0))
    BY <2>1 DEF ObeysLevel, LevelStep
  <2> QED
    BY <2>2
<1>4. ASSUME NEW n \in T
      PROVE  n + 1 \in T
  <2>1. PICK f : ObeysLevel(gr, charged, f, Small(n))
    OBVIOUS
  <2> DEFINE h == [s \in Small(n + 1) |-> LevelStep(gr, charged, f, s)]
  <2>2. \A s \in Small(n) : s \in Small(n + 1) /\ h[s] = f[s]
    BY <1>2, <2>1 DEF ObeysLevel
  <2>3. ASSUME NEW s \in Small(n + 1)
        PROVE  LevelStep(gr, charged, f, s) = LevelStep(gr, charged, h, s)
    <3>1. CASE s = {}
      BY <3>1 DEF LevelStep
    <3>2. CASE s # {}
      <4> DEFINE x == Max(s)
      <4>1. x \in s
        BY <1>1, <3>2, LargestElement
      <4> HIDE DEF x
      <4>2. s \ {x} \in Small(n)
        BY <1>2, <4>1, FS_RemoveElement
      <4>3. f[s \ {x}] = h[s \ {x}]
        BY <2>2, <4>2
      <4> QED
        BY <3>2, <4>3 DEF LevelStep, x
    <3> QED
      BY <3>1, <3>2
  <2>4. ObeysLevel(gr, charged, h, Small(n + 1))
    BY <2>3 DEF ObeysLevel
  <2>5. \E e : ObeysLevel(gr, charged, e, Small(n + 1))
    BY <2>4
  <2> HIDE DEF Small, h
  <2> QED
    BY <2>5
<1>5. T = Nat
  <2> HIDE DEF T
  <2>1. T \in SUBSET Nat
    BY DEF T
  <2> QED
    BY <1>3, <1>4, <2>1, NaturalsFrom0
<1>6. Small(Cardinality(S)) = SUBSET S
  BY <1>2
<1>7. Cardinality(S) \in Nat
  BY <1>1, FS_CardinalityType
<1>8. \E f : ObeysLevel(gr, charged, f, Small(Cardinality(S)))
  BY <1>5, <1>7
<1>9. \E f : ObeysLevel(gr, charged, f, SUBSET S)
  BY <1>6, <1>8
<1> QED
  BY <1>9 DEF S

(* The levels are what such a function says of all nodes.                 *)
LEMMA LevelsByRecursion ==
  ASSUME NEW gr, Sound(gr), NEW charged
  PROVE  \E f : /\ ObeysLevel(gr, charged, f, SUBSET (1 .. Len(gr.nodes)))
                /\ LevelsWith(gr, charged) = f[1 .. Len(gr.nodes)]
<1>0. DOMAIN gr.nodes = 1 .. Len(gr.nodes) /\ Len(gr.nodes) \in Nat
  BY GraphFacts
<1> DEFINE f == CHOOSE h : ObeysLevel(gr, charged, h, SUBSET (1 .. Len(gr.nodes)))
<1>1. ObeysLevel(gr, charged, f, SUBSET (1 .. Len(gr.nodes)))
  BY <1>0, LevelRecursionExists
<1>2. LevelsWith(gr, charged) = f[1 .. Len(gr.nodes)]
  BY <1>0 DEF LevelsWith, FoldLeft, MapThenFoldSet, ObeysLevel, LevelStep
<1> QED
  BY <1>1, <1>2

(* Levels of the first n values: each is at most the number of events that *)
(* can have completed before it.                                           *)
Graded(level, n) ==
  level \in Seq(Nat) /\ Len(level) = n /\ \A v \in 1 .. n : level[v] <= n

(* The level of a node exceeds those of its operands by one at most.       *)
LEMMA NodeLevelType ==
  ASSUME NEW gr, Sound(gr), NEW charged, NEW v \in Values(gr), NEW n \in Nat, NEW known,
         \A w \in InputsOf(gr, v) : known[w] \in 0 .. n
  PROVE  NodeLevel(charged, known, gr.nodes[v]) \in 0 .. (n + 1)
<1> DEFINE x == gr.nodes[v]
           T == {0} \cup {known[w] : w \in ToSet(x.in)}
<1>1. x.op \in Ops
  BY GraphFacts
<1>2. Max(T) \in 0 .. n
  <2>1. T \in SUBSET (0 .. n) /\ T # {}
    BY DEF InputsOf
  <2> HIDE DEF T
  <2> QED
    BY <2>1, LargestElement
<1>3. CASE x.op \in LeafOps
  <2>1. NodeLevel(charged, known, x) = 0
    BY <1>3 DEF NodeLevel, LeafOps, ArithOps
  <2> QED
    BY <2>1
<1>4. CASE x.op \in ArithOps \cup {"MulLocal", "Round", "Gadget"}
  <2>1. NodeLevel(charged, known, x) = Max(T)
    BY <1>4 DEF NodeLevel, LeafOps, ArithOps
  <2> HIDE DEF T
  <2> QED
    BY <1>2, <2>1
<1>5. CASE x.op \in {"RoundResult", "GadgetResult"}
  <2>1. x.in[1] \in InputsOf(gr, v)
    BY <1>5, ArityFacts, OperandFacts, GraphFacts
  <2>2. known[x.in[1]] \in 0 .. n
    BY <2>1
  <2>3. \/ NodeLevel(charged, known, x) = known[x.in[1]]
        \/ NodeLevel(charged, known, x) = known[x.in[1]] + 1
    BY <1>5 DEF NodeLevel, LeafOps, ArithOps
  <2> QED
    BY <2>2, <2>3
<1> QED
  BY <1>1, <1>3, <1>4, <1>5 DEF Ops

(* The pass extends them by one.                                           *)
LEMMA LevelsGrow ==
  ASSUME NEW gr, Sound(gr), NEW charged, NEW n \in Nat, n + 1 \in Values(gr),
         NEW d, Graded(d, n),
         NEW e, e = Append(d, NodeLevel(charged, d, gr.nodes[n + 1]))
  PROVE  Graded(e, n + 1)
<1> DEFINE x == NodeLevel(charged, d, gr.nodes[n + 1])
<1>1. d \in Seq(Nat) /\ Len(d) = n /\ DOMAIN d = 1 .. n
  BY LenProperties DEF Graded
<1>2. ASSUME NEW w \in InputsOf(gr, n + 1)
      PROVE  d[w] \in 0 .. n
  <2>1. w \in Values(gr) /\ w < n + 1
    BY OperandFacts
  <2>2. w \in 1 .. n
    BY <2>1, GraphFacts
  <2>3. d[w] \in Nat
    BY <1>1, <2>2, ElementOfSeq
  <2> QED
    BY <2>2, <2>3 DEF Graded
<1>3. x \in 0 .. (n + 1)
  BY <1>2, NodeLevelType
<1> HIDE DEF x
<1>4. e = Append(d, x) /\ x \in Nat
  BY <1>3 DEF x
<1>5. /\ e \in Seq(Nat) /\ Len(e) = n + 1 /\ e[n + 1] = x
      /\ \A v \in 1 .. n : e[v] = d[v]
  BY <1>1, <1>4
<1>6. ASSUME NEW v \in 1 .. (n + 1)
      PROVE  e[v] <= n + 1
  <2>1. CASE v = n + 1
    BY <1>3, <1>5, <2>1
  <2>2. CASE v # n + 1
    <3>1. v \in 1 .. n
      BY <2>2
    <3>2. d[v] <= n /\ d[v] \in Nat
      BY <1>1, <3>1, ElementOfSeq DEF Graded
    <3> QED
      BY <1>5, <3>1, <3>2
  <2> QED
    BY <2>1, <2>2
<1> QED
  BY <1>5, <1>6 DEF Graded

(* Every value has a level.                                                *)
LEMMA LevelFacts ==
  ASSUME NEW gr, Sound(gr), NEW charged
  PROVE  \A v \in Values(gr) : LevelsWith(gr, charged)[v] \in Nat
<1> DEFINE last == Len(gr.nodes)
<1>0. last \in Nat /\ Values(gr) = 1 .. last
  BY GraphFacts
<1>1. PICK f : ObeysLevel(gr, charged, f, SUBSET (1 .. last)) /\ LevelsWith(gr, charged) = f[1 .. last]
  BY LevelsByRecursion
<1> HIDE DEF last
<1> DEFINE T == {n \in Nat : n <= last => Graded(f[1 .. n], n)}
<1>2. 0 \in T
  <2>1. 1 .. 0 = {} /\ {} \in SUBSET (1 .. last)
    OBVIOUS
  <2>2. f[{}] = <<>>
    BY <1>1, <2>1 DEF ObeysLevel, LevelStep
  <2>3. f[1 .. 0] = <<>>
    BY <2>1, <2>2
  <2>4. Graded(<<>>, 0)
    BY DEF Graded
  <2> QED
    BY <2>3, <2>4
<1>3. ASSUME NEW n \in T
      PROVE  n + 1 \in T
  <2> SUFFICES ASSUME n + 1 <= last PROVE Graded(f[1 .. (n + 1)], n + 1)
    OBVIOUS
  <2>1. n \in Nat /\ Graded(f[1 .. n], n) /\ n + 1 \in 1 .. last
    BY <1>0
  <2>2. 1 .. (n + 1) \in SUBSET (1 .. last) /\ 1 .. (n + 1) # {}
    <3>1. n + 1 \in 1 .. (n + 1)
      BY <2>1
    <3>2. \A x \in 1 .. (n + 1) : x \in 1 .. last
      BY <1>0, <2>1
    <3> QED
      BY <3>1, <3>2
  <2>3. (1 .. (n + 1)) \ {n + 1} = 1 .. n
    BY <2>1
  <2>4. Max(1 .. (n + 1)) = n + 1
    BY <2>1, LargestUpTo
  <2>5. f[1 .. (n + 1)] = LevelStep(gr, charged, f, 1 .. (n + 1))
    BY <1>1, <2>2 DEF ObeysLevel
  <2>6. LevelStep(gr, charged, f, 1 .. (n + 1))
          = Append(f[1 .. n], NodeLevel(charged, f[1 .. n], gr.nodes[n + 1]))
    BY <2>2, <2>3, <2>4 DEF LevelStep
  <2> HIDE DEF T
  <2> QED
    BY <1>0, <2>1, <2>5, <2>6, LevelsGrow
<1>4. T = Nat
  <2> HIDE DEF T
  <2>1. T \in SUBSET Nat
    BY DEF T
  <2> QED
    BY <1>2, <1>3, <2>1, NaturalsFrom0
<1>5. Graded(LevelsWith(gr, charged), last)
  <2>1. last \in T
    BY <1>0, <1>4
  <2> QED
    BY <1>0, <1>1, <2>1
<1>6. LevelsWith(gr, charged) \in Seq(Nat) /\ DOMAIN LevelsWith(gr, charged) = 1 .. last
  BY <1>5, LenProperties DEF Graded
<1> QED
  BY <1>0, <1>6, ElementOfSeq

(* So does every site have a stage, a number.                              *)
LEMMA StageFacts ==
  ASSUME NEW gr, Sound(gr), NEW s \in DOMAIN gr.sites
  PROVE  PlanKey(gr, s).stage \in Nat
<1> DEFINE charged == {v \in NodesOf(gr, "Gadget") : Domains(gr)[v] # Public}
<1>1. NetworkLevels(gr) = LevelsWith(gr, charged)
  BY DEF NetworkLevels
<1>2. SiteNode(gr, s) \in Values(gr)
  BY SiteNodeFacts
<1> HIDE DEF charged
<1>3. SiteStages(gr)[s] \in Nat
  BY <1>1, <1>2, LevelFacts DEF SiteStages
<1> QED
  BY <1>3 DEF PlanKey

-----------------------------------------------------------------------------
(* Placement.                                                              *)

PlanSet(gr) ==
  [key : {PlanKey(gr, s) : s \in DOMAIN gr.sites}, sites : Seq(DOMAIN gr.sites),
   anchor : Nat, deadline : Nat]

(* A batch runs at the node of one of its sites, once all of them are      *)
(* reached and before any of their results is read.                        *)
Serviceable(gr, plan) ==
  /\ plan.sites # <<>>
  /\ \A j, l \in DOMAIN plan.sites : plan.sites[j] = plan.sites[l] => j = l
  /\ \E s \in ToSet(plan.sites) : plan.anchor = SiteNode(gr, s)
  /\ \E s \in ToSet(plan.sites) : plan.deadline = FirstReader(gr, s)
  /\ \A s \in ToSet(plan.sites) :
       /\ SiteNode(gr, s) <= plan.anchor
       /\ plan.deadline <= FirstReader(gr, s)
       /\ plan.key = PlanKey(gr, s)
  /\ plan.anchor < plan.deadline

(* All sites of a key are reached before a result of any of them is read.  *)
Roomy(gr, key) ==
  \A s, t \in DOMAIN gr.sites :
    PlanKey(gr, s) = key /\ PlanKey(gr, t) = key => SiteNode(gr, s) < FirstReader(gr, t)

(* The plans of the sites placed so far: a roomy key has one at most.      *)
Planned(gr, placed, plans) ==
  /\ plans \in Seq(PlanSet(gr))
  /\ \A i \in DOMAIN plans : Serviceable(gr, plans[i])
  /\ \A i, j \in DOMAIN plans : \A s \in ToSet(plans[i].sites) : s \in ToSet(plans[j].sites) => i = j
  /\ \A s : s \in placed <=> \E i \in DOMAIN plans : s \in ToSet(plans[i].sites)
  /\ \A i, j \in DOMAIN plans : plans[i].key = plans[j].key /\ Roomy(gr, plans[i].key) => i = j

(* A sequence and one more element.                                        *)
LEMMA OneMore ==
  ASSUME NEW A, NEW q \in Seq(A), NEW x \in A
  PROVE  /\ Append(q, x) \in Seq(A)
         /\ Len(q) \in Nat /\ DOMAIN q = 1 .. Len(q)
         /\ Len(Append(q, x)) = Len(q) + 1
         /\ DOMAIN Append(q, x) = 1 .. (Len(q) + 1)
         /\ \A j \in DOMAIN q : Append(q, x)[j] = q[j]
         /\ Append(q, x)[Len(q) + 1] = x
  OBVIOUS

(* A sequence of one element.                                              *)
LEMMA OnlyOne ==
  ASSUME NEW A, NEW x \in A
  PROVE  <<x>> \in Seq(A) /\ DOMAIN <<x>> = {1} /\ <<x>>[1] = x
<1>1. <<x>> \in Seq(A) /\ Len(<<x>>) = 1 /\ <<x>>[1] = x
  OBVIOUS
<1>2. DOMAIN <<x>> = 1 .. 1
  BY <1>1, LenProperties
<1>3. \A j : j \in 1 .. 1 <=> j = 1
  OBVIOUS
<1> QED
  BY <1>1, <1>2, <1>3

(* A site joins a batch that can still be serviced.                        *)
LEMMA JoinedIsServiceable ==
  ASSUME NEW gr, Sound(gr), NEW s \in DOMAIN gr.sites,
         NEW plan \in PlanSet(gr), Serviceable(gr, plan), s \notin ToSet(plan.sites),
         plan.key = PlanKey(gr, s),
         Fits(plan, SiteNode(gr, s), FirstReader(gr, s)),
         NEW new, new = AddSite(plan, s, SiteNode(gr, s), FirstReader(gr, s))
  PROVE  /\ new \in PlanSet(gr)
         /\ Serviceable(gr, new)
         /\ ToSet(new.sites) = ToSet(plan.sites) \cup {s}
<1> DEFINE node == SiteNode(gr, s)
           reader == FirstReader(gr, s)
<1>1. node \in Nat /\ reader \in Nat /\ node < reader
  BY FirstReaderFacts
<1>2. /\ plan.sites \in Seq(DOMAIN gr.sites) /\ plan.anchor \in Nat /\ plan.deadline \in Nat
      /\ plan.key \in {PlanKey(gr, t) : t \in DOMAIN gr.sites}
  BY DEF PlanSet
<1>3. /\ new.key = plan.key /\ new.sites = Append(plan.sites, s)
      /\ new.anchor = Later(plan.anchor, node)
      /\ new.deadline = Earlier(plan.deadline, reader)
      /\ new = [key |-> new.key, sites |-> new.sites, anchor |-> new.anchor, deadline |-> new.deadline]
  BY DEF AddSite
<1>4. /\ new.sites \in Seq(DOMAIN gr.sites)
      /\ Len(new.sites) = Len(plan.sites) + 1
      /\ DOMAIN plan.sites = 1 .. Len(plan.sites) /\ Len(plan.sites) \in Nat
      /\ DOMAIN new.sites = 1 .. (Len(plan.sites) + 1)
      /\ \A j \in DOMAIN plan.sites : new.sites[j] = plan.sites[j]
      /\ new.sites[Len(plan.sites) + 1] = s
  <2>1. PICK q : q = plan.sites
    OBVIOUS
  <2>2. q \in Seq(DOMAIN gr.sites) /\ new.sites = Append(q, s)
    BY <1>2, <1>3, <2>1
  <2>3. /\ Append(q, s) \in Seq(DOMAIN gr.sites)
        /\ Len(q) \in Nat /\ DOMAIN q = 1 .. Len(q)
        /\ Len(Append(q, s)) = Len(q) + 1
        /\ DOMAIN Append(q, s) = 1 .. (Len(q) + 1)
        /\ \A j \in DOMAIN q : Append(q, s)[j] = q[j]
        /\ Append(q, s)[Len(q) + 1] = s
    BY <2>2, OneMore
  <2> QED
    BY <2>1, <2>2, <2>3, Zenon
<1>5. /\ new.anchor \in Nat /\ new.deadline \in Nat /\ new.anchor < new.deadline
      /\ plan.anchor <= new.anchor /\ node <= new.anchor
      /\ new.anchor = plan.anchor \/ new.anchor = node
      /\ new.deadline <= plan.deadline /\ new.deadline <= reader
      /\ new.deadline = plan.deadline \/ new.deadline = reader
  BY <1>1, <1>2, <1>3 DEF Later, Earlier, Fits
<1>6. ToSet(new.sites) = ToSet(plan.sites) \cup {s}
  <2>1. \A x : x \in ToSet(new.sites) <=> \E j \in 1 .. (Len(plan.sites) + 1) : new.sites[j] = x
    BY <1>4 DEF ToSet
  <2>2. \A x : x \in ToSet(plan.sites) <=> \E j \in 1 .. Len(plan.sites) : plan.sites[j] = x
    BY <1>4 DEF ToSet
  <2>3. \A j \in 1 .. (Len(plan.sites) + 1) : j \in 1 .. Len(plan.sites) \/ j = Len(plan.sites) + 1
    BY <1>4
  <2>4. /\ Len(plan.sites) + 1 \in 1 .. (Len(plan.sites) + 1)
        /\ \A j \in 1 .. Len(plan.sites) : j \in 1 .. (Len(plan.sites) + 1)
    BY <1>4
  <2> QED
    BY <1>4, <2>1, <2>2, <2>3, <2>4
<1>7. \A j, l \in DOMAIN new.sites : new.sites[j] = new.sites[l] => j = l
  <2>1. \A j \in DOMAIN plan.sites : plan.sites[j] # s
    BY DEF ToSet
  <2>2. \A j \in DOMAIN new.sites : j \in DOMAIN plan.sites \/ j = Len(plan.sites) + 1
    BY <1>4
  <2>3. \A j, l \in DOMAIN plan.sites : plan.sites[j] = plan.sites[l] => j = l
    BY DEF Serviceable
  <2> QED
    BY <1>4, <2>1, <2>2, <2>3
<1>8. \E t \in ToSet(new.sites) : new.anchor = SiteNode(gr, t)
  <2>1. \E t \in ToSet(plan.sites) : plan.anchor = SiteNode(gr, t)
    BY DEF Serviceable
  <2> QED
    BY <1>5, <1>6, <2>1
<1>8a. \E t \in ToSet(new.sites) : new.deadline = FirstReader(gr, t)
  <2>1. \E t \in ToSet(plan.sites) : plan.deadline = FirstReader(gr, t)
    BY DEF Serviceable
  <2> QED
    BY <1>5, <1>6, <2>1
<1>9. ASSUME NEW t \in ToSet(new.sites)
      PROVE  /\ SiteNode(gr, t) <= new.anchor
             /\ new.deadline <= FirstReader(gr, t)
             /\ new.key = PlanKey(gr, t)
  <2>1. CASE t = s
    BY <1>3, <1>5, <2>1
  <2>2. CASE t # s
    <3>1. t \in ToSet(plan.sites)
      BY <1>6, <2>2
    <3>2. /\ SiteNode(gr, t) <= plan.anchor
          /\ plan.deadline <= FirstReader(gr, t)
          /\ plan.key = PlanKey(gr, t)
      BY <3>1 DEF Serviceable
    <3>3. t \in DOMAIN gr.sites
      BY <1>2, <3>1, ElementOfSeq DEF ToSet
    <3>4. SiteNode(gr, t) \in Nat /\ FirstReader(gr, t) \in Nat
      BY <3>3, FirstReaderFacts
    <3> QED
      BY <1>2, <1>3, <1>5, <3>2, <3>4
  <2> QED
    BY <2>1, <2>2
<1>10. new.sites # <<>>
  BY <1>4
<1>11. new \in PlanSet(gr)
  BY <1>2, <1>3, <1>4, <1>5 DEF PlanSet
<1> QED
  BY <1>5, <1>6, <1>7, <1>8, <1>9, <1>10, <1>11, <1>8a DEF Serviceable

(* Or it opens a batch of its own.                                         *)
LEMMA OpenedIsServiceable ==
  ASSUME NEW gr, Sound(gr), NEW s \in DOMAIN gr.sites,
         NEW new, new = NewPlan(PlanKey(gr, s), s, SiteNode(gr, s), FirstReader(gr, s))
  PROVE  /\ new \in PlanSet(gr)
         /\ Serviceable(gr, new)
         /\ ToSet(new.sites) = {s}
<1>1. /\ new.key = PlanKey(gr, s) /\ new.sites = <<s>>
      /\ new.anchor = SiteNode(gr, s) /\ new.deadline = FirstReader(gr, s)
      /\ new = [key |-> new.key, sites |-> new.sites, anchor |-> new.anchor, deadline |-> new.deadline]
  BY DEF NewPlan
<1>2. /\ new.anchor \in Nat /\ new.deadline \in Nat /\ new.anchor < new.deadline
  BY <1>1, FirstReaderFacts
<1>3. new.sites \in Seq(DOMAIN gr.sites) /\ DOMAIN new.sites = {1} /\ new.sites[1] = s
  BY <1>1, OnlyOne, Zenon
<1>4. ToSet(new.sites) = {s}
  BY <1>3 DEF ToSet
<1>5. new \in PlanSet(gr)
  BY <1>1, <1>2, <1>3 DEF PlanSet
<1>6. new.sites # <<>> /\ \A j, l \in DOMAIN new.sites : j = l
  BY <1>3
<1> QED
  BY <1>1, <1>2, <1>4, <1>5, <1>6 DEF Serviceable

(* The active plan of a key, when there is one, has that key.              *)
LEMMA ActiveFacts ==
  ASSUME NEW A, NEW plans \in Seq(A), NEW key
  PROVE  /\ Active(plans, key) \in {0} \cup DOMAIN plans
         /\ Active(plans, key) # 0 => plans[Active(plans, key)].key = key
         /\ Active(plans, key) = 0 => \A i \in DOMAIN plans : plans[i].key # key
<1> DEFINE T == {0} \cup {i \in DOMAIN plans : plans[i].key = key}
<1>1. Len(plans) \in Nat /\ DOMAIN plans = 1 .. Len(plans)
  BY LenProperties
<1>2. T \in SUBSET (0 .. Len(plans)) /\ T # {}
  BY <1>1
<1>3. Max(T) \in T /\ \A i \in T : i <= Max(T)
  <2> HIDE DEF T
  <2> QED
    BY <1>1, <1>2, LargestElement
<1>4. Active(plans, key) = Max(T)
  BY DEF Active
<1>5. ASSUME Max(T) = 0, NEW i \in DOMAIN plans, plans[i].key = key
      PROVE  FALSE
  <2>1. i \in T /\ i \in Nat /\ i # 0
    BY <1>1, <1>5
  <2> HIDE DEF T
  <2> QED
    BY <1>3, <1>5, <2>1
<1> QED
  BY <1>3, <1>4, <1>5

(* A batch of a roomy key takes any site of that key.                      *)
LEMMA RoomyFits ==
  ASSUME NEW gr, Sound(gr), NEW s \in DOMAIN gr.sites, NEW plan \in PlanSet(gr),
         Serviceable(gr, plan), plan.key = PlanKey(gr, s), Roomy(gr, plan.key)
  PROVE  Fits(plan, SiteNode(gr, s), FirstReader(gr, s))
<1>1. plan.sites \in Seq(DOMAIN gr.sites)
  BY DEF PlanSet
<1>2. \A t \in ToSet(plan.sites) : t \in DOMAIN gr.sites /\ PlanKey(gr, t) = plan.key
  BY <1>1, ElementOfSeq DEF ToSet, Serviceable
<1>3. PICK t \in DOMAIN gr.sites : plan.anchor = SiteNode(gr, t) /\ PlanKey(gr, t) = plan.key
  BY <1>2 DEF Serviceable
<1>4. PICK u \in DOMAIN gr.sites : plan.deadline = FirstReader(gr, u) /\ PlanKey(gr, u) = plan.key
  BY <1>2 DEF Serviceable
<1>5. /\ SiteNode(gr, s) < FirstReader(gr, s) /\ SiteNode(gr, s) < plan.deadline
      /\ plan.anchor < FirstReader(gr, s) /\ plan.anchor < plan.deadline
  BY <1>3, <1>4 DEF Roomy
<1> QED
  BY <1>5 DEF Fits, Later, Earlier

(* Placing a site keeps every batch serviceable and every site in one.     *)
LEMMA PlaceSiteKeeps ==
  ASSUME NEW gr, Sound(gr), NEW placed, NEW plans, Planned(gr, placed, plans),
         NEW s \in DOMAIN gr.sites, s \notin placed,
         NEW new, new = PlaceSite(plans, PlanKey(gr, s), s, SiteNode(gr, s), FirstReader(gr, s))
  PROVE  Planned(gr, placed \cup {s}, new)
<1> DEFINE a == Active(plans, PlanKey(gr, s))
           joins == a # 0 /\ Fits(plans[a], SiteNode(gr, s), FirstReader(gr, s))
           joined == AddSite(plans[a], s, SiteNode(gr, s), FirstReader(gr, s))
           opened == NewPlan(PlanKey(gr, s), s, SiteNode(gr, s), FirstReader(gr, s))
<1>1. /\ plans \in Seq(PlanSet(gr)) /\ Len(plans) \in Nat /\ DOMAIN plans = 1 .. Len(plans)
      /\ \A i \in DOMAIN plans : plans[i] \in PlanSet(gr) /\ Serviceable(gr, plans[i])
  BY LenProperties, ElementOfSeq DEF Planned
<1>2. \A i \in DOMAIN plans : s \notin ToSet(plans[i].sites)
  BY DEF Planned
<1>3. /\ \A i, j \in DOMAIN plans : \A t \in ToSet(plans[i].sites) : t \in ToSet(plans[j].sites) => i = j
      /\ \A t : t \in placed <=> \E i \in DOMAIN plans : t \in ToSet(plans[i].sites)
  BY DEF Planned
<1>4. new = IF joins THEN [plans EXCEPT ![a] = joined] ELSE Append(plans, opened)
  BY DEF PlaceSite
<1>5. /\ a \in {0} \cup DOMAIN plans /\ (a # 0 => plans[a].key = PlanKey(gr, s))
      /\ a = 0 => \A i \in DOMAIN plans : plans[i].key # PlanKey(gr, s)
  BY <1>1, ActiveFacts
<1>5a. \A i, j \in DOMAIN plans : plans[i].key = plans[j].key /\ Roomy(gr, plans[i].key) => i = j
  BY DEF Planned
<1>6. CASE joins
  <2>1. a \in DOMAIN plans /\ plans[a] \in PlanSet(gr) /\ plans[a].key = PlanKey(gr, s)
    BY <1>1, <1>5, <1>6
  <2>2. /\ joined \in PlanSet(gr) /\ Serviceable(gr, joined)
        /\ ToSet(joined.sites) = ToSet(plans[a].sites) \cup {s}
    <3>1. PICK p : p = plans[a]
      OBVIOUS
    <3>2. PICK q : q = AddSite(p, s, SiteNode(gr, s), FirstReader(gr, s))
      OBVIOUS
    <3>3. q = joined
      BY <3>1, <3>2
    <3>4. /\ p \in PlanSet(gr) /\ Serviceable(gr, p) /\ p.key = PlanKey(gr, s)
          /\ s \notin ToSet(p.sites) /\ Fits(p, SiteNode(gr, s), FirstReader(gr, s))
      BY <1>1, <1>2, <1>6, <2>1, <3>1
    <3> HIDE DEF joined, a, joins
    <3>5. q \in PlanSet(gr) /\ Serviceable(gr, q) /\ ToSet(q.sites) = ToSet(p.sites) \cup {s}
      BY <3>2, <3>4, JoinedIsServiceable
    <3> QED
      BY <3>1, <3>3, <3>5, Zenon
  <2>8. joined.key = plans[a].key
    BY DEF AddSite
  <2> HIDE DEF a, joined, joins
  <2>3. /\ new \in Seq(PlanSet(gr)) /\ DOMAIN new = DOMAIN plans
        /\ new[a] = joined /\ \A i \in DOMAIN plans : i # a => new[i] = plans[i]
    BY <1>1, <1>4, <1>6, <2>1, <2>2
  <2>4. \A i \in DOMAIN new : Serviceable(gr, new[i])
    BY <1>1, <2>2, <2>3
  <2>5. /\ ToSet(new[a].sites) = ToSet(plans[a].sites) \cup {s}
        /\ \A i \in DOMAIN plans : i # a => ToSet(new[i].sites) = ToSet(plans[i].sites)
    BY <2>2, <2>3
  <2>6. \A i, j \in DOMAIN new : \A t \in ToSet(new[i].sites) : t \in ToSet(new[j].sites) => i = j
    BY <1>2, <1>3, <2>1, <2>3, <2>5, SMTT(40)
  <2>7. \A t : t \in placed \cup {s} <=> \E i \in DOMAIN new : t \in ToSet(new[i].sites)
    BY <1>3, <2>1, <2>3, <2>5
  <2>9. \A i \in DOMAIN new : new[i].key = plans[i].key
    BY <2>3, <2>8
  <2>10. \A i, j \in DOMAIN new : new[i].key = new[j].key /\ Roomy(gr, new[i].key) => i = j
    BY <1>5a, <2>3, <2>9
  <2> QED
    BY <2>3, <2>4, <2>6, <2>7, <2>10 DEF Planned
<1>7. CASE ~joins
  <2>1. /\ opened \in PlanSet(gr) /\ Serviceable(gr, opened) /\ ToSet(opened.sites) = {s}
    BY OpenedIsServiceable
  <2>2. new = Append(plans, opened)
    BY <1>4, <1>7
  <2>9. opened.key = PlanKey(gr, s)
    BY DEF NewPlan
  <2>10. ASSUME Roomy(gr, PlanKey(gr, s)), NEW i \in DOMAIN plans
         PROVE  plans[i].key # PlanKey(gr, s)
    <3>1. ASSUME a # 0
          PROVE  FALSE
      <4>1. PICK p : p = plans[a]
        OBVIOUS
      <4>2. p \in PlanSet(gr) /\ Serviceable(gr, p) /\ p.key = PlanKey(gr, s)
        BY <1>1, <1>5, <3>1, <4>1
      <4>3. Fits(p, SiteNode(gr, s), FirstReader(gr, s))
        BY <2>10, <4>2, RoomyFits
      <4> QED
        BY <1>7, <3>1, <4>1, <4>3
    <3> QED
      BY <1>5, <3>1
  <2> HIDE DEF opened, joins, a, joined
  <2> DEFINE m == Len(plans) + 1
  <2>3. /\ new \in Seq(PlanSet(gr)) /\ DOMAIN new = 1 .. m
        /\ \A i \in DOMAIN plans : new[i] = plans[i]
        /\ new[m] = opened
    BY <1>1, <2>1, <2>2, OneMore
  <2>4. m \in DOMAIN new /\ m \notin DOMAIN plans
        /\ (\A i \in DOMAIN new : i \in DOMAIN plans \/ i = m)
        /\ \A i \in DOMAIN plans : i \in DOMAIN new
    BY <1>1, <2>3
  <2> HIDE DEF m
  <2>5. \A i \in DOMAIN new : Serviceable(gr, new[i])
    BY <1>1, <2>1, <2>3, <2>4
  <2>6. /\ ToSet(new[m].sites) = {s}
        /\ \A i \in DOMAIN plans : ToSet(new[i].sites) = ToSet(plans[i].sites)
    BY <2>1, <2>3
  <2>7. \A i, j \in DOMAIN new : \A t \in ToSet(new[i].sites) : t \in ToSet(new[j].sites) => i = j
    <3> SUFFICES ASSUME NEW i \in DOMAIN new, NEW j \in DOMAIN new,
                        NEW t \in ToSet(new[i].sites), t \in ToSet(new[j].sites)
                 PROVE  i = j
      OBVIOUS
    <3>1. CASE i = m
      BY <1>2, <2>4, <2>6, <3>1
    <3>2. CASE j = m
      BY <1>2, <2>4, <2>6, <3>2
    <3>3. CASE i \in DOMAIN plans /\ j \in DOMAIN plans
      BY <1>3, <2>6, <3>3
    <3> QED
      BY <2>4, <3>1, <3>2, <3>3
  <2>8. \A t : t \in placed \cup {s} <=> \E i \in DOMAIN new : t \in ToSet(new[i].sites)
    BY <1>3, <2>4, <2>6
  <2>11. \A i, j \in DOMAIN new : new[i].key = new[j].key /\ Roomy(gr, new[i].key) => i = j
    <3> SUFFICES ASSUME NEW i \in DOMAIN new, NEW j \in DOMAIN new,
                        new[i].key = new[j].key, Roomy(gr, new[i].key)
                 PROVE  i = j
      OBVIOUS
    <3>1. CASE i = m /\ j \in DOMAIN plans
      <4>1. new[i].key = PlanKey(gr, s) /\ new[j] = plans[j]
        BY <2>3, <2>9, <3>1
      <4> QED
        BY <2>10, <3>1, <4>1
    <3>2. CASE j = m /\ i \in DOMAIN plans
      <4>1. new[j].key = PlanKey(gr, s) /\ new[i] = plans[i]
        BY <2>3, <2>9, <3>2
      <4> QED
        BY <2>10, <3>2, <4>1
    <3>3. CASE i \in DOMAIN plans /\ j \in DOMAIN plans
      BY <1>5a, <2>3, <3>3
    <3> QED
      BY <2>4, <3>1, <3>2, <3>3
  <2> QED
    BY <2>3, <2>5, <2>7, <2>8, <2>11 DEF Planned
<1> QED
  BY <1>6, <1>7
-----------------------------------------------------------------------------
(* The fold over the sites.                                                *)

PlaceStep(gr, order, f, s) ==
  IF s = {} THEN <<>>
  ELSE LET x == Max(s)
       IN  PlaceSite(f[s \ {x}], PlanKey(gr, order[x]), order[x],
                     SiteNode(gr, order[x]), FirstReader(gr, order[x]))

ObeysPlace(gr, order, f, D) == f = [s \in D |-> PlaceStep(gr, order, f, s)]

(* Some function obeys the recursion on all subsets of the positions.      *)
LEMMA PlaceRecursionExists ==
  ASSUME NEW gr, NEW order, NEW m \in Nat
  PROVE  \E f : ObeysPlace(gr, order, f, SUBSET (1 .. m))
<1> DEFINE S == 1 .. m
           Small(n) == {s \in SUBSET S : Cardinality(s) <= n}
           T == {n \in Nat : \E f : ObeysPlace(gr, order, f, Small(n))}
<1>1. IsFiniteSet(S) /\ S \subseteq 0 .. m
  BY FS_Interval
<1> HIDE DEF S
<1>2. \A s \in SUBSET S : IsFiniteSet(s) /\ Cardinality(s) \in Nat
                         /\ Cardinality(s) <= Cardinality(S)
  BY <1>1, FS_Subset, FS_CardinalityType
<1>3. 0 \in T
  <2> DEFINE f == [s \in Small(0) |-> <<>>]
  <2>1. \A s \in Small(0) : s = {}
    BY <1>2, FS_EmptySet
  <2>2. ObeysPlace(gr, order, f, Small(0))
    BY <2>1 DEF ObeysPlace, PlaceStep
  <2> QED
    BY <2>2
<1>4. ASSUME NEW n \in T
      PROVE  n + 1 \in T
  <2>1. PICK f : ObeysPlace(gr, order, f, Small(n))
    OBVIOUS
  <2> DEFINE h == [s \in Small(n + 1) |-> PlaceStep(gr, order, f, s)]
  <2>2. \A s \in Small(n) : s \in Small(n + 1) /\ h[s] = f[s]
    BY <1>2, <2>1 DEF ObeysPlace
  <2>3. ASSUME NEW s \in Small(n + 1)
        PROVE  PlaceStep(gr, order, f, s) = PlaceStep(gr, order, h, s)
    <3>1. CASE s = {}
      BY <3>1 DEF PlaceStep
    <3>2. CASE s # {}
      <4> DEFINE x == Max(s)
      <4>1. x \in s
        BY <1>1, <3>2, LargestElement
      <4> HIDE DEF x
      <4>2. s \ {x} \in Small(n)
        BY <1>2, <4>1, FS_RemoveElement
      <4>3. f[s \ {x}] = h[s \ {x}]
        BY <2>2, <4>2
      <4> QED
        BY <3>2, <4>3 DEF PlaceStep, x
    <3> QED
      BY <3>1, <3>2
  <2>4. ObeysPlace(gr, order, h, Small(n + 1))
    BY <2>3 DEF ObeysPlace
  <2>5. \E e : ObeysPlace(gr, order, e, Small(n + 1))
    BY <2>4
  <2> HIDE DEF Small, h
  <2> QED
    BY <2>5
<1>5. T = Nat
  <2> HIDE DEF T
  <2>1. T \in SUBSET Nat
    BY DEF T
  <2> QED
    BY <1>3, <1>4, <2>1, NaturalsFrom0
<1>6. Small(Cardinality(S)) = SUBSET S
  BY <1>2
<1>7. Cardinality(S) \in Nat
  BY <1>1, FS_CardinalityType
<1>8. \E f : ObeysPlace(gr, order, f, Small(Cardinality(S)))
  BY <1>5, <1>7
<1>9. \E f : ObeysPlace(gr, order, f, SUBSET S)
  BY <1>6, <1>8
<1> QED
  BY <1>9 DEF S

(* The plans before they are sorted.                                       *)
PlacedPlans(gr) ==
  FoldLeft(LAMBDA plans, s :
             PlaceSite(plans, PlanKey(gr, s), s, SiteNode(gr, s), FirstReader(gr, s)),
           <<>>, SiteOrder(gr))

(* Every site is in one plan, and every plan can be serviced.              *)
LEMMA AllPlaced ==
  ASSUME NEW gr, Sound(gr)
  PROVE  Planned(gr, DOMAIN gr.sites, PlacedPlans(gr))
<1> DEFINE order == SiteOrder(gr)
           last == Cardinality(DOMAIN gr.sites)
<1>1. Lists(order, DOMAIN gr.sites) /\ last \in Nat /\ DOMAIN order = 1 .. last
  BY SiteOrderLists, FS_CardinalityType DEF Lists
<1> DEFINE f == CHOOSE h : ObeysPlace(gr, order, h, SUBSET (1 .. last))
<1>2. ObeysPlace(gr, order, f, SUBSET (1 .. last))
  BY <1>1, PlaceRecursionExists
<1>3. PlacedPlans(gr) = f[1 .. last]
  BY <1>1 DEF PlacedPlans, FoldLeft, MapThenFoldSet, ObeysPlace, PlaceStep
<1> HIDE DEF f, order, last
<1> DEFINE First(n) == {order[p] : p \in 1 .. n}
           T == {n \in Nat : n <= last => Planned(gr, First(n), f[1 .. n])}
<1>4. 0 \in T
  <2>1. 1 .. 0 = {} /\ {} \in SUBSET (1 .. last)
    OBVIOUS
  <2>2. f[{}] = <<>>
    BY <1>2, <2>1 DEF ObeysPlace, PlaceStep
  <2>3. f[1 .. 0] = <<>> /\ First(0) = {}
    BY <2>1, <2>2
  <2>4. Planned(gr, {}, <<>>)
    BY DEF Planned
  <2> QED
    BY <2>3, <2>4
<1>5. ASSUME NEW n \in T
      PROVE  n + 1 \in T
  <2> SUFFICES ASSUME n + 1 <= last PROVE Planned(gr, First(n + 1), f[1 .. (n + 1)])
    OBVIOUS
  <2>1. n \in Nat /\ Planned(gr, First(n), f[1 .. n]) /\ n + 1 \in 1 .. last
    BY <1>1
  <2>2. 1 .. (n + 1) \in SUBSET (1 .. last) /\ 1 .. (n + 1) # {}
    <3>1. n + 1 \in 1 .. (n + 1)
      BY <2>1
    <3>2. \A x \in 1 .. (n + 1) : x \in 1 .. last
      BY <1>1, <2>1
    <3> QED
      BY <3>1, <3>2
  <2>3. (1 .. (n + 1)) \ {n + 1} = 1 .. n
    BY <2>1
  <2>4. Max(1 .. (n + 1)) = n + 1
    BY <2>1, LargestUpTo
  <2>5. f[1 .. (n + 1)] = PlaceStep(gr, order, f, 1 .. (n + 1))
    BY <1>2, <2>2 DEF ObeysPlace
  <2> DEFINE s == order[n + 1]
  <2>6. PlaceStep(gr, order, f, 1 .. (n + 1))
          = PlaceSite(f[1 .. n], PlanKey(gr, s), s, SiteNode(gr, s), FirstReader(gr, s))
    BY <2>2, <2>3, <2>4 DEF PlaceStep
  <2>7. s \in DOMAIN gr.sites
    BY <1>1, <2>1 DEF Lists
  <2>8. s \notin First(n) /\ First(n + 1) = First(n) \cup {s}
    <3>1. \A p \in 1 .. n : p \in 1 .. last /\ p # n + 1 /\ p \in 1 .. (n + 1)
      BY <1>1, <2>1
    <3>2. \A p \in 1 .. n : order[p] # s
      BY <1>1, <2>1, <3>1 DEF Lists
    <3>3. \A p \in 1 .. (n + 1) : p \in 1 .. n \/ p = n + 1
      BY <2>1
    <3>4. n + 1 \in 1 .. (n + 1)
      BY <2>1
    <3> QED
      BY <3>1, <3>2, <3>3, <3>4
  <2> HIDE DEF T, First, s
  <2>9. Planned(gr, First(n) \cup {s}, f[1 .. (n + 1)])
    BY <2>1, <2>5, <2>6, <2>7, <2>8, PlaceSiteKeeps
  <2> QED
    BY <2>8, <2>9
<1>6. T = Nat
  <2> HIDE DEF T
  <2>1. T \in SUBSET Nat
    BY DEF T
  <2> QED
    BY <1>4, <1>5, <2>1, NaturalsFrom0
<1>7. Planned(gr, First(last), f[1 .. last])
  <2>1. last \in T
    BY <1>1, <1>6
  <2> QED
    BY <1>1, <2>1
<1>8. First(last) = DOMAIN gr.sites
  <2>1. DOMAIN order = 1 .. last
    BY <1>1
  <2> HIDE DEF T
  <2>2. ASSUME NEW s \in First(last)
        PROVE  s \in DOMAIN gr.sites
    <3>1. PICK p \in 1 .. last : s = order[p]
      OBVIOUS
    <3> QED
      BY <1>1, <2>1, <3>1 DEF Lists
  <2>3. ASSUME NEW s \in DOMAIN gr.sites
        PROVE  s \in First(last)
    <3>1. PICK p \in DOMAIN order : order[p] = s
      BY <1>1 DEF Lists
    <3>2. p \in 1 .. last
      BY <2>1
    <3> QED
      BY <3>1, <3>2
  <2> HIDE DEF First
  <2> QED
    BY <2>2, <2>3
<1> QED
  BY <1>3, <1>7, <1>8

-----------------------------------------------------------------------------
(* Sorting.                                                                *)

(* Plans in another order are still plans of the same sites.               *)
LEMMA Rearranged ==
  ASSUME NEW gr, NEW placed, NEW q, Planned(gr, placed, q),
         NEW order, Lists(order, DOMAIN q),
         NEW r, r = [j \in DOMAIN order |-> q[order[j]]]
  PROVE  Planned(gr, placed, r)
<1>1. /\ Len(q) \in Nat /\ DOMAIN q = 1 .. Len(q)
      /\ \A i \in DOMAIN q : q[i] \in PlanSet(gr) /\ Serviceable(gr, q[i])
  BY LenProperties, ElementOfSeq DEF Planned
<1>2. Cardinality(DOMAIN q) \in Nat
  <2>1. IsFiniteSet(DOMAIN q)
    BY <1>1, FS_Interval
  <2> QED
    BY <2>1, FS_CardinalityType
<1>3. /\ DOMAIN r = DOMAIN order /\ DOMAIN r = 1 .. Cardinality(DOMAIN q)
      /\ \A j \in DOMAIN r : order[j] \in DOMAIN q /\ r[j] = q[order[j]]
      /\ \A j, l \in DOMAIN r : order[j] = order[l] => j = l
      /\ \A i \in DOMAIN q : \E j \in DOMAIN r : order[j] = i
  BY DEF Lists
<1>4. \A j \in DOMAIN r : r[j] \in PlanSet(gr) /\ Serviceable(gr, r[j])
  BY <1>1, <1>3
<1>5. r \in Seq(PlanSet(gr))
  BY <1>2, <1>3, <1>4, SeqDef
<1>6. \A i, j \in DOMAIN q : \A s \in ToSet(q[i].sites) : s \in ToSet(q[j].sites) => i = j
  BY DEF Planned
<1>7. \A s : s \in placed <=> \E i \in DOMAIN q : s \in ToSet(q[i].sites)
  BY DEF Planned
<1>7a. \A i, j \in DOMAIN q : q[i].key = q[j].key /\ Roomy(gr, q[i].key) => i = j
  BY DEF Planned
<1>7b. ASSUME NEW j \in DOMAIN r, NEW l \in DOMAIN r, r[j].key = r[l].key, Roomy(gr, r[j].key)
       PROVE  j = l
  BY <1>3, <1>7a, <1>7b
<1>8. ASSUME NEW j \in DOMAIN r, NEW l \in DOMAIN r,
             NEW s \in ToSet(r[j].sites), s \in ToSet(r[l].sites)
      PROVE  j = l
  BY <1>3, <1>6, <1>8
<1>9. ASSUME NEW s
      PROVE  s \in placed <=> \E j \in DOMAIN r : s \in ToSet(r[j].sites)
  BY <1>3, <1>7
<1> QED
  BY <1>4, <1>5, <1>8, <1>9, <1>7b DEF Planned

(* The order of the plans is by stage, then by first site.                 *)
Precedes(q, i, j) ==
  \/ q[i].key.stage < q[j].key.stage
  \/ /\ q[i].key.stage = q[j].key.stage
     /\ q[i].sites[1] < q[j].sites[1]

(* Sorting keeps every plan once.                                          *)
LEMMA SortedPlans ==
  ASSUME NEW gr, Sound(gr), NEW placed, NEW q, Planned(gr, placed, q)
  PROVE  Planned(gr, placed, SortPlans(q))
<1> DEFINE S == DOMAIN q
           R == {ij \in S \X S : Precedes(q, ij[1], ij[2])}
           l == Ordered(S, LAMBDA i, j : Precedes(q, i, j))
<1>1. Len(q) \in Nat /\ S = 1 .. Len(q) /\ IsFiniteSet(S)
  BY LenProperties, FS_Interval DEF Planned
<1>2. ASSUME NEW i \in S
      PROVE  /\ q[i].key.stage \in Nat
             /\ q[i].sites[1] \in ToSet(q[i].sites) /\ q[i].sites[1] \in Nat
  <2>1. q[i] \in PlanSet(gr) /\ q[i].sites # <<>>
    BY ElementOfSeq DEF Planned, Serviceable
  <2>2. q[i].key.stage \in Nat
    BY <2>1, StageFacts DEF PlanSet
  <2>3. q[i].sites \in Seq(DOMAIN gr.sites) /\ q[i].sites # <<>>
    BY <2>1 DEF PlanSet
  <2>4. DOMAIN q[i].sites = 1 .. Len(q[i].sites) /\ Len(q[i].sites) \in Nat /\ Len(q[i].sites) # 0
    BY <2>3, LenProperties, EmptySeq
  <2>5. 1 \in DOMAIN q[i].sites /\ q[i].sites[1] \in DOMAIN gr.sites
    BY <2>3, <2>4, ElementOfSeq
  <2>6. DOMAIN gr.sites = 1 .. Len(gr.sites) /\ Len(gr.sites) \in Nat
    BY LenProperties DEF Sound, WellTyped
  <2> QED
    BY <2>2, <2>5, <2>6 DEF ToSet
<1>3. \A i, j \in S : q[i].sites[1] = q[j].sites[1] => i = j
  <2> SUFFICES ASSUME NEW i \in S, NEW j \in S, q[i].sites[1] = q[j].sites[1] PROVE i = j
    OBVIOUS
  <2>1. PICK s : s = q[i].sites[1]
    OBVIOUS
  <2>2. s \in ToSet(q[i].sites) /\ s \in ToSet(q[j].sites)
    BY <1>2, <2>1
  <2> QED
    BY <2>2 DEF Planned
<1>4. \A i, j \in S : <<i, j>> \in R <=> Precedes(q, i, j)
  OBVIOUS
<1> HIDE DEF R
<1>5. StrictOrder(S, R)
  <2>1. \A i \in S : ~ Precedes(q, i, i)
    BY <1>2 DEF Precedes
  <2>2. \A i, j \in S : i # j => Precedes(q, i, j) \/ Precedes(q, j, i)
    BY <1>2, <1>3 DEF Precedes
  <2>3. \A h, i, j \in S : Precedes(q, h, i) /\ Precedes(q, i, j) => Precedes(q, h, j)
    BY <1>2 DEF Precedes
  <2> HIDE DEF S
  <2> QED
    BY <1>4, <2>1, <2>2, <2>3 DEF StrictOrder
<1> HIDE DEF S
<1>6. \A i \in S : Cardinality({j \in S : Precedes(q, j, i)}) = Rank(S, R, i)
  <2>1. \A i \in S : {j \in S : Precedes(q, j, i)} = {j \in S : <<j, i>> \in R}
    BY <1>4
  <2> QED
    BY <2>1 DEF Rank
<1>7. DOMAIN l = 1 .. Cardinality(S)
  BY DEF Ordered
<1>8. ASSUME NEW p \in 1 .. Cardinality(S)
      PROVE  l[p] \in S /\ Rank(S, R, l[p]) = p - 1
  <2>1. l[p] = CHOOSE i \in S : Cardinality({j \in S : Precedes(q, j, i)}) = p - 1
    BY DEF Ordered
  <2>2. \E i \in S : Rank(S, R, i) = p - 1
    BY <1>1, <1>5, Ranks
  <2>3. \E i \in S : Cardinality({j \in S : Precedes(q, j, i)}) = p - 1
    BY <1>6, <2>2
  <2>4. l[p] \in S /\ Cardinality({j \in S : Precedes(q, j, l[p])}) = p - 1
    BY <2>1, <2>3
  <2> QED
    BY <1>6, <2>4
<1>9. Lists(l, S)
  BY <1>1, <1>5, <1>7, <1>8, ListedByRank
<1>10. SortPlans(q) = [j \in DOMAIN l |-> q[l[j]]]
  BY DEF SortPlans, Precedes, S, Ordered
<1> HIDE DEF l
<1> QED
  BY <1>9, <1>10, Rearranged DEF S

(* So every site is in one of the plain batches, which can be serviced.    *)
LEMMA PlainBatches ==
  ASSUME NEW gr, Sound(gr)
  PROVE  Planned(gr, DOMAIN gr.sites, PlanPlainBatches(gr))
<1>1. PlanPlainBatches(gr) = SortPlans(PlacedPlans(gr))
  BY DEF PlanPlainBatches, PlacedPlans
<1> QED
  BY <1>1, AllPlaced, SortedPlans

-----------------------------------------------------------------------------
(* Fusion.                                                                 *)

(* A value mentioned once is read at one place of one node.                *)
LEMMA MentionedOnce ==
  ASSUME NEW gr, Sound(gr), NEW v, Mentions(gr, v) = 1
  PROVE  /\ \E r \in Values(gr) : v \in InputsOf(gr, r)
         /\ \A a, b \in Values(gr) :
              \A j \in DOMAIN gr.nodes[a].in, l \in DOMAIN gr.nodes[b].in :
                gr.nodes[a].in[j] = v /\ gr.nodes[b].in[l] = v => a = b /\ j = l
<1> DEFINE S == Values(gr)
           at(r) == {j \in DOMAIN gr.nodes[r].in : gr.nodes[r].in[j] = v}
           w == [r \in S |-> Cardinality(at(r))]
<1>1. IsFiniteSet(S)
  BY GraphFacts, FS_Interval
<1>2. ASSUME NEW r \in S
      PROVE  IsFiniteSet(at(r)) /\ Cardinality(at(r)) \in Nat
  <2>1. IsFiniteSet(DOMAIN gr.nodes[r].in)
    <3>1. Len(gr.nodes[r].in) \in Nat /\ DOMAIN gr.nodes[r].in = 1 .. Len(gr.nodes[r].in)
      BY GraphFacts
    <3> QED
      BY <3>1, FS_Interval
  <2>2. at(r) \in SUBSET DOMAIN gr.nodes[r].in
    OBVIOUS
  <2> HIDE DEF at
  <2>3. IsFiniteSet(at(r))
    BY <2>1, <2>2, FS_Subset
  <2> QED
    BY <2>3, FS_CardinalityType
<1>3. Mentions(gr, v) = SumFunctionOnSet(w, S)
  BY DEF Mentions, SumFunction
<1>4. \A r \in S : w[r] = Cardinality(at(r)) /\ w[r] \in Nat
  BY <1>2
<1> HIDE DEF w, S, at
<1>5. /\ \A x \in S : SumFunctionOnSet(w, S) = w[x] + SumFunctionOnSet(w, S \ {x})
      /\ SumFunctionOnSet(w, S) = 1
  BY <1>1, <1>3, <1>4, SumTakesOff
<1>6. ASSUME NEW a \in S
      PROVE  /\ SumFunctionOnSet(w, S \ {a}) \in Nat
             /\ \A b \in S \ {a} : w[a] + w[b] <= 1
  <2> DEFINE R == S \ {a}
  <2>1. IsFiniteSet(R) /\ \A x \in R : w[x] \in Nat
    BY <1>1, <1>4, FS_RemoveElement
  <2>2. /\ SumFunctionOnSet(w, R) \in Nat
        /\ \A x \in R : SumFunctionOnSet(w, R) = w[x] + SumFunctionOnSet(w, R \ {x})
    BY <2>1, SumTakesOff, ZenonT(60)
  <2>3. ASSUME NEW b \in R
        PROVE  w[a] + w[b] <= 1
    <3>1. IsFiniteSet(R \ {b}) /\ \A x \in R \ {b} : w[x] \in Nat
      BY <2>1, FS_RemoveElement
    <3>2. SumFunctionOnSet(w, R \ {b}) \in Nat
      BY <3>1, SumTakesOff
    <3>3. /\ SumFunctionOnSet(w, R) = w[b] + SumFunctionOnSet(w, R \ {b})
          /\ SumFunctionOnSet(w, S) = w[a] + SumFunctionOnSet(w, R)
      BY <1>5, <2>2, <2>3
    <3>4. w[a] \in Nat /\ w[b] \in Nat
      BY <1>4, <2>3
    <3> HIDE DEF R
    <3> QED
      BY <1>5, <3>2, <3>3, <3>4
  <2> QED
    BY <2>2, <2>3
<1>7. ASSUME NEW a \in S
      PROVE  w[a] <= 1
  <2>1. PICK rest : rest = SumFunctionOnSet(w, S \ {a})
    OBVIOUS
  <2>2. rest \in Nat /\ w[a] \in Nat /\ 1 = w[a] + rest
    BY <1>4, <1>5, <1>6, <2>1
  <2> QED
    BY <2>2
<1>8. ASSUME NEW a \in S, NEW j \in at(a)
      PROVE  w[a] = 1
  <2>1. w[a] # 0
    BY <1>2, <1>4, <1>8, FS_EmptySet
  <2> QED
    BY <1>4, <1>7, <2>1
<1>9. ASSUME NEW a \in S, NEW b \in S, NEW j \in at(a), NEW l \in at(b)
      PROVE  a = b /\ j = l
  <2>1. a = b
    <3> SUFFICES ASSUME a # b PROVE FALSE
      OBVIOUS
    <3>1. w[a] + w[b] <= 1
      BY <1>6
    <3> QED
      BY <1>8, <1>9, <3>1
  <2>2. Cardinality(at(a)) = 1
    BY <1>4, <1>8, <1>9
  <2>3. PICK x : at(a) = {x}
    BY <1>2, <2>2, FS_Singleton
  <2> QED
    BY <1>9, <2>1, <2>3
<1>10. \E a \in S : at(a) # {}
  <2> SUFFICES ASSUME \A a \in S : at(a) = {} PROVE FALSE
    OBVIOUS
  <2>1. \A a \in S : w[a] = 0
    BY <1>4, FS_EmptySet
  <2>2. SumFunctionOnSet(w, S) = SumFunctionOnSet(w, {})
    BY <1>1, <1>4, <2>1, SumWhereItCounts
  <2> QED
    BY <1>5, <2>2, SumEmpty
<1> QED
  BY <1>9, <1>10 DEF at, S, InputsOf, ToSet

(* A zero test is only fused with a Reveal that alone reads its flag, and  *)
(* nothing reads its other result.                                         *)
LEMMA SourceFacts ==
  ASSUME NEW gr, Sound(gr), NEW s \in DOMAIN gr.sites, NEW t, t = SourceSite(gr, s), t # 0
  PROVE  /\ t \in DOMAIN gr.sites
         /\ SiteNode(gr, t) < SiteNode(gr, s)
         /\ \E v \in ResultsOf(gr, t) : SiteNode(gr, s) \in ReadersOf(gr, v)
         /\ \A v \in ResultsOf(gr, t) : \A r \in ReadersOf(gr, v) : r = SiteNode(gr, s)
<1> DEFINE x == SiteNode(gr, s)
           w == gr.nodes[x].in[1]
<1>1. x \in Values(gr)
  BY SiteNodeFacts
<1>2. /\ Len(gr.nodes[x].in) = 1
      /\ gr.nodes[w].op = "GadgetResult" /\ gr.nodes[w].arg = 0
      /\ Mentions(gr, w) = 1
      /\ ~ AuxiliaryRead(gr, SiteOf(gr, w))
      /\ t = SiteOf(gr, w)
  BY DEF SourceSite
<1>10. DOMAIN gr.nodes[x].in = 1 .. Len(gr.nodes[x].in)
  <2> HIDE DEF x
  <2> QED
    BY <1>1, GraphFacts
<1>3. 1 \in DOMAIN gr.nodes[x].in
  <2>1. 1 \in 1 .. 1
    OBVIOUS
  <2> QED
    BY <1>2, <1>10, <2>1, Zenon
<1>4. w \in InputsOf(gr, x) /\ w \in Values(gr) /\ w < x
  BY <1>1, <1>3, GraphFacts DEF InputsOf, ToSet
<1> HIDE DEF w, x
<1>5. w \in NodesOf(gr, "GadgetResult") /\ x \in ReadersOf(gr, w)
  BY <1>1, <1>2, <1>4 DEF NodesOf, ReadersOf
<1>6. /\ t \in DOMAIN gr.sites /\ w \in ResultsOf(gr, t)
      /\ gr.nodes[w].in = <<SiteNode(gr, t)>> /\ SiteNode(gr, t) < w
  BY <1>2, <1>5, ResultFacts
<1>7. SiteNode(gr, t) < x
  BY <1>1, <1>4, <1>6, SiteNodeFacts, GraphFacts
<1>8. ASSUME NEW v \in ResultsOf(gr, t), NEW r \in ReadersOf(gr, v)
      PROVE  r = x
  <2>1. v \in NodesOf(gr, "GadgetResult") /\ SiteOf(gr, v) = t
    BY DEF ResultsOf
  <2>2. gr.nodes[v].in = <<SiteNode(gr, t)>>
    BY <2>1, ResultFacts
  <2>3. gr.nodes[v].arg = 0
    BY <1>2 DEF AuxiliaryRead
  <2>4. gr.nodes[v] = gr.nodes[w]
    <3>1. ASSUME NEW u \in Values(gr)
          PROVE  gr.nodes[u] \in [op : Ops, arg : Nat, in : Seq(Nat)]
      <4>1. u \in 1 .. Len(gr.nodes) /\ gr.nodes \in Seq([op : Ops, arg : Nat, in : Seq(Nat)])
        BY GraphFacts DEF Sound, WellTyped
      <4> QED
        BY <4>1, ElementOfSeq
    <3>2. v \in Values(gr) /\ gr.nodes[v].op = "GadgetResult"
      BY <2>1 DEF NodesOf
    <3> QED
      BY <1>2, <1>4, <1>6, <2>2, <2>3, <3>1, <3>2
  <2>5. v = w
    BY <1>5, <2>1, <2>4 DEF Sound, WellFormed
  <2>6. r \in Values(gr) /\ w \in InputsOf(gr, r) /\ w \in InputsOf(gr, x)
    BY <1>4, <2>5 DEF ReadersOf
  <2>7. PICK j \in DOMAIN gr.nodes[r].in : gr.nodes[r].in[j] = w
    BY <2>6 DEF InputsOf, ToSet
  <2>8. PICK l \in DOMAIN gr.nodes[x].in : gr.nodes[x].in[l] = w
    BY <2>6 DEF InputsOf, ToSet
  <2> QED
    BY <1>1, <1>2, <2>6, <2>7, <2>8, MentionedOnce
<1> QED
  BY <1>5, <1>6, <1>7, <1>8 DEF x

(* A batch is named by any of its sites.                                   *)
LEMMA PlanOfSite ==
  ASSUME NEW gr, NEW q, Planned(gr, DOMAIN gr.sites, q)
  PROVE  /\ \A s \in DOMAIN gr.sites : PlanOf(q, s) \in DOMAIN q /\ s \in ToSet(q[PlanOf(q, s)].sites)
         /\ \A i \in DOMAIN q : \A s \in ToSet(q[i].sites) : s \in DOMAIN gr.sites /\ PlanOf(q, s) = i
<1>1. ASSUME NEW s \in DOMAIN gr.sites
      PROVE  PlanOf(q, s) \in DOMAIN q /\ s \in ToSet(q[PlanOf(q, s)].sites)
  BY DEF PlanOf, Planned
<1>2. ASSUME NEW i \in DOMAIN q, NEW s \in ToSet(q[i].sites)
      PROVE  s \in DOMAIN gr.sites /\ PlanOf(q, s) = i
  <2>1. s \in DOMAIN gr.sites
    BY DEF Planned
  <2> QED
    BY <1>1, <2>1 DEF Planned
<1> QED
  BY <1>1, <1>2

(* A plan in parts.                                                        *)
LEMMA PlanParts ==
  ASSUME NEW gr, Sound(gr), NEW q, Planned(gr, DOMAIN gr.sites, q), NEW i \in DOMAIN q
  PROVE  /\ q[i].sites \in Seq(DOMAIN gr.sites)
         /\ Len(q[i].sites) \in Nat /\ Len(q[i].sites) # 0
         /\ DOMAIN q[i].sites = 1 .. Len(q[i].sites)
         /\ \A j \in DOMAIN q[i].sites : q[i].sites[j] \in DOMAIN gr.sites
         /\ \A j, l \in DOMAIN q[i].sites : q[i].sites[j] = q[i].sites[l] => j = l
         /\ q[i].anchor \in Nat
         /\ \E s \in ToSet(q[i].sites) : q[i].anchor = SiteNode(gr, s)
         /\ \A s \in ToSet(q[i].sites) : SiteNode(gr, s) <= q[i].anchor
                                         /\ q[i].anchor < FirstReader(gr, s)
<1>1. q[i] \in PlanSet(gr) /\ Serviceable(gr, q[i])
  BY ElementOfSeq DEF Planned
<1>2. q[i].sites \in Seq(DOMAIN gr.sites) /\ q[i].sites # <<>> /\ q[i].anchor \in Nat
      /\ q[i].deadline \in Nat
  BY <1>1 DEF PlanSet, Serviceable
<1>3. /\ Len(q[i].sites) \in Nat /\ Len(q[i].sites) # 0
      /\ DOMAIN q[i].sites = 1 .. Len(q[i].sites)
  BY <1>2, LenProperties, EmptySeq
<1>4. \A j \in DOMAIN q[i].sites : q[i].sites[j] \in DOMAIN gr.sites
  BY <1>2, <1>3, ElementOfSeq
<1>5. ASSUME NEW s \in ToSet(q[i].sites)
      PROVE  SiteNode(gr, s) <= q[i].anchor /\ q[i].anchor < FirstReader(gr, s)
  <2>1. s \in DOMAIN gr.sites
    BY <1>4 DEF ToSet
  <2>2. FirstReader(gr, s) \in Nat
    BY <2>1, FirstReaderFacts
  <2>3. /\ SiteNode(gr, s) <= q[i].anchor /\ q[i].deadline <= FirstReader(gr, s)
        /\ q[i].anchor < q[i].deadline
    BY <1>1 DEF Serviceable
  <2> QED
    BY <1>2, <2>2, <2>3
<1> QED
  BY <1>1, <1>2, <1>3, <1>4, <1>5 DEF Serviceable

(* The zero tests a Reveal batch opens, site for site.                     *)
SourcesOf(gr, q, r) == [j \in DOMAIN q[r].sites |-> SourceSite(gr, q[r].sites[j])]

(* A fused batch takes over a whole zero-test batch: its sources are the   *)
(* sites of that batch, each once.                                         *)
LEMMA FusedFacts ==
  ASSUME NEW gr, Sound(gr), NEW q, Planned(gr, DOMAIN gr.sites, q), NEW r \in DOMAIN q,
         NEW from, from = FusedWith(gr, q, r), from # 0,
         NEW src, src = SourcesOf(gr, q, r)
  PROVE  /\ from \in DOMAIN q
         /\ q[r].key.kind = "Reveal1" /\ q[from].key.kind = "IsZero"
         /\ src \in Seq(DOMAIN gr.sites) /\ DOMAIN src = DOMAIN q[r].sites
         /\ \A j \in DOMAIN src : src[j] = SourceSite(gr, q[r].sites[j]) /\ src[j] # 0
         /\ ToSet(src) = ToSet(q[from].sites)
<1>1. /\ DOMAIN src = DOMAIN q[r].sites
      /\ \A j \in DOMAIN src : src[j] = SourceSite(gr, q[r].sites[j])
  BY DEF SourcesOf
<1>2. /\ q[r].key.kind = "Reveal1" /\ q[from].key.kind = "IsZero"
      /\ 0 \notin ToSet(src)
      /\ from = PlanOf(q, src[1])
      /\ \A j \in DOMAIN src : PlanOf(q, src[j]) = from
      /\ Len(q[from].sites) = Len(src)
  BY DEF FusedWith, SourcesOf
<1>3. /\ Len(q[r].sites) \in Nat /\ Len(q[r].sites) # 0
      /\ DOMAIN q[r].sites = 1 .. Len(q[r].sites)
      /\ \A j \in DOMAIN q[r].sites : q[r].sites[j] \in DOMAIN gr.sites
      /\ \A j, l \in DOMAIN q[r].sites : q[r].sites[j] = q[r].sites[l] => j = l
  BY PlanParts
<1>4. ASSUME NEW j \in DOMAIN src
      PROVE  src[j] # 0 /\ src[j] \in DOMAIN gr.sites
  <2>1. src[j] # 0
    BY <1>2 DEF ToSet
  <2> QED
    BY <1>1, <1>3, <2>1, SourceFacts
<1>5. src \in Seq(DOMAIN gr.sites) /\ Len(src) = Len(q[r].sites)
  <2>1. src \in [1 .. Len(q[r].sites) -> DOMAIN gr.sites]
    BY <1>1, <1>3, <1>4 DEF SourcesOf
  <2> QED
    BY <1>3, <2>1, SeqDef, LenProperties
<1>6. 1 \in DOMAIN src
  BY <1>1, <1>3
<1>7. from \in DOMAIN q /\ \A j \in DOMAIN src : src[j] \in ToSet(q[from].sites)
  <2>1. \A s \in DOMAIN gr.sites : PlanOf(q, s) \in DOMAIN q /\ s \in ToSet(q[PlanOf(q, s)].sites)
    BY PlanOfSite
  <2> QED
    BY <1>2, <1>4, <1>6, <2>1
<1>8. ASSUME NEW j \in DOMAIN src, NEW l \in DOMAIN src, src[j] = src[l]
      PROVE  j = l
  <2>1. PICK s : s = q[r].sites[j]
    OBVIOUS
  <2>2. PICK u : u = q[r].sites[l]
    OBVIOUS
  <2>3. PICK t : t = src[j]
    OBVIOUS
  <2>4. s \in DOMAIN gr.sites /\ u \in DOMAIN gr.sites /\ t # 0
        /\ t = SourceSite(gr, s) /\ t = SourceSite(gr, u)
    BY <1>1, <1>3, <1>4, <1>8, <2>1, <2>2, <2>3
  <2>5. \E v \in ResultsOf(gr, t) : SiteNode(gr, s) \in ReadersOf(gr, v)
    BY <2>4, SourceFacts
  <2>6. \A v \in ResultsOf(gr, t) : \A x \in ReadersOf(gr, v) : x = SiteNode(gr, u)
    BY <2>4, SourceFacts
  <2>7. s = u
    BY <2>4, <2>5, <2>6, SiteNodeFacts
  <2> QED
    BY <1>1, <1>3, <2>1, <2>2, <2>7
<1>9. ToSet(src) = ToSet(q[from].sites)
  <2> DEFINE D == 1 .. Len(src)
             A == ToSet(src)
             B == ToSet(q[from].sites)
  <2>1. IsFiniteSet(D) /\ Cardinality(D) = Len(src) /\ DOMAIN src = D
    BY <1>1, <1>3, <1>5, FS_Interval
  <2>2. /\ Len(q[from].sites) = Len(src) /\ DOMAIN q[from].sites = D
        /\ \A j, l \in DOMAIN q[from].sites : q[from].sites[j] = q[from].sites[l] => j = l
    BY <1>2, <1>7, PlanParts
  <2> DEFINE e == [j \in D |-> q[from].sites[j]]
             f == [j \in D |-> src[j]]
  <2>3. e \in Bijection(D, B)
    BY <2>2 DEF Bijection, Injection, Surjection, IsInjective, ToSet
  <2>4. f \in Injection(D, B)
    BY <1>7, <1>8, <2>1 DEF Injection, IsInjective
  <2>5. IsFiniteSet(B) /\ Cardinality(B) = Cardinality(D)
    <3> HIDE DEF D, B, e
    <3>1. ExistsBijection(D, B)
      BY <2>3 DEF ExistsBijection
    <3> QED
      BY <2>1, <3>1, FS_Bijection
  <2>6. f \in Surjection(D, B)
    <3> HIDE DEF D, B, f
    <3> QED
      BY <2>1, <2>4, <2>5, FS_Injection
  <2>7. \A t \in B : \E j \in D : src[j] = t
    BY <2>6 DEF Surjection
  <2>8. \A t \in B : t \in A
    BY <2>1, <2>7 DEF ToSet
  <2>9. \A t \in A : t \in B
    BY <1>7 DEF ToSet
  <2> QED
    BY <2>8, <2>9
<1> QED
  BY <1>1, <1>2, <1>4, <1>5, <1>7, <1>9

-----------------------------------------------------------------------------
(* The schedule.                                                           *)

(* Every batch runs at a Gadget node of its own, after the nodes of its    *)
(* sites; and a result is served before it is read, or is the flag a fused *)
(* batch opens, read by no node but the Reveal the batch stands for.       *)
Scheduled(gr, bs) ==
  /\ \E last \in Nat : DOMAIN bs = 1 .. last
  /\ \A b \in DOMAIN bs :
       /\ bs[b].sites \in Seq(DOMAIN gr.sites)
       /\ bs[b].anchor \in NodesOf(gr, "Gadget")
       /\ \A s \in ToSet(bs[b].sites) : SiteNode(gr, s) <= bs[b].anchor
  /\ \A b, c \in DOMAIN bs : bs[b].anchor = bs[c].anchor => b = c
  /\ \A v \in NodesOf(gr, "GadgetResult") : \A r \in ReadersOf(gr, v) :
       \E b \in DOMAIN bs :
         /\ SiteOf(gr, v) \in ToSet(bs[b].sites) \cup ToSet(bs[b].reveals)
         /\ \/ bs[b].anchor < r
            \/ gr.nodes[r].op = "Gadget" /\ gr.nodes[r].arg \in ToSet(bs[b].reveals)

(* One entry of the schedule.                                              *)
Entry(gr, q, r) ==
  IF FusedWith(gr, q, r) = 0
  THEN [key |-> q[r].key, anchor |-> q[r].anchor, sites |-> q[r].sites, reveals |-> <<>>]
  ELSE [key |-> q[r].key, anchor |-> q[r].anchor,
        sites |-> SourcesOf(gr, q, r), reveals |-> q[r].sites]

Replaced(gr, q) == {FusedWith(gr, q, r) : r \in DOMAIN q}

EntriesOf(gr, q, bs) ==
  \E kept : /\ Lists(kept, DOMAIN q \ Replaced(gr, q))
            /\ IsFiniteSet(DOMAIN q \ Replaced(gr, q))
            /\ DOMAIN bs = DOMAIN kept
            /\ \A j \in DOMAIN kept : bs[j] = Entry(gr, q, kept[j])

(* The schedule lists the entries of the plans no other plan took over.    *)
LEMMA EntriesListed ==
  ASSUME NEW gr, Sound(gr), NEW q, Planned(gr, DOMAIN gr.sites, q),
         NEW bs, bs = FuseZeroTestReveals(gr, q)
  PROVE  EntriesOf(gr, q, bs)
<1> DEFINE with == [r \in DOMAIN q |-> FusedWith(gr, q, r)]
           replaced == {with[r] : r \in DOMAIN q}
           S == DOMAIN q \ replaced
           R == {ij \in S \X S : ij[1] < ij[2]}
           kept == Ordered(S, <)
<1>1. Len(q) \in Nat /\ DOMAIN q = 1 .. Len(q) /\ IsFiniteSet(DOMAIN q)
  BY LenProperties, FS_Interval DEF Planned
<1>2. IsFiniteSet(S) /\ \A i \in S : i \in Nat /\ i \in DOMAIN q
  BY <1>1, FS_Subset
<1>3. \A i, j \in S : <<i, j>> \in R <=> i < j
  OBVIOUS
<1> HIDE DEF R, S
<1>4. StrictOrder(S, R)
  BY <1>2, <1>3 DEF StrictOrder
<1>5. \A i \in S : Cardinality({j \in S : j < i}) = Rank(S, R, i)
  <2>1. \A i \in S : {j \in S : j < i} = {j \in S : <<j, i>> \in R}
    BY <1>3
  <2> QED
    BY <2>1 DEF Rank
<1>6. DOMAIN kept = 1 .. Cardinality(S)
  BY DEF Ordered
<1>7. ASSUME NEW p \in 1 .. Cardinality(S)
      PROVE  kept[p] \in S /\ Rank(S, R, kept[p]) = p - 1
  <2>1. kept[p] = CHOOSE i \in S : Cardinality({j \in S : j < i}) = p - 1
    BY DEF Ordered
  <2>2. \E i \in S : Rank(S, R, i) = p - 1
    BY <1>2, <1>4, Ranks
  <2>3. \E i \in S : Cardinality({j \in S : j < i}) = p - 1
    BY <1>5, <2>2
  <2>4. kept[p] \in S /\ Cardinality({j \in S : j < kept[p]}) = p - 1
    BY <2>1, <2>3
  <2> QED
    BY <1>5, <2>4
<1>8. Lists(kept, S)
  BY <1>2, <1>4, <1>6, <1>7, ListedByRank
<1>9. bs = [j \in DOMAIN kept |->
             IF with[kept[j]] = 0
             THEN [key |-> q[kept[j]].key, anchor |-> q[kept[j]].anchor,
                   sites |-> q[kept[j]].sites, reveals |-> <<>>]
             ELSE [key |-> q[kept[j]].key, anchor |-> q[kept[j]].anchor,
                   sites |-> [l \in DOMAIN q[kept[j]].sites |-> SourceSite(gr, q[kept[j]].sites[l])],
                   reveals |-> q[kept[j]].sites]]
  BY DEF FuseZeroTestReveals, S
<1>10. replaced = Replaced(gr, q)
  BY DEF Replaced
<1>11. \A j \in DOMAIN kept : kept[j] \in DOMAIN q
  BY <1>2, <1>8 DEF Lists
<1>12. \A j \in DOMAIN kept : with[kept[j]] = FusedWith(gr, q, kept[j])
  BY <1>11
<1> HIDE DEF kept, with, replaced
<1>13. DOMAIN bs = DOMAIN kept /\ \A j \in DOMAIN kept : bs[j] = Entry(gr, q, kept[j])
  BY <1>9, <1>12 DEF Entry, SourcesOf
<1> QED
  BY <1>2, <1>8, <1>10, <1>13 DEF S, EntriesOf

FaithfulEntry(gr, q, r, e) ==
  /\ e.anchor = q[r].anchor
  /\ e.sites \in Seq(DOMAIN gr.sites)
  /\ \A s \in ToSet(e.sites) : SiteNode(gr, s) <= e.anchor
  /\ \A s \in ToSet(q[r].sites) : s \in ToSet(e.sites) \cup ToSet(e.reveals)
  /\ FusedWith(gr, q, r) # 0 => e.sites = SourcesOf(gr, q, r) /\ e.reveals = q[r].sites

(* An entry keeps the anchor of its plan, and runs after its sites.        *)
LEMMA EntryFacts ==
  ASSUME NEW gr, Sound(gr), NEW q, Planned(gr, DOMAIN gr.sites, q), NEW r \in DOMAIN q,
         NEW e, e = Entry(gr, q, r)
  PROVE  FaithfulEntry(gr, q, r, e)
<1>1. /\ q[r].sites \in Seq(DOMAIN gr.sites) /\ q[r].anchor \in Nat
      /\ DOMAIN q[r].sites = 1 .. Len(q[r].sites)
      /\ \A j \in DOMAIN q[r].sites : q[r].sites[j] \in DOMAIN gr.sites
      /\ \A s \in ToSet(q[r].sites) : SiteNode(gr, s) <= q[r].anchor
  BY PlanParts
<1>2. CASE FusedWith(gr, q, r) = 0
  <2>1. e.anchor = q[r].anchor /\ e.sites = q[r].sites
    BY <1>2 DEF Entry
  <2> QED
    BY <1>1, <1>2, <2>1 DEF FaithfulEntry
<1>3. CASE FusedWith(gr, q, r) # 0
  <2>1. PICK src : src = SourcesOf(gr, q, r)
    OBVIOUS
  <2>2. e.anchor = q[r].anchor /\ e.sites = src /\ e.reveals = q[r].sites
    BY <1>3, <2>1 DEF Entry
  <2>3. /\ src \in Seq(DOMAIN gr.sites) /\ DOMAIN src = DOMAIN q[r].sites
        /\ \A j \in DOMAIN src : src[j] = SourceSite(gr, q[r].sites[j]) /\ src[j] # 0
    BY <1>3, <2>1, FusedFacts
  <2>4. ASSUME NEW j \in DOMAIN src
        PROVE  SiteNode(gr, src[j]) <= q[r].anchor
    <3>1. PICK s : s = q[r].sites[j]
      OBVIOUS
    <3>2. PICK t : t = src[j]
      OBVIOUS
    <3>3. s \in DOMAIN gr.sites /\ t # 0 /\ t = SourceSite(gr, s) /\ s \in ToSet(q[r].sites)
      BY <1>1, <2>3, <3>1, <3>2 DEF ToSet
    <3>4. t \in DOMAIN gr.sites /\ SiteNode(gr, t) < SiteNode(gr, s)
      BY <3>3, SourceFacts
    <3>5. SiteNode(gr, t) \in Nat /\ SiteNode(gr, s) \in Nat /\ SiteNode(gr, s) <= q[r].anchor
      BY <1>1, <3>3, <3>4, FirstReaderFacts
    <3>6. SiteNode(gr, t) <= q[r].anchor
      BY <1>1, <3>4, <3>5
    <3> QED
      BY <3>2, <3>6
  <2>5. \A s \in ToSet(src) : SiteNode(gr, s) <= q[r].anchor
    BY <2>4 DEF ToSet
  <2> QED
    BY <2>1, <2>2, <2>3, <2>5 DEF FaithfulEntry
<1> QED
  BY <1>2, <1>3

(* The planner's schedule, for every graph.                                *)
THEOREM BatchesScheduled ==
  ASSUME NEW gr, Sound(gr), NEW bs, bs = PlanGadgetBatches(gr)
  PROVE  Scheduled(gr, bs)
<1>1. PICK q : Planned(gr, DOMAIN gr.sites, q) /\ bs = FuseZeroTestReveals(gr, q)
  BY PlainBatches DEF PlanGadgetBatches
<1>2. PICK kept : /\ Lists(kept, DOMAIN q \ Replaced(gr, q))
                  /\ IsFiniteSet(DOMAIN q \ Replaced(gr, q))
                  /\ DOMAIN bs = DOMAIN kept
                  /\ \A j \in DOMAIN kept : bs[j] = Entry(gr, q, kept[j])
  <2>1. EntriesOf(gr, q, bs)
    BY <1>1, EntriesListed
  <2> QED
    BY <2>1 DEF EntriesOf
<1>3. /\ \A j \in DOMAIN bs : kept[j] \in DOMAIN q /\ bs[j] = Entry(gr, q, kept[j])
      /\ \A j, l \in DOMAIN bs : kept[j] = kept[l] => j = l
      /\ \A r \in DOMAIN q : r \notin Replaced(gr, q) => \E j \in DOMAIN bs : kept[j] = r
  BY <1>2 DEF Lists
<1>4. \E last \in Nat : DOMAIN bs = 1 .. last
  BY <1>2, FS_CardinalityType DEF Lists
<1>5. ASSUME NEW b \in DOMAIN bs
      PROVE  /\ bs[b].anchor = q[kept[b]].anchor
             /\ bs[b].sites \in Seq(DOMAIN gr.sites)
             /\ \A s \in ToSet(bs[b].sites) : SiteNode(gr, s) <= bs[b].anchor
             /\ \A s \in ToSet(q[kept[b]].sites) : s \in ToSet(bs[b].sites) \cup ToSet(bs[b].reveals)
             /\ FusedWith(gr, q, kept[b]) # 0 =>
                  bs[b].sites = SourcesOf(gr, q, kept[b]) /\ bs[b].reveals = q[kept[b]].sites
  <2>1. PICK r : r = kept[b]
    OBVIOUS
  <2>2. PICK e : e = bs[b]
    OBVIOUS
  <2>3. r \in DOMAIN q /\ e = Entry(gr, q, r)
    BY <1>3, <2>1, <2>2
  <2>4. FaithfulEntry(gr, q, r, e)
    BY <1>1, <2>3, EntryFacts
  <2> QED
    BY <2>1, <2>2, <2>4 DEF FaithfulEntry
<1>6. ASSUME NEW b \in DOMAIN bs
      PROVE  bs[b].anchor \in NodesOf(gr, "Gadget")
             /\ \E s \in ToSet(q[kept[b]].sites) : s \in DOMAIN gr.sites /\ bs[b].anchor = SiteNode(gr, s)
  <2>1. PICK r : r = kept[b]
    OBVIOUS
  <2>2. PICK s \in ToSet(q[r].sites) : q[r].anchor = SiteNode(gr, s)
    BY <1>1, <1>3, <2>1, PlanParts
  <2>3. s \in DOMAIN gr.sites
    BY <1>1, <1>3, <2>1, <2>2 DEF Planned
  <2> QED
    BY <1>5, <2>1, <2>2, <2>3, SiteNodeFacts
<1>7. ASSUME NEW b \in DOMAIN bs, NEW c \in DOMAIN bs, bs[b].anchor = bs[c].anchor
      PROVE  b = c
  <2>1. PICK s \in ToSet(q[kept[b]].sites) : s \in DOMAIN gr.sites /\ bs[b].anchor = SiteNode(gr, s)
    BY <1>6
  <2>2. PICK t \in ToSet(q[kept[c]].sites) : t \in DOMAIN gr.sites /\ bs[c].anchor = SiteNode(gr, t)
    BY <1>6
  <2>3. s = t
    <3>1. SiteNode(gr, s) = SiteNode(gr, t) /\ s \in DOMAIN gr.sites /\ t \in DOMAIN gr.sites
      BY <1>7, <2>1, <2>2
    <3> HIDE <1>7, <2>1, <2>2
    <3> QED
      BY <3>1, SiteNodeFacts
  <2>4. kept[b] = kept[c]
    BY <1>1, <1>3, <2>1, <2>2, <2>3 DEF Planned
  <2> QED
    BY <1>3, <2>4
<1>8. ASSUME NEW v \in NodesOf(gr, "GadgetResult"), NEW x \in ReadersOf(gr, v)
      PROVE  \E b \in DOMAIN bs :
               /\ SiteOf(gr, v) \in ToSet(bs[b].sites) \cup ToSet(bs[b].reveals)
               /\ \/ bs[b].anchor < x
                  \/ gr.nodes[x].op = "Gadget" /\ gr.nodes[x].arg \in ToSet(bs[b].reveals)
  <2>1. PICK s : s = SiteOf(gr, v)
    OBVIOUS
  <2>2. /\ s \in DOMAIN gr.sites /\ v \in ResultsOf(gr, s) /\ x \in Nat
    BY <2>1, ResultFacts, GraphFacts
  <2>3. PICK p : p = PlanOf(q, s)
    OBVIOUS
  <2>4. p \in DOMAIN q /\ s \in ToSet(q[p].sites)
    BY <1>1, <2>2, <2>3, PlanOfSite
  <2>5. Len(q) \in Nat /\ DOMAIN q = 1 .. Len(q)
    BY <1>1, LenProperties DEF Planned
  <2>6. CASE p \notin Replaced(gr, q)
    <3>1. PICK b \in DOMAIN bs : kept[b] = p
      BY <1>3, <2>4, <2>6
    <3>2. s \in ToSet(bs[b].sites) \cup ToSet(bs[b].reveals) /\ bs[b].anchor = q[p].anchor
      BY <1>5, <2>4, <3>1
    <3>3. q[p].anchor < FirstReader(gr, s) /\ q[p].anchor \in Nat
      BY <1>1, <2>4, PlanParts
    <3>4. FirstReader(gr, s) \in Nat /\ FirstReader(gr, s) <= x
      BY <2>2, FirstReaderFacts
    <3>5. q[p].anchor < x
      BY <2>2, <3>3, <3>4
    <3> QED
      BY <2>1, <3>2, <3>5
  <2>7. CASE p \in Replaced(gr, q)
    <3>1. PICK r \in DOMAIN q : p = FusedWith(gr, q, r)
      BY <2>7 DEF Replaced
    <3>2. p # 0
      BY <2>4, <2>5
    <3>3. PICK src : src = SourcesOf(gr, q, r)
      OBVIOUS
    <3>4. /\ q[r].key.kind = "Reveal1"
          /\ DOMAIN src = DOMAIN q[r].sites
          /\ \A j \in DOMAIN src : src[j] = SourceSite(gr, q[r].sites[j]) /\ src[j] # 0
          /\ ToSet(src) = ToSet(q[p].sites)
      BY <1>1, <3>1, <3>2, <3>3, FusedFacts
    <3>5. r \notin Replaced(gr, q)
      <4> SUFFICES ASSUME NEW y \in DOMAIN q, r = FusedWith(gr, q, y) PROVE FALSE
        BY DEF Replaced
      <4>1. r # 0
        BY <2>5
      <4>2. q[r].key.kind = "IsZero"
        BY <1>1, <4>1, FusedFacts
      <4> QED
        BY <3>4, <4>2
    <3>6. PICK b \in DOMAIN bs : kept[b] = r
      BY <1>3, <3>5
    <3>7. bs[b].sites = src /\ bs[b].reveals = q[r].sites
      BY <1>5, <3>1, <3>2, <3>3, <3>6
    <3>8. PICK j \in DOMAIN src : s = src[j]
      BY <2>4, <3>4 DEF ToSet
    <3>9. PICK t : t = q[r].sites[j]
      OBVIOUS
    <3>10. t \in DOMAIN gr.sites /\ t \in ToSet(q[r].sites)
      BY <1>1, <3>4, <3>9, PlanParts DEF ToSet
    <3>11. s # 0 /\ s = SourceSite(gr, t)
      BY <3>4, <3>8, <3>9
    <3>12. x = SiteNode(gr, t)
      BY <2>2, <3>10, <3>11, SourceFacts
    <3>13. gr.nodes[x].op = "Gadget" /\ gr.nodes[x].arg = t
      BY <3>10, <3>12, SiteNodeFacts
    <3>14. s \in ToSet(bs[b].sites)
      BY <3>7, <3>8 DEF ToSet
    <3> QED
      BY <2>1, <3>7, <3>10, <3>13, <3>14
  <2> QED
    BY <2>6, <2>7
<1> QED
  BY <1>4, <1>5, <1>6, <1>7, <1>8 DEF Scheduled
=============================================================================
