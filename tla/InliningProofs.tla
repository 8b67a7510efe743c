--------------------------- MODULE InliningProofs ---------------------------
(***************************************************************************)
(* No two instances claim one signal (BoundOnce), for every tree of        *)
(* templates circom accepts. A frame owns the flat signals of its tree;    *)
(* it lends those of a component to the component's frame and has them     *)
(* back, all bound, when that frame returns. And every gadget instance of  *)
(* the tree is one site (SitesAreInstances): each is a site already, or    *)
(* below a component that is still to be inlined. Nothing but a gadget's   *)
(* layout stops it (PanicsOnlyOnLayout): what a node reads is stored by    *)
(* then, by the template's own nodes or by its creator's.                  *)
(***************************************************************************)
EXTENDS Inlining, NumberTheorems, SequenceTheorems, FunctionTheorems

-----------------------------------------------------------------------------
(* The inductive invariant.                                                *)

(* The flat signals of frame l's tree, and those of one of its components. *)
Region(l) == {frames[l].offset + x : x \in TreeSignals(frames[l].template)}

SubRegion(l, s) == {frames[l].offset + x : x \in SubSignals(frames[l].template.subs[s])}

IsFrame(f) ==
  f = [template |-> f.template, nodes |-> f.nodes, offset |-> f.offset, root |-> f.root,
       given |-> f.given, as |-> f.as, at |-> f.at, remap |-> f.remap, writes |-> f.writes,
       stored |-> f.stored, inlined |-> f.inlined]

(* A frame walks the nodes of its template; what it was given and what it  *)
(* stores are inputs; what it wrote is written by a node it has passed.    *)
Walks(f) ==
  /\ f.template \in AllTemplates /\ f.nodes = Parse(f.template)
  /\ f.offset \in Nat /\ f.at \in Nat \ {0}
  /\ DOMAIN f.given \subseteq Inputs(f.template)
  /\ DOMAIN f.stored = DOMAIN f.template.subs
  /\ \A s \in DOMAIN f.stored : DOMAIN f.stored[s] \subseteq Inputs(f.template.subs[s])
  /\ \A x \in DOMAIN f.writes : \E n \in 1 .. (f.at - 1) :
       n \in DOMAIN f.nodes /\ f.nodes[n].op = "LocalSignalWrite" /\ f.nodes[n].arg = x

FramesOK ==
  /\ frames \in Seq(ToSet(frames)) /\ frames # <<>>
  /\ outputs \in Seq(ToSet(outputs))
  /\ \A l \in DOMAIN frames : IsFrame(frames[l]) /\ Walks(frames[l])

(* The next frame is that of a component not inlined yet.                  *)
Called ==
  \A l \in DOMAIN frames : l + 1 \in DOMAIN frames =>
    /\ frames[l + 1].as \in DOMAIN frames[l].template.subs \ DOMAIN frames[l].inlined
    /\ ~IsGadget(frames[l].template.subs[frames[l + 1].as])
    /\ frames[l + 1].template = frames[l].template.subs[frames[l + 1].as].template
    /\ frames[l + 1].offset = frames[l].offset + frames[l].template.subs[frames[l + 1].as].offset

(* Frames are nested, and so are the signals they own.                     *)
Nested ==
  \A l, m \in DOMAIN frames : l < m => Region(m) \subseteq SubRegion(l, frames[l + 1].as)

(* A signal of a frame's own is bound to what it reads.                    *)
Carries(f, x, value) ==
  \/ x \in DOMAIN f.writes /\ value = f.writes[x]
  \/ x \notin DOMAIN f.writes /\ x \in DOMAIN f.given /\ value = f.given[x]

OwnBound ==
  \A l \in DOMAIN frames : \A x \in OwnSignals(frames[l].template) : \A j \in DOMAIN outputs :
    outputs[j].signal = frames[l].offset + x => Carries(frames[l], x, outputs[j].value)

(* No signal is bound of a component that is still to be inlined.          *)
Waiting(l, s) ==
  /\ s \in DOMAIN frames[l].template.subs \ DOMAIN frames[l].inlined
  /\ l + 1 \in DOMAIN frames => frames[l + 1].as # s

Untouched ==
  \A l \in DOMAIN frames : \A s \in DOMAIN frames[l].template.subs : Waiting(l, s) =>
    \A j \in DOMAIN outputs : outputs[j].signal \notin SubRegion(l, s)

Agree ==
  \A j, n \in DOMAIN outputs :
    outputs[j].signal = outputs[n].signal => outputs[j].value = outputs[n].value

IInv == FramesOK /\ Called /\ Nested /\ OwnBound /\ Untouched /\ Agree

-----------------------------------------------------------------------------
(* Lists.                                                                  *)

(* A list that grows keeps what it has.                                    *)
LEMMA Grown ==
  ASSUME NEW S, NEW q \in Seq(S), NEW x
  PROVE  /\ Append(q, x) \in Seq(ToSet(Append(q, x)))
         /\ Len(q) \in Nat /\ DOMAIN q = 1 .. Len(q)
         /\ DOMAIN Append(q, x) = 1 .. (Len(q) + 1)
         /\ \A j \in 1 .. Len(q) : Append(q, x)[j] = q[j]
         /\ Append(q, x)[Len(q) + 1] = x
<1> DEFINE T == S \cup {x}
           r == Append(q, x)
<1>1. q \in Seq(T) /\ x \in T
  BY SeqMonotonic
<1> HIDE DEF T
<1>2. /\ r \in Seq(T) /\ Len(r) = Len(q) + 1
      /\ \A j \in 1 .. Len(q) : r[j] = q[j]
      /\ r[Len(q) + 1] = x
  BY <1>1
<1>3. /\ Len(q) \in Nat /\ DOMAIN q = 1 .. Len(q)
      /\ Len(r) \in Nat /\ DOMAIN r = 1 .. Len(r)
      /\ r \in [1 .. Len(r) -> T]
  BY <1>1, <1>2, LenProperties
<1> HIDE DEF r
<1>4. r \in [1 .. Len(r) -> ToSet(r)]
  BY <1>3 DEF ToSet
<1>5. r \in Seq(ToSet(r))
  BY <1>3, <1>4, ListOf
<1> QED
  BY <1>2, <1>3, <1>5 DEF r

-----------------------------------------------------------------------------
(* Templates.                                                              *)

(* What the nodes of a template's graph refer to.                          *)
RefersTo(t, n) ==
  /\ n.op \in {"LocalSignal", "LocalSignalWrite"} => n.arg \in OwnSignals(t)
  /\ n.op = "LocalSignalWrite" => n.arg \notin Inputs(t)
  /\ n.op = "SubCmpInput" => n.sub \in DOMAIN t.subs /\ n.arg \in Inputs(t.subs[n.sub])
  /\ n.op = "SubCmpOutput" => n.sub \in DOMAIN t.subs

(* A fold over a list, one element at a time. Reading the operands of a    *)
(* statement and storing the statements of a template are such folds.      *)
Visit(fold, acc, x) == IF fold = "reads" THEN ReadOperand(acc, x) ELSE HandleStore(acc, x)

Step(fold, base, list, f, s) ==
  IF s = {} THEN base ELSE LET x == Max(s) IN Visit(fold, f[s \ {x}], list[x])

Obeys(fold, base, list, f, D) == f = [s \in D |-> Step(fold, base, list, f, s)]

GoesOn(fold, base, list, f, m) ==
  /\ f[1 .. 0] = base
  /\ \A n \in 0 .. (m - 1) : f[1 .. (n + 1)] = Visit(fold, f[1 .. n], list[n + 1])

(* Some function obeys the recursion on all subsets of the positions.      *)
LEMMA FoldRecursionExists ==
  ASSUME NEW fold, NEW base, NEW list, NEW m \in Nat
  PROVE  \E f : Obeys(fold, base, list, f, SUBSET (1 .. m))
<1> DEFINE S == 1 .. m
           Small(n) == {s \in SUBSET S : Cardinality(s) <= n}
           T == {n \in Nat : \E f : Obeys(fold, base, list, f, Small(n))}
<1>1. IsFiniteSet(S) /\ S \subseteq 0 .. m
  BY FS_Interval
<1> HIDE DEF S
<1>2. \A s \in SUBSET S : IsFiniteSet(s) /\ Cardinality(s) \in Nat
                         /\ Cardinality(s) <= Cardinality(S)
  BY <1>1, FS_Subset, FS_CardinalityType
<1>3. 0 \in T
  <2> DEFINE f == [s \in Small(0) |-> base]
  <2>1. \A s \in Small(0) : s = {}
    BY <1>2, FS_EmptySet
  <2>2. Obeys(fold, base, list, f, Small(0))
    BY <2>1 DEF Obeys, Step
  <2> QED
    BY <2>2
<1>4. ASSUME NEW n \in T
      PROVE  n + 1 \in T
  <2>1. PICK f : Obeys(fold, base, list, f, Small(n))
    OBVIOUS
  <2> DEFINE h == [s \in Small(n + 1) |-> Step(fold, base, list, f, s)]
  <2>2. \A s \in Small(n) : s \in Small(n + 1) /\ h[s] = f[s]
    BY <1>2, <2>1 DEF Obeys
  <2>3. ASSUME NEW s \in Small(n + 1)
        PROVE  Step(fold, base, list, f, s) = Step(fold, base, list, h, s)
    <3>1. CASE s = {}
      BY <3>1 DEF Step
    <3>2. CASE s # {}
      <4> DEFINE x == Max(s)
      <4>1. x \in s
        BY <1>1, <3>2, LargestElement
      <4> HIDE DEF x
      <4>2. s \ {x} \in Small(n)
        BY <1>2, <4>1, FS_RemoveElement
      <4>3. f[s \ {x}] = h[s \ {x}]
        BY <2>2, <4>2
      <4> QED
        BY <3>2, <4>3 DEF Step, x
    <3> QED
      BY <3>1, <3>2
  <2>4. Obeys(fold, base, list, h, Small(n + 1))
    BY <2>3 DEF Obeys
  <2>5. \E e : Obeys(fold, base, list, e, Small(n + 1))
    BY <2>4
  <2> HIDE DEF Small, h
  <2> QED
    BY <2>5
<1>5. T = Nat
  <2> HIDE DEF T
  <2>1. T \in SUBSET Nat
    BY DEF T
  <2> QED
    BY <1>3, <1>4, <2>1, NaturalsFrom0
<1>6. Small(Cardinality(S)) = SUBSET S
  BY <1>2
<1>7. Cardinality(S) \in Nat
  BY <1>1, FS_CardinalityType
<1>8. \E f : Obeys(fold, base, list, f, Small(Cardinality(S)))
  BY <1>5, <1>7
<1>9. \E f : Obeys(fold, base, list, f, SUBSET S)
  BY <1>6, <1>8
<1> QED
  BY <1>9 DEF S

(* A function that obeys it goes through the list from the first element.  *)
LEMMA FoldGoesOn ==
  ASSUME NEW fold, NEW base, NEW list, NEW m \in Nat, NEW f,
         Obeys(fold, base, list, f, SUBSET (1 .. m))
  PROVE  GoesOn(fold, base, list, f, m)
<1>1. f[1 .. 0] = base
  <2>1. 1 .. 0 = {} /\ {} \in SUBSET (1 .. m)
    OBVIOUS
  <2>2. f[{}] = base
    BY <2>1 DEF Obeys, Step
  <2> QED
    BY <2>1, <2>2
<1>2. ASSUME NEW n \in 0 .. (m - 1)
      PROVE  f[1 .. (n + 1)] = Visit(fold, f[1 .. n], list[n + 1])
  <2>1. 1 .. (n + 1) \in SUBSET (1 .. m) /\ 1 .. (n + 1) # {}
    <3>1. n + 1 \in 1 .. (n + 1)
      OBVIOUS
    <3>2. \A x \in 1 .. (n + 1) : x \in 1 .. m
      OBVIOUS
    <3> QED
      BY <3>1, <3>2
  <2>2. (1 .. (n + 1)) \ {n + 1} = 1 .. n
    OBVIOUS
  <2>3. Max(1 .. (n + 1)) = n + 1
    BY LargestUpTo
  <2>4. f[1 .. (n + 1)] = Step(fold, base, list, f, 1 .. (n + 1))
    BY <2>1 DEF Obeys
  <2> QED
    BY <2>1, <2>2, <2>3, <2>4 DEF Step
<1> QED
  BY <1>1, <1>2 DEF GoesOn

(* What a node stores.                                                     *)
Stores(node) ==
  CASE node.op = "LocalSignalWrite" -> {Signal(node.arg)}
    [] node.op = "SubCmpInput"      -> {Port(node.sub, node.arg)}
    [] OTHER                        -> {}

Stored(list, k, a) == \E j \in 1 .. (k - 1) : a \in Stores(list[j])

(* What the k-th node reads has been stored before it.                     *)
Prepared(t, list, k, node) ==
  /\ node.op = "LocalSignal" =>
       node.arg \in Inputs(t) \/ Stored(list, k, Signal(node.arg))
  /\ node.op = "SubCmpOutput" =>
       /\ node.arg \in Offers(t.subs[node.sub])
       /\ \A port \in Inputs(t.subs[node.sub]) : Stored(list, k, Port(node.sub, port))

IsNewGraph(acc) ==
  acc = [nodes |-> acc.nodes, variables |-> acc.variables,
         operands |-> acc.operands, value |-> acc.value]

(* A template's graph before its n-th statement: its nodes refer to what   *)
(* the template has, and store what is assigned so far, each signal once.  *)
Built(t, n, acc) ==
  /\ IsNewGraph(acc)
  /\ acc.nodes \in Seq(ToSet(acc.nodes))
  /\ \A k \in DOMAIN acc.nodes :
       /\ RefersTo(t, acc.nodes[k])
       /\ acc.nodes[k].op = "LocalSignalWrite" => Signal(acc.nodes[k].arg) \in Assigned(t, n)
  /\ \A j, k \in DOMAIN acc.nodes :
       /\ acc.nodes[j].op = "LocalSignalWrite" /\ acc.nodes[k].op = "LocalSignalWrite"
       /\ acc.nodes[j].arg = acc.nodes[k].arg
       => j = k
  /\ \A k \in DOMAIN acc.nodes : Prepared(t, acc.nodes, k, acc.nodes[k])
  /\ \A a \in Assigned(t, n) : a.kind # "Variable" =>
       \E j \in DOMAIN acc.nodes : a \in Stores(acc.nodes[j])

(* Places of the template, with the signals it has.                        *)
Mentioned(t, a) == a \in Places(t) /\ (a.kind = "Signal" => a.index \in OwnSignals(t))

(* The n-th statement may read it.                                         *)
MayRead(t, n, a) ==
  Readable(t, n, a) /\ (a.kind = "Port" => a.index \in Offers(t.subs[a.sub]))

(* One more node, on the way to the m-th statement.                        *)
LEMMA Pushed ==
  ASSUME NEW t, NEW n, NEW m, NEW acc, Built(t, n, acc), NEW node, RefersTo(t, node),
         Assigned(t, n) \subseteq Assigned(t, m),
         node.op = "LocalSignalWrite" =>
           Signal(node.arg) \in Assigned(t, m) /\ Signal(node.arg) \notin Assigned(t, n),
         Prepared(t, acc.nodes, Len(acc.nodes) + 1, node),
         \A a \in Assigned(t, m) : a.kind # "Variable" => a \in Assigned(t, n) \cup Stores(node)
  PROVE  Built(t, m, Push(acc, node))
<1> DEFINE L == Len(acc.nodes)
           new == Append(acc.nodes, node)
<1>1. acc.nodes \in Seq(ToSet(acc.nodes))
  BY DEF Built
<1>2. /\ new \in Seq(ToSet(new)) /\ L \in Nat /\ DOMAIN acc.nodes = 1 .. L
      /\ DOMAIN new = 1 .. (L + 1)
      /\ \A j \in 1 .. L : new[j] = acc.nodes[j]
      /\ new[L + 1] = node
  BY <1>1, Grown
<1>3. Push(acc, node) = [nodes |-> new, variables |-> acc.variables,
                         operands |-> acc.operands, value |-> L + 1]
  <2> DEFINE value == L + 1
  <2>1. IsNewGraph(acc)
    BY DEF Built
  <2>2. Push(acc, node) = [acc EXCEPT !.nodes = new, !.value = value]
    BY DEF Push
  <2> HIDE DEF new, value
  <2> QED
    BY <2>1, <2>2 DEF IsNewGraph, value
<1> HIDE DEF L, new
<1>4. \A j \in 1 .. (L + 1) : j \in 1 .. L \/ j = L + 1
  BY <1>2
<1>5. ASSUME NEW k \in DOMAIN new
      PROVE  /\ RefersTo(t, new[k])
             /\ new[k].op = "LocalSignalWrite" => Signal(new[k].arg) \in Assigned(t, m)
  BY <1>2, <1>4 DEF Built
<1>6. ASSUME NEW j \in DOMAIN new, NEW k \in DOMAIN new,
             new[j].op = "LocalSignalWrite", new[k].op = "LocalSignalWrite",
             new[j].arg = new[k].arg
      PROVE  j = k
  <2>1. ASSUME NEW i \in 1 .. L, new[i].op = "LocalSignalWrite", new[i].arg = node.arg,
               node.op = "LocalSignalWrite"
        PROVE  FALSE
    BY <1>2, <2>1 DEF Built
  <2>2. CASE j \in 1 .. L /\ k \in 1 .. L
    BY <1>2, <1>6, <2>2 DEF Built
  <2> QED
    BY <1>2, <1>4, <1>6, <2>1, <2>2
<1>7. ASSUME NEW k \in DOMAIN new
      PROVE  Prepared(t, new, k, new[k])
  <2>1. Prepared(t, acc.nodes, k, new[k])
    <3>1. CASE k \in 1 .. L
      BY <1>2, <3>1 DEF Built
    <3>2. CASE k = L + 1
      BY <1>2, <3>2 DEF L
    <3> QED
      BY <1>2, <1>4, <3>1, <3>2
  <2>2. \A j \in 1 .. (k - 1) : new[j] = acc.nodes[j]
    BY <1>2
  <2>3. \A a : Stored(acc.nodes, k, a) => Stored(new, k, a)
    BY <2>2 DEF Stored
  <2> QED
    BY <2>1, <2>3 DEF Prepared
<1>8. ASSUME NEW a \in Assigned(t, m), a.kind # "Variable"
      PROVE  \E j \in DOMAIN new : a \in Stores(new[j])
  <2>1. CASE a \in Assigned(t, n)
    <3>1. PICK j \in 1 .. L : a \in Stores(acc.nodes[j])
      BY <1>2, <1>8, <2>1 DEF Built
    <3> QED
      BY <1>2, <3>1
  <2>2. CASE a \in Stores(node)
    <3>1. L + 1 \in DOMAIN new
      BY <1>2
    <3> QED
      BY <1>2, <2>2, <3>1
  <2> QED
    BY <1>8, <2>1, <2>2
<1> QED
  BY <1>2, <1>3, <1>5, <1>6, <1>7, <1>8 DEF Built, IsNewGraph

LEMMA ReadKeepsBuilt ==
  ASSUME NEW t, NEW n, NEW acc, Built(t, n, acc), NEW a, Mentioned(t, a), MayRead(t, n, a)
  PROVE  Built(t, n, ReadOperand(acc, a))
<1> DEFINE read == ReadValue(acc, a)
<1>1. Built(t, n, read)
  <2>1. CASE a.kind = "Variable"
    <3>1. read = [nodes |-> acc.nodes, variables |-> acc.variables,
                  operands |-> acc.operands, value |-> acc.variables[a.index]]
      BY <2>1 DEF ReadValue, Built, IsNewGraph
    <3> QED
      BY <3>1 DEF Built, IsNewGraph
  <2>2. ASSUME NEW node, node.op \in {"Constant", "LocalSignal", "SubCmpOutput"},
               RefersTo(t, node), Prepared(t, acc.nodes, Len(acc.nodes) + 1, node)
        PROVE  Built(t, n, Push(acc, node))
    BY <2>2, Pushed
  <2>7. \A b \in Assigned(t, n) : b.kind # "Variable" => Stored(acc.nodes, Len(acc.nodes) + 1, b)
    <3>1. Len(acc.nodes) \in Nat /\ DOMAIN acc.nodes = 1 .. Len(acc.nodes)
      BY LenProperties DEF Built
    <3>2. 1 .. Len(acc.nodes) = 1 .. (Len(acc.nodes) + 1 - 1)
      BY <3>1
    <3> QED
      BY <3>1, <3>2 DEF Built, Stored
  <2>3. CASE a.kind = "Constant"
    <3> DEFINE node == TemplateNode("Constant", a.index, 0, <<>>)
    <3>1. /\ node.op = "Constant" /\ RefersTo(t, node)
          /\ Prepared(t, acc.nodes, Len(acc.nodes) + 1, node)
      BY DEF TemplateNode, RefersTo, Prepared
    <3>2. read = Push(acc, node)
      BY <2>3 DEF ReadValue
    <3> QED
      BY <2>2, <3>1, <3>2
  <2>4. CASE a.kind = "Signal"
    <3> DEFINE node == TemplateNode("LocalSignal", a.index, 0, <<>>)
    <3>1. node.op = "LocalSignal" /\ RefersTo(t, node)
      BY <2>4 DEF TemplateNode, RefersTo, Mentioned
    <3>2. read = Push(acc, node)
      BY <2>4 DEF ReadValue
    <3>3. node.arg = a.index /\ a = Signal(a.index)
      BY <2>4 DEF TemplateNode, Mentioned, Places, Signal
    <3>4. a.index \in Inputs(t) \/ a \in Assigned(t, n)
      BY <2>4 DEF MayRead, Readable
    <3>5. Prepared(t, acc.nodes, Len(acc.nodes) + 1, node)
      BY <2>4, <2>7, <3>1, <3>3, <3>4 DEF Prepared
    <3> HIDE DEF node
    <3> QED
      BY <2>2, <3>1, <3>2, <3>5
  <2>5. CASE a.kind = "Port"
    <3> DEFINE node == TemplateNode("SubCmpOutput", a.index, a.sub, <<>>)
    <3>1. a.sub \in DOMAIN t.subs
      BY <2>5 DEF Mentioned, Places
    <3>2. node.op = "SubCmpOutput" /\ RefersTo(t, node)
      BY <3>1 DEF TemplateNode, RefersTo
    <3>3. read = Push(acc, node)
      BY <2>5 DEF ReadValue
    <3>4. node.arg = a.index /\ node.sub = a.sub
      BY DEF TemplateNode
    <3>5. a.index \in Offers(t.subs[a.sub])
      BY <2>5 DEF MayRead
    <3>6. ASSUME NEW port \in Inputs(t.subs[a.sub])
          PROVE  Stored(acc.nodes, Len(acc.nodes) + 1, Port(a.sub, port))
      <4>1. Port(a.sub, port) \in Assigned(t, n)
        BY <2>5 DEF MayRead, Readable
      <4>2. Port(a.sub, port).kind # "Variable"
        BY DEF Port
      <4> QED
        BY <2>7, <4>1, <4>2
    <3>7. Prepared(t, acc.nodes, Len(acc.nodes) + 1, node)
      BY <3>2, <3>4, <3>5, <3>6 DEF Prepared
    <3> HIDE DEF node
    <3> QED
      BY <2>2, <3>2, <3>3, <3>7
  <2>6. a.kind \in {"Variable", "Constant", "Signal", "Port"}
    BY DEF Mentioned, Places
  <2> QED
    BY <2>1, <2>3, <2>4, <2>5, <2>6
<1> HIDE DEF read
<1>2. ReadOperand(acc, a) = [nodes |-> read.nodes, variables |-> read.variables,
                             operands |-> Append(read.operands, read.value), value |-> read.value]
  <2>1. IsNewGraph(read)
    BY <1>1 DEF Built
  <2>2. ReadOperand(acc, a) = [read EXCEPT !.operands = Append(@, read.value)]
    BY DEF ReadOperand, read
  <2> QED
    BY <2>1, <2>2 DEF IsNewGraph
<1> QED
  BY <1>1, <1>2 DEF Built, IsNewGraph

LEMMA ReadsKeepBuilt ==
  ASSUME NEW t, NEW n, NEW acc, Built(t, n, acc),
         NEW A, NEW args \in Seq(A), \A a \in ToSet(args) : Mentioned(t, a) /\ MayRead(t, n, a)
  PROVE  Built(t, n, FoldLeft(ReadOperand, acc, args))
<1> DEFINE m == Len(args)
           f == CHOOSE h : h = [s \in SUBSET (1 .. m) |-> Step("reads", acc, args, h, s)]
<1>1. m \in Nat /\ DOMAIN args = 1 .. m
  BY LenProperties
<1>2. FoldLeft(ReadOperand, acc, args) = f[1 .. m]
  BY <1>1 DEF FoldLeft, MapThenFoldSet, Step, Visit
<1> HIDE DEF m
<1>3. f = [s \in SUBSET (1 .. m) |-> Step("reads", acc, args, f, s)]
  <2>1. PICK e : Obeys("reads", acc, args, e, SUBSET (1 .. m))
    BY <1>1, FoldRecursionExists
  <2>2. e = [s \in SUBSET (1 .. m) |-> Step("reads", acc, args, e, s)]
    BY <2>1 DEF Obeys, Step
  <2> QED
    BY <2>2
<1> HIDE DEF f
<1>4. Obeys("reads", acc, args, f, SUBSET (1 .. m))
  BY <1>3 DEF Obeys, Step
<1>5. /\ f[1 .. 0] = acc
      /\ \A i \in 0 .. (m - 1) : f[1 .. (i + 1)] = ReadOperand(f[1 .. i], args[i + 1])
  <2>1. GoesOn("reads", acc, args, f, m)
    BY <1>1, <1>4, FoldGoesOn
  <2> QED
    BY <2>1 DEF GoesOn, Visit
<1> DEFINE T == {i \in Nat : i <= m => Built(t, n, f[1 .. i])}
<1>6. 0 \in T
  BY <1>5
<1>7. ASSUME NEW i \in T PROVE i + 1 \in T
  <2> SUFFICES ASSUME i + 1 <= m PROVE Built(t, n, f[1 .. (i + 1)])
    OBVIOUS
  <2>1. i \in 0 .. (m - 1) /\ i + 1 \in DOMAIN args /\ Built(t, n, f[1 .. i])
    BY <1>1
  <2>2. Mentioned(t, args[i + 1]) /\ MayRead(t, n, args[i + 1])
    BY <2>1 DEF ToSet
  <2>3. Built(t, n, ReadOperand(f[1 .. i], args[i + 1]))
    BY <2>1, <2>2, ReadKeepsBuilt
  <2> QED
    BY <1>5, <2>1, <2>3
<1>8. T = Nat
  <2> HIDE DEF T
  <2>1. T \in SUBSET Nat
    BY DEF T
  <2> QED
    BY <1>6, <1>7, <2>1, NaturalsFrom0
<1>9. m \in T
  BY <1>1, <1>8
<1> QED
  BY <1>1, <1>2, <1>9

(* A statement of a template.                                              *)
LEMMA StoreKeepsBuilt ==
  ASSUME NEW t \in AllTemplates, NEW n \in DOMAIN t.body, NEW acc, Built(t, n, acc)
  PROVE  Built(t, n + 1, HandleStore(acc, t.body[n]))
<1> DEFINE st == t.body[n]
           dest == st.dest
           base == [acc EXCEPT !.operands = <<>>]
           reads == FoldLeft(ReadOperand, base, st.args)
           op == TemplateNode(st.op, 0, 0, reads.operands)
           computed == IF st.op = "Copy" THEN reads ELSE Push(reads, op)
<1>1. WellTypedTemplate(t) /\ Accepted(t)
  BY MainsAssumption
<1>2. DOMAIN t.body = 1 .. Len(t.body) /\ Len(t.body) \in Nat
  BY <1>1, LenProperties DEF WellTypedTemplate
<1>3. /\ dest \in Places(t) /\ dest.kind # "Constant"
      /\ st.op \in ArithOps \cup {"Copy"} /\ st.args \in Seq(Places(t))
  <2> DEFINE R == [dest : Places(t), op : ArithOps \cup {"Copy"}, args : Seq(Places(t))]
  <2>1. st \in R
    <3>1. t.body \in Seq(R)
      BY <1>1 DEF WellTypedTemplate
    <3> HIDE DEF R
    <3> QED
      BY <1>2, <3>1
  <2>2. dest.kind # "Constant"
    BY <1>1 DEF WellTypedTemplate
  <2> HIDE DEF st
  <2> QED
    BY <2>1, <2>2
<1>4. /\ dest.kind # "Variable" => dest \notin Assigned(t, n)
      /\ dest.kind = "Signal" => dest.index \notin Inputs(t)
      /\ dest.kind = "Port" => dest.index \in Inputs(t.subs[dest.sub])
  BY <1>1 DEF Accepted
<1>5. n \in Nat /\ Assigned(t, n) \subseteq Assigned(t, n + 1) /\ dest \in Assigned(t, n + 1)
      /\ \A a \in Assigned(t, n + 1) : a \in Assigned(t, n) \/ a = dest
  <2>1. n \in Nat /\ n >= 1
    BY <1>2
  <2>2. \A m \in 1 .. (n - 1) : m \in 1 .. (n + 1 - 1)
    BY <2>1
  <2>3. n \in 1 .. (n + 1 - 1) /\ \A m \in 1 .. (n + 1 - 1) : m \in 1 .. (n - 1) \/ m = n
    BY <2>1
  <2> QED
    BY <2>1, <2>2, <2>3 DEF Assigned
<1>6. \A a \in {dest} \cup ToSet(st.args) : Mentioned(t, a)
  <2>1. \A a \in ToSet(st.args) : a \in Places(t)
    BY <1>3, LenProperties DEF ToSet
  <2>2. st \in ToSet(t.body)
    BY DEF ToSet
  <2>3. \A a \in {dest} \cup ToSet(st.args) : a.kind = "Signal" => a.index \in OwnSignals(t)
    BY <2>2 DEF OwnSignals
  <2> QED
    BY <1>3, <2>1, <2>3 DEF Mentioned
<1>7. Built(t, n, base)
  <2>1. base = [nodes |-> acc.nodes, variables |-> acc.variables,
                operands |-> <<>>, value |-> acc.value]
    BY DEF Built, IsNewGraph
  <2> QED
    BY <2>1 DEF Built, IsNewGraph
<1> HIDE DEF base
<1>15. \A a \in ToSet(st.args) : MayRead(t, n, a)
  BY <1>1, ReadsAssumption DEF Accepted, MayRead
<1>8. Built(t, n, reads)
  BY <1>3, <1>6, <1>7, <1>15, ReadsKeepBuilt
<1>9. HandleStore(acc, st) = WriteValue(computed, dest)
  BY DEF HandleStore, base
<1> HIDE DEF reads
<1>10. Built(t, n, computed)
  <2>1. CASE st.op = "Copy"
    BY <1>8, <2>1
  <2>2. CASE st.op # "Copy"
    <3>1. op.op \in ArithOps
      BY <1>3, <2>2 DEF TemplateNode
    <3>2. /\ RefersTo(t, op) /\ op.op # "LocalSignalWrite"
          /\ Prepared(t, reads.nodes, Len(reads.nodes) + 1, op)
      BY <3>1 DEF RefersTo, ArithOps, Prepared
    <3> HIDE DEF op
    <3>3. Built(t, n, Push(reads, op))
      BY <1>8, <3>2, Pushed
    <3> QED
      BY <2>2, <3>3
  <2> QED
    BY <2>1, <2>2
<1> HIDE DEF computed
<1>11. CASE dest.kind = "Variable"
  <2>1. WriteValue(computed, dest)
          = [nodes |-> computed.nodes, operands |-> computed.operands, value |-> computed.value,
             variables |-> Inserted(computed.variables, dest.index, computed.value)]
    BY <1>10, <1>11 DEF WriteValue, Built, IsNewGraph
  <2> DEFINE w == WriteValue(computed, dest)
  <2>2. w.nodes = computed.nodes /\ IsNewGraph(w)
    BY <2>1 DEF IsNewGraph
  <2>3. \A a \in Assigned(t, n + 1) : a.kind # "Variable" => a \in Assigned(t, n)
    BY <1>5, <1>11
  <2> HIDE DEF w
  <2>4. Built(t, n + 1, w)
    BY <1>5, <1>10, <2>2, <2>3 DEF Built
  <2> QED
    BY <1>9, <2>4 DEF w
<1>12. CASE dest.kind = "Signal"
  <2> DEFINE node == TemplateNode("LocalSignalWrite", dest.index, 0, <<computed.value>>)
  <2>1. dest = Signal(dest.index)
    BY <1>3, <1>12 DEF Places, Signal
  <2>2. /\ node.op = "LocalSignalWrite" /\ node.arg = dest.index
        /\ RefersTo(t, node)
    BY <1>4, <1>6, <1>12 DEF RefersTo, TemplateNode, Mentioned
  <2>3. WriteValue(computed, dest) = Push(computed, node)
    BY <1>12 DEF WriteValue
  <2>6. Prepared(t, computed.nodes, Len(computed.nodes) + 1, node) /\ dest \in Stores(node)
    BY <2>1, <2>2 DEF Prepared, Stores
  <2> HIDE DEF node
  <2>4. Signal(node.arg) \in Assigned(t, n + 1) /\ Signal(node.arg) \notin Assigned(t, n)
    BY <1>4, <1>5, <1>12, <2>1, <2>2
  <2>5. Built(t, n + 1, Push(computed, node))
    BY <1>5, <1>10, <2>2, <2>4, <2>6, Pushed
  <2> QED
    BY <1>9, <2>3, <2>5
<1>13. CASE dest.kind = "Port"
  <2> DEFINE node == TemplateNode("SubCmpInput", dest.index, dest.sub, <<computed.value>>)
  <2>1. dest.sub \in DOMAIN t.subs
    BY <1>3, <1>13 DEF Places
  <2>2. /\ node.op = "SubCmpInput" /\ RefersTo(t, node)
        /\ node.sub = dest.sub /\ node.arg = dest.index
    BY <1>4, <1>13, <2>1 DEF RefersTo, TemplateNode
  <2>3. WriteValue(computed, dest) = Push(computed, node)
    BY <1>13 DEF WriteValue
  <2>5. dest = Port(dest.sub, dest.index)
    BY <1>3, <1>13 DEF Places, Port
  <2>6. Prepared(t, computed.nodes, Len(computed.nodes) + 1, node) /\ dest \in Stores(node)
    BY <2>2, <2>5 DEF Prepared, Stores
  <2> HIDE DEF node
  <2>4. Built(t, n + 1, Push(computed, node))
    BY <1>5, <1>10, <2>2, <2>6, Pushed
  <2> QED
    BY <1>9, <2>3, <2>4
<1>14. dest.kind \in {"Variable", "Signal", "Port"}
  BY <1>3 DEF Places
<1> QED
  BY <1>11, <1>12, <1>13, <1>14

(* The graph of a template writes each of its signals once, and none of    *)
(* its inputs; it reads what has been stored, and stores what is assigned. *)
LEMMA ParseFacts ==
  ASSUME NEW t \in AllTemplates
  PROVE  /\ Len(Parse(t)) \in Nat
         /\ DOMAIN Parse(t) = 1 .. Len(Parse(t))
         /\ \A n \in DOMAIN Parse(t) : RefersTo(t, Parse(t)[n])
         /\ \A m, n \in DOMAIN Parse(t) :
              /\ Parse(t)[m].op = "LocalSignalWrite" /\ Parse(t)[n].op = "LocalSignalWrite"
              /\ Parse(t)[m].arg = Parse(t)[n].arg
              => m = n
         /\ \A n \in DOMAIN Parse(t) : Prepared(t, Parse(t), n, Parse(t)[n])
         /\ \A a \in Assigned(t, Len(t.body) + 1) : a.kind # "Variable" =>
              \E n \in DOMAIN Parse(t) : a \in Stores(Parse(t)[n])
<1> DEFINE m == Len(t.body)
           base == [nodes |-> <<>>, variables |-> <<>>, operands |-> <<>>, value |-> 0]
           f == CHOOSE h : h = [s \in SUBSET (1 .. m) |-> Step("stores", base, t.body, h, s)]
<1>1. m \in Nat /\ DOMAIN t.body = 1 .. m
  <2>1. WellTypedTemplate(t)
    BY MainsAssumption
  <2> QED
    BY <2>1, LenProperties DEF WellTypedTemplate
<1>2. Parse(t) = f[1 .. m].nodes
  <2>1. FoldLeft(HandleStore, base, t.body) = f[1 .. m]
    BY <1>1 DEF FoldLeft, MapThenFoldSet, Step, Visit
  <2> QED
    BY <2>1 DEF Parse
<1>3. Built(t, 1, base)
  <2>4. Assigned(t, 1) = {}
    BY DEF Assigned
  <2>1. base.nodes = <<>> /\ DOMAIN base.nodes = {}
    OBVIOUS
  <2>2. base.nodes \in Seq(ToSet(base.nodes))
    BY <2>1, EmptySeq
  <2>3. base = [nodes |-> base.nodes, variables |-> base.variables,
                operands |-> base.operands, value |-> base.value]
    OBVIOUS
  <2> HIDE DEF base
  <2> QED
    BY <2>1, <2>2, <2>3, <2>4 DEF Built, IsNewGraph
<1> HIDE DEF m, base
<1>4. f = [s \in SUBSET (1 .. m) |-> Step("stores", base, t.body, f, s)]
  <2>1. PICK e : Obeys("stores", base, t.body, e, SUBSET (1 .. m))
    BY <1>1, FoldRecursionExists
  <2>2. e = [s \in SUBSET (1 .. m) |-> Step("stores", base, t.body, e, s)]
    BY <2>1 DEF Obeys, Step
  <2> QED
    BY <2>2
<1> HIDE DEF f
<1>5. Obeys("stores", base, t.body, f, SUBSET (1 .. m))
  BY <1>4 DEF Obeys, Step
<1>6. /\ f[1 .. 0] = base
      /\ \A i \in 0 .. (m - 1) : f[1 .. (i + 1)] = HandleStore(f[1 .. i], t.body[i + 1])
  <2>1. GoesOn("stores", base, t.body, f, m)
    BY <1>1, <1>5, FoldGoesOn
  <2> QED
    BY <2>1 DEF GoesOn, Visit
<1> DEFINE T == {i \in Nat : i <= m => Built(t, i + 1, f[1 .. i])}
<1>7. 0 \in T
  BY <1>3, <1>6
<1>8. ASSUME NEW i \in T PROVE i + 1 \in T
  <2> SUFFICES ASSUME i + 1 <= m PROVE Built(t, i + 1 + 1, f[1 .. (i + 1)])
    OBVIOUS
  <2>1. i \in 0 .. (m - 1) /\ i + 1 \in DOMAIN t.body /\ Built(t, i + 1, f[1 .. i])
    BY <1>1
  <2>2. Built(t, i + 1 + 1, HandleStore(f[1 .. i], t.body[i + 1]))
    BY <2>1, StoreKeepsBuilt
  <2> QED
    BY <1>6, <2>1, <2>2
<1>9. T = Nat
  <2> HIDE DEF T
  <2>1. T \in SUBSET Nat
    BY DEF T
  <2> QED
    BY <1>7, <1>8, <2>1, NaturalsFrom0
<1>10. Built(t, m + 1, f[1 .. m])
  <2>1. m \in T
    BY <1>1, <1>9
  <2> QED
    BY <1>1, <2>1
<1> HIDE DEF T
<1>11. Parse(t) \in Seq(ToSet(Parse(t)))
  BY <1>2, <1>10 DEF Built
<1>12. Len(Parse(t)) \in Nat /\ DOMAIN Parse(t) = 1 .. Len(Parse(t))
  BY <1>11, LenProperties
<1> QED
  BY <1>2, <1>10, <1>12 DEF Built, m

(* The places of a tree's signals are numbers, and no two of its parts     *)
(* share one.                                                              *)
LEMMA Layout ==
  ASSUME NEW t \in AllTemplates
  PROVE  /\ OwnSignals(t) \subseteq TreeSignals(t) /\ TreeSignals(t) \subseteq Nat
         /\ \A s \in DOMAIN t.subs :
              /\ SubSignals(t.subs[s]) \subseteq TreeSignals(t)
              /\ t.subs[s].offset \in Nat
              /\ OwnSignals(t) \cap SubSignals(t.subs[s]) = {}
              /\ \A r \in DOMAIN t.subs :
                   r # s => SubSignals(t.subs[r]) \cap SubSignals(t.subs[s]) = {}
<1>1. LaidOut(t) /\ WellTypedTemplate(t)
  BY MainsAssumption
<1> QED
  BY <1>1, ZenonT(60) DEF LaidOut, WellTypedTemplate

(* A component that is compiled is one of the templates, at its offset.    *)
LEMMA Instance ==
  ASSUME NEW t \in AllTemplates, NEW s \in DOMAIN t.subs, ~IsGadget(t.subs[s])
  PROVE  /\ t.subs[s].template \in AllTemplates
         /\ SubSignals(t.subs[s]) =
              {t.subs[s].offset + x : x \in TreeSignals(t.subs[s].template)}
         /\ Inputs(t.subs[s]) = Inputs(t.subs[s].template)
<1>1. LaidOut(t) /\ WellTypedTemplate(t)
  BY MainsAssumption
<1>2. t.subs[s].template \in AllTemplates
  BY <1>1 DEF LaidOut
<1>3. t.subs[s] = Compiled(t.subs[s].template, t.subs[s].offset)
  BY <1>1 DEF WellTypedTemplate
<1>4. t.subs[s].outs = t.subs[s].template.outs /\ t.subs[s].ins = t.subs[s].template.ins
  BY <1>3 DEF Compiled
<1> QED
  BY <1>2, <1>4 DEF SubSignals, Inputs

-----------------------------------------------------------------------------
(* Frames.                                                                 *)

LEMMA TopFacts ==
  ASSUME FramesOK
  PROVE  /\ Len(frames) \in Nat \ {0} /\ DOMAIN frames = 1 .. Len(frames)
         /\ Len(frames) \in DOMAIN frames
         /\ Top = frames[Len(frames)]
         /\ IsFrame(Top) /\ Walks(Top)
         /\ Len(outputs) \in Nat /\ DOMAIN outputs = 1 .. Len(outputs)
<1>1. Len(frames) \in Nat /\ DOMAIN frames = 1 .. Len(frames)
  BY LenProperties DEF FramesOK
<1>2. Len(frames) # 0
  BY EmptySeq DEF FramesOK
<1>3. Len(outputs) \in Nat /\ DOMAIN outputs = 1 .. Len(outputs)
  BY LenProperties DEF FramesOK
<1> QED
  BY <1>1, <1>2, <1>3 DEF FramesOK, Top, Last

(* A component's signals are its creator's to lend.                        *)
LEMMA SubInRegion ==
  ASSUME NEW l, frames[l].template \in AllTemplates,
         NEW s \in DOMAIN frames[l].template.subs
  PROVE  SubRegion(l, s) \subseteq Region(l)
BY Layout DEF SubRegion, Region

(* The signals of the top frame mean nothing to the frames below.          *)
LEMMA BelowTop ==
  ASSUME IInv, NEW l \in DOMAIN frames, l < Len(frames), NEW signal \in Region(Len(frames))
  PROVE  /\ \A x \in OwnSignals(frames[l].template) : signal # frames[l].offset + x
         /\ \A s \in DOMAIN frames[l].template.subs :
              Waiting(l, s) => signal \notin SubRegion(l, s)
<1> DEFINE t == frames[l].template
           o == frames[l].offset
           c == frames[l + 1].as
<1>1. l + 1 \in DOMAIN frames /\ Len(frames) \in DOMAIN frames
  BY TopFacts DEF IInv
<1>2. t \in AllTemplates /\ o \in Nat
  BY DEF IInv, FramesOK, Walks
<1>3. c \in DOMAIN t.subs
  BY <1>1 DEF IInv, Called
<1>4. signal \in SubRegion(l, c)
  BY <1>1 DEF IInv, Nested
<1>5. PICK y \in SubSignals(t.subs[c]) : signal = o + y
  BY <1>4 DEF SubRegion
<1> HIDE DEF t, o, c
<1>6. y \in Nat /\ OwnSignals(t) \subseteq Nat
  BY <1>2, <1>3, Layout
<1>7. \A x \in OwnSignals(t) : signal # o + x
  BY <1>2, <1>3, <1>5, <1>6, Layout
<1>8. ASSUME NEW s \in DOMAIN t.subs, s # c
      PROVE  \A x \in SubSignals(t.subs[s]) : signal # o + x
  <2>1. SubSignals(t.subs[s]) \cap SubSignals(t.subs[c]) = {} /\ SubSignals(t.subs[s]) \subseteq Nat
    BY <1>2, <1>3, <1>8, Layout
  <2> QED
    BY <1>2, <1>5, <1>6, <2>1
<1> QED
  BY <1>1, <1>7, <1>8 DEF Waiting, SubRegion, t, o, c

(* What may change of the top frame while it stays on top: it is the same  *)
(* instance, and what its signals carried they carry still.                *)
StaysOnTop(f) ==
  /\ IsFrame(f) /\ Walks(f)
  /\ f.template = Top.template /\ f.offset = Top.offset /\ f.as = Top.as
  /\ \A x \in OwnSignals(Top.template) : \A value :
       Carries(Top, x, value) => Carries(f, x, value)

(* Replacing the top frame.                                                *)
LEMMA Replaced ==
  ASSUME FramesOK, NEW f, IsFrame(f), Walks(f), ReplaceTop(f)
  PROVE  /\ frames' \in Seq(ToSet(frames')) /\ frames' # <<>>
         /\ Len(frames') = Len(frames) /\ DOMAIN frames' = DOMAIN frames
         /\ frames'[Len(frames)] = f
         /\ \A l \in DOMAIN frames : l # Len(frames) => frames'[l] = frames[l]
         /\ \A l \in DOMAIN frames' : IsFrame(frames'[l]) /\ Walks(frames'[l])
<1>1. /\ Len(frames) \in Nat \ {0} /\ DOMAIN frames = 1 .. Len(frames)
      /\ Len(frames) \in DOMAIN frames
  BY TopFacts
<1>2. frames' = [l \in 1 .. Len(frames) |-> IF l = Len(frames) THEN f ELSE frames[l]]
  BY <1>1 DEF ReplaceTop
<1>3. frames' \in [1 .. Len(frames) -> ToSet(frames')]
  BY <1>2 DEF ToSet
<1>4. frames' \in Seq(ToSet(frames'))
  BY <1>1, <1>3, SeqDef
<1>5. Len(frames') = Len(frames)
  <2>1. Len(frames') \in Nat /\ DOMAIN frames' = 1 .. Len(frames')
    BY <1>4, LenProperties
  <2>2. 1 .. Len(frames') = 1 .. Len(frames)
    BY <1>2, <2>1
  <2> QED
    BY <1>1, <2>1, <2>2, SameLength
<1>6. frames' # <<>>
  BY <1>1, <1>5, EmptySeq
<1> QED
  BY <1>1, <1>2, <1>4, <1>5, <1>6 DEF FramesOK

(* The sequence of bindings grows.                                         *)
LEMMA Bound ==
  ASSUME FramesOK, NEW b, outputs' = Append(outputs, b)
  PROVE  /\ outputs' \in Seq(ToSet(outputs'))
         /\ DOMAIN outputs' = DOMAIN outputs \cup {Len(outputs) + 1}
         /\ Len(outputs) + 1 \notin DOMAIN outputs
         /\ \A j \in DOMAIN outputs : outputs'[j] = outputs[j]
         /\ outputs'[Len(outputs) + 1] = b
<1>1. outputs \in Seq(ToSet(outputs))
  BY DEF FramesOK
<1>2. /\ Append(outputs, b) \in Seq(ToSet(Append(outputs, b)))
      /\ Len(outputs) \in Nat /\ DOMAIN outputs = 1 .. Len(outputs)
      /\ DOMAIN Append(outputs, b) = 1 .. (Len(outputs) + 1)
      /\ \A j \in 1 .. Len(outputs) : Append(outputs, b)[j] = outputs[j]
      /\ Append(outputs, b)[Len(outputs) + 1] = b
  BY <1>1, Grown
<1> QED
  BY <1>2

(* The frames and what they own, when the top frame moves on as the same   *)
(* instance.                                                               *)
LEMMA SameRegions ==
  ASSUME IInv, NEW f, StaysOnTop(f), ReplaceTop(f)
  PROVE  /\ \A l \in DOMAIN frames :
              /\ frames'[l].template = frames[l].template
              /\ frames'[l].offset = frames[l].offset
              /\ frames'[l].as = frames[l].as
              /\ l < Len(frames) => frames'[l] = frames[l]
              /\ Region(l)' = Region(l)
              /\ \A s : SubRegion(l, s)' = SubRegion(l, s)
         /\ Called' /\ Nested'
<1>1. /\ Len(frames) \in Nat \ {0} /\ DOMAIN frames = 1 .. Len(frames)
      /\ Top = frames[Len(frames)]
  BY TopFacts DEF IInv
<1>2. /\ DOMAIN frames' = DOMAIN frames /\ Len(frames') = Len(frames)
      /\ frames'[Len(frames)] = f
      /\ \A l \in DOMAIN frames : l # Len(frames) => frames'[l] = frames[l]
  BY Replaced DEF IInv, StaysOnTop
<1>3. \A l \in DOMAIN frames :
        /\ frames'[l].template = frames[l].template
        /\ frames'[l].offset = frames[l].offset
        /\ frames'[l].as = frames[l].as
        /\ l < Len(frames) => frames'[l] = frames[l]
  BY <1>1, <1>2 DEF StaysOnTop
<1>4. \A l \in DOMAIN frames : Region(l)' = Region(l) /\ \A s : SubRegion(l, s)' = SubRegion(l, s)
  BY <1>3 DEF Region, SubRegion
<1>5. Called'
  <2> SUFFICES ASSUME NEW l \in DOMAIN frames, l + 1 \in DOMAIN frames
               PROVE  /\ frames'[l + 1].as \in DOMAIN frames'[l].template.subs \ DOMAIN frames'[l].inlined
                      /\ ~IsGadget(frames'[l].template.subs[frames'[l + 1].as])
                      /\ frames'[l + 1].template = frames'[l].template.subs[frames'[l + 1].as].template
                      /\ frames'[l + 1].offset = frames'[l].offset + frames'[l].template.subs[frames'[l + 1].as].offset
    BY <1>2 DEF Called
  <2>1. l < Len(frames)
    BY <1>1
  <2> QED
    BY <1>3, <2>1 DEF IInv, Called
<1>6. Nested'
  <2> SUFFICES ASSUME NEW l \in DOMAIN frames, NEW m \in DOMAIN frames, l < m
               PROVE  Region(m)' \subseteq SubRegion(l, frames[l + 1].as)'
    BY <1>2 DEF Nested
  <2>1. l + 1 \in DOMAIN frames
    BY <1>1
  <2>2. frames'[l + 1].as = frames[l + 1].as
    BY <1>3, <2>1
  <2>3. SubRegion(l, frames[l + 1].as)' = SubRegion(l, frames[l + 1].as)
    BY <1>3, <2>2 DEF SubRegion
  <2>4. Region(m)' = Region(m)
    BY <1>4
  <2> QED
    BY <2>3, <2>4 DEF IInv, Nested
<1> QED
  BY <1>3, <1>4, <1>5, <1>6

(* The invariant is about the frames and the bindings only.                *)
LEMMA Unmoved == IInv /\ UNCHANGED <<frames, outputs>> => IInv'
<1> SUFFICES ASSUME IInv, frames' = frames, outputs' = outputs PROVE IInv'
  OBVIOUS
<1>1. FramesOK' /\ Called' /\ OwnBound' /\ Agree'
  BY DEF IInv, FramesOK, Called, OwnBound, Agree
<1>2. Nested'
  BY DEF IInv, Nested, Region, SubRegion
<1>3. Untouched'
  BY DEF IInv, Untouched, Waiting, SubRegion
<1> QED
  BY <1>1, <1>2, <1>3 DEF IInv

(* Moving on without binding a signal.                                     *)
LEMMA MovesOn ==
  ASSUME IInv, NEW f, StaysOnTop(f), f.inlined = Top.inlined, ReplaceTop(f), outputs' = outputs
  PROVE  IInv'
<1>1. /\ Len(frames) \in Nat \ {0} /\ DOMAIN frames = 1 .. Len(frames)
      /\ Top = frames[Len(frames)]
  BY TopFacts DEF IInv
<1>2. /\ frames' \in Seq(ToSet(frames')) /\ frames' # <<>>
      /\ DOMAIN frames' = DOMAIN frames
      /\ frames'[Len(frames)] = f
      /\ \A l \in DOMAIN frames' : IsFrame(frames'[l]) /\ Walks(frames'[l])
  BY Replaced DEF IInv, StaysOnTop
<1>3. FramesOK'
  BY <1>2 DEF IInv, FramesOK
<1>4. OwnBound'
  <2> SUFFICES ASSUME NEW l \in DOMAIN frames, NEW x \in OwnSignals(frames[l].template),
                      NEW j \in DOMAIN outputs, outputs[j].signal = frames[l].offset + x
               PROVE  Carries(frames'[l], x, outputs[j].value)
    BY <1>2, SameRegions DEF OwnBound
  <2>1. Carries(frames[l], x, outputs[j].value)
    BY DEF IInv, OwnBound
  <2>2. CASE l < Len(frames)
    BY <2>1, <2>2, SameRegions
  <2>3. CASE l = Len(frames)
    BY <1>1, <1>2, <2>1, <2>3 DEF StaysOnTop
  <2> QED
    BY <1>1, <2>2, <2>3
<1>5. Untouched'
  <2> SUFFICES ASSUME NEW l \in DOMAIN frames, NEW s \in DOMAIN frames[l].template.subs,
                      Waiting(l, s)', NEW j \in DOMAIN outputs
               PROVE  outputs[j].signal \notin SubRegion(l, s)
    BY <1>2, SameRegions DEF Untouched
  <2>1. frames'[l].inlined = frames[l].inlined
    BY <1>1, <1>2, SameRegions
  <2>2. Waiting(l, s)
    BY <1>2, <2>1, SameRegions DEF Waiting
  <2> QED
    BY <2>2 DEF IInv, Untouched
<1> QED
  BY <1>3, <1>4, <1>5, SameRegions DEF IInv, Agree

(* Binding a signal of the top frame's own.                                *)
LEMMA BindsOwn ==
  ASSUME IInv, NEW f, StaysOnTop(f), f.inlined = Top.inlined, ReplaceTop(f),
         NEW x \in OwnSignals(Top.template), NEW v, Carries(f, x, v),
         outputs' = Append(outputs, Binding(x + Top.offset, v))
  PROVE  IInv'
<1> DEFINE new == Len(outputs) + 1
           L   == Len(frames)
<1>1. /\ L \in Nat \ {0} /\ DOMAIN frames = 1 .. L /\ L \in DOMAIN frames
      /\ Top = frames[L] /\ Walks(Top)
  BY TopFacts DEF IInv
<1>2. /\ frames' \in Seq(ToSet(frames')) /\ frames' # <<>>
      /\ DOMAIN frames' = DOMAIN frames
      /\ frames'[L] = f
      /\ \A l \in DOMAIN frames' : IsFrame(frames'[l]) /\ Walks(frames'[l])
  BY Replaced DEF IInv, StaysOnTop
<1>3. /\ outputs' \in Seq(ToSet(outputs'))
      /\ DOMAIN outputs' = DOMAIN outputs \cup {new} /\ new \notin DOMAIN outputs
      /\ \A j \in DOMAIN outputs : outputs'[j] = outputs[j]
      /\ outputs'[new].signal = x + Top.offset /\ outputs'[new].value = v
  BY Bound DEF IInv, Binding
<1>4. Top.template \in AllTemplates /\ Top.offset \in Nat /\ x \in Nat
  BY <1>1, Layout DEF Walks
<1>5. x + Top.offset \in Region(L)
  <2>1. x \in TreeSignals(Top.template) /\ x + Top.offset = Top.offset + x
    BY <1>4, Layout
  <2> QED
    BY <1>1, <2>1 DEF Region
<1> HIDE DEF new, L
<1>6. FramesOK'
  BY <1>2, <1>3 DEF FramesOK
<1>7. OwnBound'
  <2> SUFFICES ASSUME NEW l \in DOMAIN frames, NEW y \in OwnSignals(frames[l].template),
                      NEW j \in DOMAIN outputs', outputs'[j].signal = frames[l].offset + y
               PROVE  Carries(frames'[l], y, outputs'[j].value)
    BY <1>2, SameRegions, SMTT(40) DEF OwnBound
  <2>1. CASE j \in DOMAIN outputs
    <3>1. Carries(frames[l], y, outputs'[j].value)
      BY <1>3, <2>1 DEF IInv, OwnBound
    <3>2. CASE l < L
      BY <3>1, <3>2, SameRegions DEF L
    <3>3. CASE l = L
      BY <1>1, <1>2, <3>1, <3>3 DEF StaysOnTop
    <3> QED
      BY <1>1, <3>2, <3>3
  <2>2. CASE j = new
    <3>1. ~ (l < L)
      BY <1>3, <1>5, <2>2, BelowTop DEF L
    <3>2. l = L
      BY <1>1, <3>1
    <3>3. y \in Nat
      BY <1>1, <1>4, <3>2, Layout
    <3>4. y = x
      BY <1>1, <1>3, <1>4, <2>2, <3>2, <3>3
    <3> QED
      BY <1>2, <1>3, <2>2, <3>2, <3>4
  <2> QED
    BY <1>3, <2>1, <2>2
<1>8. Untouched'
  <2> SUFFICES ASSUME NEW l \in DOMAIN frames, NEW s \in DOMAIN frames[l].template.subs,
                      Waiting(l, s)', NEW j \in DOMAIN outputs'
               PROVE  outputs'[j].signal \notin SubRegion(l, s)
    BY <1>2, SameRegions DEF Untouched
  <2>1. frames'[l].inlined = frames[l].inlined
    BY <1>1, <1>2, SameRegions DEF L
  <2>2. Waiting(l, s)
    BY <1>2, <2>1, SameRegions DEF Waiting
  <2>3. CASE j \in DOMAIN outputs
    BY <1>3, <2>2, <2>3 DEF IInv, Untouched
  <2>4. CASE j = new /\ l < L
    BY <1>3, <1>5, <2>2, <2>4, BelowTop DEF L
  <2>5. CASE j = new /\ l = L
    <3>1. s \in DOMAIN Top.template.subs
      BY <1>1, <2>5
    <3>2. x \notin SubSignals(Top.template.subs[s]) /\ SubSignals(Top.template.subs[s]) \subseteq Nat
      BY <1>4, <3>1, Layout
    <3>3. \A y \in SubSignals(Top.template.subs[s]) : x + Top.offset # Top.offset + y
      BY <1>4, <3>2
    <3> QED
      BY <1>1, <1>3, <2>5, <3>3 DEF SubRegion
  <2> QED
    BY <1>1, <1>3, <2>3, <2>4, <2>5
<1>9. Agree'
  <2>1. ASSUME NEW j \in DOMAIN outputs, outputs[j].signal = x + Top.offset
        PROVE  outputs[j].value = v
    <3>1. outputs[j].signal = frames[L].offset + x /\ x \in OwnSignals(frames[L].template)
      BY <1>1, <1>4, <2>1
    <3>2. Carries(Top, x, outputs[j].value)
      BY <1>1, <3>1 DEF IInv, OwnBound
    <3>3. Carries(f, x, outputs[j].value)
      BY <3>2 DEF StaysOnTop
    <3> QED
      BY <3>3 DEF Carries
  <2> QED
    BY <1>3, <2>1 DEF IInv, Agree
<1> QED
  BY <1>6, <1>7, <1>8, <1>9, SameRegions DEF IInv

(* Binding the signals of a gadget, all of them different.                 *)
LEMMA BindsComponent ==
  ASSUME IInv, NEW f, StaysOnTop(f), ReplaceTop(f),
         NEW s \in DOMAIN Top.template.subs, s \notin DOMAIN Top.inlined,
         DOMAIN f.inlined = {s} \cup DOMAIN Top.inlined,
         outputs' \in Seq(ToSet(outputs')),
         DOMAIN outputs \subseteq DOMAIN outputs',
         \A j \in DOMAIN outputs : outputs'[j] = outputs[j],
         \A j \in DOMAIN outputs' \ DOMAIN outputs :
           outputs'[j].signal \in SubRegion(Len(frames), s),
         \A j, n \in DOMAIN outputs' \ DOMAIN outputs :
           outputs'[j].signal = outputs'[n].signal => j = n
  PROVE  IInv'
<1> DEFINE L == Len(frames)
<1>1. /\ L \in Nat \ {0} /\ DOMAIN frames = 1 .. L /\ L \in DOMAIN frames
      /\ Top = frames[L] /\ Walks(Top)
  BY TopFacts DEF IInv
<1>2. /\ frames' \in Seq(ToSet(frames')) /\ frames' # <<>>
      /\ DOMAIN frames' = DOMAIN frames
      /\ frames'[L] = f
      /\ \A l \in DOMAIN frames' : IsFrame(frames'[l]) /\ Walks(frames'[l])
  BY Replaced DEF IInv, StaysOnTop
<1>3. Top.template \in AllTemplates /\ Top.offset \in Nat
  BY <1>1 DEF Walks
<1>4. SubRegion(L, s) \subseteq Region(L)
  BY <1>1, <1>3, SubInRegion
<1>5. Waiting(L, s)
  BY <1>1 DEF Waiting
<1>6. \A j \in DOMAIN outputs : outputs[j].signal \notin SubRegion(L, s)
  BY <1>1, <1>5 DEF IInv, Untouched
<1> HIDE DEF L
<1>7. FramesOK'
  BY <1>2 DEF FramesOK
<1>8. OwnBound'
  <2> SUFFICES ASSUME NEW l \in DOMAIN frames, NEW y \in OwnSignals(frames[l].template),
                      NEW j \in DOMAIN outputs', outputs'[j].signal = frames[l].offset + y
               PROVE  Carries(frames'[l], y, outputs'[j].value)
    BY <1>2, SameRegions DEF OwnBound
  <2>1. CASE j \in DOMAIN outputs
    <3>1. Carries(frames[l], y, outputs'[j].value)
      BY <2>1 DEF IInv, OwnBound
    <3>2. CASE l < L
      BY <3>1, <3>2, SameRegions DEF L
    <3>3. CASE l = L
      BY <1>1, <1>2, <3>1, <3>3 DEF StaysOnTop
    <3> QED
      BY <1>1, <3>2, <3>3
  <2>2. CASE j \notin DOMAIN outputs
    <3>1. outputs'[j].signal \in SubRegion(L, s)
      BY <2>2 DEF L
    <3>2. ~ (l < L)
      BY <1>4, <3>1, BelowTop DEF L
    <3>3. l = L
      BY <1>1, <3>2
    <3>4. PICK x \in SubSignals(Top.template.subs[s]) : outputs'[j].signal = Top.offset + x
      BY <1>1, <3>1 DEF SubRegion
    <3>5. x \in Nat /\ y \in Nat /\ x # y
      BY <1>1, <1>3, <3>3, Layout
    <3> QED
      BY <1>1, <1>3, <3>3, <3>4, <3>5
  <2> QED
    BY <2>1, <2>2
<1>9. Untouched'
  <2> SUFFICES ASSUME NEW l \in DOMAIN frames, NEW r \in DOMAIN frames[l].template.subs,
                      Waiting(l, r)', NEW j \in DOMAIN outputs'
               PROVE  outputs'[j].signal \notin SubRegion(l, r)
    BY <1>2, SameRegions DEF Untouched
  <2>1. DOMAIN frames[l].inlined \subseteq DOMAIN frames'[l].inlined
    BY <1>1, <1>2, SameRegions DEF L
  <2>2. Waiting(l, r)
    BY <1>2, <2>1, SameRegions DEF Waiting
  <2>3. CASE j \in DOMAIN outputs
    BY <2>2, <2>3 DEF IInv, Untouched
  <2>4. CASE j \notin DOMAIN outputs /\ l < L
    <3>1. outputs'[j].signal \in Region(L)
      BY <1>4, <2>4 DEF L
    <3> QED
      BY <2>2, <2>4, <3>1, BelowTop DEF L
  <2>5. CASE j \notin DOMAIN outputs /\ l = L
    <3>1. r \in DOMAIN Top.template.subs /\ r # s
      BY <1>1, <1>2, <2>5 DEF Waiting
    <3>2. PICK x \in SubSignals(Top.template.subs[s]) : outputs'[j].signal = Top.offset + x
      BY <1>1, <2>5 DEF SubRegion, L
    <3>3. /\ x \notin SubSignals(Top.template.subs[r])
          /\ SubSignals(Top.template.subs[r]) \subseteq Nat /\ x \in Nat
      BY <1>3, <3>1, Layout
    <3>4. \A y \in SubSignals(Top.template.subs[r]) : Top.offset + x # Top.offset + y
      BY <1>3, <3>3
    <3> QED
      BY <1>1, <2>5, <3>2, <3>4 DEF SubRegion
  <2> QED
    BY <1>1, <2>3, <2>4, <2>5
<1>10. Agree'
  <2> SUFFICES ASSUME NEW j \in DOMAIN outputs', NEW n \in DOMAIN outputs',
                      outputs'[j].signal = outputs'[n].signal
               PROVE  outputs'[j].value = outputs'[n].value
    BY DEF Agree
  <2>1. j \in DOMAIN outputs <=> n \in DOMAIN outputs
    BY <1>6 DEF L
  <2> QED
    BY <2>1 DEF IInv, Agree
<1> QED
  BY <1>7, <1>8, <1>9, <1>10, SameRegions DEF IInv

-----------------------------------------------------------------------------
(* The nodes of a template.                                                *)

(* The node being visited is one of the template's.                        *)
LEMMA Visited ==
  ASSUME IInv, NEW ops, Visiting(ops)
  PROVE  /\ Top.template \in AllTemplates /\ Top.nodes = Parse(Top.template)
         /\ Top.at \in DOMAIN Top.nodes /\ Top.at \in Nat \ {0}
         /\ Node0 = Top.nodes[Top.at] /\ Node0.op \in ops
         /\ RefersTo(Top.template, Node0)
<1>1. Walks(Top)
  BY TopFacts DEF IInv
<1>2. Top.template \in AllTemplates /\ Top.nodes = Parse(Top.template) /\ Top.at \in Nat \ {0}
  BY <1>1 DEF Walks
<1>3. Top.at <= Len(Top.nodes) /\ Node0.op \in ops
  BY DEF Visiting, Node0
<1>4. Top.at \in DOMAIN Top.nodes
  BY <1>2, <1>3, ParseFacts
<1> QED
  BY <1>2, <1>3, <1>4, ParseFacts DEF Node0

(* A frame whose node resolved is the same but for its position.           *)
LEMMA ResolvedStays ==
  ASSUME IInv, NEW v, NEW f, f = Resolved(Top, v)
  PROVE  /\ StaysOnTop(f) /\ f.inlined = Top.inlined
         /\ f.writes = Top.writes /\ f.given = Top.given /\ f.stored = Top.stored
         /\ f.template = Top.template /\ f.nodes = Top.nodes /\ f.root = Top.root
         /\ f.at = Top.at + 1
<1>1. IsFrame(Top) /\ Walks(Top)
  BY TopFacts DEF IInv
<1>2. f = [template |-> Top.template, nodes |-> Top.nodes, offset |-> Top.offset,
           root |-> Top.root, given |-> Top.given, as |-> Top.as, at |-> Top.at + 1,
           remap |-> Append(Top.remap, v), writes |-> Top.writes,
           stored |-> Top.stored, inlined |-> Top.inlined]
  BY <1>1 DEF Resolved, IsFrame
<1>3. IsFrame(f)
  BY <1>2 DEF IsFrame
<1>4. Walks(f)
  BY <1>1, <1>2 DEF Walks
<1> QED
  BY <1>2, <1>3, <1>4 DEF StaysOnTop, Carries

LEMMA RealKeeps == IInv /\ VisitReal => IInv'
<1> SUFFICES ASSUME IInv, VisitReal PROVE IInv'
  OBVIOUS
<1> DEFINE f == Resolved(Top, Len(nodes) + 1)
<1>1. ReplaceTop(f) /\ outputs' = outputs
  BY DEF VisitReal
<1>2. StaysOnTop(f) /\ f.inlined = Top.inlined
  BY ResolvedStays
<1> QED
  BY <1>1, <1>2, MovesOn

LEMMA ReadKeeps == IInv /\ ReadLocalSignal => IInv'
<1> SUFFICES ASSUME IInv, ReadLocalSignal PROVE IInv'
  OBVIOUS
<1> DEFINE x == Node0.arg
<1>1. x \in OwnSignals(Top.template)
  <2>1. Visiting({"LocalSignal"})
    BY DEF ReadLocalSignal
  <2> QED
    BY <2>1, Visited DEF RefersTo
<1>2. ASSUME NEW v, ReplaceTop(Resolved(Top, v)), outputs' = outputs
      PROVE  IInv'
  <2> DEFINE f == Resolved(Top, v)
  <2>1. StaysOnTop(f) /\ f.inlined = Top.inlined
    BY ResolvedStays
  <2> QED
    BY <1>2, <2>1, MovesOn
<1>3. ASSUME NEW v, Carries(Top, x, v), ReplaceTop(Resolved(Top, v)),
             outputs' = Append(outputs, Binding(x + Top.offset, v))
      PROVE  IInv'
  <2> DEFINE f == Resolved(Top, v)
  <2>1. StaysOnTop(f) /\ f.inlined = Top.inlined
    BY ResolvedStays
  <2>2. Carries(f, x, v)
    BY <1>1, <1>3, <2>1 DEF StaysOnTop
  <2> HIDE DEF f
  <2>3. ReplaceTop(f)
    BY <1>3 DEF f
  <2> QED
    BY <1>1, <1>3, <2>1, <2>2, <2>3, BindsOwn
<1>4. ASSUME NEW v, ReplaceTop(Resolved(Top, v)), Carries(Top, x, v),
             outputs' = IF IsRoot(Top) THEN outputs
                        ELSE Append(outputs, Binding(x + Top.offset, v))
      PROVE  IInv'
  BY <1>2, <1>3, <1>4
<1>5. CASE x \in DOMAIN Top.writes
  <2>1. Carries(Top, x, Top.writes[x])
    BY <1>5 DEF Carries
  <2> QED
    BY <1>4, <1>5, <2>1 DEF ReadLocalSignal
<1>6. CASE x \notin DOMAIN Top.writes /\ IsRoot(Top)
  <2>1. ReplaceTop(Resolved(Top, Len(nodes) + 1)) /\ outputs' = outputs
    BY <1>6 DEF ReadLocalSignal
  <2> QED
    BY <1>2, <2>1
<1>7. CASE x \notin DOMAIN Top.writes /\ ~IsRoot(Top) /\ x \in DOMAIN Top.given
  <2>1. Carries(Top, x, Top.given[x])
    BY <1>7 DEF Carries
  <2> QED
    BY <1>4, <1>7, <2>1 DEF ReadLocalSignal
<1>8. CASE x \notin DOMAIN Top.writes /\ ~IsRoot(Top) /\ x \notin DOMAIN Top.given
  <2>1. UNCHANGED <<frames, outputs>>
    BY <1>8 DEF ReadLocalSignal, Panic
  <2> QED
    BY <2>1, Unmoved
<1> QED
  BY <1>5, <1>6, <1>7, <1>8

LEMMA WriteKeeps == IInv /\ WriteLocalSignal => IInv'
<1> SUFFICES ASSUME IInv, WriteLocalSignal PROVE IInv'
  OBVIOUS
<1> DEFINE x == Node0.arg
           v == Top.remap[Node0.in[1]]
           e == Consumed(Top)
           f == [e EXCEPT !.writes = Inserted(@, x, v)]
<1>1. /\ ReplaceTop(f)
      /\ outputs' = Append(outputs, Binding(x + Top.offset, v))
  BY DEF WriteLocalSignal
<1>2. Visiting({"LocalSignalWrite"})
  BY DEF WriteLocalSignal
<1>3. /\ Top.template \in AllTemplates /\ Top.nodes = Parse(Top.template)
      /\ Top.at \in DOMAIN Top.nodes /\ Top.at \in Nat \ {0}
      /\ Top.nodes[Top.at].op = "LocalSignalWrite" /\ Top.nodes[Top.at].arg = x
      /\ x \in OwnSignals(Top.template) /\ x \notin Inputs(Top.template)
  BY <1>2, Visited DEF RefersTo
<1>4. /\ StaysOnTop(e) /\ e.inlined = Top.inlined
      /\ e.writes = Top.writes /\ e.given = Top.given /\ e.stored = Top.stored
      /\ e.template = Top.template /\ e.nodes = Top.nodes
      /\ e.at = Top.at + 1
  BY ResolvedStays DEF Consumed
<1> HIDE DEF x, v, e
<1>5. f = [template |-> e.template, nodes |-> e.nodes, offset |-> e.offset,
           root |-> e.root, given |-> e.given, as |-> e.as, at |-> e.at,
           remap |-> e.remap, writes |-> Inserted(e.writes, x, v),
           stored |-> e.stored, inlined |-> e.inlined]
  BY <1>4 DEF StaysOnTop, IsFrame
<1> HIDE DEF f
<1>6. /\ DOMAIN f.writes = {x} \cup DOMAIN Top.writes
      /\ f.writes[x] = v
      /\ \A y \in DOMAIN Top.writes : y # x => f.writes[y] = Top.writes[y]
  BY <1>4, <1>5 DEF Inserted
<1>7. x \notin DOMAIN Top.writes /\ x \notin DOMAIN Top.given
  <2>1. Walks(Top)
    BY TopFacts DEF IInv
  <2>2. x \notin DOMAIN Top.given
    BY <1>3, <2>1 DEF Walks
  <2>3. ASSUME x \in DOMAIN Top.writes PROVE FALSE
    <3>1. PICK n \in 1 .. (Top.at - 1) :
            n \in DOMAIN Top.nodes /\ Top.nodes[n].op = "LocalSignalWrite" /\ Top.nodes[n].arg = x
      BY <2>1, <2>3 DEF Walks
    <3>2. n = Top.at
      BY <1>3, <3>1, ParseFacts
    <3> QED
      BY <1>3, <3>1, <3>2
  <2> QED
    BY <2>2, <2>3
<1>8. IsFrame(f)
  BY <1>5 DEF IsFrame
<1>9. Walks(f)
  <2>1. Walks(e)
    BY <1>4 DEF StaysOnTop
  <2>2. /\ f.template = e.template /\ f.nodes = e.nodes /\ f.offset = e.offset /\ f.at = e.at
        /\ f.given = e.given /\ f.stored = e.stored
    BY <1>5
  <2>3. ASSUME NEW y \in DOMAIN f.writes
        PROVE  \E n \in 1 .. (f.at - 1) :
                 n \in DOMAIN f.nodes /\ f.nodes[n].op = "LocalSignalWrite" /\ f.nodes[n].arg = y
    <3>1. CASE y = x
      <4>1. Top.at \in 1 .. (f.at - 1)
        BY <1>3, <1>4, <2>2
      <4> QED
        BY <1>3, <1>4, <2>2, <3>1, <4>1
    <3>2. CASE y \in DOMAIN e.writes
      BY <2>1, <2>2, <3>2 DEF Walks
    <3> QED
      BY <1>4, <1>6, <3>1, <3>2
  <2> QED
    BY <2>1, <2>2, <2>3 DEF Walks
<1>10. StaysOnTop(f) /\ f.inlined = Top.inlined
  <2>1. /\ f.template = Top.template /\ f.offset = Top.offset /\ f.as = Top.as
        /\ f.given = Top.given /\ f.inlined = Top.inlined
    BY <1>4, <1>5 DEF StaysOnTop
  <2>2. ASSUME NEW y, NEW value, Carries(Top, y, value)
        PROVE  Carries(f, y, value)
    <3>1. y # x
      BY <1>7, <2>2 DEF Carries
    <3> QED
      BY <1>6, <2>1, <2>2, <3>1 DEF Carries
  <2> QED
    BY <1>8, <1>9, <2>1, <2>2 DEF StaysOnTop
<1>11. Carries(f, x, v)
  BY <1>6 DEF Carries
<1> QED
  BY <1>1, <1>3, <1>10, <1>11, BindsOwn DEF f

LEMMA StoreKeeps == IInv /\ StoreSubCmpInput => IInv'
<1> SUFFICES ASSUME IInv, StoreSubCmpInput PROVE IInv'
  OBVIOUS
<1> DEFINE x == Node0.arg
           s == Node0.sub
           v == Top.remap[Node0.in[1]]
           e == Consumed(Top)
           f == [e EXCEPT !.stored[s] = Inserted(@, x, v)]
<1>1. ReplaceTop(f) /\ outputs' = outputs /\ Visiting({"SubCmpInput"})
  BY DEF StoreSubCmpInput
<1>2. s \in DOMAIN Top.template.subs /\ x \in Inputs(Top.template.subs[s])
  BY <1>1, Visited DEF RefersTo
<1>3. /\ StaysOnTop(e) /\ e.inlined = Top.inlined
      /\ e.writes = Top.writes /\ e.given = Top.given /\ e.stored = Top.stored
      /\ e.template = Top.template
  BY ResolvedStays DEF Consumed
<1> HIDE DEF x, v, e, s
<1>4. f = [template |-> e.template, nodes |-> e.nodes, offset |-> e.offset,
           root |-> e.root, given |-> e.given, as |-> e.as, at |-> e.at,
           remap |-> e.remap, writes |-> e.writes,
           stored |-> [e.stored EXCEPT ![s] = Inserted(@, x, v)], inlined |-> e.inlined]
  BY <1>3 DEF StaysOnTop, IsFrame
<1> HIDE DEF f
<1>5. IsFrame(f)
  BY <1>4 DEF IsFrame
<1>6. Walks(f)
  <2>1. Walks(e)
    BY <1>3 DEF StaysOnTop
  <2>2. DOMAIN f.stored = DOMAIN e.stored
    BY <1>4
  <2>3. ASSUME NEW r \in DOMAIN f.stored
        PROVE  DOMAIN f.stored[r] \subseteq Inputs(e.template.subs[r])
    <3>1. DOMAIN e.stored[r] \subseteq Inputs(e.template.subs[r])
      BY <2>1, <2>2 DEF Walks
    <3>2. CASE r # s
      BY <1>4, <2>2, <3>1, <3>2
    <3>3. CASE r = s
      <4>1. f.stored[r] = Inserted(e.stored[r], x, v)
        BY <1>4, <2>2, <3>3
      <4>2. DOMAIN f.stored[r] = {x} \cup DOMAIN e.stored[r]
        BY <4>1 DEF Inserted
      <4> QED
        BY <1>2, <1>3, <3>1, <3>3, <4>2
    <3> QED
      BY <3>2, <3>3
  <2> QED
    BY <1>4, <2>1, <2>2, <2>3 DEF Walks
<1>7. StaysOnTop(f) /\ f.inlined = Top.inlined
  BY <1>3, <1>4, <1>5, <1>6 DEF StaysOnTop, Carries
<1> QED
  BY <1>1, <1>7, MovesOn DEF f

-----------------------------------------------------------------------------
(* Components.                                                             *)

(* The bindings a gadget adds: its inputs, then its results.               *)
LEMMA TwoLists ==
  ASSUME FramesOK, NEW A, NEW a \in Seq(A), NEW b \in Seq(A), outputs' = outputs \o a \o b
  PROVE  /\ outputs' \in Seq(ToSet(outputs'))
         /\ Len(outputs) \in Nat
         /\ DOMAIN outputs = 1 .. Len(outputs)
         /\ DOMAIN outputs' = 1 .. (Len(outputs) + Len(a) + Len(b))
         /\ \A j \in DOMAIN outputs : outputs'[j] = outputs[j]
         /\ \A k \in 1 .. Len(a) : outputs'[Len(outputs) + k] = a[k]
         /\ \A k \in 1 .. Len(b) : outputs'[Len(outputs) + Len(a) + k] = b[k]
<1> DEFINE S == ToSet(outputs) \cup A
           c == outputs \o a
           m == Len(a)
           n == Len(b)
<1>1. outputs \in Seq(S)
  <2>1. outputs \in Seq(ToSet(outputs))
    BY DEF FramesOK
  <2> QED
    BY <2>1, SeqMonotonic
<1>2. a \in Seq(S) /\ Len(a) = m /\ m \in Nat
  BY SeqMonotonic, LenProperties
<1>3. b \in Seq(S) /\ Len(b) = n /\ n \in Nat
  BY SeqMonotonic, LenProperties
<1> HIDE DEF S, m, n
<1>4. Len(outputs) \in Nat /\ DOMAIN outputs = 1 .. Len(outputs)
  BY <1>1, LenProperties
<1>5. /\ c \in Seq(S) /\ Len(c) = Len(outputs) + m
      /\ \A j \in 1 .. (Len(outputs) + m) :
           c[j] = IF j <= Len(outputs) THEN outputs[j] ELSE a[j - Len(outputs)]
  BY <1>1, <1>2, ConcatProperties
<1>6. outputs' = c \o b
  OBVIOUS
<1> HIDE DEF c
<1>7. /\ outputs' \in Seq(S) /\ Len(outputs') = Len(outputs) + m + n
      /\ \A j \in 1 .. (Len(outputs) + m + n) :
           outputs'[j] = IF j <= Len(outputs) + m THEN c[j] ELSE b[j - (Len(outputs) + m)]
  <2>1. /\ c \o b \in Seq(S)
        /\ Len(c \o b) = Len(c) + Len(b)
        /\ \A j \in 1 .. (Len(c) + Len(b)) :
             (c \o b)[j] = IF j <= Len(c) THEN c[j] ELSE b[j - Len(c)]
    BY <1>3, <1>5, ConcatProperties
  <2>2. Len(c) = Len(outputs) + m /\ Len(b) = n
    BY <1>3, <1>5
  <2> QED
    BY <1>6, <2>1, <2>2
<1>8. DOMAIN outputs' = 1 .. (Len(outputs) + m + n)
  BY <1>7, LenProperties
<1>9. outputs' \in Seq(ToSet(outputs'))
  <2>1. Len(outputs') \in Nat
    BY <1>2, <1>3, <1>4, <1>7
  <2>2. outputs' \in [1 .. Len(outputs') -> ToSet(outputs')]
    BY <1>7, LenProperties DEF ToSet
  <2> QED
    BY <2>1, <2>2, ListOf
<1>10. \A j \in 1 .. Len(outputs) : outputs'[j] = outputs[j]
  BY <1>2, <1>3, <1>4, <1>5, <1>7
<1>11. \A k \in 1 .. m : outputs'[Len(outputs) + k] = a[k]
  <2> TAKE k \in 1 .. m
  <2>1. /\ Len(outputs) + k \in 1 .. (Len(outputs) + m)
        /\ Len(outputs) + k \in 1 .. (Len(outputs) + m + n)
        /\ ~ (Len(outputs) + k <= Len(outputs))
        /\ Len(outputs) + k <= Len(outputs) + m
        /\ Len(outputs) + k - Len(outputs) = k
    BY <1>2, <1>3, <1>4
  <2> QED
    BY <1>5, <1>7, <2>1
<1>12. \A k \in 1 .. n : outputs'[Len(outputs) + m + k] = b[k]
  <2> TAKE k \in 1 .. n
  <2> DEFINE j == Len(outputs) + m + k
  <2>1. /\ j \in 1 .. (Len(outputs) + m + n)
        /\ ~ (j <= Len(outputs) + m)
        /\ j - (Len(outputs) + m) = k
    BY <1>2, <1>3, <1>4
  <2> HIDE DEF j
  <2>2. outputs'[j] = b[j - (Len(outputs) + m)]
    BY <1>7, <2>1
  <2>3. outputs'[j] = b[k]
    BY <2>1, <2>2
  <2> QED
    BY <2>3 DEF j
<1> QED
  BY <1>2, <1>3, <1>4, <1>8, <1>9, <1>10, <1>11, <1>12

LEMMA GadgetKeeps ==
  ASSUME IInv, NEW s \in DOMAIN Top.template.subs, s \notin DOMAIN Top.inlined,
         IsGadget(Top.template.subs[s]), InlineGadget(s)
  PROVE  IInv'
<1> DEFINE sub     == Top.template.subs[s]
           offset  == OffsetOf(s)
           results == sub.outs + sub.inters
           port(k) == InputSignal(sub, k - 1)
           given   == Top.stored[s]
           ports   == [k \in 1 .. sub.ins |-> port(k)]
           a       == [k \in 1 .. sub.ins |-> Binding(offset + ports[k], given[ports[k]])]
           b       == [n \in 1 .. results |->
                         Binding(offset + ResultSignal(sub, n - 1), Len(nodes) + 2 + (n - 1))]
           made    == [slot \in 0 .. (sub.outs - 1) |-> Len(nodes) + 2 + slot]
           f       == [Top EXCEPT !.inlined = Inserted(@, s, made)]
           new     == DOMAIN outputs' \ DOMAIN outputs
<1>1. \/ UNCHANGED <<frames, outputs>>
      \/ ReplaceTop(f) /\ outputs' = outputs \o a \o b
  BY DEF InlineGadget, Panic
<1>2. CASE UNCHANGED <<frames, outputs>>
  BY <1>2, Unmoved
<1>3. CASE ReplaceTop(f) /\ outputs' = outputs \o a \o b
  <2>1. /\ IsFrame(Top) /\ Walks(Top)
        /\ Top = frames[Len(frames)]
    BY TopFacts DEF IInv
  <2>2. /\ sub.outs \in Nat /\ sub.ins \in Nat /\ sub.inters \in Nat /\ sub.offset \in Nat
        /\ Top.offset \in Nat
    <3>1. Top.template \in AllTemplates /\ Top.offset \in Nat
      BY <2>1 DEF Walks
    <3> QED
      BY <3>1, MainsAssumption DEF WellTypedTemplate
  <2>3. f = [template |-> Top.template, nodes |-> Top.nodes, offset |-> Top.offset,
             root |-> Top.root, given |-> Top.given, as |-> Top.as, at |-> Top.at,
             remap |-> Top.remap, writes |-> Top.writes, stored |-> Top.stored,
             inlined |-> Inserted(Top.inlined, s, made)]
    BY <2>1 DEF IsFrame
  <2> HIDE DEF f, made
  <2>4. IsFrame(f) /\ Walks(f)
    BY <2>1, <2>3 DEF IsFrame, Walks
  <2>5. StaysOnTop(f) /\ DOMAIN f.inlined = {s} \cup DOMAIN Top.inlined
    BY <2>3, <2>4 DEF StaysOnTop, Carries, Inserted
  <2>6. /\ \A k \in 1 .. sub.ins : a[k].signal = offset + (sub.outs + (k - 1))
        /\ \A n \in 1 .. results :
             b[n].signal = offset + (IF n - 1 < sub.outs THEN n - 1 ELSE n - 1 + sub.ins)
    BY DEF Binding, InputSignal, ResultSignal
  <2> DEFINE A == ToSet(a) \cup ToSet(b)
  <2>7. a \in [1 .. sub.ins -> A] /\ b \in [1 .. results -> A]
    BY DEF ToSet
  <2>8. offset = Top.offset + sub.offset
    BY DEF OffsetOf
  <2>9. SubRegion(Len(frames), s) =
          {Top.offset + y : y \in {sub.offset + x : x \in 0 .. (sub.outs + sub.ins + sub.inters - 1)}}
    BY <2>1 DEF SubRegion, SubSignals
  <2> DEFINE Lo == Len(outputs)
  <2> HIDE DEF sub, offset, a, b, results, A
  <2>10. results = sub.outs + sub.inters /\ results \in Nat
    BY <2>2 DEF results
  <2>11. /\ outputs' \in Seq(ToSet(outputs'))
         /\ Lo \in Nat
         /\ DOMAIN outputs = 1 .. Lo
         /\ DOMAIN outputs' = 1 .. (Lo + sub.ins + results)
         /\ \A j \in DOMAIN outputs : outputs'[j] = outputs[j]
         /\ \A k \in 1 .. sub.ins : outputs'[Lo + k] = a[k]
         /\ \A k \in 1 .. results : outputs'[Lo + sub.ins + k] = b[k]
    <3>1. FramesOK /\ outputs' = outputs \o a \o b /\ sub.ins \in Nat
      BY <1>3, <2>2 DEF IInv
    <3>2. a \in Seq(A) /\ Len(a) = sub.ins
      BY <2>7, <3>1, ListOf
    <3>3. b \in Seq(A) /\ Len(b) = results
      BY <2>7, <2>10, ListOf
    <3>4. /\ outputs' \in Seq(ToSet(outputs'))
          /\ Len(outputs) \in Nat
          /\ DOMAIN outputs = 1 .. Len(outputs)
          /\ DOMAIN outputs' = 1 .. (Len(outputs) + Len(a) + Len(b))
          /\ \A j \in DOMAIN outputs : outputs'[j] = outputs[j]
          /\ \A k \in 1 .. Len(a) : outputs'[Len(outputs) + k] = a[k]
          /\ \A k \in 1 .. Len(b) : outputs'[Len(outputs) + Len(a) + k] = b[k]
      BY <3>1, <3>2, <3>3, TwoLists, ZenonT(60)
    <3> QED
      BY <3>2, <3>3, <3>4
  <2> HIDE DEF Lo
  <2> DEFINE at(p) == IF p <= sub.ins THEN sub.outs + (p - 1)
                      ELSE IF p - sub.ins - 1 < sub.outs THEN p - sub.ins - 1 ELSE p - 1
             place(j) == at(j - Lo)
  <2>12. ASSUME NEW j \in new
         PROVE  /\ outputs'[j].signal = offset + place(j)
                /\ place(j) \in 0 .. (sub.outs + sub.ins + sub.inters - 1)
                /\ j \in Nat
    <3>1. j \in Nat /\ Lo < j /\ j <= Lo + sub.ins + results
      BY <2>2, <2>10, <2>11
    <3>2. CASE j <= Lo + sub.ins
      <4>1. j - Lo \in 1 .. sub.ins /\ Lo + (j - Lo) = j
        BY <2>2, <2>11, <3>1, <3>2
      <4>2. outputs'[j] = a[j - Lo]
        BY <2>11, <4>1
      <4>3. outputs'[j].signal = offset + (sub.outs + ((j - Lo) - 1))
        BY <2>6, <4>1, <4>2
      <4> DEFINE p == j - Lo
      <4>4. place(j) = sub.outs + (p - 1)
        BY <4>1
      <4> HIDE DEF place, p
      <4> QED
        BY <2>2, <3>1, <4>1, <4>3, <4>4 DEF p
    <3>3. CASE ~ (j <= Lo + sub.ins)
      <4> DEFINE n == j - Lo - sub.ins
      <4>1. n \in 1 .. results /\ Lo + sub.ins + n = j
        BY <2>2, <2>10, <2>11, <3>1, <3>3, SMTT(40)
      <4>2. outputs'[j] = b[n]
        BY <2>11, <4>1
      <4>3. outputs'[j].signal = offset + (IF n - 1 < sub.outs THEN n - 1 ELSE n - 1 + sub.ins)
        BY <2>6, <4>1, <4>2
      <4> DEFINE p == j - Lo
      <4>4. /\ p \in Int /\ n \in Int /\ n = p - sub.ins
            /\ ~ (p <= sub.ins) /\ p - sub.ins - 1 = n - 1 /\ p - 1 = n - 1 + sub.ins
        BY <2>2, <2>11, <3>1, <3>3
      <4>5. place(j) = IF n - 1 < sub.outs THEN n - 1 ELSE n - 1 + sub.ins
        <5>1. place(j) = at(p)
          OBVIOUS
        <5> HIDE DEF p, n
        <5> QED
          BY <4>4, <5>1
      <4>6. place(j) \in 0 .. (sub.outs + sub.ins + sub.inters - 1)
        BY <2>2, <2>10, <4>1, <4>5
      <4> QED
        BY <3>1, <4>3, <4>5, <4>6
    <3> QED
      BY <3>2, <3>3
  <2>13. ASSUME NEW j \in new
         PROVE  outputs'[j].signal \in SubRegion(Len(frames), s)
    <3>1. offset + place(j) = Top.offset + (sub.offset + place(j))
      BY <2>2, <2>8, <2>12
    <3> HIDE DEF place
    <3> QED
      BY <2>9, <2>12, <3>1
  <2>14. ASSUME NEW j \in new, NEW n \in new, outputs'[j].signal = outputs'[n].signal
         PROVE  j = n
    <3>1. place(j) = place(n)
      <4>1. /\ place(j) \in 0 .. (sub.outs + sub.ins + sub.inters - 1)
            /\ place(n) \in 0 .. (sub.outs + sub.ins + sub.inters - 1)
            /\ offset + place(j) = offset + place(n)
        BY <2>12, <2>14
      <4>2. offset \in Nat
        BY <2>2, <2>8
      <4> HIDE DEF place
      <4> QED
        BY <2>2, <4>1, <4>2
    <3>2. /\ j \in Nat /\ Lo < j /\ j <= Lo + sub.ins + results
          /\ n \in Nat /\ Lo < n /\ n <= Lo + sub.ins + results
      BY <2>2, <2>10, <2>11
    <3> DEFINE p == j - Lo
               q == n - Lo
    <3>3. /\ p \in Nat \ {0} /\ q \in Nat \ {0}
          /\ j = p + Lo /\ n = q + Lo
      BY <2>11, <3>2
    <3>4. at(p) = at(q)
      BY <3>1
    <3> HIDE DEF p, q, place
    <3>5. p = q
      BY <2>2, <3>3, <3>4
    <3> QED
      BY <3>3, <3>5
  <2>15. ReplaceTop(f) /\ DOMAIN outputs \subseteq DOMAIN outputs'
    BY <1>3, <2>2, <2>10, <2>11, SMTT(40)
  <2> QED
    BY <2>5, <2>11, <2>13, <2>14, <2>15, BindsComponent
<1> QED
  BY <1>1, <1>2, <1>3

(* The frame of a component starts with the signals its creator lends it.  *)
LEMMA CallKeeps ==
  ASSUME IInv, NEW s \in DOMAIN Top.template.subs, s \notin DOMAIN Top.inlined,
         ~IsGadget(Top.template.subs[s]),
         frames' = Append(frames, Frame(Top.template.subs[s].template, OffsetOf(s), FALSE,
                                        Top.stored[s], s)),
         outputs' = outputs
  PROVE  IInv'
<1> DEFINE sub == Top.template.subs[s]
           u   == sub.template
           f   == Frame(u, OffsetOf(s), FALSE, Top.stored[s], s)
<1>0. PICK L : L = Len(frames)
  OBVIOUS
<1>1. /\ L \in Nat \ {0} /\ DOMAIN frames = 1 .. L /\ L \in DOMAIN frames
      /\ Top = frames[L] /\ IsFrame(Top) /\ Walks(Top)
  BY <1>0, TopFacts DEF IInv
<1>2. Top.template \in AllTemplates /\ Top.offset \in Nat
  BY <1>1 DEF Walks
<1>3. sub.offset \in Nat /\ u \in AllTemplates
  BY <1>2, Layout, Instance
<1>4. /\ f.template = u /\ f.nodes = Parse(u) /\ f.offset = Top.offset + sub.offset
      /\ f.given = Top.stored[s] /\ f.as = s /\ f.at = 1 /\ f.writes = Empty
      /\ f.stored = [r \in DOMAIN u.subs |-> Empty] /\ f.inlined = Empty
      /\ IsFrame(f)
  BY DEF Frame, OffsetOf, IsFrame
<1>5. DOMAIN Empty = {}
  BY DEF Empty
<1>6. DOMAIN Top.stored[s] \subseteq Inputs(u)
  <2>1. DOMAIN Top.stored[s] \subseteq Inputs(sub)
    BY <1>1 DEF Walks
  <2> QED
    BY <1>2, <2>1, Instance
<1> HIDE DEF f
<1>7. Walks(f)
  <2>1. DOMAIN f.stored = DOMAIN f.template.subs /\ \A r \in DOMAIN f.stored : DOMAIN f.stored[r] = {}
    BY <1>4, <1>5
  <2>2. f.offset \in Nat /\ f.at \in Nat \ {0}
    BY <1>2, <1>3, <1>4
  <2>3. DOMAIN f.given \subseteq Inputs(f.template)
    BY <1>4, <1>6, Zenon
  <2>4. \A x \in DOMAIN f.writes : FALSE
    BY <1>4, <1>5
  <2>5. f.template \in AllTemplates /\ f.nodes = Parse(f.template)
    BY <1>3, <1>4
  <2> QED
    BY <2>1, <2>2, <2>3, <2>4, <2>5, Zenon DEF Walks
<1>8. /\ frames' \in Seq(ToSet(frames'))
      /\ DOMAIN frames' = 1 .. (L + 1)
      /\ \A l \in 1 .. L : frames'[l] = frames[l]
      /\ frames'[L + 1] = f
  <2>1. frames \in Seq(ToSet(frames)) /\ frames' = Append(frames, f)
    BY DEF IInv, FramesOK, f
  <2>2. /\ Append(frames, f) \in Seq(ToSet(Append(frames, f)))
        /\ DOMAIN Append(frames, f) = 1 .. (Len(frames) + 1)
        /\ \A l \in 1 .. Len(frames) : Append(frames, f)[l] = frames[l]
        /\ Append(frames, f)[Len(frames) + 1] = f
    BY <2>1, Grown
  <2> QED
    BY <1>0, <2>1, <2>2
<1>9. /\ \A l \in 1 .. L : Region(l)' = Region(l)
      /\ \A l \in 1 .. L : \A r : SubRegion(l, r)' = SubRegion(l, r)
  BY <1>8 DEF Region, SubRegion
<1>10. Region(L + 1)' = SubRegion(L, s)
  <2>1. Region(L + 1)' = {Top.offset + sub.offset + x : x \in TreeSignals(u)}
    <3>1. frames'[L + 1].offset = Top.offset + sub.offset /\ frames'[L + 1].template = u
      BY <1>4, <1>8
    <3> HIDE DEF sub, u
    <3> QED
      BY <3>1 DEF Region
  <2>2. SubRegion(L, s) = {Top.offset + y : y \in {sub.offset + x : x \in TreeSignals(u)}}
    BY <1>1, <1>2, Instance DEF SubRegion
  <2>3. TreeSignals(u) \subseteq Nat
    BY <1>3, Layout
  <2>4. \A x \in TreeSignals(u) : Top.offset + sub.offset + x = Top.offset + (sub.offset + x)
    BY <1>2, <1>3, <2>3
  <2> HIDE DEF sub, u
  <2> QED
    BY <2>1, <2>2, <2>4
<1>11. Waiting(L, s)
  BY <1>1 DEF Waiting
<1>12. \A j \in DOMAIN outputs : outputs[j].signal \notin SubRegion(L, s)
  BY <1>1, <1>11 DEF IInv, Untouched
<1> HIDE DEF sub, u
<1>13. L \in Nat \ {0} /\ DOMAIN frames = 1 .. L
  BY <1>1
<1>14. \A l \in 1 .. (L + 1) : l \in 1 .. L \/ l = L + 1
  BY <1>13
<1>15. \A l \in 1 .. L : l \in 1 .. (L + 1) /\ l + 1 \in 1 .. (L + 1)
  BY <1>13
<1>16. FramesOK'
  <2>1. frames' # <<>>
    <3>1. 1 \in DOMAIN frames'
      BY <1>8, <1>13
    <3>2. Len(frames') # 0
      <4>1. DOMAIN frames' = 1 .. Len(frames')
        BY <1>8, LenProperties
      <4> QED
        BY <3>1, <4>1
    <3> QED
      BY <1>8, <3>2, EmptySeq
  <2>2. ASSUME NEW l \in DOMAIN frames' PROVE IsFrame(frames'[l]) /\ Walks(frames'[l])
    <3>1. CASE l \in 1 .. L
      BY <1>8, <1>13, <3>1 DEF IInv, FramesOK
    <3>2. CASE l = L + 1
      BY <1>4, <1>7, <1>8, <3>2
    <3> QED
      BY <1>8, <1>14, <3>1, <3>2
  <2> QED
    BY <1>8, <2>1, <2>2 DEF IInv, FramesOK
<1>17. Called'
  <2> SUFFICES ASSUME NEW l \in DOMAIN frames', l + 1 \in DOMAIN frames'
               PROVE  /\ frames'[l + 1].as \in DOMAIN frames'[l].template.subs \ DOMAIN frames'[l].inlined
                      /\ ~IsGadget(frames'[l].template.subs[frames'[l + 1].as])
                      /\ frames'[l + 1].template = frames'[l].template.subs[frames'[l + 1].as].template
                      /\ frames'[l + 1].offset = frames'[l].offset + frames'[l].template.subs[frames'[l + 1].as].offset
    BY DEF Called
  <2>1. l \in 1 .. L
    BY <1>8, <1>13
  <2>2. CASE l = L
    BY <1>1, <1>4, <1>8, <2>1, <2>2, ZenonT(60) DEF sub, u
  <2>3. CASE l # L
    <3>1. l + 1 \in 1 .. L
      BY <1>13, <2>1, <2>3
    <3> QED
      BY <1>13, <1>8, <2>1, <3>1 DEF IInv, Called
  <2> QED
    BY <2>2, <2>3
<1>18. Nested'
  <2> SUFFICES ASSUME NEW l \in DOMAIN frames', NEW m \in DOMAIN frames', l < m
               PROVE  Region(m)' \subseteq SubRegion(l, frames[l + 1].as)'
    BY DEF Nested
  <2>1. l \in 1 .. L /\ m \in 1 .. (L + 1)
    BY <1>8, <1>13
  <2>2. CASE l = L
    <3>1. m = L + 1
      BY <1>13, <2>1, <2>2
    <3>2. frames'[l + 1].as = s
      BY <1>4, <1>8, <2>2
    <3> QED
      BY <1>9, <1>10, <2>1, <2>2, <3>1, <3>2
  <2>3. CASE l # L
    <3>1. l + 1 \in 1 .. L /\ l < L
      BY <1>13, <2>1, <2>3
    <3>2. frames'[l + 1].as = frames[l + 1].as
      BY <1>8, <3>1
    <3>3. SubRegion(l, frames[l + 1].as)' = SubRegion(l, frames[l + 1].as)
      BY <1>8, <2>1, <3>2 DEF SubRegion
    <3>4. CASE m \in 1 .. L
      <4>1. Region(m) \subseteq SubRegion(l, frames[l + 1].as)
        BY <1>13, <2>1, <3>4 DEF IInv, Nested
      <4> QED
        BY <1>9, <3>3, <3>4, <4>1
    <3>5. CASE m = L + 1
      <4>1. SubRegion(L, s) \subseteq Region(L)
        BY <1>1, <1>2, SubInRegion
      <4>2. Region(L) \subseteq SubRegion(l, frames[l + 1].as)
        BY <1>1, <2>1, <3>1 DEF IInv, Nested
      <4> QED
        BY <1>10, <3>3, <3>5, <4>1, <4>2
    <3> QED
      BY <1>14, <2>1, <3>4, <3>5
  <2> QED
    BY <2>2, <2>3
<1>19. OwnBound'
  <2> SUFFICES ASSUME NEW l \in DOMAIN frames', NEW x \in OwnSignals(frames'[l].template),
                      NEW j \in DOMAIN outputs, outputs[j].signal = frames'[l].offset + x
               PROVE  Carries(frames'[l], x, outputs[j].value)
    BY DEF OwnBound
  <2>1. CASE l \in 1 .. L
    BY <1>13, <1>8, <2>1 DEF IInv, OwnBound
  <2>2. CASE l = L + 1
    <3>1. x \in TreeSignals(u)
      BY <1>3, <1>4, <1>8, <2>2, Layout
    <3>2. outputs[j].signal \in Region(L + 1)'
      BY <1>4, <1>8, <2>2, <3>1 DEF Region
    <3> QED
      BY <1>10, <1>12, <3>2
  <2> QED
    BY <1>8, <1>14, <2>1, <2>2
<1>20. Untouched'
  <2> SUFFICES ASSUME NEW l \in DOMAIN frames', NEW r \in DOMAIN frames'[l].template.subs,
                      Waiting(l, r)', NEW j \in DOMAIN outputs
               PROVE  outputs[j].signal \notin SubRegion(l, r)'
    BY DEF Untouched
  <2>1. CASE l \in 1 .. L
    <3>1. frames'[l] = frames[l]
      BY <1>8, <2>1
    <3>2. r \in DOMAIN frames[l].template.subs \ DOMAIN frames[l].inlined
      BY <3>1 DEF Waiting
    <3>3. ASSUME l + 1 \in 1 .. L PROVE frames[l + 1].as # r
      <4>1. l + 1 \in DOMAIN frames'
        BY <1>8, <1>15, <2>1
      <4>2. frames'[l + 1].as # r
        BY <4>1 DEF Waiting
      <4> QED
        BY <1>8, <3>3, <4>2
    <3>4. Waiting(l, r)
      BY <1>13, <3>2, <3>3 DEF Waiting
    <3>5. outputs[j].signal \notin SubRegion(l, r)
      BY <1>13, <2>1, <3>2, <3>4 DEF IInv, Untouched
    <3> QED
      BY <1>9, <2>1, <3>5
  <2>2. CASE l = L + 1
    <3>1. SubSignals(u.subs[r]) \subseteq TreeSignals(u)
      BY <1>3, <1>4, <1>8, <2>2, Layout
    <3>2. SubRegion(L + 1, r)' \subseteq Region(L + 1)'
      BY <1>4, <1>8, <3>1 DEF SubRegion, Region
    <3> QED
      BY <1>10, <1>12, <2>2, <3>2
  <2> QED
    BY <1>8, <1>14, <2>1, <2>2
<1> QED
  BY <1>16, <1>17, <1>18, <1>19, <1>20 DEF IInv, Agree

(* The creator's frame after a component of it returned.                   *)
Resumes(g, creator, as, ports) ==
  /\ IsFrame(g) /\ Walks(g)
  /\ g.template = creator.template /\ g.offset = creator.offset /\ g.as = creator.as
  /\ g.writes = creator.writes /\ g.given = creator.given
  /\ g.nodes = creator.nodes /\ g.at = creator.at /\ g.root = creator.root
  /\ g.stored = creator.stored
  /\ g.inlined = Inserted(creator.inlined, as, ports)
  /\ DOMAIN g.inlined = {as} \cup DOMAIN creator.inlined

(* A frame that returns gives its signals back, bound or not: its creator  *)
(* has that component behind it.                                           *)
(* The frame returned from is gone, and its creator has its ports.         *)
LEMMA Popped ==
  ASSUME IInv, Return, NEW L, L = Len(frames), L # 1
  PROVE  /\ outputs' = outputs
         /\ frames' \in Seq(ToSet(frames'))
         /\ DOMAIN frames' = 1 .. (L - 1)
         /\ \A l \in 1 .. (L - 2) : frames'[l] = frames[l]
         /\ \E g, creator :
              /\ g = frames'[L - 1] /\ creator = frames[L - 1]
              /\ Resumes(g, creator, Top.as, Top.writes)
<1> DEFINE creator == frames[L - 1]
           g == [creator EXCEPT !.inlined = Inserted(@, Top.as, Top.writes)]
           below == Front(Front(frames))
<1>1. outputs' = outputs /\ frames' = Append(below, g)
  BY DEF Return
<1>2. /\ L \in Nat \ {0} /\ DOMAIN frames = 1 .. L
      /\ Top = frames[L]
  BY TopFacts DEF IInv
<1>3. L - 1 \in 1 .. L /\ L - 1 + 1 = L /\ L - 2 \in Nat /\ L \in 1 .. L
  BY <1>2
<1>4. IsFrame(creator) /\ Walks(creator)
  BY <1>2, <1>3 DEF IInv, FramesOK
<1>5. g = [template |-> creator.template, nodes |-> creator.nodes, offset |-> creator.offset,
           root |-> creator.root, given |-> creator.given, as |-> creator.as,
           at |-> creator.at, remap |-> creator.remap, writes |-> creator.writes,
           stored |-> creator.stored,
           inlined |-> Inserted(creator.inlined, Top.as, Top.writes)]
  BY <1>4 DEF IsFrame
<1> HIDE DEF g, creator
<1>6. /\ IsFrame(g) /\ Walks(g)
      /\ g.template = creator.template /\ g.offset = creator.offset /\ g.as = creator.as
      /\ g.writes = creator.writes /\ g.given = creator.given
      /\ g.nodes = creator.nodes /\ g.at = creator.at /\ g.root = creator.root
      /\ g.stored = creator.stored
      /\ g.inlined = Inserted(creator.inlined, Top.as, Top.writes)
      /\ DOMAIN g.inlined = {Top.as} \cup DOMAIN creator.inlined
  BY <1>4, <1>5 DEF IsFrame, Walks, Inserted
<1>7. below \in Seq(ToSet(frames)) /\ Len(below) = L - 2
      /\ \A l \in 1 .. (L - 2) : below[l] = frames[l]
  <2>1. frames \in Seq(ToSet(frames))
    BY DEF IInv, FramesOK
  <2> DEFINE S == ToSet(frames)
             once == SubSeq(frames, 1, L - 1)
  <2>2. Front(frames) = once
    BY DEF Front
  <2>3. \A l \in 1 .. L : frames[l] \in S
    BY <1>2 DEF ToSet
  <2> HIDE DEF S
  <2>4. /\ once \in Seq(S) /\ Len(once) = L - 1
        /\ \A l \in 1 .. (L - 1) : once[l] = frames[l]
    <3>1. \A l \in 1 .. (L - 1) : frames[l] \in S
      BY <1>2, <2>3
    <3>2. 1 <= L - 1 /\ L - 1 \in Int /\ (L - 1) - 1 + 1 = L - 1
      BY <1>3
    <3>3. /\ once \in Seq(S) /\ Len(once) = IF 1 <= L - 1 THEN (L - 1) - 1 + 1 ELSE 0
          /\ \A l \in 1 .. ((L - 1) - 1 + 1) : once[l] = frames[1 + l - 1]
      BY <3>1, <3>2, SubSeqProperties
    <3> QED
      BY <3>2, <3>3
  <2> HIDE DEF once
  <2> DEFINE twice == SubSeq(once, 1, L - 2)
  <2>5. below = twice
    <3>1. below = SubSeq(once, 1, Len(once) - 1)
      BY <2>2 DEF Front
    <3>2. Len(once) - 1 = L - 2
      BY <1>3, <2>4
    <3> QED
      BY <3>1, <3>2
  <2>6. /\ twice \in Seq(S) /\ Len(twice) = L - 2
        /\ \A l \in 1 .. (L - 2) : twice[l] = once[l]
    <3>1. \A l \in 1 .. (L - 2) : once[l] \in S
      BY <1>2, <2>3, <2>4
    <3>2. L - 2 \in Int /\ (L - 2) - 1 + 1 = L - 2 /\ 1 \in Int
      BY <1>3
    <3>3. /\ twice \in Seq(S) /\ Len(twice) = IF 1 <= L - 2 THEN (L - 2) - 1 + 1 ELSE 0
          /\ \A l \in 1 .. ((L - 2) - 1 + 1) : twice[l] = once[1 + l - 1]
      BY <3>1, <3>2, SubSeqProperties
    <3> QED
      BY <1>3, <3>2, <3>3
  <2> HIDE DEF twice, below
  <2>7. \A l \in 1 .. (L - 2) : below[l] = frames[l]
    BY <1>3, <2>4, <2>5, <2>6
  <2> QED
    BY <2>5, <2>6, <2>7 DEF S
<1> HIDE DEF below
<1>8. /\ frames' \in Seq(ToSet(frames'))
      /\ DOMAIN frames' = 1 .. (L - 1)
      /\ \A l \in 1 .. (L - 2) : frames'[l] = frames[l]
      /\ frames'[L - 1] = g
  <2>1. /\ Append(below, g) \in Seq(ToSet(Append(below, g)))
        /\ DOMAIN Append(below, g) = 1 .. (Len(below) + 1)
        /\ \A l \in 1 .. Len(below) : Append(below, g)[l] = below[l]
        /\ Append(below, g)[Len(below) + 1] = g
    BY <1>7, Grown
  <2>2. Len(below) + 1 = L - 1
    BY <1>3, <1>7
  <2> QED
    BY <1>1, <1>7, <2>1, <2>2
<1>9. Resumes(g, creator, Top.as, Top.writes)
  BY <1>6 DEF Resumes
<1> QED
  BY <1>1, <1>8, <1>9 DEF creator

(* A frame that returns gives its signals back, bound or not: its creator  *)
(* has that component behind it.                                           *)
LEMMA ReturnKeeps == IInv /\ Return => IInv'
<1> SUFFICES ASSUME IInv, Return PROVE IInv'
  OBVIOUS
<1>1. PICK L : L = Len(frames)
  OBVIOUS
<1>2. CASE L = 1
  <2>1. UNCHANGED <<frames, outputs>>
    BY <1>1, <1>2 DEF Return
  <2> QED
    BY <2>1, Unmoved
<1>3. CASE L # 1
  <2>1. outputs' = outputs
    BY <1>1, <1>3, Popped
  <2>2. /\ L \in Nat \ {0} /\ DOMAIN frames = 1 .. L
        /\ Top = frames[L]
    BY <1>1, TopFacts DEF IInv
  <2>3. L - 1 \in 1 .. L /\ L - 1 + 1 = L /\ L - 2 \in Nat /\ L \in 1 .. L
    BY <1>3, <2>2
  <2>4. PICK g, creator :
          /\ g = frames'[L - 1] /\ creator = frames[L - 1]
          /\ Resumes(g, creator, Top.as, Top.writes)
    BY <1>1, <1>3, Popped
  <2>5. /\ frames' \in Seq(ToSet(frames'))
        /\ DOMAIN frames' = 1 .. (L - 1)
        /\ \A l \in 1 .. (L - 2) : frames'[l] = frames[l]
        /\ frames'[L - 1] = g
    BY <1>1, <1>3, <2>4, Popped
  <2>6. \A l \in 1 .. (L - 1) : l \in 1 .. L /\ (l \in 1 .. (L - 2) \/ l = L - 1)
    BY <2>2
  <2>7. ASSUME NEW l \in 1 .. (L - 1)
        PROVE  /\ frames'[l].template = frames[l].template
               /\ frames'[l].offset = frames[l].offset
               /\ frames'[l].as = frames[l].as
               /\ frames'[l].writes = frames[l].writes
               /\ frames'[l].given = frames[l].given
               /\ DOMAIN frames[l].inlined \subseteq DOMAIN frames'[l].inlined
               /\ IsFrame(frames'[l]) /\ Walks(frames'[l])
    <3>1. CASE l \in 1 .. (L - 2)
      BY <2>2, <2>5, <2>6, <3>1 DEF IInv, FramesOK
    <3>2. CASE l = L - 1
      BY <2>4, <2>5, <3>2 DEF Resumes
    <3> QED
      BY <2>6, <3>1, <3>2
  <2>8. /\ \A l \in 1 .. (L - 1) : Region(l)' = Region(l)
        /\ \A l \in 1 .. (L - 1) : \A r : SubRegion(l, r)' = SubRegion(l, r)
    BY <2>7 DEF Region, SubRegion
  <2>9. FramesOK'
    <3>1. frames' # <<>>
      <4>1. DOMAIN frames' = 1 .. Len(frames')
        BY <2>5, LenProperties
      <4>2. 1 \in DOMAIN frames'
        BY <2>3, <2>5
      <4>3. Len(frames') # 0
        BY <4>1, <4>2
      <4> QED
        BY <2>5, <4>3, EmptySeq
    <3> QED
      BY <2>1, <2>5, <2>7, <3>1 DEF IInv, FramesOK
  <2>10. \A l \in 1 .. (L - 1) : l + 1 \in 1 .. (L - 1) => l \in 1 .. (L - 2) /\ l + 1 \in 1 .. L
    BY <2>2
  <2>11. Called'
    <3> SUFFICES ASSUME NEW l \in 1 .. (L - 1), l + 1 \in 1 .. (L - 1)
                 PROVE  /\ frames'[l + 1].as \in DOMAIN frames'[l].template.subs \ DOMAIN frames'[l].inlined
                        /\ ~IsGadget(frames'[l].template.subs[frames'[l + 1].as])
                        /\ frames'[l + 1].template = frames'[l].template.subs[frames'[l + 1].as].template
                        /\ frames'[l + 1].offset = frames'[l].offset + frames'[l].template.subs[frames'[l + 1].as].offset
      BY <2>5 DEF Called
    <3>1. /\ frames'[l] = frames[l]
          /\ frames'[l + 1].as = frames[l + 1].as
          /\ frames'[l + 1].template = frames[l + 1].template
          /\ frames'[l + 1].offset = frames[l + 1].offset
      BY <2>5, <2>7, <2>10
    <3> QED
      BY <2>2, <2>6, <2>10, <3>1 DEF IInv, Called
  <2>12. Nested'
    <3> SUFFICES ASSUME NEW l \in 1 .. (L - 1), NEW m \in 1 .. (L - 1), l < m
                 PROVE  Region(m)' \subseteq SubRegion(l, frames[l + 1].as)'
      BY <2>5 DEF Nested
    <3>1. l + 1 \in 1 .. (L - 1)
      BY <2>2
    <3>2. SubRegion(l, frames[l + 1].as)' = SubRegion(l, frames[l + 1].as)
      <4>1. frames'[l + 1].as = frames[l + 1].as
        BY <2>7, <3>1
      <4> QED
        BY <2>7, <4>1 DEF SubRegion
    <3>3. Region(m) \subseteq SubRegion(l, frames[l + 1].as)
      BY <2>2, <2>6 DEF IInv, Nested
    <3> QED
      BY <2>8, <3>2, <3>3
  <2>13. OwnBound'
    BY <2>1, <2>2, <2>5, <2>6, <2>7, SMTT(40) DEF IInv, OwnBound, Carries
  <2>14. Untouched'
    <3> SUFFICES ASSUME NEW l \in 1 .. (L - 1), NEW r \in DOMAIN frames'[l].template.subs,
                        Waiting(l, r)', NEW j \in DOMAIN outputs
                 PROVE  outputs[j].signal \notin SubRegion(l, r)'
      BY <2>1, <2>5 DEF Untouched
    <3>1. r \in DOMAIN frames[l].template.subs \ DOMAIN frames[l].inlined
      BY <2>7 DEF Waiting
    <3>2. ASSUME l + 1 \in 1 .. L PROVE frames[l + 1].as # r
      <4>1. CASE l + 1 \in 1 .. (L - 1)
        <5>1. frames'[l + 1].as # r
          BY <2>5, <4>1 DEF Waiting
        <5> QED
          BY <2>7, <4>1, <5>1
      <4>2. CASE l = L - 1
        <5>1. frames'[l] = g /\ l + 1 = L
          BY <2>3, <2>5, <4>2
        <5>2. r \notin DOMAIN g.inlined
          BY <5>1 DEF Waiting
        <5>3. r # Top.as
          BY <2>4, <5>2 DEF Resumes
        <5> QED
          BY <2>2, <5>1, <5>3
      <4> QED
        BY <2>2, <4>1, <4>2
    <3>3. Waiting(l, r)
      BY <2>2, <3>1, <3>2 DEF Waiting
    <3>4. outputs[j].signal \notin SubRegion(l, r)
      BY <2>2, <2>6, <3>1, <3>3 DEF IInv, Untouched
    <3> QED
      BY <2>8, <3>4
  <2> QED
    BY <2>1, <2>9, <2>11, <2>12, <2>13, <2>14 DEF IInv, Agree
<1> QED
  BY <1>2, <1>3

LEMMA InstanceKeeps ==
  ASSUME IInv, NEW s \in DOMAIN Top.template.subs, s \notin DOMAIN Top.inlined,
         InlineInstance(s)
  PROVE  IInv'
<1>1. CASE IsGadget(Top.template.subs[s])
  BY <1>1, GadgetKeeps DEF InlineInstance
<1>2. CASE ~IsGadget(Top.template.subs[s])
  BY <1>2, CallKeeps DEF InlineInstance
<1> QED
  BY <1>1, <1>2

LEMMA OutputKeeps == IInv /\ ReadSubCmpOutput => IInv'
<1> SUFFICES ASSUME IInv, ReadSubCmpOutput PROVE IInv'
  OBVIOUS
<1> DEFINE s == Node0.sub
<1>1. Visiting({"SubCmpOutput"})
  BY DEF ReadSubCmpOutput
<1>2. s \in DOMAIN Top.template.subs
  BY <1>1, Visited DEF RefersTo
<1>3. CASE s \notin DOMAIN Top.inlined
  <2>1. InlineInstance(s)
    BY <1>3 DEF ReadSubCmpOutput
  <2> QED
    BY <1>2, <1>3, <2>1, InstanceKeeps
<1>4. CASE s \in DOMAIN Top.inlined
  <2> DEFINE ports == Top.inlined[s]
             f == Resolved(Top, ports[Node0.arg])
  <2>1. CASE Node0.arg \notin DOMAIN ports
    <3>1. UNCHANGED <<frames, outputs>>
      BY <1>4, <2>1 DEF ReadSubCmpOutput, Panic
    <3> QED
      BY <3>1, Unmoved
  <2>2. CASE Node0.arg \in DOMAIN ports
    <3>1. ReplaceTop(f) /\ outputs' = outputs
      BY <1>4, <2>2 DEF ReadSubCmpOutput
    <3>2. StaysOnTop(f) /\ f.inlined = Top.inlined
      BY ResolvedStays
    <3> QED
      BY <3>1, <3>2, MovesOn
  <2> QED
    BY <2>1, <2>2
<1> QED
  BY <1>3, <1>4

LEMMA RemainingKeeps == IInv /\ InlineRemaining => IInv'
<1> SUFFICES ASSUME IInv, InlineRemaining PROVE IInv'
  OBVIOUS
<1> DEFINE s == Min(Remaining(Top))
<1>1. DOMAIN Top.template.subs \in SUBSET Nat
  <2>1. Top.template \in AllTemplates
    BY TopFacts DEF IInv, Walks
  <2> QED
    BY <2>1, MainsAssumption DEF WellTypedTemplate
<1>2. Remaining(Top) \in SUBSET Nat /\ Remaining(Top) # {}
  BY <1>1 DEF InlineRemaining, Remaining
<1>3. s \in Remaining(Top)
  <2>1. \E m \in Remaining(Top) : \A n \in Remaining(Top) : m <= n
    BY <1>2, LeastElement
  <2> QED
    BY <2>1 DEF Min
<1>4. InlineInstance(s) /\ s \in DOMAIN Top.template.subs /\ s \notin DOMAIN Top.inlined
  BY <1>3 DEF InlineRemaining, Remaining
<1> HIDE DEF s
<1> QED
  BY <1>4, InstanceKeeps

-----------------------------------------------------------------------------
(* BoundOnce.                                                              *)

LEMMA StartsWell == Init => IInv
<1> SUFFICES ASSUME Init PROVE IInv
  OBVIOUS
<1> DEFINE f == Frame(main, 0, TRUE, Empty, 0)
<1>1. outputs = <<>> /\ frames = <<f>> /\ main \in AllTemplates
  BY DEF Init, AllTemplates
<1>2. DOMAIN Empty = {}
  BY DEF Empty
<1>3. /\ f.template = main /\ f.nodes = Parse(main) /\ f.offset = 0
      /\ f.given = Empty /\ f.as = 0 /\ f.at = 1 /\ f.writes = Empty
      /\ f.stored = [r \in DOMAIN main.subs |-> Empty] /\ f.inlined = Empty
      /\ IsFrame(f)
  BY DEF Frame, IsFrame
<1> HIDE DEF f
<1>4. Walks(f)
  BY <1>1, <1>2, <1>3 DEF Walks
<1>5. DOMAIN frames = {1} /\ frames[1] = f /\ frames # <<>>
  BY <1>1
<1>6. DOMAIN outputs = {}
  BY <1>1
<1>7. FramesOK
  <2>1. f \in ToSet(frames)
    BY <1>5 DEF ToSet
  <2>2. frames \in Seq(ToSet(frames))
    BY <1>1, <2>1
  <2>3. outputs \in Seq(ToSet(outputs))
    BY <1>1, EmptySeq
  <2> QED
    BY <1>3, <1>4, <1>5, <2>2, <2>3 DEF FramesOK
<1>8. Called /\ Nested
  BY <1>5 DEF Called, Nested
<1> QED
  BY <1>6, <1>7, <1>8 DEF IInv, OwnBound, Untouched, Agree

LEMMA StepKeeps == IInv /\ [Next]_vars => IInv'
<1> SUFFICES ASSUME IInv, [Next]_vars PROVE IInv'
  OBVIOUS
<1>1. CASE VisitReal
  BY <1>1, RealKeeps
<1>2. CASE ReadLocalSignal
  BY <1>2, ReadKeeps
<1>3. CASE WriteLocalSignal
  BY <1>3, WriteKeeps
<1>4. CASE StoreSubCmpInput
  BY <1>4, StoreKeeps
<1>5. CASE ReadSubCmpOutput
  BY <1>5, OutputKeeps
<1>6. CASE InlineRemaining
  BY <1>6, RemainingKeeps
<1>7. CASE Return
  BY <1>7, ReturnKeeps
<1>8. CASE Finished
  BY <1>8, Unmoved DEF Finished, vars
<1>9. CASE UNCHANGED vars
  BY <1>9, Unmoved DEF vars
<1> QED
  BY <1>1, <1>2, <1>3, <1>4, <1>5, <1>6, <1>7, <1>8, <1>9 DEF Next

(* Wherever the components of a tree are inlined, on the first read of an  *)
(* output or at the end of their creator, no flat signal is ever bound to  *)
(* two values: what the witness takes for it does not depend on the order. *)
THEOREM EverySignalBoundOnce == Spec => []BoundOnce
<1>1. IInv => BoundOnce
  <2> SUFFICES ASSUME IInv, NEW b \in ToSet(outputs)
               PROVE  Cardinality(Bindings(b.signal)) = 1
    BY DEF BoundOnce
  <2>1. \A o \in ToSet(outputs) : o.signal = b.signal => o.value = b.value
    BY DEF IInv, Agree, ToSet
  <2>2. Bindings(b.signal) = {b.value}
    BY <2>1 DEF Bindings
  <2> QED
    BY <2>2, FS_Singleton
<1> QED
  BY <1>1, StartsWell, StepKeeps, PTL DEF Spec

-----------------------------------------------------------------------------
(* The instances of a tree.                                                *)

(* The recursion of Instances, up to level n.                              *)
Levels(t, f, n) ==
  f = [d \in 0 .. n |-> IF d = 0 THEN {Instance0(t)} ELSE UNION {Children(i) : i \in f[d - 1]}]

LEMMA LevelsExist ==
  ASSUME NEW t, NEW n \in Nat
  PROVE  \E f : Levels(t, f, n)
<1> DEFINE T == {m \in Nat : \E f : Levels(t, f, m)}
<1>1. 0 \in T
  <2> DEFINE f == [d \in 0 .. 0 |-> {Instance0(t)}]
  <2>1. Levels(t, f, 0)
    BY DEF Levels
  <2> QED
    BY <2>1
<1>2. ASSUME NEW m \in T
      PROVE  m + 1 \in T
  <2>1. PICK f : Levels(t, f, m)
    OBVIOUS
  <2> DEFINE Next1(e, d) == IF d = 0 THEN {Instance0(t)} ELSE UNION {Children(i) : i \in e[d - 1]}
             h == [d \in 0 .. (m + 1) |-> Next1(f, d)]
  <2>2. m \in Nat
    OBVIOUS
  <2>3. \A d \in 0 .. m : h[d] = f[d]
    <3>1. f = [d \in 0 .. m |-> Next1(f, d)]
      BY <2>1 DEF Levels
    <3> HIDE DEF Next1
    <3>2. \A d \in 0 .. m : f[d] = Next1(f, d)
      BY <3>1
    <3> QED
      BY <2>2, <3>2
  <2>4. \A d \in 0 .. (m + 1) : Next1(f, d) = Next1(h, d)
    <3> SUFFICES ASSUME NEW d \in 0 .. (m + 1) PROVE Next1(f, d) = Next1(h, d)
      OBVIOUS
    <3>1. CASE d = 0
      BY <3>1
    <3>2. CASE d # 0
      <4>1. d - 1 \in 0 .. m
        BY <2>2, <3>2
      <4>2. h[d - 1] = f[d - 1]
        BY <2>3, <4>1
      <4> HIDE DEF h
      <4> QED
        BY <3>2, <4>2
    <3> QED
      BY <3>1, <3>2
  <2>5. h = [d \in 0 .. (m + 1) |-> Next1(h, d)]
    <3> DEFINE k == [d \in 0 .. (m + 1) |-> Next1(h, d)]
    <3> HIDE DEF Next1
    <3> QED
      BY <2>4
  <2>6. Levels(t, h, m + 1)
    <3> HIDE DEF h
    <3> QED
      BY <2>5 DEF Levels
  <2> HIDE DEF h
  <2> QED
    BY <2>2, <2>6
<1> HIDE DEF T
<1>3. T \in SUBSET Nat
  BY DEF T
<1>4. T = Nat
  BY <1>1, <1>2, <1>3, NaturalsFrom0
<1> QED
  BY <1>4 DEF T

LEMMA InstanceLevels ==
  ASSUME NEW t
  PROVE  \E f : Levels(t, f, MaxDepth) /\ Instances(t) = UNION {f[d] : d \in 0 .. MaxDepth}
<1> DEFINE f == CHOOSE g : Levels(t, g, MaxDepth)
<1>1. Levels(t, f, MaxDepth)
  BY LevelsExist, DepthAssumption
<1>2. Instances(t) = UNION {f[d] : d \in 0 .. MaxDepth}
  BY Zenon DEF Instances, Levels
<1> HIDE DEF f
<1> QED
  BY <1>1, <1>2

(* The least set with the root in it that holds all children of what it    *)
(* holds.                                                                  *)
LEMMA InstancesLeast ==
  ASSUME NEW t
  PROVE  /\ Instance0(t) \in Instances(t)
         /\ \A S : Instance0(t) \in S /\ (\A i \in S : Children(i) \subseteq S) => Instances(t) \subseteq S
<1>1. PICK f : Levels(t, f, MaxDepth) /\ Instances(t) = UNION {f[d] : d \in 0 .. MaxDepth}
  BY InstanceLevels
<1>2. MaxDepth \in Nat
  BY DepthAssumption
<1>3. f[0] = {Instance0(t)}
  BY <1>1, <1>2 DEF Levels
<1>4. Instance0(t) \in Instances(t)
  BY <1>1, <1>2, <1>3
<1>5. ASSUME NEW S, Instance0(t) \in S, \A i \in S : Children(i) \subseteq S
      PROVE  Instances(t) \subseteq S
  <2> DEFINE T == {m \in Nat : m <= MaxDepth => f[m] \subseteq S}
  <2>1. 0 \in T
    BY <1>3, <1>5
  <2>2. ASSUME NEW m \in T
        PROVE  m + 1 \in T
    <3>1. ASSUME m + 1 <= MaxDepth
          PROVE  f[m + 1] \subseteq S
      <4>1. m + 1 \in 0 .. MaxDepth /\ m + 1 # 0 /\ (m + 1) - 1 = m /\ m <= MaxDepth
        BY <1>2, <3>1
      <4>2. f[m + 1] = UNION {Children(i) : i \in f[m]}
        BY <1>1, <4>1 DEF Levels
      <4>3. f[m] \subseteq S
        BY <4>1
      <4> QED
        BY <1>5, <4>2, <4>3
    <3> QED
      BY <3>1
  <2> HIDE DEF T
  <2>3. T \in SUBSET Nat
    BY DEF T
  <2>4. T = Nat
    BY <2>1, <2>2, <2>3, NaturalsFrom0
  <2>5. \A m \in 0 .. MaxDepth : f[m] \subseteq S
    BY <1>2, <2>4 DEF T
  <2> QED
    BY <1>1, <2>5
<1> QED
  BY <1>4, <1>5

-----------------------------------------------------------------------------
(* What is left of the tree.                                               *)

(* Instances with all instances below them.                                *)
ClosedBelow(S) == \A i \in S : ~IsGadget(i.sub) => Children(i) \subseteq S

(* An instance and those below it.                                         *)
Under(c) ==
  {i \in Instances(main) :
     \A S \in SUBSET Instances(main) : c \in S /\ ClosedBelow(S) => i \in S}

(* A component of frame l.                                                 *)
ChildOf(l, s) ==
  [sub    |-> frames[l].template.subs[s],
   offset |-> frames[l].offset + frames[l].template.subs[s].offset]

LEMMA InstancesClosed ==
  ASSUME main \in Mains
  PROVE  /\ Instance0(main) \in Instances(main)
         /\ \A i \in Instances(main) : Children(i) \subseteq Instances(main)
BY InstancesLeast, DepthAssumption

LEMMA UnderItself ==
  ASSUME NEW c \in Instances(main)
  PROVE  c \in Under(c)
BY DEF Under

(* Below a gadget there is nothing.                                        *)
LEMMA UnderGadget ==
  ASSUME NEW c \in Instances(main), IsGadget(c.sub)
  PROVE  Under(c) = {c}
<1>1. {c} \in SUBSET Instances(main) /\ ClosedBelow({c})
  BY DEF ClosedBelow
<1> QED
  BY <1>1 DEF Under

(* What is below a template is below one of its components.                *)
LEMMA UnderTemplate ==
  ASSUME main \in Mains, NEW c \in Instances(main), ~IsGadget(c.sub),
         NEW i \in Under(c), IsGadget(i.sub)
  PROVE  \E b \in Children(c) : i \in Under(b)
<1> DEFINE B == {j \in Instances(main) : \E b \in Children(c) : j \in Under(b)}
           S == {c} \cup B
<1>1. S \in SUBSET Instances(main)
  OBVIOUS
<1>2. Children(c) \subseteq S
  BY InstancesClosed, UnderItself
<1>3. ASSUME NEW j \in B, ~IsGadget(j.sub), NEW k \in Children(j)
      PROVE  k \in S
  <2>1. PICK b \in Children(c) : j \in Under(b)
    OBVIOUS
  <2>2. k \in Instances(main)
    BY InstancesClosed
  <2>3. k \in Under(b)
    BY <1>3, <2>1, <2>2 DEF Under, ClosedBelow
  <2> QED
    BY <2>1, <2>2, <2>3
<1>4. ClosedBelow(S)
  <2> HIDE DEF B
  <2> QED
    BY <1>2, <1>3 DEF ClosedBelow
<1>5. i \in S
  BY <1>1, <1>4 DEF Under
<1> QED
  BY <1>5

(* A gadget has no components, wherever it is.                             *)
LEMMA InstanceKinds ==
  ASSUME main \in Mains
  PROVE  \A i \in Instances(main) :
           IF IsGadget(i.sub)
           THEN i.sub.template = NoTemplate
           ELSE i.sub.template \in AllTemplates
<1> DEFINE S == {i \in Instances(main) :
                   IF IsGadget(i.sub)
                   THEN i.sub.template = NoTemplate
                   ELSE i.sub.template \in AllTemplates}
<1>1. Instance0(main) \in S
  <2>1. Instance0(main).sub.template = main /\ ~IsGadget(Instance0(main).sub)
    BY DEF Instance0, Compiled, IsGadget
  <2>2. main \in AllTemplates
    BY DEF AllTemplates
  <2> QED
    BY <2>1, <2>2, InstancesClosed
<1>2. ASSUME NEW i \in S, NEW k \in Children(i)
      PROVE  k \in S
  <2> DEFINE t == i.sub.template
  <2>1. k \in Instances(main)
    BY InstancesClosed
  <2>2. PICK s \in DOMAIN t.subs : k.sub = t.subs[s]
    BY DEF Children, ToSet
  <2>3. ~IsGadget(i.sub)
    <3>1. DOMAIN NoTemplate.subs = {}
      BY DEF NoTemplate
    <3> QED
      BY <2>2, <3>1
  <2>4. t \in AllTemplates
    BY <2>3
  <2> HIDE DEF t
  <2>5. /\ IsGadget(t.subs[s]) => t.subs[s].template = NoTemplate
        /\ ~IsGadget(t.subs[s]) => t.subs[s].template \in AllTemplates
    BY <2>4, MainsAssumption DEF WellTypedTemplate, LaidOut
  <2> QED
    BY <2>1, <2>2, <2>5
<1> HIDE DEF S
<1>3. Instances(main) \subseteq S
  BY <1>1, <1>2, InstancesLeast
<1> QED
  BY <1>3 DEF S

(* The whole tree is below main.                                           *)
LEMMA UnderMain ==
  ASSUME main \in Mains
  PROVE  \A i \in GadgetInstances : i \in Under(Instance0(main))
<1> SUFFICES ASSUME NEW i \in GadgetInstances, NEW S \in SUBSET Instances(main),
                    Instance0(main) \in S, ClosedBelow(S)
             PROVE  i \in S
  BY DEF Under, GadgetInstances
<1>1. ASSUME NEW j \in S, NEW k \in Children(j)
      PROVE  k \in S
  <2>1. PICK s \in DOMAIN j.sub.template.subs : k.sub = j.sub.template.subs[s]
    BY DEF Children, ToSet
  <2>2. ~IsGadget(j.sub)
    <3>1. DOMAIN NoTemplate.subs = {}
      BY DEF NoTemplate
    <3> QED
      BY <2>1, <3>1, InstanceKinds
  <2> QED
    BY <2>2 DEF ClosedBelow
<1>2. Instances(main) \subseteq S
  BY <1>1, InstancesLeast
<1> QED
  BY <1>2 DEF GadgetInstances

-----------------------------------------------------------------------------
(* Sites and gadget instances.                                             *)

SignalsOf(i) == {i.offset + x : x \in 0 .. (i.sub.outs + i.sub.ins + i.sub.inters - 1)}

(* Every frame is that of an instance of the tree.                         *)
Placed ==
  \A l \in DOMAIN frames : \E i \in Instances(main) :
    ~IsGadget(i.sub) /\ i.sub.template = frames[l].template /\ i.offset = frames[l].offset

(* The instance is of a component still to be inlined, or below one.       *)
Awaited(i) ==
  \E l \in DOMAIN frames : \E s \in DOMAIN frames[l].template.subs :
    Waiting(l, s) /\ i \in Under(ChildOf(l, s))

(* inst[k] is the instance site k was made for. A signal of it is bound,   *)
(* so that it is none of those still to be inlined.                        *)
Sited(inst) ==
  /\ inst \in [DOMAIN sites -> GadgetInstances]
  /\ \A j, k \in DOMAIN sites : inst[j] = inst[k] => j = k
  /\ \A k \in DOMAIN sites : sites[k] = SiteOfInstance(inst[k]) /\ Canonical(inst[k])
  /\ \A k \in DOMAIN sites : \E n \in DOMAIN outputs : outputs[n].signal \in SignalsOf(inst[k])
  /\ \A i \in GadgetInstances : (\E k \in DOMAIN sites : inst[k] = i) \/ Awaited(i)

(* Nothing is left to be inlined in the end.                               *)
Settled ==
  status = "done" => \A l \in DOMAIN frames : \A s \in DOMAIN frames[l].template.subs : ~Waiting(l, s)

SitesInv ==
  /\ main \in Mains
  /\ sites \in Seq(ToSet(sites))
  /\ Placed
  /\ Settled
  /\ \E inst : Sited(inst)

OutputsGrow == \A n \in DOMAIN outputs : n \in DOMAIN outputs' /\ outputs'[n] = outputs[n]

(* No site is made, and what was awaited still is.                         *)
LEMMA StillSited ==
  ASSUME SitesInv, main' = main, sites' = sites, OutputsGrow,
         \A i \in GadgetInstances : Awaited(i) => Awaited(i)'
  PROVE  \E inst : Sited(inst)'
<1>1. PICK inst : Sited(inst)
  BY DEF SitesInv
<1>2. GadgetInstances' = GadgetInstances
  BY DEF GadgetInstances
<1>3. \A k \in DOMAIN sites : \E n \in DOMAIN outputs' : outputs'[n].signal \in SignalsOf(inst[k])
  BY <1>1 DEF Sited, OutputsGrow
<1>4. \A i \in GadgetInstances : (\E k \in DOMAIN sites : inst[k] = i) \/ Awaited(i)'
  BY <1>1 DEF Sited
<1>5. Sited(inst)'
  BY <1>1, <1>2, <1>3, <1>4 DEF Sited
<1> QED
  BY <1>5

(* The frames are those of the same instances, with the same components    *)
(* inlined.                                                                *)
SameInstances ==
  /\ DOMAIN frames' = DOMAIN frames
  /\ \A l \in DOMAIN frames :
       /\ frames'[l].template = frames[l].template
       /\ frames'[l].offset = frames[l].offset
       /\ frames'[l].as = frames[l].as
       /\ frames'[l].inlined = frames[l].inlined

LEMMA SameAwaited ==
  ASSUME SitesInv, SameInstances, main' = main, sites' = sites, OutputsGrow,
         status' = "done" => status = "done"
  PROVE  SitesInv'
<1>1. \A l \in DOMAIN frames : \A s : Waiting(l, s)' <=> Waiting(l, s)
  BY DEF SameInstances, Waiting
<1>2. \A l \in DOMAIN frames : \A s : ChildOf(l, s)' = ChildOf(l, s)
  BY DEF SameInstances, ChildOf
<1>3. \A i : Under(i)' = Under(i)
  BY DEF Under
<1>4. \A i : Awaited(i) => Awaited(i)'
  <2> SUFFICES ASSUME NEW i, Awaited(i) PROVE Awaited(i)'
    OBVIOUS
  <2>1. PICK l \in DOMAIN frames : \E s \in DOMAIN frames[l].template.subs :
               Waiting(l, s) /\ i \in Under(ChildOf(l, s))
    BY DEF Awaited
  <2>2. PICK s \in DOMAIN frames[l].template.subs : Waiting(l, s) /\ i \in Under(ChildOf(l, s))
    BY <2>1
  <2>3. l \in DOMAIN frames' /\ s \in DOMAIN frames'[l].template.subs
    BY DEF SameInstances
  <2>4. Waiting(l, s)' /\ i \in Under(ChildOf(l, s))'
    <3>1. ChildOf(l, s)' = ChildOf(l, s) /\ Waiting(l, s)'
      BY <1>1, <1>2, <2>2
    <3> QED
      BY <1>3, <2>2, <3>1
  <2> QED
    BY <2>3, <2>4 DEF Awaited
<1>5. \E inst : Sited(inst)'
  BY <1>4, StillSited
<1>6. Placed'
  BY DEF SitesInv, Placed, SameInstances
<1>7. Settled'
  BY <1>1 DEF SitesInv, Settled, SameInstances
<1> QED
  BY <1>5, <1>6, <1>7 DEF SitesInv

(* The top frame moves on.                                                 *)
LEMMA TopMoves ==
  ASSUME FramesOK, NEW f, ReplaceTop(f),
         f.template = Top.template, f.offset = Top.offset, f.as = Top.as, f.inlined = Top.inlined
  PROVE  SameInstances
<1>1. /\ Len(frames) \in DOMAIN frames /\ Top = frames[Len(frames)]
  BY TopFacts
<1>2. frames' = [l \in DOMAIN frames |-> IF l = Len(frames) THEN f ELSE frames[l]]
  BY DEF ReplaceTop
<1> QED
  BY <1>1, <1>2 DEF SameInstances

LEMMA OutputsSame ==
  ASSUME outputs' = outputs
  PROVE  OutputsGrow
BY DEF OutputsGrow

LEMMA OutputsMore ==
  ASSUME FramesOK, NEW b, outputs' = Append(outputs, b)
  PROVE  OutputsGrow
BY Bound DEF OutputsGrow

LEMMA UnmovedSites ==
  ASSUME SitesInv, UNCHANGED <<main, outputs, sites, frames>>, status' = "done" => status = "done"
  PROVE  SitesInv'
<1>1. SameInstances
  BY DEF SameInstances
<1> QED
  BY <1>1, SameAwaited, OutputsSame

-----------------------------------------------------------------------------
(* The components of a frame are instances of the tree.                    *)
LEMMA ChildPlaced ==
  ASSUME SitesInv, NEW l \in DOMAIN frames, NEW s \in DOMAIN frames[l].template.subs
  PROVE  ChildOf(l, s) \in Instances(main)
<1>1. PICK i \in Instances(main) :
         ~IsGadget(i.sub) /\ i.sub.template = frames[l].template /\ i.offset = frames[l].offset
  BY DEF SitesInv, Placed
<1>2. frames[l].template.subs[s] \in ToSet(i.sub.template.subs)
  BY <1>1 DEF ToSet
<1>3. ChildOf(l, s) \in Children(i)
  BY <1>1, <1>2 DEF ChildOf, Children
<1> QED
  BY <1>3, InstancesClosed DEF SitesInv

(* What a gadget binds: more than before, and a signal of its own.         *)
LEMMA GadgetBinds ==
  ASSUME FramesOK, NEW A, NEW a \in Seq(A), NEW b \in Seq(A), 1 \in 1 .. Len(b),
         outputs' = outputs \o a \o b
  PROVE  OutputsGrow /\ \E n \in DOMAIN outputs' : outputs'[n] = b[1]
<1>1. /\ Len(outputs) \in Nat
      /\ DOMAIN outputs = 1 .. Len(outputs)
      /\ DOMAIN outputs' = 1 .. (Len(outputs) + Len(a) + Len(b))
      /\ \A j \in DOMAIN outputs : outputs'[j] = outputs[j]
      /\ \A k \in 1 .. Len(b) : outputs'[Len(outputs) + Len(a) + k] = b[k]
  BY TwoLists, ZenonT(60)
<1>2. Len(a) \in Nat /\ Len(b) \in Nat
  BY LenProperties
<1> DEFINE n == Len(outputs) + Len(a) + 1
<1>3. n \in DOMAIN outputs' /\ outputs'[n] = b[1]
  BY <1>1, <1>2
<1>4. OutputsGrow
  BY <1>1, <1>2 DEF OutputsGrow
<1> HIDE DEF n
<1> QED
  BY <1>3, <1>4

(* The signals of a gadget component are those its creator keeps for it.   *)
LEMMA GadgetSignals ==
  ASSUME NEW l, NEW s, frames[l].offset \in Nat,
         NEW sub, sub = frames[l].template.subs[s],
         sub.offset \in Nat, sub.outs \in Nat, sub.ins \in Nat, sub.inters \in Nat, IsGadget(sub)
  PROVE  SignalsOf(ChildOf(l, s)) = SubRegion(l, s)
<1> DEFINE N == sub.outs + sub.ins + sub.inters - 1
           o == frames[l].offset
<1>1. SignalsOf(ChildOf(l, s)) = {o + sub.offset + x : x \in 0 .. N}
  BY DEF SignalsOf, ChildOf
<1>2. SubRegion(l, s) = {o + y : y \in {sub.offset + x : x \in 0 .. N}}
  BY DEF SubRegion, SubSignals
<1>3. \A x \in 0 .. N : o + sub.offset + x = o + (sub.offset + x)
  OBVIOUS
<1> HIDE DEF N, o
<1> QED
  BY <1>1, <1>2, <1>3

(* An inlined gadget is awaited no more; all else is, and it has a site of *)
(* its own.                                                                *)
LEMMA GadgetSited ==
  ASSUME IInv, SitesInv, NEW s \in DOMAIN Top.template.subs, s \notin DOMAIN Top.inlined,
         IsGadget(Top.template.subs[s]), status = "running", InlineGadget(s)
  PROVE  SitesInv'
<1> DEFINE sub     == Top.template.subs[s]
           offset  == OffsetOf(s)
           results == sub.outs + sub.inters
           given   == Top.stored[s]
           ports   == [k \in 1 .. sub.ins |-> InputSignal(sub, k - 1)]
           a       == [k \in 1 .. sub.ins |-> Binding(offset + ports[k], given[ports[k]])]
           b       == [n \in 1 .. results |->
                         Binding(offset + ResultSignal(sub, n - 1), Len(nodes) + 2 + (n - 1))]
           made    == [slot \in 0 .. (sub.outs - 1) |-> Len(nodes) + 2 + slot]
           f       == [Top EXCEPT !.inlined = Inserted(@, s, made)]
           L       == Len(frames)
           c       == ChildOf(L, s)
           K       == Len(sites) + 1
<1>1. \/ Panic
      \/ /\ results = ExpectedResults(sub.kind)
         /\ sites' = Append(sites, SiteOfInstance(c))
         /\ outputs' = outputs \o a \o b
         /\ ReplaceTop(f)
         /\ main' = main /\ status' = status
  <2>1. Top = frames[L]
    BY TopFacts DEF IInv
  <2>2. SiteOfInstance(c) = [kind |-> sub.kind, precomputed |-> sub.precomputed]
    BY <2>1 DEF SiteOfInstance, ChildOf
  <2> QED
    BY <2>2 DEF InlineGadget
<1>2. CASE Panic
  BY <1>2, UnmovedSites DEF Panic
<1>3. CASE /\ results = ExpectedResults(sub.kind)
           /\ sites' = Append(sites, SiteOfInstance(c))
           /\ outputs' = outputs \o a \o b
           /\ ReplaceTop(f)
           /\ main' = main /\ status' = status
  <2>1. /\ IsFrame(Top) /\ Walks(Top) /\ Top = frames[L]
        /\ L \in Nat \ {0} /\ DOMAIN frames = 1 .. L /\ L \in DOMAIN frames
    BY TopFacts DEF IInv
  <2>2. /\ sub.outs \in Nat /\ sub.ins \in Nat /\ sub.inters \in Nat /\ sub.offset \in Nat
        /\ sub.kind \in Kinds /\ Top.offset \in Nat
    <3>1. Top.template \in AllTemplates /\ Top.offset \in Nat
      BY <2>1 DEF Walks
    <3> QED
      BY <3>1, MainsAssumption DEF WellTypedTemplate
  <2>3. results \in Nat \ {0}
    <3>1. ExpectedResults(sub.kind) \in {1, 2, 3}
      BY <2>2 DEF ExpectedResults, Kinds
    <3>2. results = ExpectedResults(sub.kind)
      BY <1>3
    <3> HIDE DEF results, sub
    <3> QED
      BY <3>1, <3>2
  <2>4. /\ f.template = Top.template /\ f.offset = Top.offset /\ f.as = Top.as
        /\ DOMAIN f.inlined = {s} \cup DOMAIN Top.inlined
    <3>1. f = [template |-> Top.template, nodes |-> Top.nodes, offset |-> Top.offset,
               root |-> Top.root, given |-> Top.given, as |-> Top.as, at |-> Top.at,
               remap |-> Top.remap, writes |-> Top.writes, stored |-> Top.stored,
               inlined |-> Inserted(Top.inlined, s, made)]
      BY <2>1 DEF IsFrame
    <3> HIDE DEF f, made
    <3> QED
      BY <3>1 DEF Inserted
  <2>5. /\ DOMAIN frames' = DOMAIN frames /\ frames'[L] = f
        /\ \A l \in DOMAIN frames : l # L => frames'[l] = frames[l]
    <3> HIDE DEF f
    <3> QED
      BY <1>3, <2>1 DEF ReplaceTop
  <2>6. c.sub = sub /\ c.offset = Top.offset + sub.offset
    BY <2>1 DEF ChildOf
  <2>7. c \in Instances(main) /\ c \in GadgetInstances
    <3>1. c \in Instances(main)
      BY <2>1, ChildPlaced
    <3> QED
      BY <2>6, <3>1 DEF GadgetInstances
  <2>23. Canonical(c)
    <3> HIDE DEF c
    <3> QED
      BY <1>3, <2>6 DEF Canonical
  <2>8. SignalsOf(c) = SubRegion(L, s)
    BY <2>1, <2>2, GadgetSignals
  <2>9. Waiting(L, s)
    BY <2>1 DEF Waiting
  <2>10. \A n \in DOMAIN outputs : outputs[n].signal \notin SignalsOf(c)
    BY <2>1, <2>8, <2>9 DEF IInv, Untouched
  <2>11. b[1].signal \in SignalsOf(c)
    <3>1. b[1].signal = offset + ResultSignal(sub, 0)
      BY <2>3 DEF Binding
    <3>2. ResultSignal(sub, 0) \in 0 .. (sub.outs + sub.ins + sub.inters - 1)
      BY <2>2, <2>3 DEF ResultSignal
    <3>3. offset = c.offset
      BY <2>6 DEF OffsetOf
    <3> HIDE DEF b, offset, sub, c
    <3>4. c.sub = sub
      BY <2>6
    <3> QED
      BY <3>1, <3>2, <3>3, <3>4 DEF SignalsOf
  <2>12. OutputsGrow /\ \E n \in DOMAIN outputs' : outputs'[n] = b[1]
    <3> DEFINE A == ToSet(a) \cup ToSet(b)
    <3>1. a \in [1 .. sub.ins -> A] /\ b \in [1 .. results -> A]
      BY DEF ToSet
    <3>2. FramesOK /\ outputs' = outputs \o a \o b
      BY <1>3 DEF IInv
    <3> HIDE DEF A, a, b, results, sub
    <3>3. a \in Seq(A) /\ b \in Seq(A) /\ Len(b) = results
      BY <2>2, <2>3, <3>1, ListOf
    <3>4. 1 \in 1 .. Len(b)
      BY <2>3, <3>3
    <3> QED
      BY <3>2, <3>3, <3>4, GadgetBinds, ZenonT(60)
  <2>13. PICK n \in DOMAIN outputs' : outputs'[n].signal \in SignalsOf(c)
    BY <2>11, <2>12
  <2> HIDE DEF sub, offset, results, given, ports, a, b, made, f
  <2>14. \A l \in DOMAIN frames :
           /\ frames'[l].template = frames[l].template
           /\ frames'[l].offset = frames[l].offset
           /\ frames'[l].as = frames[l].as
    BY <2>1, <2>4, <2>5
  <2>15. \A l \in DOMAIN frames : \A r : Waiting(l, r) /\ <<l, r>> # <<L, s>> => Waiting(l, r)'
    <3> SUFFICES ASSUME NEW l \in DOMAIN frames, NEW r, Waiting(l, r), <<l, r>> # <<L, s>>
                 PROVE  Waiting(l, r)'
      OBVIOUS
    <3>1. r \notin DOMAIN frames'[l].inlined
      <4>1. CASE l = L
        BY <2>1, <2>4, <2>5, <4>1 DEF Waiting
      <4>2. CASE l # L
        BY <2>5, <4>2 DEF Waiting
      <4> QED
        BY <4>1, <4>2
    <3> QED
      BY <2>5, <2>14, <3>1 DEF Waiting
  <2>16. \A i \in GadgetInstances : Awaited(i) /\ i # c => Awaited(i)'
    <3> SUFFICES ASSUME NEW i \in GadgetInstances, Awaited(i), i # c PROVE Awaited(i)'
      OBVIOUS
    <3>1. PICK l \in DOMAIN frames : \E r \in DOMAIN frames[l].template.subs :
                 Waiting(l, r) /\ i \in Under(ChildOf(l, r))
      BY DEF Awaited
    <3>2. PICK r \in DOMAIN frames[l].template.subs : Waiting(l, r) /\ i \in Under(ChildOf(l, r))
      BY <3>1
    <3>3. <<l, r>> # <<L, s>>
      <4>1. IsGadget(c.sub)
        BY <2>7 DEF GadgetInstances
      <4>2. Under(c) = {c}
        BY <2>7, <4>1, UnderGadget
      <4> QED
        BY <3>2, <4>2
    <3>4. Waiting(l, r)' /\ l \in DOMAIN frames' /\ r \in DOMAIN frames'[l].template.subs
      BY <2>5, <2>14, <2>15, <3>2, <3>3
    <3>5. ChildOf(l, r)' = ChildOf(l, r)
      BY <2>14 DEF ChildOf
    <3>6. Under(ChildOf(l, r))' = Under(ChildOf(l, r))
      BY <1>3, <3>5 DEF Under
    <3> QED
      BY <3>2, <3>4, <3>6 DEF Awaited
  <2>17. /\ sites' \in Seq(ToSet(sites')) /\ K \in Nat \ {0}
         /\ DOMAIN sites = 1 .. (K - 1) /\ DOMAIN sites' = 1 .. K
         /\ \A k \in 1 .. (K - 1) : sites'[k] = sites[k]
         /\ sites'[K] = SiteOfInstance(c)
    BY <1>3, Grown DEF SitesInv
  <2>18. PICK inst : Sited(inst)
    BY DEF SitesInv
  <2> HIDE DEF c, K
  <2>19. \A k \in DOMAIN sites : inst[k] # c
    BY <2>10, <2>18 DEF Sited
  <2> PICK in2 : in2 = [k \in 1 .. K |-> IF k = K THEN c ELSE inst[k]]
    OBVIOUS
  <2>20. Sited(in2)'
    <3>1. GadgetInstances' = GadgetInstances
      BY <1>3 DEF GadgetInstances
    <3>2. \A k \in 1 .. K : k = K \/ k \in DOMAIN sites
      BY <2>17
    <3>3. in2 \in [DOMAIN sites' -> GadgetInstances]
      BY <2>7, <2>17, <2>18, <3>2 DEF Sited
    <3>4. \A j, k \in DOMAIN sites' : in2[j] = in2[k] => j = k
      BY <2>17, <2>18, <2>19, <3>2 DEF Sited
    <3>5. \A k \in DOMAIN sites' : sites'[k] = SiteOfInstance(in2[k]) /\ Canonical(in2[k])
      BY <2>17, <2>18, <2>23, <3>2 DEF Sited
    <3>6. \A k \in DOMAIN sites' : \E m \in DOMAIN outputs' : outputs'[m].signal \in SignalsOf(in2[k])
      <4> SUFFICES ASSUME NEW k \in 1 .. K
                   PROVE  \E m \in DOMAIN outputs' : outputs'[m].signal \in SignalsOf(in2[k])
        BY <2>17
      <4>1. CASE k = K
        BY <2>13, <4>1
      <4>2. CASE k # K
        <5>1. k \in DOMAIN sites /\ in2[k] = inst[k]
          BY <3>2, <4>2
        <5>2. PICK m \in DOMAIN outputs : outputs[m].signal \in SignalsOf(inst[k])
          BY <2>18, <5>1 DEF Sited
        <5> QED
          BY <2>12, <5>1, <5>2 DEF OutputsGrow
      <4> QED
        BY <4>1, <4>2
    <3>7. \A i \in GadgetInstances : (\E k \in DOMAIN sites' : in2[k] = i) \/ Awaited(i)'
      <4> SUFFICES ASSUME NEW i \in GadgetInstances, ~Awaited(i)'
                   PROVE  \E k \in DOMAIN sites' : in2[k] = i
        OBVIOUS
      <4>1. CASE i = c
        <5>1. K \in 1 .. K
          BY <2>17
        <5> QED
          BY <2>17, <4>1, <5>1
      <4>2. CASE i # c
        <5>1. PICK k \in DOMAIN sites : inst[k] = i
          BY <2>16, <2>18, <4>2 DEF Sited
        <5>2. k \in 1 .. K /\ k # K
          BY <2>17
        <5> QED
          BY <2>17, <5>1, <5>2
      <4> QED
        BY <4>1, <4>2
    <3> QED
      BY <3>1, <3>3, <3>4, <3>5, <3>6, <3>7 DEF Sited
  <2>21. Placed'
    BY <1>3, <2>5, <2>14 DEF SitesInv, Placed
  <2>22. Settled' /\ main' \in Mains
    BY <1>3 DEF SitesInv, Settled
  <2> QED
    BY <2>17, <2>20, <2>21, <2>22 DEF SitesInv
<1> QED
  BY <1>1, <1>2, <1>3

-----------------------------------------------------------------------------
(* What was awaited of a component that is called is awaited of its own    *)
(* components.                                                             *)
LEMMA CallSited ==
  ASSUME IInv, SitesInv, NEW s \in DOMAIN Top.template.subs, s \notin DOMAIN Top.inlined,
         ~IsGadget(Top.template.subs[s]), status = "running",
         frames' = Append(frames, Frame(Top.template.subs[s].template, OffsetOf(s), FALSE,
                                        Top.stored[s], s)),
         UNCHANGED <<main, nodes, outputs, sites, status>>
  PROVE  SitesInv'
<1> PICK L, c, sub : L = Len(frames) /\ c = ChildOf(L, s) /\ sub = Top.template.subs[s]
  OBVIOUS
<1> DEFINE f == Frame(sub.template, OffsetOf(s), FALSE, Top.stored[s], s)
<1>1. /\ L \in Nat \ {0} /\ DOMAIN frames = 1 .. L /\ L \in DOMAIN frames
      /\ Top = frames[L]
  BY TopFacts DEF IInv
<1>2. /\ f.template = sub.template /\ f.offset = Top.offset + sub.offset /\ f.as = s
      /\ DOMAIN f.inlined = {}
  BY DEF Frame, OffsetOf, Empty
<1>3. c.sub = sub /\ c.offset = Top.offset + sub.offset /\ ~IsGadget(c.sub)
  BY <1>1 DEF ChildOf
<1>4. c \in Instances(main)
  BY <1>1, ChildPlaced
<1>5. /\ DOMAIN frames' = 1 .. (L + 1)
      /\ \A l \in 1 .. L : frames'[l] = frames[l]
      /\ frames'[L + 1] = f
  <2>1. frames \in Seq(ToSet(frames)) /\ frames' = Append(frames, f)
    BY DEF IInv, FramesOK
  <2> HIDE DEF f
  <2>2. /\ DOMAIN Append(frames, f) = 1 .. (Len(frames) + 1)
        /\ \A l \in 1 .. Len(frames) : Append(frames, f)[l] = frames[l]
        /\ Append(frames, f)[Len(frames) + 1] = f
    BY <2>1, Grown
  <2> QED
    BY <2>1, <2>2
<1> HIDE DEF f
<1>6. \A l \in DOMAIN frames : \A r : Waiting(l, r) /\ <<l, r>> # <<L, s>> => Waiting(l, r)'
  <2> SUFFICES ASSUME NEW l \in DOMAIN frames, NEW r, Waiting(l, r), <<l, r>> # <<L, s>>
               PROVE  Waiting(l, r)'
    OBVIOUS
  <2>1. r \in DOMAIN frames'[l].template.subs \ DOMAIN frames'[l].inlined
    BY <1>1, <1>5 DEF Waiting
  <2>2. ASSUME l + 1 \in 1 .. (L + 1)
        PROVE  frames'[l + 1].as # r
    <3>1. CASE l = L
      BY <1>2, <1>5, <3>1
    <3>2. CASE l # L
      <4>1. l + 1 \in 1 .. L
        BY <1>1, <3>2
      <4> QED
        BY <1>1, <1>5, <4>1 DEF Waiting
    <3> QED
      BY <3>1, <3>2
  <2> QED
    BY <1>5, <2>1, <2>2 DEF Waiting
<1>7. \A r \in DOMAIN sub.template.subs : Waiting(L + 1, r)'
  <2>1. L + 1 + 1 \notin 1 .. (L + 1)
    BY <1>1
  <2> QED
    BY <1>2, <1>5, <2>1 DEF Waiting
<1>8. \A i : Under(i)' = Under(i)
  BY DEF Under
<1>9. ASSUME NEW b \in Children(c)
      PROVE  \E r \in DOMAIN sub.template.subs : b = ChildOf(L + 1, r)'
  <2>1. PICK r \in DOMAIN sub.template.subs :
               b = [sub |-> sub.template.subs[r], offset |-> c.offset + sub.template.subs[r].offset]
    BY <1>3 DEF Children, ToSet
  <2>2. ChildOf(L + 1, r)' = [sub    |-> frames'[L + 1].template.subs[r],
                              offset |-> frames'[L + 1].offset + frames'[L + 1].template.subs[r].offset]
    BY DEF ChildOf
  <2>3. b = ChildOf(L + 1, r)'
    BY <1>2, <1>3, <1>5, <2>1, <2>2
  <2> QED
    BY <2>3
<1>10. \A i \in GadgetInstances : Awaited(i) => Awaited(i)'
  <2> SUFFICES ASSUME NEW i \in GadgetInstances, Awaited(i) PROVE Awaited(i)'
    OBVIOUS
  <2>1. PICK l \in DOMAIN frames : \E r \in DOMAIN frames[l].template.subs :
               Waiting(l, r) /\ i \in Under(ChildOf(l, r))
    BY DEF Awaited
  <2>2. PICK r \in DOMAIN frames[l].template.subs : Waiting(l, r) /\ i \in Under(ChildOf(l, r))
    BY <2>1
  <2>3. CASE <<l, r>> = <<L, s>>
    <3>1. i \in Under(c) /\ IsGadget(i.sub)
      BY <2>2, <2>3 DEF GadgetInstances
    <3>2. PICK b \in Children(c) : i \in Under(b)
      BY <1>3, <1>4, <3>1, UnderTemplate DEF SitesInv
    <3>3. PICK q \in DOMAIN sub.template.subs : b = ChildOf(L + 1, q)'
      BY <1>9
    <3>4. i \in Under(ChildOf(L + 1, q))'
      <4>1. \A x : x = b => Under(x)' = Under(b)
        BY <1>8
      <4> QED
        BY <3>2, <3>3, <4>1 DEF Under
    <3>5. L + 1 \in DOMAIN frames' /\ q \in DOMAIN frames'[L + 1].template.subs
      <4>1. L + 1 \in 1 .. (L + 1)
        BY <1>1
      <4>2. frames'[L + 1].template = sub.template
        BY <1>2, <1>5
      <4> QED
        BY <1>5, <3>3, <4>1, <4>2
    <3>6. Waiting(L + 1, q)'
      BY <1>7
    <3> QED
      BY <3>4, <3>5, <3>6 DEF Awaited
  <2>4. CASE <<l, r>> # <<L, s>>
    <3>1. Waiting(l, r)' /\ l \in DOMAIN frames' /\ r \in DOMAIN frames'[l].template.subs
      BY <1>1, <1>5, <1>6, <2>2, <2>4
    <3>2. ChildOf(l, r)' = ChildOf(l, r)
      BY <1>1, <1>5 DEF ChildOf
    <3>3. Under(ChildOf(l, r))' = Under(ChildOf(l, r))
      BY <3>2 DEF Under
    <3> QED
      BY <2>2, <3>1, <3>3 DEF Awaited
  <2> QED
    BY <2>3, <2>4
<1>11. \E inst : Sited(inst)'
  BY <1>10, StillSited, OutputsSame
<1>12. Placed'
  <2> SUFFICES ASSUME NEW l \in 1 .. (L + 1)
               PROVE  \E i \in Instances(main) : /\ ~IsGadget(i.sub)
                                                 /\ i.sub.template = frames'[l].template
                                                 /\ i.offset = frames'[l].offset
    BY <1>5 DEF Placed
  <2>1. CASE l = L + 1
    BY <1>2, <1>3, <1>4, <1>5, <2>1
  <2>2. CASE l # L + 1
    <3>1. l \in 1 .. L
      BY <1>1, <2>2
    <3> QED
      BY <1>1, <1>5, <3>1 DEF SitesInv, Placed
  <2> QED
    BY <2>1, <2>2
<1> QED
  BY <1>11, <1>12 DEF SitesInv, Settled

(* A frame that returns has nothing left to be inlined.                    *)
LEMMA ReturnSited ==
  ASSUME IInv, SitesInv, Return
  PROVE  SitesInv'
<1> PICK L : L = Len(frames)
  OBVIOUS
<1>1. /\ L \in Nat \ {0} /\ DOMAIN frames = 1 .. L /\ L \in DOMAIN frames
      /\ Top = frames[L] /\ status = "running"
  BY TopFacts DEF IInv, Return, AtEnd
<1>2. main' = main /\ outputs' = outputs /\ sites' = sites
  BY DEF Return
<1>3. \A s : ~Waiting(L, s)
  BY <1>1 DEF Return, Remaining, Waiting
<1>4. CASE L = 1
  <2>1. frames' = frames /\ status' = "done"
    BY <1>4 DEF Return
  <2>2. \A l \in DOMAIN frames : \A s : Waiting(l, s)' <=> Waiting(l, s)
    BY <2>1 DEF Waiting
  <2>3. Settled'
    BY <1>1, <1>3, <1>4, <2>1, <2>2 DEF Settled
  <2>4. \A i \in GadgetInstances : Awaited(i) => Awaited(i)'
    <3> SUFFICES ASSUME NEW i \in GadgetInstances, Awaited(i) PROVE FALSE
      OBVIOUS
    <3> QED
      BY <1>1, <1>3, <1>4 DEF Awaited
  <2>5. \E inst : Sited(inst)'
    BY <1>2, <2>4, StillSited, OutputsSame
  <2>6. Placed'
    BY <1>2, <2>1 DEF SitesInv, Placed
  <2> QED
    BY <1>2, <2>3, <2>5, <2>6 DEF SitesInv
<1>5. CASE L # 1
  <2>1. status' = status
    BY <1>5 DEF Return
  <2>2. PICK g, creator :
          /\ g = frames'[L - 1] /\ creator = frames[L - 1]
          /\ Resumes(g, creator, Top.as, Top.writes)
    BY <1>5, Popped
  <2>3. /\ DOMAIN frames' = 1 .. (L - 1)
        /\ \A l \in 1 .. (L - 2) : frames'[l] = frames[l]
    BY <1>5, Popped
  <2>4. \A l \in 1 .. (L - 1) : l \in 1 .. L /\ (l \in 1 .. (L - 2) \/ l = L - 1)
    BY <1>1
  <2>5. \A l \in 1 .. (L - 1) :
          /\ frames'[l].template = frames[l].template
          /\ frames'[l].offset = frames[l].offset
          /\ frames'[l].as = frames[l].as
    BY <2>2, <2>3, <2>4 DEF Resumes
  <2>6. ASSUME NEW l \in DOMAIN frames, NEW r, Waiting(l, r)
        PROVE  l \in 1 .. (L - 1) /\ Waiting(l, r)'
    <3>1. l \in 1 .. (L - 1)
      <4>1. l # L
        BY <1>3, <2>6
      <4> QED
        BY <1>1, <4>1
    <3>2. r \notin DOMAIN frames'[l].inlined
      <4>1. CASE l \in 1 .. (L - 2)
        BY <2>3, <2>6, <4>1 DEF Waiting
      <4>2. CASE l = L - 1
        <5>1. l + 1 = L
          BY <1>1, <4>2
        <5>2. Top.as # r
          BY <1>1, <2>6, <5>1 DEF Waiting
        <5> QED
          BY <2>2, <2>6, <4>2, <5>2 DEF Waiting, Resumes
      <4> QED
        BY <2>4, <3>1, <4>1, <4>2
    <3>3. ASSUME l + 1 \in 1 .. (L - 1)
          PROVE  frames'[l + 1].as # r
      BY <1>1, <2>4, <2>5, <2>6, <3>3 DEF Waiting
    <3>4. r \in DOMAIN frames'[l].template.subs
      BY <2>5, <2>6, <3>1 DEF Waiting
    <3> QED
      BY <2>3, <3>1, <3>2, <3>3, <3>4 DEF Waiting
  <2>7. \A i \in GadgetInstances : Awaited(i) => Awaited(i)'
    <3> SUFFICES ASSUME NEW i \in GadgetInstances, Awaited(i) PROVE Awaited(i)'
      OBVIOUS
    <3>1. PICK l \in DOMAIN frames : \E r \in DOMAIN frames[l].template.subs :
                 Waiting(l, r) /\ i \in Under(ChildOf(l, r))
      BY DEF Awaited
    <3>2. PICK r \in DOMAIN frames[l].template.subs : Waiting(l, r) /\ i \in Under(ChildOf(l, r))
      BY <3>1
    <3>3. l \in 1 .. (L - 1) /\ Waiting(l, r)'
      BY <2>6, <3>2
    <3>4. ChildOf(l, r)' = ChildOf(l, r)
      BY <2>5, <3>3 DEF ChildOf
    <3>5. Under(ChildOf(l, r))' = Under(ChildOf(l, r))
      BY <1>2, <3>4 DEF Under
    <3>6. l \in DOMAIN frames' /\ r \in DOMAIN frames'[l].template.subs
      BY <2>3, <2>5, <3>2, <3>3
    <3> QED
      BY <3>2, <3>3, <3>5, <3>6 DEF Awaited
  <2>8. \E inst : Sited(inst)'
    BY <1>2, <2>7, StillSited, OutputsSame
  <2>9. Placed'
    BY <1>1, <1>2, <2>3, <2>4, <2>5 DEF SitesInv, Placed
  <2> QED
    BY <1>1, <1>2, <2>1, <2>8, <2>9 DEF SitesInv, Settled
<1> QED
  BY <1>4, <1>5

-----------------------------------------------------------------------------
(* Every step keeps the sites.                                             *)

LEMMA MovesSited ==
  ASSUME IInv, SitesInv, NEW f, ReplaceTop(f), StaysOnTop(f), f.inlined = Top.inlined,
         OutputsGrow, UNCHANGED <<main, sites, status>>
  PROVE  SitesInv'
<1>1. SameInstances
  BY TopMoves DEF IInv, StaysOnTop
<1> QED
  BY <1>1, SameAwaited

LEMMA RealSited == IInv /\ SitesInv /\ VisitReal => SitesInv'
<1> SUFFICES ASSUME IInv, SitesInv, VisitReal PROVE SitesInv'
  OBVIOUS
<1> DEFINE f == Resolved(Top, Len(nodes) + 1)
<1>1. ReplaceTop(f) /\ outputs' = outputs /\ UNCHANGED <<main, sites, status>>
  BY DEF VisitReal
<1>2. StaysOnTop(f) /\ f.inlined = Top.inlined
  BY ResolvedStays
<1> HIDE DEF f
<1> QED
  BY <1>1, <1>2, MovesSited, OutputsSame

LEMMA ReadSited == IInv /\ SitesInv /\ ReadLocalSignal => SitesInv'
<1> SUFFICES ASSUME IInv, SitesInv, ReadLocalSignal PROVE SitesInv'
  OBVIOUS
<1> DEFINE x == Node0.arg
<1>1. ASSUME NEW v, ReplaceTop(Resolved(Top, v)), UNCHANGED <<main, sites, status>>,
             outputs' = IF IsRoot(Top) THEN outputs
                        ELSE Append(outputs, Binding(x + Top.offset, v))
      PROVE  SitesInv'
  <2> DEFINE f == Resolved(Top, v)
  <2>1. StaysOnTop(f) /\ f.inlined = Top.inlined
    BY ResolvedStays
  <2>2. ReplaceTop(f)
    BY <1>1
  <2>3. OutputsGrow
    BY <1>1, OutputsSame, OutputsMore DEF IInv
  <2> HIDE DEF f
  <2> QED
    BY <1>1, <2>1, <2>2, <2>3, MovesSited
<1>2. CASE x \in DOMAIN Top.writes
  BY <1>1, <1>2 DEF ReadLocalSignal
<1>3. CASE x \notin DOMAIN Top.writes /\ IsRoot(Top)
  BY <1>1, <1>3 DEF ReadLocalSignal
<1>4. CASE x \notin DOMAIN Top.writes /\ ~IsRoot(Top) /\ x \in DOMAIN Top.given
  BY <1>1, <1>4 DEF ReadLocalSignal
<1>5. CASE x \notin DOMAIN Top.writes /\ ~IsRoot(Top) /\ x \notin DOMAIN Top.given
  <2>1. Panic
    BY <1>5 DEF ReadLocalSignal
  <2> QED
    BY <2>1, UnmovedSites DEF Panic
<1> QED
  BY <1>2, <1>3, <1>4, <1>5

LEMMA WriteSited == IInv /\ SitesInv /\ WriteLocalSignal => SitesInv'
<1> SUFFICES ASSUME IInv, SitesInv, WriteLocalSignal PROVE SitesInv'
  OBVIOUS
<1> DEFINE b == Binding(Node0.arg + Top.offset, Top.remap[Node0.in[1]])
           e == Consumed(Top)
           f == [e EXCEPT !.writes = Inserted(@, Node0.arg, Top.remap[Node0.in[1]])]
<1>1. ReplaceTop(f) /\ outputs' = Append(outputs, b) /\ UNCHANGED <<main, sites, status>>
  BY DEF WriteLocalSignal
<1>2. StaysOnTop(e) /\ e.inlined = Top.inlined
  BY ResolvedStays DEF Consumed
<1> HIDE DEF b, e
<1>3. f.template = Top.template /\ f.offset = Top.offset /\ f.as = Top.as /\ f.inlined = Top.inlined
  BY <1>2 DEF StaysOnTop, IsFrame
<1> HIDE DEF f
<1>4. SameInstances
  BY <1>1, <1>3, TopMoves DEF IInv
<1>5. OutputsGrow
  BY <1>1, OutputsMore DEF IInv
<1> QED
  BY <1>1, <1>4, <1>5, SameAwaited

LEMMA StoreSited == IInv /\ SitesInv /\ StoreSubCmpInput => SitesInv'
<1> SUFFICES ASSUME IInv, SitesInv, StoreSubCmpInput PROVE SitesInv'
  OBVIOUS
<1> DEFINE e == Consumed(Top)
           f == [e EXCEPT !.stored[Node0.sub] =
                            Inserted(@, Node0.arg, Top.remap[Node0.in[1]])]
<1>1. ReplaceTop(f) /\ outputs' = outputs /\ UNCHANGED <<main, sites, status>>
  BY DEF StoreSubCmpInput
<1>2. StaysOnTop(e) /\ e.inlined = Top.inlined
  BY ResolvedStays DEF Consumed
<1> HIDE DEF e
<1>3. f.template = Top.template /\ f.offset = Top.offset /\ f.as = Top.as /\ f.inlined = Top.inlined
  BY <1>2 DEF StaysOnTop, IsFrame
<1> HIDE DEF f
<1>4. SameInstances
  BY <1>1, <1>3, TopMoves DEF IInv
<1> QED
  BY <1>1, <1>4, OutputsSame, SameAwaited

LEMMA InstanceSited ==
  ASSUME IInv, SitesInv, NEW s \in DOMAIN Top.template.subs, s \notin DOMAIN Top.inlined,
         status = "running", InlineInstance(s)
  PROVE  SitesInv'
<1>1. CASE IsGadget(Top.template.subs[s])
  BY <1>1, GadgetSited DEF InlineInstance
<1>2. CASE ~IsGadget(Top.template.subs[s])
  BY <1>2, CallSited DEF InlineInstance
<1> QED
  BY <1>1, <1>2

LEMMA OutputSited == IInv /\ SitesInv /\ ReadSubCmpOutput => SitesInv'
<1> SUFFICES ASSUME IInv, SitesInv, ReadSubCmpOutput PROVE SitesInv'
  OBVIOUS
<1> DEFINE s == Node0.sub
<1>1. Visiting({"SubCmpOutput"})
  BY DEF ReadSubCmpOutput
<1>2. s \in DOMAIN Top.template.subs /\ status = "running"
  BY <1>1, Visited DEF RefersTo, Visiting
<1>3. CASE s \notin DOMAIN Top.inlined
  <2>1. InlineInstance(s)
    BY <1>3 DEF ReadSubCmpOutput
  <2> QED
    BY <1>2, <1>3, <2>1, InstanceSited
<1>4. CASE s \in DOMAIN Top.inlined
  <2> DEFINE ports == Top.inlined[s]
             f == Resolved(Top, ports[Node0.arg])
  <2>1. CASE Node0.arg \notin DOMAIN ports
    <3>1. Panic
      BY <1>4, <2>1 DEF ReadSubCmpOutput
    <3> QED
      BY <3>1, UnmovedSites DEF Panic
  <2>2. CASE Node0.arg \in DOMAIN ports
    <3>1. ReplaceTop(f) /\ outputs' = outputs /\ UNCHANGED <<main, sites, status>>
      BY <1>4, <2>2 DEF ReadSubCmpOutput
    <3>2. StaysOnTop(f) /\ f.inlined = Top.inlined
      BY ResolvedStays
    <3> HIDE DEF f
    <3> QED
      BY <3>1, <3>2, MovesSited, OutputsSame
  <2> QED
    BY <2>1, <2>2
<1> QED
  BY <1>3, <1>4

LEMMA RemainingSited == IInv /\ SitesInv /\ InlineRemaining => SitesInv'
<1> SUFFICES ASSUME IInv, SitesInv, InlineRemaining PROVE SitesInv'
  OBVIOUS
<1> DEFINE s == Min(Remaining(Top))
<1>1. s \in Remaining(Top)
  <2>1. Top.template \in AllTemplates
    BY TopFacts DEF IInv, Walks
  <2>2. DOMAIN Top.template.subs \in SUBSET Nat
    BY <2>1, MainsAssumption DEF WellTypedTemplate
  <2>3. Remaining(Top) \in SUBSET Nat /\ Remaining(Top) # {}
    BY <2>2 DEF InlineRemaining, Remaining
  <2>4. \E m \in Remaining(Top) : \A n \in Remaining(Top) : m <= n
    BY <2>3, LeastElement
  <2> QED
    BY <2>4 DEF Min
<1>2. /\ InlineInstance(s) /\ s \in DOMAIN Top.template.subs /\ s \notin DOMAIN Top.inlined
      /\ status = "running"
  BY <1>1 DEF InlineRemaining, Remaining, AtEnd
<1> HIDE DEF s
<1> QED
  BY <1>2, InstanceSited

LEMMA StepSited == IInv /\ SitesInv /\ [Next]_vars => SitesInv'
<1> SUFFICES ASSUME IInv, SitesInv, [Next]_vars PROVE SitesInv'
  OBVIOUS
<1>1. CASE VisitReal
  BY <1>1, RealSited
<1>2. CASE ReadLocalSignal
  BY <1>2, ReadSited
<1>3. CASE WriteLocalSignal
  BY <1>3, WriteSited
<1>4. CASE StoreSubCmpInput
  BY <1>4, StoreSited
<1>5. CASE ReadSubCmpOutput
  BY <1>5, OutputSited
<1>6. CASE InlineRemaining
  BY <1>6, RemainingSited
<1>7. CASE Return
  BY <1>7, ReturnSited
<1>8. CASE Finished
  BY <1>8, UnmovedSites DEF Finished, vars
<1>9. CASE UNCHANGED vars
  BY <1>9, UnmovedSites DEF vars
<1> QED
  BY <1>1, <1>2, <1>3, <1>4, <1>5, <1>6, <1>7, <1>8, <1>9 DEF Next

(* In the beginning every gadget of the tree is below a component of main. *)
LEMMA StartsSited == Init => SitesInv
<1> SUFFICES ASSUME Init PROVE SitesInv
  OBVIOUS
<1> DEFINE f == Frame(main, 0, TRUE, Empty, 0)
           root == Instance0(main)
<1>1. main \in Mains /\ sites = <<>> /\ frames = <<f>> /\ status = "running"
  BY DEF Init
<1>2. f.template = main /\ f.offset = 0 /\ f.inlined = Empty /\ f.as = 0
  BY DEF Frame
<1> HIDE DEF f
<1>3. DOMAIN frames = {1} /\ frames[1] = f /\ Len(frames) = 1
  BY <1>1
<1>4. root \in Instances(main) /\ root.sub.template = main /\ root.offset = 0 /\ ~IsGadget(root.sub)
  BY <1>1, InstancesClosed DEF Instance0, Compiled, IsGadget
<1>5. Placed
  BY <1>2, <1>3, <1>4 DEF Placed
<1>6. ASSUME NEW s \in DOMAIN main.subs
      PROVE  Waiting(1, s)
  BY <1>2, <1>3 DEF Waiting, Empty
<1>7. ASSUME NEW i \in GadgetInstances
      PROVE  Awaited(i)
  <2>1. i \in Under(root) /\ IsGadget(i.sub)
    BY <1>1, UnderMain DEF GadgetInstances
  <2>2. PICK b \in Children(root) : i \in Under(b)
    BY <1>1, <1>4, <2>1, UnderTemplate
  <2> HIDE DEF root
  <2>3. PICK s \in DOMAIN main.subs : b = [sub |-> main.subs[s], offset |-> root.offset + main.subs[s].offset]
    BY <1>4 DEF Children, ToSet
  <2>4. ChildOf(1, s) = b
    BY <1>2, <1>3, <1>4, <2>3 DEF ChildOf
  <2>5. 1 \in DOMAIN frames /\ s \in DOMAIN frames[1].template.subs /\ Waiting(1, s)
    BY <1>2, <1>3, <1>6
  <2> QED
    BY <2>2, <2>4, <2>5 DEF Awaited
<1>8. Sited(<<>>)
  <2>1. DOMAIN sites = {}
    BY <1>1
  <2> QED
    BY <1>7, <2>1 DEF Sited
<1>9. sites \in Seq(ToSet(sites))
  BY <1>1, EmptySeq
<1> QED
  BY <1>1, <1>5, <1>8, <1>9 DEF SitesInv, Settled

-----------------------------------------------------------------------------
(* SitesAreInstances.                                                      *)

(* What is sited is counted site by site.                                  *)
LEMMA SitesCounted ==
  ASSUME SitesInv, status = "done", NEW v
  PROVE  Cardinality({s \in DOMAIN sites : sites[s] = v})
           = Cardinality({i \in GadgetInstances : SiteOfInstance(i) = v})
<1> DEFINE S == {s \in DOMAIN sites : sites[s] = v}
           T == {i \in GadgetInstances : SiteOfInstance(i) = v}
<1>1. PICK inst : Sited(inst)
  BY DEF SitesInv
<1>2. \A i \in GadgetInstances : ~Awaited(i)
  BY DEF SitesInv, Settled, Awaited
<1>3. \A i \in GadgetInstances : \E k \in DOMAIN sites : inst[k] = i
  BY <1>1, <1>2 DEF Sited
<1>4. IsFiniteSet(S)
  <2>1. Len(sites) \in Nat /\ DOMAIN sites = 1 .. Len(sites)
    BY LenProperties DEF SitesInv
  <2>2. IsFiniteSet(1 .. Len(sites))
    BY <2>1, FS_Interval
  <2> QED
    BY <2>1, <2>2, FS_Subset
<1> DEFINE g == [s \in S |-> inst[s]]
<1>5. g \in [S -> T]
  BY <1>1 DEF Sited
<1>6. \A a, b \in S : g[a] = g[b] => a = b
  BY <1>1 DEF Sited
<1>7. \A i \in T : \E s \in S : g[s] = i
  BY <1>1, <1>3 DEF Sited
<1> HIDE DEF S, T, g
<1>8. g \in Bijection(S, T)
  BY <1>5, <1>6, <1>7, Fun_IsBij
<1>9. ExistsBijection(S, T)
  BY <1>8, Fun_ExistsBij
<1>10. Cardinality(T) = Cardinality(S)
  BY <1>4, <1>9, FS_Bijection
<1> QED
  BY <1>10 DEF S, T

(* Inlining makes one site of every gadget instance of the tree, read or   *)
(* not, however deep it is and in whatever order the components' outputs   *)
(* are read: no instance is forgotten and none is served twice.            *)
THEOREM EveryInstanceASite == Spec => []SitesAreInstances
<1>1. SitesInv => SitesAreInstances
  BY SitesCounted DEF SitesAreInstances
<1> QED
  BY <1>1, StartsWell, StepKeeps, StartsSited, StepSited, PTL DEF Spec

-----------------------------------------------------------------------------
(* PanicsOnlyOnLayout.                                                     *)

(* A frame has stored what the nodes it passed store; one that has a       *)
(* creator was given all its inputs; and what a component offers is there  *)
(* once it is inlined.                                                     *)
Feeds(f) ==
  /\ \A n \in 1 .. (f.at - 1) :
       /\ f.nodes[n].op = "LocalSignalWrite" => f.nodes[n].arg \in DOMAIN f.writes
       /\ f.nodes[n].op = "SubCmpInput" => f.nodes[n].arg \in DOMAIN f.stored[f.nodes[n].sub]
  /\ ~f.root => Inputs(f.template) \subseteq DOMAIN f.given
  /\ \A s \in DOMAIN f.inlined : Offers(f.template.subs[s]) \subseteq DOMAIN f.inlined[s]

Fed == \A l \in DOMAIN frames : Feeds(frames[l])

(* What it panics on is a gadget's layout.                                 *)
Blamed == status = "panicked" => \E i \in GadgetInstances : ~Canonical(i)

FedInv ==
  /\ Fed /\ Blamed
  /\ status \in {"running", "done", "panicked"}

(* What has been stored can be read.                                       *)
LEMMA StoredIsThere ==
  ASSUME NEW f, Feeds(f)
  PROVE  /\ \A x : Stored(f.nodes, f.at, Signal(x)) => x \in DOMAIN f.writes
         /\ \A s, x : Stored(f.nodes, f.at, Port(s, x)) => x \in DOMAIN f.stored[s]
<1>1. ASSUME NEW x, Stored(f.nodes, f.at, Signal(x))
      PROVE  x \in DOMAIN f.writes
  <2>1. PICK n \in 1 .. (f.at - 1) : Signal(x) \in Stores(f.nodes[n])
    BY <1>1 DEF Stored
  <2>2. f.nodes[n].op = "LocalSignalWrite" /\ Signal(x) = Signal(f.nodes[n].arg)
    BY <2>1 DEF Stores, Signal, Port
  <2>3. f.nodes[n].arg = x
    BY <2>2 DEF Signal
  <2> QED
    BY <2>2, <2>3 DEF Feeds
<1>2. ASSUME NEW s, NEW x, Stored(f.nodes, f.at, Port(s, x))
      PROVE  x \in DOMAIN f.stored[s]
  <2>1. PICK n \in 1 .. (f.at - 1) : Port(s, x) \in Stores(f.nodes[n])
    BY <1>2 DEF Stored
  <2>2. f.nodes[n].op = "SubCmpInput" /\ Port(s, x) = Port(f.nodes[n].sub, f.nodes[n].arg)
    BY <2>1 DEF Stores, Signal, Port
  <2>3. f.nodes[n].arg = x /\ f.nodes[n].sub = s
    BY <2>2 DEF Port
  <2> QED
    BY <2>2, <2>3 DEF Feeds
<1> QED
  BY <1>1, <1>2

LEMMA TopFed ==
  ASSUME FramesOK, Fed, NEW f, ReplaceTop(f), Feeds(f)
  PROVE  Fed'
<1>1. /\ Len(frames) \in DOMAIN frames
  BY TopFacts
<1>2. frames' = [l \in DOMAIN frames |-> IF l = Len(frames) THEN f ELSE frames[l]]
  BY <1>1 DEF ReplaceTop
<1>3. \A l \in DOMAIN frames' : Feeds(frames'[l])
  BY <1>1, <1>2 DEF Fed
<1> QED
  BY <1>3 DEF Fed, Feeds

LEMMA UnmovedFed ==
  ASSUME FedInv, UNCHANGED <<main, frames>>, status' \in {status, "done"}
  PROVE  FedInv'
<1>1. GadgetInstances' = GadgetInstances
  BY DEF GadgetInstances
<1> QED
  BY <1>1 DEF FedInv, Fed, Blamed, Canonical

(* A step that goes on.                                                    *)
LEMMA TopFedInv ==
  ASSUME IInv, FedInv, NEW f, ReplaceTop(f), Feeds(f), UNCHANGED <<main, status>>
  PROVE  FedInv'
<1>1. GadgetInstances' = GadgetInstances
  BY DEF GadgetInstances
<1>2. Fed'
  BY TopFed DEF FedInv, IInv
<1> QED
  BY <1>1, <1>2 DEF FedInv, Blamed, Canonical

LEMMA TopFeeds ==
  ASSUME IInv, Fed
  PROVE  Feeds(Top)
BY TopFacts DEF IInv, Fed

(* The next node stores nothing.                                           *)
LEMMA ResolvedFeeds ==
  ASSUME IInv, Fed, NEW v, Node0.op \notin {"LocalSignalWrite", "SubCmpInput"}
  PROVE  Feeds(Resolved(Top, v))
<1> PICK f : f = Resolved(Top, v)
  OBVIOUS
<1>1. /\ f.inlined = Top.inlined /\ f.writes = Top.writes /\ f.given = Top.given
      /\ f.stored = Top.stored /\ f.template = Top.template /\ f.nodes = Top.nodes
      /\ f.root = Top.root /\ f.at = Top.at + 1
  BY ResolvedStays
<1>2. Feeds(Top) /\ Top.at \in Nat \ {0}
  BY TopFeeds, TopFacts DEF IInv, Walks
<1>3. \A n \in 1 .. (f.at - 1) : n \in 1 .. (Top.at - 1) \/ n = Top.at
  BY <1>1, <1>2
<1>4. \A n \in 1 .. (f.at - 1) :
        /\ f.nodes[n].op = "LocalSignalWrite" => f.nodes[n].arg \in DOMAIN f.writes
        /\ f.nodes[n].op = "SubCmpInput" => f.nodes[n].arg \in DOMAIN f.stored[f.nodes[n].sub]
  BY <1>1, <1>2, <1>3 DEF Feeds, Node0
<1>5. Feeds(f)
  BY <1>1, <1>2, <1>4 DEF Feeds
<1> QED
  BY <1>5

LEMMA RealFed == IInv /\ FedInv /\ VisitReal => FedInv'
<1> SUFFICES ASSUME IInv, FedInv, VisitReal PROVE FedInv'
  OBVIOUS
<1> DEFINE f == Resolved(Top, Len(nodes) + 1)
<1>1. ReplaceTop(f) /\ UNCHANGED <<main, status>>
  BY DEF VisitReal
<1>2. Node0.op \notin {"LocalSignalWrite", "SubCmpInput"}
  BY DEF VisitReal, Visiting, Node0, ArithOps
<1>3. Feeds(f)
  BY <1>2, ResolvedFeeds DEF FedInv
<1> HIDE DEF f
<1> QED
  BY <1>1, <1>3, TopFedInv

LEMMA ReadFed == IInv /\ FedInv /\ ReadLocalSignal => FedInv'
<1> SUFFICES ASSUME IInv, FedInv, ReadLocalSignal PROVE FedInv'
  OBVIOUS
<1> DEFINE x == Node0.arg
<1>1. Visiting({"LocalSignal"})
  BY DEF ReadLocalSignal
<1>2. /\ Node0.op = "LocalSignal" /\ Top.template \in AllTemplates
      /\ Top.nodes = Parse(Top.template)
      /\ Top.at \in DOMAIN Top.nodes /\ Node0 = Top.nodes[Top.at]
  BY <1>1, Visited
<1>3. ASSUME NEW v, ReplaceTop(Resolved(Top, v)), UNCHANGED <<main, status>>
      PROVE  FedInv'
  <2>1. Feeds(Resolved(Top, v))
    BY <1>2, ResolvedFeeds DEF FedInv
  <2> QED
    BY <1>3, <2>1, TopFedInv
<1>4. CASE x \in DOMAIN Top.writes
  BY <1>3, <1>4 DEF ReadLocalSignal
<1>5. CASE x \notin DOMAIN Top.writes /\ IsRoot(Top)
  BY <1>3, <1>5 DEF ReadLocalSignal
<1>6. CASE x \notin DOMAIN Top.writes /\ ~IsRoot(Top) /\ x \in DOMAIN Top.given
  BY <1>3, <1>6 DEF ReadLocalSignal
<1>7. x \in DOMAIN Top.writes \/ IsRoot(Top) \/ x \in DOMAIN Top.given
  <2>1. Feeds(Top)
    BY TopFeeds DEF FedInv
  <2>2. x \in Inputs(Top.template) \/ Stored(Top.nodes, Top.at, Signal(x))
    BY <1>2, ParseFacts DEF Prepared
  <2>3. CASE x \in Inputs(Top.template)
    BY <2>1, <2>3 DEF Feeds, IsRoot
  <2>4. CASE Stored(Top.nodes, Top.at, Signal(x))
    BY <2>1, <2>4, StoredIsThere
  <2> QED
    BY <2>2, <2>3, <2>4
<1> QED
  BY <1>4, <1>5, <1>6, <1>7

LEMMA WriteFed == IInv /\ FedInv /\ WriteLocalSignal => FedInv'
<1> SUFFICES ASSUME IInv, FedInv, WriteLocalSignal PROVE FedInv'
  OBVIOUS
<1> DEFINE e == Consumed(Top)
           v == Top.remap[Node0.in[1]]
           f == [e EXCEPT !.writes = Inserted(@, Node0.arg, v)]
<1>1. ReplaceTop(f) /\ UNCHANGED <<main, status>> /\ Visiting({"LocalSignalWrite"})
  BY DEF WriteLocalSignal
<1>2. /\ e.inlined = Top.inlined /\ e.writes = Top.writes /\ e.given = Top.given
      /\ e.stored = Top.stored /\ e.template = Top.template /\ e.nodes = Top.nodes
      /\ e.root = Top.root /\ e.at = Top.at + 1 /\ IsFrame(e)
  BY ResolvedStays DEF Consumed, StaysOnTop
<1>3. Feeds(Top) /\ Top.at \in Nat \ {0} /\ Node0 = Top.nodes[Top.at]
      /\ Node0.op = "LocalSignalWrite"
  BY <1>1, TopFeeds, Visited DEF FedInv
<1> HIDE DEF e, v
<1>4. /\ f.inlined = Top.inlined /\ f.given = Top.given
      /\ f.stored = Top.stored /\ f.template = Top.template /\ f.nodes = Top.nodes
      /\ f.root = Top.root /\ f.at = Top.at + 1
      /\ f.writes = Inserted(Top.writes, Node0.arg, v)
  BY <1>2 DEF IsFrame
<1> HIDE DEF f
<1>5. DOMAIN f.writes = {Node0.arg} \cup DOMAIN Top.writes
  BY <1>4 DEF Inserted
<1>6. \A n \in 1 .. (f.at - 1) : n \in 1 .. (Top.at - 1) \/ n = Top.at
  BY <1>3, <1>4
<1>7. \A n \in 1 .. (f.at - 1) :
        /\ f.nodes[n].op = "LocalSignalWrite" => f.nodes[n].arg \in DOMAIN f.writes
        /\ f.nodes[n].op = "SubCmpInput" => f.nodes[n].arg \in DOMAIN f.stored[f.nodes[n].sub]
  BY <1>3, <1>4, <1>5, <1>6 DEF Feeds
<1>8. Feeds(f)
  BY <1>3, <1>4, <1>7 DEF Feeds
<1> QED
  BY <1>1, <1>8, TopFedInv

LEMMA StoreFed == IInv /\ FedInv /\ StoreSubCmpInput => FedInv'
<1> SUFFICES ASSUME IInv, FedInv, StoreSubCmpInput PROVE FedInv'
  OBVIOUS
<1> DEFINE e == Consumed(Top)
           v == Top.remap[Node0.in[1]]
           s == Node0.sub
           f == [e EXCEPT !.stored[s] = Inserted(@, Node0.arg, v)]
<1>1. ReplaceTop(f) /\ UNCHANGED <<main, status>> /\ Visiting({"SubCmpInput"})
  BY DEF StoreSubCmpInput
<1>2. /\ e.inlined = Top.inlined /\ e.writes = Top.writes /\ e.given = Top.given
      /\ e.stored = Top.stored /\ e.template = Top.template /\ e.nodes = Top.nodes
      /\ e.root = Top.root /\ e.at = Top.at + 1 /\ IsFrame(e)
  BY ResolvedStays DEF Consumed, StaysOnTop
<1>3. /\ Feeds(Top) /\ Top.at \in Nat \ {0} /\ Node0 = Top.nodes[Top.at]
      /\ Node0.op = "SubCmpInput" /\ s \in DOMAIN Top.template.subs
  BY <1>1, TopFeeds, Visited DEF FedInv, RefersTo
<1>4. DOMAIN Top.stored = DOMAIN Top.template.subs
  BY TopFacts DEF IInv, Walks
<1> HIDE DEF e, v, s
<1>5. /\ f.inlined = Top.inlined /\ f.given = Top.given /\ f.writes = Top.writes
      /\ f.template = Top.template /\ f.nodes = Top.nodes
      /\ f.root = Top.root /\ f.at = Top.at + 1
      /\ f.stored = [Top.stored EXCEPT ![s] = Inserted(@, Node0.arg, v)]
  BY <1>2 DEF IsFrame
<1> HIDE DEF f
<1>6. DOMAIN f.stored[s] = {Node0.arg} \cup DOMAIN Top.stored[s]
  <2>1. f.stored[s] = Inserted(Top.stored[s], Node0.arg, v)
    BY <1>3, <1>4, <1>5
  <2> QED
    BY <2>1 DEF Inserted
<1>7. \A r \in DOMAIN Top.template.subs : DOMAIN Top.stored[r] \subseteq DOMAIN f.stored[r]
  <2>1. \A r \in DOMAIN Top.template.subs : r # s => f.stored[r] = Top.stored[r]
    BY <1>4, <1>5
  <2> QED
    BY <1>6, <2>1
<1>8. \A n \in 1 .. (f.at - 1) : n \in 1 .. (Top.at - 1) \/ n = Top.at
  BY <1>3, <1>5
<1>11. \A n \in 1 .. (f.at - 1) :
         f.nodes[n].op = "SubCmpInput" => f.nodes[n].sub \in DOMAIN Top.template.subs
  <2>1. /\ Top.template \in AllTemplates /\ Top.nodes = Parse(Top.template)
        /\ Top.at \in DOMAIN Top.nodes
    BY <1>1, Visited
  <2>2. \A n \in 1 .. (f.at - 1) : n \in DOMAIN Top.nodes
    BY <1>3, <1>5, <2>1, ParseFacts
  <2> QED
    BY <1>5, <2>1, <2>2, ParseFacts DEF RefersTo
<1>9. \A n \in 1 .. (f.at - 1) :
        /\ f.nodes[n].op = "LocalSignalWrite" => f.nodes[n].arg \in DOMAIN f.writes
        /\ f.nodes[n].op = "SubCmpInput" => f.nodes[n].arg \in DOMAIN f.stored[f.nodes[n].sub]
  BY <1>3, <1>5, <1>6, <1>7, <1>8, <1>11 DEF Feeds, s
<1>10. Feeds(f)
  BY <1>3, <1>5, <1>9 DEF Feeds
<1> QED
  BY <1>1, <1>10, TopFedInv

(* All inputs of a component that is to be inlined have been stored.       *)
Fueled(s) == Inputs(Top.template.subs[s]) \subseteq DOMAIN Top.stored[s]

LEMMA GadgetFed ==
  ASSUME IInv, SitesInv, FedInv, NEW s \in DOMAIN Top.template.subs,
         IsGadget(Top.template.subs[s]), Fueled(s), InlineGadget(s)
  PROVE  FedInv'
<1> DEFINE sub     == Top.template.subs[s]
           results == sub.outs + sub.inters
           given   == Top.stored[s]
           ports   == [k \in 1 .. sub.ins |-> InputSignal(sub, k - 1)]
           made    == [slot \in 0 .. (sub.outs - 1) |-> Len(nodes) + 2 + slot]
           f       == [Top EXCEPT !.inlined = Inserted(@, s, made)]
           L       == Len(frames)
           c       == ChildOf(L, s)
<1>1. /\ IsFrame(Top) /\ Walks(Top) /\ Top = frames[L] /\ L \in DOMAIN frames
  BY TopFacts DEF IInv
<1>2. ToSet(ports) \subseteq DOMAIN given
  <2>1. sub.outs \in Nat /\ sub.ins \in Nat
    <3>1. Top.template \in AllTemplates
      BY <1>1 DEF Walks
    <3> QED
      BY <3>1, MainsAssumption DEF WellTypedTemplate
  <2> HIDE DEF sub, given
  <2>2. ASSUME NEW k \in 1 .. sub.ins
        PROVE  InputSignal(sub, k - 1) \in Inputs(sub)
    <3>1. k - 1 \in 0 .. (sub.ins - 1)
      BY <2>1
    <3> QED
      BY <3>1 DEF InputSignal, Inputs
  <2>3. Inputs(sub) \subseteq DOMAIN given
    BY DEF Fueled, sub, given
  <2> QED
    BY <2>2, <2>3 DEF ToSet
<1>3. \/ /\ results # ExpectedResults(sub.kind)
         /\ UNCHANGED <<main, frames>> /\ status' = "panicked"
      \/ ReplaceTop(f) /\ UNCHANGED <<main, status>>
  BY <1>2 DEF InlineGadget, Panic
<1>4. CASE results # ExpectedResults(sub.kind) /\ UNCHANGED <<main, frames>> /\ status' = "panicked"
  <2>1. GadgetInstances' = GadgetInstances
    BY <1>4 DEF GadgetInstances
  <2>2. c \in Instances(main) /\ c.sub = sub
    BY <1>1, ChildPlaced DEF ChildOf
  <2>3. c \in GadgetInstances /\ ~Canonical(c)
    <3> HIDE DEF c
    <3> QED
      BY <1>4, <2>2 DEF GadgetInstances, Canonical
  <2> HIDE DEF c
  <2> QED
    BY <1>4, <2>1, <2>3 DEF FedInv, Fed, Blamed, Canonical
<1>5. CASE ReplaceTop(f) /\ UNCHANGED <<main, status>>
  <2>1. f = [template |-> Top.template, nodes |-> Top.nodes, offset |-> Top.offset,
             root |-> Top.root, given |-> Top.given, as |-> Top.as, at |-> Top.at,
             remap |-> Top.remap, writes |-> Top.writes, stored |-> Top.stored,
             inlined |-> Inserted(Top.inlined, s, made)]
    BY <1>1 DEF IsFrame
  <2> HIDE DEF f
  <2>2. Feeds(Top)
    BY TopFeeds DEF FedInv
  <2>3. DOMAIN made = Offers(sub)
    BY DEF Offers
  <2> HIDE DEF made, sub
  <2>4. /\ f.inlined = Inserted(Top.inlined, s, made)
        /\ f.template = Top.template /\ f.nodes = Top.nodes /\ f.at = Top.at
        /\ f.root = Top.root /\ f.given = Top.given /\ f.writes = Top.writes
        /\ f.stored = Top.stored
    BY <2>1
  <2>5. ASSUME NEW r \in DOMAIN f.inlined
        PROVE  Offers(f.template.subs[r]) \subseteq DOMAIN f.inlined[r]
    <3>1. r = s \/ r \in DOMAIN Top.inlined
      BY <2>4 DEF Inserted
    <3>2. CASE r = s
      <4>1. f.inlined[r] = made
        BY <2>4, <3>2 DEF Inserted
      <4> QED
        BY <2>3, <2>4, <3>2, <4>1 DEF sub
    <3>3. CASE r # s
      <4>1. f.inlined[r] = Top.inlined[r]
        BY <2>4, <3>1, <3>3 DEF Inserted
      <4> QED
        BY <2>2, <2>4, <3>1, <3>3, <4>1 DEF Feeds
    <3> QED
      BY <3>2, <3>3
  <2>6. Feeds(f)
    BY <2>2, <2>4, <2>5 DEF Feeds
  <2> QED
    BY <1>5, <2>6, TopFedInv
<1> QED
  BY <1>3, <1>4, <1>5

LEMMA CallFed ==
  ASSUME IInv, FedInv, NEW s \in DOMAIN Top.template.subs, ~IsGadget(Top.template.subs[s]),
         Fueled(s),
         frames' = Append(frames, Frame(Top.template.subs[s].template, OffsetOf(s), FALSE,
                                        Top.stored[s], s)),
         UNCHANGED <<main, status>>
  PROVE  FedInv'
<1> DEFINE sub == Top.template.subs[s]
           f   == Frame(sub.template, OffsetOf(s), FALSE, Top.stored[s], s)
<1>1. GadgetInstances' = GadgetInstances
  BY DEF GadgetInstances
<1>2. /\ f.template = sub.template /\ f.given = Top.stored[s] /\ f.at = 1 /\ f.inlined = Empty
  BY DEF Frame
<1> HIDE DEF f
<1>3. Inputs(sub) = Inputs(sub.template)
  <2>1. Top.template \in AllTemplates
    BY TopFacts DEF IInv, Walks
  <2> QED
    BY <2>1, Instance
<1>4. Feeds(f)
  <2>1. DOMAIN f.inlined = {}
    BY <1>2 DEF Empty
  <2>2. 1 .. (f.at - 1) = {}
    BY <1>2
  <2>3. Inputs(f.template) \subseteq DOMAIN f.given
    BY <1>2, <1>3 DEF Fueled
  <2> QED
    BY <2>1, <2>2, <2>3 DEF Feeds
<1>5. frames' = Append(frames, f)
  BY DEF f
<1>6. /\ \A l \in DOMAIN frames' : l \in DOMAIN frames \/ l = Len(frames) + 1
      /\ \A l \in DOMAIN frames : frames'[l] = frames[l]
      /\ frames'[Len(frames) + 1] = f
  <2>1. frames \in Seq(ToSet(frames))
    BY DEF IInv, FramesOK
  <2>2. /\ Len(frames) \in Nat /\ DOMAIN frames = 1 .. Len(frames)
        /\ DOMAIN Append(frames, f) = 1 .. (Len(frames) + 1)
        /\ \A j \in 1 .. Len(frames) : Append(frames, f)[j] = frames[j]
        /\ Append(frames, f)[Len(frames) + 1] = f
    BY <2>1, Grown
  <2>3. \A l \in 1 .. (Len(frames) + 1) : l \in 1 .. Len(frames) \/ l = Len(frames) + 1
    BY <2>2
  <2> QED
    BY <1>5, <2>2, <2>3
<1>7. \A l \in DOMAIN frames' : Feeds(frames'[l])
  BY <1>4, <1>6 DEF FedInv, Fed
<1>8. Fed'
  BY <1>7 DEF Fed, Feeds
<1> QED
  BY <1>1, <1>8 DEF FedInv, Blamed, Canonical

LEMMA ReturnFed == IInv /\ FedInv /\ Return => FedInv'
<1> SUFFICES ASSUME IInv, FedInv, Return PROVE FedInv'
  OBVIOUS
<1> PICK L : L = Len(frames)
  OBVIOUS
<1>1. /\ L \in Nat \ {0} /\ DOMAIN frames = 1 .. L /\ L \in DOMAIN frames
      /\ Top = frames[L] /\ Walks(Top)
  BY TopFacts DEF IInv
<1>2. GadgetInstances' = GadgetInstances
  BY DEF Return, GadgetInstances
<1>3. CASE L = 1
  <2>1. UNCHANGED <<main, frames>> /\ status' = "done"
    BY <1>3 DEF Return
  <2> QED
    BY <2>1, UnmovedFed
<1>4. CASE L # 1
  <2>1. PICK g, creator :
          /\ g = frames'[L - 1] /\ creator = frames[L - 1]
          /\ Resumes(g, creator, Top.as, Top.writes)
    BY <1>4, Popped
  <2>2. /\ DOMAIN frames' = 1 .. (L - 1)
        /\ \A l \in 1 .. (L - 2) : frames'[l] = frames[l]
    BY <1>4, Popped
  <2>3. L - 1 \in DOMAIN frames /\ L - 1 + 1 = L
    BY <1>1, <1>4
  <2>4. Feeds(creator)
    BY <2>1, <2>3 DEF FedInv, Fed
  <2>5. /\ ~IsGadget(creator.template.subs[Top.as])
        /\ Top.template = creator.template.subs[Top.as].template
    BY <1>1, <2>1, <2>3 DEF IInv, Called
  <2>6. Offers(creator.template.subs[Top.as]) \subseteq DOMAIN Top.writes
    <3> DEFINE t == Top.template
    <3>1. t \in AllTemplates /\ Top.nodes = Parse(t) /\ Top.at \in Nat
      BY <1>1 DEF Walks
    <3> SUFFICES ASSUME NEW a \in Assigned(t, Len(t.body) + 1), a.kind = "Signal"
                 PROVE  a.index \in DOMAIN Top.writes
      BY <2>5 DEF Offers
    <3>2. PICK n \in DOMAIN Top.nodes : a \in Stores(Top.nodes[n])
      BY <3>1, ParseFacts
    <3>3. Top.at > Len(Top.nodes) /\ Len(Top.nodes) \in Nat /\ DOMAIN Top.nodes = 1 .. Len(Top.nodes)
      BY <3>1, ParseFacts DEF Return, AtEnd
    <3>4. n \in 1 .. (Top.at - 1)
      BY <3>1, <3>3
    <3>5. Top.nodes[n].op = "LocalSignalWrite" /\ a = Signal(Top.nodes[n].arg)
      BY <3>2 DEF Stores, Signal, Port
    <3>6. Feeds(Top)
      BY TopFeeds DEF FedInv
    <3> QED
      BY <3>4, <3>5, <3>6 DEF Feeds, Signal
  <2>7. ASSUME NEW r \in DOMAIN g.inlined
        PROVE  Offers(g.template.subs[r]) \subseteq DOMAIN g.inlined[r]
    <3>1. CASE r = Top.as
      <4>1. g.inlined[r] = Top.writes
        BY <2>1, <3>1 DEF Inserted, Resumes
      <4> QED
        BY <2>1, <2>6, <3>1, <4>1 DEF Resumes
    <3>2. CASE r # Top.as
      <4>1. r \in DOMAIN creator.inlined /\ g.inlined[r] = creator.inlined[r]
        BY <2>1, <3>2 DEF Inserted, Resumes
      <4> QED
        BY <2>1, <2>4, <4>1 DEF Feeds, Resumes
    <3> QED
      BY <3>1, <3>2
  <2>8. Feeds(g)
    BY <2>1, <2>4, <2>7 DEF Feeds, Resumes
  <2>9. \A l \in DOMAIN frames' : Feeds(frames'[l])
    <3> SUFFICES ASSUME NEW l \in 1 .. (L - 1) PROVE Feeds(frames'[l])
      BY <2>2
    <3>1. CASE l = L - 1
      BY <2>1, <2>8, <3>1
    <3>2. CASE l # L - 1
      <4>1. l \in 1 .. (L - 2) /\ l \in DOMAIN frames
        BY <1>1, <3>2
      <4> QED
        BY <2>2, <4>1 DEF FedInv, Fed
    <3> QED
      BY <3>1, <3>2
  <2>10. Fed'
    BY <2>9 DEF Fed, Feeds
  <2>11. main' = main /\ status' = status
    BY <1>4 DEF Return
  <2> QED
    BY <1>2, <2>10, <2>11 DEF FedInv, Blamed, Canonical
<1> QED
  BY <1>3, <1>4

LEMMA InstanceFed ==
  ASSUME IInv, SitesInv, FedInv, NEW s \in DOMAIN Top.template.subs, Fueled(s), InlineInstance(s)
  PROVE  FedInv'
<1>1. CASE IsGadget(Top.template.subs[s])
  BY <1>1, GadgetFed DEF InlineInstance
<1>2. CASE ~IsGadget(Top.template.subs[s])
  BY <1>2, CallFed DEF InlineInstance
<1> QED
  BY <1>1, <1>2

LEMMA OutputFed == IInv /\ SitesInv /\ FedInv /\ ReadSubCmpOutput => FedInv'
<1> SUFFICES ASSUME IInv, SitesInv, FedInv, ReadSubCmpOutput PROVE FedInv'
  OBVIOUS
<1> DEFINE s == Node0.sub
<1>1. Visiting({"SubCmpOutput"})
  BY DEF ReadSubCmpOutput
<1>2. /\ s \in DOMAIN Top.template.subs /\ Node0.op = "SubCmpOutput"
      /\ Top.template \in AllTemplates /\ Top.nodes = Parse(Top.template)
      /\ Top.at \in DOMAIN Top.nodes /\ Node0 = Top.nodes[Top.at]
  BY <1>1, Visited DEF RefersTo
<1>3. /\ Node0.arg \in Offers(Top.template.subs[s])
      /\ \A port \in Inputs(Top.template.subs[s]) : Stored(Top.nodes, Top.at, Port(s, port))
  <2>1. Prepared(Top.template, Top.nodes, Top.at, Node0)
    BY <1>2, ParseFacts
  <2> QED
    BY <1>2, <2>1 DEF Prepared
<1>4. Feeds(Top)
  BY TopFeeds DEF FedInv
<1>5. CASE s \notin DOMAIN Top.inlined
  <2>1. InlineInstance(s)
    BY <1>5 DEF ReadSubCmpOutput
  <2>2. Fueled(s)
    BY <1>3, <1>4, StoredIsThere DEF Fueled
  <2> QED
    BY <1>2, <2>1, <2>2, InstanceFed
<1>6. CASE s \in DOMAIN Top.inlined
  <2> DEFINE f == Resolved(Top, Top.inlined[s][Node0.arg])
  <2>1. Node0.arg \in DOMAIN Top.inlined[s]
    BY <1>3, <1>4, <1>6 DEF Feeds
  <2>2. ReplaceTop(f) /\ UNCHANGED <<main, status>>
    BY <1>6, <2>1 DEF ReadSubCmpOutput
  <2>3. Feeds(f)
    BY <1>2, ResolvedFeeds DEF FedInv
  <2> HIDE DEF f
  <2> QED
    BY <2>2, <2>3, TopFedInv
<1> QED
  BY <1>5, <1>6

LEMMA RemainingFed == IInv /\ SitesInv /\ FedInv /\ InlineRemaining => FedInv'
<1> SUFFICES ASSUME IInv, SitesInv, FedInv, InlineRemaining PROVE FedInv'
  OBVIOUS
<1> DEFINE s == Min(Remaining(Top))
           t == Top.template
<1>1. t \in AllTemplates /\ Top.nodes = Parse(t) /\ Top.at \in Nat
  BY TopFacts DEF IInv, Walks
<1>2. WellTypedTemplate(t) /\ Accepted(t)
  BY <1>1, MainsAssumption
<1>3. s \in Remaining(Top)
  <2>1. Remaining(Top) \in SUBSET Nat /\ Remaining(Top) # {}
    BY <1>2 DEF WellTypedTemplate, InlineRemaining, Remaining
  <2>2. \E m \in Remaining(Top) : \A n \in Remaining(Top) : m <= n
    BY <2>1, LeastElement
  <2> QED
    BY <2>2 DEF Min
<1>4. InlineInstance(s) /\ s \in DOMAIN t.subs
  BY <1>3 DEF InlineRemaining, Remaining
<1> HIDE DEF s
<1>5. Fueled(s)
  <2> SUFFICES ASSUME NEW port \in Inputs(t.subs[s]) PROVE port \in DOMAIN Top.stored[s]
    BY DEF Fueled
  <2>1. Port(s, port) \in Assigned(t, Len(t.body) + 1) /\ Port(s, port).kind # "Variable"
    BY <1>2, <1>4 DEF Accepted, Port
  <2>2. PICK n \in DOMAIN Top.nodes : Port(s, port) \in Stores(Top.nodes[n])
    BY <1>1, <2>1, ParseFacts
  <2>3. Top.at > Len(Top.nodes) /\ Len(Top.nodes) \in Nat /\ DOMAIN Top.nodes = 1 .. Len(Top.nodes)
    BY <1>1, ParseFacts DEF InlineRemaining, AtEnd
  <2>4. n \in 1 .. (Top.at - 1)
    BY <1>1, <2>3
  <2>5. Stored(Top.nodes, Top.at, Port(s, port))
    BY <2>2, <2>4 DEF Stored
  <2> QED
    BY <2>5, TopFeeds, StoredIsThere DEF FedInv
<1> QED
  BY <1>4, <1>5, InstanceFed

LEMMA StepFed == IInv /\ SitesInv /\ FedInv /\ [Next]_vars => FedInv'
<1> SUFFICES ASSUME IInv, SitesInv, FedInv, [Next]_vars PROVE FedInv'
  OBVIOUS
<1>1. CASE VisitReal
  BY <1>1, RealFed
<1>2. CASE ReadLocalSignal
  BY <1>2, ReadFed
<1>3. CASE WriteLocalSignal
  BY <1>3, WriteFed
<1>4. CASE StoreSubCmpInput
  BY <1>4, StoreFed
<1>5. CASE ReadSubCmpOutput
  BY <1>5, OutputFed
<1>6. CASE InlineRemaining
  BY <1>6, RemainingFed
<1>7. CASE Return
  BY <1>7, ReturnFed
<1>8. CASE Finished
  BY <1>8, UnmovedFed DEF Finished, vars
<1>9. CASE UNCHANGED vars
  BY <1>9, UnmovedFed DEF vars
<1> QED
  BY <1>1, <1>2, <1>3, <1>4, <1>5, <1>6, <1>7, <1>8, <1>9 DEF Next

LEMMA StartsFed == Init => FedInv
<1> SUFFICES ASSUME Init PROVE FedInv
  OBVIOUS
<1> DEFINE f == Frame(main, 0, TRUE, Empty, 0)
<1>1. frames = <<f>> /\ status = "running"
  BY DEF Init
<1>2. f.at = 1 /\ f.root = TRUE /\ f.inlined = Empty
  BY DEF Frame
<1> HIDE DEF f
<1>3. Feeds(f)
  <2>1. DOMAIN f.inlined = {} /\ 1 .. (f.at - 1) = {}
    BY <1>2 DEF Empty
  <2> QED
    BY <1>2, <2>1 DEF Feeds
<1>4. \A l \in DOMAIN frames : frames[l] = f
  BY <1>1
<1> QED
  BY <1>1, <1>3, <1>4 DEF FedInv, Fed, Blamed

(* Inlining stops at a gadget whose signals do not match what the runtime  *)
(* will produce for it, wherever in the tree it is, and at nothing else:   *)
(* no input or output is missing when it is read. It never finishes with   *)
(* such a gadget, which would be served a truncated or garbled witness.    *)
THEOREM StopsOnlyOnLayout == Spec => []PanicsOnlyOnLayout
<1>1. SitesInv /\ FedInv => PanicsOnlyOnLayout
  <2> SUFFICES ASSUME SitesInv, FedInv, status # "running"
               PROVE  status = "panicked" <=> \E i \in GadgetInstances : ~Canonical(i)
    BY DEF PanicsOnlyOnLayout
  <2>1. status = "panicked" => \E i \in GadgetInstances : ~Canonical(i)
    BY DEF FedInv, Blamed
  <2>2. ASSUME status # "panicked", NEW i \in GadgetInstances
        PROVE  Canonical(i)
    <3>1. status = "done"
      BY <2>2 DEF FedInv
    <3>2. PICK inst : Sited(inst)
      BY DEF SitesInv
    <3>3. ~Awaited(i)
      BY <3>1 DEF SitesInv, Settled, Awaited
    <3> QED
      BY <3>2, <3>3 DEF Sited
  <2> QED
    BY <2>1, <2>2
<1> QED
  BY <1>1, StartsWell, StepKeeps, StartsSited, StepSited, StartsFed, StepFed, PTL DEF Spec
=============================================================================
