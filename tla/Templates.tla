----------------------------- MODULE Templates -----------------------------
(***************************************************************************)
(* Circom templates as the frontend receives them, the per-template graph  *)
(* GraphCompiler builds of one (build.rs), and what a tree of templates    *)
(* means: one equation per assignment over one flat space of signals.      *)
(*                                                                         *)
(* A template is a record                                                  *)
(*   outs, ins : how many signals of its own are outputs and inputs; local *)
(*               signals number outputs first, then inputs, then the rest  *)
(*   subs      : the components it creates, in creation order              *)
(*   body      : its assignments, loops unrolled and branches decided      *)
(* An assignment copies or combines what its args name into dest.          *)
(***************************************************************************)
EXTENDS CircuitIr

CONSTANT MaxDepth       \* bound: how deep components nest

(* A map with one more entry, or another value for a key it has.           *)
Inserted(map, key, value) ==
  [x \in {key} \cup DOMAIN map |-> IF x = key THEN value ELSE map[x]]

Signal(index)    == [kind |-> "Signal", sub |-> 0, index |-> index]
Port(sub, index) == [kind |-> "Port", sub |-> sub, index |-> index]
Variable(index)  == [kind |-> "Variable", sub |-> 0, index |-> index]
Literal(value)   == [kind |-> "Constant", sub |-> 0, index |-> value]

Assign(dest, op, args) == [dest |-> dest, op |-> op, args |-> args]

NoTemplate == [outs |-> 0, ins |-> 0, subs |-> <<>>, body |-> <<>>]

(* Offsets are relative to the frame of the template that creates it.      *)
Compiled(t, offset) ==
  [kind |-> "Compiled", template |-> t, offset |-> offset,
   outs |-> t.outs, ins |-> t.ins, inters |-> 0, precomputed |-> FALSE]

GadgetOf(kind, outs, ins, inters, precomputed) ==
  [kind |-> kind, template |-> NoTemplate, offset |-> 0,
   outs |-> outs, ins |-> ins, inters |-> inters, precomputed |-> precomputed]

IsGadget(sub) == sub.kind # "Compiled"

(* Result slots of each kind: outputs and intermediates. The permutation's *)
(* hundreds of intermediates are abstracted to one.                        *)
ExpectedResults(kind) ==
  CASE kind \in {"Num2Bits", "Reveal1"} -> 1
    [] kind \in {"IsZero", "Reveal2"}   -> 2
    [] kind = "Poseidon2"               -> 3
-----------------------------------------------------------------------------
(* The graph of one template. Variables are values, not nodes; signals and *)
(* the ports of components stay references until they are inlined.         *)

TemplateNode(op, arg, sub, in) == [op |-> op, arg |-> arg, sub |-> sub, in |-> in]

Push(acc, node) ==
  [acc EXCEPT !.nodes = Append(@, node), !.value = Len(acc.nodes) + 1]

ReadValue(acc, a) ==
  CASE a.kind = "Variable" -> [acc EXCEPT !.value = acc.variables[a.index]]
    [] a.kind = "Constant" -> Push(acc, TemplateNode("Constant", a.index, 0, <<>>))
    [] a.kind = "Signal"   -> Push(acc, TemplateNode("LocalSignal", a.index, 0, <<>>))
    [] a.kind = "Port"     -> Push(acc, TemplateNode("SubCmpOutput", a.index, a.sub, <<>>))

WriteValue(acc, a) ==
  CASE a.kind = "Variable" -> [acc EXCEPT !.variables = Inserted(@, a.index, acc.value)]
    [] a.kind = "Signal"   ->
         Push(acc, TemplateNode("LocalSignalWrite", a.index, 0, <<acc.value>>))
    [] a.kind = "Port"     ->
         Push(acc, TemplateNode("SubCmpInput", a.index, a.sub, <<acc.value>>))

ReadOperand(acc, a) ==
  LET read == ReadValue(acc, a) IN [read EXCEPT !.operands = Append(@, read.value)]

HandleStore(acc, st) ==
  LET reads    == FoldLeft(ReadOperand, [acc EXCEPT !.operands = <<>>], st.args)
      computed == IF st.op = "Copy" THEN reads
                  ELSE Push(reads, TemplateNode(st.op, 0, 0, reads.operands))
  IN  WriteValue(computed, st.dest)

Parse(t) ==
  FoldLeft(HandleStore,
           [nodes |-> <<>>, variables |-> <<>>, operands |-> <<>>, value |-> 0],
           t.body).nodes
-----------------------------------------------------------------------------
(* What circom accepts: each signal and port is assigned once, signals and *)
(* variables before they are read, and a component's outputs are read only *)
(* once it has all its inputs. A template does not assign its own inputs,  *)
(* and of a component nothing but its inputs.                              *)

Inputs(sub) == {sub.outs + k : k \in 0 .. (sub.ins - 1)}

Assigned(t, n) == {t.body[m].dest : m \in 1 .. (n - 1)}

Readable(t, n, a) ==
  CASE a.kind = "Constant" -> TRUE
    [] a.kind = "Signal"   -> a.index \in Inputs(t) \/ a \in Assigned(t, n)
    [] a.kind = "Variable" -> a \in Assigned(t, n)
    [] a.kind = "Port"     -> \A port \in Inputs(t.subs[a.sub]) :
                                Port(a.sub, port) \in Assigned(t, n)

Accepted(t) ==
  /\ \A n \in DOMAIN t.body : \A a \in ToSet(t.body[n].args) : Readable(t, n, a)
  /\ \A n \in DOMAIN t.body :
       t.body[n].dest.kind # "Variable" => t.body[n].dest \notin Assigned(t, n)
  /\ \A n \in DOMAIN t.body :
       \E dest \in {t.body[n].dest} :
         /\ dest.kind = "Signal" => dest.index \notin Inputs(t)
         /\ dest.kind = "Port" => dest.index \in Inputs(t.subs[dest.sub])
  /\ \A s \in DOMAIN t.subs : \A port \in Inputs(t.subs[s]) :
       Port(s, port) \in Assigned(t, Len(t.body) + 1)

(* What a template is made of.                                             *)
Places(t) ==
  [kind : {"Signal", "Variable", "Constant"}, sub : {0}, index : Int]
    \cup [kind : {"Port"}, sub : DOMAIN t.subs, index : Nat]

WellTypedTemplate(t) ==
  /\ t.outs \in Nat /\ t.ins \in Nat
  /\ DOMAIN t.subs \in SUBSET Nat
  /\ t.body \in Seq([dest : Places(t), op : ArithOps \cup {"Copy"}, args : Seq(Places(t))])
  /\ \A n \in DOMAIN t.body : t.body[n].dest.kind # "Constant"
  /\ \A s \in DOMAIN t.subs : \E sub \in {t.subs[s]} :
       IF IsGadget(sub)
       THEN /\ sub.kind \in Kinds /\ sub.template = NoTemplate
            /\ sub.offset \in Nat /\ sub.outs \in Nat /\ sub.ins \in Nat /\ sub.inters \in Nat
       ELSE sub.offset \in Nat /\ sub = Compiled(sub.template, sub.offset)
-----------------------------------------------------------------------------
(* The meaning of a tree of templates: values of the flat signals solve it *)
(* when they satisfy the assignments of every instance, wherever it is.    *)

Instance0(t) == [sub |-> Compiled(t, 0), offset |-> 0]

Children(instance) ==
  {[sub |-> s, offset |-> instance.offset + s.offset] : s \in ToSet(instance.sub.template.subs)}

Instances(t) ==
  LET level[d \in 0 .. MaxDepth] ==
        IF d = 0 THEN {Instance0(t)} ELSE UNION {Children(i) : i \in level[d - 1]}
  IN  UNION {level[d] : d \in 0 .. MaxDepth}

Unbound == -1

ReadsSignal(t, index) ==
  \E n \in DOMAIN t.body : Signal(index) \in ToSet(t.body[n].args)

(* Value(s) is what flat signal s carries. An input a component never      *)
(* reads may be missing.                                                   *)
SatisfiesBody(instance, Value(_)) ==
  LET t == instance.sub.template
      Flat(a) == IF a.kind = "Signal" THEN instance.offset + a.index
                 ELSE instance.offset + t.subs[a.sub].offset + a.index
      Operand(acc, a) ==
        CASE a.kind = "Variable" -> acc.variables[a.index]
          [] a.kind = "Constant" -> a.index
          [] OTHER               -> Value(Flat(a))
      Unread(a) == a.kind = "Port" /\ ~IsGadget(t.subs[a.sub])
                     /\ ~ReadsSignal(t.subs[a.sub].template, a.index)
      Check(acc, st) ==
        LET args == [j \in DOMAIN st.args |-> Operand(acc, st.args[j])]
            x    == IF Unbound \in ToSet(args) THEN Unbound
                    ELSE IF st.op = "Copy" THEN args[1]
                    ELSE ArithValue(st.op, args[1], args[2])
        IN  IF st.dest.kind = "Variable"
            THEN [acc EXCEPT !.variables = Inserted(@, st.dest.index, x)]
            ELSE [acc EXCEPT !.holds =
                    @ /\ x # Unbound /\ Value(Flat(st.dest)) \in
                           {x} \cup (IF Unread(st.dest) THEN {Unbound} ELSE {})]
  IN  FoldLeft(Check, [variables |-> <<>>, holds |-> TRUE], t.body).holds

SatisfiesGadget(instance, Value(_)) ==
  LET sub  == instance.sub
      args == [j \in 1 .. sub.ins |-> Value(instance.offset + sub.outs + j - 1)]
      At(k) == instance.offset + (IF k < sub.outs THEN k ELSE k + sub.ins)
  IN  /\ Unbound \notin ToSet(args)
      /\ \A k \in 0 .. (sub.outs + sub.inters - 1) :
           Value(At(k)) = GadgetValue(sub.kind, args, k)

Solves(t, Value(_)) ==
  \A i \in Instances(t) :
    IF IsGadget(i.sub) THEN SatisfiesGadget(i, Value) ELSE SatisfiesBody(i, Value)
=============================================================================
