------------------------------ MODULE Inlining ------------------------------
(***************************************************************************)
(* Flattening a tree of templates into one graph (inline.rs). The template *)
(* being inlined is the top of a stack of frames; a component is inlined   *)
(* when one of its outputs is first read, or at the end of its creator if  *)
(* none is. What the code keeps on the call stack is a frame here.         *)
(***************************************************************************)
EXTENDS Templates

CONSTANTS
  Mains,          \* main templates
  InputVectors    \* values of main's inputs, by signal

(* Every template of a main's tree.                                        *)
AllTemplates ==
  Mains \cup {c.sub.template :
             c \in {j \in UNION {Instances(m) : m \in Mains} : ~IsGadget(j.sub)}}

(* The flat signals of a tree of templates, from the offset of its root.   *)
OwnSignals(t) ==
  {a.index : a \in {b \in UNION {{st.dest} \cup ToSet(st.args) : st \in ToSet(t.body)} :
                     b.kind = "Signal"}}

TreeSignals(t) ==
  LET tree[d \in 0 .. MaxDepth, u \in AllTemplates] ==
        OwnSignals(u) \cup
          UNION {{u.subs[s].offset + x :
                    x \in IF IsGadget(u.subs[s])
                          THEN 0 .. (u.subs[s].outs + u.subs[s].ins + u.subs[s].inters - 1)
                          ELSE IF d = 0 THEN {} ELSE tree[d - 1, u.subs[s].template]} :
                  s \in DOMAIN u.subs}
  IN  tree[MaxDepth, t]

SubSignals(sub) ==
  {sub.offset + x : x \in IF IsGadget(sub) THEN 0 .. (sub.outs + sub.ins + sub.inters - 1)
                          ELSE TreeSignals(sub.template)}

(* circom gives every signal of every instance a place of its own.         *)
LaidOut(t) ==
  /\ \A s \in DOMAIN t.subs : ~IsGadget(t.subs[s]) => t.subs[s].template \in AllTemplates
  /\ TreeSignals(t) \in SUBSET Nat
  /\ TreeSignals(t) = OwnSignals(t) \cup UNION {SubSignals(t.subs[s]) : s \in DOMAIN t.subs}
  /\ \A s \in DOMAIN t.subs : OwnSignals(t) \cap SubSignals(t.subs[s]) = {}
  /\ \A r, s \in DOMAIN t.subs : r # s => SubSignals(t.subs[r]) \cap SubSignals(t.subs[s]) = {}

(* Main and the components come from circom, nested no deeper than bound.  *)
ASSUME MainsAssumption ==
  \A t \in AllTemplates : WellTypedTemplate(t) /\ Accepted(t) /\ LaidOut(t)

(* A tree of templates ends: no component is nested below the bound.       *)
ASSUME DepthAssumption ==
  /\ MaxDepth \in Nat
  /\ \A t \in Mains : \A i \in Instances(t) : Children(i) \subseteq Instances(t)

(* The ports of a component that can be read: the outputs a gadget has, or *)
(* the signals a template assigns.                                         *)
Offers(sub) ==
  IF IsGadget(sub) THEN 0 .. (sub.outs - 1)
  ELSE {a.index : a \in {b \in Assigned(sub.template, Len(sub.template.body) + 1) :
                           b.kind = "Signal"}}

(* What is read of a component is assigned by it.                          *)
ASSUME ReadsAssumption ==
  \A t \in AllTemplates : \A n \in DOMAIN t.body : \A a \in ToSet(t.body[n].args) :
    a.kind = "Port" => a.index \in Offers(t.subs[a.sub])

VARIABLES
  main,      \* the program
  nodes,     \* the flat graph's nodes
  outputs,   \* the flat graph's bindings of signals
  sites,     \* the flat graph's gadget sites
  frames,    \* the templates being inlined, main first
  status     \* "running", "done", or "panicked"

vars == <<main, nodes, outputs, sites, frames, status>>

Empty == <<>>

(* given: the values the creator stored into this template's inputs;       *)
(* remap: what its own nodes resolved to; writes: its signals so far, also *)
(* its output ports; stored and inlined: per component, the values stored  *)
(* into its inputs and, once it is inlined, its output ports.              *)
Frame(t, offset, root, given, as) ==
  [template |-> t, nodes |-> Parse(t), offset |-> offset, root |-> root,
   given |-> given, as |-> as, at |-> 1, remap |-> <<>>, writes |-> Empty,
   stored |-> [s \in DOMAIN t.subs |-> Empty], inlined |-> Empty]

Init ==
  /\ main \in Mains
  /\ nodes = <<>> /\ outputs = <<>> /\ sites = <<>>
  /\ frames = <<Frame(main, 0, TRUE, Empty, 0)>>
  /\ status = "running"

Top == Last(frames)

Visiting(op) ==
  /\ status = "running"
  /\ Top.at <= Len(Top.nodes)
  /\ Top.nodes[Top.at].op \in op

Node0 == Top.nodes[Top.at]

ReplaceTop(f) == frames' = [frames EXCEPT ![Len(frames)] = f]

Resolved(f, value) == [f EXCEPT !.remap = Append(@, value), !.at = @ + 1]

(* A sink: nothing refers to it.                                           *)
Consumed(f) == Resolved(f, 0)

Panic == status' = "panicked" /\ UNCHANGED <<main, nodes, outputs, sites, frames>>

Binding(signal, value) == [signal |-> signal, value |-> value]
-----------------------------------------------------------------------------
(* The nodes of a template.                                                *)

VisitReal ==
  /\ Visiting(ArithOps \cup {"Constant"})
  /\ nodes' = Append(nodes, Node(Node0.op, Node0.arg,
                                 [j \in DOMAIN Node0.in |-> Top.remap[Node0.in[j]]]))
  /\ ReplaceTop(Resolved(Top, Len(nodes) + 1))
  /\ UNCHANGED <<main, outputs, sites, status>>

(* Mutant: the root is told by its offset.                                 *)
IsRoot_ByOffset(f) == f.offset = 0

IsRoot(f) == f.root

(* Main's inputs become nodes; any other template's are what its creator   *)
(* stored, and are bound as signals of their own when they are read.       *)
ReadLocalSignal ==
  /\ Visiting({"LocalSignal"})
  /\ LET signal == Node0.arg
         Resolve(value) ==
           /\ ReplaceTop(Resolved(Top, value))
           /\ outputs' = IF IsRoot(Top) THEN outputs
                         ELSE Append(outputs, Binding(signal + Top.offset, value))
     IN  IF signal \in DOMAIN Top.writes
         THEN Resolve(Top.writes[signal]) /\ UNCHANGED <<main, nodes, sites, status>>
         ELSE IF IsRoot(Top)
         THEN /\ nodes' = Append(nodes, Node("Input", signal, <<>>))
              /\ Resolve(Len(nodes) + 1)
              /\ UNCHANGED <<main, sites, status>>
         ELSE IF signal \in DOMAIN Top.given
         THEN Resolve(Top.given[signal]) /\ UNCHANGED <<main, nodes, sites, status>>
         ELSE Panic

WriteLocalSignal ==
  /\ Visiting({"LocalSignalWrite"})
  /\ LET value == Top.remap[Node0.in[1]]
     IN  /\ ReplaceTop([Consumed(Top) EXCEPT !.writes = Inserted(@, Node0.arg, value)])
         /\ outputs' = Append(outputs, Binding(Node0.arg + Top.offset, value))
  /\ UNCHANGED <<main, nodes, sites, status>>

StoreSubCmpInput ==
  /\ Visiting({"SubCmpInput"})
  /\ ReplaceTop([Consumed(Top) EXCEPT
                   !.stored[Node0.sub] = Inserted(@, Node0.arg, Top.remap[Node0.in[1]])])
  /\ UNCHANGED <<main, nodes, outputs, sites, status>>
-----------------------------------------------------------------------------
(* Components.                                                             *)

(* Mutant: a component is placed within its creator's frame only.          *)
OffsetOf_Relative(s) == Top.template.subs[s].offset

(* A component's offset is relative to its creator's.                      *)
OffsetOf(s) == Top.offset + Top.template.subs[s].offset

(* Mutant: the k-th input is taken for local signal k.                     *)
InputSignal_Unshifted(sub, k) == k

(* Local signals number a gadget's outputs first.                          *)
InputSignal(sub, k) == sub.outs + k

(* Intermediates follow the inputs.                                        *)
ResultSignal(sub, slot) == IF slot < sub.outs THEN slot ELSE slot + sub.ins

ServiceNode == Len(nodes) + 1

(* A gadget is a site with one service node and one node per result.       *)
InlineGadget(s) ==
  LET sub     == Top.template.subs[s]
      offset  == OffsetOf(s)
      results == sub.outs + sub.inters
      ports   == [k \in 1 .. sub.ins |-> InputSignal(sub, k - 1)]
      given   == Top.stored[s]
      result(slot) == Len(nodes) + 2 + slot
  IN  IF results # ExpectedResults(sub.kind) \/ ~(ToSet(ports) \subseteq DOMAIN given) THEN Panic
      ELSE /\ sites' = Append(sites, [kind |-> sub.kind, precomputed |-> sub.precomputed])
           /\ nodes' = nodes
                \o <<Node("Gadget", Len(sites) + 1, [k \in 1 .. sub.ins |-> given[ports[k]]])>>
                \o [n \in 1 .. results |-> Node("GadgetResult", n - 1, <<ServiceNode>>)]
           /\ outputs' = outputs
                \o [k \in 1 .. sub.ins |-> Binding(offset + ports[k], given[ports[k]])]
                \o [n \in 1 .. results |->
                      Binding(offset + ResultSignal(sub, n - 1), result(n - 1))]
           /\ ReplaceTop([Top EXCEPT !.inlined =
                            Inserted(@, s, [slot \in 0 .. (sub.outs - 1) |-> result(slot)])])
           /\ UNCHANGED <<main, status>>

InlineInstance(s) ==
  LET sub == Top.template.subs[s]
  IN  IF IsGadget(sub) THEN InlineGadget(s)
      ELSE /\ frames' = Append(frames, Frame(sub.template, OffsetOf(s), FALSE, Top.stored[s], s))
           /\ UNCHANGED <<main, nodes, outputs, sites, status>>

(* The first read of an output inlines the component, later ones find it.  *)
ReadSubCmpOutput ==
  /\ Visiting({"SubCmpOutput"})
  /\ IF Node0.sub \notin DOMAIN Top.inlined THEN InlineInstance(Node0.sub)
     ELSE LET ports == Top.inlined[Node0.sub]
          IN  IF Node0.arg \notin DOMAIN ports THEN Panic
              ELSE /\ ReplaceTop(Resolved(Top, ports[Node0.arg]))
                   /\ UNCHANGED <<main, nodes, outputs, sites, status>>

(* Mutant: gadgets nobody reads are dropped.                               *)
Remaining_Compiled(f) ==
  {s \in DOMAIN f.template.subs \ DOMAIN f.inlined : ~IsGadget(f.template.subs[s])}

(* Components none of whose outputs was read.                              *)
Remaining(f) == DOMAIN f.template.subs \ DOMAIN f.inlined

AtEnd == status = "running" /\ Top.at > Len(Top.nodes)

InlineRemaining == AtEnd /\ Remaining(Top) # {} /\ InlineInstance(Min(Remaining(Top)))

(* The creator goes on with the template's output ports.                   *)
Return ==
  /\ AtEnd
  /\ Remaining(Top) = {}
  /\ IF Len(frames) = 1 THEN status' = "done" /\ UNCHANGED frames
     ELSE LET creator == frames[Len(frames) - 1]
          IN  /\ frames' = Append(Front(Front(frames)),
                                  [creator EXCEPT !.inlined = Inserted(@, Top.as, Top.writes)])
              /\ UNCHANGED status
  /\ UNCHANGED <<main, nodes, outputs, sites>>

Finished == status # "running" /\ UNCHANGED vars

Next ==
  \/ VisitReal \/ ReadLocalSignal \/ WriteLocalSignal \/ StoreSubCmpInput
  \/ ReadSubCmpOutput \/ InlineRemaining \/ Return \/ Finished

Spec == Init /\ [][Next]_vars
-----------------------------------------------------------------------------
(* Properties.                                                             *)

Graph == [nodes |-> nodes, outputs |-> outputs, sites |-> sites]

Bindings(signal) == {b.value : b \in {o \in ToSet(outputs) : o.signal = signal}}

(* The flat graph means what the tree of templates says, for all inputs:   *)
(* the values bound to the signals satisfy every assignment and gadget of  *)
(* every instance, in whatever order the templates were walked.            *)
SolvesTheCircuit ==
  status = "done" => \A input \in InputVectors :
    \E denotes \in {Denotation(Graph, input)} :
      LET Value(s) == IF s \in Inputs(main) THEN input[s]
                      ELSE IF Bindings(s) = {} THEN Unbound
                      ELSE denotes[CHOOSE v \in Bindings(s) : TRUE]
      IN  Solves(main, Value)

(* No two instances claim one signal, so that it does not matter which     *)
(* binding of a signal ends up in the witness.                             *)
BoundOnce == \A b \in ToSet(outputs) : Cardinality(Bindings(b.signal)) = 1

GadgetInstances == {i \in Instances(main) : IsGadget(i.sub)}

(* Every gadget instance of the tree is a site exactly once, also those    *)
(* nobody reads: the runtime serves sites by count.                        *)
SiteOfInstance(i) == [kind |-> i.sub.kind, precomputed |-> i.sub.precomputed]

SitesAreInstances ==
  status = "done" =>
    \A site \in ToSet(sites) \cup {SiteOfInstance(i) : i \in GadgetInstances} :
      Cardinality({s \in DOMAIN sites : sites[s] = site})
        = Cardinality({i \in GadgetInstances : SiteOfInstance(i) = site})

(* Whatever circom accepts is inlined, except when a gadget's signals do   *)
(* not match what the runtime will produce for it.                         *)
Canonical(i) == i.sub.outs + i.sub.inters = ExpectedResults(i.sub.kind)

PanicsOnlyOnLayout ==
  status # "running" =>
    (status = "panicked" <=> \E i \in GadgetInstances : ~Canonical(i))

(* A component's input signals are signals of the circuit like any other,  *)
(* addressable by the witness.                                             *)
InputsAddressable ==
  status = "done" =>
    \A i \in Instances(main) \ {Instance0(main)} : \A port \in Inputs(i.sub) :
      Bindings(i.offset + port) # {}
=============================================================================
