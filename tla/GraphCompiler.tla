---------------------------- MODULE GraphCompiler ----------------------------
(***************************************************************************)
(* The lowering of templates (build.rs, unroll.rs): a compiler walks one   *)
(* template's code and makes a graph of it. Loops are unrolled, branches   *)
(* decided and addresses computed on the way; a value known at compile     *)
(* time is a node like any other, and looked up again where it is needed.  *)
(* Values of loops and addresses are machine integers. A component's       *)
(* template is compiled where the first of its components is created, by   *)
(* another compiler, while this one waits.                                 *)
(***************************************************************************)
EXTENDS BucketCode

CONSTANTS
  Mains,       \* headers of the templates that may be the main one
  Lowerable,   \* those of them that are to be lowered
  Builds,      \* <<whether overflows are checked, precomputed_gadgets>>
  MaxUsize,    \* the largest machine integer, well below P
  AliasBits    \* the inputs of an alias check

VARIABLES
  main,
  checked,             \* whether the build of the compiler checks overflows
  precomputed_gadgets, \* whether the wrapper of precomputed gadgets counts
  removed,             \* headers of the templates taken out of templates
  compiled,            \* the graphs of the templates compiled, by header
  compilers,           \* the compilers at work, the innermost last
  outcome              \* "lowering", "done", "refused" or "panicked"

config == <<main, checked, precomputed_gadgets>>
vars   == <<main, checked, precomputed_gadgets, removed, compiled, compilers, outcome>>

(* The code still to be lowered, in nested blocks. A loop's block has the  *)
(* induction variable with its values, of which so many have been taken.   *)
Block(todo) ==
  [kind |-> "block", todo |-> todo, body |-> <<>>, variable |-> 0, step |-> 0,
   trips |-> <<>>, at |-> 0]

LoopBlock(body, variable, step, trips) ==
  [Block(<<>>) EXCEPT !.kind = "loop", !.body = body, !.variable = variable, !.step = step,
                      !.trips = trips]

(* value is what the expression lowered last stands for.                   *)
NewCompiler(header) ==
  [header |-> header, nodes |-> <<>>, variables |-> <<>>, subs |-> <<>>,
   blocks |-> <<Block(Templates[header].body)>>, value |-> 0, status |-> "lowering"]

Init ==
  /\ main \in Mains
  /\ \E build \in Builds : checked = build[1] /\ precomputed_gadgets = build[2]
  /\ removed = {main}
  /\ compiled = <<>>
  /\ compilers = <<NewCompiler(main)>>
  /\ outcome = "lowering"

Refuse(c) == [c EXCEPT !.status = "refused"]
Panic(c)  == [c EXCEPT !.status = "panicked"]

(* F of c, unless lowering has ended.                                      *)
Then(c, F(_)) == Of(LAMBDA d : IF d.status = "lowering" THEN F(d) ELSE d, c)
-----------------------------------------------------------------------------
(* Nodes. known is what eval_constant_node makes of a node; a node never   *)
(* changes, so that it is found when the node is made.                     *)

KnownValue(c, op, arg, in) ==
  CASE op = "Constant"              -> arg
    [] op \in {"Add", "Sub", "Mul"} ->
         IF None \in {c.nodes[in[1]].known, c.nodes[in[2]].known} THEN None
         ELSE FoldBinary(op, c.nodes[in[1]].known, c.nodes[in[2]].known)
    [] OTHER                        -> None

Push(c, op, arg, sub, in) ==
  [c EXCEPT !.nodes = Append(@, [op |-> op, arg |-> arg, sub |-> sub, in |-> in,
                                 known |-> KnownValue(c, op, arg, in)]),
            !.value = Len(c.nodes) + 1]

PushConstant(c, n) == Push(c, "Constant", n % P, 0, <<>>)

Bind(c, index, value) ==
  [c EXCEPT !.variables = [n \in DOMAIN @ \cup {index} |-> IF n = index THEN value ELSE @[n]]]
-----------------------------------------------------------------------------
(* Addresses and loop bounds (get_constant_value).                         *)

Panics == -1

(* A release build wraps around.                                           *)
Machine(n) ==
  IF n \in 0 .. MaxUsize THEN n ELSE IF checked THEN Panics ELSE n % (MaxUsize + 1)

ToUsize(x) == IF x \in 0 .. MaxUsize THEN x ELSE Panics

MachineOp(op, x, y) ==
  CASE op = "MulAddress"            -> Machine(x * y)
    [] op \in {"Add", "AddAddress"} -> Machine(x + y)
    [] op = "Sub"                   -> Machine(x - y)
    [] op = "Mod"                   -> IF y = 0 THEN Panics ELSE x % y
    [] OTHER                        -> Panics

RECURSIVE ConstantValue(_, _)
ConstantValue(c, e) ==
  LET variable(index) == IF index \in DOMAIN c.variables
                         THEN ToUsize(c.nodes[c.variables[index]].known) ELSE Panics
  IN  CASE e.kind = "Value" -> IF e.op = "U32" THEN e.value ELSE ToUsize(e.value)
        [] e.kind = "Load" /\ e.op = "Variable" -> Of(variable, ConstantValue(c, e.args[1]))
        [] e.kind = "Compute" /\ e.op = "ToAddress" -> ConstantValue(c, e.args[1])
        [] e.kind = "Compute" /\ Len(e.args) = 2 ->
             Of(LAMBDA xs : IF Panics \in {xs[1], xs[2]} THEN Panics
                            ELSE MachineOp(e.op, xs[1], xs[2]),
                <<ConstantValue(c, e.args[1]), ConstantValue(c, e.args[2])>>)
        [] OTHER -> Panics

(* F of c and the constant e, if it is one.                                *)
AtConstant(c, e, F(_, _)) ==
  Of(LAMBDA n : IF n = Panics THEN Panic(c) ELSE F(c, n), ConstantValue(c, e))
-----------------------------------------------------------------------------
(* Reading and writing.                                                    *)

ReadValueAt(c, src, index) ==
  CASE src.op = "Variable" -> IF index \in DOMAIN c.variables
                              THEN [c EXCEPT !.value = c.variables[index]] ELSE Panic(c)
    [] src.op = "Signal"   -> Push(c, "LocalSignal", index, 0, <<>>)
    [] src.op = "Port"     ->
         AtConstant(c, src.args[2], LAMBDA d, cmp : Push(d, "SubCmpOutput", index, cmp, <<>>))

(* The value read or computed last.                                        *)
WriteValueAt(c, dest, index) ==
  CASE dest.op = "Variable" -> Bind(c, index, c.value)
    [] dest.op = "Signal"   -> Push(c, "LocalSignalWrite", index, 0, <<c.value>>)
    [] dest.op = "Port"     ->
         AtConstant(c, dest.args[2], LAMBDA d, cmp : Push(d, "SubCmpInput", index, cmp, <<d.value>>))

IsMapped(location) == location.args[1] = Mapped

LoadValue(c, e) ==
  IF IsMapped(e) THEN Refuse(c)
  ELSE AtConstant(c, e.args[1], LAMBDA d, index : ReadValueAt(d, e, index))
-----------------------------------------------------------------------------
(* Expressions. A removed operator is folded or refused, but what its      *)
(* operands are read from stays in the graph.                              *)

Known(c) == c.nodes[c.value].known

RECURSIVE ExpectValue(_, _)

(* <<compiler, value>>: an operand at compile time. An error in it only    *)
(* means that it is not known.                                             *)
ConstantOperand(c, e) ==
  Of(LAMBDA d : CASE d.status = "refused"  -> <<[d EXCEPT !.status = "lowering"], None>>
                  [] d.status = "panicked" -> <<d, None>>
                  [] OTHER                 -> <<d, Known(d)>>,
     ExpectValue(c, e))

Folded(c, e) ==
  Of(LAMBDA lhs :
       IF lhs[1].status = "panicked" THEN lhs[1]
       ELSE Of(LAMBDA rhs :
                 IF rhs[1].status = "panicked" THEN rhs[1]
                 ELSE IF None \in {lhs[2], rhs[2]} THEN Refuse(rhs[1])
                 ELSE Of(LAMBDA n : IF n = None THEN Refuse(rhs[1]) ELSE PushConstant(rhs[1], n),
                         FoldBinary(e.op, lhs[2], rhs[2])),
               ConstantOperand(lhs[1], e.args[2])),
     ConstantOperand(c, e.args[1]))

ExpectValue(c, e) ==
  CASE e.kind = "Value" -> IF e.op = "U32" THEN Panic(c) ELSE PushConstant(c, e.value)
    [] e.kind = "Load"  -> LoadValue(c, e)
    [] e.kind = "Compute" /\ e.op \in {"Add", "Sub", "Mul"} ->
         Then(ExpectValue(c, e.args[1]),
              LAMBDA lhs : Then(ExpectValue(lhs, e.args[2]),
                                LAMBDA rhs : Push(rhs, e.op, 0, 0, <<lhs.value, rhs.value>>)))
    [] e.kind = "Compute" /\ e.op \in Removed -> Folded(c, e)
    [] OTHER -> Refuse(c)

(* <<compiler, 0 or 1 or None>>: a comparison, or anything used as a truth *)
(* value.                                                                  *)
FoldBranchCondition(c, e) ==
  LET nonzero(n) == IF n = None THEN None ELSE Truth(n # 0)
      compared(x, y) == Of(LAMBDA t : IF t # None THEN t ELSE nonzero(FoldBinary(e.op, x, y)),
                           FoldCondition(e.op, x, y))
      pair(lhs) == Of(LAMBDA rhs : <<rhs[1], IF rhs[2] = None THEN None
                                             ELSE compared(lhs[2], rhs[2])>>,
                      ConstantOperand(lhs[1], e.args[2]))
  IN  CASE e.kind = "Compute" /\ Len(e.args) = 2 ->
             Of(LAMBDA lhs : IF lhs[2] = None THEN lhs ELSE pair(lhs), ConstantOperand(c, e.args[1]))
        [] e.kind = "Compute" /\ Len(e.args) = 1 ->
             Of(LAMBDA x : IF x[2] = None THEN x ELSE <<x[1], FoldUnaryCondition(e.op, x[2])>>,
                ConstantOperand(c, e.args[1]))
        [] OTHER -> Of(LAMBDA x : <<x[1], nonzero(x[2])>>, ConstantOperand(c, e))
-----------------------------------------------------------------------------
(* Stores.                                                                 *)

StoreScalar(c, inst) ==
  Then(ExpectValue(c, inst.src),
       LAMBDA d : IF IsMapped(inst.dest) THEN Refuse(d)
                  ELSE AtConstant(d, inst.dest.args[1],
                                  LAMBDA f, index : WriteValueAt(f, inst.dest, index)))

(* Element by element, from where the array is read to where it goes.      *)
StoreArray(c, inst) ==
  LET copied(d, from, to) ==
        FoldLeft(LAMBDA acc, n : Then(acc, LAMBDA f :
                   Then(ReadValueAt(f, inst.src, from + n - 1),
                        LAMBDA g : WriteValueAt(g, inst.dest, to + n - 1))),
                 d, [n \in 1 .. inst.size |-> n])
  IN  IF inst.src.kind # "Load" \/ IsMapped(inst.src) THEN Refuse(c)
      ELSE AtConstant(c, inst.src.args[1], LAMBDA d, from :
             IF IsMapped(inst.dest) THEN Refuse(d)
             ELSE AtConstant(d, inst.dest.args[1], LAMBDA f, to : copied(f, from, to)))

HandleStore(c, inst) ==
  CASE inst.size = Several -> Refuse(c)
    [] inst.size = 1       -> StoreScalar(c, inst)
    [] OTHER               -> StoreArray(c, inst)
-----------------------------------------------------------------------------
(* Loops. The last instruction is taken for the update of the induction    *)
(* variable; the first literal of its sum or difference is the step, and a *)
(* literal alone is one, too.                                              *)

Literal(e) == e.kind = "Value"

StepLiteral(src) ==
  IF Literal(src) THEN src
  ELSE IF Literal(src.args[1]) THEN src.args[1] ELSE src.args[2]

StoresVariable(inst) ==
  inst.kind = "Store" /\ ~IsMapped(inst.dest) /\ inst.dest.op = "Variable"

HasLiteral(src) ==
  \/ Literal(src)
  \/ /\ src.kind = "Compute" /\ Len(src.args) = 2
     /\ Literal(src.args[1]) \/ Literal(src.args[2])

SignedStep(src, size) == IF src.op = "Sub" THEN -size ELSE size

IsSum(src) == Literal(src) \/ src.op \in {"Add", "Sub"}

Shape(op, step) ==
  \/ op \in {"Lesser", "LesserEq"} /\ step > 0
  \/ op \in {"Greater", "GreaterEq"} /\ step < 0

Continues(op, x, bound) ==
  CASE op = "Lesser"    -> x < bound
    [] op = "LesserEq"  -> x <= bound
    [] op = "Greater"   -> x > bound
    [] op = "GreaterEq" -> x >= bound

(* From lhs in steps, as long as the condition holds and the integer does  *)
(* not over- or underflow.                                                 *)
InductionValues(op, lhs, rhs, step) ==
  LET nth(n)   == lhs + n * step
      holds(n) == Continues(op, nth(n), rhs) /\ nth(n) \in 0 .. MaxUsize
      count    == CHOOSE n \in 0 .. MaxUsize + 1 : ~holds(n) /\ \A k \in 0 .. (n - 1) : holds(k)
  IN  [n \in 1 .. count |-> nth(n - 1)]

IsComparison(cond) == cond.kind = "Compute" /\ Len(cond.args) = 2

BeginLoop(c, inst) ==
  LET update == Last(inst.body)
      cond   == inst.cond
      unrolled(d, variable, step, lhs, rhs) ==
        IF ~Shape(cond.op, step) THEN Refuse(d)
        ELSE [d EXCEPT !.blocks = Append(@,
                LoopBlock(Front(inst.body), variable, step, InductionValues(cond.op, lhs, rhs, step)))]
      bounded(d, variable, step) ==
        IF ~IsComparison(cond) THEN Refuse(d)
        ELSE AtConstant(d, cond.args[1], LAMBDA f, lhs :
               AtConstant(f, cond.args[2], LAMBDA g, rhs : unrolled(g, variable, step, lhs, rhs)))
  IN  IF inst.body = <<>> THEN Refuse(c)
      ELSE IF ~StoresVariable(update) THEN Refuse(c)
      ELSE AtConstant(c, update.dest.args[1], LAMBDA d, variable :
             IF ~HasLiteral(update.src) THEN Refuse(d)
             ELSE AtConstant(d, StepLiteral(update.src), LAMBDA f, size :
                    IF ~IsSum(update.src) \/ size = 0 THEN Refuse(f)
                    ELSE bounded(f, variable, SignedStep(update.src, size))))

(* Mutant: a value below zero is not stored.                               *)
Terminal_Unsigned(c, block) ==
  IF Last(block.trips) + block.step \in 0 .. MaxUsize
  THEN Of(LAMBDA d : Bind(d, block.variable, d.value),
          PushConstant(c, Last(block.trips) + block.step))
  ELSE c

(* Below zero, the value in the field; beyond the machine integers, the    *)
(* variable keeps the last value.                                          *)
Terminal(c, block) ==
  IF Last(block.trips) + block.step <= MaxUsize
  THEN Of(LAMBDA d : Bind(d, block.variable, d.value),
          PushConstant(c, Last(block.trips) + block.step))
  ELSE c
-----------------------------------------------------------------------------
(* Components.                                                             *)

Widths == {2, 3, 4, 8, 16}

GadgetNames == {"Poseidon2", "Num2Bits", "IsZero", "AliasCheck", "TACEO_REVEAL"}

Canonical(t) ==
  CASE t.name = "Poseidon2"    -> t.ins = t.outs /\ t.ins \in Widths
    [] t.name = "Num2Bits"     -> t.ins = 1
    [] t.name = "IsZero"       -> t.ins = 1 /\ t.outs = 1
    [] t.name = "AliasCheck"   -> t.ins = AliasBits /\ t.outs = 0
    [] t.name = "TACEO_REVEAL" -> t.ins = t.outs

(* A template's signals and those of all components below it.              *)
RECURSIVE Span(_)
Span(header) ==
  LET t == Templates[header]
  IN  t.ins + t.outs + t.inters + MapThenSumSet(LAMBDA n : Span(t.triggers[n]), DOMAIN t.triggers)

Instance(symbol, kind, inters, precomputed) ==
  [symbol |-> symbol, kind |-> kind, inters |-> inters, precomputed |-> precomputed, offset |-> 0]

PushInstances(c, inst, instance) ==
  [c EXCEPT !.subs = @ \o [n \in 1 .. inst.count |->
                             [instance EXCEPT !.offset = inst.offset + (n - 1) * inst.jump]]]

Wrapped(c) ==
  precomputed_gadgets /\ Templates[c.header].name = "TACEO_PRECOMPUTATION_Poseidon2"

(* A gadget's code is not compiled.                                        *)
CreateGadget(c, inst) ==
  LET t == Templates[inst.symbol]
  IN  IF ~Canonical(t) \/ (Wrapped(c) /\ t.name # "Poseidon2") THEN Refuse(c)
      ELSE PushInstances(c, inst, Instance(inst.symbol, t.name,
                                           Span(inst.symbol) - t.ins - t.outs, Wrapped(c)))

CreateCompiled(c, inst) == PushInstances(c, inst, Instance(inst.symbol, "Compiled", 0, FALSE))
-----------------------------------------------------------------------------
(* The walk.                                                               *)

Top    == Last(compilers)
Inner  == Last(Top.blocks)

Lowering(kind) ==
  /\ outcome = "lowering"
  /\ Inner.todo # <<>>
  /\ Head(Inner.todo).kind = kind

WithInner(c, block) == [c EXCEPT !.blocks = Append(Front(@), block)]

(* The compiler ahead of the next instruction's successor.                 *)
Ahead == WithInner(Top, [Inner EXCEPT !.todo = Tail(@)])

Continue(c) ==
  /\ outcome' = c.status
  /\ compilers' = Append(Front(compilers), c)
  /\ UNCHANGED config /\ UNCHANGED <<removed, compiled>>

(* At the top level of a loop's body, its variable must not be stored.     *)
LowerStore ==
  /\ Lowering("Store")
  /\ LET inst == Head(Inner.todo)
         scrutinised == Inner.kind = "loop" /\ StoresVariable(inst)
         stored(c, index) == IF index = Inner.variable THEN Refuse(c) ELSE HandleStore(c, inst)
     IN  \E c \in {IF scrutinised THEN AtConstant(Ahead, inst.dest.args[1], stored)
                   ELSE HandleStore(Ahead, inst)} : Continue(c)

LowerBranch ==
  /\ Lowering("Branch")
  /\ LET inst == Head(Inner.todo)
     IN  \E folded \in {FoldBranchCondition(Ahead, inst.cond)} :
           LET c == folded[1]
           IN  Continue(CASE c.status = "panicked" -> c
                          [] folded[2] = None      -> Refuse(c)
                          [] folded[2] = 1 -> [c EXCEPT !.blocks = Append(@, Block(inst.taken))]
                          [] folded[2] = 0 -> [c EXCEPT !.blocks = Append(@, Block(inst.otherwise))])

LowerLoop ==
  /\ Lowering("Loop")
  /\ \E c \in {BeginLoop(Ahead, Head(Inner.todo))} : Continue(c)

LowerAssert ==
  /\ Lowering("Assert")
  /\ Continue(Ahead)

RefuseStatement ==
  /\ \E kind \in {"Call", "Return", "Log"} : Lowering(kind)
  /\ Continue(Refuse(Ahead))

NextIteration ==
  /\ outcome = "lowering"
  /\ Inner.kind = "loop" /\ Inner.todo = <<>> /\ Inner.at < Len(Inner.trips)
  /\ \E c \in {PushConstant(WithInner(Top, [Inner EXCEPT !.todo = Inner.body, !.at = @ + 1]),
                            Inner.trips[Inner.at + 1])} :
       Continue(Bind(c, Inner.variable, c.value))

LeaveLoop ==
  /\ outcome = "lowering"
  /\ Inner.kind = "loop" /\ Inner.todo = <<>> /\ Inner.at = Len(Inner.trips)
  /\ \E c \in {[Top EXCEPT !.blocks = Front(@)]} :
       Continue(IF Inner.trips = <<>> THEN c ELSE Terminal(c, Inner))

LeaveBranch ==
  /\ outcome = "lowering"
  /\ Inner.kind = "block" /\ Inner.todo = <<>> /\ Len(Top.blocks) > 1
  /\ Continue([Top EXCEPT !.blocks = Front(@)])

Symbol == Head(Inner.todo).symbol

(* The template has its graph already, or is a gadget.                     *)
CreateKnown ==
  /\ Lowering("Create")
  /\ Symbol \in DOMAIN compiled
  /\ Continue(CreateCompiled(Ahead, Head(Inner.todo)))

CreateSite ==
  /\ Lowering("Create")
  /\ Symbol \notin DOMAIN compiled
  /\ Symbol \notin removed /\ Templates[Symbol].name \in GadgetNames
  /\ Continue(CreateGadget(Ahead, Head(Inner.todo)))

(* It is compiled now, and never again.                                    *)
CompileTemplate ==
  /\ Lowering("Create")
  /\ Symbol \notin DOMAIN compiled
  /\ IF Symbol \notin removed
     THEN /\ Templates[Symbol].name \notin GadgetNames
          /\ removed' = removed \cup {Symbol}
          /\ compilers' = Append(compilers, NewCompiler(Symbol))
          /\ UNCHANGED <<compiled, outcome>>
     ELSE /\ outcome' = "panicked"
          /\ UNCHANGED <<removed, compiled, compilers>>
  /\ UNCHANGED config

Idle == Inner.todo = <<>> /\ Len(Top.blocks) = 1

(* Mutant: the graph is not kept for the next component.                   *)
Kept_Not(header, graph) == compiled

Kept(header, graph) ==
  [h \in DOMAIN compiled \cup {header} |-> IF h = header THEN graph ELSE compiled[h]]

(* The compiler that waited goes on.                                       *)
FinishTemplate ==
  /\ outcome = "lowering" /\ Idle /\ Len(compilers) > 1
  /\ compiled' = Kept(Top.header, [nodes |-> Top.nodes, subs |-> Top.subs])
  /\ LET waiting == Last(Front(compilers))
         block   == Last(waiting.blocks)
     IN  compilers' = Append(Front(Front(compilers)),
                             CreateCompiled(WithInner(waiting, [block EXCEPT !.todo = Tail(@)]),
                                            Head(block.todo)))
  /\ UNCHANGED config /\ UNCHANGED <<removed, outcome>>

FinishMain ==
  /\ outcome = "lowering" /\ Idle /\ Len(compilers) = 1
  /\ Continue([Top EXCEPT !.status = "done"])

Finished == outcome # "lowering" /\ UNCHANGED vars

Next ==
  \/ LowerStore \/ LowerBranch \/ LowerLoop \/ LowerAssert \/ RefuseStatement
  \/ NextIteration \/ LeaveLoop \/ LeaveBranch
  \/ CreateKnown \/ CreateSite \/ CompileTemplate
  \/ FinishTemplate \/ FinishMain \/ Finished

Spec == Init /\ [][Next]_vars
-----------------------------------------------------------------------------
(* Properties.                                                             *)

NodeValue(seed, values, node) ==
  CASE node.op = "Constant"     -> node.arg
    [] node.op = "LocalSignal"  -> Carried(seed, 0, node.arg)
    [] node.op = "SubCmpOutput" -> Carried(seed, node.sub + 1, node.arg)
    [] node.op \in {"LocalSignalWrite", "SubCmpInput"} -> values[node.in[1]]
    [] OTHER -> Operator(node.op, values[node.in[1]], values[node.in[2]])

NodeValues(seed, nodes) ==
  FoldLeft(LAMBDA values, node : Of(LAMBDA v : Append(v, NodeValue(seed, v, node)), values), <<>>, nodes)

(* What a graph assigns, in order.                                         *)
EffectsOf(seed, nodes) ==
  LET values == NodeValues(seed, nodes)
      writes == SelectSeq([n \in DOMAIN nodes |-> n],
                          LAMBDA n : nodes[n].op \in {"LocalSignalWrite", "SubCmpInput"})
  IN  [n \in DOMAIN writes |->
         LET node == nodes[writes[n]]
         IN  Effect(IF node.op = "SubCmpInput" THEN "Port" ELSE "Signal",
                    node.sub, node.arg, values[writes[n]])]

AsWritten(header, graph) ==
  \A seed \in Seeds : \E meant \in {Interpreted(seed, header)} :
    /\ meant.over
    /\ EffectsOf(seed, graph.nodes) = meant.effects
    /\ [n \in DOMAIN graph.subs |-> [symbol |-> graph.subs[n].symbol, offset |-> graph.subs[n].offset]]
         = meant.subs

(* A template that is lowered does what running it would: whatever its     *)
(* signals carry, the same values are assigned to the same signals and     *)
(* component inputs in the same order, and the same components are created.*)
(* This holds of the main template and of every one compiled on the way,   *)
(* also where a loop counts down past zero.                                *)
LoweredAsWritten ==
  outcome = "done" =>
    AsWritten(main, Top) /\ \A h \in DOMAIN compiled : AsWritten(h, compiled[h])

(* Templates that count up or down to a bound that is known and not        *)
(* negative, decide and fold what is known only, and create gadgets of the *)
(* expected shape, are neither refused nor do they end in a panic, however *)
(* often and wherever a component of theirs is created.                    *)
LowerableIsLowered == main \in Lowerable => outcome \notin {"refused", "panicked"}
=============================================================================
