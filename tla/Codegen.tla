------------------------------ MODULE Codegen ------------------------------
(***************************************************************************)
(* Code generation (codegen.rs): lowered graphs become programs over       *)
(* physical slots. Phase A (Reserve) gives constants, gadget results and   *)
(* inputs slots that are never recycled. Phase B walks the nodes once,     *)
(* allocating a slot for every computed value, emitting instructions, and  *)
(* releasing a slot after the last use of its value. A gadget batch is     *)
(* emitted after the node it is anchored at, which is later than the nodes *)
(* of its sites.                                                           *)
(*                                                                         *)
(* One action is one arm of the walk; the loops over the operands and      *)
(* results of a Round, over the values a handler releases and over the     *)
(* batches of an anchor take one step per turn.                            *)
(***************************************************************************)
EXTENDS GadgetSchedule

CONSTANT Graphs         \* the graphs compile may be called with

ASSUME GraphsAssumption ==
  \A graph \in Graphs : WellTyped(graph) /\ Topological(graph) /\ WellFormed(graph)

VARIABLES
  job,      \* what compile computes up front: [graph, domain, plans]
  pc,       \* what the walk does next, or how compile ended
  i,        \* the node of the walk
  k,        \* the turn of a Round's loops
  slot,     \* the mapping from values to locations; unmapped values are absent
  free,     \* per bank, the recycled slots, the last one freed at the end
  next,     \* per bank, the first slot never handed out
  queue,    \* the free_if_dead calls still to make: [value, current]
  served,   \* the batches emitted so far
  siteIn,   \* where each collected site found its inputs
  rounds,   \* per emitted round, its operand and result slots
  code      \* the instructions

vars == <<job, pc, i, k, slot, free, next, queue, served, siteIn, rounds, code>>

g     == job.graph
N     == Len(g.nodes)
node  == g.nodes[i]
plans == job.plans

Banks == {Public, Shared, Local}
Loc(bank, index) == [bank |-> bank, index |-> index]

-----------------------------------------------------------------------------
(* Liveness.                                                               *)

(* The sites whose inputs a batch reads: a fused batch keeps the operand   *)
(* of the zero test only.                                                  *)
BatchInputs(b) ==
  FlattenSeq([j \in DOMAIN plans[b].sites |-> g.nodes[SiteNode(g, plans[b].sites[j])].in])

(* Mutant: a batch does not count as a reader of its inputs.               *)
Uses_NoAnchors(v) ==
  {v} \cup ReadersOf(g, v) \cup {N + 1 : j \in {o \in DOMAIN g.outputs : g.outputs[o].value = v}}

(* Where a value is used: its readers, the anchors of the batches that     *)
(* read it, and the end of the program if it is an output.                 *)
Uses(v) ==
  {v} \cup ReadersOf(g, v)
      \cup {plans[b].anchor : b \in {c \in DOMAIN plans : v \in ToSet(BatchInputs(c))}}
      \cup {N + 1 : j \in {o \in DOMAIN g.outputs : g.outputs[o].value = v}}

(* Mutant: every use counts as the last one.                               *)
IsLastUse_Any(v, current) == current \in Uses(v)

IsLastUse(v, current) == current \in Uses(v) /\ \A u \in Uses(v) : u <= current

-----------------------------------------------------------------------------
(* Phase A: the reserved regions. In each bank constants come first, then  *)
(* the surviving gadget results, site by site, then the inputs.            *)

SiteDomain(s) == job.domain[SiteNode(g, s)]

IsPrecomputed(s) == g.sites[s].precomputed /\ SiteDomain(s) = Shared

ResultBank(s) ==
  IF g.sites[s].kind \in Reveals /\ ~IsPrecomputed(s) THEN Public
  ELSE IF SiteDomain(s) = Public THEN Public ELSE Shared

Reserved == NodesOf(g, "Constant") \cup NodesOf(g, "GadgetResult") \cup NodesOf(g, "Input")

ReservedBank(v) ==
  CASE g.nodes[v].op = "GadgetResult" -> ResultBank(SiteOf(g, v))
    [] g.nodes[v].op = "Input"        -> SignalDomain(g, g.nodes[v].arg)
    [] OTHER                          -> Public

(* Constants 0, the results of site s at s, inputs after every site.       *)
Region(v) ==
  CASE g.nodes[v].op = "GadgetResult" -> SiteOf(g, v)
    [] g.nodes[v].op = "Input"        -> Len(g.sites) + 1
    [] OTHER                          -> 0

ReservedBefore(v, w) ==
  \/ Region(v) < Region(w)
  \/ Region(v) = Region(w) /\ v < w

InBank(bank) == {v \in Reserved : ReservedBank(v) = bank}

Home(v) ==
  Loc(ReservedBank(v), Cardinality({w \in InBank(ReservedBank(v)) : ReservedBefore(w, v)}))

(* The first slot of a bank that may be recycled.                          *)
ReservedEnd(bank) == Cardinality(InBank(bank))

-----------------------------------------------------------------------------
(* The allocator and the mapping.                                          *)

Fresh(bank) == IF free[bank] = <<>> THEN next[bank] ELSE Last(free[bank])

(* Mutant: a slot taken from the free list stays on it.                    *)
Alloc_Keeps(bank) ==
  IF free[bank] = <<>>
  THEN next' = [next EXCEPT ![bank] = @ + 1] /\ UNCHANGED free
  ELSE UNCHANGED <<free, next>>

(* Mutant: a minted slot is not counted.                                   *)
Alloc_Uncounted(bank) ==
  IF free[bank] = <<>> THEN UNCHANGED <<free, next>>
  ELSE free' = [free EXCEPT ![bank] = Front(@)] /\ UNCHANGED next

Alloc(bank) ==
  IF free[bank] = <<>>
  THEN next' = [next EXCEPT ![bank] = @ + 1] /\ UNCHANGED free
  ELSE free' = [free EXCEPT ![bank] = Front(@)] /\ UNCHANGED next

Mapped(v, loc) == [w \in DOMAIN slot \cup {v} |-> IF w = v THEN loc ELSE slot[w]]

(* Mutant: a released value keeps its mapping.                             *)
Unmapped_Keeps(v) == slot

Unmapped(v) == [w \in DOMAIN slot \ {v} |-> slot[w]]

Resolved(v) == v \in DOMAIN slot

OperandsResolved == \A w \in InputsOf(g, i) : Resolved(w)

At(j) == slot[node.in[j]]

ReleaseLater(values, current) == [j \in DOMAIN values |-> [value |-> values[j], current |-> current]]

-----------------------------------------------------------------------------

Compile(graph) ==
  [graph |-> graph, domain |-> Domains(graph), plans |-> PlanGadgetBatches(graph)]

Begin(graph) ==
  /\ job = Compile(graph)
  /\ pc = "reserve"
  /\ i = 1
  /\ k = 1
  /\ slot = <<>>
  /\ free = [bank \in Banks |-> <<>>]
  /\ next = [bank \in Banks |-> 0]
  /\ queue = <<>>
  /\ served = {}
  /\ siteIn = <<>>
  /\ rounds = <<>>
  /\ code = <<>>

Init == \E graph \in Graphs : Begin(graph)

(* A site over an unreshared product is refused before any slot is given.  *)
Reserve ==
  /\ pc = "reserve"
  /\ IF \E s \in DOMAIN g.sites : SiteDomain(s) = Local
     THEN pc' = "rejected" /\ UNCHANGED <<slot, next>>
     ELSE /\ pc' = IF N = 0 THEN "project" ELSE "visit"
          /\ slot' = [v \in NodesOf(g, "Constant") \cup NodesOf(g, "Input") |-> Home(v)]
          /\ next' = [bank \in Banks |-> IF bank = Local THEN 0 ELSE ReservedEnd(bank)]
  /\ UNCHANGED <<job, i, k, free, queue, served, siteIn, rounds, code>>

(* Compile ends here, with an error or with a panic.                       *)
Abort(outcome) ==
  /\ pc' = outcome
  /\ UNCHANGED <<job, i, k, slot, free, next, queue, served, siteIn, rounds, code>>

Visit(ops) == pc = "visit" /\ node.op \in ops

VisitLeaf ==
  /\ Visit(LeafOps)
  /\ pc' = "service"
  /\ UNCHANGED <<job, i, k, slot, free, next, queue, served, siteIn, rounds, code>>

VisitGadgetResult ==
  /\ Visit({"GadgetResult"})
  /\ slot' = Mapped(i, Home(i))
  /\ pc' = "service"
  /\ UNCHANGED <<job, i, k, free, next, queue, served, siteIn, rounds, code>>

(* Emits op with a fresh destination, then releases the operands.          *)
EmitInto(bank, op, a, b) ==
  /\ code' = Append(code, [op |-> op, dst |-> Loc(bank, Fresh(bank)), a |-> a, b |-> b])
  /\ slot' = Mapped(i, Loc(bank, Fresh(bank)))
  /\ Alloc(bank)
  /\ queue' = ReleaseLater(node.in, i)
  /\ pc' = "service"
  /\ UNCHANGED <<job, i, k, served, siteIn, rounds>>

OperandDomains == [j \in DOMAIN node.in |-> job.domain[node.in[j]]]

(* Mutant: a product of two shares is emitted like any other.              *)
NoOpcode_LocalOnly == \E d \in ToSet(OperandDomains) : d = Local

(* A Local operand, or a product of two shares, has no opcode.             *)
NoOpcode ==
  \/ \E d \in ToSet(OperandDomains) : d = Local
  \/ node.op = "Mul" /\ \A d \in ToSet(OperandDomains) : d = Shared

(* The commutative opcodes take the shared operand first.                  *)
Swapped == node.op # "Sub" /\ OperandDomains[1] = Public /\ OperandDomains[2] = Shared

VisitArith ==
  /\ Visit(ArithOps)
  /\ IF NoOpcode THEN Abort("rejected")
     ELSE IF ~OperandsResolved THEN Abort("panicked")
     ELSE EmitInto(IF \A d \in ToSet(OperandDomains) : d = Public THEN Public ELSE Shared,
                   node.op,
                   IF Swapped THEN At(2) ELSE At(1),
                   IF Swapped THEN At(1) ELSE At(2))

VisitMulLocal ==
  /\ Visit({"MulLocal"})
  /\ IF ~OperandsResolved THEN Abort("panicked")
     ELSE IF \E d \in ToSet(OperandDomains) : d # Shared THEN Abort("rejected")
     ELSE EmitInto(Local, "MulLocal", At(1), At(2))

(* The site's operands are noted now and read when its batch runs.         *)
VisitGadget ==
  /\ Visit({"Gadget"})
  /\ IF ~OperandsResolved THEN Abort("panicked")
     ELSE IF \E w \in InputsOf(g, i) : slot[w].bank = Local THEN Abort("rejected")
     ELSE /\ siteIn' = [s \in DOMAIN siteIn \cup {node.arg} |->
                          IF s = node.arg THEN [j \in DOMAIN node.in |-> At(j)] ELSE siteIn[s]]
          /\ pc' = "service"
          /\ UNCHANGED <<job, i, k, slot, free, next, queue, served, rounds, code>>

-----------------------------------------------------------------------------
(* A Round: all operands, then all results, then the Reshare.              *)

VisitRound ==
  /\ Visit({"Round"})
  /\ pc' = "operands"
  /\ k' = 1
  /\ rounds' = [r \in DOMAIN rounds \cup {node.arg} |->
                  IF r = node.arg THEN [operands |-> <<>>, results |-> <<>>] ELSE rounds[r]]
  /\ UNCHANGED <<job, i, slot, free, next, queue, served, siteIn, code>>

(* Mutant: the product's slot is not recycled.                             *)
TakeRoundOperand_Leaks ==
  /\ pc = "operands"
  /\ k <= Len(node.in)
  /\ IF ~Resolved(node.in[k]) THEN Abort("panicked")
     ELSE IF At(k).bank # Local THEN Abort("rejected")
     ELSE /\ rounds' = [rounds EXCEPT ![node.arg].operands = Append(@, At(k).index)]
          /\ k' = k + 1
          /\ UNCHANGED <<job, pc, i, slot, free, next, queue, served, siteIn, code>>

(* The product's slot is recycled at once; its mapping stays.              *)
TakeRoundOperand ==
  /\ pc = "operands"
  /\ k <= Len(node.in)
  /\ IF ~Resolved(node.in[k]) THEN Abort("panicked")
     ELSE IF At(k).bank # Local THEN Abort("rejected")
     ELSE /\ rounds' = [rounds EXCEPT ![node.arg].operands = Append(@, At(k).index)]
          /\ free' = [free EXCEPT ![Local] = Append(@, At(k).index)]
          /\ k' = k + 1
          /\ UNCHANGED <<job, pc, i, slot, next, queue, served, siteIn, code>>

AllOperandsTaken ==
  /\ pc = "operands"
  /\ k > Len(node.in)
  /\ pc' = "results"
  /\ k' = 1
  /\ UNCHANGED <<job, i, slot, free, next, queue, served, siteIn, rounds, code>>

(* The k-th node after the Round must be its k-th result.                  *)
PlaceRoundResult ==
  /\ pc = "results"
  /\ k <= Len(node.in)
  /\ IF i + k > N \/ g.nodes[i + k].op # "RoundResult" \/ g.nodes[i + k].arg # k - 1
     THEN Abort("rejected")
     ELSE /\ rounds' = [rounds EXCEPT ![node.arg].results = Append(@, Fresh(Shared))]
          /\ slot' = Mapped(i + k, Loc(Shared, Fresh(Shared)))
          /\ Alloc(Shared)
          /\ k' = k + 1
          /\ UNCHANGED <<job, pc, i, queue, served, siteIn, code>>

(* Results nobody reads are released, and the walk skips all results.      *)
EmitReshare ==
  /\ pc = "results"
  /\ k > Len(node.in)
  /\ code' = Append(code, [op |-> "Reshare", round |-> node.arg])
  /\ queue' = [j \in DOMAIN node.in |-> [value |-> i + j, current |-> i + j]]
  /\ i' = i + Len(node.in)
  /\ pc' = "service"
  /\ UNCHANGED <<job, k, slot, free, next, served, siteIn, rounds>>

(* A RoundResult is never reached on its own.                              *)
VisitRoundResult == Visit({"RoundResult"}) /\ Abort("panicked")

-----------------------------------------------------------------------------
(* After a node: releases, then the batches anchored here, then the next.  *)

(* One free_if_dead call. Slots of the reserved region are never recycled, *)
(* and a Local slot was recycled by its Round.                             *)
Release ==
  /\ pc = "service"
  /\ queue # <<>>
  /\ queue' = Tail(queue)
  /\ LET v    == Head(queue).value
         dead == Resolved(v) /\ IsLastUse(v, Head(queue).current)
     IN  /\ slot' = IF dead THEN Unmapped(v) ELSE slot
         /\ free' = IF dead /\ slot[v].bank # Local
                               /\ slot[v].index >= ReservedEnd(slot[v].bank)
                     THEN [free EXCEPT ![slot[v].bank] = Append(@, slot[v].index)]
                     ELSE free
  /\ UNCHANGED <<job, pc, i, k, next, served, siteIn, rounds, code>>

Pending == {b \in DOMAIN plans : plans[b].anchor = i /\ b \notin served}

ServiceBatch ==
  /\ pc = "service"
  /\ queue = <<>>
  /\ \E b \in Pending :
       /\ \A c \in Pending : b <= c
       /\ code' = Append(code, [op |-> "Gadget", batch |-> b])
       /\ served' = served \cup {b}
       /\ queue' = ReleaseLater(BatchInputs(b), i)
  /\ UNCHANGED <<job, pc, i, k, slot, free, next, siteIn, rounds>>

(* Mutant: the walk does not stop after the last node.                     *)
NextNode_Endless ==
  /\ pc = "service"
  /\ queue = <<>>
  /\ Pending = {}
  /\ i' = i + 1
  /\ pc' = "visit"
  /\ UNCHANGED <<job, k, slot, free, next, queue, served, siteIn, rounds, code>>

NextNode ==
  /\ pc = "service"
  /\ queue = <<>>
  /\ Pending = {}
  /\ i' = i + 1
  /\ pc' = IF i = N THEN "project" ELSE "visit"
  /\ UNCHANGED <<job, k, slot, free, next, queue, served, siteIn, rounds, code>>

(* The witness projection reads the final location of every output.        *)
ProjectWitness ==
  LET outputs == {g.outputs[j].value : j \in DOMAIN g.outputs}
  IN  /\ pc = "project"
      /\ IF \E v \in outputs : ~Resolved(v) THEN Abort("panicked")
         ELSE IF \E v \in outputs : slot[v].bank = Local THEN Abort("rejected")
         ELSE Abort("done")

Over == pc \in {"done", "rejected", "panicked"}

Finished == Over /\ UNCHANGED vars

Step ==
  \/ Reserve
  \/ VisitLeaf \/ VisitGadgetResult \/ VisitArith \/ VisitMulLocal \/ VisitGadget
  \/ VisitRound \/ TakeRoundOperand \/ AllOperandsTaken \/ PlaceRoundResult \/ EmitReshare
  \/ VisitRoundResult
  \/ Release \/ ServiceBatch \/ NextNode \/ ProjectWitness

Next == Step \/ Finished

Spec == Init /\ [][Next]_vars

-----------------------------------------------------------------------------
(* The program.                                                            *)

(* A site's surviving results: which logical result, and where it goes.    *)
SiteRow(s) ==
  LET results == Ordered(ResultsOf(g, s), <)
  IN  [j \in DOMAIN results |-> [logical |-> g.nodes[results[j]].arg, target |-> Home(results[j])]]

(* Mutant: the opened flag is asked for as the zero test's own.            *)
FusedRow_Unshifted(zeroTest, reveal) == SiteRow(zeroTest) \o SiteRow(reveal)

(* The Reveal's result is the third of a fused zero test.                  *)
FusedRow(zeroTest, reveal) ==
  LET opened == SiteRow(reveal)
  IN  SiteRow(zeroTest) \o [j \in DOMAIN opened |-> [opened[j] EXCEPT !.logical = @ + 2]]

Batch(b) ==
  LET plan == plans[b]
  IN  [kind        |-> plan.key.kind,
       fused       |-> plan.reveals # <<>>,
       precomputed |-> plan.key.precomputed,
       inputs      |-> [j \in DOMAIN plan.sites |-> siteIn[plan.sites[j]]],
       rows        |-> [j \in DOMAIN plan.sites |->
                          IF plan.reveals # <<>> THEN FusedRow(plan.sites[j], plan.reveals[j])
                          ELSE SiteRow(plan.sites[j])]]

(* A later binding of a signal wins; an input is read from the caller.     *)
WitnessSource(signal) ==
  LET bindings == {j \in DOMAIN g.outputs : g.outputs[j].signal + 1 = signal}
  IN  CASE signal = 0 -> [src |-> "One"]
        [] signal - 1 \in g.numOutputs .. (g.numOutputs + g.numInputs - 1) ->
             [src |-> "Input", signal |-> signal - 1]
        [] bindings # {} -> [src |-> "Slot", loc |-> slot[g.outputs[Max(bindings)].value]]
        [] OTHER -> [src |-> "Zero"]

Program ==
  [code      |-> code,
   rounds    |-> rounds,
   batches   |-> [b \in DOMAIN plans |-> Batch(b)],
   constants |-> {[loc |-> Home(v), value |-> g.nodes[v].arg] : v \in NodesOf(g, "Constant")},
   inputs    |-> {[loc |-> Home(v), signal |-> g.nodes[v].arg] : v \in NodesOf(g, "Input")},
   sources   |-> [p \in DOMAIN g.witness |-> WitnessSource(g.witness[p])],
   slots     |-> next]

-----------------------------------------------------------------------------
(* Properties.                                                             *)

Locations == [bank : Banks, index : Nat]

Instructions ==
  [op : ArithOps \cup {"MulLocal"}, dst : Locations, a : Locations, b : Locations]
  \cup [op : {"Reshare"}, round : Nat]
  \cup [op : {"Gadget"}, batch : DOMAIN plans]

TypeOK ==
  /\ WellTyped(g)
  /\ pc \in {"reserve", "visit", "operands", "results", "service", "project",
             "done", "rejected", "panicked"}
  /\ i \in Nat /\ k \in Nat
  /\ pc \in {"visit", "operands", "results", "service"} => i \in 1 .. N
  /\ next \in [Banks -> Nat]
  /\ free \in [Banks -> Seq(Nat)]
  /\ \A v \in DOMAIN slot : slot[v] \in Locations
  /\ \A s \in DOMAIN siteIn : siteIn[s] \in Seq(Locations)
  /\ \A r \in DOMAIN rounds : rounds[r] \in [operands : Seq(Nat), results : Seq(Nat)]
  /\ code \in Seq(Instructions)

(* Where a value is, or will be: a gadget result's slot is written by its  *)
(* batch, at a time unrelated to the visit of the result's node.           *)
Placed == DOMAIN slot \cup Reserved

Place(v) == IF v \in Reserved THEN Home(v) ELSE slot[v]

(* Two values alive at once never share a slot of the public or shared     *)
(* bank, and no gadget result's slot is ever lent to another value, however*)
(* allocations and releases interleave along the walk.                     *)
NoAlias ==
  \A v, w \in Placed : v # w /\ Place(v) = Place(w) => Place(v).bank = Local

(* No slot is on the free list twice, or while a live value holds it: the  *)
(* mapping is taken on release, so an operand mentioned twice (x*x), or    *)
(* read by several sites of a batch, is released once.                     *)
FreeSlotsUnused ==
  \A bank \in {Public, Shared} :
    /\ \A j, l \in DOMAIN free[bank] : free[bank][j] = free[bank][l] => j = l
    /\ \A v \in DOMAIN slot : \A j \in DOMAIN free[bank] :
         slot[v] # Loc(bank, free[bank][j])

(* What lowering promises: secret products are split, a local product is   *)
(* read by rounds only (here by one, once) and is no output, a round's     *)
(* results follow it at once, and a Gadget or Round node, which has no     *)
(* value of its own, is read through its results only.                     *)
SecretProductsSplit ==
  \A v \in NodesOf(g, "Mul") : \E w \in InputsOf(g, v) : job.domain[w] = Public

ProductsAreReshared ==
  \A m \in NodesOf(g, "MulLocal") :
    /\ \A r \in ReadersOf(g, m) : g.nodes[r].op = "Round"
    /\ \A j \in DOMAIN g.outputs : g.outputs[j].value # m

ReadThroughResults ==
  /\ \A v \in Values(g) : \A w \in InputsOf(g, v) :
       /\ g.nodes[w].op = "Gadget" => g.nodes[v].op = "GadgetResult"
       /\ g.nodes[w].op = "Round" => g.nodes[v].op = "RoundResult"
  /\ \A j \in DOMAIN g.outputs : g.nodes[g.outputs[j].value].op \notin {"Gadget", "Round"}

IsLowered ==
  /\ SecretProductsSplit /\ ProductsAreReshared /\ ReadThroughResults
  /\ \A m \in NodesOf(g, "MulLocal") :
       /\ \A w \in InputsOf(g, m) : job.domain[w] = Shared
       /\ Mentions(g, m) = 1
  /\ \A r \in NodesOf(g, "Round") :
       /\ InputsOf(g, r) \subseteq NodesOf(g, "MulLocal")
       /\ \A j \in DOMAIN g.nodes[r].in :
            r + j <= N /\ g.nodes[r + j] = Node("RoundResult", j - 1, <<r>>)
  /\ \A v \in NodesOf(g, "RoundResult") :
       v - g.nodes[v].in[1] \in DOMAIN g.nodes[g.nodes[v].in[1]].in

Spent == {m \in NodesOf(g, "MulLocal") : \E r \in NodesOf(g, "Round") :
            \E j \in DOMAIN g.nodes[r].in :
              /\ g.nodes[r].in[j] = m
              /\ r < i \/ (r = i /\ (pc = "results" \/ (pc = "operands" /\ j < k)))}

Holders(bank) == {v \in DOMAIN slot \ (Reserved \cup Spent) : slot[v].bank = bank}

(* No slot leaks: every slot a bank ever minted beyond its reserved region *)
(* is held by exactly one unreleased value or waits on the free list.      *)
NoSlotLeaks ==
  pc # "reserve" /\ IsLowered =>
    \A bank \in Banks :
      next[bank] - (IF bank = Local THEN 0 ELSE ReservedEnd(bank))
        = Len(free[bank]) + Cardinality(Holders(bank))

(* Compiling a lowered graph neither fails nor panics: no operand  *)
(* has lost its slot when it is read, and no lowering invariant is broken. *)
CompilesLowered == IsLowered => pc \notin {"rejected", "panicked"}

(* A site's operands are noted at its node but read at the anchor of its   *)
(* batch: until then no release takes the slot of one of them away.        *)
BatchInputsStayAlive ==
  \A b \in DOMAIN plans \ served : \A s \in ToSet(plans[b].sites) \cap DOMAIN siteIn :
    \A j \in DOMAIN siteIn[s] :
      LET v == g.nodes[SiteNode(g, s)].in[j]
      IN  Resolved(v) /\ slot[v] = siteIn[s][j]

(* A batch is emitted after the last node of its sites and before any node *)
(* reads one of its results, and none is forgotten, although the walk      *)
(* jumps over the results of a Round.                                      *)
ServedInTime ==
  /\ \A b \in served : \A s \in ToSet(plans[b].sites) : s \in DOMAIN siteIn
  /\ pc = "visit" => \A w \in InputsOf(g, i) :
       g.nodes[w].op = "GadgetResult" =>
         \E b \in DOMAIN plans :
           /\ SiteOf(g, w) \in ToSet(plans[b].sites) \cup ToSet(plans[b].reveals)
           /\ b \in served \/ (node.op = "Gadget" /\ node.arg \in ToSet(plans[b].reveals))
  /\ pc = "done" => served = DOMAIN plans

(* Whatever graph it is given, compile emits a program only for a lowered  *)
(* one: every secret product is split, and an unreshared product is read   *)
(* by rounds only and is no output.                                        *)
EmitsOnlyLowered == pc = "done" => SecretProductsSplit /\ ProductsAreReshared

Within(loc) == loc.index < next[loc.bank]

CodeInRange ==
  \A c \in DOMAIN code : code[c].op \in ArithOps \cup {"MulLocal"} =>
    Within(code[c].dst) /\ Within(code[c].a) /\ Within(code[c].b)

SitesInRange == \A s \in DOMAIN siteIn : \A j \in DOMAIN siteIn[s] : Within(siteIn[s][j])

RoundsInRange ==
  \A r \in DOMAIN rounds :
    /\ \A j \in DOMAIN rounds[r].operands : rounds[r].operands[j] < next[Local]
    /\ \A j \in DOMAIN rounds[r].results : rounds[r].results[j] < next[Shared]

(* Every slot the program names lies within its bank, as Program::new will *)
(* demand: instructions, collected site inputs and round tables.           *)
SlotsInRange == CodeInRange /\ SitesInRange /\ RoundsInRange
=============================================================================
