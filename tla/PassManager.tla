---------------------------- MODULE PassManager ----------------------------
(***************************************************************************)
(* The pass manager (passes/mod.rs): the classical passes are run round    *)
(* after round until one round changes nothing, at most MaxIterations      *)
(* times; then the lowering pipeline is run once.                          *)
(***************************************************************************)
EXTENDS Cleanup, Lowering, GadgetSchedule

CONSTANTS
  SourceGraphs,   \* graphs the frontend may hand over
  OptLevels,      \* a subset of 0 .. 2
  InputVectors    \* the inputs a graph's meaning is compared on

(* What the frontend hands over is whole, and nothing in it is lowered yet. *)
ASSUME SourceAssumption ==
  \A g \in SourceGraphs :
    WellTyped(g) /\ Topological(g) /\ WellFormed(g) /\ IsGraph(g) /\ Unlowered(g)

(* A Gadget node stands for a tuple, which only its results read.          *)
ASSUME ArithmeticAssumption ==
  \A g \in SourceGraphs, input \in InputVectors : FieldArithmetic(g, input)

ASSUME OptAssumption == OptLevels \subseteq 0 .. 2

MaxIterations == 4

VARIABLES
  source,     \* the frontend's graph, kept for comparison
  opt,        \* the optimisation level
  graph,      \* the graph being rewritten
  stage,      \* "optimize", "lower" or "done"
  pass,       \* position in the stage's list of passes
  changed,    \* whether this round of classical passes changed anything
  iteration   \* rounds of classical passes begun

vars == <<source, opt, graph, stage, pass, changed, iteration>>

OptimizePasses == <<"dead_code", "const_fold", "cse">>
(* Mutant: rounds are not merged.                                          *)
LowerPasses_NoMerge == <<"mul_split", "wide_schedule">>

LowerPasses    == <<"mul_split", "round_schedule", "wide_schedule">>

(* O0 runs dead code elimination, O1 adds folding, O2 adds cse.            *)
NumOptimizePasses == opt + 1

Apply(name, g) ==
  CASE name = "dead_code"      -> DeadCode(g)
    [] name = "const_fold"     -> ConstFold(g)
    [] name = "cse"            -> Cse(g)
    [] name = "mul_split"      -> MulSplit(g)
    [] name = "round_schedule" -> [graph |-> RoundSchedule(g), changed |-> TRUE]
    [] name = "wide_schedule"  -> [graph |-> WideSchedule(g), changed |-> TRUE]

-----------------------------------------------------------------------------

Init ==
  /\ source \in SourceGraphs
  /\ opt \in OptLevels
  /\ graph = source
  /\ stage = "optimize"
  /\ pass = 1
  /\ changed = FALSE
  /\ iteration = 1

RunOptimizePass ==
  /\ stage = "optimize"
  /\ pass <= NumOptimizePasses
  /\ LET result == Apply(OptimizePasses[pass], graph)
     IN  /\ graph' = result.graph
         /\ changed' = (changed \/ result.changed)
  /\ pass' = pass + 1
  /\ UNCHANGED <<source, opt, stage, iteration>>

AllOptimizePassesRan == stage = "optimize" /\ pass > NumOptimizePasses

NextIteration ==
  /\ AllOptimizePassesRan
  /\ changed
  /\ iteration < MaxIterations
  /\ iteration' = iteration + 1
  /\ pass' = 1
  /\ changed' = FALSE
  /\ UNCHANGED <<source, opt, graph, stage>>

(* The loop breaks when a round changed nothing, or at the cap.            *)
StopOptimizing ==
  /\ AllOptimizePassesRan
  /\ ~changed \/ iteration = MaxIterations
  /\ stage' = "lower"
  /\ pass' = 1
  /\ UNCHANGED <<source, opt, graph, changed, iteration>>

RunLowerPass ==
  /\ stage = "lower"
  /\ graph' = Apply(LowerPasses[pass], graph).graph
  /\ pass' = pass + 1
  /\ stage' = IF pass = Len(LowerPasses) THEN "done" ELSE "lower"
  /\ UNCHANGED <<source, opt, changed, iteration>>

(* The compiler has returned; anything else that cannot move is stuck.     *)
Finished == stage = "done" /\ UNCHANGED vars

Next == RunOptimizePass \/ NextIteration \/ StopOptimizing \/ RunLowerPass \/ Finished

Spec == Init /\ [][Next]_vars

-----------------------------------------------------------------------------
(* Properties.                                                             *)

(* No sequence of passes changes what any witness position carries, on any *)
(* input: renumbering, folding, merging, splitting and reordering nodes    *)
(* keeps the denoted witness.                                              *)
MeaningPreserved ==
  \A input \in InputVectors : WitnessOf(graph, input) = WitnessOf(source, input)

(* A gadget site is never dropped, merged or duplicated: gc keeps even a   *)
(* site no result of which is read, because later stages address results   *)
(* by site id.                                                             *)
SitesSurvive ==
  \A s \in DOMAIN graph.sites :
    Cardinality({v \in NodesOf(graph, "Gadget") : graph.nodes[v].arg = s}) = 1

(* The classical passes always reach their fixpoint before the iteration   *)
(* cap stops them: the code bounds the loop against an oscillating pass,   *)
(* and none oscillates.                                                    *)
FixpointBeforeCap == stage # "optimize" => ~changed

Lowered == stage = "done"

(* Lowering leaves no secret product whole, reshares every local product   *)
(* in exactly one round, and never needs two rounds at one network level:  *)
(* the number of messages is the number of levels that have a product.     *)
OneRoundPerLevel ==
  Lowered =>
    LET level  == NetworkLevels(graph)
        domain == Domains(graph)
    IN  /\ \A v \in NodesOf(graph, "Mul") : \E w \in InputsOf(graph, v) : domain[w] = Public
        /\ \A r, s \in NodesOf(graph, "Round") : level[r] = level[s] => r = s
        /\ \A m \in NodesOf(graph, "MulLocal") :
             Cardinality({at \in NodesOf(graph, "Round") \X (1 .. Len(graph.nodes)) :
                            /\ at[2] \in DOMAIN graph.nodes[at[1]].in
                            /\ graph.nodes[at[1]].in[at[2]] = m}) = 1

(* A Round is immediately followed by its results in slot order, however   *)
(* nodes are reordered: codegen relies on it.                              *)
RoundsKeepTheirResults ==
  (stage = "done" \/ (stage = "lower" /\ pass > 1)) =>
    /\ \A r \in NodesOf(graph, "Round") : \A k \in DOMAIN graph.nodes[r].in :
         /\ r + k <= Len(graph.nodes)
         /\ graph.nodes[r + k] = Node("RoundResult", k - 1, <<r>>)
    /\ \A v \in NodesOf(graph, "RoundResult") :
         v - graph.nodes[v].in[1] \in DOMAIN graph.nodes[graph.nodes[v].in[1]].in

(* Ordering by (network level, full level) never splits the shared sites   *)
(* of one kind and stage over two batches (wide_schedule's module doc):    *)
(* each split would cost a network round.                                  *)
SharedBatchesNeverSplit ==
  Lowered =>
    LET plans  == PlanPlainBatches(graph)
        shared == {i \in DOMAIN plans : plans[i].key.domain = Shared}
    IN  \A i, j \in shared : plans[i].key = plans[j].key => i = j

(* A pass that altered the graph says so: the pass manager stops on the    *)
(* word of the passes alone, so a silent change would end the rounds       *)
(* before the fixpoint.                                                    *)
ChangesAreReported == [][stage = "optimize" /\ graph' # graph => changed']_vars
=============================================================================
