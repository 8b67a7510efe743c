------------------------- MODULE PassManagerProofs -------------------------
(***************************************************************************)
(* The pass manager, for every graph the frontend may hand over: the       *)
(* rounds of classical passes end at their fixpoint, a pass that altered   *)
(* the graph says so, no pass loses a gadget site or parts a round from    *)
(* its results, and none moves the witness.                                *)
(***************************************************************************)
EXTENDS PassManager, RewritingProofs

-----------------------------------------------------------------------------
(* The classical passes.                                                   *)

Classical == {"dead_code", "const_fold", "cse"}

LEMMA ClassicalPass ==
  ASSUME NEW gr, Sound(gr), IsGraph(gr), NEW name \in Classical, NEW r, r = Apply(name, gr)
  PROVE  /\ Sound(r.graph) /\ IsGraph(r.graph) /\ r.changed \in BOOLEAN
         /\ ~ r.changed => r.graph = gr
<1>1. CASE name = "dead_code"
  <2>1. r = DeadCode(gr)
    BY <1>1 DEF Apply
  <2>2. \E q, K, layout, place : Cleaned(gr, r, q, K, layout, place)
    BY <2>1, DeadCodeFacts
  <2>3. Sound(r.graph) /\ IsGraph(r.graph) /\ r.changed \in BOOLEAN
    BY <2>2 DEF Cleaned
  <2> QED
    BY <2>1, <2>3, SilentDeadCode
<1>2. CASE name # "dead_code"
  <2> DEFINE how == IF name = "cse" THEN "cse" ELSE "fold"
  <2>1. how \in RewritingPasses /\ r = Rewritten(how, gr)
    BY <1>2 DEF Apply, Rewritten, RewritingPasses, Classical
  <2> HIDE DEF how
  <2> QED
    BY <2>1, RewrittenSound, SilentRewrite
<1> QED
  BY <1>1, <1>2

(* What each leaves nothing to do about, and does not undo.                *)
LEMMA DeadCodePass ==
  ASSUME NEW gr, Sound(gr), IsGraph(gr), NEW r, r = Apply("dead_code", gr)
  PROVE  /\ Live(r.graph)
         /\ Folded(gr) => Folded(r.graph)
         /\ Distinct(gr) => Distinct(r.graph)
         /\ Live(gr) => r.graph = gr /\ ~ r.changed
<1>1. r = DeadCode(gr)
  BY DEF Apply
<1> QED
  BY <1>1, DeadCodeLeavesLive, DeadCodeKeepsFolded, DeadCodeKeepsDistinct, LiveStays

LEMMA FoldPass ==
  ASSUME NEW gr, Sound(gr), IsGraph(gr), NEW r, r = Apply("const_fold", gr)
  PROVE  Folded(r.graph) /\ (Folded(gr) => r.graph = gr /\ ~ r.changed)
<1>1. r = ConstFold(gr)
  BY DEF Apply
<1> QED
  BY <1>1, FoldLeavesFolded, FoldedStays

LEMMA CsePass ==
  ASSUME NEW gr, Sound(gr), IsGraph(gr), NEW r, r = Apply("cse", gr)
  PROVE  /\ Distinct(r.graph) /\ (Folded(gr) => Folded(r.graph))
         /\ Distinct(gr) => r.graph = gr /\ ~ r.changed
<1>1. r = Cse(gr)
  BY DEF Apply
<1> QED
  BY <1>1, MergeLeavesDistinct, DistinctStays

-----------------------------------------------------------------------------
(* The inductive invariant.                                                *)

Positioned ==
  /\ opt \in 0 .. 2 /\ iteration \in 1 .. MaxIterations /\ changed \in BOOLEAN
  /\ stage \in {"optimize", "lower", "done"}
  /\ stage = "optimize" => pass \in 1 .. (NumOptimizePasses + 1)

(* Every pass that has run has left its mark, and in the third round       *)
(* nothing is left to do.                                                  *)
Marked ==
  /\ opt >= 1 /\ (iteration >= 2 \/ pass > 2) => Folded(graph)
  /\ opt = 2 /\ (iteration >= 2 \/ pass > 3)  => Distinct(graph)
  /\ iteration >= 3 \/ (iteration >= 2 /\ pass > 1) => Live(graph)
  /\ iteration >= 3 => ~ changed

ClassicalInv ==
  /\ Positioned
  /\ stage = "optimize" => Sound(graph) /\ IsGraph(graph) /\ Marked
  /\ FixpointBeforeCap

LEMMA InitMarks == Init => ClassicalInv
<1> SUFFICES ASSUME Init PROVE ClassicalInv
  OBVIOUS
<1>1. Sound(graph) /\ IsGraph(graph)
  BY SourceAssumption DEF Init, Sound
<1>2. Positioned /\ FixpointBeforeCap
  <2>1. changed \in BOOLEAN /\ ~ changed
    BY Zenon DEF Init
  <2>2. opt \in 0 .. 2 /\ pass = 1 /\ iteration = 1 /\ stage = "optimize"
    BY OptAssumption DEF Init
  <2> QED
    BY <2>1, <2>2 DEF Positioned, FixpointBeforeCap, NumOptimizePasses, MaxIterations
<1>3. Marked
  BY DEF Init, Marked
<1> QED
  BY <1>1, <1>2, <1>3 DEF ClassicalInv

LEMMA PassMarks ==
  ASSUME ClassicalInv, RunOptimizePass
  PROVE  ClassicalInv' /\ (graph' # graph => changed')
<1> DEFINE name == OptimizePasses[pass]
           r == Apply(name, graph)
<1>1. /\ stage = "optimize" /\ pass \in 1 .. 3 /\ pass <= opt + 1 /\ opt \in 0 .. 2
      /\ iteration \in 1 .. 4 /\ changed \in BOOLEAN
      /\ Sound(graph) /\ IsGraph(graph) /\ Marked
  BY DEF ClassicalInv, Positioned, RunOptimizePass, NumOptimizePasses, MaxIterations
<1>2. /\ graph' = r.graph /\ changed' = (changed \/ r.changed) /\ pass' = pass + 1
      /\ UNCHANGED <<source, opt, stage, iteration>>
  BY DEF RunOptimizePass
<1>3. /\ pass = 1 => name = "dead_code"
      /\ pass = 2 => name = "const_fold"
      /\ pass = 3 => name = "cse"
  BY DEF OptimizePasses
<1>4. name \in Classical
  BY <1>1, <1>3 DEF Classical
<1> HIDE DEF r, name
<1>5. r = Apply(name, graph)
  BY DEF r
<1>6. /\ Sound(r.graph) /\ IsGraph(r.graph) /\ r.changed \in BOOLEAN
      /\ ~ r.changed => r.graph = graph
  BY <1>1, <1>4, <1>5, ClassicalPass
<1>7. Marked'
  <2>1. CASE pass = 1
    <3>1. /\ Live(r.graph)
          /\ Folded(graph) => Folded(r.graph)
          /\ Distinct(graph) => Distinct(r.graph)
          /\ Live(graph) => r.graph = graph /\ ~ r.changed
      BY <1>1, <1>3, <1>5, <2>1, DeadCodePass
    <3> QED
      BY <1>1, <1>2, <1>6, <2>1, <3>1 DEF Marked
  <2>2. CASE pass = 2
    <3>1. Folded(r.graph) /\ (Folded(graph) => r.graph = graph /\ ~ r.changed)
      BY <1>1, <1>3, <1>5, <2>2, FoldPass
    <3> QED
      BY <1>1, <1>2, <1>6, <2>2, <3>1 DEF Marked
  <2>3. CASE pass = 3
    <3>1. /\ Distinct(r.graph) /\ (Folded(graph) => Folded(r.graph))
          /\ Distinct(graph) => r.graph = graph /\ ~ r.changed
      BY <1>1, <1>3, <1>5, <2>3, CsePass
    <3> QED
      BY <1>1, <1>2, <1>6, <2>3, <3>1 DEF Marked
  <2> QED
    BY <1>1, <2>1, <2>2, <2>3
<1>8. Positioned'
  BY <1>1, <1>2, <1>6 DEF Positioned, NumOptimizePasses, MaxIterations
<1>9. FixpointBeforeCap'
  BY <1>1, <1>2 DEF FixpointBeforeCap
<1> QED
  BY <1>2, <1>6, <1>7, <1>8, <1>9 DEF ClassicalInv

LEMMA StepMarks == ClassicalInv /\ [Next]_vars => ClassicalInv'
<1> SUFFICES ASSUME ClassicalInv, [Next]_vars
             PROVE  ClassicalInv'
  OBVIOUS
<1>1. CASE RunOptimizePass
  BY <1>1, PassMarks
<1>2. CASE NextIteration
  <2>1. /\ stage = "optimize" /\ pass > opt + 1 /\ opt \in 0 .. 2 /\ changed /\ iteration < 4
        /\ iteration \in 1 .. 4 /\ pass \in 1 .. 4
        /\ Sound(graph) /\ IsGraph(graph) /\ Marked
    BY <1>2 DEF ClassicalInv, Positioned, NextIteration, AllOptimizePassesRan, NumOptimizePasses,
                MaxIterations
  <2>2. /\ iteration' = iteration + 1 /\ pass' = 1 /\ changed' = FALSE
        /\ UNCHANGED <<source, opt, graph, stage>>
    BY <1>2 DEF NextIteration
  <2>3. Marked'
    BY <2>1, <2>2 DEF Marked
  <2>4. Positioned' /\ FixpointBeforeCap'
    <3>1. changed' \in BOOLEAN /\ ~ changed'
      BY <2>2, Zenon
    <3>2. /\ opt' \in 0 .. 2 /\ pass' = 1 /\ iteration' \in 1 .. 4 /\ stage' = "optimize"
      BY <2>1, <2>2
    <3>3. opt' \in 0 .. 2 /\ iteration' \in 1 .. MaxIterations
      BY <3>2 DEF MaxIterations
    <3>4. pass' \in 1 .. (NumOptimizePasses' + 1)
      BY <2>1, <2>2 DEF NumOptimizePasses
    <3>5. stage' \in {"optimize", "lower", "done"}
      BY <3>2
    <3>6. Positioned'
      BY <3>1, <3>3, <3>4, <3>5, Zenon DEF Positioned, MaxIterations
    <3>7. FixpointBeforeCap'
      BY <3>1, Zenon DEF FixpointBeforeCap
    <3> QED
      BY <3>6, <3>7
  <2> QED
    BY <2>1, <2>2, <2>3, <2>4 DEF ClassicalInv
<1>3. CASE StopOptimizing
  <2>1. /\ stage = "optimize" /\ iteration \in 1 .. 4 /\ Marked /\ opt \in 0 .. 2
        /\ changed \in BOOLEAN /\ (~ changed \/ iteration = 4)
    BY <1>3 DEF ClassicalInv, Positioned, StopOptimizing, AllOptimizePassesRan, MaxIterations
  <2>2. stage' = "lower" /\ UNCHANGED <<source, opt, graph, changed, iteration>>
    BY <1>3 DEF StopOptimizing
  <2>3. ~ changed
    BY <2>1 DEF Marked
  <2> QED
    BY <2>1, <2>2, <2>3 DEF ClassicalInv, Positioned, FixpointBeforeCap, MaxIterations
<1>4. CASE RunLowerPass
  <2>1. stage = "lower" /\ stage' \in {"lower", "done"} /\ UNCHANGED <<opt, changed, iteration>>
    BY <1>4 DEF RunLowerPass
  <2> QED
    BY <2>1 DEF ClassicalInv, Positioned, FixpointBeforeCap
<1>5. CASE UNCHANGED vars
  BY <1>5 DEF ClassicalInv, Positioned, FixpointBeforeCap, Marked, vars, NumOptimizePasses
<1>6. CASE Finished
  BY <1>5, <1>6 DEF Finished
<1> QED
  BY <1>1, <1>2, <1>3, <1>4, <1>5, <1>6 DEF Next

THEOREM ClassicalInvariance == Spec => []ClassicalInv
<1>1. Init => ClassicalInv
  BY InitMarks
<1>2. ClassicalInv /\ [Next]_vars => ClassicalInv'
  BY StepMarks
<1> QED
  BY <1>1, <1>2, PTL DEF Spec

(* The rounds of classical passes end because one of them changed nothing, *)
(* never at the cap (run_passes): the second round drops what folding and  *)
(* merging left behind, and in the third no pass finds anything.           *)
THEOREM ReachesFixpoint == Spec => []FixpointBeforeCap
<1>1. ClassicalInv => FixpointBeforeCap
  BY DEF ClassicalInv
<1> QED
  BY <1>1, ClassicalInvariance, PTL

(* A pass that altered the graph reports a change, so no round that did    *)
(* something is taken for the last one.                                    *)
THEOREM Reported == Spec => ChangesAreReported
<1>1. ClassicalInv /\ [Next]_vars => [stage = "optimize" /\ graph' # graph => changed']_vars
  <2> SUFFICES ASSUME ClassicalInv, [Next]_vars, stage = "optimize", graph' # graph
               PROVE  changed'
    OBVIOUS
  <2>1. RunOptimizePass
    BY DEF Next, NextIteration, StopOptimizing, RunLowerPass, Finished, vars
  <2> QED
    BY <2>1, PassMarks
<1> QED
  BY <1>1, ClassicalInvariance, PTL DEF Spec, ChangesAreReported

-----------------------------------------------------------------------------
(* Lowering.                                                               *)

(* What a classical pass cannot bring in.                                  *)
LEMMA ClassicalUnlowered ==
  ASSUME NEW gr, Sound(gr), IsGraph(gr), Unlowered(gr), NEW name \in Classical,
         NEW r, r = Apply(name, gr)
  PROVE  Unlowered(r.graph)
<1>1. CASE name = "dead_code"
  <2>1. r = DeadCode(gr)
    BY <1>1 DEF Apply
  <2> QED
    BY <2>1, CleanedUnlowered
<1>2. CASE name # "dead_code"
  <2> DEFINE how == IF name = "cse" THEN "cse" ELSE "fold"
  <2>1. how \in {"fold", "cse"} /\ r = Rewritten(how, gr)
    BY <1>2 DEF Apply, Rewritten, Classical
  <2> HIDE DEF how
  <2> QED
    BY <2>1, RewrittenUnlowered
<1> QED
  BY <1>1, <1>2

(* What the lowering has reached: a graph no pass has lowered, then one    *)
(* whose every round is a trio of its own, then one whose rounds stand     *)
(* right before their results.                                             *)
LoweringInv ==
  /\ Sound(graph) /\ IsGraph(graph)
  /\ stage = "optimize" => Unlowered(graph)
  /\ stage = "lower" => /\ pass \in 1 .. 3
                        /\ pass = 1 => Unlowered(graph)
                        /\ pass = 2 => SplitShape(graph)
                        /\ pass > 1 => RoundsInPlace(graph)
  /\ stage = "done" => RoundsInPlace(graph)

LEMMA InitUnlowered == Init => LoweringInv
<1> SUFFICES ASSUME Init PROVE LoweringInv
  OBVIOUS
<1>1. graph \in SourceGraphs /\ stage = "optimize"
  BY DEF Init
<1>2. Sound(graph) /\ IsGraph(graph) /\ Unlowered(graph)
  BY <1>1, SourceAssumption DEF Sound
<1> QED
  BY <1>1, <1>2 DEF LoweringInv

LEMMA LowerPassLowers ==
  ASSUME LoweringInv, RunLowerPass
  PROVE  LoweringInv'
<1> PICK gr : gr = graph
  OBVIOUS
<1>1. /\ stage = "lower" /\ pass \in 1 .. 3 /\ pass' = pass + 1
      /\ graph' = Apply(LowerPasses[pass], graph).graph
      /\ stage' = IF pass = 3 THEN "done" ELSE "lower"
  <2>1. stage = "lower" /\ pass \in 1 .. 3
    BY DEF LoweringInv, RunLowerPass
  <2>2. Len(LowerPasses) = 3
    BY DEF LowerPasses
  <2> QED
    BY <2>1, <2>2 DEF RunLowerPass
<1>2. /\ Sound(gr) /\ IsGraph(gr)
      /\ pass = 1 => Unlowered(gr)
      /\ pass = 2 => SplitShape(gr)
      /\ pass > 1 => RoundsInPlace(gr)
  BY <1>1 DEF LoweringInv
<1>3. CASE pass = 1
  <2>1. graph' = MulSplit(gr).graph
    BY <1>1, <1>3 DEF Apply, LowerPasses
  <2> PICK h : h = MulSplit(gr).graph
    OBVIOUS
  <2>2. Sound(h) /\ IsGraph(h) /\ SplitShape(h)
    BY <1>2, <1>3, MulSplitFacts
  <2>3. RoundsInPlace(h)
    BY <2>2, SplitInPlace
  <2>4. graph' = h /\ stage' = "lower" /\ pass' = 2
    BY <1>1, <1>3, <2>1
  <2> QED
    BY <2>2, <2>3, <2>4 DEF LoweringInv
<1>4. CASE pass = 2
  <2>1. graph' = RoundSchedule(gr)
    BY <1>1, <1>4 DEF Apply, LowerPasses
  <2> PICK h : h = RoundSchedule(gr)
    OBVIOUS
  <2>2. Sound(h) /\ IsGraph(h) /\ RoundsInPlace(h)
    BY <1>2, <1>4, RoundScheduleFacts
  <2>4. graph' = h /\ stage' = "lower" /\ pass' = 3
    BY <1>1, <1>4, <2>1
  <2> QED
    BY <2>2, <2>4 DEF LoweringInv
<1>5. CASE pass = 3
  <2>1. graph' = WideSchedule(gr)
    BY <1>1, <1>5 DEF Apply, LowerPasses
  <2> PICK h : h = WideSchedule(gr)
    OBVIOUS
  <2>2. Sound(h) /\ IsGraph(h)
    BY <1>2, WideFacts
  <2>3. RoundsInPlace(h)
    BY <1>2, <1>5, WideInPlace
  <2>4. graph' = h /\ stage' = "done"
    BY <1>1, <1>5, <2>1
  <2> QED
    BY <2>2, <2>3, <2>4 DEF LoweringInv
<1> QED
  BY <1>1, <1>3, <1>4, <1>5

LEMMA StepLowers == ClassicalInv /\ LoweringInv /\ [Next]_vars => LoweringInv'
<1> SUFFICES ASSUME ClassicalInv, LoweringInv, [Next]_vars
             PROVE  LoweringInv'
  OBVIOUS
<1>1. CASE RunOptimizePass
  <2> PICK gr, name, r : gr = graph /\ name = OptimizePasses[pass] /\ r = Apply(name, gr)
    OBVIOUS
  <2>1. /\ stage = "optimize" /\ stage' = "optimize" /\ pass \in 1 .. 3 /\ graph' = r.graph
    BY <1>1 DEF ClassicalInv, Positioned, RunOptimizePass, NumOptimizePasses
  <2>2. name \in Classical
    BY <2>1 DEF OptimizePasses, Classical
  <2>3. Sound(gr) /\ IsGraph(gr) /\ Unlowered(gr)
    BY <2>1 DEF LoweringInv
  <2>4. Sound(r.graph) /\ IsGraph(r.graph)
    BY <2>2, <2>3, ClassicalPass
  <2>5. Unlowered(r.graph)
    BY <2>2, <2>3, ClassicalUnlowered
  <2> QED
    BY <2>1, <2>4, <2>5 DEF LoweringInv
<1>2. CASE NextIteration
  BY <1>2 DEF NextIteration, AllOptimizePassesRan, LoweringInv
<1>3. CASE StopOptimizing
  BY <1>3 DEF StopOptimizing, AllOptimizePassesRan, LoweringInv
<1>4. CASE RunLowerPass
  BY <1>4, LowerPassLowers
<1>5. CASE UNCHANGED vars
  BY <1>5 DEF LoweringInv, vars
<1>6. CASE Finished
  BY <1>5, <1>6 DEF Finished
<1> QED
  BY <1>1, <1>2, <1>3, <1>4, <1>5, <1>6 DEF Next

THEOREM LoweringInvariance == Spec => []LoweringInv
<1>1. Init => LoweringInv
  BY InitUnlowered
<1>2. ClassicalInv /\ LoweringInv /\ [Next]_vars => LoweringInv'
  BY StepLowers
<1> QED
  BY <1>1, <1>2, ClassicalInvariance, PTL DEF Spec

(* No pass drops, merges or duplicates a gadget site (gc and the rewriting *)
(* driver keep every Gadget node, and neither schedule loses a slot).      *)
THEOREM EverySiteSurvives == Spec => []SitesSurvive
<1>1. LoweringInv => SitesSurvive
  <2> SUFFICES ASSUME LoweringInv, NEW s \in DOMAIN graph.sites
               PROVE  Cardinality({v \in NodesOf(graph, "Gadget") : graph.nodes[v].arg = s}) = 1
    BY DEF SitesSurvive
  <2>1. WellFormed(graph)
    BY DEF LoweringInv, Sound
  <2>2. PICK v \in NodesOf(graph, "Gadget") : graph.nodes[v].arg = s
    BY <2>1 DEF WellFormed
  <2>3. {w \in NodesOf(graph, "Gadget") : graph.nodes[w].arg = s} = {v}
    BY <2>1, <2>2 DEF WellFormed
  <2> QED
    BY <2>3, FS_Singleton
<1> QED
  BY <1>1, LoweringInvariance, PTL

(* Once products are split, every round is immediately followed by its     *)
(* results in slot order, as codegen takes it, whatever the schedules      *)
(* reorder.                                                                *)
THEOREM RoundsStayWhole == Spec => []RoundsKeepTheirResults
<1>1. LoweringInv => RoundsKeepTheirResults
  BY DEF LoweringInv, RoundsKeepTheirResults, RoundsInPlace
<1> QED
  BY <1>1, LoweringInvariance, PTL

-----------------------------------------------------------------------------
(* Meaning.                                                                *)

LEMMA ClassicalMeaning ==
  ASSUME NEW gr, Sound(gr), IsGraph(gr), NEW input, FieldArithmetic(gr, input),
         NEW name \in Classical, NEW r, r = Apply(name, gr)
  PROVE  /\ WitnessOf(r.graph, input) = WitnessOf(gr, input)
         /\ FieldArithmetic(r.graph, input)
<1>1. CASE name = "dead_code"
  <2>1. r = DeadCode(gr)
    BY <1>1 DEF Apply
  <2> QED
    BY <2>1, CleanedMeaning
<1>2. CASE name # "dead_code"
  <2> DEFINE how == IF name = "cse" THEN "cse" ELSE "fold"
  <2>1. how \in RewritingPasses /\ how # "split" /\ r = Rewritten(how, gr)
    BY <1>2 DEF Apply, Rewritten, RewritingPasses, Classical
  <2> HIDE DEF how
  <2> PICK h : h = r.graph
    OBVIOUS
  <2>2. h = Rewritten(how, gr).graph
    BY <2>1
  <2>3. WitnessOf(h, input) = WitnessOf(gr, input) /\ FieldArithmetic(h, input)
    BY <2>1, <2>2, RewrittenMeaning
  <2> QED
    BY <2>3
<1> QED
  BY <1>1, <1>2

LEMMA LoweringMeaning ==
  ASSUME NEW gr, Sound(gr), IsGraph(gr), NEW input, NEW at \in 1 .. 3,
         at = 1 => FieldArithmetic(gr, input), at = 2 => SplitShape(gr),
         NEW h, h = Apply(LowerPasses[at], gr).graph
  PROVE  WitnessOf(h, input) = WitnessOf(gr, input)
<1>1. CASE at = 1
  <2>1. h = MulSplit(gr).graph
    BY <1>1 DEF Apply, LowerPasses
  <2> DEFINE how == "split"
  <2>2. how \in RewritingPasses /\ h = Rewritten(how, gr).graph
    BY <2>1 DEF RewritingPasses, Rewritten
  <2> HIDE DEF how
  <2> QED
    BY <1>1, <2>2, RewrittenMeaning
<1>2. CASE at = 2
  <2>1. h = RoundSchedule(gr)
    BY <1>2 DEF Apply, LowerPasses
  <2> QED
    BY <1>2, <2>1, ScheduleMeaning
<1>3. CASE at = 3
  <2>1. h = WideSchedule(gr)
    BY <1>3 DEF Apply, LowerPasses
  <2> QED
    BY <2>1, WideMeaning
<1> QED
  BY <1>1, <1>2, <1>3

(* The witness is the source's, and while products are whole arithmetic is *)
(* on field elements: folding x + 0 to x and swapping operands is only     *)
(* right on those.                                                         *)
Unsplit == stage = "optimize" \/ (stage = "lower" /\ pass = 1)

MeaningInv ==
  /\ MeaningPreserved
  /\ Unsplit => \A input \in InputVectors : FieldArithmetic(graph, input)

LEMMA InitMeans == Init => MeaningInv
<1> SUFFICES ASSUME Init PROVE MeaningInv
  OBVIOUS
<1>1. graph = source /\ graph \in SourceGraphs
  BY DEF Init
<1>2. \A input \in InputVectors : FieldArithmetic(graph, input)
  BY <1>1, ArithmeticAssumption
<1> QED
  BY <1>1, <1>2 DEF MeaningInv, MeaningPreserved

LEMMA StepMeans == ClassicalInv /\ LoweringInv /\ MeaningInv /\ [Next]_vars => MeaningInv'
<1> SUFFICES ASSUME ClassicalInv, LoweringInv, MeaningInv, [Next]_vars
             PROVE  MeaningInv'
  OBVIOUS
<1>1. CASE RunOptimizePass
  <2> PICK gr, name, r : gr = graph /\ name = OptimizePasses[pass] /\ r = Apply(name, gr)
    OBVIOUS
  <2>1. /\ stage = "optimize" /\ pass \in 1 .. 3 /\ graph' = r.graph /\ source' = source
    BY <1>1 DEF ClassicalInv, Positioned, RunOptimizePass, NumOptimizePasses
  <2>2. name \in Classical
    BY <2>1 DEF OptimizePasses, Classical
  <2>3. Sound(gr) /\ IsGraph(gr)
    BY DEF LoweringInv
  <2>4. ASSUME NEW input \in InputVectors
        PROVE  WitnessOf(r.graph, input) = WitnessOf(source, input) /\ FieldArithmetic(r.graph, input)
    <3>1. WitnessOf(gr, input) = WitnessOf(source, input) /\ FieldArithmetic(gr, input)
      BY <2>1 DEF MeaningInv, MeaningPreserved, Unsplit
    <3>2. WitnessOf(r.graph, input) = WitnessOf(gr, input) /\ FieldArithmetic(r.graph, input)
      BY <2>2, <2>3, <3>1, ClassicalMeaning
    <3> QED
      BY <3>1, <3>2
  <2> QED
    BY <2>1, <2>4 DEF MeaningInv, MeaningPreserved
<1>2. CASE NextIteration
  BY <1>2 DEF NextIteration, AllOptimizePassesRan, MeaningInv, MeaningPreserved, Unsplit
<1>3. CASE StopOptimizing
  BY <1>3 DEF StopOptimizing, AllOptimizePassesRan, MeaningInv, MeaningPreserved, Unsplit
<1>4. CASE RunLowerPass
  <2> PICK gr, at, h : gr = graph /\ at = pass /\ h = Apply(LowerPasses[at], gr).graph
    OBVIOUS
  <2>1. /\ stage = "lower" /\ at \in 1 .. 3 /\ Sound(gr) /\ IsGraph(gr)
        /\ at = 2 => SplitShape(gr)
    BY <1>4 DEF LoweringInv, RunLowerPass
  <2>2. graph' = h /\ source' = source /\ pass' = at + 1
    BY <1>4 DEF RunLowerPass
  <2>3. ~ Unsplit'
    <3>1. pass' # 1
      BY <2>1, <2>2
    <3>2. stage' # "optimize"
      BY <1>4 DEF RunLowerPass
    <3> QED
      BY <3>1, <3>2 DEF Unsplit
  <2>4. ASSUME NEW input \in InputVectors
        PROVE  WitnessOf(h, input) = WitnessOf(source, input)
    <3>1. WitnessOf(gr, input) = WitnessOf(source, input) /\ (at = 1 => FieldArithmetic(gr, input))
      BY <2>1 DEF MeaningInv, MeaningPreserved, Unsplit
    <3>2. WitnessOf(h, input) = WitnessOf(gr, input)
      BY <2>1, <3>1, LoweringMeaning
    <3> QED
      BY <3>1, <3>2
  <2> QED
    BY <2>2, <2>3, <2>4 DEF MeaningInv, MeaningPreserved
<1>5. CASE UNCHANGED vars
  BY <1>5 DEF MeaningInv, MeaningPreserved, Unsplit, vars
<1>6. CASE Finished
  BY <1>5, <1>6 DEF Finished
<1> QED
  BY <1>1, <1>2, <1>3, <1>4, <1>5, <1>6 DEF Next

(* Whatever sequence of passes runs, every witness position carries on     *)
(* every input what the frontend's graph gave it (run_passes).             *)
THEOREM WitnessKept == Spec => []MeaningPreserved
<1>1. Init => MeaningInv
  BY InitMeans
<1>2. ClassicalInv /\ LoweringInv /\ MeaningInv /\ [Next]_vars => MeaningInv'
  BY StepMeans
<1>3. MeaningInv => MeaningPreserved
  BY DEF MeaningInv
<1> QED
  BY <1>1, <1>2, <1>3, ClassicalInvariance, LoweringInvariance, PTL DEF Spec

-----------------------------------------------------------------------------
(* What the lowering saves.                                                *)

(* Products are split before their rounds are merged, level by level, and  *)
(* nothing later undoes either.                                            *)
RoundInv ==
  /\ stage = "lower" /\ pass = 2 => ProductsSplit(graph)
  /\ (stage = "lower" /\ pass = 3) \/ stage = "done" => OnSchedule(graph)

LEMMA LowerPassRounds ==
  ASSUME LoweringInv, RoundInv, RunLowerPass
  PROVE  RoundInv'
<1> PICK gr, at : gr = graph /\ at = pass
  OBVIOUS
<1>1. /\ stage = "lower" /\ at \in 1 .. 3 /\ pass' = at + 1
      /\ graph' = Apply(LowerPasses[at], gr).graph
      /\ stage' = IF at = 3 THEN "done" ELSE "lower"
  <2>1. stage = "lower" /\ at \in 1 .. 3
    BY DEF LoweringInv, RunLowerPass
  <2>2. Len(LowerPasses) = 3
    BY DEF LowerPasses
  <2> QED
    BY <2>1, <2>2 DEF RunLowerPass
<1>2. /\ Sound(gr) /\ IsGraph(gr)
      /\ at = 1 => Unlowered(gr)
      /\ at = 2 => SplitShape(gr) /\ ProductsSplit(gr)
      /\ at = 3 => OnSchedule(gr)
  BY <1>1 DEF LoweringInv, RoundInv
<1>3. CASE at = 1
  <2>1. graph' = MulSplit(gr).graph
    BY <1>1, <1>3 DEF Apply, LowerPasses
  <2> PICK h : h = MulSplit(gr).graph
    OBVIOUS
  <2>2. ProductsSplit(h)
    BY <1>2, <1>3, MulSplitSplits
  <2>3. graph' = h /\ stage' = "lower" /\ pass' = 2
    BY <1>1, <1>3, <2>1
  <2> QED
    BY <2>2, <2>3 DEF RoundInv
<1>4. CASE at = 2
  <2>1. graph' = RoundSchedule(gr)
    BY <1>1, <1>4 DEF Apply, LowerPasses
  <2> PICK h : h = RoundSchedule(gr)
    OBVIOUS
  <2>2. OnSchedule(h)
    BY <1>2, <1>4, RoundScheduleSchedules
  <2>3. graph' = h /\ stage' = "lower" /\ pass' = 3
    BY <1>1, <1>4, <2>1
  <2> QED
    BY <2>2, <2>3 DEF RoundInv
<1>5. CASE at = 3
  <2>1. graph' = WideSchedule(gr)
    BY <1>1, <1>5 DEF Apply, LowerPasses
  <2> PICK h : h = WideSchedule(gr)
    OBVIOUS
  <2>2. OnSchedule(h)
    BY <1>2, <1>5, WideKeepsSchedule
  <2>3. graph' = h /\ stage' = "done"
    BY <1>1, <1>5, <2>1
  <2> QED
    BY <2>2, <2>3 DEF RoundInv
<1> QED
  BY <1>1, <1>3, <1>4, <1>5

LEMMA StepRounds == LoweringInv /\ RoundInv /\ [Next]_vars => RoundInv'
<1> SUFFICES ASSUME LoweringInv, RoundInv, [Next]_vars
             PROVE  RoundInv'
  OBVIOUS
<1>1. CASE RunOptimizePass
  BY <1>1 DEF RunOptimizePass, RoundInv
<1>2. CASE NextIteration
  BY <1>2 DEF NextIteration, AllOptimizePassesRan, RoundInv
<1>3. CASE StopOptimizing
  BY <1>3 DEF StopOptimizing, AllOptimizePassesRan, RoundInv
<1>4. CASE RunLowerPass
  BY <1>4, LowerPassRounds
<1>5. CASE UNCHANGED vars
  BY <1>5 DEF RoundInv, vars
<1>6. CASE Finished
  BY <1>5, <1>6 DEF Finished
<1> QED
  BY <1>1, <1>2, <1>3, <1>4, <1>5, <1>6 DEF Next

(* A product that one round takes at one position is sent once.            *)
LEMMA SentOnce ==
  ASSUME NEW gr, Sound(gr), RoundsInPlace(gr), NEW u, TakenOnce(gr, u)
  PROVE  Cardinality({at \in NodesOf(gr, "Round") \X (1 .. Len(gr.nodes)) :
                        /\ at[2] \in DOMAIN gr.nodes[at[1]].in
                        /\ gr.nodes[at[1]].in[at[2]] = u}) = 1
<1>1. PICK r, k : TakenBy(gr, u, r, k) /\ \A s, j : TakenBy(gr, u, s, j) => s = r /\ j = k
  BY DEF TakenOnce
<1>2. r \in NodesOf(gr, "Round") /\ k \in DOMAIN gr.nodes[r].in /\ gr.nodes[r].in[k] = u
  BY <1>1 DEF TakenBy
<1>3. k \in 1 .. Len(gr.nodes)
  <2>1. r \in Values(gr) /\ gr.nodes[r].in \in Seq(Nat) /\ Len(gr.nodes) \in Nat /\ r \in 1 .. Len(gr.nodes)
    BY <1>2, GraphFacts DEF NodesOf
  <2>2. k \in Nat \ {0}
    BY <1>2, <2>1
  <2>3. r + k <= Len(gr.nodes)
    BY <1>2 DEF RoundsInPlace
  <2> QED
    BY <2>1, <2>2, <2>3
<1> DEFINE X == {at \in NodesOf(gr, "Round") \X (1 .. Len(gr.nodes)) :
                   /\ at[2] \in DOMAIN gr.nodes[at[1]].in
                   /\ gr.nodes[at[1]].in[at[2]] = u}
<1>4. <<r, k>> \in X
  BY <1>2, <1>3
<1>5. ASSUME NEW at \in X
      PROVE  at = <<r, k>>
  <2>1. at \in NodesOf(gr, "Round") \X (1 .. Len(gr.nodes))
    OBVIOUS
  <2>2. TakenBy(gr, u, at[1], at[2])
    BY DEF TakenBy
  <2>3. at[1] = r /\ at[2] = k
    BY <1>1, <2>2, Zenon
  <2> QED
    BY <2>1, <2>3
<1> HIDE DEF X
<1>6. X = {<<r, k>>}
  BY <1>4, <1>5
<1>7. Cardinality(X) = 1
  BY <1>6, FS_Singleton
<1> QED
  BY <1>7 DEF X

(* One message a level: the compiled graph has no product left whole with  *)
(* two secret factors, sends every local product once, and has one round   *)
(* at most at each network level (mul_split, round_schedule).              *)
THEOREM OneRoundEach == Spec => []OneRoundPerLevel
<1>1. Init => RoundInv
  BY DEF Init, RoundInv
<1>2. LoweringInv /\ RoundInv /\ [Next]_vars => RoundInv'
  BY StepRounds
<1>3. LoweringInv /\ RoundInv => OneRoundPerLevel
  <2> SUFFICES ASSUME LoweringInv, RoundInv, Lowered
               PROVE  OneRoundPerLevel
    BY DEF OneRoundPerLevel
  <2> PICK gr : gr = graph
    OBVIOUS
  <2>1. Sound(gr) /\ RoundsInPlace(gr) /\ OnSchedule(gr)
    BY DEF LoweringInv, RoundInv, Lowered
  <2>2. \A v \in NodesOf(gr, "Mul") : \E w \in InputsOf(gr, v) : Domains(gr)[w] = Public
    BY <2>1 DEF OnSchedule, ProductsSplit
  <2>3. \A r, s \in NodesOf(gr, "Round") : NetworkLevels(gr)[r] = NetworkLevels(gr)[s] => r = s
    BY <2>1 DEF OnSchedule, RoundsApart
  <2>4. \A u \in NodesOf(gr, "MulLocal") :
          Cardinality({at \in NodesOf(gr, "Round") \X (1 .. Len(gr.nodes)) :
                         /\ at[2] \in DOMAIN gr.nodes[at[1]].in
                         /\ gr.nodes[at[1]].in[at[2]] = u}) = 1
    BY <2>1, SentOnce DEF OnSchedule, ProductsTaken
  <2> QED
    BY <2>2, <2>3, <2>4 DEF OneRoundPerLevel
<1> QED
  BY <1>1, <1>2, <1>3, LoweringInvariance, PTL DEF Spec

(* The last pass leaves the nodes in the order of their levels, so that    *)
(* the shared sites of one kind and stage make one batch, hence one        *)
(* network round (wide_schedule's module doc).                             *)
THEOREM SharedBatchesWhole == Spec => []SharedBatchesNeverSplit
<1> DEFINE Inv == stage = "done" => ByLevel(graph)
<1>1. Init => Inv
  BY DEF Init
<1>2. LoweringInv /\ Inv /\ [Next]_vars => Inv'
  <2> SUFFICES ASSUME LoweringInv, Inv, [Next]_vars
               PROVE  Inv'
    OBVIOUS
  <2>1. CASE RunOptimizePass
    BY <2>1 DEF RunOptimizePass
  <2>2. CASE NextIteration
    BY <2>2 DEF NextIteration, AllOptimizePassesRan
  <2>3. CASE StopOptimizing
    BY <2>3 DEF StopOptimizing
  <2>4. CASE RunLowerPass
    <3> PICK gr, h : gr = graph /\ h = WideSchedule(gr)
      OBVIOUS
    <3>1. stage' = "done" => pass = 3
      BY <2>4 DEF RunLowerPass, LowerPasses
    <3>2. pass = 3 => graph' = h
      BY <2>4 DEF RunLowerPass, Apply, LowerPasses
    <3>3. Sound(gr) /\ IsGraph(gr)
      BY DEF LoweringInv
    <3>4. ByLevel(h)
      BY <3>3, WideByLevel
    <3> QED
      BY <3>1, <3>2, <3>4
  <2>5. CASE UNCHANGED vars
    BY <2>5 DEF vars
  <2>6. CASE Finished
    BY <2>5, <2>6 DEF Finished
  <2> QED
    BY <2>1, <2>2, <2>3, <2>4, <2>5, <2>6 DEF Next
<1>3. LoweringInv /\ Inv => SharedBatchesNeverSplit
  <2> SUFFICES ASSUME LoweringInv, Inv, Lowered
               PROVE  SharedBatchesNeverSplit
    BY DEF SharedBatchesNeverSplit
  <2> PICK gr, plans : gr = graph /\ plans = PlanPlainBatches(gr)
    OBVIOUS
  <2>1. Sound(gr) /\ ByLevel(gr)
    BY DEF LoweringInv, Lowered
  <2>2. \A i, j \in {k \in DOMAIN plans : plans[k].key.domain = Shared} :
          plans[i].key = plans[j].key => i = j
    BY <2>1, SharedOnce
  <2> QED
    BY <2>2 DEF SharedBatchesNeverSplit
<1> HIDE DEF Inv
<1> QED
  BY <1>1, <1>2, <1>3, LoweringInvariance, PTL DEF Spec
=============================================================================
