------------------------------ MODULE Cleanup ------------------------------
(***************************************************************************)
(* The classical passes the pass manager drives to a fixpoint: dead code   *)
(* elimination, constant folding and common-subexpression elimination.     *)
(* Each returns the new graph and whether it changed anything.             *)
(***************************************************************************)
EXTENDS Rewriting

(* Drops the outputs that never reach the witness, then the nodes nothing  *)
(* needs any more. Output signal s sits at position s + 1 of the signal    *)
(* space the witness indexes; an empty witness prunes nothing.             *)
DeadCode(g) ==
  LET live   == {j \in DOMAIN g.outputs : g.outputs[j].signal + 1 \in ToSet(g.witness)}
      kept   == Ascending(IF g.witness = <<>> THEN DOMAIN g.outputs ELSE live)
      pruned == [g EXCEPT !.outputs = [p \in DOMAIN kept |-> g.outputs[kept[p]]]]
      result == Gc(pruned)
  IN  [graph   |-> result,
       changed |-> pruned.outputs # g.outputs \/ Len(result.nodes) # Len(g.nodes)]

-----------------------------------------------------------------------------

Constant(c) == Node("Constant", c, <<>>)

(* Constant operands are folded and the identities of +, - and * applied.  *)
FoldNode(n, emitted) ==
  LET known(j) == emitted[n.in[j]].op = "Constant"
      value(j) == emitted[n.in[j]].arg
      is(j, c) == known(j) /\ value(j) = c
      unit     == IF n.op = "Mul" THEN 1 ELSE 0
  IN  IF n.op \notin ArithOps THEN Keep(n)
      ELSE IF known(1) /\ known(2)
           THEN Emit(Constant(ArithValue(n.op, value(1), value(2))))
      ELSE IF n.op = "Mul" /\ (is(1, 0) \/ is(2, 0)) THEN Emit(Constant(0))
      ELSE IF n.op # "Sub" /\ is(1, unit) THEN ReplaceWith(n.in[2])
      ELSE IF is(2, unit) THEN ReplaceWith(n.in[1])
      ELSE Keep(n)

ConstFold(g) == Rewrite(g, LAMBDA v, n, emitted : FoldNode(n, emitted))

-----------------------------------------------------------------------------

PureOps == LeafOps \cup ArithOps

(* Mutant: the payload is left out of the key.                             *)
CseKey_NoArg(n) == <<n.op, n.in>>

(* The operands of a commutative op are compared in ascending order.       *)
CseKey(n) ==
  <<n.op, n.arg,
    IF n.op \in {"Add", "Mul"} /\ n.in[2] < n.in[1] THEN <<n.in[2], n.in[1]>> ELSE n.in>>

(* A pure node is replaced by the first emitted node with the same key:    *)
(* every emitted pure node went through the table, so the emitted nodes    *)
(* are the table.                                                          *)
CseNode(n, emitted) ==
  LET same == {w \in DOMAIN emitted :
                 emitted[w].op \in PureOps /\ CseKey(emitted[w]) = CseKey(n)}
  IN  IF n.op \in PureOps /\ same # {} THEN ReplaceWith(Min(same)) ELSE Keep(n)

Cse(g) == Rewrite(g, LAMBDA v, n, emitted : CseNode(n, emitted))
=============================================================================
