----------------------------- MODULE Rewriting -----------------------------
(***************************************************************************)
(* The two ways a pass replaces the node list of a graph (ir.rs): a        *)
(* node-by-node rewrite, and a rebuild from a new order of the old nodes.  *)
(* Both renumber every operand and every output, because a value is the    *)
(* position of its node.                                                   *)
(***************************************************************************)
EXTENDS CircuitIr

(* Mutant: replacing a node by another one is not reported.                *)
Emit_Silent(n) == [tag |-> "Emit", nodes |-> <<n>>, changes |-> FALSE]

(* Mutant: a rewrite reports a change for every node it visits.            *)
Keep_Reports(n) == [tag |-> "Emit", nodes |-> <<n>>, changes |-> TRUE]

(* What a rewrite callback may decide for one node.                        *)
Keep(n)             == [tag |-> "Emit", nodes |-> <<n>>, changes |-> FALSE]
Emit(n)             == [tag |-> "Emit", nodes |-> <<n>>, changes |-> TRUE]
EmitMany(group)     == [tag |-> "Emit", nodes |-> group, changes |-> TRUE]
ReplaceWith(target) == [tag |-> "ReplaceWith", target |-> target]

Renumber(n, remap) == [n EXCEPT !.in = [j \in DOMAIN n.in |-> remap[n.in[j]]]]

(* Replaces the node list, following every output to its new position.     *)
RebuildNodes(g, nodes, remap) ==
  [g EXCEPT !.nodes   = nodes,
            !.outputs = [j \in DOMAIN g.outputs |->
                           [g.outputs[j] EXCEPT !.value = remap[g.outputs[j].value]]]]

(* Callback(v, n, emitted) sees node v with its operands renumbered and    *)
(* the nodes emitted so far; the last node of a group carries v's value.   *)
Rewrite(g, Callback(_, _, _)) ==
  LET Visit(acc, v) ==
        LET action == Callback(v, Renumber(g.nodes[v], acc.remap), acc.nodes)
            nodes  == IF action.tag = "Emit" THEN acc.nodes \o action.nodes ELSE acc.nodes
        IN  [nodes   |-> nodes,
             remap   |-> Append(acc.remap,
                           IF action.tag = "Emit" THEN Len(nodes) ELSE action.target),
             changed |-> acc.changed \/ action.tag = "ReplaceWith" \/ action.changes]
      result == FoldLeftDomain(Visit, [nodes |-> <<>>, remap |-> <<>>, changed |-> FALSE],
                               g.nodes)
  IN  [graph   |-> RebuildNodes(g, result.nodes, result.remap),
       changed |-> result.changed \/ Len(result.nodes) # Len(g.nodes)]

(* The graph whose p-th node is the old node layout[p].                    *)
Relayout(g, layout) ==
  LET place == [v \in ToSet(layout) |-> CHOOSE p \in DOMAIN layout : layout[p] = v]
  IN  RebuildNodes(g, [p \in DOMAIN layout |-> Renumber(g.nodes[layout[p]], place)], place)

Ascending(S) == Ordered(S, <)

(* Mutant: a gadget site lives only as long as its results are read.       *)
Gc_DropsSites(g) ==
  LET roots == {g.outputs[j].value : j \in DOMAIN g.outputs}
      Sweep(v, kept) == IF v \in kept THEN kept \cup InputsOf(g, v) ELSE kept
  IN  Relayout(g, Ascending(FoldRightDomain(Sweep, g.nodes, roots)))

(* Drops every node no output and no gadget site depends on. One sweep     *)
(* from the last node back sees every use of a node before the node.       *)
Gc(g) ==
  LET roots == {g.outputs[j].value : j \in DOMAIN g.outputs} \cup NodesOf(g, "Gadget")
      Sweep(v, kept) == IF v \in kept THEN kept \cup InputsOf(g, v) ELSE kept
  IN  Relayout(g, Ascending(FoldRightDomain(Sweep, g.nodes, roots)))
=============================================================================
