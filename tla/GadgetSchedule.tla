--------------------------- MODULE GadgetSchedule ---------------------------
(***************************************************************************)
(* Placement of gadget sites into batches (gadget_schedule.rs). Sites are  *)
(* visited in node order; a site joins the active batch of its key when    *)
(* the batch can still be serviced after its last site and before the      *)
(* first reader of any of its results. Complete IsZero and Reveal batches  *)
(* are then fused.                                                         *)
(*                                                                         *)
(* A plan is [key, sites, anchor, deadline]: sites in order of arrival,    *)
(* the node at which the batch is serviced, and the node before which its  *)
(* results must exist. A scheduled batch is                                *)
(* [key, anchor, sites, reveals]: reveals is empty for an ordinary batch   *)
(* and lists the Reveal sites aligned with sites for a fused one.          *)
(***************************************************************************)
EXTENDS CircuitIr

(* The nodes reading some result of site s.                                *)
ResultsOf(g, s) == {v \in NodesOf(g, "GadgetResult") : SiteOf(g, v) = s}

ReadersOfSite(g, s) == UNION {ReadersOf(g, v) : v \in ResultsOf(g, s)}

FirstReader(g, s) == Min({Len(g.nodes) + 1} \cup ReadersOfSite(g, s))

(* How often a value is mentioned as an operand.                           *)
Mentions(g, v) ==
  SumFunction([r \in Values(g) |->
                 Cardinality({j \in DOMAIN g.nodes[r].in : g.nodes[r].in[j] = v})])

AuxiliaryRead(g, s) ==
  \E v \in ResultsOf(g, s) : g.nodes[v].arg # 0 /\ ReadersOf(g, v) # {}

-----------------------------------------------------------------------------

(* Sites only share a batch when they agree on all four; an all-public     *)
(* precomputed site has nothing to precompute and counts as ordinary.      *)
PlanKey(g, s) ==
  LET domain == Domains(g)[SiteNode(g, s)]
  IN  [kind |-> g.sites[s].kind, stage |-> SiteStages(g)[s], domain |-> domain,
       precomputed |-> g.sites[s].precomputed /\ domain = Shared]

Later(a, b)   == IF a > b THEN a ELSE b
Earlier(a, b) == IF a < b THEN a ELSE b

NewPlan(key, s, node, reader) ==
  [key |-> key, sites |-> <<s>>, anchor |-> node, deadline |-> reader]

(* Mutant: a batch may be serviced at its first reader.                    *)
Fits_AtReader(plan, node, reader) == Later(plan.anchor, node) <= Earlier(plan.deadline, reader)

(* The batch, once the site has joined it, still has a place to run.       *)
Fits(plan, node, reader) == Later(plan.anchor, node) < Earlier(plan.deadline, reader)

AddSite(plan, s, node, reader) ==
  [key      |-> plan.key,
   sites    |-> Append(plan.sites, s),
   anchor   |-> Later(plan.anchor, node),
   deadline |-> Earlier(plan.deadline, reader)]

(* The active plan of a key is the last one opened for it.                 *)
Active(plans, key) == Max({0} \cup {i \in DOMAIN plans : plans[i].key = key})

PlaceSite(plans, key, s, node, reader) ==
  LET i == Active(plans, key)
  IN  IF i # 0 /\ Fits(plans[i], node, reader)
      THEN [plans EXCEPT ![i] = AddSite(plans[i], s, node, reader)]
      ELSE Append(plans, NewPlan(key, s, node, reader))

(* Node order, not site order: wide_schedule reorders nodes only.          *)
SiteOrder(g) == Ordered(DOMAIN g.sites, LAMBDA s, t : SiteNode(g, s) < SiteNode(g, t))

SortPlans(plans) ==
  LET before(i, j) == \/ plans[i].key.stage < plans[j].key.stage
                      \/ /\ plans[i].key.stage = plans[j].key.stage
                         /\ plans[i].sites[1] < plans[j].sites[1]
      order == Ordered(DOMAIN plans, before)
  IN  [j \in DOMAIN order |-> plans[order[j]]]

PlanPlainBatches(g) ==
  SortPlans(FoldLeft(LAMBDA plans, s :
                       PlaceSite(plans, PlanKey(g, s), s, SiteNode(g, s), FirstReader(g, s)),
                     <<>>, SiteOrder(g)))

-----------------------------------------------------------------------------
(* Fusion of IsZero with the Reveal of its flag.                           *)

(* The zero test whose flag, and nothing else, Reveal site s opens; 0 when *)
(* there is none. The flag must have this single reader, and the helper    *)
(* result none.                                                            *)
SourceSite(g, s) ==
  LET in == g.nodes[SiteNode(g, s)].in
  IN  IF /\ Len(in) = 1
         /\ g.nodes[in[1]].op = "GadgetResult"
         /\ g.nodes[in[1]].arg = 0
         /\ Mentions(g, in[1]) = 1
         /\ Len(g.nodes[g.nodes[in[1]].in[1]].in) = 1
         /\ ~AuxiliaryRead(g, SiteOf(g, in[1]))
      THEN SiteOf(g, in[1])
      ELSE 0

PlanOf(plans, s) == CHOOSE i \in DOMAIN plans : s \in ToSet(plans[i].sites)

(* The plan all of whose sites reveal plan r opens, site for site; 0 when  *)
(* the two do not match completely.                                        *)
FusedWith(g, plans, r) ==
  LET sources == [j \in DOMAIN plans[r].sites |-> SourceSite(g, plans[r].sites[j])]
      from    == PlanOf(plans, sources[1])
  IN  IF /\ plans[r].key.kind = "Reveal1"
         /\ plans[r].key.domain = Shared
         /\ 0 \notin ToSet(sources)
         /\ \A j \in DOMAIN sources : PlanOf(plans, sources[j]) = from
         /\ plans[from].key.kind = "IsZero"
         /\ plans[from].key.domain = Shared
         /\ Len(plans[from].sites) = Len(sources)
      THEN from ELSE 0

(* A fused batch takes the place of the Reveal batch; its zero tests move  *)
(* to the Reveal's anchor.                                                 *)
FuseZeroTestReveals(g, plans) ==
  LET with     == [r \in DOMAIN plans |-> FusedWith(g, plans, r)]
      replaced == {with[r] : r \in DOMAIN plans}
      scheduled(r) ==
        IF with[r] = 0
        THEN [key |-> plans[r].key, anchor |-> plans[r].anchor,
              sites |-> plans[r].sites, reveals |-> <<>>]
        ELSE [key |-> plans[r].key, anchor |-> plans[r].anchor,
              sites   |-> [j \in DOMAIN plans[r].sites |-> SourceSite(g, plans[r].sites[j])],
              reveals |-> plans[r].sites]
      kept == Ordered(DOMAIN plans \ replaced, <)
  IN  [j \in DOMAIN kept |-> scheduled(kept[j])]

PlanGadgetBatches(g) == FuseZeroTestReveals(g, PlanPlainBatches(g))
=============================================================================
