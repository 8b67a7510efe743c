--------------------------- MODULE CodegenProofs ----------------------------
(***************************************************************************)
(* Theorems about code generation, for every set of well-typed graphs: no  *)
(* graph, however the passes ordered or broke it, makes the allocator lend *)
(* one slot to two live values. Then, of the walk: what it emits a program *)
(* for, that it compiles what lowering promises, that it loses no slot,    *)
(* and that gadget batches run when they should.                           *)
(***************************************************************************)
EXTENDS Codegen, GadgetScheduleProofs, FiniteSetTheorems, SequenceTheorems, TLAPS

-----------------------------------------------------------------------------
(* The reserved regions.                                                   *)

(* What the typing of a graph says of its nodes.                           *)
LEMMA NodeFacts ==
  ASSUME WellTyped(g)
  PROVE  /\ N \in Nat
         /\ DOMAIN g.nodes = 1 .. N
         /\ \A v \in 1 .. N :
              /\ g.nodes[v].op \in Ops
              /\ g.nodes[v].arg \in Nat
              /\ g.nodes[v].in \in Seq(Nat)
              /\ Len(g.nodes[v].in) \in Nat
              /\ DOMAIN g.nodes[v].in = 1 .. Len(g.nodes[v].in)
              /\ \A j \in 1 .. Len(g.nodes[v].in) : g.nodes[v].in[j] \in 1 .. N
         /\ Len(g.sites) \in Nat
<1>1. N \in Nat /\ DOMAIN g.nodes = 1 .. N /\ Len(g.sites) \in Nat
  BY LenProperties DEF WellTyped, N
<1>2. ASSUME NEW v \in 1 .. N
      PROVE  g.nodes[v] \in [op : Ops, arg : Nat, in : Seq(Nat)]
  BY <1>1, <1>2, ElementOfSeq DEF WellTyped, N
<1>3. ASSUME NEW v \in 1 .. N
      PROVE  /\ Len(g.nodes[v].in) \in Nat
             /\ DOMAIN g.nodes[v].in = 1 .. Len(g.nodes[v].in)
  <2>1. g.nodes[v].in \in Seq(Nat)
    BY <1>2
  <2> QED
    BY <2>1, LenProperties
<1> QED
  BY <1>1, <1>2, <1>3 DEF WellTyped

(* A graph has finitely many nodes, so every set of nodes has a size.      *)
LEMMA FiniteNodes ==
  ASSUME WellTyped(g), NEW S \in SUBSET (1 .. N)
  PROVE  IsFiniteSet(S) /\ Cardinality(S) \in Nat
<1>1. N \in Nat
  BY NodeFacts
<1>2. IsFiniteSet(1 .. N)
  BY <1>1, FS_Interval
<1>3. IsFiniteSet(S)
  BY <1>2, FS_Subset
<1> QED
  BY <1>3, FS_CardinalityType

(* Reserved values are nodes, kept in the public or in the shared bank.    *)
LEMMA ReservedFacts ==
  ASSUME WellTyped(g)
  PROVE  /\ Reserved \subseteq 1 .. N
         /\ \A v \in Reserved : ReservedBank(v) \in {Public, Shared}
         /\ \A bank : InBank(bank) \subseteq Reserved
<1>1. ASSUME NEW v \in Reserved
      PROVE  ReservedBank(v) \in {Public, Shared}
  <2>1. CASE g.nodes[v].op = "GadgetResult"
    BY <2>1 DEF ReservedBank, ResultBank
  <2>2. CASE g.nodes[v].op = "Input"
    BY <2>2 DEF ReservedBank, SignalDomain
  <2>3. CASE g.nodes[v].op \notin {"GadgetResult", "Input"}
    BY <2>3 DEF ReservedBank
  <2> QED
    BY <2>1, <2>2, <2>3
<1> QED
  BY <1>1, NodeFacts DEF Reserved, NodesOf, Values, InBank

(* The layout of the regions is a strict order of the reserved values.     *)
LEMMA RegionFacts ==
  ASSUME WellTyped(g)
  PROVE  \A v \in Reserved : Region(v) \in Nat
<1> SUFFICES ASSUME NEW v \in Reserved PROVE Region(v) \in Nat
  OBVIOUS
<1>0. v \in 1 .. N
  BY ReservedFacts
<1>1. CASE g.nodes[v].op = "GadgetResult"
  <2>1. Len(g.nodes[v].in) = 1
    <3>1. Arities("GadgetResult") = {1}
      BY DEF Arities, LeafOps, ArithOps
    <3>2. Len(g.nodes[v].in) \in Arities(g.nodes[v].op)
      BY <1>0, NodeFacts DEF WellTyped
    <3> QED
      BY <1>1, <3>1, <3>2
  <2>2. g.nodes[v].in[1] \in 1 .. N
    BY <1>0, <2>1, NodeFacts
  <2>3. g.nodes[g.nodes[v].in[1]].arg \in Nat
    BY <2>2, NodeFacts
  <2> QED
    BY <1>1, <2>3 DEF Region, SiteOf
<1>2. CASE g.nodes[v].op # "GadgetResult"
  BY <1>2, NodeFacts DEF Region
<1> QED
  BY <1>1, <1>2

(* The order of the reserved values is strict and total, which makes their *)
(* homes distinct.                                                         *)
LEMMA ReservedOrder ==
  ASSUME WellTyped(g), NEW v \in Reserved, NEW w \in Reserved
  PROVE  /\ ~ReservedBefore(v, v)
         /\ v # w => ReservedBefore(v, w) \/ ReservedBefore(w, v)
         /\ \A u \in Reserved :
              ReservedBefore(u, v) /\ ReservedBefore(v, w) => ReservedBefore(u, w)
BY RegionFacts, ReservedFacts, NodeFacts DEF ReservedBefore

(* A reserved slot lies below the first slot that may be recycled.         *)
LEMMA HomeInReservedRegion ==
  ASSUME WellTyped(g), NEW v \in Reserved
  PROVE  /\ Home(v) \in Locations
         /\ Home(v).bank \in {Public, Shared}
         /\ Home(v).index < ReservedEnd(Home(v).bank)
<1> DEFINE bank   == ReservedBank(v)
           before == {w \in InBank(bank) : ReservedBefore(w, v)}
<1>1. bank \in {Public, Shared} /\ InBank(bank) \subseteq 1 .. N
  BY ReservedFacts
<1>2. before \subseteq InBank(bank) /\ before # InBank(bank)
  BY ReservedOrder DEF InBank
<1>3. IsFiniteSet(InBank(bank)) /\ Cardinality(InBank(bank)) \in Nat
  BY <1>1, FiniteNodes
<1>4. Cardinality(before) \in Nat
  BY <1>1, <1>2, FiniteNodes
<1>5. Cardinality(before) < Cardinality(InBank(bank))
  BY <1>2, <1>3, <1>4, FS_Subset
<1> HIDE DEF before, bank
<1>6. Home(v) = [bank |-> bank, index |-> Cardinality(before)]
  BY DEF Home, Loc, bank, before
<1> QED
  BY <1>1, <1>4, <1>5, <1>6 DEF Locations, Banks, ReservedEnd

(* No two reserved values have the same slot.                              *)
LEMMA HomesDistinct ==
  ASSUME WellTyped(g), NEW v \in Reserved, NEW w \in Reserved, v # w
  PROVE  Home(v) # Home(w)
<1>1. SUFFICES ASSUME NEW x \in Reserved, NEW y \in Reserved,
                      ReservedBefore(x, y), Home(x) = Home(y)
               PROVE  FALSE
  BY ReservedOrder
<1> DEFINE bank     == ReservedBank(x)
           before(u) == {z \in InBank(bank) : ReservedBefore(z, u)}
<1>2. ReservedBank(y) = bank /\ Cardinality(before(x)) = Cardinality(before(y))
  BY <1>1 DEF Home, Loc
<1>3. before(x) \subseteq before(y) /\ x \in before(y) /\ x \notin before(x)
  BY <1>1, ReservedOrder, ReservedFacts DEF InBank
<1>4. before(y) \subseteq 1 .. N
  BY ReservedFacts DEF InBank
<1>5. IsFiniteSet(before(y))
  BY <1>4, FiniteNodes
<1>6. before(x) = before(y)
  BY <1>2, <1>3, <1>5, FS_Subset
<1> QED
  BY <1>3, <1>6

-----------------------------------------------------------------------------
(* What compile computes up front never changes, nor what follows from it. *)

(* What depends on the graph alone is the same after every step.           *)
LEMMA RegionsStay ==
  ASSUME job' = job
  PROVE  /\ g' = g /\ N' = N /\ plans' = plans
         /\ Reserved' = Reserved
         /\ \A bank : ReservedEnd(bank)' = ReservedEnd(bank)
         /\ \A v : Home(v)' = Home(v)
         /\ Instructions' = Instructions
<1>1. g' = g /\ N' = N /\ plans' = plans
  BY DEF g, N, plans
<1>2. Reserved' = Reserved
  BY <1>1 DEF Reserved
<1>3. ASSUME NEW v PROVE ReservedBank(v)' = ReservedBank(v)
  <2>1. \A s : SiteDomain(s)' = SiteDomain(s)
    BY <1>1 DEF SiteDomain
  <2>2. \A s : ResultBank(s)' = ResultBank(s)
    BY <1>1, <2>1 DEF ResultBank, IsPrecomputed
  <2> QED
    BY <1>1, <2>2 DEF ReservedBank
<1>4. \A v, w : ReservedBefore(v, w)' = ReservedBefore(v, w)
  BY <1>1 DEF ReservedBefore, Region
<1>5. ASSUME NEW bank PROVE InBank(bank)' = InBank(bank)
  BY <1>2, <1>3 DEF InBank
<1>6. ASSUME NEW v PROVE Home(v)' = Home(v)
  <2>1. {w \in InBank(ReservedBank(v))' : ReservedBefore(w, v)'}
          = {w \in InBank(ReservedBank(v)) : ReservedBefore(w, v)}
    BY <1>3, <1>4, <1>5
  <2> QED
    BY <1>3, <2>1 DEF Home, Loc
<1>7. \A bank : ReservedEnd(bank)' = ReservedEnd(bank)
  BY <1>5 DEF ReservedEnd
<1>8. Instructions' = Instructions
  BY <1>1 DEF Instructions
<1> QED
  BY <1>1, <1>2, <1>6, <1>7, <1>8

-----------------------------------------------------------------------------
(* The inductive invariant. NoAlias alone is not inductive: a slot given   *)
(* out again must have been on the free list, so the invariant must say    *)
(* what the free list holds, how the counters bound it, and that the       *)
(* reserved regions lie below everything recycled.                         *)

(* Nothing is emitted, lent or freed before the regions are reserved.      *)
FreshStart ==
  pc = "reserve" =>
    /\ i = 1 /\ code = <<>> /\ siteIn = <<>> /\ rounds = <<>> /\ DOMAIN slot = {}
    /\ \A bank \in Banks : free[bank] = <<>>

RegionsMinted ==
  pc \notin {"reserve", "rejected"} =>
    \A bank \in {Public, Shared} : ReservedEnd(bank) <= next[bank]

(* A recycled slot was minted, beyond the reserved region of its bank.     *)
FreeBeyondRegions ==
  \A bank \in Banks : \A j \in DOMAIN free[bank] :
    /\ free[bank][j] < next[bank]
    /\ bank # Local => ReservedEnd(bank) <= free[bank][j]

FreeOnce ==
  \A bank \in {Public, Shared} : \A j, l \in DOMAIN free[bank] :
    free[bank][j] = free[bank][l] => j = l

HomesKept == \A v \in DOMAIN slot \cap Reserved : slot[v] = Home(v)

(* So was a slot lent to a computed value, and it is not free.             *)
LentBeyondRegions ==
  \A v \in DOMAIN slot \ Reserved :
    /\ slot[v].index < next[slot[v].bank]
    /\ slot[v].bank # Local =>
         /\ ReservedEnd(slot[v].bank) <= slot[v].index
         /\ \A j \in DOMAIN free[slot[v].bank] : free[slot[v].bank][j] # slot[v].index

LentOnce ==
  \A v, w \in DOMAIN slot \ Reserved : v # w /\ slot[v] = slot[w] => slot[v].bank = Local

(* The loops of a Round stay within the nodes.                             *)
RoundInWalk ==
  /\ pc \in {"operands", "results"} => node.op = "Round" /\ k >= 1
  /\ pc = "results" => i + k - 1 <= N

AllocatorInv ==
  /\ RegionsMinted
  /\ FreeBeyondRegions
  /\ FreeOnce
  /\ HomesKept
  /\ LentBeyondRegions
  /\ LentOnce

IInv == TypeOK /\ FreshStart /\ RoundInWalk /\ AllocatorInv /\ SlotsInRange

-----------------------------------------------------------------------------
(* The allocator.                                                          *)

(* Taking the last element off a free list.                                *)
LEMMA Pop ==
  ASSUME NEW s \in Seq(Nat), s # <<>>
  PROVE  /\ Len(s) \in Nat /\ Len(s) >= 1 /\ DOMAIN s = 1 .. Len(s)
         /\ Last(s) \in Nat /\ Last(s) = s[Len(s)]
         /\ Front(s) \in Seq(Nat)
         /\ DOMAIN Front(s) = 1 .. Len(s) - 1
         /\ \A j \in DOMAIN Front(s) : Front(s)[j] = s[j]
BY DEF Front, Last

(* Adding an element at the end of a sequence.                             *)
LEMMA Push ==
  ASSUME NEW S, NEW s \in Seq(S), NEW x \in S
  PROVE  /\ Append(s, x) \in Seq(S)
         /\ \A j \in DOMAIN Append(s, x) :
              \/ j \in DOMAIN s /\ Append(s, x)[j] = s[j]
              \/ j = Len(s) + 1 /\ j \notin DOMAIN s /\ Append(s, x)[j] = x
OBVIOUS

(* A slot the allocator hands out is in nobody's hands: neither reserved,  *)
(* nor lent, nor still free.                                               *)
LEMMA AllocIsFresh ==
  ASSUME TypeOK, AllocatorInv, pc \notin {"reserve", "rejected"},
         NEW bank \in Banks, Alloc(bank)
  PROVE  /\ Fresh(bank) \in Nat
         /\ next' \in [Banks -> Nat] /\ free' \in [Banks -> Seq(Nat)]
         /\ Fresh(bank) < next'[bank]
         /\ \A c \in Banks : next[c] <= next'[c]
         /\ \A c \in Banks : \A j \in DOMAIN free'[c] :
              j \in DOMAIN free[c] /\ free'[c][j] = free[c][j]
         /\ bank # Local =>
              /\ ReservedEnd(bank) <= Fresh(bank)
              /\ \A j \in DOMAIN free'[bank] : free'[bank][j] # Fresh(bank)
              /\ \A v \in DOMAIN slot \ Reserved :
                   slot[v].bank = bank => slot[v].index # Fresh(bank)
<1>0. next \in [Banks -> Nat] /\ free \in [Banks -> Seq(Nat)]
  BY DEF TypeOK
<1>1. CASE free[bank] = <<>>
  <2>1. Fresh(bank) = next[bank] /\ next' = [next EXCEPT ![bank] = @ + 1] /\ free' = free
    BY <1>1 DEF Fresh, Alloc
  <2>2. bank # Local => ReservedEnd(bank) <= next[bank]
    BY DEF AllocatorInv, RegionsMinted, Banks
  <2>3. \A v \in DOMAIN slot \ Reserved :
          slot[v].bank = bank => slot[v].index < next[bank] /\ slot[v].index \in Nat
    BY DEF AllocatorInv, LentBeyondRegions, TypeOK, Locations
  <2> QED
    BY <1>0, <1>1, <2>1, <2>2, <2>3
<1>2. CASE free[bank] # <<>>
  <2>1. Fresh(bank) = Last(free[bank]) /\ free' = [free EXCEPT ![bank] = Front(@)] /\ next' = next
    BY <1>2 DEF Fresh, Alloc
  <2> DEFINE top == Len(free[bank])
  <2>2. /\ top \in DOMAIN free[bank] /\ Fresh(bank) = free[bank][top] /\ Fresh(bank) \in Nat
        /\ DOMAIN Front(free[bank]) = 1 .. top - 1
        /\ \A j \in DOMAIN Front(free[bank]) :
             j \in DOMAIN free[bank] /\ j # top /\ Front(free[bank])[j] = free[bank][j]
        /\ Front(free[bank]) \in Seq(Nat)
    BY <1>0, <1>2, <2>1, Pop, SMTT(40)
  <2> HIDE DEF top
  <2>3. /\ Fresh(bank) < next[bank]
        /\ bank # Local => ReservedEnd(bank) <= Fresh(bank)
    BY <2>2 DEF AllocatorInv, FreeBeyondRegions
  <2>4. /\ free' \in [Banks -> Seq(Nat)]
        /\ \A c \in Banks : \A j \in DOMAIN free'[c] :
             j \in DOMAIN free[c] /\ free'[c][j] = free[c][j]
        /\ \A j \in DOMAIN free'[bank] : j # top /\ free'[bank][j] = free[bank][j]
    BY <1>0, <2>1, <2>2
  <2>5. ASSUME bank # Local
        PROVE  /\ \A j \in DOMAIN free'[bank] : free'[bank][j] # Fresh(bank)
               /\ \A v \in DOMAIN slot \ Reserved :
                    slot[v].bank = bank => slot[v].index # Fresh(bank)
    <3>1. bank \in {Public, Shared}
      BY <2>5 DEF Banks
    <3>2. \A j \in DOMAIN free'[bank] : free'[bank][j] # Fresh(bank)
      BY <3>1, <2>2, <2>4 DEF AllocatorInv, FreeOnce
    <3>3. \A v \in DOMAIN slot \ Reserved :
            slot[v].bank = bank => slot[v].index # Fresh(bank)
      BY <2>2, <2>5 DEF AllocatorInv, LentBeyondRegions
    <3> QED
      BY <3>2, <3>3
  <2> QED
    BY <1>0, <2>1, <2>2, <2>3, <2>4, <2>5
<1> QED
  BY <1>1, <1>2

(* Lending a fresh slot to a computed value keeps the invariant.           *)
LEMMA LendFresh ==
  ASSUME TypeOK, AllocatorInv, pc \notin {"reserve", "rejected"},
         NEW bank \in Banks, NEW u, u \notin Reserved,
         Alloc(bank), slot' = Mapped(u, Loc(bank, Fresh(bank))), job' = job
  PROVE  /\ AllocatorInv'
         /\ \A v \in DOMAIN slot' : slot'[v] \in Locations
<1> DEFINE fresh == Loc(bank, Fresh(bank))
<1>0. Reserved' = Reserved /\ (\A c : ReservedEnd(c)' = ReservedEnd(c))
                           /\ (\A v : Home(v)' = Home(v))
  BY RegionsStay
<1>1. /\ fresh \in Locations /\ fresh.bank = bank /\ fresh.index = Fresh(bank)
      /\ DOMAIN slot' = DOMAIN slot \cup {u}
      /\ slot'[u] = fresh
      /\ \A v \in DOMAIN slot : v # u => slot'[v] = slot[v]
  BY AllocIsFresh DEF Mapped, Loc, Locations
<1>2. \A v \in DOMAIN slot' : slot'[v] \in Locations
  BY <1>1 DEF TypeOK
<1>3. RegionsMinted'
  <2>1. \A c \in {Public, Shared} : ReservedEnd(c) <= next[c] /\ ReservedEnd(c) \in Nat
    BY ReservedFacts, FiniteNodes DEF AllocatorInv, RegionsMinted, ReservedEnd, TypeOK
  <2> SUFFICES ASSUME NEW c \in {Public, Shared} PROVE ReservedEnd(c) <= next'[c]
    BY <1>0 DEF RegionsMinted
  <2>2. c \in Banks /\ next[c] \in Nat /\ next'[c] \in Nat /\ next[c] <= next'[c]
    BY AllocIsFresh DEF TypeOK, Banks
  <2> QED
    BY <2>1, <2>2
<1>4. FreeBeyondRegions'
  <2> SUFFICES ASSUME NEW c \in Banks, NEW j \in DOMAIN free'[c]
               PROVE  free'[c][j] < next'[c] /\ (c # Local => ReservedEnd(c) <= free'[c][j])
    BY <1>0 DEF FreeBeyondRegions
  <2>1. j \in DOMAIN free[c] /\ free'[c][j] = free[c][j] /\ next[c] <= next'[c]
    BY AllocIsFresh
  <2>2. free[c][j] \in Nat /\ next[c] \in Nat /\ next'[c] \in Nat
    BY <2>1, AllocIsFresh, SMTT(40) DEF TypeOK
  <2> QED
    BY <2>1, <2>2 DEF AllocatorInv, FreeBeyondRegions
<1>5. FreeOnce'
  <2> SUFFICES ASSUME NEW c \in {Public, Shared},
                      NEW j \in DOMAIN free'[c], NEW l \in DOMAIN free'[c],
                      free'[c][j] = free'[c][l]
               PROVE  j = l
    BY DEF FreeOnce
  <2>1. c \in Banks
    BY DEF Banks
  <2>2. j \in DOMAIN free[c] /\ l \in DOMAIN free[c] /\ free[c][j] = free[c][l]
    BY <2>1, AllocIsFresh
  <2> QED
    BY <2>2 DEF AllocatorInv, FreeOnce
<1>6. HomesKept'
  BY <1>0, <1>1 DEF AllocatorInv, HomesKept
<1>7. LentBeyondRegions'
  <2> SUFFICES ASSUME NEW v \in DOMAIN slot' \ Reserved
               PROVE  /\ slot'[v].index < next'[slot'[v].bank]
                      /\ slot'[v].bank # Local =>
                           /\ ReservedEnd(slot'[v].bank) <= slot'[v].index
                           /\ \A j \in DOMAIN free'[slot'[v].bank] :
                                free'[slot'[v].bank][j] # slot'[v].index
    BY <1>0 DEF LentBeyondRegions
  <2>1. CASE v = u
    BY <1>1, <2>1, AllocIsFresh
  <2>2. CASE v # u
    <3>1. v \in DOMAIN slot \ Reserved /\ slot'[v] = slot[v] /\ slot[v] \in Locations
      BY <1>1, <2>2 DEF TypeOK
    <3>2. slot[v].bank \in Banks /\ slot[v].index \in Nat
      BY <3>1 DEF Locations
    <3>3. slot[v].index < next'[slot[v].bank]
      <4>1. slot[v].index < next[slot[v].bank]
        BY <3>1 DEF AllocatorInv, LentBeyondRegions
      <4>2. next[slot[v].bank] \in Nat /\ next'[slot[v].bank] \in Nat
        BY <3>2, AllocIsFresh DEF TypeOK
      <4> QED
        BY <3>2, <4>1, <4>2, AllocIsFresh
    <3>4. ASSUME slot[v].bank # Local
          PROVE  /\ ReservedEnd(slot[v].bank) <= slot[v].index
                 /\ \A j \in DOMAIN free'[slot[v].bank] :
                      free'[slot[v].bank][j] # slot[v].index
      BY <3>1, <3>2, <3>4, AllocIsFresh DEF AllocatorInv, LentBeyondRegions
    <3> QED
      BY <3>1, <3>3, <3>4
  <2> QED
    BY <2>1, <2>2
<1>8. LentOnce'
  <2> SUFFICES ASSUME NEW v \in DOMAIN slot' \ Reserved, NEW w \in DOMAIN slot' \ Reserved,
                      v # w, slot'[v] = slot'[w], slot'[v].bank # Local
               PROVE  FALSE
    BY <1>0 DEF LentOnce
  <2>1. CASE v # u /\ w # u
    BY <1>1, <2>1 DEF AllocatorInv, LentOnce
  <2>2. CASE v = u \/ w = u
    <3>1. PICK x \in DOMAIN slot \ Reserved : slot[x] = fresh
      BY <1>1, <2>2
    <3> QED
      BY <1>1, <2>2, <3>1, AllocIsFresh
  <2> QED
    BY <2>1, <2>2
<1> QED
  BY <1>2, <1>3, <1>4, <1>5, <1>6, <1>7, <1>8 DEF AllocatorInv

(* A step that leaves the allocator and the mapping alone.                 *)
LEMMA SameAllocation ==
  ASSUME AllocatorInv, UNCHANGED <<job, slot, free, next>>,
         pc \notin {"reserve", "rejected"}
  PROVE  AllocatorInv'
<1>0. Reserved' = Reserved /\ (\A c : ReservedEnd(c)' = ReservedEnd(c))
                           /\ (\A v : Home(v)' = Home(v))
  BY RegionsStay
<1>1. RegionsMinted'
  BY <1>0 DEF AllocatorInv, RegionsMinted
<1>2. FreeBeyondRegions' /\ FreeOnce'
  BY <1>0 DEF AllocatorInv, FreeBeyondRegions, FreeOnce
<1>3. HomesKept' /\ LentBeyondRegions' /\ LentOnce'
  BY <1>0 DEF AllocatorInv, HomesKept, LentBeyondRegions, LentOnce
<1> QED
  BY <1>1, <1>2, <1>3 DEF AllocatorInv

(* Every mapped slot was minted.                                           *)
LEMMA MappedInRange ==
  ASSUME TypeOK, AllocatorInv, pc \notin {"reserve", "rejected"}, NEW v \in DOMAIN slot
  PROVE  slot[v] \in Locations /\ slot[v].bank \in Banks /\ slot[v].index \in Nat
         /\ Within(slot[v])
<1>1. slot[v] \in Locations /\ slot[v].bank \in Banks /\ slot[v].index \in Nat
  BY DEF TypeOK, Locations
<1>2. CASE v \in Reserved
  <2>1. slot[v] = Home(v)
    BY <1>2 DEF AllocatorInv, HomesKept
  <2>2. Home(v).bank \in {Public, Shared} /\ Home(v).index < ReservedEnd(Home(v).bank)
    BY <1>2, HomeInReservedRegion DEF TypeOK
  <2>3. ReservedEnd(Home(v).bank) <= next[Home(v).bank]
    BY <2>2 DEF AllocatorInv, RegionsMinted
  <2>4. ReservedEnd(Home(v).bank) \in Nat /\ next[Home(v).bank] \in Nat
    <3>1. InBank(Home(v).bank) \subseteq 1 .. N
      BY ReservedFacts DEF TypeOK
    <3> QED
      BY <2>2, <3>1, FiniteNodes DEF ReservedEnd, TypeOK, Banks
  <2> QED
    BY <1>1, <2>1, <2>2, <2>3, <2>4 DEF Within
<1>3. CASE v \notin Reserved
  BY <1>1, <1>3 DEF AllocatorInv, LentBeyondRegions, Within
<1> QED
  BY <1>1, <1>2, <1>3

(* A bank only grows, so what lay within it still does.                    *)
LEMMA StillWithin ==
  ASSUME next \in [Banks -> Nat], next' \in [Banks -> Nat],
         \A c \in Banks : next[c] <= next'[c],
         NEW loc \in Locations, Within(loc)
  PROVE  Within(loc)'
<1>1. loc.bank \in Banks /\ loc.index \in Nat
  BY DEF Locations
<1> QED
  BY <1>1 DEF Within

(* The operands and the destination of an arithmetic instruction are       *)
(* locations.                                                              *)
LEMMA ArithInstructions ==
  ASSUME NEW c \in Instructions, c.op \in ArithOps \cup {"MulLocal"}
  PROVE  c.dst \in Locations /\ c.a \in Locations /\ c.b \in Locations
BY DEF Instructions, ArithOps

(* Slots named before a step are still within their banks, which only      *)
(* grow.                                                                   *)
LEMMA StillInRange ==
  ASSUME TypeOK, SlotsInRange, next' \in [Banks -> Nat],
         \A c \in Banks : next[c] <= next'[c]
  PROVE  /\ code' = code => CodeInRange'
         /\ siteIn' = siteIn => SitesInRange'
         /\ rounds' = rounds => RoundsInRange'
<1>0. next \in [Banks -> Nat]
  BY DEF TypeOK
<1>1. ASSUME code' = code PROVE CodeInRange'
  <2> SUFFICES ASSUME NEW c \in DOMAIN code, code[c].op \in ArithOps \cup {"MulLocal"}
               PROVE  Within(code[c].dst)' /\ Within(code[c].a)' /\ Within(code[c].b)'
    BY <1>1 DEF CodeInRange
  <2>1. code[c] \in Instructions
    BY DEF TypeOK
  <2>2. code[c].dst \in Locations /\ code[c].a \in Locations /\ code[c].b \in Locations
    BY <2>1, ArithInstructions
  <2>3. Within(code[c].dst) /\ Within(code[c].a) /\ Within(code[c].b)
    BY DEF SlotsInRange, CodeInRange
  <2>4. \A loc \in Locations : Within(loc) => loc.index < next'[loc.bank]
    BY <1>0, StillWithin DEF Within
  <2> QED
    BY <1>1, <2>2, <2>3, <2>4 DEF Within
<1>2. ASSUME siteIn' = siteIn PROVE SitesInRange'
  <2> SUFFICES ASSUME NEW s \in DOMAIN siteIn, NEW j \in DOMAIN siteIn[s]
               PROVE  siteIn[s][j].index < next'[siteIn[s][j].bank]
    BY <1>2 DEF SitesInRange, Within
  <2>1. siteIn[s][j] \in Locations
    BY DEF TypeOK
  <2>2. Within(siteIn[s][j])
    BY DEF SlotsInRange, SitesInRange
  <2> QED
    BY <1>0, <2>1, <2>2, StillWithin DEF Within
<1>3. ASSUME rounds' = rounds PROVE RoundsInRange'
  <2> SUFFICES ASSUME NEW r \in DOMAIN rounds
               PROVE  /\ \A j \in DOMAIN rounds[r].operands : rounds[r].operands[j] < next'[Local]
                      /\ \A j \in DOMAIN rounds[r].results : rounds[r].results[j] < next'[Shared]
    BY <1>3 DEF RoundsInRange
  <2>1. rounds[r].operands \in Seq(Nat) /\ rounds[r].results \in Seq(Nat)
    BY DEF TypeOK
  <2>2. next[Local] \in Nat /\ next'[Local] \in Nat /\ next[Shared] \in Nat /\ next'[Shared] \in Nat
        /\ next[Local] <= next'[Local] /\ next[Shared] <= next'[Shared]
    BY <1>0 DEF Banks
  <2>3. /\ \A j \in DOMAIN rounds[r].operands : rounds[r].operands[j] < next[Local]
        /\ \A j \in DOMAIN rounds[r].results : rounds[r].results[j] < next[Shared]
    BY DEF SlotsInRange, RoundsInRange
  <2>4. /\ \A j \in DOMAIN rounds[r].operands : rounds[r].operands[j] \in Nat
        /\ \A j \in DOMAIN rounds[r].results : rounds[r].results[j] \in Nat
    BY <2>1
  <2> QED
    BY <2>2, <2>3, <2>4
<1> QED
  BY <1>1, <1>2, <1>3

-----------------------------------------------------------------------------
(* Every step keeps the invariant.                                         *)

Walking == pc \notin {"reserve", "rejected"}

(* The invariant holds before compile reserves anything.                   *)
LEMMA InitHolds == Init => IInv
<1> SUFFICES ASSUME NEW graph \in Graphs, Begin(graph) PROVE IInv
  BY DEF Init
<1>1. g = graph /\ WellTyped(g)
  BY GraphsAssumption DEF Begin, Compile, g
<1>2. DOMAIN slot = {} /\ DOMAIN siteIn = {} /\ DOMAIN rounds = {} /\ DOMAIN code = {}
      /\ pc = "reserve" /\ i = 1 /\ k = 1
      /\ free = [bank \in Banks |-> <<>>] /\ next = [bank \in Banks |-> 0]
  BY DEF Begin
<1>3. TypeOK
  <2>1. code \in Seq(Instructions)
    BY DEF Begin
  <2>2. free \in [Banks -> Seq(Nat)] /\ next \in [Banks -> Nat]
    BY <1>2
  <2> QED
    BY <1>1, <1>2, <2>1, <2>2 DEF TypeOK
<1>4. FreshStart
  BY <1>2 DEF FreshStart, Begin
<1>5. RoundInWalk
  BY <1>2 DEF RoundInWalk
<1>6. \A bank \in Banks : DOMAIN free[bank] = {}
  BY <1>2
<1>7. AllocatorInv
  BY <1>2, <1>6 DEF AllocatorInv, RegionsMinted, FreeBeyondRegions, FreeOnce, HomesKept,
                    LentBeyondRegions, LentOnce, Banks
<1>8. SlotsInRange
  BY <1>2 DEF SlotsInRange, CodeInRange, SitesInRange, RoundsInRange
<1> QED
  BY <1>3, <1>4, <1>5, <1>7, <1>8 DEF IInv

(* Steps that only move on, or end.                                        *)
LEMMA Quiet ==
  ASSUME IInv, Walking,
         UNCHANGED <<job, i, k, slot, free, next, siteIn, rounds, code>>,
         pc' \in {"done", "rejected", "panicked"} \/ (pc' = "service" /\ i \in 1 .. N)
  PROVE  IInv'
<1>0. g' = g /\ N' = N /\ Instructions' = Instructions
  BY RegionsStay
<1>1. TypeOK'
  BY <1>0 DEF IInv, TypeOK
<1>2. FreshStart' /\ RoundInWalk'
  BY DEF FreshStart, RoundInWalk
<1>3. AllocatorInv'
  BY SameAllocation DEF IInv, Walking
<1>4. SlotsInRange'
  BY DEF IInv, SlotsInRange, CodeInRange, SitesInRange, RoundsInRange, Within
<1> QED
  BY <1>1, <1>2, <1>3, <1>4 DEF IInv

(* Reserving the regions establishes what the walk relies on.              *)
LEMMA ReserveKeeps ==
  ASSUME IInv, Reserve
  PROVE  IInv'
<1>0. /\ g' = g /\ N' = N /\ Instructions' = Instructions /\ Reserved' = Reserved
      /\ \A bank : ReservedEnd(bank)' = ReservedEnd(bank)
      /\ \A v : Home(v)' = Home(v)
  BY RegionsStay DEF Reserve
<1>1. /\ pc = "reserve" /\ code' = <<>> /\ siteIn' = <<>> /\ rounds' = <<>>
      /\ DOMAIN slot = {}
      /\ \A bank \in Banks : free'[bank] = <<>>
      /\ free' = free /\ i' = i /\ k' = k
  BY DEF Reserve, IInv, FreshStart
<1>2. SlotsInRange'
  BY <1>1 DEF SlotsInRange, CodeInRange, SitesInRange, RoundsInRange
<1>3. \A bank \in Banks : DOMAIN free'[bank] = {}
  BY <1>1
<1>4. /\ WellTyped(g') /\ free' \in [Banks -> Seq(Nat)] /\ i' \in Nat /\ k' \in Nat
      /\ code' \in Seq(Instructions)
      /\ DOMAIN siteIn' = {} /\ DOMAIN rounds' = {}
  BY <1>0, <1>1 DEF IInv, TypeOK
<1>5. CASE pc' = "rejected" /\ UNCHANGED <<slot, next>>
  <2>1. TypeOK'
    BY <1>0, <1>1, <1>4, <1>5 DEF IInv, TypeOK
  <2>2. AllocatorInv'
    BY <1>1, <1>3, <1>5, Zenon DEF AllocatorInv, RegionsMinted, FreeBeyondRegions, FreeOnce,
       HomesKept, LentBeyondRegions, LentOnce, Banks
  <2> QED
    BY <1>2, <1>5, <2>1, <2>2 DEF IInv, FreshStart, RoundInWalk
<1>6. CASE /\ pc' = IF N = 0 THEN "project" ELSE "visit"
           /\ slot' = [v \in NodesOf(g, "Constant") \cup NodesOf(g, "Input") |-> Home(v)]
           /\ next' = [bank \in Banks |-> IF bank = Local THEN 0 ELSE ReservedEnd(bank)]
  <2>1. DOMAIN slot' \subseteq Reserved /\ \A v \in DOMAIN slot' : slot'[v] = Home(v)
    BY <1>6 DEF Reserved
  <2>2. \A bank \in Banks : ReservedEnd(bank) \in Nat
    BY ReservedFacts, FiniteNodes DEF IInv, TypeOK, ReservedEnd
  <2>3. next' \in [Banks -> Nat]
    BY <1>6, <2>2
  <2>4. \A v \in DOMAIN slot' : slot'[v] \in Locations
    BY <2>1, HomeInReservedRegion DEF IInv, TypeOK
  <2>5. pc' \in {"project", "visit"} /\ (pc' = "visit" => i' \in 1 .. N')
    <3>1. N \in Nat /\ (N # 0 => 1 \in 1 .. N)
      BY NodeFacts DEF IInv, TypeOK
    <3>2. i = 1
      BY DEF Reserve, IInv, FreshStart
    <3> QED
      BY <1>0, <1>1, <1>6, <3>1, <3>2
  <2>6. TypeOK'
    BY <1>0, <1>4, <2>3, <2>4, <2>5 DEF TypeOK
  <2>7. RegionsMinted'
    BY <1>0, <1>6, <2>2 DEF RegionsMinted, Public, Shared, Local, Banks
  <2>8. AllocatorInv'
    BY <1>0, <1>3, <2>1, <2>7 DEF AllocatorInv, FreeBeyondRegions, FreeOnce, HomesKept,
                                  LentBeyondRegions, LentOnce, Banks
  <2> QED
    BY <1>2, <2>5, <2>6, <2>8 DEF IInv, FreshStart, RoundInWalk
<1> QED
  BY <1>5, <1>6 DEF Reserve

(* Ending the compilation keeps the invariant.                             *)
LEMMA AbortKeeps ==
  ASSUME IInv, Walking, NEW outcome \in {"done", "rejected", "panicked"}, Abort(outcome)
  PROVE  IInv'
BY Quiet DEF Abort

(* A step that emits an instruction into a fresh slot for the node.        *)
LEMMA EmitKeeps ==
  ASSUME IInv, pc = "visit", i \notin Reserved,
         NEW bank \in Banks, NEW op \in ArithOps \cup {"MulLocal"},
         NEW a \in Locations, NEW b \in Locations, Within(a), Within(b),
         EmitInto(bank, op, a, b)
  PROVE  IInv'
<1> DEFINE fresh == Loc(bank, Fresh(bank))
           instr == [op |-> op, dst |-> fresh, a |-> a, b |-> b]
<1>0. g' = g /\ N' = N /\ Instructions' = Instructions /\ job' = job /\ pc' = "service"
      /\ UNCHANGED <<i, k, siteIn, rounds>> /\ Alloc(bank) /\ code' = Append(code, instr)
      /\ slot' = Mapped(i, fresh)
  BY RegionsStay DEF EmitInto
<1>1. /\ next' \in [Banks -> Nat] /\ free' \in [Banks -> Seq(Nat)]
      /\ Fresh(bank) \in Nat /\ Fresh(bank) < next'[bank]
      /\ \A c \in Banks : next[c] <= next'[c]
  BY <1>0, AllocIsFresh DEF IInv
<1>2. AllocatorInv' /\ \A v \in DOMAIN slot' : slot'[v] \in Locations
  BY <1>0, LendFresh DEF IInv
<1>3. instr \in Instructions
  BY <1>1 DEF Instructions, Loc, Locations
<1>4. code' \in Seq(Instructions)
  BY <1>0, <1>3, Push DEF IInv, TypeOK
<1>5. TypeOK'
  BY <1>0, <1>1, <1>2, <1>4 DEF IInv, TypeOK
<1>6. SitesInRange' /\ RoundsInRange'
  BY <1>0, <1>1, StillInRange DEF IInv
<1>7. CodeInRange'
  <2> SUFFICES ASSUME NEW c \in DOMAIN code', code'[c].op \in ArithOps \cup {"MulLocal"}
               PROVE  /\ code'[c].dst.index < next'[code'[c].dst.bank]
                      /\ code'[c].a.index < next'[code'[c].a.bank]
                      /\ code'[c].b.index < next'[code'[c].b.bank]
    BY DEF CodeInRange, Within
  <2>1. code \in Seq(Instructions)
    BY DEF IInv, TypeOK
  <2>2. (c \in DOMAIN code /\ code'[c] = code[c]) \/ code'[c] = instr
    BY <1>0, <1>3, <2>1, Push
  <2>3. \A loc \in Locations : Within(loc) => loc.index < next'[loc.bank]
    BY <1>1, StillWithin DEF Within, IInv, TypeOK
  <2>4. CASE c \in DOMAIN code /\ code'[c] = code[c]
    <3>1. code[c] \in Instructions
      BY <2>1, <2>4
    <3>2. code[c].dst \in Locations /\ code[c].a \in Locations /\ code[c].b \in Locations
      BY <2>4, <3>1, ArithInstructions
    <3>3. Within(code[c].dst) /\ Within(code[c].a) /\ Within(code[c].b)
      BY <2>4 DEF IInv, SlotsInRange, CodeInRange
    <3> QED
      BY <2>3, <2>4, <3>2, <3>3
  <2>5. CASE code'[c] = instr
    BY <1>1, <2>3, <2>5 DEF Loc
  <2> QED
    BY <2>2, <2>4, <2>5
<1> QED
  BY <1>0, <1>2, <1>5, <1>6, <1>7 DEF IInv, FreshStart, RoundInWalk, SlotsInRange

(* The node being visited, and what its operands resolve to.               *)
LEMMA Visited ==
  ASSUME IInv, pc \in {"visit", "operands", "results", "service"}
  PROVE  /\ i \in 1 .. N /\ N \in Nat
         /\ node.op \in Ops /\ node.in \in Seq(Nat)
         /\ DOMAIN node.in = 1 .. Len(node.in) /\ Len(node.in) \in Nat
         /\ Len(node.in) \in Arities(node.op)
BY NodeFacts DEF IInv, TypeOK, node, WellTyped

(* An operand the walk has resolved is a location within its bank.         *)
LEMMA ResolvedOperands ==
  ASSUME IInv, Walking, pc = "visit", OperandsResolved, NEW j \in DOMAIN node.in
  PROVE  node.in[j] \in DOMAIN slot /\ At(j) \in Locations /\ Within(At(j))
<1>1. node.in[j] \in InputsOf(g, i)
  BY DEF InputsOf, ToSet, node
<1>2. node.in[j] \in DOMAIN slot
  BY <1>1 DEF OperandsResolved, Resolved
<1> QED
  BY <1>2, MappedInRange DEF IInv, At, Walking

(* Emitting an arithmetic instruction keeps the invariant.                 *)
LEMMA VisitArithKeeps ==
  ASSUME IInv, VisitArith
  PROVE  IInv'
<1>1. pc = "visit" /\ Walking /\ node.op \in ArithOps
  BY DEF VisitArith, Visit, Walking
<1>2. i \notin Reserved
  BY <1>1 DEF Reserved, NodesOf, node, ArithOps
<1>3. DOMAIN node.in = 1 .. 2
  BY <1>1, Visited DEF Arities, ArithOps, LeafOps
<1>4. CASE Abort("rejected") \/ Abort("panicked")
  BY <1>1, <1>4, AbortKeeps
<1>5. CASE OperandsResolved /\ \E bank \in Banks :
             EmitInto(bank, node.op, IF Swapped THEN At(2) ELSE At(1),
                                     IF Swapped THEN At(1) ELSE At(2))
  <2>1. At(1) \in Locations /\ Within(At(1)) /\ At(2) \in Locations /\ Within(At(2))
    BY <1>1, <1>3, <1>5, ResolvedOperands
  <2> QED
    BY <1>1, <1>2, <1>5, <2>1, EmitKeeps
<1> QED
  BY <1>4, <1>5 DEF VisitArith, Banks

(* Emitting a local product keeps the invariant.                           *)
LEMMA VisitMulLocalKeeps ==
  ASSUME IInv, VisitMulLocal
  PROVE  IInv'
<1>1. pc = "visit" /\ Walking /\ node.op = "MulLocal"
  BY DEF VisitMulLocal, Visit, Walking
<1>2. i \notin Reserved
  BY <1>1 DEF Reserved, NodesOf, node
<1>3. DOMAIN node.in = 1 .. 2
  BY <1>1, Visited DEF Arities, ArithOps, LeafOps
<1>4. CASE Abort("rejected") \/ Abort("panicked")
  BY <1>1, <1>4, AbortKeeps
<1>5. CASE OperandsResolved /\ EmitInto(Local, "MulLocal", At(1), At(2))
  <2>1. At(1) \in Locations /\ Within(At(1)) /\ At(2) \in Locations /\ Within(At(2))
    BY <1>1, <1>3, <1>5, ResolvedOperands
  <2>2. Local \in Banks
    BY DEF Banks
  <2> QED
    BY <1>1, <1>2, <1>5, <2>1, <2>2, EmitKeeps
<1> QED
  BY <1>4, <1>5 DEF VisitMulLocal

(* Mapping a gadget result to its reserved slot keeps the invariant.       *)
LEMMA VisitGadgetResultKeeps ==
  ASSUME IInv, VisitGadgetResult
  PROVE  IInv'
<1>0. /\ g' = g /\ N' = N /\ Instructions' = Instructions /\ Reserved' = Reserved
      /\ \A c : ReservedEnd(c)' = ReservedEnd(c)
      /\ \A v : Home(v)' = Home(v)
      /\ pc = "visit" /\ pc' = "service" /\ slot' = Mapped(i, Home(i))
      /\ UNCHANGED <<job, i, k, free, next, siteIn, rounds, code>>
  BY RegionsStay DEF VisitGadgetResult, Visit
<1>1. i \in Reserved
  BY <1>0, Visited DEF VisitGadgetResult, Visit, Reserved, NodesOf, Values, node, N,
     IInv, TypeOK, WellTyped
<1>2. /\ DOMAIN slot' \ Reserved = DOMAIN slot \ Reserved
      /\ \A v \in DOMAIN slot \ Reserved : slot'[v] = slot[v]
      /\ \A v \in DOMAIN slot' : slot'[v] = IF v = i THEN Home(i) ELSE slot[v]
      /\ DOMAIN slot' = DOMAIN slot \cup {i}
  BY <1>0, <1>1 DEF Mapped
<1>3. \A v \in DOMAIN slot' : slot'[v] \in Locations
  BY <1>1, <1>2, HomeInReservedRegion DEF IInv, TypeOK
<1>4. TypeOK'
  BY <1>0, <1>3, Visited DEF IInv, TypeOK
<1>5. RegionsMinted' /\ FreeBeyondRegions' /\ FreeOnce'
  BY <1>0 DEF IInv, AllocatorInv, RegionsMinted, FreeBeyondRegions, FreeOnce
<1>6. HomesKept'
  BY <1>0, <1>2 DEF IInv, AllocatorInv, HomesKept
<1>7. LentBeyondRegions' /\ LentOnce'
  BY <1>0, <1>2 DEF IInv, AllocatorInv, LentBeyondRegions, LentOnce
<1>8. SlotsInRange'
  BY <1>0 DEF IInv, SlotsInRange, CodeInRange, SitesInRange, RoundsInRange, Within
<1> QED
  BY <1>0, <1>4, <1>5, <1>6, <1>7, <1>8 DEF IInv, AllocatorInv, FreshStart, RoundInWalk

(* Noting the operands of a site keeps the invariant.                      *)
LEMMA VisitGadgetKeeps ==
  ASSUME IInv, VisitGadget
  PROVE  IInv'
<1>1. pc = "visit" /\ Walking
  BY DEF VisitGadget, Visit, Walking
<1>2. CASE Abort("rejected") \/ Abort("panicked")
  BY <1>1, <1>2, AbortKeeps
<1>3. CASE /\ OperandsResolved
           /\ siteIn' = [s \in DOMAIN siteIn \cup {node.arg} |->
                          IF s = node.arg THEN [j \in DOMAIN node.in |-> At(j)] ELSE siteIn[s]]
           /\ pc' = "service"
           /\ UNCHANGED <<job, i, k, slot, free, next, queue, served, rounds, code>>
  <2> DEFINE collected == [j \in DOMAIN node.in |-> At(j)]
  <2>0. g' = g /\ N' = N /\ Instructions' = Instructions
    BY <1>3, RegionsStay
  <2>1. \A j \in DOMAIN node.in : At(j) \in Locations /\ Within(At(j))
    BY <1>1, <1>3, ResolvedOperands
  <2>2. collected \in Seq(Locations)
    <3>1. DOMAIN node.in = 1 .. Len(node.in) /\ Len(node.in) \in Nat
      BY <1>1, Visited
    <3>2. collected \in [1 .. Len(node.in) -> Locations]
      BY <2>1, <3>1
    <3> QED
      BY <3>1, <3>2, SeqDef
  <2>3. \A s \in DOMAIN siteIn' : siteIn'[s] \in Seq(Locations)
    BY <1>3, <2>2 DEF IInv, TypeOK
  <2>4. TypeOK'
    BY <1>1, <1>3, <2>0, <2>3, Visited DEF IInv, TypeOK
  <2>5. AllocatorInv'
    BY <1>1, <1>3, SameAllocation DEF IInv, Walking
  <2>6. \A s \in DOMAIN siteIn' : \A j \in DOMAIN siteIn'[s] : Within(siteIn'[s][j])
    <3> SUFFICES ASSUME NEW s \in DOMAIN siteIn', NEW j \in DOMAIN siteIn'[s]
                 PROVE  Within(siteIn'[s][j])
      OBVIOUS
    <3>1. CASE s = node.arg
      BY <1>3, <2>1, <3>1
    <3>2. CASE s # node.arg
      BY <1>3, <3>2 DEF IInv, SlotsInRange, SitesInRange
    <3> QED
      BY <3>1, <3>2
  <2>7. SlotsInRange'
    <3>1. SitesInRange'
      BY <1>3, <2>6, SMTT(40) DEF SitesInRange, Within
    <3>2. CodeInRange' /\ RoundsInRange'
      BY <1>3 DEF IInv, SlotsInRange, CodeInRange, RoundsInRange, Within
    <3> QED
      BY <3>1, <3>2 DEF SlotsInRange
  <2> QED
    BY <1>3, <2>4, <2>5, <2>7 DEF IInv, FreshStart, RoundInWalk
<1> QED
  BY <1>2, <1>3 DEF VisitGadget

(* Opening the table of a Round keeps the invariant.                       *)
LEMMA VisitRoundKeeps ==
  ASSUME IInv, VisitRound
  PROVE  IInv'
<1>0. /\ g' = g /\ N' = N /\ Instructions' = Instructions
      /\ pc = "visit" /\ Walking /\ pc' = "operands" /\ node.op = "Round" /\ node' = node /\ k' = 1
      /\ UNCHANGED <<job, i, slot, free, next, siteIn, code>>
      /\ rounds' = [r \in DOMAIN rounds \cup {node.arg} |->
                     IF r = node.arg THEN [operands |-> <<>>, results |-> <<>>] ELSE rounds[r]]
  BY RegionsStay DEF VisitRound, Visit, Walking, node
<1>1. \A r \in DOMAIN rounds' : rounds'[r] \in [operands : Seq(Nat), results : Seq(Nat)]
  BY <1>0 DEF IInv, TypeOK
<1>2. TypeOK'
  BY <1>0, <1>1, Visited DEF IInv, TypeOK
<1>3. AllocatorInv'
  BY <1>0, SameAllocation DEF IInv, Walking
<1>4. RoundsInRange'
  <2>0. next' = next
    BY <1>0
  <2> SUFFICES ASSUME NEW r \in DOMAIN rounds'
               PROVE  /\ \A j \in DOMAIN rounds'[r].operands : rounds'[r].operands[j] < next[Local]
                      /\ \A j \in DOMAIN rounds'[r].results : rounds'[r].results[j] < next[Shared]
    BY <2>0, Zenon DEF RoundsInRange
  <2>1. CASE r = node.arg
    BY <1>0, <2>1
  <2>2. CASE r # node.arg
    BY <1>0, <2>2 DEF IInv, SlotsInRange, RoundsInRange
  <2> QED
    BY <2>1, <2>2
<1>5. SlotsInRange'
  BY <1>0, <1>4 DEF IInv, SlotsInRange, CodeInRange, SitesInRange, Within
<1> QED
  BY <1>0, <1>2, <1>3, <1>5 DEF IInv, FreshStart, RoundInWalk

(* A product's slot is recycled as soon as its round has taken it. Several *)
(* may share it by then, which only the local bank allows.                 *)
LEMMA TakeRoundOperandKeeps ==
  ASSUME IInv, TakeRoundOperand
  PROVE  IInv'
<1>1. pc = "operands" /\ Walking /\ k <= Len(node.in) /\ node.op = "Round" /\ k >= 1
  BY DEF TakeRoundOperand, Walking, IInv, RoundInWalk
<1>2. CASE Abort("rejected") \/ Abort("panicked")
  BY <1>1, <1>2, AbortKeeps
<1>3. CASE /\ Resolved(node.in[k]) /\ At(k).bank = Local
           /\ rounds' = [rounds EXCEPT ![node.arg].operands = Append(@, At(k).index)]
           /\ free' = [free EXCEPT ![Local] = Append(@, At(k).index)]
           /\ k' = k + 1
           /\ UNCHANGED <<job, pc, i, slot, next, queue, served, siteIn, code>>
  <2>0. /\ g' = g /\ N' = N /\ Instructions' = Instructions /\ Reserved' = Reserved
        /\ \A c : ReservedEnd(c)' = ReservedEnd(c)
        /\ \A v : Home(v)' = Home(v)
    BY <1>3, RegionsStay
  <2>1. At(k).index \in Nat /\ At(k).index < next[Local]
    BY <1>1, <1>3, MappedInRange DEF IInv, At, Resolved, Walking, Within
  <2>2. \A r \in DOMAIN rounds' : rounds'[r] \in [operands : Seq(Nat), results : Seq(Nat)]
    <3> SUFFICES ASSUME NEW r \in DOMAIN rounds'
                 PROVE  rounds'[r] \in [operands : Seq(Nat), results : Seq(Nat)]
      OBVIOUS
    <3>1. r \in DOMAIN rounds /\ rounds[r] \in [operands : Seq(Nat), results : Seq(Nat)]
      BY <1>3 DEF IInv, TypeOK
    <3>2. Append(rounds[r].operands, At(k).index) \in Seq(Nat)
      BY <2>1, <3>1, Push
    <3>3. CASE r # node.arg
      BY <1>3, <3>1, <3>3
    <3>4. CASE r = node.arg
      <4>1. rounds'[r] = [rounds[r] EXCEPT !.operands = Append(@, At(k).index)]
        BY <1>3, <3>1, <3>4
      <4> QED
        BY <3>1, <3>2, <4>1
    <3> QED
      BY <3>3, <3>4
  <2>3. Local \in Banks /\ Local # Public /\ Local # Shared /\ free[Local] \in Seq(Nat)
    BY DEF Banks, Public, Shared, Local, IInv, TypeOK
  <2>4. /\ free' \in [Banks -> Seq(Nat)]
        /\ \A c \in Banks : c # Local => free'[c] = free[c]
        /\ \A j \in DOMAIN free'[Local] :
             \/ j \in DOMAIN free[Local] /\ free'[Local][j] = free[Local][j]
             \/ free'[Local][j] = At(k).index
    BY <1>3, <2>1, <2>3, Push DEF IInv, TypeOK
  <2>5. TypeOK'
    <3>1. k' \in Nat
      BY <1>3 DEF IInv, TypeOK
    <3> QED
      BY <1>1, <1>3, <2>0, <2>2, <2>4, <3>1 DEF IInv, TypeOK
  <2>6. FreeBeyondRegions'
    <3> SUFFICES ASSUME NEW c \in Banks, NEW j \in DOMAIN free'[c]
                 PROVE  free'[c][j] < next[c] /\ (c # Local => ReservedEnd(c) <= free'[c][j])
      BY <1>3, <2>0 DEF FreeBeyondRegions
    <3>1. CASE c = Local
      BY <2>1, <2>4, <3>1 DEF IInv, AllocatorInv, FreeBeyondRegions
    <3>2. CASE c # Local
      BY <2>4, <3>2 DEF IInv, AllocatorInv, FreeBeyondRegions
    <3> QED
      BY <3>1, <3>2
  <2>7. RegionsMinted' /\ HomesKept' /\ LentOnce'
    BY <1>3, <2>0 DEF IInv, AllocatorInv, RegionsMinted, HomesKept, LentOnce
  <2>8. FreeOnce'
    BY <2>3, <2>4 DEF IInv, AllocatorInv, FreeOnce, Banks
  <2>9. LentBeyondRegions'
    <3>1. \A v \in DOMAIN slot : slot[v].bank \in Banks
      BY DEF IInv, TypeOK, Locations
    <3> QED
      BY <1>3, <2>0, <2>4, <3>1 DEF IInv, AllocatorInv, LentBeyondRegions
  <2>10. RoundsInRange'
    <3> SUFFICES ASSUME NEW r \in DOMAIN rounds'
                 PROVE  /\ \A j \in DOMAIN rounds'[r].operands :
                             rounds'[r].operands[j] < next[Local]
                        /\ \A j \in DOMAIN rounds'[r].results :
                             rounds'[r].results[j] < next[Shared]
      BY <1>3 DEF RoundsInRange
    <3>1. /\ r \in DOMAIN rounds
          /\ rounds[r] \in [operands : Seq(Nat), results : Seq(Nat)]
          /\ \A j \in DOMAIN rounds[r].operands : rounds[r].operands[j] < next[Local]
          /\ \A j \in DOMAIN rounds[r].results : rounds[r].results[j] < next[Shared]
      BY <1>3 DEF IInv, TypeOK, SlotsInRange, RoundsInRange
    <3>2. CASE r # node.arg
      BY <1>3, <3>1, <3>2
    <3>3. CASE r = node.arg
      <4>1. /\ rounds'[r].operands = Append(rounds[r].operands, At(k).index)
            /\ rounds'[r].results = rounds[r].results
        BY <1>3, <3>1, <3>3
      <4> QED
        BY <2>1, <3>1, <4>1, Push
    <3> QED
      BY <3>2, <3>3
  <2>11. CodeInRange' /\ SitesInRange'
    BY <1>3 DEF IInv, SlotsInRange, CodeInRange, SitesInRange, Within
  <2>12. FreshStart' /\ RoundInWalk'
    <3>3. k \in Nat
      BY DEF IInv, TypeOK
    <3>2. node' = node
      BY <1>3, <2>0 DEF node
    <3>1. node' = node /\ k + 1 >= 1
      BY <3>2, <3>3
    <3> QED
      BY <1>1, <1>3, <3>1 DEF FreshStart, RoundInWalk
  <2> QED
    BY <2>5, <2>6, <2>7, <2>8, <2>9, <2>10, <2>11, <2>12 DEF IInv, AllocatorInv, SlotsInRange
<1> QED
  BY <1>2, <1>3 DEF TakeRoundOperand

(* Turning from the operands of a Round to its results keeps the           *)
(* invariant.                                                              *)
LEMMA AllOperandsTakenKeeps ==
  ASSUME IInv, AllOperandsTaken
  PROVE  IInv'
<1>0. /\ g' = g /\ N' = N /\ Instructions' = Instructions /\ node' = node
      /\ pc = "operands" /\ Walking /\ pc' = "results" /\ k' = 1
      /\ UNCHANGED <<job, i, slot, free, next, siteIn, rounds, code>>
  BY RegionsStay DEF AllOperandsTaken, Walking, node
<1>1. i \in 1 .. N /\ N \in Nat
  BY <1>0, Visited
<1>2. TypeOK'
  BY <1>0, <1>1 DEF IInv, TypeOK
<1>3. FreshStart' /\ RoundInWalk'
  BY <1>0, <1>1 DEF IInv, FreshStart, RoundInWalk
<1>4. AllocatorInv'
  BY <1>0, SameAllocation DEF IInv, Walking
<1>5. SlotsInRange'
  BY <1>0 DEF IInv, SlotsInRange, CodeInRange, SitesInRange, RoundsInRange, Within
<1> QED
  BY <1>2, <1>3, <1>4, <1>5 DEF IInv

(* Placing a result of a Round keeps the invariant.                        *)
LEMMA PlaceRoundResultKeeps ==
  ASSUME IInv, PlaceRoundResult
  PROVE  IInv'
<1>1. pc = "results" /\ Walking /\ node.op = "Round" /\ k >= 1 /\ i \in 1 .. N /\ N \in Nat
      /\ k \in Nat
  BY Visited DEF PlaceRoundResult, Walking, IInv, RoundInWalk, TypeOK
<1>2. CASE Abort("rejected")
  BY <1>1, <1>2, AbortKeeps
<1>3. CASE /\ ~(i + k > N) /\ g.nodes[i + k].op = "RoundResult"
           /\ rounds' = [rounds EXCEPT ![node.arg].results = Append(@, Fresh(Shared))]
           /\ slot' = Mapped(i + k, Loc(Shared, Fresh(Shared)))
           /\ Alloc(Shared)
           /\ k' = k + 1
           /\ UNCHANGED <<job, pc, i, queue, served, siteIn, code>>
  <2>0. g' = g /\ N' = N /\ Instructions' = Instructions /\ node' = node
    BY <1>3, RegionsStay DEF node
  <2>1. i + k \notin Reserved /\ Shared \in Banks /\ Local \in Banks
    BY <1>3 DEF Reserved, NodesOf, Banks
  <2>2. /\ next' \in [Banks -> Nat] /\ free' \in [Banks -> Seq(Nat)]
        /\ Fresh(Shared) \in Nat /\ Fresh(Shared) < next'[Shared]
        /\ \A c \in Banks : next[c] <= next'[c]
    BY <1>1, <1>3, <2>1, AllocIsFresh DEF IInv, Walking
  <2>3. AllocatorInv' /\ \A v \in DOMAIN slot' : slot'[v] \in Locations
    BY <1>1, <1>3, <2>1, LendFresh DEF IInv, Walking
  <2>4. \A r \in DOMAIN rounds' : rounds'[r] \in [operands : Seq(Nat), results : Seq(Nat)]
    <3> SUFFICES ASSUME NEW r \in DOMAIN rounds'
                 PROVE  rounds'[r] \in [operands : Seq(Nat), results : Seq(Nat)]
      OBVIOUS
    <3>1. r \in DOMAIN rounds /\ rounds[r] \in [operands : Seq(Nat), results : Seq(Nat)]
      BY <1>3 DEF IInv, TypeOK
    <3>2. Append(rounds[r].results, Fresh(Shared)) \in Seq(Nat)
      BY <2>2, <3>1, Push
    <3>3. CASE r # node.arg
      BY <1>3, <3>1, <3>3
    <3>4. CASE r = node.arg
      <4>1. rounds'[r] = [rounds[r] EXCEPT !.results = Append(@, Fresh(Shared))]
        BY <1>3, <3>1, <3>4
      <4> QED
        BY <3>1, <3>2, <4>1
    <3> QED
      BY <3>3, <3>4
  <2>5. TypeOK'
    <3>1. k' \in Nat
      BY <1>1, <1>3
    <3> QED
      BY <1>1, <1>3, <2>0, <2>2, <2>3, <2>4, <3>1 DEF IInv, TypeOK
  <2>6. CodeInRange' /\ SitesInRange'
    BY <1>3, <2>2, StillInRange DEF IInv
  <2>7. RoundsInRange'
    <3> SUFFICES ASSUME NEW r \in DOMAIN rounds'
                 PROVE  /\ \A j \in DOMAIN rounds'[r].operands :
                             rounds'[r].operands[j] < next'[Local]
                        /\ \A j \in DOMAIN rounds'[r].results :
                             rounds'[r].results[j] < next'[Shared]
      BY DEF RoundsInRange
    <3>1. /\ r \in DOMAIN rounds
          /\ rounds[r].operands \in Seq(Nat) /\ rounds[r].results \in Seq(Nat)
          /\ \A j \in DOMAIN rounds[r].operands : rounds[r].operands[j] < next[Local]
          /\ \A j \in DOMAIN rounds[r].results : rounds[r].results[j] < next[Shared]
      BY <1>3 DEF IInv, TypeOK, SlotsInRange, RoundsInRange
    <3>2. /\ next[Local] \in Nat /\ next'[Local] \in Nat /\ next[Local] <= next'[Local]
          /\ next[Shared] \in Nat /\ next'[Shared] \in Nat /\ next[Shared] <= next'[Shared]
      BY <2>1, <2>2 DEF IInv, TypeOK
    <3>3. /\ \A j \in DOMAIN rounds[r].operands : rounds[r].operands[j] < next'[Local]
          /\ \A j \in DOMAIN rounds[r].results : rounds[r].results[j] < next'[Shared]
      <4>1. /\ \A j \in DOMAIN rounds[r].operands : rounds[r].operands[j] \in Nat
            /\ \A j \in DOMAIN rounds[r].results : rounds[r].results[j] \in Nat
        BY <3>1
      <4>2. \A x, y, z \in Nat : x < y /\ y <= z => x < z
        OBVIOUS
      <4>3. \A j \in DOMAIN rounds[r].operands : rounds[r].operands[j] < next'[Local]
        <5> TAKE j \in DOMAIN rounds[r].operands
        <5>1. rounds[r].operands[j] \in Nat /\ rounds[r].operands[j] < next[Local]
          BY <3>1, <4>1
        <5> QED
          BY <3>2, <4>2, <5>1
      <4>4. \A j \in DOMAIN rounds[r].results : rounds[r].results[j] < next'[Shared]
        <5> TAKE j \in DOMAIN rounds[r].results
        <5>1. rounds[r].results[j] \in Nat /\ rounds[r].results[j] < next[Shared]
          BY <3>1, <4>1
        <5> QED
          BY <3>2, <4>2, <5>1
      <4> QED
        BY <4>3, <4>4
    <3>4. CASE r # node.arg
      BY <1>3, <3>1, <3>3, <3>4
    <3>5. CASE r = node.arg
      <4>1. /\ rounds'[r].results = Append(rounds[r].results, Fresh(Shared))
            /\ rounds'[r].operands = rounds[r].operands
        BY <1>3, <3>1, <3>5 DEF IInv, TypeOK
      <4> QED
        BY <2>2, <3>1, <3>3, <4>1, Push
    <3> QED
      BY <3>4, <3>5
  <2>8. FreshStart' /\ RoundInWalk'
    BY <1>1, <1>3, <2>0 DEF FreshStart, RoundInWalk
  <2> QED
    BY <2>3, <2>5, <2>6, <2>7, <2>8 DEF IInv, SlotsInRange
<1> QED
  BY <1>2, <1>3 DEF PlaceRoundResult

(* Emitting the Reshare, and skipping the results, keeps the invariant.    *)
LEMMA EmitReshareKeeps ==
  ASSUME IInv, EmitReshare
  PROVE  IInv'
<1>0. /\ g' = g /\ N' = N /\ Instructions' = Instructions
      /\ pc = "results" /\ Walking /\ pc' = "service" /\ k > Len(node.in)
      /\ code' = Append(code, [op |-> "Reshare", round |-> node.arg])
      /\ i' = i + Len(node.in)
      /\ UNCHANGED <<job, k, slot, free, next, siteIn, rounds>>
  BY RegionsStay DEF EmitReshare, Walking
<1>1. i \in 1 .. N /\ N \in Nat /\ Len(node.in) \in Nat /\ k \in Nat /\ i + k - 1 <= N
  BY <1>0, Visited DEF IInv, RoundInWalk, TypeOK
<1>2. i' \in 1 .. N
  BY <1>0, <1>1
<1>3. [op |-> "Reshare", round |-> node.arg] \in Instructions
  BY <1>1, NodeFacts DEF Instructions, node, IInv, TypeOK
<1>4. code' \in Seq(Instructions)
  BY <1>0, <1>3, Push DEF IInv, TypeOK
<1>5. TypeOK'
  <2>1. i' \in Nat
    BY <1>0, <1>1
  <2> QED
    BY <1>0, <1>2, <1>4, <2>1 DEF IInv, TypeOK
<1>6. AllocatorInv'
  BY <1>0, SameAllocation DEF IInv, Walking
<1>7. SitesInRange' /\ RoundsInRange'
  BY <1>0 DEF IInv, SlotsInRange, SitesInRange, RoundsInRange, Within
<1>8. CodeInRange'
  <2>1. \A c \in DOMAIN code' :
          \/ c \in DOMAIN code /\ code'[c] = code[c]
          \/ code'[c] = [op |-> "Reshare", round |-> node.arg]
    BY <1>0, <1>3, Push DEF IInv, TypeOK
  <2> QED
    BY <1>0, <2>1 DEF IInv, SlotsInRange, CodeInRange, Within, ArithOps
<1> QED
  BY <1>0, <1>5, <1>6, <1>7, <1>8 DEF IInv, FreshStart, RoundInWalk, SlotsInRange

(* Releasing a value takes its mapping, and its slot, if recycled at all,  *)
(* had only this one holder.                                               *)
LEMMA ReleaseKeeps ==
  ASSUME IInv, Release
  PROVE  IInv'
<1> DEFINE u       == Head(queue).value
           dead    == Resolved(u) /\ IsLastUse(u, Head(queue).current)
           recycle == /\ dead /\ slot[u].bank # Local
                      /\ slot[u].index >= ReservedEnd(slot[u].bank)
<1>0. /\ g' = g /\ N' = N /\ Instructions' = Instructions /\ Reserved' = Reserved
      /\ \A c : ReservedEnd(c)' = ReservedEnd(c)
      /\ \A v : Home(v)' = Home(v)
      /\ pc = "service" /\ Walking
      /\ UNCHANGED <<job, pc, i, k, next, siteIn, rounds, code>>
  BY RegionsStay DEF Release, Walking
<1>1. /\ slot' = IF dead THEN Unmapped(u) ELSE slot
      /\ free' = IF recycle THEN [free EXCEPT ![slot[u].bank] = Append(@, slot[u].index)]
                 ELSE free
      /\ dead => u \in DOMAIN slot
  BY DEF Release, Resolved
<1> HIDE DEF u, dead
<1>2. /\ DOMAIN slot' \subseteq DOMAIN slot
      /\ \A v \in DOMAIN slot' : slot'[v] = slot[v] /\ (dead => v # u)
  BY <1>1 DEF Unmapped
<1>3. FreshStart' /\ RoundInWalk'
  BY <1>0 DEF FreshStart, RoundInWalk
<1>4. SlotsInRange'
  BY <1>0 DEF IInv, SlotsInRange, CodeInRange, SitesInRange, RoundsInRange, Within
<1>5. RegionsMinted' /\ HomesKept' /\ LentOnce'
  BY <1>0, <1>2 DEF IInv, AllocatorInv, RegionsMinted, HomesKept, LentOnce
<1>6. ASSUME free' \in [Banks -> Seq(Nat)]
      PROVE  TypeOK'
  BY <1>0, <1>2, <1>6 DEF IInv, TypeOK
<1>7. CASE ~recycle
  <2>1. free' = free
    BY <1>1, <1>7
  <2>2. FreeBeyondRegions' /\ FreeOnce' /\ LentBeyondRegions'
    BY <1>0, <1>2, <2>1 DEF IInv, AllocatorInv, FreeBeyondRegions, FreeOnce, LentBeyondRegions
  <2> QED
    BY <1>3, <1>4, <1>5, <1>6, <2>1, <2>2 DEF IInv, TypeOK, AllocatorInv
<1>8. CASE recycle
  <2> DEFINE bank == slot[u].bank
             freed == slot[u].index
  <2>1. u \in DOMAIN slot /\ dead /\ bank \in Banks /\ bank # Local /\ freed \in Nat
        /\ freed >= ReservedEnd(bank)
    BY <1>1, <1>8 DEF IInv, TypeOK, Locations
  <2>2. u \notin Reserved
    <3> SUFFICES ASSUME u \in Reserved PROVE FALSE
      OBVIOUS
    <3>1. slot[u] = Home(u)
      BY <2>1 DEF IInv, AllocatorInv, HomesKept
    <3>2. ReservedEnd(bank) \in Nat
      BY ReservedFacts, FiniteNodes DEF IInv, TypeOK, ReservedEnd
    <3> QED
      BY <2>1, <3>1, <3>2, HomeInReservedRegion DEF IInv, TypeOK
  <2>3. /\ freed < next[bank]
        /\ \A j \in DOMAIN free[bank] : free[bank][j] # freed
    BY <2>1, <2>2 DEF IInv, AllocatorInv, LentBeyondRegions
  <2>4. \A v \in DOMAIN slot' \ Reserved : slot'[v].bank = bank => slot'[v].index # freed
    <3> SUFFICES ASSUME NEW v \in DOMAIN slot' \ Reserved,
                        slot'[v].bank = bank, slot'[v].index = freed
                 PROVE  FALSE
      OBVIOUS
    <3>1. v \in DOMAIN slot /\ v # u /\ slot'[v] = slot[v]
      BY <1>2, <2>1
    <3>2. slot[v] = slot[u]
      <4>1. slot[v] \in Locations /\ slot[u] \in Locations
        BY <2>1, <3>1 DEF IInv, TypeOK
      <4>2. slot[v].bank = slot[u].bank /\ slot[v].index = slot[u].index
        BY <3>1
      <4> QED
        BY <4>1, <4>2 DEF Locations
    <3> QED
      BY <2>1, <2>2, <3>1, <3>2 DEF IInv, AllocatorInv, LentOnce
  <2> HIDE DEF bank, freed
  <2>5. /\ free' \in [Banks -> Seq(Nat)]
        /\ free[bank] \in Seq(Nat)
        /\ \A c \in Banks : c # bank => free'[c] = free[c]
        /\ free'[bank] = Append(free[bank], freed)
    BY <1>1, <1>8, <2>1, Push DEF IInv, TypeOK, bank, freed
  <2>6. \A j \in DOMAIN free'[bank] :
          \/ j \in DOMAIN free[bank] /\ free'[bank][j] = free[bank][j]
          \/ j = Len(free[bank]) + 1 /\ free'[bank][j] = freed
    BY <2>1, <2>5, Push
  <2>7. FreeBeyondRegions'
    <3> SUFFICES ASSUME NEW c \in Banks, NEW j \in DOMAIN free'[c]
                 PROVE  free'[c][j] < next[c] /\ (c # Local => ReservedEnd(c) <= free'[c][j])
      BY <1>0 DEF FreeBeyondRegions
    <3>1. CASE c = bank /\ free'[c][j] = freed
      <4>1. ReservedEnd(bank) \in Nat
        BY ReservedFacts, FiniteNodes DEF IInv, TypeOK, ReservedEnd
      <4> QED
        BY <2>1, <2>3, <3>1, <4>1
    <3>2. CASE ~(c = bank /\ free'[c][j] = freed)
      <4>1. j \in DOMAIN free[c] /\ free'[c][j] = free[c][j]
        BY <2>5, <2>6, <3>2
      <4> QED
        BY <4>1 DEF IInv, AllocatorInv, FreeBeyondRegions
    <3> QED
      BY <3>1, <3>2
  <2>8. FreeOnce'
    <3> SUFFICES ASSUME NEW c \in {Public, Shared},
                        NEW j \in DOMAIN free'[c], NEW l \in DOMAIN free'[c],
                        free'[c][j] = free'[c][l]
                 PROVE  j = l
      BY DEF FreeOnce
    <3>1. \A x, y \in DOMAIN free[c] : free[c][x] = free[c][y] => x = y
      BY DEF IInv, AllocatorInv, FreeOnce
    <3>2. CASE c = bank
      BY <2>3, <2>6, <3>1, <3>2
    <3>3. CASE c # bank
      <4>1. free'[c] = free[c]
        BY <2>5, <3>3 DEF Banks
      <4> QED
        BY <3>1, <4>1
    <3> QED
      BY <3>2, <3>3
  <2>9. LentBeyondRegions'
    <3> SUFFICES ASSUME NEW v \in DOMAIN slot' \ Reserved
                 PROVE  /\ slot'[v].index < next[slot'[v].bank]
                        /\ slot'[v].bank # Local =>
                             /\ ReservedEnd(slot'[v].bank) <= slot'[v].index
                             /\ \A j \in DOMAIN free'[slot'[v].bank] :
                                  free'[slot'[v].bank][j] # slot'[v].index
      BY <1>0 DEF LentBeyondRegions
    <3>1. v \in DOMAIN slot \ Reserved /\ slot'[v] = slot[v] /\ slot[v].bank \in Banks
      BY <1>2 DEF IInv, TypeOK, Locations
    <3>2. /\ slot[v].index < next[slot[v].bank]
          /\ slot[v].bank # Local =>
               /\ ReservedEnd(slot[v].bank) <= slot[v].index
               /\ \A j \in DOMAIN free[slot[v].bank] : free[slot[v].bank][j] # slot[v].index
      BY <3>1 DEF IInv, AllocatorInv, LentBeyondRegions
    <3>3. CASE slot[v].bank = bank
      BY <2>4, <2>6, <3>1, <3>2, <3>3
    <3>4. CASE slot[v].bank # bank
      BY <2>5, <3>1, <3>2, <3>4
    <3> QED
      BY <3>3, <3>4
  <2> QED
    BY <1>3, <1>4, <1>5, <1>6, <2>5, <2>7, <2>8, <2>9 DEF IInv, AllocatorInv
<1> QED
  BY <1>7, <1>8

(* Emitting a batch keeps the invariant.                                   *)
LEMMA ServiceBatchKeeps ==
  ASSUME IInv, ServiceBatch
  PROVE  IInv'
<1>0. /\ g' = g /\ N' = N /\ Instructions' = Instructions
      /\ pc = "service" /\ Walking
      /\ UNCHANGED <<job, pc, i, k, slot, free, next, siteIn, rounds>>
  BY RegionsStay DEF ServiceBatch, Walking
<1>1. PICK b \in DOMAIN plans : code' = Append(code, [op |-> "Gadget", batch |-> b])
  BY DEF ServiceBatch, Pending
<1> DEFINE instr == [op |-> "Gadget", batch |-> b]
<1>2. instr \in Instructions
  BY DEF Instructions
<1>3. code' \in Seq(Instructions)
  BY <1>1, <1>2, Push DEF IInv, TypeOK
<1>4. TypeOK'
  BY <1>0, <1>3 DEF IInv, TypeOK
<1>5. AllocatorInv'
  BY <1>0, SameAllocation DEF IInv, Walking
<1>6. CodeInRange'
  <2>1. \A c \in DOMAIN code' :
          (c \in DOMAIN code /\ code'[c] = code[c]) \/ code'[c] = instr
    BY <1>1, <1>2, Push DEF IInv, TypeOK
  <2> QED
    BY <1>0, <2>1 DEF IInv, SlotsInRange, CodeInRange, Within, ArithOps
<1>7. SitesInRange' /\ RoundsInRange'
  BY <1>0 DEF IInv, SlotsInRange, SitesInRange, RoundsInRange, Within
<1> QED
  BY <1>0, <1>4, <1>5, <1>6, <1>7 DEF IInv, FreshStart, RoundInWalk, SlotsInRange

(* Going to the next node keeps the invariant.                             *)
LEMMA NextNodeKeeps ==
  ASSUME IInv, NextNode
  PROVE  IInv'
<1>0. /\ g' = g /\ N' = N /\ Instructions' = Instructions
      /\ pc = "service" /\ Walking /\ i' = i + 1
      /\ pc' = IF i = N THEN "project" ELSE "visit"
      /\ UNCHANGED <<job, k, slot, free, next, siteIn, rounds, code>>
  BY RegionsStay DEF NextNode, Walking
<1>1. i \in 1 .. N /\ N \in Nat
  BY <1>0, Visited
<1>2. i' \in Nat /\ (i # N => i' \in 1 .. N)
  BY <1>0, <1>1
<1>3. TypeOK'
  BY <1>0, <1>2 DEF IInv, TypeOK
<1>4. AllocatorInv'
  BY <1>0, SameAllocation DEF IInv, Walking
<1>5. SlotsInRange'
  BY <1>0 DEF IInv, SlotsInRange, CodeInRange, SitesInRange, RoundsInRange, Within
<1> QED
  BY <1>0, <1>3, <1>4, <1>5 DEF IInv, FreshStart, RoundInWalk

(* Every step of compile keeps the invariant.                              *)
LEMMA NextKeeps == IInv /\ [Next]_vars => IInv'
<1> SUFFICES ASSUME IInv, [Next]_vars PROVE IInv'
  OBVIOUS
<1>1. CASE UNCHANGED vars
  <2>1. g' = g /\ N' = N /\ Instructions' = Instructions /\ Reserved' = Reserved
        /\ (\A c : ReservedEnd(c)' = ReservedEnd(c)) /\ (\A v : Home(v)' = Home(v))
    BY <1>1, RegionsStay DEF vars
  <2>2. TypeOK'
    BY <1>1, <2>1 DEF IInv, TypeOK, vars
  <2>3. FreshStart' /\ RoundInWalk'
    BY <1>1, <2>1 DEF IInv, FreshStart, RoundInWalk, vars, node
  <2>4. AllocatorInv'
    BY <1>1, <2>1 DEF IInv, AllocatorInv, RegionsMinted, FreeBeyondRegions, FreeOnce,
                      HomesKept, LentBeyondRegions, LentOnce, vars
  <2>5. SlotsInRange'
    BY <1>1 DEF IInv, SlotsInRange, CodeInRange, SitesInRange, RoundsInRange, Within, vars
  <2> QED
    BY <2>2, <2>3, <2>4, <2>5 DEF IInv
<1>2. CASE Step
  <2>1. CASE Reserve
    BY <2>1, ReserveKeeps
  <2>2. CASE VisitLeaf
    BY <2>2, Quiet, Visited DEF VisitLeaf, Visit, Walking
  <2>3. CASE VisitGadgetResult
    BY <2>3, VisitGadgetResultKeeps
  <2>4. CASE VisitArith
    BY <2>4, VisitArithKeeps
  <2>5. CASE VisitMulLocal
    BY <2>5, VisitMulLocalKeeps
  <2>6. CASE VisitGadget
    BY <2>6, VisitGadgetKeeps
  <2>7. CASE VisitRound
    BY <2>7, VisitRoundKeeps
  <2>8. CASE TakeRoundOperand
    BY <2>8, TakeRoundOperandKeeps
  <2>9. CASE AllOperandsTaken
    BY <2>9, AllOperandsTakenKeeps
  <2>10. CASE PlaceRoundResult
    BY <2>10, PlaceRoundResultKeeps
  <2>11. CASE EmitReshare
    BY <2>11, EmitReshareKeeps
  <2>12. CASE VisitRoundResult
    BY <2>12, AbortKeeps DEF VisitRoundResult, Visit, Walking
  <2>13. CASE Release
    BY <2>13, ReleaseKeeps
  <2>14. CASE ServiceBatch
    BY <2>14, ServiceBatchKeeps
  <2>15. CASE NextNode
    BY <2>15, NextNodeKeeps
  <2>16. CASE ProjectWitness
    BY <2>16, AbortKeeps DEF ProjectWitness, Walking
  <2> QED
    BY <1>2, <2>1, <2>2, <2>3, <2>4, <2>5, <2>6, <2>7, <2>8, <2>9, <2>10, <2>11, <2>12,
       <2>13, <2>14, <2>15, <2>16 DEF Step
<1> QED
  BY <1>1, <1>2 DEF Next, Finished

-----------------------------------------------------------------------------
(* The theorems.                                                           *)

(* IInv holds throughout every compilation.                                *)
THEOREM Invariance == Spec => []IInv
BY InitHolds, NextKeeps, PTL DEF Spec

(* Every variable of the emitter keeps its type: instructions name banks   *)
(* and slots that exist as such, and the walk never leaves the node list,  *)
(* although a Round jumps over its results.                                *)
THEOREM TypeCorrect == Spec => []TypeOK
<1>1. IInv => TypeOK
  BY DEF IInv
<1> QED
  BY <1>1, Invariance, PTL

(* What the invariant says of two placed values.                           *)
LEMMA PlacedApart == IInv => NoAlias
<1> SUFFICES ASSUME IInv, NEW v \in Placed, NEW w \in Placed, v # w, Place(v) = Place(w),
                    Place(v).bank # Local
             PROVE  FALSE
  BY DEF NoAlias
<1>1. \A x \in Reserved, y \in DOMAIN slot \ Reserved :
        slot[y].bank # Local => Home(x) # slot[y]
  <2> SUFFICES ASSUME NEW x \in Reserved, NEW y \in DOMAIN slot \ Reserved,
                      slot[y].bank # Local, Home(x) = slot[y]
               PROVE  FALSE
    OBVIOUS
  <2>1. Home(x).index < ReservedEnd(Home(x).bank) /\ Home(x) \in Locations
    BY HomeInReservedRegion DEF IInv, TypeOK
  <2>2. ReservedEnd(Home(x).bank) <= Home(x).index
    BY DEF IInv, AllocatorInv, LentBeyondRegions
  <2>3. ReservedEnd(Home(x).bank) \in Nat /\ Home(x).index \in Nat
    BY <2>1, ReservedFacts, FiniteNodes DEF IInv, TypeOK, ReservedEnd, Locations
  <2> QED
    BY <2>1, <2>2, <2>3
<1>2. CASE v \in Reserved /\ w \in Reserved
  BY <1>2, HomesDistinct DEF IInv, TypeOK, Place
<1>3. CASE v \in Reserved /\ w \notin Reserved
  BY <1>1, <1>3 DEF Place, Placed
<1>4. CASE v \notin Reserved /\ w \in Reserved
  BY <1>1, <1>4 DEF Place, Placed
<1>5. CASE v \notin Reserved /\ w \notin Reserved
  BY <1>5 DEF Place, Placed, IInv, AllocatorInv, LentOnce
<1> QED
  BY <1>2, <1>3, <1>4, <1>5

(* For every graph: two values alive at once never share a public or a     *)
(* shared slot, and a gadget result's slot is lent to nobody, in whatever  *)
(* order batches, rounds and releases interleave.                          *)
THEOREM SlotsNeverAliased == Spec => []NoAlias
BY Invariance, PlacedApart, PTL

(* What the invariant says of the free lists.                              *)
LEMMA FreeApart == IInv => FreeSlotsUnused
<1> SUFFICES ASSUME IInv, NEW bank \in {Public, Shared}
             PROVE  /\ \A j, l \in DOMAIN free[bank] : free[bank][j] = free[bank][l] => j = l
                    /\ \A v \in DOMAIN slot : \A j \in DOMAIN free[bank] :
                         slot[v] # Loc(bank, free[bank][j])
  BY DEF FreeSlotsUnused
<1>1. bank \in Banks /\ bank # Local
  BY DEF Banks, Public, Shared, Local
<1>2. \A j, l \in DOMAIN free[bank] : free[bank][j] = free[bank][l] => j = l
  BY DEF IInv, AllocatorInv, FreeOnce
<1>3. ASSUME NEW v \in DOMAIN slot, NEW j \in DOMAIN free[bank],
             slot[v] = Loc(bank, free[bank][j])
      PROVE  FALSE
  <2>1. slot[v].bank = bank /\ slot[v].index = free[bank][j]
    BY <1>3 DEF Loc
  <2>2. CASE v \in Reserved
    <3>1. slot[v] = Home(v)
      BY <2>2 DEF IInv, AllocatorInv, HomesKept
    <3>2. slot[v].index < ReservedEnd(bank)
      BY <2>1, <2>2, <3>1, HomeInReservedRegion DEF IInv, TypeOK
    <3>3. ReservedEnd(bank) <= free[bank][j]
      BY <1>1 DEF IInv, AllocatorInv, FreeBeyondRegions
    <3>4. ReservedEnd(bank) \in Nat /\ slot[v].index \in Nat
      BY ReservedFacts, FiniteNodes DEF IInv, TypeOK, ReservedEnd, Locations
    <3> QED
      BY <2>1, <3>2, <3>3, <3>4
  <2>3. CASE v \notin Reserved
    BY <1>1, <2>1, <2>3 DEF IInv, AllocatorInv, LentBeyondRegions
  <2> QED
    BY <2>2, <2>3
<1> QED
  BY <1>2, <1>3

(* For every graph: a slot is freed at most once while it is unused, and   *)
(* never while a live value holds it, however often an operand is named.   *)
THEOREM NothingFreedInUse == Spec => []FreeSlotsUnused
BY Invariance, FreeApart, PTL

(* For every graph: instructions, site inputs and round tables only name   *)
(* slots their bank has.                                                   *)
THEOREM ProgramInRange == Spec => []SlotsInRange
<1>1. IInv => SlotsInRange
  BY DEF IInv
<1> QED
  BY <1>1, Invariance, PTL

-----------------------------------------------------------------------------
(* The walk.                                                               *)

-----------------------------------------------------------------------------
(* What compile computes up front.                                         *)

Compiled == \E graph \in Graphs : job = Compile(graph)

(* The graph is sound and its analyses are those of the source.            *)
LEMMA CompiledFacts ==
  ASSUME Compiled
  PROVE  /\ Sound(g)
         /\ job.domain = Domains(g)
         /\ plans = PlanGadgetBatches(g)
         /\ N \in Nat /\ Values(g) = 1 .. N
<1>1. PICK graph \in Graphs : job = Compile(graph)
  BY DEF Compiled
<1>2. g = graph /\ job.domain = Domains(graph) /\ plans = PlanGadgetBatches(graph)
  BY <1>1 DEF Compile, g, plans
<1>3. Sound(g)
  BY <1>2, GraphsAssumption DEF Sound
<1> QED
  BY <1>2, <1>3, GraphFacts DEF N

(* The operands of the node being visited, and their domains.              *)
LEMMA VisitedOperands ==
  ASSUME Compiled, i \in 1 .. N
  PROVE  /\ \A w \in InputsOf(g, i) : w \in Values(g) /\ w < i
         /\ ToSet(OperandDomains) = {job.domain[w] : w \in InputsOf(g, i)}
         /\ node.op \in Ops
         /\ DOMAIN node.in = 1 .. Len(node.in) /\ Len(node.in) \in Nat
         /\ Len(node.in) \in Arities(node.op)
<1>1. Sound(g) /\ i \in Values(g)
  BY CompiledFacts
<1>2. \A w \in InputsOf(g, i) : w \in Values(g) /\ w < i
  BY <1>1, OperandFacts
<1>3. InputsOf(g, i) = {node.in[j] : j \in DOMAIN node.in}
  BY <1>1, OperandFacts DEF node
<1>4. ToSet(OperandDomains) = {job.domain[node.in[j]] : j \in DOMAIN node.in}
  BY DEF ToSet, OperandDomains
<1>5. ToSet(OperandDomains) = {job.domain[w] : w \in InputsOf(g, i)}
  BY <1>3, <1>4
<1>6. /\ node.op \in Ops
      /\ DOMAIN node.in = 1 .. Len(node.in) /\ Len(node.in) \in Nat
  BY <1>1, GraphFacts DEF node
<1>7. Len(node.in) \in Arities(node.op)
  BY <1>1 DEF Sound, WellTyped, Values, node
<1> QED
  BY <1>2, <1>5, <1>6, <1>7

-----------------------------------------------------------------------------
(* What the walk has checked. Passed is the last node it is done with.     *)

Passed == IF pc = "service" THEN i ELSE i - 1

Checked(v) ==
  /\ g.nodes[v].op \in ArithOps => \A w \in InputsOf(g, v) : job.domain[w] # Local
  /\ g.nodes[v].op = "Mul" => \E w \in InputsOf(g, v) : job.domain[w] = Public
  /\ g.nodes[v].op = "MulLocal" => \A w \in InputsOf(g, v) : job.domain[w] = Shared
  /\ g.nodes[v].op = "Gadget" => \A w \in InputsOf(g, v) : g.nodes[w].op # "MulLocal"

AllChecked == \A v \in Values(g) : v <= Passed => Checked(v)

(* Products, and nothing else, are in the local bank.                      *)
BanksKept ==
  \A v \in DOMAIN slot : v \in Values(g) /\ (slot[v].bank = Local <=> g.nodes[v].op = "MulLocal")

(* The nodes a Round jumps over are its results.                           *)
ResultsFollow ==
  pc = "results" =>
    /\ k - 1 <= Len(node.in)
    /\ \A j \in 1 .. (k - 1) : g.nodes[i + j].op = "RoundResult"

AtTheEnd == pc \in {"project", "done"} => i = N + 1

OutputsChecked ==
  pc = "done" => \A j \in DOMAIN g.outputs : g.nodes[g.outputs[j].value].op # "MulLocal"

WalkInv == Compiled /\ AllChecked /\ BanksKept /\ ResultsFollow /\ AtTheEnd /\ OutputsChecked

(* What only depends on the graph stays.                                   *)
LEMMA JobStays ==
  ASSUME job' = job
  PROVE  /\ g' = g /\ N' = N /\ plans' = plans
         /\ Compiled' = Compiled
         /\ \A v : Checked(v)' = Checked(v)
         /\ \A v : Uses(v)' = Uses(v)
         /\ \A b : BatchInputs(b)' = BatchInputs(b)
         /\ Reserved' = Reserved
         /\ IsLowered' = IsLowered
<1>1. g' = g /\ N' = N /\ plans' = plans /\ Compiled' = Compiled
  BY DEF g, N, plans, Compiled
<1>2. \A v : Checked(v)' = Checked(v)
  BY <1>1 DEF Checked
<1>3. \A b : BatchInputs(b)' = BatchInputs(b)
  BY <1>1 DEF BatchInputs
<1>4. \A v : Uses(v)' = Uses(v)
  BY <1>1, <1>3 DEF Uses
<1>5. Reserved' = Reserved
  BY <1>1 DEF Reserved
<1>6. SecretProductsSplit' = SecretProductsSplit /\ ProductsAreReshared' = ProductsAreReshared
      /\ ReadThroughResults' = ReadThroughResults
  BY <1>1 DEF SecretProductsSplit, ProductsAreReshared, ReadThroughResults
<1>7. IsLowered' = IsLowered
  BY <1>1, <1>6 DEF IsLowered
<1> QED
  BY <1>1, <1>2, <1>3, <1>4, <1>5, <1>7

-----------------------------------------------------------------------------
(* Every step keeps what the walk has checked.                             *)

(* Nothing is checked yet when compile starts.                             *)
LEMMA WalkStarts == Init => WalkInv
<1> SUFFICES ASSUME NEW graph \in Graphs, Begin(graph) PROVE WalkInv
  BY DEF Init
<1>1. Compiled
  BY DEF Begin, Compiled
<1>2. DOMAIN slot = {} /\ pc = "reserve" /\ i = 1
  BY DEF Begin
<1>3. Passed = 0 /\ \A v \in Values(g) : ~(v <= 0)
  BY <1>1, <1>2, CompiledFacts DEF Passed
<1> QED
  BY <1>1, <1>2, <1>3 DEF WalkInv, AllChecked, BanksKept, ResultsFollow, AtTheEnd, OutputsChecked

(* Steps that pass no node.                                                *)
LEMMA NothingPassed ==
  ASSUME WalkInv, job' = job, Passed' = Passed
  PROVE  Compiled' /\ AllChecked'
BY JobStays DEF WalkInv, AllChecked

(* Steps that pass the visited node.                                       *)
LEMMA OnePassed ==
  ASSUME IInv, WalkInv, pc = "visit", Checked(i), job' = job, i' = i, pc' = "service"
  PROVE  Compiled' /\ AllChecked' /\ ResultsFollow' /\ AtTheEnd' /\ OutputsChecked'
<1>1. Compiled' /\ g' = g /\ \A v : Checked(v)' = Checked(v)
  BY JobStays DEF WalkInv
<1>2. i \in Nat /\ Values(g) = 1 .. N /\ N \in Nat
  BY CompiledFacts, Visited DEF WalkInv
<1>3. Passed = i - 1 /\ Passed' = i
  BY DEF Passed
<1>4. \A v \in Values(g) : v <= i => v <= i - 1 \/ v = i
  BY <1>2
<1>5. AllChecked'
  BY <1>1, <1>3, <1>4 DEF AllChecked, WalkInv
<1> QED
  BY <1>1, <1>5 DEF ResultsFollow, AtTheEnd, OutputsChecked

(* Compile ends early.                                                     *)
LEMMA AbortWalks ==
  ASSUME IInv, WalkInv, pc # "service", NEW outcome \in {"rejected", "panicked"}, Abort(outcome)
  PROVE  WalkInv'
<1>1. /\ job' = job /\ g' = g /\ slot' = slot /\ Passed' = Passed
      /\ pc' \in {"rejected", "panicked"}
  BY JobStays DEF Abort, Passed
<1>2. Compiled' /\ AllChecked'
  BY <1>1, NothingPassed
<1>3. BanksKept'
  BY <1>1 DEF BanksKept, WalkInv
<1> QED
  BY <1>1, <1>2, <1>3 DEF WalkInv, ResultsFollow, AtTheEnd, OutputsChecked

(* A value gets a slot of the bank it belongs in.                          *)
LEMMA BanksMapped ==
  ASSUME WalkInv, job' = job, NEW v \in Values(g), NEW bank, NEW index,
         bank = Local <=> g.nodes[v].op = "MulLocal",
         slot' = Mapped(v, Loc(bank, index))
  PROVE  BanksKept'
<1>1. g' = g
  BY JobStays
<1>2. Loc(bank, index).bank = bank
  BY DEF Loc
<1>3. /\ DOMAIN slot' = DOMAIN slot \cup {v}
      /\ \A w \in DOMAIN slot' : slot'[w] = IF w = v THEN Loc(bank, index) ELSE slot[w]
  BY DEF Mapped
<1> QED
  BY <1>1, <1>2, <1>3 DEF BanksKept, WalkInv

(* The regions hold no local product.                                      *)
LEMMA ReserveWalks ==
  ASSUME IInv, WalkInv, Reserve
  PROVE  WalkInv'
<1>1. job' = job /\ g' = g /\ N' = N /\ i' = i /\ i = 1 /\ pc = "reserve"
  BY JobStays DEF Reserve, IInv, FreshStart
<1>2. pc' \in {"rejected", "project", "visit"} /\ (pc' = "project" => N = 0)
  BY DEF Reserve
<1>3. Compiled' /\ AllChecked'
  BY <1>1, <1>2, NothingPassed DEF Passed
<1>4. BanksKept'
  <2>1. CASE slot' = slot
    BY <1>1, <2>1 DEF BanksKept, WalkInv
  <2>2. CASE slot' = [v \in NodesOf(g, "Constant") \cup NodesOf(g, "Input") |-> Home(v)]
    <3>1. ASSUME NEW v \in DOMAIN slot'
          PROVE  v \in Reserved /\ v \in Values(g) /\ g.nodes[v].op # "MulLocal" /\ slot'[v] = Home(v)
      BY <2>2 DEF Reserved, NodesOf
    <3>2. ASSUME NEW v \in Reserved
          PROVE  Home(v).bank \in {Public, Shared}
      BY HomeInReservedRegion DEF IInv, TypeOK
    <3> QED
      BY <1>1, <3>1, <3>2 DEF BanksKept, Public, Shared, Local
  <2> QED
    BY <2>1, <2>2 DEF Reserve
<1> QED
  BY <1>1, <1>2, <1>3, <1>4 DEF WalkInv, ResultsFollow, AtTheEnd, OutputsChecked

(* A leaf needs no check.                                                  *)
LEMMA VisitLeafWalks ==
  ASSUME IInv, WalkInv, VisitLeaf
  PROVE  WalkInv'
<1>1. /\ pc = "visit" /\ node.op \in LeafOps
      /\ job' = job /\ i' = i /\ pc' = "service" /\ slot' = slot
  BY DEF VisitLeaf, Visit
<1>2. Checked(i)
  BY <1>1 DEF Checked, LeafOps, ArithOps, node
<1>3. BanksKept'
  BY <1>1, JobStays DEF BanksKept, WalkInv
<1> QED
  BY <1>1, <1>2, <1>3, OnePassed DEF WalkInv

(* A gadget result goes to a reserved slot, which is not local.            *)
LEMMA VisitGadgetResultWalks ==
  ASSUME IInv, WalkInv, VisitGadgetResult
  PROVE  WalkInv'
<1>1. /\ pc = "visit" /\ node.op = "GadgetResult"
      /\ job' = job /\ i' = i /\ pc' = "service" /\ slot' = Mapped(i, Home(i))
  BY DEF VisitGadgetResult, Visit
<1>2. Checked(i)
  BY <1>1 DEF Checked, LeafOps, ArithOps, node
<1>3. i \in Reserved /\ i \in Values(g)
  BY <1>1, Visited, CompiledFacts DEF Reserved, NodesOf, node, WalkInv
<1>4. Home(i).bank \in {Public, Shared}
  BY <1>3, HomeInReservedRegion DEF IInv, TypeOK
<1>5. Home(i) = Loc(Home(i).bank, Home(i).index)
  BY DEF Home, Loc
<1>6. BanksKept'
  BY <1>1, <1>3, <1>4, <1>5, BanksMapped DEF node, Public, Shared, Local
<1> QED
  BY <1>1, <1>2, <1>6, OnePassed DEF WalkInv

(* An instruction is emitted for operands of the right domains only.       *)
LEMMA VisitArithWalks ==
  ASSUME IInv, WalkInv, VisitArith
  PROVE  WalkInv'
<1>1. pc = "visit" /\ node.op \in ArithOps
  BY DEF VisitArith, Visit
<1>2. CASE Abort("rejected") \/ Abort("panicked")
  BY <1>1, <1>2, AbortWalks
<1>3. CASE ~ NoOpcode /\ \E bank \in {Public, Shared} : \E a, b : EmitInto(bank, node.op, a, b)
  <2>1. PICK bank \in {Public, Shared} : slot' = Mapped(i, Loc(bank, Fresh(bank)))
    BY <1>3 DEF EmitInto
  <2>2. job' = job /\ i' = i /\ pc' = "service"
    BY <1>3 DEF EmitInto
  <2>3. i \in Values(g) /\ node.op # "MulLocal"
    BY <1>1, Visited, CompiledFacts DEF WalkInv, ArithOps
  <2>4. BanksKept'
    BY <2>1, <2>2, <2>3, BanksMapped DEF node, Public, Shared, Local
  <2>5. Checked(i)
    <3>1. /\ \A w \in InputsOf(g, i) : job.domain[w] # Local
          /\ node.op = "Mul" => \E w \in InputsOf(g, i) : job.domain[w] # Shared
      BY <1>1, <1>3, VisitedOperands, Visited DEF NoOpcode, WalkInv
    <3>2. \A w \in InputsOf(g, i) : job.domain[w] \in Domain3
      BY VisitedOperands, Visited, CompiledFacts, DomainFacts, <1>1 DEF WalkInv
    <3>3. node.op = "Mul" => \E w \in InputsOf(g, i) : job.domain[w] = Public
      BY <3>1, <3>2 DEF Domain3
    <3> QED
      BY <1>1, <3>1, <3>3 DEF Checked, node, ArithOps
  <2> QED
    BY <1>1, <2>2, <2>4, <2>5, OnePassed DEF WalkInv
<1> QED
  BY <1>2, <1>3 DEF VisitArith

(* A local product is emitted for shared operands only.                    *)
LEMMA VisitMulLocalWalks ==
  ASSUME IInv, WalkInv, VisitMulLocal
  PROVE  WalkInv'
<1>1. pc = "visit" /\ node.op = "MulLocal"
  BY DEF VisitMulLocal, Visit
<1>2. CASE Abort("rejected") \/ Abort("panicked")
  BY <1>1, <1>2, AbortWalks
<1>3. CASE /\ \A d \in ToSet(OperandDomains) : d = Shared
           /\ EmitInto(Local, "MulLocal", At(1), At(2))
  <2>1. /\ slot' = Mapped(i, Loc(Local, Fresh(Local)))
        /\ job' = job /\ i' = i /\ pc' = "service"
    BY <1>3 DEF EmitInto
  <2>2. i \in Values(g)
    BY <1>1, Visited, CompiledFacts DEF WalkInv
  <2>3. BanksKept'
    BY <1>1, <2>1, <2>2, BanksMapped DEF node
  <2>4. \A w \in InputsOf(g, i) : job.domain[w] = Shared
    BY <1>1, <1>3, VisitedOperands, Visited DEF WalkInv
  <2>5. Checked(i)
    BY <1>1, <2>4 DEF Checked, node, ArithOps
  <2> QED
    BY <1>1, <2>1, <2>3, <2>5, OnePassed DEF WalkInv
<1> QED
  BY <1>2, <1>3 DEF VisitMulLocal

(* A site is accepted only if none of its operands is a local product.     *)
LEMMA VisitGadgetWalks ==
  ASSUME IInv, WalkInv, VisitGadget
  PROVE  WalkInv'
<1>1. pc = "visit" /\ node.op = "Gadget"
  BY DEF VisitGadget, Visit
<1>2. CASE Abort("rejected") \/ Abort("panicked")
  BY <1>1, <1>2, AbortWalks
<1>3. CASE /\ OperandsResolved /\ \A w \in InputsOf(g, i) : slot[w].bank # Local
           /\ UNCHANGED <<job, i, slot>> /\ pc' = "service"
  <2>1. BanksKept'
    BY <1>3, JobStays DEF BanksKept, WalkInv
  <2>2. \A w \in InputsOf(g, i) : g.nodes[w].op # "MulLocal"
    BY <1>3 DEF OperandsResolved, Resolved, BanksKept, WalkInv
  <2>3. Checked(i)
    BY <1>1, <2>2 DEF Checked, node, ArithOps
  <2> QED
    BY <1>1, <1>3, <2>1, <2>3, OnePassed DEF WalkInv
<1> QED
  BY <1>2, <1>3 DEF VisitGadget

(* Steps that keep the node and every mapping, but end no compilation.     *)
LEMMA StillWalks ==
  ASSUME WalkInv, UNCHANGED <<job, i, slot>>, Passed' = Passed,
         pc' \notin {"results", "project", "done"}
  PROVE  WalkInv'
<1>1. Compiled' /\ AllChecked'
  BY NothingPassed
<1>2. BanksKept'
  BY JobStays DEF BanksKept, WalkInv
<1> QED
  BY <1>1, <1>2 DEF WalkInv, ResultsFollow, AtTheEnd, OutputsChecked

(* Taking a Round's operands passes no node.                               *)
LEMMA OperandsWalk ==
  ASSUME IInv, WalkInv, VisitRound \/ TakeRoundOperand
  PROVE  WalkInv'
<1>1. CASE VisitRound
  BY <1>1, StillWalks DEF VisitRound, Visit, Passed
<1>2. CASE TakeRoundOperand
  <2>1. CASE Abort("rejected") \/ Abort("panicked")
    BY <1>2, <2>1, AbortWalks DEF TakeRoundOperand
  <2>2. CASE UNCHANGED <<job, pc, i, slot>>
    BY <1>2, <2>2, StillWalks DEF TakeRoundOperand, Passed
  <2> QED
    BY <1>2, <2>1, <2>2 DEF TakeRoundOperand
<1> QED
  BY <1>1, <1>2

(* Turning to the results passes no node either.                           *)
LEMMA AllOperandsTakenWalks ==
  ASSUME IInv, WalkInv, AllOperandsTaken
  PROVE  WalkInv'
<1>1. /\ pc = "operands" /\ pc' = "results" /\ k' = 1 /\ UNCHANGED <<job, i, slot>>
      /\ node' = node
  BY JobStays DEF AllOperandsTaken, node
<1>2. Compiled' /\ AllChecked'
  BY <1>1, NothingPassed DEF Passed
<1>3. BanksKept'
  BY <1>1, JobStays DEF BanksKept, WalkInv
<1>4. ResultsFollow'
  <2>1. Len(node.in) \in Nat
    BY <1>1, Visited
  <2>2. k' - 1 = 0 /\ 1 .. 0 = {}
    BY <1>1
  <2> QED
    BY <1>1, <2>1, <2>2 DEF ResultsFollow
<1> QED
  BY <1>1, <1>2, <1>3, <1>4 DEF WalkInv, AtTheEnd, OutputsChecked

(* The node that gets the k-th slot of a Round is a result.                *)
LEMMA PlaceRoundResultWalks ==
  ASSUME IInv, WalkInv, PlaceRoundResult
  PROVE  WalkInv'
<1>1. pc = "results" /\ k <= Len(node.in) /\ k \in Nat /\ k >= 1
  BY DEF PlaceRoundResult, IInv, TypeOK, RoundInWalk
<1>2. CASE Abort("rejected")
  BY <1>1, <1>2, AbortWalks
<1>3. CASE /\ ~(i + k > N) /\ g.nodes[i + k].op = "RoundResult"
           /\ slot' = Mapped(i + k, Loc(Shared, Fresh(Shared)))
           /\ k' = k + 1
           /\ UNCHANGED <<job, pc, i>>
  <2>1. g' = g /\ node' = node
    BY <1>3, JobStays DEF node
  <2>2. Compiled' /\ AllChecked'
    BY <1>3, NothingPassed DEF Passed
  <2>3. i + k \in Values(g)
    BY <1>1, <1>3, Visited, CompiledFacts DEF WalkInv
  <2>4. BanksKept'
    BY <1>3, <2>3, BanksMapped DEF Shared, Local
  <2>5. ResultsFollow'
    <3>1. \A j \in 1 .. (k' - 1) : j \in 1 .. (k - 1) \/ j = k
      BY <1>1, <1>3
    <3>2. \A j \in 1 .. (k - 1) : g.nodes[i + j].op = "RoundResult"
      BY <1>1 DEF ResultsFollow, WalkInv
    <3>3. k' - 1 <= Len(node.in)
      BY <1>1, <1>3, Visited
    <3> QED
      BY <1>3, <2>1, <3>1, <3>2, <3>3 DEF ResultsFollow
  <2> QED
    BY <1>1, <1>3, <2>2, <2>4, <2>5 DEF WalkInv, AtTheEnd, OutputsChecked
<1> QED
  BY <1>2, <1>3 DEF PlaceRoundResult

(* The walk skips exactly the results of its Round.                        *)
LEMMA SkippedNodes ==
  ASSUME IInv, WalkInv, EmitReshare
  PROVE  /\ i \in 1 .. N /\ N \in Nat /\ Len(node.in) \in Nat
         /\ g.nodes[i].op = "Round"
         /\ pc' = "service" /\ job' = job /\ i' = i + Len(node.in) /\ i' <= N
         /\ \A v \in Values(g) :
              v <= i' => \/ v <= i - 1
                         \/ v = i
                         \/ g.nodes[v].op = "RoundResult" /\ \E j \in 1 .. Len(node.in) : v = i + j
<1>1. /\ pc = "results" /\ k > Len(node.in) /\ k \in Nat
      /\ pc' = "service" /\ job' = job /\ i' = i + Len(node.in)
  BY DEF EmitReshare, IInv, TypeOK
<1>2. i \in 1 .. N /\ N \in Nat /\ Len(node.in) \in Nat /\ Values(g) = 1 .. N
  BY <1>1, Visited, CompiledFacts DEF WalkInv
<1>3. k - 1 = Len(node.in) /\ node.op = "Round" /\ i + k - 1 <= N
  BY <1>1, <1>2 DEF WalkInv, ResultsFollow, IInv, RoundInWalk
<1>4. \A j \in 1 .. Len(node.in) : g.nodes[i + j].op = "RoundResult"
  BY <1>1, <1>3 DEF WalkInv, ResultsFollow
<1>5. ASSUME NEW v \in Values(g), v <= i', ~(v <= i - 1), v # i
      PROVE  g.nodes[v].op = "RoundResult" /\ \E j \in 1 .. Len(node.in) : v = i + j
  <2>1. v - i \in 1 .. Len(node.in) /\ v = i + (v - i)
    BY <1>1, <1>2, <1>5
  <2> QED
    BY <1>4, <2>1
<1> QED
  BY <1>1, <1>2, <1>3, <1>5 DEF node

(* The walk passes a Round and its results, none of which is checked.      *)
LEMMA EmitReshareWalks ==
  ASSUME IInv, WalkInv, EmitReshare
  PROVE  WalkInv'
<1>1. Compiled' /\ g' = g /\ slot' = slot /\ \A v : Checked(v)' = Checked(v)
  BY SkippedNodes, JobStays DEF EmitReshare, WalkInv
<1>2. Passed = i - 1 /\ Passed' = i' /\ pc' = "service"
  BY DEF EmitReshare, Passed
<1>3. \A v \in Values(g) : g.nodes[v].op \in {"Round", "RoundResult"} => Checked(v)
  BY DEF Checked, ArithOps
<1>4. AllChecked'
  BY <1>1, <1>2, <1>3, SkippedNodes DEF AllChecked, WalkInv
<1>5. BanksKept'
  BY <1>1 DEF BanksKept, WalkInv
<1> QED
  BY <1>1, <1>2, <1>4, <1>5 DEF WalkInv, ResultsFollow, AtTheEnd, OutputsChecked

(* A release takes a mapping away and changes no other.                    *)
LEMMA ReleaseWalks ==
  ASSUME IInv, WalkInv, Release
  PROVE  WalkInv'
<1>1. pc = "service" /\ UNCHANGED <<job, pc, i>> /\ g' = g
  BY JobStays DEF Release
<1>2. DOMAIN slot' \subseteq DOMAIN slot /\ \A v \in DOMAIN slot' : slot'[v] = slot[v]
  BY DEF Release, Unmapped
<1>3. BanksKept'
  BY <1>1, <1>2 DEF BanksKept, WalkInv
<1>4. Compiled' /\ AllChecked'
  BY <1>1, NothingPassed DEF Passed
<1> QED
  BY <1>1, <1>3, <1>4 DEF WalkInv, ResultsFollow, AtTheEnd, OutputsChecked

(* The walk is done with the node it leaves.                               *)
LEMMA NextNodeWalks ==
  ASSUME IInv, WalkInv, NextNode
  PROVE  WalkInv'
<1>1. /\ pc = "service" /\ UNCHANGED <<job, slot>> /\ g' = g /\ N' = N /\ i' = i + 1
      /\ pc' = IF i = N THEN "project" ELSE "visit"
  BY JobStays DEF NextNode
<1>2. i \in Nat
  BY <1>1, Visited
<1>3. Passed' = Passed
  BY <1>1, <1>2 DEF Passed
<1>4. Compiled' /\ AllChecked'
  BY <1>1, <1>3, NothingPassed
<1>5. BanksKept'
  BY <1>1 DEF BanksKept, WalkInv
<1> QED
  BY <1>1, <1>4, <1>5 DEF WalkInv, ResultsFollow, AtTheEnd, OutputsChecked

(* The outputs of a finished compilation are in the public or shared bank. *)
LEMMA ProjectWitnessWalks ==
  ASSUME IInv, WalkInv, ProjectWitness
  PROVE  WalkInv'
<1>1. pc = "project" /\ UNCHANGED <<job, i, slot>> /\ g' = g /\ N' = N
  BY JobStays DEF ProjectWitness, Abort
<1>2. CASE Abort("rejected") \/ Abort("panicked")
  BY <1>1, <1>2, AbortWalks
<1>3. CASE /\ \A v \in {g.outputs[j].value : j \in DOMAIN g.outputs} :
                v \in DOMAIN slot /\ slot[v].bank # Local
           /\ pc' = "done"
  <2>1. Compiled' /\ AllChecked'
    BY <1>1, <1>3, NothingPassed DEF Passed
  <2>2. BanksKept'
    BY <1>1 DEF BanksKept, WalkInv
  <2>3. OutputsChecked'
    BY <1>1, <1>3 DEF OutputsChecked, BanksKept, WalkInv
  <2> QED
    BY <1>1, <1>3, <2>1, <2>2, <2>3 DEF WalkInv, ResultsFollow, AtTheEnd
<1> QED
  BY <1>2, <1>3 DEF ProjectWitness, Abort, Resolved

(* Every step of compile keeps what the walk has checked.                  *)
LEMMA NextWalks == IInv /\ WalkInv /\ [Next]_vars => WalkInv'
<1> SUFFICES ASSUME IInv, WalkInv, [Next]_vars PROVE WalkInv'
  OBVIOUS
<1>1. CASE UNCHANGED vars
  <2>1. UNCHANGED <<job, pc, i, k, slot>> /\ g' = g /\ N' = N /\ node' = node
    BY <1>1, JobStays DEF vars, node
  <2>2. Compiled' /\ AllChecked'
    BY <2>1, NothingPassed DEF Passed
  <2> QED
    BY <2>1, <2>2 DEF WalkInv, BanksKept, ResultsFollow, AtTheEnd, OutputsChecked
<1>2. CASE VisitRoundResult
  BY <1>2, AbortWalks DEF VisitRoundResult, Visit
<1>3. CASE ServiceBatch
  BY <1>3, StillWalks DEF ServiceBatch, Passed
<1>4. CASE VisitRound \/ TakeRoundOperand
  BY <1>4, OperandsWalk
<1>5. CASE AllOperandsTaken \/ PlaceRoundResult \/ EmitReshare
  BY <1>5, AllOperandsTakenWalks, PlaceRoundResultWalks, EmitReshareWalks
<1>6. CASE VisitLeaf \/ VisitGadgetResult \/ VisitArith \/ VisitMulLocal \/ VisitGadget
  BY <1>6, VisitLeafWalks, VisitGadgetResultWalks, VisitArithWalks, VisitMulLocalWalks,
     VisitGadgetWalks
<1>7. CASE Reserve \/ Release \/ NextNode \/ ProjectWitness
  BY <1>7, ReserveWalks, ReleaseWalks, NextNodeWalks, ProjectWitnessWalks
<1> QED
  BY <1>1, <1>2, <1>3, <1>4, <1>5, <1>6, <1>7 DEF Next, Step, Finished

(* What the walk has checked holds throughout every compilation.           *)
LEMMA WalkInvariance == Spec => [](IInv /\ WalkInv)
<1>1. Init => IInv /\ WalkInv
  BY InitHolds, WalkStarts
<1>2. IInv /\ WalkInv /\ [Next]_vars => (IInv /\ WalkInv)'
  BY NextKeeps, NextWalks
<1> QED
  BY <1>1, <1>2, PTL DEF Spec

-----------------------------------------------------------------------------
(* What compile emits a program for.                                       *)

(* A checked graph has only rounds reading its local products.             *)
LEMMA CheckedReaders ==
  ASSUME Compiled, \A v \in Values(g) : Checked(v),
         NEW m \in NodesOf(g, "MulLocal"), NEW r \in ReadersOf(g, m)
  PROVE  g.nodes[r].op = "Round"
<1>1. Sound(g) /\ m \in Values(g) /\ g.nodes[m].op = "MulLocal"
  BY CompiledFacts DEF NodesOf
<1>2. job.domain[m] = Local
  <2>1. job.domain[m] = NodeDomain(g, Domains(g), g.nodes[m])
    BY <1>1, DomainFacts, CompiledFacts
  <2> QED
    BY <1>1, <2>1 DEF NodeDomain, ArithOps
<1>3. r \in Values(g) /\ m \in InputsOf(g, r) /\ Checked(r)
  BY DEF ReadersOf
<1>4. g.nodes[r].op \in Ops
  BY <1>1, <1>3, GraphFacts
<1>5. g.nodes[r].op \notin ArithOps /\ g.nodes[r].op # "MulLocal" /\ g.nodes[r].op # "Gadget"
  BY <1>1, <1>2, <1>3 DEF Checked, Shared, Local
<1>6. g.nodes[r].op # "GadgetResult" /\ g.nodes[r].op # "RoundResult"
  BY <1>1, <1>3 DEF Sound, WellFormed, NodesOf
<1>7. g.nodes[r].op \notin LeafOps
  <2> SUFFICES ASSUME g.nodes[r].op \in LeafOps PROVE FALSE
    OBVIOUS
  <2>1. Len(g.nodes[r].in) = 0
    BY <1>1, <1>3, ArityFacts
  <2>2. DOMAIN g.nodes[r].in = 1 .. 0
    BY <1>1, <1>3, <2>1, GraphFacts
  <2> QED
    BY <1>3, <2>2 DEF InputsOf, ToSet
<1> QED
  BY <1>4, <1>5, <1>6, <1>7 DEF Ops

(* A walk that has checked every node has seen a lowered graph.            *)
LEMMA DoneIsLowered == IInv /\ WalkInv => EmitsOnlyLowered
<1> SUFFICES ASSUME IInv, WalkInv, pc = "done"
             PROVE  SecretProductsSplit /\ ProductsAreReshared
  BY DEF EmitsOnlyLowered
<1>1. Compiled /\ N \in Nat /\ Values(g) = 1 .. N /\ i = N + 1
  BY CompiledFacts DEF WalkInv, AtTheEnd
<1>2. \A v \in Values(g) : Checked(v)
  BY <1>1 DEF WalkInv, AllChecked, Passed
<1>3. SecretProductsSplit
  BY <1>2 DEF SecretProductsSplit, NodesOf, Checked
<1>4. ProductsAreReshared
  BY <1>1, <1>2, CheckedReaders DEF ProductsAreReshared, WalkInv, OutputsChecked, NodesOf
<1> QED
  BY <1>3, <1>4

(* Whatever graphs it is given, compile emits a program only for those the *)
(* driver can execute: in every one of them, secret products are split     *)
(* and local products are reshared before anything else reads them.        *)
THEOREM OnlyLoweredEmitted == Spec => []EmitsOnlyLowered
BY WalkInvariance, DoneIsLowered, PTL

-----------------------------------------------------------------------------
(* What the walk keeps. A value exists once its node is passed, except for *)
(* the leaves and the results a Round has just placed; Gadget and Round    *)
(* nodes have no value of their own.                                       *)

Given(v) ==
  \/ g.nodes[v].op \in LeafOps
  \/ v <= Passed /\ g.nodes[v].op \notin {"Gadget", "Round"}
  \/ pc = "results" /\ \E j \in 1 .. (k - 1) : v = i + j

Working == pc \notin {"reserve", "rejected", "panicked"}

OnlyGiven == Working => \A v \in DOMAIN slot : Given(v)

(* A value without a slot has been used for the last time.                 *)
Dead(v) == \E c \in Nat : c <= Passed /\ \A u \in Uses(v) : u <= c

KeptAlive == Working => \A v \in Values(g) : Given(v) /\ v \notin DOMAIN slot => Dead(v)

(* Releases are of nodes already passed.                                   *)
QueueInv ==
  /\ queue \in Seq([value : Nat, current : Nat])
  /\ \A j \in DOMAIN queue : queue[j].current <= Passed
  /\ pc # "service" => queue = <<>>

(* A Round the walk has passed, it has passed with all its results.        *)
RoundsJumped ==
  \A r \in NodesOf(g, "Round") : r <= Passed => r + Len(g.nodes[r].in) <= Passed

AliveInv == OnlyGiven /\ KeptAlive /\ QueueInv /\ RoundsJumped

-----------------------------------------------------------------------------
(* The operands of a batch.                                                *)

(* The elements of two sequences in a row.                                 *)
LEMMA Joined ==
  ASSUME NEW A, NEW s \in Seq(A), NEW t \in Seq(A)
  PROVE  s \o t \in Seq(A) /\ ToSet(s \o t) = ToSet(s) \cup ToSet(t)
<1>1. PICK q : q = s \o t
  OBVIOUS
<1>2. /\ q \in Seq(A) /\ Len(q) = Len(s) + Len(t)
      /\ Len(s) \in Nat /\ DOMAIN s = 1 .. Len(s)
      /\ Len(t) \in Nat /\ DOMAIN t = 1 .. Len(t)
      /\ DOMAIN q = 1 .. (Len(s) + Len(t))
  BY <1>1, LenProperties
<1>3. \A j \in 1 .. Len(s) : q[j] = s[j]
  BY <1>1, <1>2
<1>4. \A j \in 1 .. Len(t) : q[Len(s) + j] = t[j]
  BY <1>1, <1>2
<1>5. ASSUME NEW x \in ToSet(q)
      PROVE  x \in ToSet(s) \cup ToSet(t)
  <2>1. PICK j \in 1 .. (Len(s) + Len(t)) : q[j] = x
    BY <1>2 DEF ToSet
  <2>2. CASE j \in 1 .. Len(s)
    BY <1>2, <1>3, <2>1, <2>2 DEF ToSet
  <2>3. CASE j \notin 1 .. Len(s)
    <3>1. j - Len(s) \in 1 .. Len(t) /\ Len(s) + (j - Len(s)) = j
      BY <1>2, <2>3
    <3>2. t[j - Len(s)] = x
      BY <1>4, <2>1, <3>1
    <3> QED
      BY <1>2, <3>1, <3>2 DEF ToSet
  <2> QED
    BY <2>2, <2>3
<1>6. ASSUME NEW x \in ToSet(s)
      PROVE  x \in ToSet(q)
  <2>1. PICK j \in 1 .. Len(s) : s[j] = x
    BY <1>2 DEF ToSet
  <2>2. j \in DOMAIN q /\ q[j] = x
    BY <1>2, <1>3, <2>1
  <2> QED
    BY <2>2 DEF ToSet
<1>7. ASSUME NEW x \in ToSet(t)
      PROVE  x \in ToSet(q)
  <2>1. PICK j \in 1 .. Len(t) : t[j] = x
    BY <1>2 DEF ToSet
  <2>2. Len(s) + j \in DOMAIN q /\ q[Len(s) + j] = x
    BY <1>2, <1>4, <2>1
  <2> QED
    BY <2>2 DEF ToSet
<1>8. ToSet(q) = ToSet(s) \cup ToSet(t)
  BY <1>5, <1>6, <1>7
<1> QED
  BY <1>1, <1>2, <1>8, Zenon

(* A flattened sequence has the elements of all its parts.                 *)
LEMMA Flattened ==
  ASSUME NEW A, NEW ss \in Seq(Seq(A))
  PROVE  /\ FlattenSeq(ss) \in Seq(A)
         /\ \A j \in DOMAIN ss : ToSet(ss[j]) \subseteq ToSet(FlattenSeq(ss))
<1>1. Len(ss) \in Nat /\ DOMAIN ss = 1 .. Len(ss)
  BY LenProperties
<1>2. CASE Len(ss) = 0
  <2>1. ss = <<>>
    BY <1>2, EmptySeq
  <2>2. FlattenSeq(ss) = <<>>
    BY <1>2, <2>1 DEF FlattenSeq
  <2>3. FlattenSeq(ss) \in Seq(A)
    BY <2>2, EmptySeq, Zenon
  <2>4. DOMAIN ss = {}
    BY <1>1, <1>2
  <2> QED
    BY <2>3, <2>4
<1>3. CASE Len(ss) # 0
  <2> DEFINE last == Len(ss)
             f == CHOOSE h : ObeysFlatten(ss, h, last)
  <2>1. ObeysFlatten(ss, f, last)
    BY <1>1, FlattenRecursionExists
  <2>2. FlattenSeq(ss) = f[last]
    BY <1>3 DEF FlattenSeq, ObeysFlatten, FlattenStep
  <2> HIDE DEF f, last
  <2>3. last \in Nat /\ last # 0 /\ DOMAIN ss = 1 .. last /\ \A j \in 1 .. last : ss[j] \in Seq(A)
    BY <1>1, <1>3, ElementOfSeq DEF last
  <2> DEFINE Good(n) == f[n] \in Seq(A) /\ \A j \in 1 .. n : ToSet(ss[j]) \subseteq ToSet(f[n])
             T == {n \in Nat : n + 1 <= last => Good(n + 1)}
  <2>4. 0 \in T
    <3>1. 1 \in 1 .. last /\ f[1] = ss[1]
      BY <2>1, <2>3 DEF ObeysFlatten, FlattenStep
    <3>2. \A j \in 1 .. 1 : j = 1
      OBVIOUS
    <3>3. Good(1)
      BY <2>3, <3>1, <3>2
    <3>4. 0 + 1 = 1
      OBVIOUS
    <3> HIDE DEF Good
    <3> QED
      BY <3>3, <3>4
  <2>5. ASSUME NEW n \in T
        PROVE  n + 1 \in T
    <3> DEFINE m == n + 1
    <3>0. m \in Nat /\ m - 1 = n
      OBVIOUS
    <3> SUFFICES ASSUME m + 1 <= last PROVE Good(m + 1)
      OBVIOUS
    <3>1. Good(m)
      BY <2>3
    <3>2. m + 1 \in 1 .. last /\ m + 1 # 1 /\ (m + 1) - 1 = m
      BY <2>3
    <3> HIDE DEF m, T
    <3>3. f[m + 1] = f[m] \o ss[m + 1]
      BY <2>1, <3>2 DEF ObeysFlatten, FlattenStep
    <3>4. PICK s : s = f[m]
      OBVIOUS
    <3>5. PICK t : t = ss[m + 1]
      OBVIOUS
    <3>6. s \in Seq(A) /\ t \in Seq(A)
      BY <2>3, <3>1, <3>2, <3>4, <3>5
    <3>7. s \o t \in Seq(A) /\ ToSet(s \o t) = ToSet(s) \cup ToSet(t)
      BY <3>6, Joined
    <3>8. f[m + 1] = s \o t
      BY <3>3, <3>4, <3>5
    <3>9. f[m + 1] \in Seq(A) /\ ToSet(f[m + 1]) = ToSet(s) \cup ToSet(t)
      BY <3>7, <3>8, Zenon
    <3>10. \A j \in 1 .. (m + 1) : j \in 1 .. m \/ j = m + 1
      BY <3>0
    <3> QED
      BY <3>1, <3>4, <3>5, <3>9, <3>10
  <2>6. T = Nat
    <3> HIDE DEF T
    <3>1. T \in SUBSET Nat
      BY DEF T
    <3> QED
      BY <2>4, <2>5, <3>1, NaturalsFrom0
  <2>7. Good(last)
    <3>1. last - 1 \in Nat /\ (last - 1) + 1 = last
      BY <2>3
    <3>2. PICK n \in Nat : n = last - 1
      BY <3>1
    <3>3. n + 1 <= last => Good(n + 1)
      BY <2>6
    <3> HIDE DEF Good, T
    <3>4. n + 1 = last /\ n + 1 <= last
      BY <2>3, <3>1, <3>2
    <3> QED
      BY <3>3, <3>4
  <2> QED
    BY <2>2, <2>3, <2>7
<1> QED
  BY <1>2, <1>3

(* The schedule of the graph being compiled.                               *)
LEMMA PlansScheduled ==
  ASSUME Compiled
  PROVE  Scheduled(g, plans)
BY CompiledFacts, BatchesScheduled

(* A batch reads the operands of each of its sites.                        *)
LEMMA BatchReads ==
  ASSUME Compiled, NEW b \in DOMAIN plans
  PROVE  /\ BatchInputs(b) \in Seq(Nat)
         /\ \A s \in ToSet(plans[b].sites) :
              s \in DOMAIN g.sites /\ InputsOf(g, SiteNode(g, s)) \subseteq ToSet(BatchInputs(b))
<1> DEFINE sites == plans[b].sites
           ss == [j \in DOMAIN sites |-> g.nodes[SiteNode(g, sites[j])].in]
<1>1. Sound(g) /\ sites \in Seq(DOMAIN g.sites)
  BY CompiledFacts, PlansScheduled DEF Scheduled
<1>2. DOMAIN sites = 1 .. Len(sites) /\ Len(sites) \in Nat
      /\ \A j \in DOMAIN sites : sites[j] \in DOMAIN g.sites
  BY <1>1, LenProperties, ElementOfSeq
<1>3. \A j \in DOMAIN sites : ss[j] \in Seq(Nat)
  BY <1>1, <1>2, SiteNodeFacts, GraphFacts
<1>4. ss \in Seq(Seq(Nat))
  <2>1. DOMAIN ss = 1 .. Len(sites) /\ ss = [j \in 1 .. Len(sites) |-> ss[j]]
    BY <1>2
  <2>2. \A j \in 1 .. Len(sites) : ss[j] \in Seq(Nat)
    BY <1>2, <1>3
  <2> HIDE DEF ss, sites
  <2>3. PICK n \in Nat : n = Len(sites)
    BY <1>2
  <2>4. ss = [j \in 1 .. n |-> ss[j]] /\ \A j \in 1 .. n : ss[j] \in Seq(Nat)
    BY <2>1, <2>2, <2>3
  <2>5. ss \in [1 .. n -> Seq(Nat)]
    BY <2>4
  <2> QED
    BY <2>5, SeqDef
<1>5. BatchInputs(b) = FlattenSeq(ss)
  BY DEF BatchInputs
<1> HIDE DEF ss
<1>6. /\ BatchInputs(b) \in Seq(Nat)
      /\ \A j \in DOMAIN ss : ToSet(ss[j]) \subseteq ToSet(BatchInputs(b))
  BY <1>4, <1>5, Flattened
<1>7. DOMAIN ss = DOMAIN sites /\ \A j \in DOMAIN sites : ToSet(ss[j]) = InputsOf(g, SiteNode(g, sites[j]))
  BY DEF ss, InputsOf
<1> QED
  BY <1>2, <1>6, <1>7 DEF ToSet

-----------------------------------------------------------------------------
(* Every step keeps what is alive.                                         *)

(* A step that changes neither what is given nor where it is.              *)
LEMMA SameAlive ==
  ASSUME WalkInv, AliveInv, UNCHANGED <<job, slot>>, Passed' = Passed, QueueInv',
         Working' => Working /\ \A v : Given(v)' = Given(v)
  PROVE  AliveInv'
<1>1. g' = g /\ \A v : Uses(v)' = Uses(v)
  BY JobStays
<1>2. \A v : Dead(v)' = Dead(v)
  BY <1>1 DEF Dead
<1>3. OnlyGiven' /\ KeptAlive'
  BY <1>1, <1>2 DEF OnlyGiven, KeptAlive, AliveInv
<1>4. RoundsJumped'
  BY <1>1 DEF RoundsJumped, AliveInv
<1> QED
  BY <1>3, <1>4 DEF AliveInv

(* What is given by leaves and passed nodes alone.                         *)
LEMMA GivenByWalk ==
  ASSUME UNCHANGED <<job>>, Passed' = Passed,
         pc # "results", pc' # "results" \/ (k' = 1 /\ k' - 1 = 0)
  PROVE  \A v : Given(v)' = Given(v)
<1>1. g' = g
  BY JobStays
<1>2. \A j \in 1 .. 0 : FALSE
  OBVIOUS
<1> QED
  BY <1>1, <1>2 DEF Given

(* Releases the walk is about to make.                                     *)
LEMMA QueueOf ==
  ASSUME NEW values \in Seq(Nat), NEW current \in Nat, current <= Passed', pc' = "service",
         queue' = ReleaseLater(values, current)
  PROVE  QueueInv'
<1>1. Len(values) \in Nat /\ DOMAIN values = 1 .. Len(values)
      /\ \A j \in DOMAIN values : values[j] \in Nat
  BY LenProperties, ElementOfSeq
<1>2. PICK n \in Nat : n = Len(values)
  BY <1>1
<1>3. queue' = [j \in 1 .. n |-> [value |-> values[j], current |-> current]]
  BY <1>1, <1>2 DEF ReleaseLater
<1>4. queue' \in [1 .. n -> [value : Nat, current : Nat]]
  BY <1>1, <1>2, <1>3
<1>5. queue' \in Seq([value : Nat, current : Nat])
  <2>1. PICK A : A = [value : Nat, current : Nat]
    OBVIOUS
  <2>2. PICK q : q = queue'
    OBVIOUS
  <2>3. q \in [1 .. n -> A]
    BY <1>4, <2>1, <2>2
  <2>4. q \in Seq(A)
    BY <2>3, SeqDef
  <2> QED
    BY <2>1, <2>2, <2>4
<1>6. \A j \in DOMAIN queue' : queue'[j].current <= Passed'
  BY <1>3
<1> QED
  BY <1>5, <1>6 DEF QueueInv

(* Nothing is given yet when compile starts.                               *)
LEMMA AliveStarts == Init => AliveInv
<1> SUFFICES ASSUME NEW graph \in Graphs, Begin(graph) PROVE AliveInv
  BY DEF Init
<1>1. pc = "reserve" /\ queue = <<>> /\ i = 1 /\ Compiled
  BY DEF Begin, Compiled
<1>2. Passed = 0 /\ \A v \in Values(g) : ~(v <= 0)
  BY <1>1, CompiledFacts DEF Passed
<1>3. QueueInv
  BY <1>1, EmptySeq DEF QueueInv
<1> QED
  BY <1>1, <1>2, <1>3 DEF AliveInv, OnlyGiven, KeptAlive, Working, RoundsJumped, NodesOf

(* Ending the compilation takes no slot away.                              *)
LEMMA AbortAlive ==
  ASSUME IInv, WalkInv, AliveInv, pc \in {"visit", "operands", "results", "project"},
         NEW outcome \in {"done", "rejected", "panicked"}, Abort(outcome),
         outcome = "done" => pc = "project"
  PROVE  AliveInv'
<1>1. /\ UNCHANGED <<job, slot, queue, i>> /\ Passed' = Passed
      /\ pc' = outcome
  BY DEF Abort, Passed
<1>2. QueueInv'
  BY <1>1 DEF QueueInv, AliveInv
<1>3. CASE outcome = "done"
  <2>1. \A v : Given(v)' = Given(v)
    BY <1>1, <1>3, GivenByWalk
  <2>2. Working' => Working
    BY <1>3 DEF Working
  <2> QED
    BY <1>1, <1>2, <2>1, <2>2, SameAlive
<1>4. CASE outcome # "done"
  <2>1. ~ Working'
    BY <1>1, <1>4 DEF Working
  <2> QED
    BY <1>1, <1>2, <2>1, SameAlive
<1> QED
  BY <1>3, <1>4

(* The leaves get their slots before the walk.                             *)
LEMMA ReserveAlive ==
  ASSUME IInv, WalkInv, AliveInv, Reserve
  PROVE  AliveInv'
<1>1. /\ UNCHANGED <<job, queue, i>> /\ g' = g /\ i = 1 /\ pc = "reserve"
      /\ pc' \in {"rejected", "project", "visit"} /\ Passed' = Passed
  BY JobStays DEF Reserve, IInv, FreshStart, Passed
<1>2. QueueInv'
  BY <1>1 DEF QueueInv, AliveInv
<1>3. RoundsJumped'
  BY <1>1 DEF RoundsJumped, AliveInv
<1>4. ASSUME Working'
      PROVE  OnlyGiven' /\ KeptAlive'
  <2>1. DOMAIN slot' = NodesOf(g, "Constant") \cup NodesOf(g, "Input")
    BY <1>1, <1>4 DEF Reserve, Working
  <2>2. Passed' = 0 /\ \A v \in Values(g) : ~(v <= 0)
    BY <1>1, CompiledFacts DEF WalkInv, Passed
  <2>3. \A v \in Values(g) : Given(v)' => v \in DOMAIN slot'
    BY <1>1, <2>1, <2>2 DEF Given, NodesOf, LeafOps
  <2>4. \A v \in DOMAIN slot' : Given(v)'
    BY <1>1, <2>1 DEF Given, NodesOf, LeafOps
  <2> QED
    BY <1>1, <2>3, <2>4 DEF OnlyGiven, KeptAlive
<1> QED
  BY <1>2, <1>3, <1>4 DEF AliveInv, OnlyGiven, KeptAlive

(* What was dead stays dead.                                               *)
LEMMA DeadStays ==
  ASSUME UNCHANGED job, Passed \in Nat, Passed' \in Nat, Passed <= Passed'
  PROVE  \A v : Dead(v) => Dead(v)'
BY JobStays DEF Dead

(* Steps that are done with the visited node.                              *)
LEMMA NodePassed ==
  ASSUME IInv, WalkInv, AliveInv, pc = "visit", UNCHANGED <<job, i>>, pc' = "service",
         queue' = queue \/ queue' = ReleaseLater(node.in, i),
         \/ DOMAIN slot' = DOMAIN slot \cup {i} /\ node.op \notin {"Gadget", "Round"}
         \/ DOMAIN slot' = DOMAIN slot /\ node.op \in LeafOps \cup {"Gadget"}
  PROVE  AliveInv'
<1>1. g' = g /\ i \in Nat /\ Values(g) = 1 .. N /\ N \in Nat /\ i >= 1
  BY CompiledFacts, Visited, JobStays DEF WalkInv
<1>2. Passed = i - 1 /\ Passed' = i
  BY DEF Passed
<1>3. \A v \in Values(g) : v <= Passed' => v <= Passed \/ v = i
  BY <1>1, <1>2
<1>4. \A v \in Values(g) : v <= Passed => v <= Passed'
  BY <1>1, <1>2
<1>5. QueueInv'
  <2>1. CASE queue' = queue
    <3>1. queue' = <<>>
      BY <2>1 DEF QueueInv, AliveInv
    <3> QED
      BY <3>1, EmptySeq DEF QueueInv
  <2>2. CASE queue' = ReleaseLater(node.in, i)
    BY <1>1, <1>2, <2>2, Visited, QueueOf
  <2> QED
    BY <2>1, <2>2
<1>6. RoundsJumped'
  <2>1. node.op # "Round"
    BY DEF LeafOps
  <2>2. ASSUME NEW r \in NodesOf(g, "Round"), r <= Passed'
        PROVE  r + Len(g.nodes[r].in) <= Passed'
    <3>1. r \in Values(g) /\ r # i
      BY <2>1 DEF NodesOf, node
    <3>2. r + Len(g.nodes[r].in) <= Passed
      BY <1>3, <2>2, <3>1 DEF RoundsJumped, AliveInv
    <3>3. Len(g.nodes[r].in) \in Nat /\ r \in Nat
      BY <3>1, <1>1, CompiledFacts, GraphFacts DEF WalkInv
    <3> QED
      BY <1>1, <1>2, <3>2, <3>3
  <2> QED
    BY <1>1, <2>2 DEF RoundsJumped
<1>7. \A v \in Values(g) :
        Given(v)' <=> Given(v) \/ (v = i /\ node.op \notin {"Gadget", "Round"})
  <2>1. \A v \in Values(g) :
          Given(v) <=> \/ g.nodes[v].op \in LeafOps
                       \/ v <= Passed /\ g.nodes[v].op \notin {"Gadget", "Round"}
    BY DEF Given
  <2>2. \A v \in Values(g) :
          Given(v)' <=> \/ g.nodes[v].op \in LeafOps
                        \/ v <= Passed' /\ g.nodes[v].op \notin {"Gadget", "Round"}
    BY <1>1 DEF Given
  <2>3. i <= Passed'
    BY <1>1, <1>2
  <2> QED
    BY <1>3, <1>4, <2>1, <2>2, <2>3 DEF node
<1>8. \A v : Dead(v) => Dead(v)'
  BY <1>1, <1>2, DeadStays
<1>9. OnlyGiven
  BY DEF AliveInv
<1>10. \A v \in DOMAIN slot : v \in Values(g) /\ Given(v)
  BY <1>9 DEF OnlyGiven, Working, WalkInv, BanksKept
<1>11. \A v \in Values(g) : Given(v) /\ v \notin DOMAIN slot => Dead(v)
  BY DEF AliveInv, KeptAlive, Working
<1>12. i \in Values(g) /\ (node.op \in LeafOps => Given(i))
  BY <1>1, Visited DEF Given, node
<1>13. OnlyGiven'
  BY <1>7, <1>10, <1>12 DEF OnlyGiven
<1>14. KeptAlive'
  <2> SUFFICES ASSUME NEW v \in Values(g), Given(v)', v \notin DOMAIN slot'
               PROVE  Dead(v)'
    BY <1>1 DEF KeptAlive
  <2>1. v \notin DOMAIN slot
    OBVIOUS
  <2>2. Given(v)
    BY <1>7, <1>12
  <2> QED
    BY <1>8, <1>11, <2>1, <2>2
<1> QED
  BY <1>5, <1>6, <1>13, <1>14 DEF AliveInv


(* A result of a Round is given as soon as it is placed.                   *)
LEMMA PlaceRoundResultAlive ==
  ASSUME IInv, WalkInv, AliveInv, PlaceRoundResult
  PROVE  AliveInv'
<1>1. pc = "results" /\ k \in Nat /\ k >= 1
  BY DEF PlaceRoundResult, IInv, TypeOK, RoundInWalk
<1>2. CASE Abort("rejected")
  <2>1. /\ UNCHANGED <<job, slot, queue, i>> /\ Passed' = Passed /\ pc' = "rejected"
    BY <1>1, <1>2 DEF Abort, Passed
  <2>2. QueueInv' /\ ~ Working'
    BY <1>1, <2>1 DEF QueueInv, AliveInv, Working
  <2> QED
    BY <2>1, <2>2, SameAlive
<1>3. CASE /\ ~(i + k > N)
           /\ slot' = Mapped(i + k, Loc(Shared, Fresh(Shared)))
           /\ k' = k + 1
           /\ UNCHANGED <<job, pc, i, queue>>
  <2>1. g' = g /\ Passed' = Passed /\ \A v : Uses(v)' = Uses(v)
    BY <1>3, JobStays DEF Passed
  <2>2. QueueInv' /\ RoundsJumped'
    BY <1>1, <1>3, <2>1 DEF QueueInv, RoundsJumped, AliveInv
  <2>3. \A j : j \in 1 .. (k' - 1) <=> j \in 1 .. (k - 1) \/ j = k
    BY <1>1, <1>3
  <2>4. \A v : Given(v)' <=> Given(v) \/ v = i + k
    BY <1>1, <1>3, <2>1, <2>3 DEF Given
  <2>5. DOMAIN slot' = DOMAIN slot \cup {i + k}
    BY <1>3 DEF Mapped
  <2>6. \A v : Dead(v)' = Dead(v)
    BY <2>1 DEF Dead
  <2>7. Working
    BY <1>1 DEF Working
  <2>8. OnlyGiven'
    BY <2>4, <2>5, <2>7 DEF OnlyGiven, AliveInv
  <2>9. KeptAlive'
    BY <2>1, <2>4, <2>5, <2>6, <2>7 DEF KeptAlive, AliveInv
  <2> QED
    BY <2>2, <2>8, <2>9 DEF AliveInv
<1> QED
  BY <1>2, <1>3 DEF PlaceRoundResult

(* The results skipped are those placed, and may be released.              *)
LEMMA EmitReshareAlive ==
  ASSUME IInv, WalkInv, AliveInv, EmitReshare
  PROVE  AliveInv'
<1>1. /\ pc = "results" /\ k > Len(node.in) /\ k \in Nat
      /\ pc' = "service" /\ i' = i + Len(node.in) /\ UNCHANGED <<job, slot>> /\ g' = g
      /\ queue' = [j \in DOMAIN node.in |-> [value |-> i + j, current |-> i + j]]
  BY JobStays DEF EmitReshare, IInv, TypeOK
<1>2. /\ i \in 1 .. N /\ N \in Nat /\ Len(node.in) \in Nat /\ Values(g) = 1 .. N
      /\ DOMAIN node.in = 1 .. Len(node.in)
  BY <1>1, Visited, CompiledFacts DEF WalkInv
<1>3. Passed = i - 1 /\ Passed' = i'
  BY <1>1 DEF Passed
<1>4. /\ g.nodes[i].op = "Round" /\ k - 1 = Len(node.in)
      /\ \A j \in 1 .. Len(node.in) : g.nodes[i + j].op = "RoundResult"
  <2>1. g.nodes[i].op = "Round"
    BY SkippedNodes
  <2>2. k - 1 <= Len(node.in) /\ \A j \in 1 .. (k - 1) : g.nodes[i + j].op = "RoundResult"
    BY <1>1 DEF WalkInv, ResultsFollow
  <2>3. k - 1 = Len(node.in)
    BY <1>1, <1>2, <2>2
  <2> QED
    BY <2>1, <2>2, <2>3
<1>5. QueueInv'
  <2>1. PICK n \in Nat : n = Len(node.in)
    BY <1>2
  <2>2. PICK A : A = [value : Nat, current : Nat]
    OBVIOUS
  <2>3. PICK q : q = queue'
    OBVIOUS
  <2>4. q = [j \in 1 .. n |-> [value |-> i + j, current |-> i + j]]
    BY <1>1, <1>2, <2>1, <2>3
  <2>5. q \in [1 .. n -> A]
    BY <1>2, <2>2, <2>4
  <2>6. queue' \in Seq([value : Nat, current : Nat])
    BY <2>2, <2>3, <2>5, SeqDef, ZenonT(80)
  <2>7. \A j \in DOMAIN queue' : queue'[j].current <= Passed'
    BY <1>1, <1>2, <1>3, <2>1, <2>3, <2>4
  <2> QED
    BY <1>1, <2>6, <2>7 DEF QueueInv
<1>6. \A v \in Values(g) :
        v <= i' => \/ v <= i - 1
                   \/ v = i
                   \/ g.nodes[v].op = "RoundResult" /\ \E j \in 1 .. Len(node.in) : v = i + j
  BY SkippedNodes
<1>7. RoundsJumped'
  <2> SUFFICES ASSUME NEW r \in NodesOf(g, "Round"), r <= Passed'
               PROVE  r + Len(g.nodes[r].in) <= Passed'
    BY <1>1 DEF RoundsJumped
  <2>1. r \in Values(g) /\ g.nodes[r].op = "Round"
    BY DEF NodesOf
  <2>2. CASE r <= i - 1
    <3>1. r + Len(g.nodes[r].in) <= Passed
      BY <1>3, <2>2 DEF RoundsJumped, AliveInv
    <3>2. Len(g.nodes[r].in) \in Nat /\ r \in Nat
      BY <1>2, <2>1, CompiledFacts, GraphFacts DEF WalkInv
    <3>3. PICK n \in Nat : n = Len(g.nodes[r].in)
      BY <3>2
    <3>4. r + n <= i - 1 /\ i - 1 <= i'
      BY <1>1, <1>2, <1>3, <3>1, <3>3
    <3>5. r + n <= i'
      BY <1>1, <1>2, <3>2, <3>4
    <3> QED
      BY <1>3, <3>3, <3>5
  <2>3. CASE r = i
    BY <1>1, <1>3, <2>3 DEF node
  <2> QED
    BY <1>3, <1>6, <2>1, <2>2, <2>3
<1>8. \A v \in Values(g) : Given(v)' = Given(v)
  <2> SUFFICES ASSUME NEW v \in Values(g) PROVE Given(v)' <=> Given(v)
    BY DEF Given
  <2>1. Given(v)' <=> \/ g.nodes[v].op \in LeafOps
                      \/ v <= i' /\ g.nodes[v].op \notin {"Gadget", "Round"}
    BY <1>1, <1>3 DEF Given
  <2>2. Given(v) <=> \/ g.nodes[v].op \in LeafOps
                     \/ v <= i - 1 /\ g.nodes[v].op \notin {"Gadget", "Round"}
                     \/ \E j \in 1 .. Len(node.in) : v = i + j
    BY <1>1, <1>3, <1>4 DEF Given
  <2>3. v <= i - 1 => v <= i'
    BY <1>1, <1>2
  <2>4. (\E j \in 1 .. Len(node.in) : v = i + j) => v <= i' /\ g.nodes[v].op = "RoundResult"
    BY <1>1, <1>2, <1>4
  <2>5. v <= i' /\ g.nodes[v].op \notin {"Gadget", "Round"} =>
          v <= i - 1 \/ \E j \in 1 .. Len(node.in) : v = i + j
    BY <1>4, <1>6
  <2> QED
    BY <2>1, <2>2, <2>3, <2>4, <2>5
<1>9. \A v : Dead(v) => Dead(v)'
  <2>1. Passed \in Nat /\ Passed' \in Nat /\ Passed <= Passed'
    BY <1>1, <1>2, <1>3
  <2> QED
    BY <1>1, <2>1, DeadStays
<1>10. Working
  BY <1>1 DEF Working
<1>11. \A v \in DOMAIN slot : v \in Values(g) /\ Given(v)
  BY <1>10 DEF OnlyGiven, AliveInv, WalkInv, BanksKept
<1>12. OnlyGiven'
  BY <1>1, <1>8, <1>11 DEF OnlyGiven
<1>13. KeptAlive'
  BY <1>1, <1>8, <1>9, <1>10 DEF KeptAlive, AliveInv
<1> QED
  BY <1>5, <1>7, <1>12, <1>13 DEF AliveInv

(* Taking the first element off a sequence.                                *)
LEMMA Popped ==
  ASSUME NEW A, NEW q \in Seq(A), q # <<>>
  PROVE  /\ Len(q) \in Nat /\ Len(q) >= 1 /\ DOMAIN q = 1 .. Len(q)
         /\ q[1] \in A /\ Head(q) = q[1]
         /\ Tail(q) \in Seq(A) /\ Len(Tail(q)) = Len(q) - 1
         /\ DOMAIN Tail(q) = 1 .. (Len(q) - 1)
         /\ \A j \in 1 .. (Len(q) - 1) : Tail(q)[j] = q[j + 1]
<1>1. Len(q) \in Nat /\ DOMAIN q = 1 .. Len(q) /\ Len(q) # 0
  BY LenProperties, EmptySeq
<1>2. Tail(q) \in Seq(A) /\ Len(Tail(q)) = Len(q) - 1
      /\ \A j \in 1 .. (Len(q) - 1) : Tail(q)[j] = q[j + 1]
  BY HeadTailProperties
<1>3. DOMAIN Tail(q) = 1 .. (Len(q) - 1)
  BY <1>2, LenProperties
<1>4. q[1] \in A /\ Head(q) = q[1]
  BY <1>1, ElementOfSeq, HeadTailProperties
<1> QED
  BY <1>1, <1>2, <1>3, <1>4

(* Only a value used for the last time loses its slot.                     *)
LEMMA ReleaseAlive ==
  ASSUME IInv, WalkInv, AliveInv, Release
  PROVE  AliveInv'
<1>1. /\ pc = "service" /\ queue # <<>> /\ queue' = Tail(queue)
      /\ UNCHANGED <<job, pc, i, k>> /\ g' = g /\ Passed' = Passed
      /\ \A v : Uses(v)' = Uses(v)
  BY JobStays DEF Release, Passed
<1>2. queue \in Seq([value : Nat, current : Nat]) /\ \A j \in DOMAIN queue : queue[j].current <= Passed
  BY DEF QueueInv, AliveInv
<1>3. PICK A : A = [value : Nat, current : Nat]
  OBVIOUS
<1>4. /\ Len(queue) \in Nat /\ Len(queue) >= 1 /\ DOMAIN queue = 1 .. Len(queue)
      /\ queue[1] \in A /\ Head(queue) = queue[1]
      /\ Tail(queue) \in Seq(A) /\ Len(Tail(queue)) = Len(queue) - 1
      /\ DOMAIN Tail(queue) = 1 .. (Len(queue) - 1)
      /\ \A j \in 1 .. (Len(queue) - 1) : Tail(queue)[j] = queue[j + 1]
  BY <1>1, <1>2, <1>3, Popped
<1>5. QueueInv'
  <2>1. \A j \in DOMAIN queue' : j + 1 \in DOMAIN queue /\ queue'[j] = queue[j + 1]
    BY <1>1, <1>4
  <2> QED
    BY <1>1, <1>2, <1>3, <1>4, <2>1 DEF QueueInv
<1>6. RoundsJumped'
  BY <1>1 DEF RoundsJumped, AliveInv
<1>7. \A v : Given(v)' = Given(v) /\ Dead(v)' = Dead(v)
  BY <1>1 DEF Given, Dead
<1>8. Working
  BY <1>1 DEF Working
<1>9. /\ DOMAIN slot' \subseteq DOMAIN slot
      /\ \A v \in DOMAIN slot : v \notin DOMAIN slot' => Dead(v)
  <2> DEFINE u == Head(queue).value
             c == Head(queue).current
  <2>1. CASE Resolved(u) /\ IsLastUse(u, c)
    <3>1. DOMAIN slot' = DOMAIN slot \ {u}
      BY <2>1 DEF Release, Unmapped
    <3>2. c \in Nat /\ c <= Passed
      BY <1>2, <1>3, <1>4
    <3>3. Dead(u)
      BY <2>1, <3>2 DEF Dead, IsLastUse
    <3> QED
      BY <3>1, <3>3
  <2>2. CASE ~(Resolved(u) /\ IsLastUse(u, c))
    <3>1. slot' = slot
      BY <2>2 DEF Release
    <3> QED
      BY <3>1
  <2> QED
    BY <2>1, <2>2
<1>10. OnlyGiven'
  BY <1>7, <1>8, <1>9 DEF OnlyGiven, AliveInv
<1>11. KeptAlive'
  BY <1>1, <1>7, <1>8, <1>9 DEF KeptAlive, AliveInv
<1> QED
  BY <1>5, <1>6, <1>10, <1>11 DEF AliveInv

(* Every step of compile keeps what is alive.                              *)
LEMMA NextAlive == IInv /\ WalkInv /\ AliveInv /\ [Next]_vars => AliveInv'
<1> SUFFICES ASSUME IInv, WalkInv, AliveInv, [Next]_vars PROVE AliveInv'
  OBVIOUS
<1>1. CASE UNCHANGED vars
  <2>1. UNCHANGED <<job, pc, i, k, slot, queue>> /\ g' = g /\ node' = node
    BY <1>1, JobStays DEF vars, node
  <2>2. Passed' = Passed /\ QueueInv' /\ Working' = Working /\ \A v : Given(v)' = Given(v)
    BY <2>1 DEF Passed, QueueInv, AliveInv, Working, Given
  <2> QED
    BY <2>1, <2>2, SameAlive
<1>2. CASE VisitRoundResult
  BY <1>2, AbortAlive DEF VisitRoundResult, Visit
<1>3. CASE ServiceBatch
  <2>1. PICK b \in Pending : queue' = ReleaseLater(BatchInputs(b), i)
    BY <1>3 DEF ServiceBatch
  <2>2. UNCHANGED <<job, pc, i, k, slot>> /\ pc = "service" /\ Passed' = i /\ Passed = i
    BY <1>3 DEF ServiceBatch, Passed
  <2>3. i \in Nat /\ BatchInputs(b) \in Seq(Nat)
    BY <2>2, Visited, BatchReads DEF Pending, WalkInv
  <2>4. QueueInv'
    BY <2>1, <2>2, <2>3, QueueOf
  <2>5. Working' = Working /\ \A v : Given(v)' = Given(v)
    BY <2>2, GivenByWalk DEF Working
  <2> QED
    BY <2>2, <2>4, <2>5, SameAlive
<1>4. CASE VisitRound \/ AllOperandsTaken
  <2>1. UNCHANGED <<job, i, slot, queue>> /\ pc \in {"visit", "operands"}
        /\ pc' \in {"operands", "results"} /\ k' = 1 /\ k' - 1 = 0
    BY <1>4 DEF VisitRound, AllOperandsTaken, Visit
  <2>2. Passed' = Passed /\ QueueInv' /\ Working
    BY <2>1 DEF Passed, QueueInv, AliveInv, Working
  <2>3. \A v : Given(v)' = Given(v)
    BY <2>1, <2>2, GivenByWalk
  <2> QED
    BY <2>1, <2>2, <2>3, SameAlive
<1>5. CASE TakeRoundOperand
  <2>1. CASE Abort("rejected") \/ Abort("panicked")
    BY <1>5, <2>1, AbortAlive DEF TakeRoundOperand
  <2>2. CASE UNCHANGED <<job, pc, i, slot, queue>>
    <3>1. pc = "operands"
      BY <1>5 DEF TakeRoundOperand
    <3>2. Passed' = Passed /\ QueueInv' /\ Working
      BY <2>2, <3>1 DEF Passed, QueueInv, AliveInv, Working
    <3>3. \A v : Given(v)' = Given(v)
      BY <2>2, <3>1, <3>2, GivenByWalk
    <3> QED
      BY <2>2, <3>2, <3>3, SameAlive
  <2> QED
    BY <1>5, <2>1, <2>2 DEF TakeRoundOperand
<1>6. CASE VisitLeaf \/ VisitGadgetResult
  <2>1. pc = "visit" /\ UNCHANGED <<job, i, queue>> /\ pc' = "service"
    BY <1>6 DEF VisitLeaf, VisitGadgetResult, Visit
  <2>2. \/ slot' = slot /\ node.op \in LeafOps
        \/ DOMAIN slot' = DOMAIN slot \cup {i} /\ node.op = "GadgetResult"
    BY <1>6 DEF VisitLeaf, VisitGadgetResult, Visit, Mapped
  <2> QED
    BY <2>1, <2>2, NodePassed
<1>7. CASE VisitArith \/ VisitMulLocal
  <2>1. pc = "visit" /\ node.op \notin {"Gadget", "Round"}
    BY <1>7 DEF VisitArith, VisitMulLocal, Visit, ArithOps
  <2>2. CASE Abort("rejected") \/ Abort("panicked")
    BY <2>1, <2>2, AbortAlive
  <2>3. CASE \E bank, op, a, b : EmitInto(bank, op, a, b)
    <3>1. UNCHANGED <<job, i>> /\ pc' = "service" /\ queue' = ReleaseLater(node.in, i)
          /\ DOMAIN slot' = DOMAIN slot \cup {i}
      BY <2>3 DEF EmitInto, Mapped
    <3> QED
      BY <2>1, <3>1, NodePassed
  <2> QED
    BY <1>7, <2>2, <2>3 DEF VisitArith, VisitMulLocal
<1>8. CASE VisitGadget
  <2>1. pc = "visit" /\ node.op = "Gadget"
    BY <1>8 DEF VisitGadget, Visit
  <2>2. CASE Abort("rejected") \/ Abort("panicked")
    BY <2>1, <2>2, AbortAlive
  <2>3. CASE UNCHANGED <<job, i, slot, queue>> /\ pc' = "service"
    BY <2>1, <2>3, NodePassed
  <2> QED
    BY <1>8, <2>2, <2>3 DEF VisitGadget
<1>9. CASE NextNode
  <2>1. /\ pc = "service" /\ UNCHANGED <<job, slot, queue>> /\ i' = i + 1 /\ queue = <<>>
        /\ pc' \in {"project", "visit"}
    BY <1>9 DEF NextNode
  <2>2. i \in Nat
    BY <2>1, Visited
  <2>3. Passed' = Passed
    BY <2>1, <2>2 DEF Passed
  <2>4. QueueInv'
    BY <2>1, <2>3 DEF QueueInv, AliveInv
  <2>5. Working /\ \A v : Given(v)' = Given(v)
    BY <2>1, <2>3, GivenByWalk DEF Working
  <2> QED
    BY <2>1, <2>3, <2>4, <2>5, SameAlive
<1>10. CASE ProjectWitness
  <2>1. pc = "project" /\ (Abort("panicked") \/ Abort("rejected") \/ Abort("done"))
    BY <1>10 DEF ProjectWitness
  <2> QED
    BY <2>1, AbortAlive
<1>11. CASE Reserve \/ PlaceRoundResult \/ EmitReshare \/ Release
  BY <1>11, ReserveAlive, PlaceRoundResultAlive, EmitReshareAlive, ReleaseAlive
<1> QED
  BY <1>1, <1>2, <1>3, <1>4, <1>5, <1>6, <1>7, <1>8, <1>9, <1>10, <1>11 DEF Next, Step, Finished

(* What is alive has a slot, throughout every compilation.                 *)
LEMMA AliveInvariance == Spec => [](IInv /\ WalkInv /\ AliveInv)
<1>1. Init => IInv /\ WalkInv /\ AliveInv
  BY InitHolds, WalkStarts, AliveStarts
<1>2. IInv /\ WalkInv /\ AliveInv /\ [Next]_vars => (IInv /\ WalkInv /\ AliveInv)'
  BY NextKeeps, NextWalks, NextAlive
<1> QED
  BY <1>1, <1>2, PTL DEF Spec

-----------------------------------------------------------------------------
(* Compiling a lowered graph. In one, only a local product is local.       *)

(* In the order of the nodes: a local value that is no product would be a  *)
(* non-Round reader of a local value.                                      *)
LEMMA LocalsAreProducts ==
  ASSUME Compiled, IsLowered
  PROVE  \A v \in Values(g) : job.domain[v] = Local => g.nodes[v].op = "MulLocal"
<1> DEFINE Right(v) == job.domain[v] = Local => g.nodes[v].op = "MulLocal"
           T == {n \in Nat : \A v \in Values(g) : v <= n => Right(v)}
<1>1. Sound(g) /\ Values(g) = 1 .. N /\ N \in Nat /\ job.domain = Domains(g)
  BY CompiledFacts
<1>2. ASSUME NEW v \in Values(g), \A w \in Values(g) : w < v => Right(w)
      PROVE  Right(v)
  <2> SUFFICES ASSUME job.domain[v] = Local, g.nodes[v].op # "MulLocal" PROVE FALSE
    OBVIOUS
  <2> DEFINE n == g.nodes[v]
  <2>1. NodeDomain(g, job.domain, n) = Local
    BY <1>1, DomainFacts
  <2>2. n.op \in Ops
    BY <1>1, GraphFacts
  <2>3. \A w \in InputsOf(g, v) : w \in Values(g) /\ w < v /\ job.domain[w] \in Domain3
    BY <1>1, OperandFacts, DomainFacts
  <2>4. CASE n.op \in ArithOps \cup {"Gadget"}
    <3>1. NodeDomain(g, job.domain, n) = Join({job.domain[w] : w \in InputsOf(g, v)})
      BY <2>4 DEF NodeDomain, ArithOps, InputsOf
    <3>2. PICK S : S = {job.domain[w] : w \in InputsOf(g, v)}
      OBVIOUS
    <3>3. S \in SUBSET Domain3 /\ Join(S) = Local
      BY <2>1, <2>3, <3>1, <3>2
    <3>4. Local \in S
      BY <3>3, JoinOfDomains
    <3>5. PICK w \in InputsOf(g, v) : job.domain[w] = Local
      BY <3>2, <3>4
    <3>6. w \in NodesOf(g, "MulLocal") /\ v \in ReadersOf(g, w)
      BY <1>2, <2>3, <3>5 DEF NodesOf, ReadersOf
    <3>7. n.op = "Round"
      BY <3>6 DEF IsLowered, ProductsAreReshared
    <3> QED
      BY <2>4, <3>7 DEF ArithOps
  <2>5. CASE n.op = "GadgetResult"
    <3>1. v \in NodesOf(g, "GadgetResult")
      BY <2>5 DEF NodesOf
    <3>2. PICK w \in Values(g) : n.in[1] = w /\ w < v /\ g.nodes[w].op = "Gadget"
      <4>1. n.in = <<SiteNode(g, SiteOf(g, v))>> /\ SiteOf(g, v) \in DOMAIN g.sites
            /\ SiteNode(g, SiteOf(g, v)) < v
        BY <1>1, <3>1, ResultFacts
      <4> QED
        BY <1>1, <4>1, SiteNodeFacts
    <3>3. NodeDomain(g, job.domain, n) = Public \/ NodeDomain(g, job.domain, n) = job.domain[w]
      BY <2>5, <3>2 DEF NodeDomain, ArithOps
    <3>4. job.domain[w] = Local
      BY <2>1, <3>3 DEF Public, Local
    <3> QED
      BY <1>2, <3>2, <3>4
  <2>6. CASE n.op = "Input"
    <3>1. NodeDomain(g, job.domain, n) = SignalDomain(g, n.arg)
      BY <2>6 DEF NodeDomain, ArithOps
    <3> QED
      BY <2>1, <3>1 DEF SignalDomain, Public, Shared, Local
  <2>7. CASE n.op \in {"Constant", "Round", "RoundResult"}
    <3>1. NodeDomain(g, job.domain, n) \in {Public, Shared}
      BY <2>7 DEF NodeDomain, ArithOps
    <3> QED
      BY <2>1, <3>1 DEF Public, Shared, Local
  <2> QED
    BY <2>2, <2>4, <2>5, <2>6, <2>7 DEF Ops, LeafOps
<1> HIDE DEF Right
<1>3. 0 \in T
  BY <1>1
<1>4. ASSUME NEW n \in T
      PROVE  n + 1 \in T
  <2>1. \A v \in Values(g) : v <= n => Right(v)
    OBVIOUS
  <2>2. \A v \in Values(g) : v < n + 1 => v <= n
    BY <1>1
  <2>3. \A v \in Values(g) : v <= n + 1 => v <= n \/ (v = n + 1)
    BY <1>1
  <2>4. n + 1 \in Values(g) => Right(n + 1)
    BY <1>2, <2>1, <2>2
  <2> QED
    BY <2>1, <2>3, <2>4
<1>5. T = Nat
  <2> HIDE DEF T
  <2>1. T \in SUBSET Nat
    BY DEF T
  <2> QED
    BY <1>3, <1>4, <2>1, NaturalsFrom0
<1>6. N \in T /\ \A v \in Values(g) : v <= N
  <2> HIDE DEF T
  <2> QED
    BY <1>1, <1>5
<1>7. \A v \in Values(g) : Right(v)
  BY <1>6
<1> QED
  BY <1>7 DEF Right


(* An operand still has its slot when it is read.                          *)
LEMMA OperandsPresent ==
  ASSUME IInv, WalkInv, AliveInv, IsLowered, pc \in {"visit", "operands"},
         node.op \notin {"GadgetResult", "RoundResult"}
  PROVE  \A w \in InputsOf(g, i) : Resolved(w)
<1> SUFFICES ASSUME NEW w \in InputsOf(g, i), w \notin DOMAIN slot PROVE FALSE
  BY DEF Resolved
<1>1. i \in 1 .. N /\ Values(g) = 1 .. N /\ N \in Nat /\ i \in Nat /\ Passed = i - 1
  BY Visited, CompiledFacts DEF WalkInv, Passed
<1>2. w \in Values(g) /\ w < i /\ w \in Nat
  BY <1>1, VisitedOperands DEF WalkInv
<1>3. g.nodes[w].op \notin {"Gadget", "Round"}
  BY <1>1 DEF IsLowered, ReadThroughResults, node
<1>4. Given(w)
  BY <1>1, <1>2, <1>3 DEF Given
<1>5. Dead(w)
  BY <1>2, <1>4 DEF AliveInv, KeptAlive, Working
<1>6. i \in Uses(w)
  BY <1>1 DEF Uses, ReadersOf
<1> QED
  BY <1>1, <1>5, <1>6 DEF Dead

(* In a lowered graph only rounds read local products.                     *)
LEMMA OperandsShared ==
  ASSUME Compiled, IsLowered, i \in Values(g), node.op # "Round"
  PROVE  \A w \in InputsOf(g, i) : g.nodes[w].op # "MulLocal" /\ job.domain[w] # Local
<1> SUFFICES ASSUME NEW w \in InputsOf(g, i) PROVE g.nodes[w].op # "MulLocal" /\ job.domain[w] # Local
  OBVIOUS
<1>1. w \in Values(g)
  BY CompiledFacts, OperandFacts
<1>2. g.nodes[w].op # "MulLocal"
  BY <1>1 DEF IsLowered, ProductsAreReshared, NodesOf, ReadersOf, node
<1> QED
  BY <1>1, <1>2, LocalsAreProducts

Fine == pc \notin {"rejected", "panicked"}

(* Compile refuses no lowered graph, and never panics on one.              *)
LEMMA NothingFails ==
  ASSUME IInv, WalkInv, AliveInv, IsLowered, Fine, Next
  PROVE  Fine'
<1>1. ASSUME pc \in {"visit", "operands", "results", "service"}
      PROVE  /\ i \in Values(g) /\ Sound(g) /\ Values(g) = 1 .. N /\ N \in Nat
             /\ node.op \in Ops /\ DOMAIN node.in = 1 .. Len(node.in) /\ Len(node.in) \in Nat
             /\ InputsOf(g, i) = {node.in[j] : j \in DOMAIN node.in}
             /\ \A w \in InputsOf(g, i) : w \in Values(g) /\ w < i /\ job.domain[w] \in Domain3
  BY <1>1, Visited, CompiledFacts, OperandFacts, DomainFacts DEF WalkInv, node
<1>2. CASE Reserve
  <2>1. ASSUME NEW s \in DOMAIN g.sites
        PROVE  SiteDomain(s) # Local
    <3>1. SiteNode(g, s) \in Values(g) /\ g.nodes[SiteNode(g, s)].op = "Gadget"
      BY CompiledFacts, SiteNodeFacts DEF WalkInv
    <3> QED
      BY <3>1, LocalsAreProducts DEF SiteDomain, WalkInv
  <2> QED
    BY <1>2, <2>1 DEF Reserve, Fine
<1>3. CASE VisitArith
  <2>1. pc = "visit" /\ node.op \in ArithOps /\ node.op \notin {"Round", "GadgetResult", "RoundResult"}
    BY <1>3 DEF VisitArith, Visit, ArithOps
  <2>2. OperandsResolved
    BY <2>1, OperandsPresent DEF OperandsResolved
  <2>3. ToSet(OperandDomains) = {job.domain[w] : w \in InputsOf(g, i)}
    BY <1>1, <2>1, VisitedOperands DEF WalkInv
  <2>4. \A d \in ToSet(OperandDomains) : d # Local
    BY <1>1, <2>1, <2>3, OperandsShared DEF WalkInv
  <2>5. node.op = "Mul" => \E d \in ToSet(OperandDomains) : d # Shared
    <3> SUFFICES ASSUME node.op = "Mul" PROVE \E w \in InputsOf(g, i) : job.domain[w] # Shared
      BY <2>3
    <3>1. i \in NodesOf(g, "Mul")
      BY <1>1, <2>1 DEF NodesOf, node
    <3>2. PICK w \in InputsOf(g, i) : job.domain[w] = Public
      BY <3>1 DEF IsLowered, SecretProductsSplit
    <3> QED
      BY <3>2 DEF Public, Shared
  <2>6. ~ NoOpcode
    BY <2>4, <2>5 DEF NoOpcode
  <2>7. \E bank, op, a, b : EmitInto(bank, op, a, b)
    BY <1>3, <2>2, <2>6 DEF VisitArith
  <2> QED
    BY <2>7 DEF EmitInto, Fine
<1>4. CASE VisitMulLocal
  <2>1. pc = "visit" /\ node.op = "MulLocal"
    BY <1>4 DEF VisitMulLocal, Visit
  <2>2. OperandsResolved
    BY <2>1, OperandsPresent DEF OperandsResolved
  <2>3. ToSet(OperandDomains) = {job.domain[w] : w \in InputsOf(g, i)}
    BY <1>1, <2>1, VisitedOperands DEF WalkInv
  <2>4. \A d \in ToSet(OperandDomains) : d = Shared
    BY <1>1, <2>1, <2>3 DEF IsLowered, NodesOf, node
  <2>5. \E bank, op, a, b : EmitInto(bank, op, a, b)
    BY <1>4, <2>2, <2>4 DEF VisitMulLocal
  <2> QED
    BY <2>5 DEF EmitInto, Fine
<1>5. CASE VisitGadget
  <2>1. pc = "visit" /\ node.op = "Gadget"
    BY <1>5 DEF VisitGadget, Visit
  <2>2. OperandsResolved
    BY <2>1, OperandsPresent DEF OperandsResolved
  <2>3. \A w \in InputsOf(g, i) : w \in DOMAIN slot /\ g.nodes[w].op # "MulLocal"
    BY <1>1, <2>1, <2>2, OperandsShared DEF OperandsResolved, Resolved, WalkInv
  <2>4. \A w \in InputsOf(g, i) : slot[w].bank # Local
    BY <2>3 DEF BanksKept, WalkInv
  <2> QED
    BY <1>5, <2>2, <2>4 DEF VisitGadget, Fine
<1>6. CASE TakeRoundOperand
  <2>1. pc = "operands" /\ node.op = "Round" /\ k <= Len(node.in) /\ k \in Nat /\ k >= 1
    BY <1>6 DEF TakeRoundOperand, IInv, RoundInWalk, TypeOK
  <2>2. k \in DOMAIN node.in /\ node.in[k] \in InputsOf(g, i)
    BY <1>1, <2>1
  <2>3. node.in[k] \in DOMAIN slot
    BY <2>1, <2>2, OperandsPresent DEF Resolved
  <2>4. node.in[k] \in NodesOf(g, "MulLocal")
    BY <1>1, <2>1, <2>2 DEF IsLowered, NodesOf, node
  <2>5. At(k).bank = Local
    BY <2>3, <2>4 DEF BanksKept, WalkInv, NodesOf, At
  <2> QED
    BY <1>6, <2>3, <2>5 DEF TakeRoundOperand, Resolved, Fine
<1>7. CASE PlaceRoundResult
  <2>1. pc = "results" /\ node.op = "Round" /\ k <= Len(node.in) /\ k \in Nat /\ k >= 1
    BY <1>7 DEF PlaceRoundResult, IInv, RoundInWalk, TypeOK
  <2>2. i \in NodesOf(g, "Round") /\ k \in DOMAIN g.nodes[i].in
    BY <1>1, <2>1 DEF NodesOf, node
  <2>3. i + k <= N /\ g.nodes[i + k] = Node("RoundResult", k - 1, <<i>>)
    BY <2>2 DEF IsLowered
  <2>4. g.nodes[i + k].op = "RoundResult" /\ g.nodes[i + k].arg = k - 1
    BY <2>3 DEF Node
  <2>5. ~(i + k > N)
    BY <1>1, <2>1, <2>3
  <2> QED
    BY <1>7, <2>1, <2>4, <2>5 DEF PlaceRoundResult, Fine
<1>8. CASE VisitRoundResult
  <2>1. pc = "visit" /\ node.op = "RoundResult" /\ Passed = i - 1
    BY <1>8 DEF VisitRoundResult, Visit, Passed
  <2>2. i \in NodesOf(g, "RoundResult")
    BY <1>1, <2>1 DEF NodesOf, node
  <2>3. PICK r : r = node.in[1]
    OBVIOUS
  <2>4. Len(node.in) = 1
    BY <1>1, <2>1, ArityFacts DEF node
  <2>5. r \in InputsOf(g, i)
    BY <1>1, <2>1, <2>3, <2>4
  <2>6. r \in NodesOf(g, "Round") /\ r \in Values(g) /\ r < i
    BY <1>1, <2>1, <2>2, <2>5 DEF Sound, WellFormed
  <2>7. i - r \in DOMAIN g.nodes[r].in
    BY <2>2, <2>3 DEF IsLowered, node
  <2>8. Len(g.nodes[r].in) \in Nat /\ DOMAIN g.nodes[r].in = 1 .. Len(g.nodes[r].in)
    BY <1>1, <2>1, <2>6, GraphFacts
  <2>9. r <= Passed /\ r \in Nat /\ i \in Nat
    BY <1>1, <2>1, <2>6
  <2>10. r + Len(g.nodes[r].in) <= Passed
    BY <2>6, <2>9 DEF AliveInv, RoundsJumped
  <2>11. PICK n \in Nat : n = Len(g.nodes[r].in)
    BY <2>8
  <2>12. i - r <= n /\ r + n <= i - 1
    BY <2>1, <2>7, <2>8, <2>10, <2>11
  <2> QED
    BY <2>9, <2>12
<1>9. CASE ProjectWitness
  <2>1. pc = "project" /\ i = N + 1 /\ Passed = i - 1 /\ N \in Nat /\ Values(g) = 1 .. N
        /\ Sound(g)
    BY <1>9, CompiledFacts DEF ProjectWitness, Passed, WalkInv, AtTheEnd
  <2>2. ASSUME NEW j \in DOMAIN g.outputs, NEW v, v = g.outputs[j].value
        PROVE  v \in DOMAIN slot /\ slot[v].bank # Local
    <3>1. v \in Values(g) /\ g.nodes[v].op \notin {"Gadget", "Round"}
      BY <2>1, <2>2 DEF Sound, WellTyped, Values, IsLowered, ReadThroughResults
    <3>2. Given(v)
      BY <2>1, <3>1 DEF Given
    <3>3. N + 1 \in Uses(v)
      BY <2>2 DEF Uses
    <3>4. ~ Dead(v)
      BY <2>1, <3>3 DEF Dead
    <3>5. v \in DOMAIN slot
      BY <2>1, <3>1, <3>2, <3>4 DEF AliveInv, KeptAlive, Working
    <3>6. g.nodes[v].op # "MulLocal"
      BY <2>2, <3>1 DEF IsLowered, ProductsAreReshared, NodesOf
    <3> QED
      BY <3>5, <3>6 DEF WalkInv, BanksKept
  <2>3. pc' = "done"
    BY <1>9, <2>2 DEF ProjectWitness, Resolved, Abort
  <2> QED
    BY <2>3 DEF Fine
<1>10. CASE Finished \/ NextNode \/ ServiceBatch \/ Release
  BY <1>10 DEF Finished, vars, NextNode, ServiceBatch, Release, Fine
<1>11. CASE VisitLeaf \/ VisitGadgetResult \/ VisitRound \/ AllOperandsTaken \/ EmitReshare
  BY <1>11 DEF VisitLeaf, VisitGadgetResult, VisitRound, AllOperandsTaken, EmitReshare, Fine
<1> QED
  BY <1>2, <1>3, <1>4, <1>5, <1>6, <1>7, <1>8, <1>9, <1>10, <1>11 DEF Next, Step

(* Whatever graphs it is given, compile ends with a program for every      *)
(* lowered one: it neither refuses it nor panics, so no operand has lost   *)
(* its slot when an instruction, a round, a batch or the witness reads it. *)
THEOREM LoweredCompiles == Spec => []CompilesLowered
<1>1. Init => CompilesLowered
  BY DEF Init, Begin, CompilesLowered
<1>2. IInv /\ WalkInv /\ AliveInv /\ CompilesLowered /\ [Next]_vars => CompilesLowered'
  <2> SUFFICES ASSUME IInv, WalkInv, AliveInv, CompilesLowered, [Next]_vars, IsLowered'
               PROVE  pc' \notin {"rejected", "panicked"}
    BY DEF CompilesLowered
  <2>1. job' = job
    BY DEF Next, Step, Finished, vars, Reserve, VisitLeaf, VisitGadgetResult, VisitArith, EmitInto,
       Abort, VisitMulLocal, VisitGadget, VisitRound, TakeRoundOperand, AllOperandsTaken,
       PlaceRoundResult, EmitReshare, VisitRoundResult, Release, ServiceBatch, NextNode,
       ProjectWitness
  <2>2. IsLowered /\ Fine
    BY <2>1, JobStays DEF CompilesLowered, Fine
  <2>3. CASE UNCHANGED vars
    BY <2>2, <2>3 DEF vars, Fine
  <2>4. CASE Next
    BY <2>2, <2>4, NothingFails DEF Fine
  <2> QED
    BY <2>3, <2>4
<1> QED
  BY <1>1, <1>2, AliveInvariance, PTL DEF Spec

-----------------------------------------------------------------------------
(* The batches: when they run, and what they find.                         *)

(* The walk notes the operands of every Gadget node it passes.             *)
SitesNoted ==
  \A v \in NodesOf(g, "Gadget") : v <= Passed => g.nodes[v].arg \in DOMAIN siteIn

NotedOnce ==
  \A s \in DOMAIN siteIn :
    /\ s \in DOMAIN g.sites /\ SiteNode(g, s) <= Passed
    /\ DOMAIN siteIn[s] = DOMAIN g.nodes[SiteNode(g, s)].in

(* The batches emitted are those anchored at nodes passed.                 *)
ServedPassed ==
  \A b \in served : b \in DOMAIN plans /\ plans[b].anchor <= Passed

NoneForgotten ==
  \A b \in DOMAIN plans \ served :
    plans[b].anchor > Passed \/ (pc = "service" /\ plans[b].anchor = i)

(* Nothing is released at an anchor before its batch is emitted.           *)
QuietAtAnchor == pc = "service" /\ Pending # {} => queue = <<>>

ServiceInv ==
  /\ SitesNoted /\ NotedOnce /\ ServedPassed /\ NoneForgotten /\ QuietAtAnchor
  /\ BatchInputsStayAlive

(* The operands noted so far stay where they are.                          *)
InputsStay ==
  \A s \in DOMAIN siteIn : \A w \in InputsOf(g, SiteNode(g, s)) :
    w \in DOMAIN slot => w \in DOMAIN slot' /\ slot'[w] = slot[w]

(* A step that leaves the noted operands where they are, and notes no      *)
(* other, keeps those of the batches to come.                              *)
LEMMA InputsStayAlive ==
  ASSUME Compiled, BatchInputsStayAlive, NotedOnce, InputsStay, UNCHANGED <<job, siteIn>>,
         served \subseteq served'
  PROVE  BatchInputsStayAlive'
<1>1. g' = g /\ plans' = plans /\ Sound(g)
  BY JobStays, CompiledFacts
<1> SUFFICES ASSUME NEW b \in DOMAIN plans \ served,
                    NEW s \in ToSet(plans[b].sites) \cap DOMAIN siteIn,
                    NEW j \in DOMAIN siteIn[s],
                    NEW w, w = g.nodes[SiteNode(g, s)].in[j]
             PROVE  w \in DOMAIN slot' /\ slot'[w] = siteIn[s][j]
  BY <1>1 DEF BatchInputsStayAlive, Resolved
<1>2. w \in DOMAIN slot /\ slot[w] = siteIn[s][j]
  BY DEF BatchInputsStayAlive, Resolved
<1>3. w \in InputsOf(g, SiteNode(g, s))
  <2>1. SiteNode(g, s) \in Values(g) /\ j \in DOMAIN g.nodes[SiteNode(g, s)].in
    BY <1>1, SiteNodeFacts DEF NotedOnce
  <2> QED
    BY <1>1, <2>1, OperandFacts
<1> QED
  BY <1>2, <1>3 DEF InputsStay

(* Steps between two nodes, or within a Round.                             *)
LEMMA SameService ==
  ASSUME WalkInv, ServiceInv, UNCHANGED <<job, served, siteIn>>, Passed' = Passed, InputsStay,
         \/ UNCHANGED <<pc, i, queue>>
         \/ pc # "service" /\ pc' # "service"
  PROVE  ServiceInv'
<1>1. g' = g /\ plans' = plans /\ Compiled
  BY JobStays DEF WalkInv
<1>2. SitesNoted' /\ NotedOnce' /\ ServedPassed'
  BY <1>1 DEF SitesNoted, NotedOnce, ServedPassed, ServiceInv
<1>3. NoneForgotten'
  BY <1>1 DEF NoneForgotten, ServiceInv
<1>4. QuietAtAnchor'
  <2>1. CASE UNCHANGED <<pc, i, queue>>
    <3>1. Pending' = Pending
      BY <1>1, <2>1 DEF Pending
    <3> QED
      BY <2>1, <3>1 DEF QuietAtAnchor, ServiceInv
  <2>2. CASE pc' # "service"
    BY <2>2 DEF QuietAtAnchor
  <2> QED
    BY <2>1, <2>2
<1>5. BatchInputsStayAlive'
  BY <1>1, InputsStayAlive DEF ServiceInv
<1> QED
  BY <1>2, <1>3, <1>4, <1>5 DEF ServiceInv

(* A slot given to a node not passed disturbs no operand noted.            *)
LEMMA MappedAhead ==
  ASSUME WalkInv, NotedOnce, Passed \in Nat, NEW u \in Nat, u > Passed, NEW loc, slot' = Mapped(u, loc)
  PROVE  InputsStay
<1> SUFFICES ASSUME NEW s \in DOMAIN siteIn, NEW w \in InputsOf(g, SiteNode(g, s)), w \in DOMAIN slot
             PROVE  w \in DOMAIN slot' /\ slot'[w] = slot[w]
  BY DEF InputsStay
<1>1. SiteNode(g, s) \in Values(g) /\ SiteNode(g, s) <= Passed /\ Sound(g) /\ Values(g) = 1 .. N
      /\ N \in Nat
  BY CompiledFacts, SiteNodeFacts DEF WalkInv, NotedOnce
<1>2. w < SiteNode(g, s) /\ w \in Values(g)
  BY <1>1, OperandFacts
<1>3. w # u
  BY <1>1, <1>2
<1> QED
  BY <1>3 DEF Mapped

(* The anchor of a batch is a node of its own.                             *)
LEMMA AnchorFacts ==
  ASSUME Compiled
  PROVE  /\ \A b \in DOMAIN plans :
              plans[b].anchor \in Values(g) /\ g.nodes[plans[b].anchor].op = "Gadget"
         /\ \A b, c \in DOMAIN plans : plans[b].anchor = plans[c].anchor => b = c
BY PlansScheduled DEF Scheduled, NodesOf

(* Steps that are done with a node other than a gadget.                    *)
LEMMA OtherNodePassed ==
  ASSUME IInv, WalkInv, ServiceInv, pc = "visit", node.op # "Gadget",
         UNCHANGED <<job, i, served, siteIn>>, pc' = "service", InputsStay
  PROVE  ServiceInv'
<1>1. g' = g /\ plans' = plans /\ Compiled /\ i \in Nat /\ Values(g) = 1 .. N /\ N \in Nat
  BY JobStays, CompiledFacts, Visited DEF WalkInv
<1>2. Passed = i - 1 /\ Passed' = i
  BY DEF Passed
<1>3. \A v \in Values(g) : g.nodes[v].op = "Gadget" /\ v <= Passed' => v <= Passed
  BY <1>1, <1>2 DEF node
<1>4. \A v \in Values(g) : v <= Passed => v <= Passed'
  BY <1>1, <1>2
<1>5. SitesNoted'
  BY <1>1, <1>3 DEF SitesNoted, NodesOf, ServiceInv
<1>6. NotedOnce'
  BY <1>1, <1>4, CompiledFacts, SiteNodeFacts DEF NotedOnce, ServiceInv
<1>7. ServedPassed'
  BY <1>1, <1>4, AnchorFacts DEF ServedPassed, ServiceInv
<1>8. \A b \in DOMAIN plans \ served : plans[b].anchor > Passed /\ plans[b].anchor # i
  BY AnchorFacts, <1>1 DEF NoneForgotten, ServiceInv, node
<1>9. NoneForgotten'
  BY <1>1, <1>2, <1>8, AnchorFacts DEF NoneForgotten
<1>10. QuietAtAnchor'
  BY <1>1, <1>8 DEF QuietAtAnchor, Pending
<1>11. BatchInputsStayAlive'
  BY <1>1, InputsStayAlive DEF ServiceInv
<1> QED
  BY <1>5, <1>6, <1>7, <1>9, <1>10, <1>11 DEF ServiceInv


(* No site is noted and no batch emitted when compile starts.              *)
LEMMA ServiceStarts == Init => ServiceInv
<1> SUFFICES ASSUME NEW graph \in Graphs, Begin(graph) PROVE ServiceInv
  BY DEF Init
<1>1. pc = "reserve" /\ i = 1 /\ served = {} /\ DOMAIN siteIn = {} /\ Compiled
  BY DEF Begin, Compiled
<1>2. Passed = 0 /\ \A v \in Values(g) : v > 0 /\ ~(v <= 0)
  BY <1>1, CompiledFacts DEF Passed
<1>3. \A b \in DOMAIN plans : plans[b].anchor > 0
  BY <1>1, <1>2, AnchorFacts
<1> QED
  BY <1>1, <1>2, <1>3 DEF ServiceInv, SitesNoted, NotedOnce, ServedPassed, NoneForgotten,
     QuietAtAnchor, BatchInputsStayAlive, NodesOf

(* The operands a batch will find after a step.                            *)
LEMMA FoundAgain ==
  ASSUME UNCHANGED <<g, plans, slot, served>>,
         \A b \in DOMAIN plans \ served :
           \A s \in ToSet(plans[b].sites) \cap DOMAIN siteIn' :
             \A j \in DOMAIN siteIn'[s] :
               \A w : w = g.nodes[SiteNode(g, s)].in[j] => w \in DOMAIN slot /\ slot[w] = siteIn'[s][j]
  PROVE  BatchInputsStayAlive'
BY DEF BatchInputsStayAlive, Resolved

(* The walk notes where the operands of a site are, at its node.           *)
LEMMA VisitGadgetServes ==
  ASSUME IInv, WalkInv, AliveInv, ServiceInv, pc = "visit", node.op = "Gadget", OperandsResolved,
         UNCHANGED <<job, i, slot, queue, served>>, pc' = "service",
         siteIn' = [s \in DOMAIN siteIn \cup {node.arg} |->
                      IF s = node.arg THEN [j \in DOMAIN node.in |-> At(j)] ELSE siteIn[s]]
  PROVE  ServiceInv'
<1>1. g' = g /\ plans' = plans /\ Compiled /\ Sound(g)
      /\ i \in Nat /\ i \in Values(g) /\ Values(g) = 1 .. N /\ N \in Nat
  BY JobStays, CompiledFacts, Visited DEF WalkInv
<1>2. Passed = i - 1 /\ Passed' = i
  BY DEF Passed
<1>3. \A v \in Values(g) : v <= Passed' => v <= Passed \/ v = i
  BY <1>1, <1>2
<1>4. \A v \in Values(g) : v <= Passed => v <= Passed'
  BY <1>1, <1>2
<1>5. node.arg \in DOMAIN g.sites /\ SiteNode(g, node.arg) = i
  BY <1>1, SiteNodeFacts DEF NodesOf, node
<1>6. /\ DOMAIN siteIn' = DOMAIN siteIn \cup {node.arg}
      /\ siteIn'[node.arg] = [j \in DOMAIN node.in |-> At(j)]
      /\ \A s \in DOMAIN siteIn : s # node.arg => siteIn'[s] = siteIn[s]
  OBVIOUS
<1>7. SitesNoted'
  BY <1>1, <1>3, <1>6 DEF SitesNoted, NodesOf, ServiceInv, node
<1>8. NotedOnce'
  <2> SUFFICES ASSUME NEW s \in DOMAIN siteIn'
               PROVE  /\ s \in DOMAIN g.sites /\ SiteNode(g, s) <= Passed'
                      /\ DOMAIN siteIn'[s] = DOMAIN g.nodes[SiteNode(g, s)].in
    BY <1>1 DEF NotedOnce
  <2>1. CASE s = node.arg
    BY <1>1, <1>2, <1>5, <1>6, <2>1 DEF node
  <2>2. CASE s # node.arg
    <3>1. s \in DOMAIN siteIn /\ siteIn'[s] = siteIn[s]
      BY <1>6, <2>2
    <3>2. s \in DOMAIN g.sites /\ SiteNode(g, s) <= Passed
          /\ DOMAIN siteIn[s] = DOMAIN g.nodes[SiteNode(g, s)].in
      BY <3>1 DEF NotedOnce, ServiceInv
    <3>3. SiteNode(g, s) \in Values(g)
      BY <1>1, <3>2, SiteNodeFacts
    <3> QED
      BY <1>4, <3>1, <3>2, <3>3
  <2> QED
    BY <2>1, <2>2
<1>9. ServedPassed'
  BY <1>1, <1>4, AnchorFacts DEF ServedPassed, ServiceInv
<1>10. NoneForgotten'
  <2>1. \A b \in DOMAIN plans \ served : plans[b].anchor > Passed /\ plans[b].anchor \in Values(g)
    BY <1>1, AnchorFacts DEF NoneForgotten, ServiceInv
  <2> QED
    BY <1>1, <1>2, <2>1 DEF NoneForgotten
<1>11. QuietAtAnchor'
  BY DEF QuietAtAnchor, QueueInv, AliveInv
<1>12. ASSUME NEW b \in DOMAIN plans \ served,
              NEW s \in ToSet(plans[b].sites) \cap DOMAIN siteIn',
              NEW j \in DOMAIN siteIn'[s],
              NEW w, w = g.nodes[SiteNode(g, s)].in[j]
       PROVE  w \in DOMAIN slot /\ slot[w] = siteIn'[s][j]
  <2>1. CASE s = node.arg
    <3>1. j \in DOMAIN node.in /\ w = node.in[j] /\ siteIn'[s][j] = At(j)
      BY <1>5, <1>6, <1>12, <2>1 DEF node
    <3>2. w \in InputsOf(g, i)
      BY <1>1, <3>1, OperandFacts DEF node
    <3> QED
      BY <3>1, <3>2 DEF OperandsResolved, Resolved, At
  <2>2. CASE s # node.arg
    BY <1>6, <1>12, <2>2 DEF BatchInputsStayAlive, Resolved, ServiceInv
  <2> QED
    BY <2>1, <2>2
<1>13. BatchInputsStayAlive'
  BY <1>1, <1>12, FoundAgain
<1> QED
  BY <1>7, <1>8, <1>9, <1>10, <1>11, <1>13 DEF ServiceInv

(* No gadget is among the nodes a Round skips.                             *)
LEMMA EmitReshareServes ==
  ASSUME IInv, WalkInv, ServiceInv, EmitReshare
  PROVE  ServiceInv'
<1>1. /\ UNCHANGED <<job, slot, served, siteIn>> /\ pc' = "service" /\ pc = "results"
      /\ g' = g /\ plans' = plans /\ Compiled
  BY JobStays DEF EmitReshare, WalkInv
<1>2. /\ i \in Nat /\ i' \in Nat /\ i <= i' /\ Values(g) = 1 .. N /\ N \in Nat
      /\ Passed = i - 1 /\ Passed' = i'
  BY <1>1, SkippedNodes, CompiledFacts DEF WalkInv, Passed
<1>3. \A v \in Values(g) : g.nodes[v].op = "Gadget" /\ v <= i' => v <= i - 1
  BY SkippedNodes
<1>4. \A v \in Values(g) : v <= Passed => v <= Passed'
  BY <1>2
<1>5. SitesNoted'
  BY <1>1, <1>2, <1>3 DEF SitesNoted, NodesOf, ServiceInv
<1>6. NotedOnce'
  BY <1>1, <1>4, CompiledFacts, SiteNodeFacts DEF NotedOnce, ServiceInv
<1>7. ServedPassed'
  BY <1>1, <1>4, AnchorFacts DEF ServedPassed, ServiceInv
<1>8. \A b \in DOMAIN plans \ served : plans[b].anchor > i' /\ plans[b].anchor # i'
  <2>1. \A b \in DOMAIN plans \ served : plans[b].anchor > i - 1 /\ ~(plans[b].anchor <= i')
    BY <1>1, <1>2, <1>3, AnchorFacts DEF NoneForgotten, ServiceInv
  <2> QED
    BY <1>1, <1>2, <2>1, AnchorFacts
<1>9. NoneForgotten' /\ QuietAtAnchor'
  BY <1>1, <1>2, <1>8 DEF NoneForgotten, QuietAtAnchor, Pending
<1>10. BatchInputsStayAlive'
  BY <1>1, InputsStayAlive DEF InputsStay, ServiceInv
<1> QED
  BY <1>5, <1>6, <1>7, <1>9, <1>10 DEF ServiceInv

(* No release takes an operand of a batch still to come.                   *)
LEMMA ReleaseServes ==
  ASSUME IInv, WalkInv, AliveInv, ServiceInv, Release
  PROVE  ServiceInv'
<1> DEFINE u == Head(queue).value
           c == Head(queue).current
<1>1. /\ UNCHANGED <<job, pc, i, served, siteIn>> /\ pc = "service" /\ queue # <<>>
      /\ g' = g /\ plans' = plans /\ Compiled /\ Sound(g) /\ Passed' = Passed /\ Passed = i
      /\ Pending' = Pending
  BY JobStays, CompiledFacts DEF Release, WalkInv, Passed, Pending
<1>2. SitesNoted' /\ NotedOnce' /\ ServedPassed' /\ NoneForgotten'
  BY <1>1 DEF SitesNoted, NotedOnce, ServedPassed, NoneForgotten, ServiceInv
<1>3. Pending = {}
  BY <1>1 DEF QuietAtAnchor, ServiceInv
<1>4. QuietAtAnchor'
  BY <1>1, <1>3 DEF QuietAtAnchor
<1>5. c \in Nat /\ c <= i
  <2>1. PICK A : A = [value : Nat, current : Nat]
    OBVIOUS
  <2>2. queue \in Seq(A)
    BY <2>1 DEF AliveInv, QueueInv
  <2>3. 1 \in DOMAIN queue /\ Head(queue) = queue[1] /\ queue[1] \in A
    BY <1>1, <2>2, Popped
  <2> QED
    BY <1>1, <2>1, <2>3 DEF AliveInv, QueueInv
<1> HIDE DEF u, c
<1>6. ASSUME NEW b \in DOMAIN plans \ served,
             NEW s \in ToSet(plans[b].sites) \cap DOMAIN siteIn,
             NEW w \in InputsOf(g, SiteNode(g, s))
      PROVE  ~ IsLastUse(w, c)
  <2>1. w \in ToSet(BatchInputs(b))
    BY <1>1, BatchReads
  <2>2. plans[b].anchor \in Uses(w)
    BY <2>1 DEF Uses
  <2>3. plans[b].anchor > i /\ plans[b].anchor \in Nat
    BY <1>1, <1>3, AnchorFacts, CompiledFacts DEF NoneForgotten, ServiceInv, Pending
  <2>4. i \in Nat
    BY <1>1, Visited
  <2>5. ~(plans[b].anchor <= c)
    BY <1>5, <2>3, <2>4
  <2> QED
    BY <2>2, <2>5 DEF IsLastUse
<1>7. \/ slot' = slot
      \/ IsLastUse(u, c) /\ slot' = Unmapped(u)
  BY DEF Release, u, c
<1>8. BatchInputsStayAlive'
  <2> SUFFICES ASSUME NEW b \in DOMAIN plans \ served,
                      NEW s \in ToSet(plans[b].sites) \cap DOMAIN siteIn,
                      NEW j \in DOMAIN siteIn[s],
                      NEW w, w = g.nodes[SiteNode(g, s)].in[j]
               PROVE  w \in DOMAIN slot' /\ slot'[w] = siteIn[s][j]
    BY <1>1 DEF BatchInputsStayAlive, Resolved
  <2>1. w \in DOMAIN slot /\ slot[w] = siteIn[s][j]
    BY DEF BatchInputsStayAlive, Resolved, ServiceInv
  <2>2. w \in InputsOf(g, SiteNode(g, s))
    <3>1. SiteNode(g, s) \in Values(g) /\ j \in DOMAIN g.nodes[SiteNode(g, s)].in
      BY <1>1, SiteNodeFacts DEF NotedOnce, ServiceInv
    <3> QED
      BY <1>1, <3>1, OperandFacts
  <2>3. ~ IsLastUse(w, c)
    BY <1>6, <2>2
  <2> QED
    BY <1>7, <2>1, <2>3 DEF Unmapped
<1> QED
  BY <1>2, <1>4, <1>8 DEF ServiceInv

(* The one batch of an anchor is emitted there.                            *)
LEMMA ServiceBatchServes ==
  ASSUME IInv, WalkInv, ServiceInv, ServiceBatch
  PROVE  ServiceInv'
<1>1. /\ UNCHANGED <<job, pc, i, slot, siteIn>> /\ pc = "service"
      /\ g' = g /\ plans' = plans /\ Compiled /\ Passed' = Passed /\ Passed = i
  BY JobStays DEF ServiceBatch, WalkInv, Passed
<1>2. PICK b \in Pending : served' = served \cup {b}
  BY DEF ServiceBatch
<1>3. b \in DOMAIN plans /\ plans[b].anchor = i /\ i \in Nat
  BY <1>1, Visited DEF Pending
<1>4. SitesNoted' /\ NotedOnce'
  BY <1>1 DEF SitesNoted, NotedOnce, ServiceInv
<1>5. ServedPassed'
  BY <1>1, <1>2, <1>3 DEF ServedPassed, ServiceInv
<1>6. NoneForgotten'
  BY <1>1, <1>2 DEF NoneForgotten, ServiceInv
<1>7. Pending' = {}
  BY <1>1, <1>2, <1>3, AnchorFacts DEF Pending
<1>8. QuietAtAnchor'
  BY <1>7 DEF QuietAtAnchor
<1>9. BatchInputsStayAlive'
  BY <1>1, <1>2, InputsStayAlive DEF InputsStay, ServiceInv
<1> QED
  BY <1>4, <1>5, <1>6, <1>8, <1>9 DEF ServiceInv

(* The walk leaves no anchor before its batch is emitted.                  *)
LEMMA NextNodeServes ==
  ASSUME IInv, WalkInv, ServiceInv, NextNode
  PROVE  ServiceInv'
<1>1. /\ UNCHANGED <<job, slot, served, siteIn>> /\ pc = "service" /\ pc' # "service"
      /\ Pending = {} /\ i' = i + 1 /\ g' = g /\ plans' = plans /\ Compiled
  BY JobStays DEF NextNode, WalkInv
<1>2. i \in Nat
  BY <1>1, Visited
<1>3. Passed' = i /\ Passed = i
  BY <1>1, <1>2 DEF Passed
<1>4. SitesNoted' /\ NotedOnce' /\ ServedPassed'
  BY <1>1, <1>3 DEF SitesNoted, NotedOnce, ServedPassed, ServiceInv
<1>5. NoneForgotten'
  BY <1>1, <1>3 DEF NoneForgotten, Pending, ServiceInv
<1>6. QuietAtAnchor'
  BY <1>1 DEF QuietAtAnchor
<1>7. BatchInputsStayAlive'
  BY <1>1, InputsStayAlive DEF InputsStay, ServiceInv
<1> QED
  BY <1>4, <1>5, <1>6, <1>7 DEF ServiceInv

(* Before the walk no operand has been noted.                              *)
LEMMA ReserveServes ==
  ASSUME IInv, WalkInv, ServiceInv, Reserve
  PROVE  ServiceInv'
<1>1. /\ UNCHANGED <<job, i, served, siteIn>> /\ pc = "reserve" /\ i = 1
      /\ pc' \in {"rejected", "project", "visit"} /\ Passed' = Passed /\ Passed = 0
  BY DEF Reserve, IInv, FreshStart, Passed
<1>2. DOMAIN siteIn = {}
  <2> SUFFICES ASSUME NEW s \in DOMAIN siteIn PROVE FALSE
    OBVIOUS
  <2>1. SiteNode(g, s) \in Values(g) /\ SiteNode(g, s) <= 0 /\ Values(g) = 1 .. N /\ N \in Nat
    BY <1>1, CompiledFacts, SiteNodeFacts DEF WalkInv, ServiceInv, NotedOnce
  <2> QED
    BY <2>1
<1> QED
  BY <1>1, <1>2, SameService DEF InputsStay

(* Every step of compile keeps what batches need.                          *)
LEMMA NextServes == IInv /\ WalkInv /\ AliveInv /\ ServiceInv /\ [Next]_vars => ServiceInv'
<1> SUFFICES ASSUME IInv, WalkInv, AliveInv, ServiceInv, [Next]_vars PROVE ServiceInv'
  OBVIOUS
<1>0. ASSUME UNCHANGED slot
      PROVE  InputsStay
  BY <1>0 DEF InputsStay
<1>1. CASE UNCHANGED vars
  BY <1>0, <1>1, SameService DEF vars, Passed
<1>2. ASSUME NEW outcome \in {"done", "rejected", "panicked"}, Abort(outcome), pc # "service"
      PROVE  ServiceInv'
  BY <1>0, <1>2, SameService DEF Abort, Passed
<1>3. CASE VisitRoundResult
  BY <1>2, <1>3 DEF VisitRoundResult, Visit
<1>4. CASE VisitRound \/ AllOperandsTaken
  BY <1>0, <1>4, SameService DEF VisitRound, AllOperandsTaken, Visit, Passed
<1>5. CASE TakeRoundOperand
  <2>1. pc = "operands"
    BY <1>5 DEF TakeRoundOperand
  <2>2. CASE Abort("rejected") \/ Abort("panicked")
    BY <1>2, <2>1, <2>2
  <2>3. CASE UNCHANGED <<job, pc, i, slot, queue, served, siteIn>>
    BY <1>0, <2>1, <2>3, SameService DEF Passed
  <2> QED
    BY <1>5, <2>2, <2>3 DEF TakeRoundOperand
<1>6. CASE PlaceRoundResult
  <2>1. pc = "results" /\ k \in Nat /\ k >= 1
    BY <1>6 DEF PlaceRoundResult, IInv, TypeOK, RoundInWalk
  <2>2. CASE Abort("rejected")
    BY <1>2, <2>1, <2>2
  <2>3. CASE /\ UNCHANGED <<job, pc, i, queue, served, siteIn>>
             /\ slot' = Mapped(i + k, Loc(Shared, Fresh(Shared)))
    <3>1. i \in Nat /\ i >= 1 /\ Passed = i - 1
      BY <2>1, Visited DEF Passed
    <3>2. PICK u \in Nat : u = i + k
      BY <2>1, <3>1
    <3>3. u > Passed /\ Passed \in Nat /\ slot' = Mapped(u, Loc(Shared, Fresh(Shared)))
      BY <2>1, <2>3, <3>1, <3>2
    <3>4. InputsStay
      BY <3>3, MappedAhead DEF ServiceInv
    <3> QED
      BY <2>1, <2>3, <3>4, SameService DEF Passed
  <2> QED
    BY <1>6, <2>2, <2>3 DEF PlaceRoundResult
<1>7. ASSUME pc = "visit", NEW loc, slot' = Mapped(i, loc)
      PROVE  InputsStay
  <2>1. i \in Nat /\ Passed \in Nat /\ i > Passed
    BY <1>7, Visited DEF Passed
  <2> QED
    BY <1>7, <2>1, MappedAhead DEF ServiceInv
<1>8. CASE VisitLeaf \/ VisitGadgetResult
  <2>1. /\ pc = "visit" /\ node.op # "Gadget" /\ pc' = "service"
        /\ UNCHANGED <<job, i, served, siteIn>>
        /\ slot' = slot \/ slot' = Mapped(i, Home(i))
    BY <1>8 DEF VisitLeaf, VisitGadgetResult, Visit, LeafOps
  <2> QED
    BY <1>0, <1>7, <2>1, OtherNodePassed
<1>9. CASE VisitArith \/ VisitMulLocal
  <2>1. pc = "visit" /\ node.op # "Gadget"
    BY <1>9 DEF VisitArith, VisitMulLocal, Visit, ArithOps
  <2>2. CASE Abort("rejected") \/ Abort("panicked")
    BY <1>2, <2>1, <2>2
  <2>3. CASE \E bank, op, a, b : EmitInto(bank, op, a, b)
    <3>1. PICK loc : slot' = Mapped(i, loc)
      BY <2>3 DEF EmitInto
    <3>2. UNCHANGED <<job, i, served, siteIn>> /\ pc' = "service"
      BY <2>3 DEF EmitInto
    <3> QED
      BY <1>7, <2>1, <3>1, <3>2, OtherNodePassed
  <2> QED
    BY <1>9, <2>2, <2>3 DEF VisitArith, VisitMulLocal
<1>10. CASE VisitGadget
  <2>1. pc = "visit" /\ node.op = "Gadget"
    BY <1>10 DEF VisitGadget, Visit
  <2>2. CASE Abort("rejected") \/ Abort("panicked")
    BY <1>2, <2>1, <2>2
  <2>3. CASE ~ (Abort("rejected") \/ Abort("panicked"))
    BY <1>10, <2>1, <2>3, VisitGadgetServes DEF VisitGadget
  <2> QED
    BY <2>2, <2>3
<1>11. CASE ProjectWitness
  BY <1>2, <1>11 DEF ProjectWitness
<1>12. CASE Reserve \/ EmitReshare \/ Release \/ ServiceBatch \/ NextNode
  BY <1>12, ReserveServes, EmitReshareServes, ReleaseServes, ServiceBatchServes, NextNodeServes
<1> QED
  BY <1>1, <1>3, <1>4, <1>5, <1>6, <1>8, <1>9, <1>10, <1>11, <1>12 DEF Next, Step, Finished

(* The batches are as they should be, throughout every compilation.        *)
LEMMA ServiceInvariance == Spec => [](IInv /\ WalkInv /\ AliveInv /\ ServiceInv)
<1>1. IInv /\ WalkInv /\ AliveInv /\ ServiceInv /\ [Next]_vars => ServiceInv'
  BY NextServes
<1> QED
  BY <1>1, ServiceStarts, AliveInvariance, PTL DEF Spec

(* For every graph: between the node where a site's operands are noted and *)
(* the anchor where its batch reads them, whatever is released, reused or  *)
(* allocated, every operand stays mapped, and mapped to the slot noted.    *)
THEOREM OperandsKeptForBatches == Spec => []BatchInputsStayAlive
<1>1. ServiceInv => BatchInputsStayAlive
  BY DEF ServiceInv
<1> QED
  BY <1>1, ServiceInvariance, PTL

(* What the invariant and the schedule say of the batches emitted.         *)
LEMMA InTime == IInv /\ WalkInv /\ ServiceInv => ServedInTime
<1> SUFFICES ASSUME IInv, WalkInv, ServiceInv PROVE ServedInTime
  OBVIOUS
<1>0. Compiled /\ Sound(g) /\ Values(g) = 1 .. N /\ N \in Nat /\ Scheduled(g, plans)
  BY CompiledFacts, PlansScheduled DEF WalkInv
<1>1. ASSUME NEW b \in served, NEW s \in ToSet(plans[b].sites)
      PROVE  s \in DOMAIN siteIn
  <2>1. b \in DOMAIN plans /\ plans[b].anchor <= Passed
    BY DEF ServiceInv, ServedPassed
  <2>2. s \in DOMAIN g.sites /\ SiteNode(g, s) <= plans[b].anchor
    BY <1>0, <2>1, BatchReads DEF Scheduled
  <2>3. SiteNode(g, s) \in NodesOf(g, "Gadget") /\ g.nodes[SiteNode(g, s)].arg = s
        /\ SiteNode(g, s) \in Nat
    BY <1>0, <2>2, SiteNodeFacts
  <2>4. plans[b].anchor \in Nat /\ Passed \in Int
    BY <1>0, <2>1, AnchorFacts DEF Passed, IInv, TypeOK
  <2>5. SiteNode(g, s) <= Passed
    BY <2>1, <2>2, <2>3, <2>4
  <2> QED
    BY <2>3, <2>5 DEF ServiceInv, SitesNoted
<1>2. ASSUME pc = "visit", NEW w \in InputsOf(g, i), g.nodes[w].op = "GadgetResult"
      PROVE  \E b \in DOMAIN plans :
               /\ SiteOf(g, w) \in ToSet(plans[b].sites) \cup ToSet(plans[b].reveals)
               /\ b \in served \/ (node.op = "Gadget" /\ node.arg \in ToSet(plans[b].reveals))
  <2>1. i \in Values(g) /\ i \in Nat /\ Passed = i - 1
    BY <1>0, <1>2, Visited DEF Passed
  <2>2. w \in NodesOf(g, "GadgetResult") /\ i \in ReadersOf(g, w)
    BY <1>0, <1>2, <2>1, OperandFacts DEF NodesOf, ReadersOf
  <2>3. PICK b \in DOMAIN plans :
          /\ SiteOf(g, w) \in ToSet(plans[b].sites) \cup ToSet(plans[b].reveals)
          /\ \/ plans[b].anchor < i
             \/ g.nodes[i].op = "Gadget" /\ g.nodes[i].arg \in ToSet(plans[b].reveals)
    BY <1>0, <2>2 DEF Scheduled
  <2>4. plans[b].anchor < i => b \in served
    BY <1>0, <1>2, <2>1, AnchorFacts DEF ServiceInv, NoneForgotten
  <2> QED
    BY <2>3, <2>4 DEF node
<1>3. ASSUME pc = "done"
      PROVE  served = DOMAIN plans
  <2>1. Passed = N
    BY <1>0, <1>3 DEF Passed, WalkInv, AtTheEnd
  <2>2. \A b \in DOMAIN plans : ~(plans[b].anchor > Passed)
    BY <1>0, <2>1, AnchorFacts
  <2> QED
    BY <1>3, <2>2 DEF ServiceInv, ServedPassed, NoneForgotten
<1> QED
  BY <1>1, <1>2, <1>3 DEF ServedInTime

(* For every graph, with the schedule the batch planner makes of it: a     *)
(* batch is emitted after all its sites' nodes and before any node reads a *)
(* result of its, fused or not, and every batch is emitted.                *)
THEOREM BatchesServedInTime == Spec => []ServedInTime
BY ServiceInvariance, InTime, PTL

-----------------------------------------------------------------------------
(* No slot leaks. The account of a bank: what it minted is held or free.   *)

Base(bank) == IF bank = Local THEN 0 ELSE ReservedEnd(bank)

Balanced(bank) == next[bank] - Base(bank) = Len(free[bank]) + Cardinality(Holders(bank))

Balance == Working /\ IsLowered => \A bank \in Banks : Balanced(bank)

(* Round r has taken its j-th operand.                                     *)
Taken(r, j) == r < i \/ (r = i /\ (pc = "results" \/ (pc = "operands" /\ j < k)))

(* A product is spent once a Round has taken it.                           *)
LEMMA SpentIsTaken ==
  Spent = {m \in NodesOf(g, "MulLocal") :
             \E r \in NodesOf(g, "Round") : \E j \in DOMAIN g.nodes[r].in :
               g.nodes[r].in[j] = m /\ Taken(r, j)}
BY DEF Spent, Taken

(* The products spent are the same if no Round takes another.              *)
LEMMA SpentStays ==
  ASSUME job' = job,
         \A r \in NodesOf(g, "Round") : \A j \in DOMAIN g.nodes[r].in : Taken(r, j)' = Taken(r, j)
  PROVE  Spent' = Spent
<1>1. g' = g
  BY JobStays
<1>2. Spent' = {m \in NodesOf(g, "MulLocal") :
             \E r \in NodesOf(g, "Round") : \E j \in DOMAIN g.nodes[r].in :
               g.nodes[r].in[j] = m /\ Taken(r, j)'}
  BY <1>1 DEF Spent, Taken
<1> QED
  BY <1>2, SpentIsTaken

(* The numbers of the account.                                             *)
LEMMA AccountTypes ==
  ASSUME TypeOK, WalkInv, NEW bank \in Banks
  PROVE  /\ Base(bank) \in Nat /\ next[bank] \in Nat
         /\ free[bank] \in Seq(Nat) /\ Len(free[bank]) \in Nat
         /\ IsFiniteSet(Holders(bank)) /\ Cardinality(Holders(bank)) \in Nat
<1>1. WellTyped(g) /\ next[bank] \in Nat /\ free[bank] \in Seq(Nat)
  BY DEF TypeOK
<1>2. Len(free[bank]) \in Nat
  BY <1>1, LenProperties
<1>3. InBank(bank) \in SUBSET (1 .. N)
  BY <1>1, ReservedFacts
<1>4. ReservedEnd(bank) \in Nat
  BY <1>1, <1>3, FiniteNodes DEF ReservedEnd
<1>5. Holders(bank) \in SUBSET (1 .. N)
  BY CompiledFacts DEF Holders, WalkInv, BanksKept
<1>6. IsFiniteSet(Holders(bank)) /\ Cardinality(Holders(bank)) \in Nat
  BY <1>1, <1>5, FiniteNodes
<1> QED
  BY <1>1, <1>2, <1>4, <1>6 DEF Base

(* Steps that change neither the slots nor who holds them.                 *)
LEMMA SameBalance ==
  ASSUME UNCHANGED <<job, free, next>>, \A bank \in Banks : Holders(bank)' = Holders(bank),
         \A bank \in Banks : Balanced(bank)
  PROVE  \A bank \in Banks : Balanced(bank)'
BY RegionsStay DEF Balanced, Base

(* A fresh slot goes to a value that had none.                             *)
LEMMA LentBalance ==
  ASSUME TypeOK, WalkInv, NEW bank \in Banks, Alloc(bank), job' = job,
         NEW u, u \notin DOMAIN slot, u \notin Reserved, u \notin Spent, Spent' = Spent,
         slot' = Mapped(u, Loc(bank, Fresh(bank))), \A c \in Banks : Balanced(c)
  PROVE  \A c \in Banks : Balanced(c)'
<1>1. /\ DOMAIN slot' = DOMAIN slot \cup {u} /\ slot'[u].bank = bank
      /\ \A v \in DOMAIN slot : slot'[v] = slot[v]
  BY DEF Mapped, Loc
<1>2. Reserved' = Reserved /\ \A c : Base(c)' = Base(c)
  BY RegionsStay DEF Base
<1>3. \A c : c # bank => Holders(c)' = Holders(c)
  BY <1>1, <1>2 DEF Holders
<1>4. Holders(bank)' = Holders(bank) \cup {u} /\ u \notin Holders(bank)
  BY <1>1, <1>2 DEF Holders
<1>5. Cardinality(Holders(bank)') = Cardinality(Holders(bank)) + 1
  BY <1>4, AccountTypes, FS_AddElement
<1>6. next \in [Banks -> Nat] /\ free \in [Banks -> Seq(Nat)]
  BY DEF TypeOK
<1>7. \A c \in Banks : c # bank => next'[c] = next[c] /\ free'[c] = free[c]
  BY <1>6 DEF Alloc
<1>8. next'[bank] - Len(free'[bank]) = next[bank] - Len(free[bank]) + 1
      /\ next'[bank] \in Nat /\ Len(free'[bank]) \in Nat
  <2>1. CASE free[bank] = <<>>
    <3>1. next'[bank] = next[bank] + 1 /\ free'[bank] = free[bank]
      BY <1>6, <2>1 DEF Alloc
    <3>2. next[bank] \in Nat /\ Len(free[bank]) \in Nat
      BY AccountTypes
    <3>3. PICK l \in Nat : l = Len(free[bank])
      BY <3>2
    <3>4. Len(free'[bank]) = l
      BY <3>1, <3>3
    <3> QED
      BY <3>1, <3>2, <3>3, <3>4
  <2>2. CASE free[bank] # <<>>
    <3>1. next' = next /\ free'[bank] = Front(free[bank])
      BY <1>6, <2>2 DEF Alloc
    <3>2. Len(Front(free[bank])) = Len(free[bank]) - 1 /\ Len(free[bank]) >= 1
      <4>1. /\ Len(free[bank]) >= 1 /\ Front(free[bank]) \in Seq(Nat) /\ Len(free[bank]) \in Nat
            /\ DOMAIN Front(free[bank]) = 1 .. Len(free[bank]) - 1
        BY <1>6, <2>2, Pop
      <4>2. Len(Front(free[bank])) \in Nat
            /\ DOMAIN Front(free[bank]) = 1 .. Len(Front(free[bank]))
        BY <4>1, LenProperties
      <4> QED
        BY <4>1, <4>2
    <3> QED
      BY <3>1, <3>2, AccountTypes
  <2> QED
    BY <2>1, <2>2
<1>9. Balanced(bank)'
  <2>1. /\ next[bank] - Base(bank) = Len(free[bank]) + Cardinality(Holders(bank))
        /\ Base(bank) \in Nat /\ next[bank] \in Nat /\ Len(free[bank]) \in Nat
        /\ Cardinality(Holders(bank)) \in Nat
    BY AccountTypes DEF Balanced
  <2>2. PICK h \in Nat : h = Cardinality(Holders(bank))
    BY <2>1
  <2>3. PICK l \in Nat : l = Len(free[bank])
    BY <2>1
  <2>4. PICK m \in Nat : m = Len(free'[bank])
    BY <1>8
  <2>5. PICK a \in Nat : a = Base(bank)
    BY <2>1
  <2>6. Cardinality(Holders(bank)') = h + 1
    BY <1>5, <2>2
  <2>7. next'[bank] - m = next[bank] - l + 1 /\ next[bank] - a = l + h
        /\ next[bank] \in Nat /\ next'[bank] \in Nat
    BY <1>8, <2>1, <2>2, <2>3, <2>4, <2>5
  <2>8. next'[bank] - a = m + (h + 1)
    BY <2>7
  <2>9. next'[bank] - Base(bank) = Len(free'[bank]) + Cardinality(Holders(bank)')
    BY <2>4, <2>5, <2>6, <2>8, Zenon
  <2> QED
    BY <1>2, <2>9 DEF Balanced
<1>10. \A c \in Banks : c # bank => Balanced(c)'
  BY <1>2, <1>3, <1>7 DEF Balanced
<1> QED
  BY <1>9, <1>10

(* A slot goes from the value that held it to the free list.               *)
LEMMA FreedBalance ==
  ASSUME TypeOK, WalkInv, NEW bank \in Banks, UNCHANGED <<job, next>>,
         NEW u, u \in Holders(bank), Holders(bank)' = Holders(bank) \ {u},
         \A c \in Banks : c # bank => Holders(c)' = Holders(c),
         NEW x \in Nat, free' = [free EXCEPT ![bank] = Append(@, x)],
         \A c \in Banks : Balanced(c)
  PROVE  \A c \in Banks : Balanced(c)'
<1>1. \A c : Base(c)' = Base(c)
  BY RegionsStay DEF Base
<1>2. free \in [Banks -> Seq(Nat)]
  BY DEF TypeOK
<1>3. free'[bank] = Append(free[bank], x) /\ \A c \in Banks : c # bank => free'[c] = free[c]
  BY <1>2
<1>4. Len(free'[bank]) = Len(free[bank]) + 1
  BY <1>3, AccountTypes
<1>5. Cardinality(Holders(bank)') = Cardinality(Holders(bank)) - 1
  BY AccountTypes, FS_RemoveElement
<1>6. /\ next[bank] - Base(bank) = Len(free[bank]) + Cardinality(Holders(bank))
      /\ Base(bank) \in Nat /\ next[bank] \in Nat /\ Len(free[bank]) \in Nat
      /\ Cardinality(Holders(bank)) \in Nat
  BY AccountTypes DEF Balanced
<1>7. next'[bank] - Base(bank) = Len(free'[bank]) + Cardinality(Holders(bank)')
  BY <1>4, <1>5, <1>6
<1>8. Balanced(bank)'
  BY <1>1, <1>7 DEF Balanced
<1>9. \A c \in Banks : c # bank => Balanced(c)'
  BY <1>1, <1>3 DEF Balanced
<1> QED
  BY <1>8, <1>9


(* Steps that leave the slots, the free lists and what rounds have taken.  *)
LEMMA StillBalanced ==
  ASSUME UNCHANGED <<job, slot, free, next>>, Spent' = Spent, \A bank \in Banks : Balanced(bank)
  PROVE  \A bank \in Banks : Balanced(bank)'
<1>1. \A bank : Holders(bank)' = Holders(bank)
  BY JobStays DEF Holders
<1> QED
  BY <1>1, SameBalance

(* Within a node, outside a Round, no operand is taken.                    *)
LEMMA NoneTaken ==
  ASSUME WalkInv, UNCHANGED <<job, i>>,
         pc \notin {"operands", "results"},
         pc' \notin {"operands", "results"} \/ (pc' = "operands" /\ k' = 1)
  PROVE  Spent' = Spent
<1>1. ASSUME NEW r \in NodesOf(g, "Round"), NEW j \in DOMAIN g.nodes[r].in
      PROVE  Taken(r, j)' <=> Taken(r, j)
  <2>1. j \in 1 .. Len(g.nodes[r].in)
    BY CompiledFacts, GraphFacts DEF NodesOf, WalkInv
  <2>2. ~(j < 1)
    BY <2>1
  <2> QED
    BY <2>2 DEF Taken
<1>2. \A r \in NodesOf(g, "Round") : \A j \in DOMAIN g.nodes[r].in : Taken(r, j)' = Taken(r, j)
  BY <1>1 DEF Taken
<1> QED
  BY <1>2, SpentStays

(* After the reservation nothing is minted beyond the regions.             *)
LEMMA ReserveBalances ==
  ASSUME IInv, WalkInv, WalkInv', Reserve, Working'
  PROVE  \A bank \in Banks : Balanced(bank)'
<1>1. /\ UNCHANGED <<job, free>> /\ Reserved' = Reserved /\ \A c : Base(c)' = Base(c)
      /\ \A bank \in Banks : free[bank] = <<>>
      /\ DOMAIN slot' = NodesOf(g, "Constant") \cup NodesOf(g, "Input")
      /\ next' = [bank \in Banks |-> IF bank = Local THEN 0 ELSE ReservedEnd(bank)]
  BY RegionsStay DEF Reserve, IInv, FreshStart, Base, Working
<1>2. \A bank : Holders(bank)' = {}
  BY <1>1 DEF Holders, Reserved
<1> SUFFICES ASSUME NEW bank \in Banks
             PROVE  next'[bank] - Base(bank) = Len(free'[bank]) + Cardinality(Holders(bank)')
  BY <1>1 DEF Balanced
<1>3. next'[bank] = Base(bank) /\ Base(bank) \in Nat
  BY <1>1, AccountTypes DEF Base, IInv
<1>4. Len(free'[bank]) = 0
  BY <1>1
<1>5. Cardinality(Holders(bank)') = 0
  BY <1>2, FS_EmptySet
<1> QED
  BY <1>3, <1>4, <1>5

(* An emitted value had no slot before.                                    *)
LEMMA EmitBalances ==
  ASSUME IInv, WalkInv, AliveInv, pc = "visit", node.op \in ArithOps \cup {"MulLocal"},
         NEW bank \in Banks, NEW op, NEW a, NEW b, EmitInto(bank, op, a, b),
         \A c \in Banks : Balanced(c)
  PROVE  \A c \in Banks : Balanced(c)'
<1>1. /\ UNCHANGED <<job, i>> /\ pc' = "service" /\ Alloc(bank)
      /\ slot' = Mapped(i, Loc(bank, Fresh(bank)))
  BY DEF EmitInto
<1>2. Spent' = Spent
  BY <1>1, NoneTaken
<1>3. i \in Nat /\ Passed = i - 1
  BY Visited DEF Passed
<1>4. i \notin Reserved /\ g.nodes[i].op \notin LeafOps
  BY DEF Reserved, NodesOf, ArithOps, LeafOps, node
<1>5. ~ Given(i)
  BY <1>3, <1>4 DEF Given
<1>6. i \notin DOMAIN slot
  BY <1>5 DEF AliveInv, OnlyGiven, Working
<1>7. i \notin Spent
  <2> SUFFICES ASSUME NEW r \in NodesOf(g, "Round"), NEW j \in DOMAIN g.nodes[r].in,
                      g.nodes[r].in[j] = i, Taken(r, j)
               PROVE  FALSE
    BY SpentIsTaken
  <2>1. r < i
    BY DEF Taken
  <2>2. r \in Values(g) /\ Sound(g) /\ Values(g) = 1 .. N /\ N \in Nat
    BY CompiledFacts DEF NodesOf, WalkInv
  <2>3. i < r
    BY <2>2, OperandFacts
  <2> QED
    BY <1>3, <2>1, <2>2, <2>3
<1> QED
  BY <1>1, <1>2, <1>4, <1>6, <1>7, LentBalance DEF IInv

(* A Round spends a product once, since nothing else reads it.             *)
LEMMA TakeRoundOperandBalances ==
  ASSUME IInv, WalkInv, AliveInv, IsLowered, TakeRoundOperand, Working',
         \A c \in Banks : Balanced(c)
  PROVE  \A c \in Banks : Balanced(c)'
<1>1. pc = "operands" /\ k <= Len(node.in) /\ k \in Nat /\ k >= 1 /\ node.op = "Round"
  BY DEF TakeRoundOperand, IInv, TypeOK, RoundInWalk
<1>2. /\ UNCHANGED <<job, pc, i, slot, next>> /\ g' = g /\ k' = k + 1
      /\ free' = [free EXCEPT ![Local] = Append(@, At(k).index)]
      /\ node.in[k] \in DOMAIN slot /\ At(k).bank = Local
  BY JobStays DEF TakeRoundOperand, Abort, Working, Resolved
<1>3. PICK m : m = node.in[k]
  OBVIOUS
<1>4. /\ i \in Values(g) /\ Sound(g) /\ i \in Nat
      /\ DOMAIN node.in = 1 .. Len(node.in) /\ Len(node.in) \in Nat
      /\ i \in NodesOf(g, "Round")
  BY <1>1, CompiledFacts, Visited DEF WalkInv, NodesOf, node
<1>5. k \in DOMAIN g.nodes[i].in /\ g.nodes[i].in[k] = m
  BY <1>1, <1>3, <1>4 DEF node
<1>6. m \in NodesOf(g, "MulLocal") /\ m \in DOMAIN slot /\ slot[m].bank = Local
  BY <1>2, <1>3 DEF WalkInv, BanksKept, NodesOf, At
<1>7. \A r \in Values(g) : \A j \in DOMAIN g.nodes[r].in : g.nodes[r].in[j] = m => r = i /\ j = k
  <2>1. Mentions(g, m) = 1
    BY <1>6 DEF IsLowered
  <2> QED
    BY <1>4, <1>5, <2>1, MentionedOnce
<1>8. m \notin Spent
  <2> SUFFICES ASSUME NEW r \in NodesOf(g, "Round"), NEW j \in DOMAIN g.nodes[r].in,
                      g.nodes[r].in[j] = m, Taken(r, j)
               PROVE  FALSE
    BY SpentIsTaken
  <2>1. r = i /\ j = k
    BY <1>7 DEF NodesOf
  <2> QED
    BY <1>1, <1>4, <2>1 DEF Taken
<1>9. Spent' = Spent \cup {m}
  <2>1. \A r \in NodesOf(g, "Round") : \A j \in DOMAIN g.nodes[r].in :
          Taken(r, j)' <=> Taken(r, j) \/ (r = i /\ j = k)
    <3> SUFFICES ASSUME NEW r \in NodesOf(g, "Round"), NEW j \in DOMAIN g.nodes[r].in
                 PROVE  Taken(r, j)' <=> Taken(r, j) \/ (r = i /\ j = k)
      OBVIOUS
    <3>1. j \in Nat
      <4>1. j \in 1 .. Len(g.nodes[r].in)
        BY <1>4, GraphFacts DEF NodesOf
      <4> QED
        BY <4>1
    <3>2. j < k + 1 <=> j < k \/ j = k
      BY <1>1, <3>1
    <3> QED
      BY <1>1, <1>2, <3>2 DEF Taken
  <2>2. Spent' = {x \in NodesOf(g, "MulLocal") :
             \E r \in NodesOf(g, "Round") : \E j \in DOMAIN g.nodes[r].in :
               g.nodes[r].in[j] = x /\ Taken(r, j)'}
    BY <1>2 DEF Spent, Taken
  <2> QED
    BY <1>4, <1>5, <1>6, <2>1, <2>2, SpentIsTaken
<1>10. m \notin Reserved /\ Reserved' = Reserved
  BY <1>2, <1>6, RegionsStay DEF Reserved, NodesOf
<1>11. m \in Holders(Local) /\ Holders(Local)' = Holders(Local) \ {m}
  BY <1>2, <1>6, <1>8, <1>9, <1>10 DEF Holders
<1>12. \A c : c # Local => Holders(c)' = Holders(c)
  BY <1>2, <1>6, <1>9, <1>10 DEF Holders
<1>13. At(k).index \in Nat /\ Local \in Banks
  BY <1>2 DEF At, IInv, TypeOK, Locations, Banks
<1> QED
  BY <1>2, <1>11, <1>12, <1>13, FreedBalance DEF IInv

(* A result of a Round had no slot before it is placed.                    *)
LEMMA PlaceRoundResultBalances ==
  ASSUME IInv, WalkInv, AliveInv, PlaceRoundResult, Working',
         \A c \in Banks : Balanced(c)
  PROVE  \A c \in Banks : Balanced(c)'
<1>1. pc = "results" /\ k \in Nat /\ k >= 1
  BY DEF PlaceRoundResult, IInv, TypeOK, RoundInWalk
<1>2. /\ UNCHANGED <<job, pc, i>> /\ Alloc(Shared)
      /\ g.nodes[i + k].op = "RoundResult"
      /\ slot' = Mapped(i + k, Loc(Shared, Fresh(Shared)))
  BY DEF PlaceRoundResult, Abort, Working
<1>3. Spent' = Spent
  BY <1>1, <1>2, SpentStays DEF Taken
<1>4. i \in Nat /\ Passed = i - 1
  BY <1>1, Visited DEF Passed
<1>5. PICK u \in Nat : u = i + k
  BY <1>1, <1>4
<1>6. ~(u <= Passed) /\ ~ \E j \in 1 .. (k - 1) : u = i + j
  BY <1>1, <1>4, <1>5
<1>7. ~ Given(u)
  BY <1>2, <1>5, <1>6 DEF Given, LeafOps
<1>8. u \notin DOMAIN slot
  BY <1>1, <1>7 DEF AliveInv, OnlyGiven, Working
<1>9. u \notin Reserved /\ u \notin Spent
  BY <1>2, <1>5 DEF Reserved, NodesOf, Spent
<1>10. slot' = Mapped(u, Loc(Shared, Fresh(Shared))) /\ Shared \in Banks
  BY <1>2, <1>5 DEF Banks
<1> QED
  BY <1>2, <1>3, <1>8, <1>9, <1>10, LentBalance DEF IInv

(* The walk leaves a Round, or the node after which it serves.             *)
LEMMA RoundLeft ==
  ASSUME WalkInv, job' = job, i \in Nat, i' \in Nat, i <= i',
         \A r \in NodesOf(g, "Round") : \A j \in DOMAIN g.nodes[r].in : Taken(r, j) <=> r <= i,
         \A r \in NodesOf(g, "Round") : r < i' /\ DOMAIN g.nodes[r].in # {} => r <= i,
         \A r \in NodesOf(g, "Round") : r <= i /\ DOMAIN g.nodes[r].in # {} => r < i',
         pc' \notin {"operands", "results"}
  PROVE  Spent' = Spent
<1>1. ASSUME NEW r \in NodesOf(g, "Round"), NEW j \in DOMAIN g.nodes[r].in
      PROVE  Taken(r, j)' <=> Taken(r, j)
  <2>1. Taken(r, j)' <=> r < i'
    BY DEF Taken
  <2>2. DOMAIN g.nodes[r].in # {}
    OBVIOUS
  <2> QED
    BY <2>1, <2>2
<1>2. \A r \in NodesOf(g, "Round") : \A j \in DOMAIN g.nodes[r].in : Taken(r, j)' = Taken(r, j)
  BY <1>1 DEF Taken
<1> QED
  BY <1>2, SpentStays

(* The Rounds behind the walk are the same before and after the skip.      *)
LEMMA EmitReshareBalances ==
  ASSUME IInv, WalkInv, EmitReshare, \A c \in Banks : Balanced(c)
  PROVE  \A c \in Banks : Balanced(c)'
<1>1. UNCHANGED <<job, slot, free, next>> /\ pc' = "service" /\ pc = "results"
  BY DEF EmitReshare
<1>2. /\ i \in 1 .. N /\ N \in Nat /\ Len(node.in) \in Nat /\ g.nodes[i].op = "Round"
      /\ i' = i + Len(node.in) /\ i' \in Nat /\ i <= i' /\ Values(g) = 1 .. N
  BY SkippedNodes, CompiledFacts DEF WalkInv
<1>3. \A v \in Values(g) :
        v <= i' => \/ v <= i - 1
                   \/ v = i
                   \/ g.nodes[v].op = "RoundResult" /\ \E j \in 1 .. Len(node.in) : v = i + j
  BY SkippedNodes
<1>4. \A r \in NodesOf(g, "Round") : \A j \in DOMAIN g.nodes[r].in : Taken(r, j) <=> r <= i
  BY <1>1, <1>2 DEF Taken, NodesOf
<1>5. \A r \in NodesOf(g, "Round") : r < i' /\ DOMAIN g.nodes[r].in # {} => r <= i
  BY <1>2, <1>3 DEF NodesOf
<1>6. \A r \in NodesOf(g, "Round") : r <= i /\ DOMAIN g.nodes[r].in # {} => r < i'
  <2> SUFFICES ASSUME NEW r \in NodesOf(g, "Round"), r <= i, DOMAIN g.nodes[r].in # {}
               PROVE  r < i'
    OBVIOUS
  <2>1. r \in 1 .. N
    BY <1>2 DEF NodesOf
  <2>2. CASE r = i
    <3>1. DOMAIN node.in = 1 .. Len(node.in) /\ DOMAIN node.in # {}
      BY <1>1, <2>2, Visited DEF node
    <3>2. Len(node.in) # 0
      BY <3>1
    <3> QED
      BY <1>2, <2>2, <3>2
  <2>3. CASE r # i
    BY <1>2, <2>1, <2>3
  <2> QED
    BY <2>2, <2>3
<1>7. Spent' = Spent
  BY <1>1, <1>2, <1>4, <1>5, <1>6, RoundLeft
<1> QED
  BY <1>1, <1>7, StillBalanced

(* A Round with operands is passed at one of its results.                  *)
LEMMA RoundsBehind ==
  ASSUME IInv, WalkInv, AliveInv, pc = "service"
  PROVE  \A r \in NodesOf(g, "Round") : r <= i /\ DOMAIN g.nodes[r].in # {} => r < i
<1> SUFFICES ASSUME NEW r \in NodesOf(g, "Round"), r <= i, DOMAIN g.nodes[r].in # {} PROVE r < i
  OBVIOUS
<1>1. i \in Nat /\ r \in Nat /\ r \in Values(g) /\ Sound(g) /\ Passed = i
  BY CompiledFacts, Visited DEF WalkInv, NodesOf, Passed
<1>2. Len(g.nodes[r].in) \in Nat /\ DOMAIN g.nodes[r].in = 1 .. Len(g.nodes[r].in)
  BY <1>1, GraphFacts
<1>3. PICK n \in Nat : n = Len(g.nodes[r].in)
  BY <1>2
<1>4. n # 0
  BY <1>2, <1>3
<1>5. r + n <= i
  BY <1>1, <1>3 DEF AliveInv, RoundsJumped
<1> QED
  BY <1>1, <1>4, <1>5

(* So they are when the walk goes to the next node.                        *)
LEMMA NextNodeBalances ==
  ASSUME IInv, WalkInv, AliveInv, NextNode, \A c \in Banks : Balanced(c)
  PROVE  \A c \in Banks : Balanced(c)'
<1>1. /\ UNCHANGED <<job, slot, free, next>> /\ pc = "service" /\ i' = i + 1
      /\ pc' \notin {"operands", "results"}
  BY DEF NextNode
<1>2. i \in Nat /\ i' \in Nat /\ i <= i' /\ \A r \in NodesOf(g, "Round") : r \in Nat
  BY <1>1, Visited, CompiledFacts DEF WalkInv, NodesOf
<1>3. \A r \in NodesOf(g, "Round") : \A j \in DOMAIN g.nodes[r].in : Taken(r, j) <=> r <= i
  <2> SUFFICES ASSUME NEW r \in NodesOf(g, "Round"), NEW j \in DOMAIN g.nodes[r].in
               PROVE  r < i <=> r <= i
    BY <1>1 DEF Taken
  <2>1. r <= i => r < i
    BY <1>1, RoundsBehind
  <2> QED
    BY <1>2, <2>1
<1>4. /\ \A r \in NodesOf(g, "Round") : r < i' /\ DOMAIN g.nodes[r].in # {} => r <= i
      /\ \A r \in NodesOf(g, "Round") : r <= i /\ DOMAIN g.nodes[r].in # {} => r < i'
  BY <1>1, <1>2
<1>5. Spent' = Spent
  BY <1>1, <1>2, <1>3, <1>4, RoundLeft
<1> QED
  BY <1>1, <1>5, StillBalanced

(* A release recycles a computed slot, and no reserved or spent one.       *)
LEMMA ReleaseBalances ==
  ASSUME IInv, WalkInv, AliveInv, IsLowered, Release, \A c \in Banks : Balanced(c)
  PROVE  \A c \in Banks : Balanced(c)'
<1> DEFINE u == Head(queue).value
           c == Head(queue).current
<1>1. /\ UNCHANGED <<job, pc, i, next>> /\ pc = "service" /\ queue # <<>> /\ g' = g
      /\ Reserved' = Reserved /\ Passed = i
  BY RegionsStay DEF Release, Passed
<1>2. Spent' = Spent
  BY <1>1, NoneTaken
<1>3. CASE ~(Resolved(u) /\ IsLastUse(u, c))
  <2>1. slot' = slot /\ free' = free
    BY <1>3 DEF Release
  <2> QED
    BY <1>1, <1>2, <2>1, StillBalanced
<1>4. CASE Resolved(u) /\ IsLastUse(u, c)
  <2>1. /\ slot' = Unmapped(u) /\ u \in DOMAIN slot
        /\ free' = IF slot[u].bank # Local /\ slot[u].index >= ReservedEnd(slot[u].bank)
                   THEN [free EXCEPT ![slot[u].bank] = Append(@, slot[u].index)]
                   ELSE free
    BY <1>4 DEF Release, Resolved
  <2>2. c \in Nat /\ c <= i
    <3>1. PICK A : A = [value : Nat, current : Nat]
      OBVIOUS
    <3>2. queue \in Seq(A)
      BY <3>1 DEF AliveInv, QueueInv
    <3>3. 1 \in DOMAIN queue /\ Head(queue) = queue[1] /\ queue[1] \in A
      BY <1>1, <3>2, Popped
    <3> QED
      BY <1>1, <3>1, <3>3 DEF AliveInv, QueueInv
  <2>3. \A x \in Uses(u) : x <= c
    BY <1>4 DEF IsLastUse
  <2> HIDE DEF u, c
  <2>4. u \in Values(g) /\ (slot[u].bank = Local <=> g.nodes[u].op = "MulLocal")
        /\ slot[u].bank \in Banks /\ slot[u].index \in Nat
    BY <2>1 DEF WalkInv, BanksKept, IInv, TypeOK, Locations
  <2>5. /\ DOMAIN slot' = DOMAIN slot \ {u}
        /\ \A v \in DOMAIN slot' : slot'[v] = slot[v]
    BY <2>1 DEF Unmapped
  <2>6. \A bank : Holders(bank)' = Holders(bank) \ {u}
    BY <1>1, <1>2, <2>5 DEF Holders
  <2>7. \A bank : u \in Holders(bank) => bank = slot[u].bank /\ u \notin Reserved /\ u \notin Spent
    BY DEF Holders
  <2>8. CASE u \in Reserved
    <3>1. slot[u] = Home(u)
      BY <2>1, <2>8 DEF IInv, AllocatorInv, HomesKept
    <3>2. slot[u].index < ReservedEnd(slot[u].bank) /\ ReservedEnd(slot[u].bank) \in Nat
      <4>1. WellTyped(g) /\ InBank(slot[u].bank) \in SUBSET (1 .. N)
        BY ReservedFacts DEF IInv, TypeOK
      <4> QED
        BY <2>8, <3>1, <4>1, HomeInReservedRegion, FiniteNodes DEF ReservedEnd
    <3>3. free' = free
      BY <2>1, <2>4, <3>2
    <3>4. \A bank : Holders(bank)' = Holders(bank)
      BY <2>6, <2>7, <2>8
    <3> QED
      BY <1>1, <3>3, <3>4, SameBalance
  <2>9. CASE u \notin Reserved /\ slot[u].bank = Local
    <3>1. u \in NodesOf(g, "MulLocal") /\ Sound(g)
      BY <2>4, <2>9, CompiledFacts DEF NodesOf, WalkInv
    <3>2. PICK r \in Values(g) : u \in InputsOf(g, r)
      BY <3>1, MentionedOnce DEF IsLowered
    <3>3. r \in ReadersOf(g, u)
      BY <3>2 DEF ReadersOf
    <3>4. r \in NodesOf(g, "Round")
      BY <3>1, <3>3 DEF IsLowered, ProductsAreReshared, NodesOf, ReadersOf
    <3>5. PICK j \in DOMAIN g.nodes[r].in : g.nodes[r].in[j] = u
      BY <3>1, <3>2, OperandFacts
    <3>6. r <= c
      BY <2>3, <3>3 DEF Uses
    <3>7. r < i
      <4>1. r \in Nat /\ i \in Nat
        BY <1>1, Visited, CompiledFacts DEF WalkInv
      <4>2. r <= i /\ DOMAIN g.nodes[r].in # {}
        BY <2>2, <3>5, <3>6, <4>1
      <4> QED
        BY <1>1, <3>4, <4>2, RoundsBehind
    <3>8. u \in Spent
      BY <3>1, <3>4, <3>5, <3>7 DEF Spent
    <3>9. free' = free /\ \A bank : Holders(bank)' = Holders(bank)
      BY <2>1, <2>6, <2>7, <2>9, <3>8
    <3> QED
      BY <1>1, <3>9, SameBalance
  <2>10. CASE u \notin Reserved /\ slot[u].bank # Local
    <3>1. slot[u].index >= ReservedEnd(slot[u].bank)
      <4>1. ReservedEnd(slot[u].bank) <= slot[u].index
        BY <2>1, <2>10 DEF IInv, AllocatorInv, LentBeyondRegions
      <4>2. ReservedEnd(slot[u].bank) \in Nat
        <5>1. WellTyped(g) /\ InBank(slot[u].bank) \in SUBSET (1 .. N)
          BY ReservedFacts DEF IInv, TypeOK
        <5> QED
          BY <5>1, FiniteNodes DEF ReservedEnd
      <4> QED
        BY <2>4, <4>1, <4>2
    <3>2. PICK bank \in Banks : bank = slot[u].bank
      BY <2>4
    <3>3. PICK x \in Nat : x = slot[u].index
      BY <2>4
    <3>4. free' = [free EXCEPT ![bank] = Append(@, x)]
      BY <2>1, <2>10, <3>1, <3>2, <3>3
    <3>5. u \notin Spent
      BY <2>4, <2>10 DEF Spent, NodesOf
    <3>6. u \in Holders(bank)
      BY <2>1, <2>10, <3>2, <3>5 DEF Holders
    <3>7. \A d \in Banks : d # bank => Holders(d)' = Holders(d)
      BY <2>6, <2>7, <3>2
    <3> QED
      BY <1>1, <2>6, <3>4, <3>6, <3>7, FreedBalance DEF IInv
  <2> QED
    BY <2>8, <2>9, <2>10
<1> QED
  BY <1>3, <1>4


(* Every step of compile keeps the accounts of the banks.                  *)
LEMMA NextBalances ==
  IInv /\ WalkInv /\ AliveInv /\ Balance /\ WalkInv' /\ [Next]_vars => Balance'
<1> SUFFICES ASSUME IInv, WalkInv, AliveInv, Balance, WalkInv', [Next]_vars, Working', IsLowered'
             PROVE  \A bank \in Banks : Balanced(bank)'
  BY DEF Balance
<1>0. IsLowered
  <2>1. job' = job
    BY DEF Next, Step, Finished, vars, Reserve, VisitLeaf, VisitGadgetResult, VisitArith, EmitInto,
       Abort, VisitMulLocal, VisitGadget, VisitRound, TakeRoundOperand, AllOperandsTaken,
       PlaceRoundResult, EmitReshare, VisitRoundResult, Release, ServiceBatch, NextNode,
       ProjectWitness
  <2> QED
    BY <2>1, JobStays
<1>1. CASE Reserve
  BY <1>1, ReserveBalances
<1>2. Working => \A bank \in Banks : Balanced(bank)
  BY <1>0 DEF Balance
<1>3. CASE UNCHANGED vars
  <2>1. UNCHANGED <<job, slot, free, next>> /\ Working /\ Spent' = Spent
    BY <1>3, JobStays DEF vars, Working, Spent
  <2> QED
    BY <1>2, <2>1, StillBalanced
<1>4. CASE VisitRoundResult \/ ProjectWitness
  <2>1. pc \in {"visit", "project"} /\ UNCHANGED <<job, i, slot, free, next>>
        /\ pc' \in {"done", "rejected", "panicked"}
    BY <1>4 DEF VisitRoundResult, Visit, ProjectWitness, Abort
  <2>2. Spent' = Spent
    BY <2>1, NoneTaken
  <2> QED
    BY <1>2, <2>1, <2>2, StillBalanced DEF Working
<1>5. CASE VisitLeaf \/ VisitRound \/ ServiceBatch
  <2>1. pc \in {"visit", "service"} /\ UNCHANGED <<job, i, slot, free, next>>
        /\ (pc' = "service" \/ (pc' = "operands" /\ k' = 1))
    BY <1>5 DEF VisitLeaf, VisitRound, ServiceBatch, Visit
  <2>2. pc \notin {"operands", "results"}
        /\ (pc' \notin {"operands", "results"} \/ (pc' = "operands" /\ k' = 1))
        /\ UNCHANGED <<job, i, slot, free, next>> /\ Working
    BY <1>5 DEF VisitLeaf, VisitRound, ServiceBatch, Visit, Working
  <2>3. Spent' = Spent
    BY <2>2, NoneTaken
  <2> QED
    BY <1>2, <2>2, <2>3, StillBalanced
<1>6. CASE VisitGadget
  <2>1. pc = "visit" /\ UNCHANGED <<job, i, slot, free, next>> /\ pc' \notin {"operands", "results"}
    BY <1>6 DEF VisitGadget, Visit, Abort
  <2>2. Spent' = Spent
    BY <2>1, NoneTaken
  <2> QED
    BY <1>2, <2>1, <2>2, StillBalanced DEF Working
<1>7. CASE VisitGadgetResult
  <2>1. pc = "visit" /\ UNCHANGED <<job, i, free, next>> /\ pc' = "service"
        /\ slot' = Mapped(i, Home(i)) /\ node.op = "GadgetResult"
    BY <1>7 DEF VisitGadgetResult, Visit
  <2>2. Spent' = Spent
    BY <2>1, NoneTaken
  <2>3. i \in Reserved /\ Reserved' = Reserved
    BY <2>1, Visited, JobStays, CompiledFacts DEF Reserved, NodesOf, node, WalkInv
  <2>4. DOMAIN slot' = DOMAIN slot \cup {i} /\ \A v \in DOMAIN slot : v # i => slot'[v] = slot[v]
    BY <2>1 DEF Mapped
  <2>5. \A bank : Holders(bank)' = Holders(bank)
    BY <2>2, <2>3, <2>4 DEF Holders
  <2> QED
    BY <1>2, <2>1, <2>5, SameBalance DEF Working
<1>8. CASE VisitArith
  <2>1. pc = "visit" /\ node.op \in ArithOps
    BY <1>8 DEF VisitArith, Visit
  <2>2. ~ Abort("rejected") /\ ~ Abort("panicked")
    BY DEF Abort, Working
  <2>3. PICK bank \in {Public, Shared} : \E op, a, b : EmitInto(bank, op, a, b)
    BY <1>8, <2>2 DEF VisitArith
  <2> QED
    BY <1>2, <2>1, <2>3, EmitBalances DEF Working, Banks
<1>9. CASE VisitMulLocal
  <2>1. pc = "visit" /\ node.op = "MulLocal"
    BY <1>9 DEF VisitMulLocal, Visit
  <2>2. ~ Abort("rejected") /\ ~ Abort("panicked")
    BY DEF Abort, Working
  <2>3. PICK op, a, b : EmitInto(Local, op, a, b)
    BY <1>9, <2>2 DEF VisitMulLocal
  <2> QED
    BY <1>2, <2>1, <2>3, EmitBalances DEF Working, Banks
<1>10. CASE AllOperandsTaken
  <2>1. pc = "operands" /\ pc' = "results" /\ k > Len(node.in) /\ k \in Nat
        /\ UNCHANGED <<job, i, slot, free, next>>
    BY <1>10 DEF AllOperandsTaken, IInv, TypeOK
  <2>2. \A r \in NodesOf(g, "Round") : \A j \in DOMAIN g.nodes[r].in : Taken(r, j)' = Taken(r, j)
    <3> SUFFICES ASSUME NEW r \in NodesOf(g, "Round"), NEW j \in DOMAIN g.nodes[r].in, r = i
                 PROVE  j < k
      BY <2>1 DEF Taken
    <3>1. DOMAIN node.in = 1 .. Len(node.in) /\ Len(node.in) \in Nat
      BY <2>1, Visited
    <3>2. j \in 1 .. Len(node.in)
      BY <3>1 DEF node
    <3> QED
      BY <2>1, <3>1, <3>2
  <2>3. Spent' = Spent
    BY <2>1, <2>2, SpentStays
  <2> QED
    BY <1>2, <2>1, <2>3, StillBalanced DEF Working
<1>11. CASE TakeRoundOperand \/ PlaceRoundResult \/ EmitReshare
  <2>1. Working
    BY <1>11 DEF TakeRoundOperand, PlaceRoundResult, EmitReshare, Working
  <2> QED
    BY <1>0, <1>2, <1>11, <2>1, TakeRoundOperandBalances, PlaceRoundResultBalances,
       EmitReshareBalances
<1>12. CASE Release \/ NextNode
  <2>1. Working
    BY <1>12 DEF Release, NextNode, Working
  <2> QED
    BY <1>0, <1>2, <1>12, <2>1, ReleaseBalances, NextNodeBalances
<1> QED
  BY <1>1, <1>3, <1>4, <1>5, <1>6, <1>7, <1>8, <1>9, <1>10, <1>11, <1>12 DEF Next, Step, Finished

(* The accounts balance throughout every compilation.                      *)
LEMMA BalanceInvariance == Spec => []Balance
<1>1. Init => Balance
  BY DEF Init, Begin, Balance, Working
<1>2. IInv /\ WalkInv /\ AliveInv /\ Balance /\ WalkInv' /\ [Next]_vars => Balance'
  BY NextBalances
<1> QED
  BY <1>1, <1>2, AliveInvariance, PTL DEF Spec

(* For every lowered graph, at every step of the walk and in every bank:   *)
(* each slot ever minted beyond the reserved region is held by exactly one *)
(* value not yet released, or waits on the free list. A product's slot is  *)
(* recycled once, by its Round and not again when the product is released. *)
THEOREM SlotsNeverLeak == Spec => []NoSlotLeaks
<1>1. Balance /\ CompilesLowered => NoSlotLeaks
  <2> SUFFICES ASSUME Balance, CompilesLowered, pc # "reserve", IsLowered, NEW bank \in Banks
               PROVE  next[bank] - Base(bank) = Len(free[bank]) + Cardinality(Holders(bank))
    BY DEF NoSlotLeaks, Base
  <2>1. Working
    BY DEF CompilesLowered, Working
  <2> QED
    BY <2>1 DEF Balance, Balanced
<1> QED
  BY <1>1, BalanceInvariance, LoweredCompiles, PTL
=============================================================================
