-------------------------- MODULE PermutationWalk --------------------------
(***************************************************************************)
(* The permutation as the machine runs it (poseidon2.rs): a batch of sites *)
(* is split into chunks, walked side by side; a chunk takes all its sites  *)
(* through one round at a time, and records every signal at its address in *)
(* the trace. Addresses follow the circuit's layout, not the order of the  *)
(* rounds. A site records only the signals requested of it, each at its    *)
(* position in the site's row.                                             *)
(*                                                                         *)
(* A write is <<address, value>>; addresses and positions count from 0. A  *)
(* site's sink is the sequence of writes it took, by position.             *)
(***************************************************************************)
EXTENDS PermutationTemplates

CONSTANTS
  MinSitesPerChunk,
  ThreadCounts        \* how many threads the machine may have

VARIABLES
  walk,       \* the call: [t, states, requests, offsets]
  chunks,     \* the chunks' walks, by first site: [last, round]
  state,      \* per site, its evolving state
  sinks,      \* per site, the writes it took
  progress    \* "idle", "walking", "done", or the error

walkVars == <<walk, chunks, state, sinks, progress>>

-----------------------------------------------------------------------------
(* The layout.                                                             *)

ResultSlots(t) == PermutationResults(t)

NumRounds(t) == 2 * FullRounds + PartialRounds[t]

StatesBase(t)  == t
InitialBase(t) == StatesBase(t) + (NumRounds(t) + 1) * t

(* Mutant: full rounds are laid out where they run.                        *)
FullBase_AsRun(t, layoutRound) ==
  InitialBase(t) + ExternalSignals(t) + layoutRound * FullRoundSignals(t)
    + IF layoutRound < FullRounds THEN 0 ELSE PartialRounds[t] * PartialRoundSignals(t)

FullBase(t, layoutRound) ==
  InitialBase(t) + ExternalSignals(t) + layoutRound * FullRoundSignals(t)

PartialBase(t, round) ==
  FullBase(t, 2 * FullRounds) + round * PartialRoundSignals(t)

-----------------------------------------------------------------------------
(* The layers, and what they record.                                       *)

Plus(x, y) == (x + y) % P
Double(x)  == Plus(x, x)

(* F of the value of x, which TLC evaluates once.                          *)
Of(F(_), x) == CHOOSE y \in {F(v) : v \in {x}} : TRUE

Slice(base, values) == [j \in DOMAIN values |-> <<base + j - 1, values[j]>>]

RunningSums(xs) == FoldLeft(LAMBDA sums, x :
                     Append(sums, IF sums = <<>> THEN x ELSE Plus(Last(sums), x)), <<>>, xs)

Acc(xs) == Last(RunningSums(xs))

AccWrites(xs, base) ==
  Slice(base + 1, xs) \o Slice(base + 1 + Len(xs), RunningSums(xs)) \o Slice(base, <<Acc(xs)>>)

(* The ten sums of the width four, in the order of their declaration.      *)
LeafSums(xs) ==
  LET last4(p)  == p \o <<Plus(Double(Double(p[4])), p[8])>>
      last5(p)  == p \o <<Plus(p[5], p[7])>>
      mixed(p)  == p \o <<Plus(p[1], p[4]), Plus(p[2], p[3])>>
      quads(p)  == p \o <<Double(Double(p[3])), Double(Double(p[4]))>>
  IN  Of(last5, Of(last4, Of(mixed, Of(quads,
        <<Double(xs[2]), Double(xs[4]), Plus(xs[1], xs[2]), Plus(xs[3], xs[4])>>))))

LeafOut(xs) ==
  IF Len(xs) < 4 THEN [j \in DOMAIN xs |-> Plus(xs[j], Acc(xs))]
  ELSE Of(LAMBDA p : <<Plus(p[8], p[10]), p[10], Plus(p[7], p[9]), p[9]>>, LeafSums(xs))

LeafWrites(xs, base) ==
  Slice(base + Len(xs), xs)
    \o Slice(base + 2 * Len(xs), IF Len(xs) < 4 THEN <<Acc(xs)>> ELSE LeafSums(xs))
    \o Slice(base, LeafOut(xs))

Mds(xs) == FlattenSeq([k \in 1 .. (Len(xs) \div 4) |-> LeafOut(SubSeq(xs, 4 * k - 3, 4 * k))])

Column(mds, l) == [k \in 1 .. (Len(mds) \div 4) |-> mds[4 * (k - 1) + l]]

ExternalOut(xs) ==
  IF Len(xs) <= 4 THEN LeafOut(xs)
  ELSE Of(LAMBDA mds : [j \in DOMAIN mds |->
            Plus(mds[j], Acc(Column(mds, ((j - 1) % 4) + 1)))], Mds(xs))

(* Mutant: the blocks are given the sums' addresses.                       *)
ExternalWrites_Overlap(xs, base) ==
  LET t        == Len(xs)
      m        == t \div 4
      accsBase == base + 2 * t
  IN  Slice(base + t, xs)
        \o (IF t <= 4 THEN LeafWrites(xs, accsBase)
            ELSE FlattenSeq([k \in 1 .. m |->
                   LeafWrites(SubSeq(xs, 4 * k - 3, 4 * k), accsBase + (k - 1) * 18)])
                 \o Of(LAMBDA mds : FlattenSeq([l \in 1 .. 4 |->
                      AccWrites(Column(mds, l), accsBase + (l - 1) * AccSignals(m))]), Mds(xs)))
        \o Slice(base, ExternalOut(xs))

(* The sums' signals precede the blocks', whose outputs they sum.          *)
ExternalWrites(xs, base) ==
  LET t        == Len(xs)
      m        == t \div 4
      accsBase == base + 2 * t
      mdsBase  == accsBase + 4 * AccSignals(m)
  IN  Slice(base + t, xs)
        \o (IF t <= 4 THEN LeafWrites(xs, accsBase)
            ELSE FlattenSeq([k \in 1 .. m |->
                   LeafWrites(SubSeq(xs, 4 * k - 3, 4 * k),
                              mdsBase + (k - 1) * ExternalLeafSignals(4))])
                 \o Of(LAMBDA mds : FlattenSeq([l \in 1 .. 4 |->
                      AccWrites(Column(mds, l), accsBase + (l - 1) * AccSignals(m))]), Mds(xs)))
        \o Slice(base, ExternalOut(xs))

InternalOut(xs) ==
  [j \in DOMAIN xs |->
     Plus(IF Len(xs) > 3 THEN (xs[j] * Diagonal[Len(xs)][j]) % P
          ELSE IF j = Len(xs) THEN Double(xs[j]) ELSE xs[j],
          Acc(xs))]

InternalWrites(xs, base) ==
  LET t == Len(xs)
  IN  Slice(base + t, xs)
        \o (IF t < 4 THEN Slice(base + 2 * t, InternalOut(xs)) \o Slice(base + 3 * t, xs)
                            \o Slice(base + 4 * t, <<Acc(xs)>>)
            ELSE AccWrites(xs, base + 2 * t + 1) \o Slice(base + 2 * t, <<Acc(xs)>>))
        \o Slice(base, InternalOut(xs))

SboxLayer(xs) ==
  [j \in DOMAIN xs |->
     Of(LAMBDA square : Of(LAMBDA pow4 :
          [square |-> square, pow4 |-> pow4, out |-> (pow4 * xs[j]) % P],
          (square * square) % P), (xs[j] * xs[j]) % P)]

SboxWrites(base, input, sbox) ==
  <<<<base, sbox.out>>, <<base + 1, input>>, <<base + 2, sbox.square>>, <<base + 3, sbox.pow4>>>>

(* What a site does in a round, once its s-boxes are known: the next state *)
(* and the writes.                                                         *)
FullSite(t, xs, rc, linear, sboxes, base, stateRow) ==
  LET emmBase  == base + 5 * t
      sboxBase == emmBase + ExternalSignals(t)
      sboxed   == [j \in DOMAIN sboxes |-> sboxes[j].out]
  IN  Of(LAMBDA next :
           [state  |-> next,
            writes |-> ExternalWrites(sboxed, emmBase)
              \o Slice(base, next) \o Slice(base + t, xs) \o Slice(base + 2 * t, rc)
              \o Slice(base + 3 * t, linear) \o Slice(base + 4 * t, sboxed)
              \o Slice(sboxBase, sboxed) \o Slice(sboxBase + t, linear)
              \o FlattenSeq([k \in DOMAIN sboxes |->
                   SboxWrites(sboxBase + 2 * t + (k - 1) * 4, linear[k], sboxes[k])])
              \o Slice(StatesBase(t) + stateRow * t, next)],
         ExternalOut(sboxed))

PartialSite(t, xs, c, linear, sbox, base, stateRow) ==
  LET sboxed == [xs EXCEPT ![1] = sbox.out]
  IN  Of(LAMBDA next :
           [state  |-> next,
            writes |-> InternalWrites(sboxed, base + 2 * t + 3 + 4)
              \o Slice(base, next) \o Slice(base + t, xs)
              \o Slice(base + 2 * t, <<c, linear, sbox.out>>)
              \o SboxWrites(base + 2 * t + 3, linear, sbox)
              \o Slice(StatesBase(t) + stateRow * t, next)],
         InternalOut(sboxed))
-----------------------------------------------------------------------------
(* Requests.                                                               *)

RequestRow(call, s) == SubSeq(call.requests, call.offsets[s] + 1, call.offsets[s + 1])

CheckWidth(t, states) == t \in SupportedWidths /\ states # <<>> /\ Len(states) % t = 0

ValidRequests(t, sites, requests, offsets) ==
  /\ Len(offsets) = sites + 1
  /\ offsets[1] = 0
  /\ offsets[sites + 1] = Len(requests)
  /\ \A s \in 1 .. sites :
       /\ offsets[s] <= offsets[s + 1] /\ offsets[s + 1] <= Len(requests)
       /\ \A j \in (offsets[s] + 1) .. offsets[s + 1] :
            /\ requests[j] < ResultSlots(t)
            /\ j > offsets[s] + 1 => requests[j - 1] < requests[j]

(* A full row takes every signal at its own address.                       *)
Positions(row, capacity) ==
  IF Len(row) = capacity THEN [l \in 0 .. (capacity - 1) |-> l]
  ELSE [l \in ToSet(row) |-> (CHOOSE n \in DOMAIN row : row[n] = l) - 1]

Taken(row, capacity, writes) ==
  Of(LAMBDA table :
       LET wanted == SelectSeq(writes, LAMBDA w : w[1] \in DOMAIN table)
       IN  [n \in DOMAIN wanted |-> <<table[wanted[n][1]], wanted[n][2]>>],
     Positions(row, capacity))

(* A row starts out zero.                                                  *)
RowValues(s) ==
  [n \in 1 .. Len(RequestRow(walk, s)) |->
     LET here == SelectSeq(sinks[s], LAMBDA w : w[1] = n - 1)
     IN  IF here = <<>> THEN 0 ELSE Last(here)[2]]

-----------------------------------------------------------------------------
(* The walk.                                                               *)

WalkIdle ==
  /\ walk = <<>> /\ chunks = <<>> /\ state = <<>> /\ sinks = <<>>
  /\ progress = "idle"

Earliest(x, y) == IF x < y THEN x ELSE y

(* As many chunks as there are threads, unless they would get too small.   *)
ChunkSize(sites, threads) ==
  LET wanted == Earliest(IF sites < MinSitesPerChunk THEN 1 ELSE sites \div MinSitesPerChunk,
                         threads)
  IN  (sites + wanted - 1) \div wanted

BeginWalk(t, states, requests, offsets) ==
  IF CheckWidth(t, states) /\ ValidRequests(t, Len(states) \div t, requests, offsets)
  THEN /\ walk' = [t |-> t, states |-> states, requests |-> requests, offsets |-> offsets]
       /\ progress' = "walking"
       /\ \E sites \in {Len(states) \div t} : \E threads \in ThreadCounts :
            /\ \E size \in {ChunkSize(sites, threads)} :
                 chunks' = [f \in {n \in 1 .. sites : (n - 1) % size = 0} |->
                              [last |-> Earliest(f + size - 1, sites), round |-> 0]]
            /\ state' = [s \in 1 .. sites |-> SubSeq(states, (s - 1) * t + 1, s * t)]
            /\ sinks' = [s \in 1 .. sites |-> <<>>]
  ELSE /\ progress' = "refused"
       /\ UNCHANGED <<walk, chunks, state, sinks>>

SitesOf(f) == f .. chunks[f].last

(* A chunk moves on: its sites take what the round made of them.           *)
Advance(f, made) ==
  /\ state' = [s \in DOMAIN state |-> IF s \in SitesOf(f) THEN made[s].state ELSE state[s]]
  /\ sinks' = [s \in DOMAIN sinks |->
                 IF s \in SitesOf(f)
                 THEN sinks[s] \o Taken(RequestRow(walk, s), ResultSlots(walk.t), made[s].writes)
                 ELSE sinks[s]]
  /\ chunks' = [chunks EXCEPT ![f].round = @ + 1]
  /\ UNCHANGED <<walk, progress>>

StartChunk(f) ==
  /\ chunks[f].round = 0
  /\ Advance(f, [s \in SitesOf(f) |->
       Of(LAMBDA next : [state  |-> next,
                         writes |-> ExternalWrites(state[s], InitialBase(walk.t))
                                      \o Slice(StatesBase(walk.t), next)],
          ExternalOut(state[s]))])

(* One layer for all sites of the chunk; site s finds its boxes by offset. *)
BoxesOf(layer, f, s, width) == SubSeq(layer, (s - f) * width + 1, (s - f + 1) * width)

FullRound(f, rc, layoutRound, stateRow) ==
  \E linear \in {FlattenSeq([j \in 1 .. (chunks[f].last - f + 1) |->
                   [x \in 1 .. walk.t |-> Plus(state[f + j - 1][x], rc[x])]])} :
    \E layer \in {SboxLayer(linear)} :
      Advance(f, [s \in SitesOf(f) |->
        FullSite(walk.t, state[s], rc, BoxesOf(linear, f, s, walk.t),
                 BoxesOf(layer, f, s, walk.t), FullBase(walk.t, layoutRound), stateRow)])

FirstFullRound(f) ==
  /\ chunks[f].round \in 1 .. FullRounds
  /\ LET round == chunks[f].round - 1
     IN  FullRound(f, SubSeq(Full1[walk.t], round * walk.t + 1, (round + 1) * walk.t),
                   round, round + 1)

PartialRound(f) ==
  /\ chunks[f].round \in (FullRounds + 1) .. (FullRounds + PartialRounds[walk.t])
  /\ LET round == chunks[f].round - 1 - FullRounds
         c     == Partial[walk.t][round + 1]
     IN  \E linear \in {[j \in 1 .. (chunks[f].last - f + 1) |-> Plus(state[f + j - 1][1], c)]} :
           \E layer \in {SboxLayer(linear)} :
             Advance(f, [s \in SitesOf(f) |->
               PartialSite(walk.t, state[s], c, linear[s - f + 1], layer[s - f + 1],
                           PartialBase(walk.t, round), FullRounds + 1 + round)])

SecondFullRound(f) ==
  /\ chunks[f].round \in (FullRounds + PartialRounds[walk.t] + 1) .. NumRounds(walk.t)
  /\ LET round == chunks[f].round - 1 - FullRounds - PartialRounds[walk.t]
     IN  FullRound(f, SubSeq(Full2[walk.t], round * walk.t + 1, (round + 1) * walk.t),
                   FullRounds + round, FullRounds + 1 + PartialRounds[walk.t] + round)

(* The outputs are recorded last. A position never written is an error.    *)
FinishChunk(f) ==
  /\ chunks[f].round = NumRounds(walk.t) + 1
  /\ \E outs \in {[s \in SitesOf(f) |->
                     Taken(RequestRow(walk, s), ResultSlots(walk.t), Slice(0, state[s]))]} :
       /\ sinks' = [s \in DOMAIN sinks |->
                      IF s \in SitesOf(f) THEN sinks[s] \o outs[s] ELSE sinks[s]]
       /\ progress' = IF \E s \in SitesOf(f) :
                           {sinks'[s][n][1] : n \in DOMAIN sinks'[s]}
                             # 0 .. (Len(RequestRow(walk, s)) - 1)
                      THEN "position not written" ELSE "walking"
  /\ chunks' = [chunks EXCEPT ![f].round = @ + 1]
  /\ UNCHANGED <<walk, state>>

JoinChunks ==
  /\ \A f \in DOMAIN chunks : chunks[f].round = NumRounds(walk.t) + 2
  /\ progress' = "done"
  /\ UNCHANGED <<walk, chunks, state, sinks>>

WalkStep ==
  /\ progress = "walking"
  /\ \/ \E f \in DOMAIN chunks :
          StartChunk(f) \/ FirstFullRound(f) \/ PartialRound(f) \/ SecondFullRound(f)
            \/ FinishChunk(f)
     \/ JoinChunks

-----------------------------------------------------------------------------
(* Properties.                                                             *)

(* No position of a row is ever recorded twice, in whatever order the      *)
(* chunks advance: the code asserts it in debug builds only, and in others *)
(* the later signal silently replaces the earlier one.                     *)
RecordedOnce ==
  \A s \in DOMAIN sinks :
    Cardinality({sinks[s][n][1] : n \in DOMAIN sinks[s]}) = Len(sinks[s])
=============================================================================
