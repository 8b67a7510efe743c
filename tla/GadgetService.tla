--------------------------- MODULE GadgetService ---------------------------
(***************************************************************************)
(* One gadget batch, from the values of its inputs to the results that are *)
(* stored (Vm::run_batch with the plain driver): the traces of all sites,  *)
(* of which the signals the circuit has a use for are selected, site by    *)
(* site. A permutation records only these to begin with; a precomputed one *)
(* was traced in full by the host and is read here.                        *)
(*                                                                         *)
(* A batch is [kind, sites, inputs, requests, offsets]: the inputs of all  *)
(* sites, one after the other, and a row of requested signals per site.    *)
(***************************************************************************)
EXTENDS PermutationWalk

CONSTANTS
  Batches,        \* the batches a program may hold
  AliasConstants  \* what an alias check compares with

ASSUME AliasAssumption == AliasBits \in Nat /\ AliasBits % 2 = 0

VARIABLES
  batch, phase,
  site,           \* alias check: the site being traced
  full,           \* the full traces of the sites, one after the other
  results,        \* one value per request
  constant, input, i, a, b, e, parts, out     \* AliasCheck

Alias == INSTANCE AliasCheck WITH Pairs <- AliasBits \div 2

serviceVars == <<batch, phase, site, full, results>>
checkVars   == <<constant, input, i, a, b, e, parts, out>>
vars == <<serviceVars, walkVars, checkVars>>

SiteInputs(s) ==
  SubSeq(batch.inputs, (s - 1) * InputsPerSite(batch.kind) + 1, s * InputsPerSite(batch.kind))

Init ==
  /\ batch \in Batches
  /\ phase = "dispatch"
  /\ site = 0
  /\ full = <<>> /\ results = <<>>
  /\ constant \in (IF batch.kind.tag = "AliasCheck" THEN AliasConstants
                   ELSE {[n \in 1 .. AliasBits |-> 0]})
  /\ Alias!AliasIdle
  /\ WalkIdle

-----------------------------------------------------------------------------
(* Permutations.                                                           *)

IsPermutation == batch.kind.tag \in {"Poseidon2", "PrecomputedPoseidon2"}

(* The host that precomputes asks for everything.                          *)
DispatchPermutation ==
  /\ phase = "dispatch"
  /\ IsPermutation
  /\ LET t     == batch.kind.n
         sites == 1 .. (Len(batch.inputs) \div t)
         count == ResultSlots(t)
     IN  IF batch.kind.tag = "Poseidon2"
         THEN BeginWalk(t, batch.inputs, batch.requests, batch.offsets)
         ELSE BeginWalk(t, batch.inputs,
                        FlattenSeq([s \in sites |-> [n \in 1 .. count |-> n - 1]]),
                        <<0>> \o [s \in sites |-> s * count])
  /\ phase' = "tracing"
  /\ UNCHANGED <<batch, site, full, results>>
  /\ UNCHANGED checkVars

WalkPermutation ==
  /\ phase = "tracing"
  /\ IsPermutation
  /\ WalkStep
  /\ UNCHANGED serviceVars /\ UNCHANGED checkVars

TakePermutation ==
  /\ phase = "tracing"
  /\ batch.kind.tag = "Poseidon2"
  /\ progress = "done"
  /\ results' = FlattenSeq([s \in DOMAIN sinks |-> RowValues(s)])
  /\ phase' = "storing"
  /\ UNCHANGED <<batch, site, full, walkVars>>
  /\ UNCHANGED checkVars

(* The host's trace of a site: outputs and intermediates.                  *)
SiteTrace(s) ==
  LET t == walk.t
  IN  Of(LAMBDA values : [output       |-> SubSeq(values, 1, t),
                          intermediate |-> SubSeq(values, t + 1, Len(values))],
         RowValues(s))

TracedSignal(t, trace, logical) ==
  IF logical < t THEN trace.output[logical + 1] ELSE trace.intermediate[logical - t + 1]

RowOfSite(s) == SubSeq(batch.requests, batch.offsets[s] + 1, batch.offsets[s + 1])

TakePrecomputed ==
  /\ phase = "tracing"
  /\ batch.kind.tag = "PrecomputedPoseidon2"
  /\ progress = "done"
  /\ results' = FlattenSeq([s \in 1 .. batch.sites |->
                  Of(LAMBDA trace : [n \in DOMAIN RowOfSite(s) |->
                                       TracedSignal(batch.kind.n, trace, RowOfSite(s)[n])],
                     SiteTrace(s))])
  /\ phase' = "storing"
  /\ UNCHANGED <<batch, site, full, walkVars>>
  /\ UNCHANGED checkVars

-----------------------------------------------------------------------------
(* Every other kind returns the full traces.                               *)

Inverted(x) == IF x = 0 THEN 0 ELSE CHOOSE y \in 1 .. (P - 1) : (x * y) % P = 1

FullTraceOf(kind, ins) ==
  CASE kind.tag = "Num2Bits" -> [n \in 1 .. kind.n |-> (ins[1] \div 2 ^ (n - 1)) % 2]
    [] kind.tag = "IsZero"   -> IF ins[1] = 0 THEN <<1, 0>> ELSE <<0, Inverted(ins[1])>>
    [] kind.tag = "Reveal"   -> ins

TraceAtOnce ==
  /\ phase = "dispatch"
  /\ batch.kind.tag \in {"Num2Bits", "IsZero", "Reveal"}
  /\ full' = FlattenSeq([s \in 1 .. batch.sites |-> FullTraceOf(batch.kind, SiteInputs(s))])
  /\ phase' = "selecting"
  /\ UNCHANGED <<batch, site, results, walkVars>>
  /\ UNCHANGED checkVars

BeginAliasSite ==
  /\ batch.kind.tag = "AliasCheck"
  /\ phase = "dispatch" \/ (phase = "tracing" /\ out # 2 /\ site < batch.sites)
  /\ site' = site + 1
  /\ full' = IF phase = "dispatch" THEN full ELSE full \o Alias!AliasTrace
  /\ Alias!BeginAlias(SiteInputs(site + 1))
  /\ phase' = "tracing"
  /\ UNCHANGED <<batch, results, walkVars>>

TraceAlias ==
  /\ phase = "tracing"
  /\ batch.kind.tag = "AliasCheck"
  /\ Alias!AliasStep
  /\ UNCHANGED serviceVars /\ UNCHANGED walkVars

EndAliasSites ==
  /\ phase = "tracing"
  /\ batch.kind.tag = "AliasCheck"
  /\ out # 2 /\ site = batch.sites
  /\ full' = full \o Alias!AliasTrace
  /\ phase' = "selecting"
  /\ UNCHANGED <<batch, site, results, walkVars>>
  /\ UNCHANGED checkVars

(* Every site has an equal share of the results.                           *)
SelectRequests ==
  /\ phase = "selecting"
  /\ LET capacity == Len(full) \div batch.sites
         row(s)   == RowOfSite(s)
     IN  IF \/ Len(full) % batch.sites # 0
            \/ \E s \in 1 .. batch.sites : \E logical \in ToSet(row(s)) : logical >= capacity
         THEN /\ phase' = "failed"
              /\ UNCHANGED results
         ELSE /\ results' = FlattenSeq([s \in 1 .. batch.sites |->
                              [n \in DOMAIN row(s) |-> full[(s - 1) * capacity + row(s)[n] + 1]]])
              /\ phase' = "storing"
  /\ UNCHANGED <<batch, site, full, walkVars>>
  /\ UNCHANGED checkVars

(* As many results as there are targets, one per request.                  *)
StoreResults ==
  /\ phase = "storing"
  /\ phase' = IF Len(results) = Len(batch.requests) THEN "stored" ELSE "failed"
  /\ UNCHANGED <<batch, site, full, results, walkVars>>
  /\ UNCHANGED checkVars

Finished ==
  /\ phase \in {"stored", "failed"} \/ progress \in {"refused", "position not written"}
  /\ UNCHANGED vars

Next ==
  \/ DispatchPermutation \/ WalkPermutation \/ TakePermutation \/ TakePrecomputed
  \/ TraceAtOnce \/ BeginAliasSite \/ TraceAlias \/ EndAliasSites
  \/ SelectRequests \/ StoreResults \/ Finished

Spec == Init /\ [][Next]_vars
-----------------------------------------------------------------------------
(* Properties.                                                             *)

States == {SubSeq(c.inputs, (s - 1) * c.kind.n + 1, s * c.kind.n) :
             <<c, s>> \in {x \in Batches \X (1 .. 8) :
                             /\ x[1].kind.tag \in {"Poseidon2", "PrecomputedPoseidon2"}
                             /\ x[1].kind.n \in SupportedWidths
                             /\ x[2] <= Len(x[1].inputs) \div x[1].kind.n}}

PermutationTraces == [input0 \in States |-> PermutationTrace(input0)]

(* The signals of an alias check's template. A pair of bits above the      *)
(* constant's weighs less the higher it is, a pair below more; what comes  *)
(* out is whether the input is above the constant.                         *)
AliasSignals(bits) ==
  LET pairs   == AliasBits \div 2
      pair(v, n) == 2 * v[2 * n] + v[2 * n - 1]
      part(n) == CASE pair(bits, n) = pair(constant, n) -> 0
                   [] pair(bits, n) > pair(constant, n) -> (2 ^ (pairs + 1) - 2 ^ (n - 1)) % P
                   [] pair(bits, n) < pair(constant, n) -> 2 ^ (n - 1)
      sum     == MapThenSumSet(part, 1 .. pairs) % P
      above   == Alias!ValueOf(bits) > Alias!ValueOf(constant)
  IN  <<IF above THEN 1 ELSE 0>> \o bits \o [n \in 1 .. pairs |-> part(n)] \o <<sum>>
        \o [n \in 1 .. (pairs + 8) |-> (sum \div 2 ^ (n - 1)) % 2] \o <<sum>>

SignalsOf(kind, ins) ==
  CASE kind.tag \in {"Poseidon2", "PrecomputedPoseidon2"} -> PermutationTraces[ins]
    [] kind.tag = "AliasCheck" -> AliasSignals(ins)
    [] OTHER                   -> FullTraceOf(kind, ins)

IsServable ==
  IsPermutation => batch.kind.n \in SupportedWidths
                     /\ Len(batch.inputs) = batch.sites * batch.kind.n

(* A batch is served as its circuit has it: every result that is stored is *)
(* the signal of that number in the site's template, for every site and    *)
(* every row of requests, and no batch of a supported width fails. The     *)
(* templates have as many signals as the program's tables say.             *)
ServedAsTheCircuit ==
  /\ phase # "failed" /\ (IsServable => progress \in {"idle", "walking", "done"})
  /\ phase = "stored" =>
       /\ IsServable
       /\ \A s \in 1 .. batch.sites : \E signals \in {SignalsOf(batch.kind, SiteInputs(s))} :
            /\ Len(signals) = ExpectedResults(batch.kind)
            /\ \A n \in DOMAIN RowOfSite(s) :
                 results[batch.offsets[s] + n] = signals[RowOfSite(s)[n] + 1]

(* A higher pair of bits overrules all lower ones (AliasCheck).            *)
HigherPairsOverrule == Alias!HigherPairsOverrule
=============================================================================
