------------------------- MODULE ThreePartiesProofs -------------------------
(***************************************************************************)
(* Proofs about ThreeParties, for every program, every number of rounds    *)
(* and every choice of mistakes: the parties meet in the same exchange     *)
(* with the same masks, the budgets and rounds derived from the program    *)
(* are those of the run, and a caller's mistake is never taken for a       *)
(* success by the party that depends on it.                                *)
(*                                                                         *)
(* The inductive invariant describes each party by its position: the       *)
(* exchanges it has begun and the messages it has heard. Everything else,  *)
(* the channels, the pool, the traces and the counter, is a function of    *)
(* those positions and of the tasks.                                       *)
(*                                                                         *)
(* First, what the list of a party's tasks is like, for every program: the *)
(* tasks of the host come first, a complete service for each batch it      *)
(* computes ahead, then the run's own. With it, sums along the list: the   *)
(* masks drawn since the pool was prepared, which end at the budget        *)
(* derived from the program, the exchanges counted, the traces queued and  *)
(* consumed.                                                               *)
(***************************************************************************)
EXTENDS ThreeParties, FiniteSets, NumberTheorems

(* The tasks there are.                                                    *)
TaskSet ==
  InstructionSet
    \cup [kind : {"NewService", "Trace"}, t : DOMAIN PartialRounds, sites : Nat]
    \cup [kind : {"FinishService", "ResetCounter", "NewDriver", "InitializeInputs",
                  "FinishRun", "Open"}]

ExchangeSet == [pattern : {"reshare", "broadcast"}, masks : Nat]

MessageSet == [task : Nat, round : Nat, masks : Nat]

PoolSet == [size : Nat, consumed : Nat, before : Nat]

(* The parties do what the program asks of them.                           *)
Scheduled == program \in Programs /\ tasks = Tasks(program)

(* Where the run begins: the host's tasks are before, the program after.   *)
ResetAt == Len(HostTasks(program)) + 1

DriverAt == ResetAt + 1
-----------------------------------------------------------------------------
(* The masks a task draws, the first r of its exchanges, and all tasks     *)
(* since a pool was prepared.                                              *)

Draws(task) == \/ task.kind = "Trace"
               \/ task.kind = "Poseidon2" /\ task.shared

TaskMasks(task) == IF Draws(task) THEN MaskElements(task.t, task.sites) ELSE 0

FirstDrawn(full, partial, sites, r) ==
  IF r <= FullRounds THEN r * full
  ELSE IF r <= FullRounds + partial THEN FullRounds * full + (r - FullRounds) * sites
  ELSE (r - partial) * full + partial * sites

DrawnBy(task, r) ==
  IF Draws(task)
  THEN FirstDrawn(task.t * task.sites, PartialRounds[task.t], task.sites, r)
  ELSE 0

Prepares(task) == task.kind \in {"NewService", "NewDriver"}

SincePool(a) ==
  {b \in DOMAIN tasks : b < a /\ \A c \in DOMAIN tasks : b < c /\ c < a => ~ Prepares(tasks[c])}

Masks == [b \in DOMAIN tasks |-> TaskMasks(tasks[b])]

SpentBefore(a) == SumFunctionOnSet(Masks, SincePool(a))

(* The size of the pool at a task: a service's is that of its one trace.   *)
PoolSize(a) ==
  IF a > DriverAt THEN MaskBudget(program)
  ELSE IF tasks[a].kind = "Trace" THEN MaskElements(tasks[a].t, tasks[a].sites)
  ELSE SpentBefore(a)

(* The exchanges before a task that the counter counts, and the batches    *)
(* traced and served before it.                                            *)
Lengths == [b \in DOMAIN tasks |-> Len(Exchanges(tasks[b]))]

CountedBefore(a) == {b \in DOMAIN tasks : b < a /\ (a > ResetAt => b > ResetAt)}

RoundsBefore(a) == SumFunctionOnSet(Lengths, CountedBefore(a))

TracedBefore(a) == {b \in DOMAIN tasks : b < a /\ tasks[b].kind = "Trace"}

ServedBefore(a) == {b \in DOMAIN tasks : b < a /\ tasks[b].kind = "Precomputed"}
-----------------------------------------------------------------------------
(* The exchanges of a task.                                                *)

(* The elements a batch draws are a number.                                *)
LEMMA MaskElementsType ==
  ASSUME NEW t \in DOMAIN PartialRounds, NEW sites \in Nat
  PROVE  MaskElements(t, sites) \in Nat
  BY RoundsAssumption DEF MaskElements

(* The budget derived from a program is a number.                          *)
LEMMA MaskBudgetType ==
  ASSUME NEW prog \in Seq(InstructionSet)
  PROVE  MaskBudget(prog) \in Nat
<1> DEFINE own == {m \in DOMAIN prog : Budgeted(prog[m])}
           w == [n \in own |-> MaskElements(prog[n].t, prog[n].sites)]
<1>1. IsFiniteSet(own)
  <2>1. IsFiniteSet(DOMAIN prog)
    BY FS_Interval
  <2> QED
    BY <2>1, FS_Subset
<1>2. ASSUME NEW n \in own
      PROVE  w[n] \in Nat
  <2>1. prog[n] \in InstructionSet /\ prog[n].kind = "Poseidon2"
    BY DEF Budgeted
  <2>2. prog[n].t \in DOMAIN PartialRounds /\ prog[n].sites \in Nat
    BY <2>1 DEF InstructionSet
  <2> QED
    BY <2>2, MaskElementsType
<1> HIDE DEF w
<1>3. SumFunctionOnSet(w, own) \in Nat
  BY <1>1, <1>2, SumTakesOff
<1>4. MaskBudget(prog) = SumFunctionOnSet(w, own)
  BY DEF MaskBudget, SumFunction, w
<1> QED
  BY <1>3, <1>4

(* What a task that draws is made of.                                      *)
LEMMA DrawingTask ==
  ASSUME NEW task \in TaskSet, Draws(task)
  PROVE  task.t \in DOMAIN PartialRounds /\ task.sites \in Nat
  BY DEF TaskSet, InstructionSet, Draws

(* A walk has drawn nothing at first, and all of its share at its end.     *)
LEMMA FirstDrawnEnds ==
  ASSUME NEW full \in Nat, NEW partial \in Nat, NEW sites \in Nat
  PROVE  /\ FirstDrawn(full, partial, sites, 0) = 0
         /\ FirstDrawn(full, partial, sites, 2 * FullRounds + partial)
              = 2 * FullRounds * full + partial * sites
<1> USE RoundsAssumption
<1>1. FirstDrawn(full, partial, sites, 0) = 0
  BY DEF FirstDrawn
<1>2. CASE FullRounds = 0 /\ partial = 0
  BY <1>1, <1>2
<1>3. CASE FullRounds = 0 /\ partial > 0
  BY <1>3 DEF FirstDrawn
<1>4. CASE FullRounds > 0
  BY <1>4 DEF FirstDrawn
<1> QED
  BY <1>1, <1>2, <1>3, <1>4

(* A walk draws in each exchange what FirstDrawn adds up.                  *)
LEMMA FirstDrawnSteps ==
  ASSUME NEW full \in Nat, NEW partial \in Nat, NEW sites \in Nat, NEW r \in Nat,
         r < 2 * FullRounds + partial
  PROVE  /\ FirstDrawn(full, partial, sites, r) \in Nat
         /\ FirstDrawn(full, partial, sites, r + 1) =
              FirstDrawn(full, partial, sites, r)
                + (IF r + 1 \in (FullRounds + 1) .. (FullRounds + partial) THEN sites ELSE full)
         /\ FirstDrawn(full, partial, sites, r + 1)
              <= FirstDrawn(full, partial, sites, 2 * FullRounds + partial)
<1> USE RoundsAssumption
<1>1. \A x, y \in Nat : x * y \in Nat
  OBVIOUS
<1>3. FirstDrawn(full, partial, sites, r) \in Nat
  BY <1>1 DEF FirstDrawn
<1>4. FirstDrawn(full, partial, sites, r + 1) =
        FirstDrawn(full, partial, sites, r)
          + (IF r + 1 \in (FullRounds + 1) .. (FullRounds + partial) THEN sites ELSE full)
  <2>1. CASE r + 1 <= FullRounds
    BY <2>1 DEF FirstDrawn
  <2>2. CASE r + 1 > FullRounds /\ r + 1 <= FullRounds + partial
    BY <2>2 DEF FirstDrawn
  <2>3. CASE r + 1 > FullRounds + partial
    <3>1. FirstDrawn(full, partial, sites, r + 1) = (r + 1 - partial) * full + partial * sites
      BY <2>3 DEF FirstDrawn
    <3>2. (r + 1 - partial) * full = (r - partial) * full + full
      OBVIOUS
    <3>3. FirstDrawn(full, partial, sites, r) = (r - partial) * full + partial * sites
      <4>1. CASE r > FullRounds + partial
        BY <4>1 DEF FirstDrawn
      <4>2. CASE r = FullRounds + partial /\ partial > 0
        BY <4>2 DEF FirstDrawn
      <4>3. CASE r = FullRounds + partial /\ partial = 0
        BY <4>3 DEF FirstDrawn
      <4>4. \/ r > FullRounds + partial
            \/ r = FullRounds + partial /\ partial > 0
            \/ r = FullRounds + partial /\ partial = 0
        BY <2>3
      <4> QED
        BY <4>1, <4>2, <4>3, <4>4, Zenon
    <3>4. (r - partial) * full \in Int /\ partial * sites \in Int
      OBVIOUS
    <3> QED
      BY <2>3, <3>1, <3>2, <3>3, <3>4
  <2> QED
    BY <2>1, <2>2, <2>3
<1>5. FirstDrawn(full, partial, sites, r + 1)
        <= FirstDrawn(full, partial, sites, 2 * FullRounds + partial)
  <2> DEFINE total == 2 * FullRounds * full + partial * sites
  <2>1. FirstDrawn(full, partial, sites, 2 * FullRounds + partial) = total
    BY DEF FirstDrawn
  <2>2. CASE r + 1 <= FullRounds
    <3>1. total - (r + 1) * full = (2 * FullRounds - (r + 1)) * full + partial * sites
      OBVIOUS
    <3>2. (2 * FullRounds - (r + 1)) * full \in Nat /\ partial * sites \in Nat
      BY <1>1, <2>2
    <3> QED
      BY <2>1, <2>2, <3>1, <3>2 DEF FirstDrawn
  <2>3. CASE r + 1 > FullRounds /\ r + 1 <= FullRounds + partial
    <3>1. total - (FullRounds * full + (r + 1 - FullRounds) * sites)
            = FullRounds * full + (FullRounds + partial - (r + 1)) * sites
      OBVIOUS
    <3>2. FullRounds * full \in Nat /\ (FullRounds + partial - (r + 1)) * sites \in Nat
      BY <1>1, <2>3
    <3> QED
      BY <2>1, <2>3, <3>1, <3>2 DEF FirstDrawn
  <2>4. CASE r + 1 > FullRounds + partial
    <3>1. total - ((r + 1 - partial) * full + partial * sites)
            = (2 * FullRounds + partial - (r + 1)) * full
      OBVIOUS
    <3>2. (2 * FullRounds + partial - (r + 1)) * full \in Nat
      BY <1>1, <2>4
    <3>3. FirstDrawn(full, partial, sites, r + 1) = (r + 1 - partial) * full + partial * sites
      BY <2>4 DEF FirstDrawn
    <3>4. total \in Int /\ (r + 1 - partial) * full + partial * sites \in Int
      OBVIOUS
    <3> HIDE DEF total
    <3> QED
      BY <2>1, <3>1, <3>2, <3>3, <3>4
  <2> QED
    BY <2>2, <2>3, <2>4
<1> QED
  BY <1>3, <1>4, <1>5

(* A function on 1 .. n is a sequence of its values.                       *)
LEMMA CountedSequence ==
  ASSUME NEW n \in Nat, NEW S, NEW f \in [1 .. n -> S]
  PROVE  f \in Seq(S) /\ Len(f) = n /\ DOMAIN f = 1 .. n
  OBVIOUS

(* The length and the elements of a concatenation.                         *)
LEMMA ConcatenationShape ==
  ASSUME NEW S, NEW s \in Seq(S), NEW t \in Seq(S)
  PROVE  /\ s \o t \in Seq(S)
         /\ Len(s \o t) = Len(s) + Len(t)
         /\ DOMAIN (s \o t) = 1 .. (Len(s) + Len(t))
         /\ \A i \in 1 .. Len(s) : (s \o t)[i] = s[i]
         /\ \A j \in 1 .. Len(t) : (s \o t)[Len(s) + j] = t[j]
  OBVIOUS

(* A permutation's walk: a sequence of reshares, with its masks.           *)
LEMMA WalkShape ==
  ASSUME NEW t \in DOMAIN PartialRounds, NEW sites \in Nat
  PROVE  /\ Walk(t, sites) \in Seq(ExchangeSet)
         /\ Len(Walk(t, sites)) = 2 * FullRounds + PartialRounds[t]
         /\ \A n \in 1 .. (2 * FullRounds + PartialRounds[t]) :
              /\ Walk(t, sites)[n].pattern = "reshare"
              /\ Walk(t, sites)[n].masks =
                   IF n \in (FullRounds + 1) .. (FullRounds + PartialRounds[t]) THEN sites
                   ELSE t * sites
<1> USE RoundsAssumption
<1> DEFINE n == 2 * FullRounds + PartialRounds[t]
<1>1. n \in Nat /\ t \in Nat /\ t * sites \in Nat
  OBVIOUS
<1>2. Walk(t, sites) \in [1 .. n -> ExchangeSet]
  BY <1>1 DEF Walk, Exchange, ExchangeSet
<1>3. Walk(t, sites) \in Seq(ExchangeSet) /\ Len(Walk(t, sites)) = n
  BY <1>1, <1>2, CountedSequence
<1> QED
  BY <1>1, <1>3 DEF Walk, Exchange

(* The preparation of a pool: none, or three reshares without masks.       *)
LEMMA PreparationShape ==
  ASSUME NEW elements
  PROVE  /\ Preparation(elements) \in Seq(ExchangeSet)
         /\ \A n \in 1 .. Len(Preparation(elements)) : Preparation(elements)[n].masks = 0
<1>1. CASE elements = 0
  BY <1>1 DEF Preparation
<1>2. CASE elements # 0
  <2>1. Preparation(elements) = [n \in 1 .. 3 |-> Exchange("reshare", 0)]
    BY <1>2 DEF Preparation
  <2>2. Preparation(elements) \in [1 .. 3 -> ExchangeSet]
    BY <2>1 DEF Exchange, ExchangeSet
  <2>3. Preparation(elements) \in Seq(ExchangeSet) /\ Len(Preparation(elements)) = 3
    BY <2>2, CountedSequence
  <2> QED
    BY <2>1, <2>3 DEF Exchange
<1> QED
  BY <1>1, <1>2

(* What the exchanges of a task that draws no masks are.                   *)
LEMMA PlainExchanges ==
  ASSUME NEW task \in TaskSet, ~ Draws(task)
  PROVE  /\ Exchanges(task) \in Seq(ExchangeSet)
         /\ \A n \in 1 .. Len(Exchanges(task)) : Exchanges(task)[n].masks = 0
<1>1. Exchange("reshare", 0) \in ExchangeSet /\ Exchange("broadcast", 0) \in ExchangeSet
  BY DEF Exchange, ExchangeSet
<1>2. Exchange("reshare", 0).masks = 0 /\ Exchange("broadcast", 0).masks = 0
  BY DEF Exchange
<1>3. CASE task.kind = "NewService"
  <2>1. Exchanges(task) = Preparation(MaskElements(task.t, task.sites))
    BY <1>3 DEF Exchanges
  <2> QED
    BY <2>1, PreparationShape
<1>4. CASE task.kind = "NewDriver"
  <2>1. Exchanges(task) = Preparation(MaskBudget(program))
    BY <1>4 DEF Exchanges
  <2> QED
    BY <2>1, PreparationShape
<1>5. CASE task.kind = "IsZeroReveal"
  <2>1. Exchanges(task) = <<Exchange("broadcast", 0)>>
    BY <1>5 DEF Exchanges
  <2> QED
    BY <1>1, <1>2, <2>1
<1>6. CASE task.kind \in {"Reshare", "Open"} \/ (task.kind = "Reveal" /\ task.shared)
  <2>1. Exchanges(task) = <<Exchange("reshare", 0)>>
    BY <1>6 DEF Exchanges
  <2> QED
    BY <1>1, <1>2, <2>1
<1>7. CASE /\ task.kind \notin {"NewService", "NewDriver", "IsZeroReveal", "Reshare", "Open"}
           /\ ~ (task.kind = "Reveal" /\ task.shared)
  <2>1. Exchanges(task) = <<>>
    BY <1>7 DEF Exchanges, Draws
  <2> QED
    BY <2>1
<1> QED
  BY <1>3, <1>4, <1>5, <1>6, <1>7

(* What a task has drawn by an exchange adds up that exchange's masks, and *)
(* is what the task draws altogether when it is over.                      *)
LEMMA ExchangesShape ==
  ASSUME NEW task \in TaskSet
  PROVE  /\ Exchanges(task) \in Seq(ExchangeSet)
         /\ TaskMasks(task) \in Nat
         /\ DrawnBy(task, 0) = 0
         /\ DrawnBy(task, Len(Exchanges(task))) = TaskMasks(task)
         /\ \A r \in Nat : r < Len(Exchanges(task)) =>
              /\ DrawnBy(task, r) \in Nat
              /\ DrawnBy(task, r + 1) = DrawnBy(task, r) + Exchanges(task)[r + 1].masks
              /\ DrawnBy(task, r + 1) <= TaskMasks(task)
<1>1. CASE ~ Draws(task)
  <2>1. TaskMasks(task) = 0 /\ \A r \in Nat : DrawnBy(task, r) = 0
    BY <1>1 DEF TaskMasks, DrawnBy
  <2>2. /\ Exchanges(task) \in Seq(ExchangeSet)
        /\ \A n \in 1 .. Len(Exchanges(task)) : Exchanges(task)[n].masks = 0
    BY <1>1, PlainExchanges
  <2> QED
    BY <2>1, <2>2
<1>2. CASE Draws(task)
  <2> DEFINE t == task.t
             sites == task.sites
             full == t * sites
             partial == PartialRounds[t]
             n == 2 * FullRounds + partial
  <2>1. t \in DOMAIN PartialRounds /\ sites \in Nat
    BY <1>2, DrawingTask
  <2>2. partial \in Nat /\ t \in Nat /\ full \in Nat /\ n \in Nat
    BY <2>1, RoundsAssumption
  <2>3. Exchanges(task) = Walk(t, sites)
    BY <1>2 DEF Exchanges, Draws
  <2>4. \A r \in Nat : DrawnBy(task, r) = FirstDrawn(full, partial, sites, r)
    BY <1>2 DEF DrawnBy
  <2>5. TaskMasks(task) = MaskElements(t, sites)
    BY <1>2 DEF TaskMasks
  <2>6. Exchanges(task) \in Seq(ExchangeSet) /\ Len(Exchanges(task)) = n
    BY <2>1, <2>3, WalkShape
  <2> HIDE DEF full, partial
  <2>7. /\ FirstDrawn(full, partial, sites, 0) = 0
        /\ FirstDrawn(full, partial, sites, n) = 2 * FullRounds * full + partial * sites
    BY <2>1, <2>2, FirstDrawnEnds
  <2>8. FirstDrawn(full, partial, sites, n) = MaskElements(t, sites)
    <3>1. MaskElements(t, sites) = 2 * FullRounds * full + partial * sites
      BY <2>1, <2>2, RoundsAssumption DEF MaskElements, full, partial
    <3> QED
      BY <2>7, <3>1
  <2>9. MaskElements(t, sites) \in Nat
    BY <2>1, MaskElementsType
  <2>10. ASSUME NEW r \in Nat, r < n
         PROVE  /\ DrawnBy(task, r) \in Nat
                /\ DrawnBy(task, r + 1) = DrawnBy(task, r) + Exchanges(task)[r + 1].masks
                /\ DrawnBy(task, r + 1) <= TaskMasks(task)
    <3> HIDE DEF t, sites
    <3>1. /\ FirstDrawn(full, partial, sites, r) \in Nat
          /\ FirstDrawn(full, partial, sites, r + 1) =
               FirstDrawn(full, partial, sites, r)
                 + (IF r + 1 \in (FullRounds + 1) .. (FullRounds + partial) THEN sites ELSE full)
          /\ FirstDrawn(full, partial, sites, r + 1) <= FirstDrawn(full, partial, sites, n)
      <4>1. r < 2 * FullRounds + partial
        BY <2>10
      <4> QED
        BY <2>1, <2>2, <4>1, FirstDrawnSteps
    <3>2. r + 1 \in 1 .. n
      BY <2>2, <2>10
    <3>3. Exchanges(task)[r + 1].masks =
            IF r + 1 \in (FullRounds + 1) .. (FullRounds + partial) THEN sites ELSE full
      BY <2>1, <2>3, <3>2, WalkShape DEF partial, full
    <3> HIDE DEF n
    <3> QED
      BY <2>4, <2>5, <2>8, <3>1, <3>3
  <2> HIDE DEF n
  <2> QED
    BY <2>4, <2>5, <2>6, <2>7, <2>8, <2>9, <2>10
<1> QED
  BY <1>1, <1>2
-----------------------------------------------------------------------------
(* The host's tasks.                                                       *)

(* Their recursion over the program.                                       *)
HostStep(prog, host, n) ==
  IF n = 0 THEN <<>>
  ELSE IF Precomputed(prog[n]) THEN host[n - 1] \o Service(prog[n])
  ELSE host[n - 1]

ObeysHost(prog, host, m) == host = [n \in 0 .. m |-> HostStep(prog, host, n)]

TraceTasks(ts) == {i \in DOMAIN ts : ts[i].kind = "Trace"}

Hosted(prog, n) == {i \in 1 .. n : Precomputed(prog[i])}

(* Complete services, one after the other.                                 *)
Services(ts) ==
  /\ ts \in Seq(TaskSet)
  /\ \A i \in DOMAIN ts :
       /\ ts[i].kind \in {"NewService", "Trace", "FinishService"}
       /\ ts[i].kind = "NewService" =>
            /\ i + 1 \in DOMAIN ts /\ ts[i + 1].kind = "Trace"
            /\ ts[i + 1].t = ts[i].t /\ ts[i + 1].sites = ts[i].sites
       /\ ts[i].kind = "Trace" => i - 1 \in DOMAIN ts /\ ts[i - 1].kind = "NewService"

(* Some function obeys the recursion.                                      *)
LEMMA HostRecursionExists ==
  ASSUME NEW prog, NEW m \in Nat
  PROVE  \E host : ObeysHost(prog, host, m)
<1> DEFINE T == {n \in Nat : \E host : ObeysHost(prog, host, n)}
<1>1. 0 \in T
  <2> DEFINE host == [n \in 0 .. 0 |-> <<>>]
  <2>1. ObeysHost(prog, host, 0)
    BY DEF ObeysHost, HostStep
  <2> QED
    BY <2>1
<1>2. ASSUME NEW n \in T
      PROVE  n + 1 \in T
  <2>1. PICK host : ObeysHost(prog, host, n)
    OBVIOUS
  <2> DEFINE longer == [k \in 0 .. (n + 1) |-> HostStep(prog, host, k)]
  <2>2. \A k \in 0 .. n : longer[k] = host[k]
    BY <2>1 DEF ObeysHost
  <2>3. \A k \in 0 .. (n + 1) : k # 0 => k - 1 \in 0 .. n
    OBVIOUS
  <2>4. \A k \in 0 .. (n + 1) : HostStep(prog, host, k) = HostStep(prog, longer, k)
    <3> HIDE DEF longer
    <3> QED
      BY <2>2, <2>3 DEF HostStep
  <2>5. ObeysHost(prog, longer, n + 1)
    BY <2>4 DEF ObeysHost
  <2>6. \E h : ObeysHost(prog, h, n + 1)
    BY <2>5
  <2> HIDE DEF longer
  <2> QED
    BY <2>6
<1>3. T \in SUBSET Nat
  OBVIOUS
<1> HIDE DEF T
<1>4. T = Nat
  BY <1>1, <1>2, <1>3, NaturalsFrom0
<1> QED
  BY <1>4 DEF T

(* The host's tasks are what the recursion arrives at.                     *)
LEMMA HostTasksByRecursion ==
  ASSUME NEW prog, Len(prog) \in Nat
  PROVE  \E host : ObeysHost(prog, host, Len(prog)) /\ HostTasks(prog) = host[Len(prog)]
<1> DEFINE host == CHOOSE h : ObeysHost(prog, h, Len(prog))
<1>1. ObeysHost(prog, host, Len(prog))
  BY HostRecursionExists
<1>2. HostTasks(prog) = host[Len(prog)]
  BY DEF HostTasks, ObeysHost, HostStep
<1> QED
  BY <1>1, <1>2

(* Another service after complete ones.                                    *)
LEMMA ServicesGrow ==
  ASSUME NEW ts, Services(ts), NEW batch \in InstructionSet, Precomputed(batch)
  PROVE  /\ Services(ts \o Service(batch))
         /\ TraceTasks(ts \o Service(batch)) = TraceTasks(ts) \cup {Len(ts) + 2}
<1> DEFINE more == ts \o Service(batch)
           n == Len(ts)
<1>1. batch.t \in DOMAIN PartialRounds /\ batch.sites \in Nat
  BY DEF InstructionSet, Precomputed
<1>2. /\ Service(batch) \in Seq(TaskSet) /\ Len(Service(batch)) = 3
      /\ Service(batch)[1] = [kind |-> "NewService", t |-> batch.t, sites |-> batch.sites]
      /\ Service(batch)[2] = [kind |-> "Trace", t |-> batch.t, sites |-> batch.sites]
      /\ Service(batch)[3] = [kind |-> "FinishService"]
  BY <1>1 DEF Service, TaskSet
<1>3. ts \in Seq(TaskSet) /\ n \in Nat /\ DOMAIN ts = 1 .. n
  BY DEF Services
<1> DEFINE service == Service(batch)
<1>4. service \in Seq(TaskSet) /\ Len(service) = 3
  BY <1>2
<1> HIDE DEF service
<1>5. /\ ts \o service \in Seq(TaskSet)
      /\ Len(ts \o service) = n + 3
      /\ DOMAIN (ts \o service) = 1 .. (n + 3)
      /\ \A i \in 1 .. n : (ts \o service)[i] = ts[i]
      /\ \A j \in 1 .. 3 : (ts \o service)[n + j] = service[j]
  BY <1>3, <1>4, ConcatenationShape, SMTT(40)
<1>6. /\ more[n + 1] = [kind |-> "NewService", t |-> batch.t, sites |-> batch.sites]
      /\ more[n + 2] = [kind |-> "Trace", t |-> batch.t, sites |-> batch.sites]
      /\ more[n + 3] = [kind |-> "FinishService"]
  <2>1. \A j \in 1 .. 3 : more[n + j] = Service(batch)[j]
    BY <1>5 DEF service
  <2> HIDE DEF more, n
  <2> QED
    BY <1>2, <2>1
<1>7. /\ more \in Seq(TaskSet) /\ DOMAIN more = 1 .. (n + 3)
       /\ \A i \in 1 .. n : more[i] = ts[i]
  BY <1>5 DEF service
<1> HIDE DEF more, n
<1>8. \A i \in 1 .. (n + 3) : i \in 1 .. n \/ i = n + 1 \/ i = n + 2 \/ i = n + 3
  BY <1>3
<1>9. Services(more)
  <2>1. ASSUME NEW i \in 1 .. n
        PROVE  /\ more[i].kind \in {"NewService", "Trace", "FinishService"}
               /\ more[i].kind = "NewService" =>
                    /\ i + 1 \in 1 .. (n + 3) /\ more[i + 1].kind = "Trace"
                    /\ more[i + 1].t = more[i].t /\ more[i + 1].sites = more[i].sites
               /\ more[i].kind = "Trace" =>
                    i - 1 \in 1 .. (n + 3) /\ more[i - 1].kind = "NewService"
    <3>1. /\ ts[i].kind \in {"NewService", "Trace", "FinishService"}
          /\ ts[i].kind = "NewService" =>
               /\ i + 1 \in 1 .. n /\ ts[i + 1].kind = "Trace"
               /\ ts[i + 1].t = ts[i].t /\ ts[i + 1].sites = ts[i].sites
          /\ ts[i].kind = "Trace" => i - 1 \in 1 .. n /\ ts[i - 1].kind = "NewService"
      BY <1>3, ZenonT(80) DEF Services
    <3>2. more[i] = ts[i]
      BY <1>7
    <3>3. \A j \in 1 .. n : j \in 1 .. (n + 3) /\ more[j] = ts[j]
      BY <1>3, <1>7
    <3> QED
      BY <3>1, <3>2, <3>3
  <2>2. ASSUME NEW i \in {n + 1, n + 2, n + 3}
        PROVE  /\ more[i].kind \in {"NewService", "Trace", "FinishService"}
               /\ more[i].kind = "NewService" =>
                    /\ i + 1 \in 1 .. (n + 3) /\ more[i + 1].kind = "Trace"
                    /\ more[i + 1].t = more[i].t /\ more[i + 1].sites = more[i].sites
               /\ more[i].kind = "Trace" =>
                    i - 1 \in 1 .. (n + 3) /\ more[i - 1].kind = "NewService"
    BY <1>3, <1>6
  <2> QED
    BY <1>8, <1>7, <2>1, <2>2, SMTT(40) DEF Services
<1>10. TraceTasks(more) = TraceTasks(ts) \cup {n + 2}
  <2>1. \A i \in 1 .. (n + 3) : more[i].kind = "Trace" <=>
                                  i = n + 2 \/ (i \in 1 .. n /\ ts[i].kind = "Trace")
    BY <1>3, <1>6, <1>8, <1>7
  <2>2. n + 2 \in 1 .. (n + 3) /\ 1 .. n \subseteq 1 .. (n + 3)
    BY <1>3
  <2> QED
    BY <1>3, <1>7, <2>1, <2>2 DEF TraceTasks
<1> QED
  BY <1>9, <1>10 DEF more, n

(* The host serves each of the program's precomputed batches once.         *)
LEMMA HostTasksShape ==
  ASSUME NEW prog \in Seq(InstructionSet)
  PROVE  /\ Services(HostTasks(prog))
         /\ Cardinality(TraceTasks(HostTasks(prog))) = Cardinality(Hosted(prog, Len(prog)))
         /\ HostTasks(prog) # <<>> => TraceTasks(HostTasks(prog)) # {}
<1>1. PICK host : ObeysHost(prog, host, Len(prog)) /\ HostTasks(prog) = host[Len(prog)]
  BY HostTasksByRecursion
<1> DEFINE Fine(n) == /\ Services(host[n])
                      /\ Cardinality(TraceTasks(host[n])) = Cardinality(Hosted(prog, n))
                      /\ host[n] # <<>> => TraceTasks(host[n]) # {}
           T == {n \in Nat : n <= Len(prog) => Fine(n)}
<1>2. \A n \in 0 .. Len(prog) : host[n] = HostStep(prog, host, n)
  BY <1>1 DEF ObeysHost
<1>3. 0 \in T
  <2>1. host[0] = <<>>
    BY <1>2 DEF HostStep
  <2>2. Services(host[0])
    BY <2>1 DEF Services
  <2>3. TraceTasks(host[0]) = {} /\ Hosted(prog, 0) = {}
    BY <2>1 DEF TraceTasks, Hosted
  <2> QED
    BY <2>1, <2>2, <2>3
<1>4. ASSUME NEW n \in T
      PROVE  n + 1 \in T
  <2> SUFFICES ASSUME n + 1 <= Len(prog)
               PROVE  Fine(n + 1)
    OBVIOUS
  <2>1. n \in Nat /\ Fine(n) /\ n + 1 \in 0 .. Len(prog) /\ prog[n + 1] \in InstructionSet
    OBVIOUS
  <2>2. IsFiniteSet(Hosted(prog, n))
    <3>1. Hosted(prog, n) \in SUBSET (1 .. n) /\ IsFiniteSet(1 .. n)
      BY <2>1, FS_Interval DEF Hosted
    <3> QED
      BY <3>1, FS_Subset
  <2>3. CASE Precomputed(prog[n + 1])
    <3>1. host[n + 1] = host[n] \o Service(prog[n + 1])
      <4>1. host[n + 1] = HostStep(prog, host, n + 1) /\ n + 1 # 0 /\ (n + 1) - 1 = n
        BY <1>2, <2>1
      <4> QED
        BY <2>3, <4>1 DEF HostStep
    <3>2. /\ Services(host[n + 1])
          /\ TraceTasks(host[n + 1]) = TraceTasks(host[n]) \cup {Len(host[n]) + 2}
      BY <2>1, <2>3, <3>1, ServicesGrow
    <3>3. Hosted(prog, n + 1) = Hosted(prog, n) \cup {n + 1} /\ n + 1 \notin Hosted(prog, n)
      BY <2>1, <2>3 DEF Hosted
    <3>4. Cardinality(Hosted(prog, n + 1)) = Cardinality(Hosted(prog, n)) + 1
      BY <2>2, <3>3, FS_AddElement
    <3>5. host[n] \in Seq(TaskSet)
      BY <2>1 DEF Services
    <3>6. Len(host[n]) + 2 \notin TraceTasks(host[n]) /\ IsFiniteSet(TraceTasks(host[n]))
      <4> DEFINE k == Len(host[n])
      <4>1. k \in Nat /\ DOMAIN host[n] = 1 .. k
        BY <3>5
      <4>2. TraceTasks(host[n]) \in SUBSET (1 .. k)
        BY <4>1 DEF TraceTasks
      <4> HIDE DEF k
      <4>3. IsFiniteSet(1 .. k) /\ k + 2 \notin 1 .. k
        BY <4>1, FS_Interval
      <4>4. k + 2 \notin TraceTasks(host[n]) /\ IsFiniteSet(TraceTasks(host[n]))
        BY <4>2, <4>3, FS_Subset
      <4> QED
        BY <4>4 DEF k
    <3>7. Cardinality(TraceTasks(host[n + 1])) = Cardinality(TraceTasks(host[n])) + 1
      BY <3>2, <3>6, FS_AddElement
    <3> QED
      BY <2>1, <3>2, <3>4, <3>7
  <2>4. CASE ~ Precomputed(prog[n + 1])
    <3>1. host[n + 1] = host[n]
      <4>1. host[n + 1] = HostStep(prog, host, n + 1) /\ n + 1 # 0 /\ (n + 1) - 1 = n
        BY <1>2, <2>1
      <4> QED
        BY <2>4, <4>1 DEF HostStep
    <3>2. Hosted(prog, n + 1) = Hosted(prog, n)
      BY <2>1, <2>4 DEF Hosted
    <3> QED
      BY <2>1, <3>1, <3>2
  <2> QED
    BY <2>3, <2>4
<1>5. T \in SUBSET Nat
  OBVIOUS
<1>6. T = Nat
  <2> HIDE DEF T
  <2> QED
    BY <1>3, <1>4, <1>5, NaturalsFrom0
<1> QED
  BY <1>1, <1>6
-----------------------------------------------------------------------------
(* The list of tasks.                                                      *)

(* A sequence of which the one half is s, the other t.                     *)
Joins(u, s, t) ==
  /\ Len(u) = Len(s) + Len(t)
  /\ \A i \in 1 .. Len(s) : u[i] = s[i]
  /\ \A i \in 1 .. Len(t) : u[Len(s) + i] = t[i]

(* A concatenation joins two sequences.                                    *)
LEMMA ConcatenationJoins ==
  ASSUME NEW S, NEW s \in Seq(S), NEW t \in Seq(S)
  PROVE  s \o t \in Seq(S) /\ Joins(s \o t, s, t)
  BY DEF Joins

(* The elements of four sequences, one after the other.                    *)
LEMMA FourParts ==
  ASSUME NEW s1, NEW s2, NEW s3, NEW s4, NEW t1, NEW t2, NEW ts,
         Len(s1) \in Nat, Len(s2) \in Nat, Len(s3) \in Nat, Len(s4) \in Nat,
         Joins(t1, s1, s2), Joins(t2, t1, s3), Joins(ts, t2, s4)
  PROVE  /\ Len(ts) = Len(s1) + Len(s2) + Len(s3) + Len(s4)
         /\ \A i \in 1 .. Len(s1) : ts[i] = s1[i]
         /\ \A i \in 1 .. Len(s2) : ts[Len(s1) + i] = s2[i]
         /\ \A i \in 1 .. Len(s3) : ts[Len(s1) + Len(s2) + i] = s3[i]
         /\ \A i \in 1 .. Len(s4) : ts[Len(s1) + Len(s2) + Len(s3) + i] = s4[i]
<1>1. /\ Len(t1) = Len(s1) + Len(s2) /\ Len(t2) = Len(t1) + Len(s3)
      /\ Len(ts) = Len(t2) + Len(s4)
  BY DEF Joins
<1>2. \A i \in 1 .. Len(s1) : ts[i] = s1[i]
  <2>1. \A i \in 1 .. Len(s1) : i \in 1 .. Len(t1) /\ i \in 1 .. Len(t2)
    BY <1>1
  <2> QED
    BY <2>1 DEF Joins
<1>3. \A i \in 1 .. Len(s2) : ts[Len(s1) + i] = s2[i]
  <2>1. \A i \in 1 .. Len(s2) : Len(s1) + i \in 1 .. Len(t1) /\ Len(s1) + i \in 1 .. Len(t2)
    BY <1>1
  <2> QED
    BY <2>1 DEF Joins
<1>4. \A i \in 1 .. Len(s3) : ts[Len(t1) + i] = s3[i]
  <2>1. \A i \in 1 .. Len(s3) : Len(t1) + i \in 1 .. Len(t2)
    BY <1>1
  <2> QED
    BY <2>1 DEF Joins
<1>5. \A i \in 1 .. Len(s4) : ts[Len(t2) + i] = s4[i]
  BY DEF Joins
<1> QED
  BY <1>1, <1>2, <1>3, <1>4, <1>5

(* Where each part of the list is, after h tasks of the host.              *)
Arranged(ts, prog, h) ==
  /\ ts \in Seq(TaskSet) /\ Len(ts) = h + Len(prog) + 5
  /\ h \in Nat /\ Len(prog) \in Nat
  /\ \A i \in 1 .. h : ts[i] = HostTasks(prog)[i]
  /\ ts[h + 1] = [kind |-> "ResetCounter"]
  /\ ts[h + 2] = [kind |-> "NewDriver"]
  /\ ts[h + 3] = [kind |-> "InitializeInputs"]
  /\ \A i \in 1 .. Len(prog) : ts[h + 3 + i] = prog[i]
  /\ ts[h + Len(prog) + 4] = [kind |-> "FinishRun"]
  /\ ts[h + Len(prog) + 5] = [kind |-> "Open"]

(* A program's tasks are arranged so.                                      *)
LEMMA TaskList ==
  ASSUME NEW prog \in Seq(InstructionSet)
  PROVE  Arranged(Tasks(prog), prog, Len(HostTasks(prog)))
<1>1. PICK host : host = HostTasks(prog)
  OBVIOUS
<1>2. host \in Seq(TaskSet)
  BY <1>1, HostTasksShape DEF Services
<1>3. PICK start : start = <<[kind |-> "ResetCounter"], [kind |-> "NewDriver"],
                             [kind |-> "InitializeInputs"]>>
  OBVIOUS
<1>4. start \in Seq(TaskSet) /\ Len(start) = 3
  BY <1>3 DEF TaskSet
<1>5. /\ start[1] = [kind |-> "ResetCounter"] /\ start[2] = [kind |-> "NewDriver"]
      /\ start[3] = [kind |-> "InitializeInputs"]
  BY <1>3
<1>6. /\ Closing \in Seq(TaskSet) /\ Len(Closing) = 2
      /\ Closing[1] = [kind |-> "FinishRun"] /\ Closing[2] = [kind |-> "Open"]
  BY DEF Closing, TaskSet
<1>7. prog \in Seq(TaskSet) /\ Len(prog) \in Nat /\ Len(host) \in Nat
  <2>1. InstructionSet \subseteq TaskSet
    BY DEF TaskSet
  <2> QED
    BY <1>2, <2>1
<1>8. PICK ts : ts = Tasks(prog)
  OBVIOUS
<1>9. Tasks(prog) = ((host \o start) \o prog) \o Closing
  BY <1>1, <1>3 DEF Tasks
<1>10. /\ ts \in Seq(TaskSet)
       /\ Len(ts) = Len(host) + Len(start) + Len(prog) + Len(Closing)
       /\ \A i \in 1 .. Len(host) : ts[i] = host[i]
       /\ \A i \in 1 .. Len(start) : ts[Len(host) + i] = start[i]
       /\ \A i \in 1 .. Len(prog) : ts[Len(host) + Len(start) + i] = prog[i]
       /\ \A i \in 1 .. Len(Closing) :
            ts[Len(host) + Len(start) + Len(prog) + i] = Closing[i]
  <2>1. PICK t1 \in Seq(TaskSet) : t1 = host \o start /\ Joins(t1, host, start)
    BY <1>2, <1>4, ConcatenationJoins
  <2>2. PICK t2 \in Seq(TaskSet) : t2 = t1 \o prog /\ Joins(t2, t1, prog)
    BY <1>7, ConcatenationJoins
  <2>3. ts = t2 \o Closing
    BY <1>8, <1>9, <2>1, <2>2
  <2>4. ts \in Seq(TaskSet) /\ Joins(ts, t2, Closing)
    BY <1>6, <2>3, ConcatenationJoins
  <2>5. Len(start) \in Nat /\ Len(Closing) \in Nat
    BY <1>4, <1>6
  <2> QED
    BY <1>7, <2>1, <2>2, <2>4, <2>5, FourParts
<1>11. /\ Len(host) + Len(start) + Len(prog) + 1 = Len(host) + Len(prog) + 4
       /\ Len(host) + Len(start) + Len(prog) + 2 = Len(host) + Len(prog) + 5
       /\ 1 \in 1 .. 3 /\ 2 \in 1 .. 3 /\ 3 \in 1 .. 3 /\ 1 \in 1 .. 2 /\ 2 \in 1 .. 2
  BY <1>4, <1>7
<1>12. /\ ts[Len(host) + 1] = start[1] /\ ts[Len(host) + 2] = start[2]
       /\ ts[Len(host) + 3] = start[3]
       /\ ts[Len(host) + Len(prog) + 4] = Closing[1]
       /\ ts[Len(host) + Len(prog) + 5] = Closing[2]
  BY <1>4, <1>6, <1>10, <1>11
<1>13. /\ Len(ts) = Len(host) + Len(prog) + 5
       /\ \A i \in 1 .. Len(prog) : ts[Len(host) + 3 + i] = prog[i]
  <2>1. Len(host) + Len(start) = Len(host) + 3
    BY <1>4
  <2>2. Len(host) + Len(start) + Len(prog) + Len(Closing) = Len(host) + Len(prog) + 5
    BY <1>4, <1>6, <1>7
  <2> QED
    BY <1>10, <2>1, <2>2, Zenon
<1>14. Arranged(ts, prog, Len(host))
  BY <1>1, <1>5, <1>6, <1>7, <1>10, <1>12, <1>13 DEF Arranged
<1> QED
  BY <1>1, <1>8, <1>14

(* The same for the program all three run.                                 *)
LEMMA Layout ==
  ASSUME Scheduled
  PROVE  /\ program \in Seq(InstructionSet) /\ Len(program) \in Nat
         /\ tasks \in Seq(TaskSet) /\ DOMAIN tasks = 1 .. Len(tasks)
         /\ ResetAt \in Nat /\ ResetAt > 0 /\ DriverAt = ResetAt + 1
         /\ Len(tasks) = DriverAt + Len(program) + 3
         /\ \A a \in 1 .. (ResetAt - 1) : tasks[a] = HostTasks(program)[a]
         /\ tasks[ResetAt].kind = "ResetCounter"
         /\ tasks[DriverAt].kind = "NewDriver"
         /\ tasks[DriverAt + 1].kind = "InitializeInputs"
         /\ \A i \in 1 .. Len(program) : tasks[DriverAt + 1 + i] = program[i]
         /\ tasks[Len(tasks) - 1].kind = "FinishRun"
         /\ tasks[Len(tasks)].kind = "Open"
<1>1. program \in Seq(InstructionSet) /\ tasks = Tasks(program)
  BY ProgramsAssumption DEF Scheduled
<1> DEFINE n == Len(program)
<1> DEFINE h == Len(HostTasks(program))
<1>9. Arranged(tasks, program, h)
  BY <1>1, TaskList
<1>2. /\ h \in Nat /\ n \in Nat
      /\ tasks \in Seq(TaskSet) /\ Len(tasks) = h + n + 5
      /\ \A i \in 1 .. h : tasks[i] = HostTasks(program)[i]
      /\ tasks[h + 1] = [kind |-> "ResetCounter"]
      /\ tasks[h + 2] = [kind |-> "NewDriver"]
      /\ tasks[h + 3] = [kind |-> "InitializeInputs"]
      /\ \A i \in 1 .. n : tasks[h + 3 + i] = program[i]
      /\ tasks[h + n + 4] = [kind |-> "FinishRun"]
      /\ tasks[h + n + 5] = [kind |-> "Open"]
  BY <1>9 DEF Arranged
<1>3. ResetAt = h + 1 /\ DriverAt = h + 2
  BY <1>2 DEF ResetAt, DriverAt
<1> HIDE DEF h, n
<1>4. /\ ResetAt - 1 = h /\ DriverAt + 1 = h + 3
      /\ Len(tasks) - 1 = h + n + 4 /\ Len(tasks) = DriverAt + n + 3
      /\ \A i \in 1 .. n : DriverAt + 1 + i = h + 3 + i
  BY <1>2, <1>3
<1>5. DOMAIN tasks = 1 .. Len(tasks)
  BY <1>2
<1>6. \A i \in 1 .. n : tasks[DriverAt + 1 + i] = program[i]
  BY <1>2, <1>4
<1>7. /\ tasks[ResetAt].kind = "ResetCounter"
      /\ tasks[DriverAt].kind = "NewDriver"
      /\ tasks[DriverAt + 1].kind = "InitializeInputs"
      /\ tasks[Len(tasks) - 1].kind = "FinishRun"
      /\ tasks[Len(tasks)].kind = "Open"
  BY <1>2, <1>3, <1>4
<1>8. ResetAt \in Nat /\ ResetAt > 0 /\ DriverAt = ResetAt + 1
  BY <1>2, <1>3
<1> QED
  BY <1>1, <1>2, <1>4, <1>5, <1>6, <1>7, <1>8 DEF n

(* The kinds of tasks in each part of the list.                            *)
LEMMA Parts ==
  ASSUME Scheduled, NEW a \in DOMAIN tasks
  PROVE  /\ tasks[a] \in TaskSet /\ a \in Nat /\ 0 < a /\ a <= Len(tasks)
         /\ a < ResetAt => tasks[a].kind \in {"NewService", "Trace", "FinishService"}
         /\ a = ResetAt => tasks[a].kind = "ResetCounter"
         /\ a = DriverAt => tasks[a].kind = "NewDriver"
         /\ a = DriverAt + 1 => tasks[a].kind = "InitializeInputs"
         /\ DriverAt + 1 < a /\ a < Len(tasks) - 1 =>
              /\ tasks[a] = program[a - DriverAt - 1]
              /\ tasks[a] \in InstructionSet
         /\ a = Len(tasks) - 1 => tasks[a].kind = "FinishRun"
         /\ a = Len(tasks) => tasks[a].kind = "Open"
<1>1. /\ program \in Seq(InstructionSet) /\ Len(program) \in Nat
      /\ tasks \in Seq(TaskSet) /\ DOMAIN tasks = 1 .. Len(tasks)
      /\ ResetAt \in Nat /\ DriverAt = ResetAt + 1
      /\ Len(tasks) = DriverAt + Len(program) + 3
  BY Layout
<1>2. tasks[a] \in TaskSet /\ a \in Nat /\ 0 < a /\ a <= Len(tasks)
  BY <1>1
<1>3. ASSUME a < ResetAt
      PROVE  tasks[a].kind \in {"NewService", "Trace", "FinishService"}
  <2>1. a \in 1 .. (ResetAt - 1)
    BY <1>1, <1>2, <1>3
  <2>2. tasks[a] = HostTasks(program)[a]
    BY <2>1, Layout
  <2>3. Services(HostTasks(program))
    BY <1>1, HostTasksShape
  <2>4. a \in DOMAIN HostTasks(program)
    BY <2>1, <2>3, <1>1 DEF Services, ResetAt
  <2> QED
    BY <2>2, <2>3, <2>4 DEF Services
<1>4. ASSUME DriverAt + 1 < a, a < Len(tasks) - 1
      PROVE  tasks[a] = program[a - DriverAt - 1] /\ tasks[a] \in InstructionSet
  <2>1. a - DriverAt - 1 \in 1 .. Len(program) /\ DriverAt + 1 + (a - DriverAt - 1) = a
    BY <1>1, <1>2, <1>4
  <2>2. tasks[DriverAt + 1 + (a - DriverAt - 1)] = program[a - DriverAt - 1]
    BY <2>1, Layout
  <2> QED
    BY <1>1, <2>1, <2>2
<1> QED
  BY <1>2, <1>3, <1>4, Layout

(* A task's kind tells where it is in the list.                            *)
LEMMA Places ==
  ASSUME Scheduled, NEW a \in DOMAIN tasks
  PROVE  /\ tasks[a].kind \in {"NewService", "Trace", "FinishService"} <=> a < ResetAt
         /\ tasks[a].kind = "ResetCounter" <=> a = ResetAt
         /\ tasks[a].kind = "NewDriver" <=> a = DriverAt
         /\ tasks[a].kind = "InitializeInputs" <=> a = DriverAt + 1
         /\ tasks[a].kind \in {"Reshare", "IsZeroReveal", "Reveal", "Poseidon2", "Precomputed"}
              <=> DriverAt + 1 < a /\ a < Len(tasks) - 1
         /\ tasks[a].kind = "FinishRun" <=> a = Len(tasks) - 1
         /\ tasks[a].kind = "Open" <=> a = Len(tasks)
<1>1. /\ Len(tasks) = DriverAt + Len(program) + 3 /\ Len(program) \in Nat
      /\ ResetAt \in Nat /\ DriverAt = ResetAt + 1 /\ a \in Nat /\ a <= Len(tasks)
  BY Layout, Parts
<1>2. DriverAt + 1 < a /\ a < Len(tasks) - 1 =>
        tasks[a].kind \in {"Reshare", "IsZeroReveal", "Reveal", "Poseidon2", "Precomputed"}
  BY Parts DEF InstructionSet
<1>3. \/ a < ResetAt \/ a = ResetAt \/ a = DriverAt \/ a = DriverAt + 1
      \/ (DriverAt + 1 < a /\ a < Len(tasks) - 1) \/ a = Len(tasks) - 1 \/ a = Len(tasks)
  BY <1>1
<1>4. CASE a < ResetAt
  BY <1>1, <1>4, Parts
<1>5. CASE a = ResetAt
  BY <1>1, <1>5, Parts
<1>6. CASE a = DriverAt
  BY <1>1, <1>6, Parts
<1>7. CASE a = DriverAt + 1
  BY <1>1, <1>7, Parts
<1>8. CASE DriverAt + 1 < a /\ a < Len(tasks) - 1
  BY <1>1, <1>2, <1>8
<1>9. CASE a = Len(tasks) - 1
  BY <1>1, <1>9, Parts
<1>10. CASE a = Len(tasks)
  BY <1>1, <1>10, Parts
<1> QED
  BY <1>3, <1>4, <1>5, <1>6, <1>7, <1>8, <1>9, <1>10

(* A trace follows the preparation of the pool it is to use up.            *)
LEMMA TracePlaces ==
  ASSUME Scheduled, NEW a \in DOMAIN tasks
  PROVE  /\ tasks[a].kind = "Trace" =>
              a - 1 \in DOMAIN tasks /\ tasks[a - 1].kind = "NewService"
         /\ tasks[a].kind = "NewService" =>
              /\ a + 1 \in DOMAIN tasks /\ tasks[a + 1].kind = "Trace"
              /\ tasks[a + 1].t = tasks[a].t /\ tasks[a + 1].sites = tasks[a].sites
<1>1. /\ program \in Seq(InstructionSet) /\ Len(program) \in Nat
      /\ DOMAIN tasks = 1 .. Len(tasks)
      /\ ResetAt \in Nat /\ DriverAt = ResetAt + 1
      /\ Len(tasks) = DriverAt + Len(program) + 3
      /\ a \in Nat /\ 0 < a
  BY Layout, Parts
<1> SUFFICES ASSUME a < ResetAt
             PROVE  /\ tasks[a].kind = "Trace" =>
                         a - 1 \in DOMAIN tasks /\ tasks[a - 1].kind = "NewService"
                    /\ tasks[a].kind = "NewService" =>
                         /\ a + 1 \in DOMAIN tasks /\ tasks[a + 1].kind = "Trace"
                         /\ tasks[a + 1].t = tasks[a].t /\ tasks[a + 1].sites = tasks[a].sites
  BY Places
<1> DEFINE host == HostTasks(program)
<1>2. Services(host)
  BY <1>1, HostTasksShape
<1>3. DOMAIN host = 1 .. (ResetAt - 1) /\ \A b \in DOMAIN host : b \in DOMAIN tasks
  BY <1>1, <1>2 DEF Services, ResetAt
<1>4. \A b \in DOMAIN host : tasks[b] = host[b]
  BY <1>3, Layout
<1>5. a \in DOMAIN host
  BY <1>1, <1>3
<1> HIDE DEF host
<1> QED
  BY <1>2, <1>3, <1>4, <1>5 DEF Services

-----------------------------------------------------------------------------
(* Sums along the list.                                                    *)

(* Every task draws a number of masks and has a number of exchanges.       *)
LEMMA Weights ==
  ASSUME Scheduled, NEW b \in DOMAIN tasks
  PROVE  /\ Masks[b] = TaskMasks(tasks[b]) /\ TaskMasks(tasks[b]) \in Nat
         /\ Lengths[b] = Len(Exchanges(tasks[b])) /\ Lengths[b] \in Nat
<1>1. tasks[b] \in TaskSet
  BY Parts
<1>2. TaskMasks(tasks[b]) \in Nat /\ Len(Exchanges(tasks[b])) \in Nat
  BY <1>1, ExchangesShape
<1> QED
  BY <1>2 DEF Masks, Lengths

(* There are finitely many tasks.                                          *)
LEMMA FinitelyMany ==
  ASSUME Scheduled, NEW S \in SUBSET DOMAIN tasks
  PROVE  IsFiniteSet(S)
<1>1. DOMAIN tasks = 1 .. Len(tasks) /\ Len(tasks) \in Nat
  BY Layout
<1>2. IsFiniteSet(DOMAIN tasks)
  BY <1>1, FS_Interval
<1> QED
  BY <1>2, FS_Subset

(* The masks drawn since the pool was prepared, one task further.          *)
LEMMA SpentSteps ==
  ASSUME Scheduled, NEW a \in DOMAIN tasks
  PROVE  /\ SpentBefore(a) \in Nat
         /\ SpentBefore(a + 1) = IF Prepares(tasks[a]) THEN 0
                                 ELSE SpentBefore(a) + TaskMasks(tasks[a])
<1>1. \A b \in DOMAIN tasks : b \in Nat
  BY Parts
<1>2. SincePool(a) \in SUBSET DOMAIN tasks /\ IsFiniteSet(SincePool(a))
  <2>1. SincePool(a) \in SUBSET DOMAIN tasks
    BY DEF SincePool
  <2> QED
    BY <2>1, FinitelyMany
<1>3. SpentBefore(a) \in Nat
  BY <1>2, Weights, SumTakesOff DEF SpentBefore
<1>4. CASE Prepares(tasks[a])
  <2>1. SincePool(a + 1) = {} \cup {a}
    <3>1. \A b \in DOMAIN tasks : b \in SincePool(a + 1) => b = a
      BY <1>1, <1>4 DEF SincePool
    <3>2. a \in SincePool(a + 1)
      BY <1>1 DEF SincePool
    <3>3. SincePool(a + 1) \subseteq DOMAIN tasks
      BY DEF SincePool
    <3> QED
      BY <3>1, <3>2, <3>3
  <2>2. Masks[a] = 0
    BY <1>4, Weights DEF TaskMasks, Draws, Prepares
  <2>3. SumFunctionOnSet(Masks, {} \cup {a}) = SumFunctionOnSet(Masks, {}) + Masks[a]
    BY <2>2, FS_EmptySet, SumAdds
  <2>4. SpentBefore(a + 1) = 0
    BY <2>1, <2>2, <2>3, SumEmpty DEF SpentBefore
  <2> QED
    BY <1>3, <1>4, <2>4
<1>5. CASE ~ Prepares(tasks[a])
  <2>1. SincePool(a + 1) = SincePool(a) \cup {a} /\ a \notin SincePool(a)
    <3>1. \A b \in DOMAIN tasks : b < a + 1 <=> b < a \/ b = a
      BY <1>1
    <3>2. \A b \in DOMAIN tasks : b \in SincePool(a + 1) => b \in SincePool(a) \/ b = a
      BY <1>1, <3>1 DEF SincePool
    <3>3. \A b \in DOMAIN tasks : b \in SincePool(a) => b \in SincePool(a + 1)
      BY <1>5, <3>1 DEF SincePool
    <3>4. a \in SincePool(a + 1) /\ a \notin SincePool(a)
      BY <1>1 DEF SincePool
    <3>5. SincePool(a + 1) \subseteq DOMAIN tasks
      BY DEF SincePool
    <3> QED
      BY <1>2, <3>2, <3>3, <3>4, <3>5
  <2>2. \A b \in SincePool(a) \cup {a} : Masks[b] \in Nat
    BY <1>2, Weights
  <2>3. SumFunctionOnSet(Masks, SincePool(a) \cup {a})
          = SumFunctionOnSet(Masks, SincePool(a)) + Masks[a]
    BY <1>2, <2>1, <2>2, SumAdds
  <2>4. Masks[a] = TaskMasks(tasks[a])
    BY Weights
  <2> QED
    BY <1>3, <1>5, <2>1, <2>3, <2>4 DEF SpentBefore
<1> QED
  BY <1>4, <1>5

(* Nothing is drawn, counted, traced or served before the first task.      *)
LEMMA AtTheStart ==
  ASSUME Scheduled
  PROVE  /\ SpentBefore(1) = 0 /\ RoundsBefore(1) = 0
         /\ Cardinality(TracedBefore(1)) = 0 /\ Cardinality(ServedBefore(1)) = 0
<1>1. \A b \in DOMAIN tasks : b \in Nat /\ ~ (b < 1)
  BY Parts
<1>2. SincePool(1) = {} /\ CountedBefore(1) = {}
  BY <1>1 DEF SincePool, CountedBefore
<1>3. TracedBefore(1) = {} /\ ServedBefore(1) = {}
  BY <1>1 DEF TracedBefore, ServedBefore
<1> QED
  BY <1>2, <1>3, SumEmpty, FS_EmptySet DEF SpentBefore, RoundsBefore

(* The exchanges counted before a task, one task further.                  *)
LEMMA RoundsSteps ==
  ASSUME Scheduled, NEW a \in DOMAIN tasks
  PROVE  /\ RoundsBefore(a) \in Nat
         /\ RoundsBefore(a + 1) = IF a = ResetAt THEN 0
                                  ELSE RoundsBefore(a) + Len(Exchanges(tasks[a]))
<1>1. ResetAt \in Nat /\ \A b \in DOMAIN tasks : b \in Nat
  BY Parts, Layout
<1>2. CountedBefore(a) \in SUBSET DOMAIN tasks /\ IsFiniteSet(CountedBefore(a))
  <2>1. CountedBefore(a) \in SUBSET DOMAIN tasks
    BY DEF CountedBefore
  <2> QED
    BY <2>1, FinitelyMany
<1>3. RoundsBefore(a) \in Nat
  BY <1>2, Weights, SumTakesOff DEF RoundsBefore
<1>4. CASE a = ResetAt
  <2>1. CountedBefore(a + 1) = {}
    BY <1>1, <1>4 DEF CountedBefore
  <2> QED
    BY <1>3, <1>4, <2>1, SumEmpty DEF RoundsBefore
<1>5. CASE a # ResetAt
  <2>1. CountedBefore(a + 1) = CountedBefore(a) \cup {a} /\ a \notin CountedBefore(a)
    <3>1. \A b \in DOMAIN tasks : b < a + 1 <=> b < a \/ b = a
      BY <1>1
    <3>2. a + 1 > ResetAt <=> a > ResetAt
      BY <1>1, <1>5
    <3>3. a \in DOMAIN tasks /\ ~ (a < a)
      BY <1>1
    <3> QED
      BY <3>1, <3>2, <3>3 DEF CountedBefore
  <2>2. \A b \in CountedBefore(a) \cup {a} : Lengths[b] \in Nat
    BY <1>2, Weights
  <2>3. SumFunctionOnSet(Lengths, CountedBefore(a) \cup {a})
          = SumFunctionOnSet(Lengths, CountedBefore(a)) + Lengths[a]
    BY <1>2, <2>1, <2>2, SumAdds
  <2>4. Lengths[a] = Len(Exchanges(tasks[a]))
    BY Weights
  <2> QED
    BY <1>3, <1>5, <2>1, <2>3, <2>4 DEF RoundsBefore
<1> QED
  BY <1>4, <1>5

(* The batches traced and served before a task, one task further.          *)
LEMMA BatchesSteps ==
  ASSUME Scheduled, NEW a \in DOMAIN tasks
  PROVE  /\ Cardinality(TracedBefore(a)) \in Nat
         /\ Cardinality(TracedBefore(a + 1)) = Cardinality(TracedBefore(a))
              + (IF tasks[a].kind = "Trace" THEN 1 ELSE 0)
         /\ Cardinality(ServedBefore(a)) \in Nat
         /\ Cardinality(ServedBefore(a + 1)) = Cardinality(ServedBefore(a))
              + (IF tasks[a].kind = "Precomputed" THEN 1 ELSE 0)
<1>1. \A b \in DOMAIN tasks : b \in Nat /\ (b < a + 1 <=> b < a \/ b = a)
  BY Parts
<1>2. TracedBefore(a) \in SUBSET DOMAIN tasks /\ ServedBefore(a) \in SUBSET DOMAIN tasks
  BY DEF TracedBefore, ServedBefore
<1>3. /\ IsFiniteSet(TracedBefore(a)) /\ Cardinality(TracedBefore(a)) \in Nat
      /\ IsFiniteSet(ServedBefore(a)) /\ Cardinality(ServedBefore(a)) \in Nat
  BY <1>2, FinitelyMany, FS_CardinalityType
<1>4. Cardinality(TracedBefore(a + 1)) = Cardinality(TracedBefore(a))
        + (IF tasks[a].kind = "Trace" THEN 1 ELSE 0)
  <2>1. CASE tasks[a].kind = "Trace"
    <3>1. TracedBefore(a + 1) = TracedBefore(a) \cup {a} /\ a \notin TracedBefore(a)
      BY <1>1, <2>1 DEF TracedBefore
    <3> QED
      BY <1>3, <2>1, <3>1, FS_AddElement
  <2>2. CASE tasks[a].kind # "Trace"
    <3>1. TracedBefore(a + 1) = TracedBefore(a)
      BY <1>1, <2>2 DEF TracedBefore
    <3> QED
      BY <1>3, <2>2, <3>1
  <2> QED
    BY <2>1, <2>2
<1>5. Cardinality(ServedBefore(a + 1)) = Cardinality(ServedBefore(a))
        + (IF tasks[a].kind = "Precomputed" THEN 1 ELSE 0)
  <2>1. CASE tasks[a].kind = "Precomputed"
    <3>1. ServedBefore(a + 1) = ServedBefore(a) \cup {a} /\ a \notin ServedBefore(a)
      BY <1>1, <2>1 DEF ServedBefore
    <3> QED
      BY <1>3, <2>1, <3>1, FS_AddElement
  <2>2. CASE tasks[a].kind # "Precomputed"
    <3>1. ServedBefore(a + 1) = ServedBefore(a)
      BY <1>1, <2>2 DEF ServedBefore
    <3> QED
      BY <1>3, <2>2, <3>1
  <2> QED
    BY <2>1, <2>2
<1> QED
  BY <1>3, <1>4, <1>5

(* The program's own permutations among its first k instructions, and the  *)
(* masks each of them draws.                                               *)
OwnBatches(k) == {m \in 1 .. k : Budgeted(program[m])}

OwnMasks == [n \in OwnBatches(Len(program)) |-> MaskElements(program[n].t, program[n].sites)]

(* The budget is the sum of the masks of all of them.                      *)
LEMMA OwnMasksAreBudgeted ==
  ASSUME Scheduled
  PROVE  /\ MaskBudget(program) = SumFunctionOnSet(OwnMasks, OwnBatches(Len(program)))
         /\ \A m \in OwnBatches(Len(program)) :
              OwnMasks[m] = TaskMasks(program[m]) /\ OwnMasks[m] \in Nat
         /\ \A k \in 0 .. Len(program) :
              /\ OwnBatches(k) \subseteq OwnBatches(Len(program))
              /\ IsFiniteSet(OwnBatches(k))
<1>1. program \in Seq(InstructionSet) /\ Len(program) \in Nat /\ DOMAIN program = 1 .. Len(program)
  BY Layout
<1>2. ASSUME NEW k \in 0 .. Len(program)
      PROVE  OwnBatches(k) \subseteq OwnBatches(Len(program)) /\ IsFiniteSet(OwnBatches(k))
  <2>1. k \in Nat /\ OwnBatches(k) \in SUBSET (1 .. k) /\ 1 .. k \subseteq 1 .. Len(program)
    BY <1>1 DEF OwnBatches
  <2>2. IsFiniteSet(1 .. k)
    BY <2>1, FS_Interval
  <2>3. IsFiniteSet(OwnBatches(k))
    BY <2>1, <2>2, FS_Subset
  <2> QED
    BY <2>1, <2>3 DEF OwnBatches
<1>3. ASSUME NEW m \in OwnBatches(Len(program))
      PROVE  OwnMasks[m] = TaskMasks(program[m]) /\ OwnMasks[m] \in Nat
  <2>1. program[m] \in InstructionSet /\ Budgeted(program[m])
    BY <1>1 DEF OwnBatches
  <2>2. Draws(program[m]) /\ program[m] \in TaskSet
    BY <2>1 DEF Draws, Budgeted, TaskSet
  <2>3. TaskMasks(program[m]) \in Nat
    BY <2>2, ExchangesShape
  <2> QED
    BY <2>2, <2>3 DEF OwnMasks, TaskMasks
<1>4. MaskBudget(program) = SumFunctionOnSet(OwnMasks, OwnBatches(Len(program)))
  <2>1. OwnBatches(Len(program)) = {m \in DOMAIN program : Budgeted(program[m])}
    BY <1>1 DEF OwnBatches
  <2>2. MaskBudget(program) = SumFunction(OwnMasks)
    BY <2>1 DEF MaskBudget, OwnMasks
  <2>3. DOMAIN OwnMasks = OwnBatches(Len(program))
    BY DEF OwnMasks
  <2> QED
    BY <2>2, <2>3 DEF SumFunction
<1> QED
  BY <1>2, <1>3, <1>4

(* In the run, the masks drawn are those of the program's own permutations *)
(* so far.                                                                 *)
LEMMA SpentInRun ==
  ASSUME Scheduled
  PROVE  \A k \in 0 .. Len(program) :
           SpentBefore(DriverAt + 2 + k) = SumFunctionOnSet(OwnMasks, OwnBatches(k))
<1> DEFINE Agrees(k) == SpentBefore(DriverAt + 2 + k) = SumFunctionOnSet(OwnMasks, OwnBatches(k))
           T == {k \in Nat : k <= Len(program) => Agrees(k)}
<1>1. /\ Len(program) \in Nat /\ DriverAt \in Nat /\ DriverAt > 0
      /\ DOMAIN tasks = 1 .. Len(tasks) /\ Len(tasks) = DriverAt + Len(program) + 3
      /\ program \in Seq(InstructionSet)
  BY Layout
<1>2. 0 \in T
  <2>1. DriverAt \in DOMAIN tasks /\ DriverAt + 1 \in DOMAIN tasks
    BY <1>1
  <2>2. SpentBefore(DriverAt + 1) = 0
    BY <2>1, SpentSteps, Layout DEF Prepares
  <2>3. SpentBefore(DriverAt + 1 + 1) = 0
    <3>1. ~ Prepares(tasks[DriverAt + 1]) /\ TaskMasks(tasks[DriverAt + 1]) = 0
      BY Layout DEF Prepares, TaskMasks, Draws
    <3> QED
      BY <2>1, <2>2, <3>1, SpentSteps
  <2>4. OwnBatches(0) = {}
    BY DEF OwnBatches
  <2>5. DriverAt + 1 + 1 = DriverAt + 2 + 0
    BY <1>1
  <2> QED
    BY <2>3, <2>4, <2>5, SumEmpty
<1>3. ASSUME NEW k \in T
      PROVE  k + 1 \in T
  <2> SUFFICES ASSUME k + 1 <= Len(program)
               PROVE  Agrees(k + 1)
    OBVIOUS
  <2>1. k \in Nat /\ k \in 0 .. Len(program) /\ k + 1 \in 1 .. Len(program) /\ Agrees(k)
    BY <1>1
  <2> DEFINE a == DriverAt + 2 + k
  <2>2. a \in DOMAIN tasks /\ a + 1 = DriverAt + 2 + (k + 1)
    BY <1>1, <2>1
  <2>3. tasks[a] = program[k + 1]
    <3>1. DriverAt + 1 + (k + 1) = a
      BY <1>1, <2>1
    <3> QED
      BY <2>1, <3>1, Layout
  <2>4. program[k + 1] \in InstructionSet
    BY <1>1, <2>1
  <2>5. ~ Prepares(tasks[a])
    BY <2>3, <2>4 DEF Prepares, InstructionSet
  <2>6. SpentBefore(a + 1) = SpentBefore(a) + TaskMasks(program[k + 1])
    BY <2>2, <2>3, <2>5, SpentSteps
  <2>7. SpentBefore(a) \in Nat
    BY <2>2, SpentSteps
  <2>8. IsFiniteSet(OwnBatches(k))
    BY <2>1, OwnMasksAreBudgeted
  <2>9. CASE Budgeted(program[k + 1])
    <3>1. OwnBatches(k + 1) = OwnBatches(k) \cup {k + 1} /\ k + 1 \notin OwnBatches(k)
      BY <2>1, <2>9 DEF OwnBatches
    <3>2. \A m \in OwnBatches(k) \cup {k + 1} :
            OwnMasks[m] = TaskMasks(program[m]) /\ OwnMasks[m] \in Nat
      <4>1. k + 1 \in 0 .. Len(program)
        BY <2>1
      <4> QED
        BY <3>1, <4>1, OwnMasksAreBudgeted
    <3>3. SumFunctionOnSet(OwnMasks, OwnBatches(k) \cup {k + 1})
            = SumFunctionOnSet(OwnMasks, OwnBatches(k)) + OwnMasks[k + 1]
      BY <2>8, <3>1, <3>2, SumAdds
    <3>4. OwnMasks[k + 1] = TaskMasks(program[k + 1])
      BY <3>2
    <3> QED
      BY <2>1, <2>2, <2>6, <3>1, <3>3, <3>4
  <2>10. CASE ~ Budgeted(program[k + 1])
    <3>1. OwnBatches(k + 1) = OwnBatches(k)
      BY <2>1, <2>10 DEF OwnBatches
    <3>2. TaskMasks(program[k + 1]) = 0
      BY <2>4, <2>10 DEF TaskMasks, Draws, Budgeted, InstructionSet
    <3> QED
      BY <2>1, <2>2, <2>6, <2>7, <3>1, <3>2
  <2> QED
    BY <2>9, <2>10
<1>4. T \in SUBSET Nat
  OBVIOUS
<1>5. T = Nat
  <2> HIDE DEF T
  <2> QED
    BY <1>2, <1>3, <1>4, NaturalsFrom0
<1> QED
  BY <1>1, <1>5

(* The budget covers every task of the run, and the run uses it up.        *)
LEMMA BudgetCovers ==
  ASSUME Scheduled
  PROVE  /\ SpentBefore(Len(tasks) - 1) = MaskBudget(program)
         /\ SpentBefore(Len(tasks)) = MaskBudget(program)
         /\ \A a \in DOMAIN tasks : a > DriverAt =>
              SpentBefore(a) + TaskMasks(tasks[a]) <= MaskBudget(program)
<1>1. /\ Len(program) \in Nat /\ DriverAt \in Nat /\ DriverAt > 0
      /\ DOMAIN tasks = 1 .. Len(tasks) /\ Len(tasks) = DriverAt + Len(program) + 3
  BY Layout
<1>2. MaskBudget(program) \in Nat
  BY Layout, MaskBudgetType
<1>3. SpentBefore(Len(tasks) - 1) = MaskBudget(program)
  <2>1. Len(program) \in 0 .. Len(program) /\ Len(tasks) - 1 = DriverAt + 2 + Len(program)
    BY <1>1
  <2> QED
    BY <2>1, SpentInRun, OwnMasksAreBudgeted
<1>4. /\ TaskMasks(tasks[Len(tasks) - 1]) = 0 /\ TaskMasks(tasks[Len(tasks)]) = 0
      /\ TaskMasks(tasks[DriverAt + 1]) = 0
      /\ ~ Prepares(tasks[Len(tasks) - 1])
  BY Layout DEF TaskMasks, Draws, Prepares
<1>5. SpentBefore(Len(tasks)) = MaskBudget(program)
  <2>1. Len(tasks) - 1 \in DOMAIN tasks /\ Len(tasks) - 1 + 1 = Len(tasks)
    BY <1>1
  <2>2. SpentBefore(Len(tasks) - 1 + 1) = SpentBefore(Len(tasks) - 1) + 0
    BY <1>4, <2>1, SpentSteps
  <2> QED
    BY <1>2, <1>3, <2>1, <2>2
<1>6. ASSUME NEW a \in DOMAIN tasks, a > DriverAt
      PROVE  SpentBefore(a) + TaskMasks(tasks[a]) <= MaskBudget(program)
  <2>1. a \in Nat
    BY <1>1
  <2>2. CASE a = DriverAt + 1
    <3>1. DriverAt \in DOMAIN tasks
      BY <1>1
    <3>2. SpentBefore(a) = 0
      BY <2>2, <3>1, SpentSteps, Layout DEF Prepares
    <3> QED
      BY <1>2, <1>4, <2>2, <3>2
  <2>3. CASE a = Len(tasks) - 1 \/ a = Len(tasks)
    BY <1>2, <1>3, <1>4, <1>5, <2>3
  <2>4. CASE DriverAt + 1 < a /\ a < Len(tasks) - 1
    <3>1. PICK k \in 0 .. Len(program) : k = a + 1 - (DriverAt + 2)
      BY <1>1, <2>1, <2>4
    <3>2. a + 1 = DriverAt + 2 + k
      BY <1>1, <2>1, <3>1
    <3>3. SpentBefore(a + 1) = SumFunctionOnSet(OwnMasks, OwnBatches(k))
      BY <3>2, SpentInRun
    <3>4. ~ Prepares(tasks[a])
      BY <2>4, Parts DEF Prepares, InstructionSet
    <3>5. SpentBefore(a + 1) = SpentBefore(a) + TaskMasks(tasks[a])
      BY <3>4, SpentSteps
    <3>6. /\ IsFiniteSet(OwnBatches(Len(program)))
          /\ OwnBatches(k) \in SUBSET OwnBatches(Len(program))
          /\ \A m \in OwnBatches(Len(program)) : OwnMasks[m] \in Nat
      <4>1. Len(program) \in 0 .. Len(program)
        BY <1>1
      <4> QED
        BY <4>1, OwnMasksAreBudgeted
    <3>7. SumFunctionOnSet(OwnMasks, OwnBatches(k))
            <= SumFunctionOnSet(OwnMasks, OwnBatches(Len(program)))
      BY <3>6, SumOfSubset
    <3> QED
      BY <3>3, <3>5, <3>7, OwnMasksAreBudgeted
  <2> QED
    BY <1>1, <1>6, <2>1, <2>2, <2>3, <2>4
<1> QED
  BY <1>3, <1>5, <1>6

(* At every task, the pool covers what was drawn and what the task draws.  *)
LEMMA PoolCovers ==
  ASSUME Scheduled, NEW a \in DOMAIN tasks
  PROVE  /\ PoolSize(a) \in Nat
         /\ SpentBefore(a) + TaskMasks(tasks[a]) <= PoolSize(a)
<1>1. SpentBefore(a) \in Nat /\ TaskMasks(tasks[a]) \in Nat /\ MaskBudget(program) \in Nat
  BY SpentSteps, Weights, Layout, MaskBudgetType
<1>2. CASE a > DriverAt
  BY <1>1, <1>2, BudgetCovers DEF PoolSize
<1>3. CASE ~ (a > DriverAt) /\ tasks[a].kind = "Trace"
  <2>1. a - 1 \in DOMAIN tasks /\ Prepares(tasks[a - 1])
    BY <1>3, TracePlaces DEF Prepares
  <2>2. a - 1 + 1 = a
    BY Parts
  <2>3. SpentBefore(a) = 0
    BY <2>1, <2>2, SpentSteps
  <2>4. PoolSize(a) = TaskMasks(tasks[a])
    BY <1>3 DEF PoolSize, TaskMasks, Draws
  <2> QED
    BY <1>1, <2>3, <2>4
<1>4. CASE ~ (a > DriverAt) /\ tasks[a].kind # "Trace"
  <2>1. PoolSize(a) = SpentBefore(a)
    BY <1>4 DEF PoolSize
  <2>2. tasks[a].kind # "Poseidon2"
    BY <1>4, Layout, Parts, Places
  <2>3. TaskMasks(tasks[a]) = 0
    BY <1>4, <2>2 DEF TaskMasks, Draws
  <2> QED
    BY <1>1, <2>1, <2>3
<1> QED
  BY <1>2, <1>3, <1>4

(* The pool after a task, by what the task did with it.                    *)
LEMMA PoolSteps ==
  ASSUME Scheduled, NEW a \in DOMAIN tasks, a + 1 \in DOMAIN tasks
  PROVE  PoolSize(a + 1) = CASE tasks[a].kind = "NewService" ->
                                  MaskElements(tasks[a].t, tasks[a].sites)
                             [] tasks[a].kind = "NewDriver" -> MaskBudget(program)
                             [] OTHER -> PoolSize(a)
<1>1. /\ a \in Nat /\ a + 1 \in Nat /\ DriverAt \in Nat /\ DriverAt = ResetAt + 1
      /\ ResetAt \in Nat
  BY Parts, Layout
<1>2. CASE tasks[a].kind = "NewService"
  <2>1. /\ tasks[a + 1].kind = "Trace"
        /\ tasks[a + 1].t = tasks[a].t /\ tasks[a + 1].sites = tasks[a].sites
    BY <1>2, TracePlaces
  <2>2. a < ResetAt
    BY <1>2, Places
  <2> QED
    BY <1>1, <1>2, <2>1, <2>2 DEF PoolSize
<1>3. CASE tasks[a].kind = "NewDriver"
  <2>1. a = DriverAt
    BY <1>3, Places
  <2> QED
    BY <1>1, <1>3, <2>1 DEF PoolSize
<1>4. CASE tasks[a].kind \notin {"NewService", "NewDriver"}
  <2>1. a # DriverAt
    BY <1>4, Places
  <2>2. CASE a > DriverAt
    BY <1>1, <1>4, <2>2 DEF PoolSize
  <2>3. CASE a < DriverAt
    <3>1. tasks[a + 1].kind # "Trace"
      <4>1. PICK b \in DOMAIN tasks : b = a + 1
        OBVIOUS
      <4>2. b - 1 = a
        BY <1>1, <4>1
      <4>3. tasks[b].kind = "Trace" => tasks[b - 1].kind = "NewService"
        BY TracePlaces
      <4> QED
        BY <1>4, <4>1, <4>2, <4>3
    <3>2. PoolSize(a + 1) = SpentBefore(a + 1)
      BY <1>1, <2>3, <3>1 DEF PoolSize
    <3>3. SpentBefore(a + 1) = SpentBefore(a) + TaskMasks(tasks[a])
      BY <1>4, SpentSteps DEF Prepares
    <3>4. SpentBefore(a) \in Nat
      BY SpentSteps
    <3>5. CASE tasks[a].kind = "Trace"
      <4>1. a - 1 \in DOMAIN tasks /\ Prepares(tasks[a - 1]) /\ a - 1 + 1 = a
        BY <1>1, <3>5, TracePlaces DEF Prepares
      <4>2. SpentBefore(a) = 0
        BY <4>1, SpentSteps
      <4>3. PoolSize(a) = TaskMasks(tasks[a]) /\ TaskMasks(tasks[a]) \in Nat
        BY <1>1, <2>3, <3>5, Weights DEF PoolSize, TaskMasks, Draws
      <4> QED
        BY <1>4, <3>2, <3>3, <4>2, <4>3
    <3>6. CASE tasks[a].kind # "Trace"
      <4>1. tasks[a].kind # "Poseidon2"
        BY <1>1, <2>3, Layout, Places
      <4>2. TaskMasks(tasks[a]) = 0
        BY <3>6, <4>1 DEF TaskMasks, Draws
      <4>3. PoolSize(a) = SpentBefore(a)
        BY <1>1, <2>3, <3>6 DEF PoolSize
      <4> QED
        BY <1>4, <3>2, <3>3, <3>4, <4>2, <4>3
    <3> QED
      BY <3>5, <3>6
  <2> QED
    BY <1>1, <2>1, <2>2, <2>3
<1> QED
  BY <1>2, <1>3, <1>4

(* Every batch the host traced is served in the run, and no other.         *)
LEMMA ServedInRun ==
  ASSUME Scheduled
  PROVE  \A k \in 0 .. Len(program) :
           Cardinality(ServedBefore(DriverAt + 2 + k)) = Cardinality(Hosted(program, k))
<1> DEFINE Agrees(k) ==
             Cardinality(ServedBefore(DriverAt + 2 + k)) = Cardinality(Hosted(program, k))
           T == {k \in Nat : k <= Len(program) => Agrees(k)}
<1>1. /\ Len(program) \in Nat /\ DriverAt \in Nat /\ DriverAt > 0
      /\ DOMAIN tasks = 1 .. Len(tasks) /\ Len(tasks) = DriverAt + Len(program) + 3
      /\ ResetAt \in Nat /\ DriverAt = ResetAt + 1
  BY Layout
<1>2. 0 \in T
  <2>1. \A b \in DOMAIN tasks : b < DriverAt + 2 => tasks[b].kind # "Precomputed"
    BY <1>1, Parts, Places
  <2>2. ServedBefore(DriverAt + 2) = {} /\ Hosted(program, 0) = {}
    BY <2>1 DEF ServedBefore, Hosted
  <2>3. DriverAt + 2 + 0 = DriverAt + 2
    BY <1>1
  <2> QED
    BY <2>2, <2>3
<1>3. ASSUME NEW k \in T
      PROVE  k + 1 \in T
  <2> SUFFICES ASSUME k + 1 <= Len(program)
               PROVE  Agrees(k + 1)
    OBVIOUS
  <2>1. k \in Nat /\ k + 1 \in 1 .. Len(program) /\ Agrees(k)
    BY <1>1
  <2> DEFINE a == DriverAt + 2 + k
  <2>2. a \in DOMAIN tasks /\ a + 1 = DriverAt + 2 + (k + 1)
    BY <1>1, <2>1
  <2>3. tasks[a] = program[k + 1]
    <3>1. DriverAt + 1 + (k + 1) = a
      BY <1>1, <2>1
    <3> QED
      BY <2>1, <3>1, Layout
  <2>4. Cardinality(ServedBefore(a + 1)) = Cardinality(ServedBefore(a))
          + (IF tasks[a].kind = "Precomputed" THEN 1 ELSE 0)
    BY <2>2, BatchesSteps
  <2>5. Cardinality(ServedBefore(a)) \in Nat
    BY <2>2, BatchesSteps
  <2>6. IsFiniteSet(Hosted(program, k))
    <3>1. Hosted(program, k) \in SUBSET (1 .. k) /\ IsFiniteSet(1 .. k)
      BY <2>1, FS_Interval DEF Hosted
    <3> QED
      BY <3>1, FS_Subset
  <2>7. CASE Precomputed(program[k + 1])
    <3>1. Hosted(program, k + 1) = Hosted(program, k) \cup {k + 1} /\ k + 1 \notin Hosted(program, k)
      BY <2>1, <2>7 DEF Hosted
    <3>2. Cardinality(Hosted(program, k + 1)) = Cardinality(Hosted(program, k)) + 1
      BY <2>6, <3>1, FS_AddElement
    <3> QED
      BY <2>1, <2>2, <2>3, <2>4, <2>7, <3>2 DEF Precomputed
  <2>8. CASE ~ Precomputed(program[k + 1])
    <3>1. Hosted(program, k + 1) = Hosted(program, k)
      BY <2>1, <2>8 DEF Hosted
    <3> QED
      BY <2>1, <2>2, <2>3, <2>4, <2>5, <2>8, <3>1 DEF Precomputed
  <2> QED
    BY <2>7, <2>8
<1>4. T \in SUBSET Nat
  OBVIOUS
<1>5. T = Nat
  <2> HIDE DEF T
  <2> QED
    BY <1>2, <1>3, <1>4, NaturalsFrom0
<1> QED
  BY <1>1, <1>5

(* How many batches were traced and served, by the place in the list.      *)
LEMMA BatchesBalance ==
  ASSUME Scheduled
  PROVE  /\ \A a \in DOMAIN tasks : a > ResetAt =>
              Cardinality(TracedBefore(a)) = Cardinality(TracedBefore(ResetAt))
         /\ Cardinality(ServedBefore(Len(tasks) - 1)) = Cardinality(TracedBefore(ResetAt))
         /\ \A a \in DOMAIN tasks : tasks[a].kind = "Precomputed" =>
              Cardinality(ServedBefore(a)) < Cardinality(TracedBefore(ResetAt))
         /\ Cardinality(ServedBefore(DriverAt)) = 0
         /\ HostTasks(program) # <<>> => Cardinality(TracedBefore(ResetAt)) > 0
<1>1. /\ Len(program) \in Nat /\ DriverAt \in Nat /\ ResetAt \in Nat
      /\ DOMAIN tasks = 1 .. Len(tasks) /\ Len(tasks) = DriverAt + Len(program) + 3
      /\ DriverAt = ResetAt + 1 /\ ResetAt > 0
      /\ program \in Seq(InstructionSet)
  BY Layout
<1>2. TracedBefore(ResetAt) = TraceTasks(HostTasks(program))
  <2>1. Services(HostTasks(program)) /\ DOMAIN HostTasks(program) = 1 .. (ResetAt - 1)
    <3>1. Services(HostTasks(program))
      BY <1>1, HostTasksShape
    <3>2. HostTasks(program) \in Seq(TaskSet)
      BY <3>1 DEF Services
    <3>3. Len(HostTasks(program)) = ResetAt - 1
      BY <3>2 DEF ResetAt
    <3> QED
      BY <3>1, <3>2, <3>3
  <2>2. \A b \in 1 .. (ResetAt - 1) : tasks[b] = HostTasks(program)[b] /\ b \in DOMAIN tasks
    BY <1>1, Layout
  <2>3. \A b \in DOMAIN tasks : b < ResetAt <=> b \in 1 .. (ResetAt - 1)
    BY <1>1
  <2> QED
    BY <2>1, <2>2, <2>3 DEF TracedBefore, TraceTasks
<1>3. Cardinality(TracedBefore(ResetAt)) = Cardinality(Hosted(program, Len(program)))
  BY <1>1, <1>2, HostTasksShape
<1>4. ASSUME NEW a \in DOMAIN tasks, a > ResetAt
      PROVE  TracedBefore(a) = TracedBefore(ResetAt)
  <2>1. \A b \in DOMAIN tasks : tasks[b].kind = "Trace" => b < ResetAt
    BY Places
  <2>2. \A b \in DOMAIN tasks : b < ResetAt => b < a
    BY <1>1, <1>4
  <2> QED
    BY <2>1, <2>2 DEF TracedBefore
<1>5. Cardinality(ServedBefore(Len(tasks) - 1)) = Cardinality(TracedBefore(ResetAt))
  <2>1. Len(program) \in 0 .. Len(program) /\ Len(tasks) - 1 = DriverAt + 2 + Len(program)
    BY <1>1
  <2> QED
    BY <1>3, <2>1, ServedInRun
<1>6. ASSUME NEW a \in DOMAIN tasks, tasks[a].kind = "Precomputed"
      PROVE  Cardinality(ServedBefore(a)) < Cardinality(TracedBefore(ResetAt))
  <2>1. a < Len(tasks) - 1 /\ a \in Nat
    BY <1>1, <1>6, Places
  <2>2. Len(tasks) - 1 \in DOMAIN tasks
    BY <1>1
  <2> DEFINE all == ServedBefore(Len(tasks) - 1)
  <2>3. IsFiniteSet(all)
    BY FinitelyMany DEF ServedBefore
  <2>4. ServedBefore(a) \in SUBSET (all \ {a}) /\ a \in all
    BY <1>1, <1>6, <2>1 DEF ServedBefore
  <2> HIDE DEF all
  <2>5. IsFiniteSet(all \ {a}) /\ Cardinality(all \ {a}) = Cardinality(all) - 1
    BY <2>3, <2>4, FS_RemoveElement
  <2>6. Cardinality(ServedBefore(a)) <= Cardinality(all \ {a})
    <3> DEFINE rest == all \ {a}
    <3>1. IsFiniteSet(rest) /\ ServedBefore(a) \in SUBSET rest
      BY <2>4, <2>5
    <3> HIDE DEF rest
    <3>2. Cardinality(ServedBefore(a)) <= Cardinality(rest)
      BY <3>1, FS_Subset
    <3> QED
      BY <3>2 DEF rest
  <2>7. Cardinality(all) \in Nat /\ Cardinality(ServedBefore(a)) \in Nat
    BY <2>3, FS_CardinalityType, BatchesSteps
  <2>8. Cardinality(all) = Cardinality(TracedBefore(ResetAt))
    BY <1>5 DEF all
  <2> QED
    BY <2>5, <2>6, <2>7, <2>8
<1>7. Cardinality(ServedBefore(DriverAt)) = 0
  <2>1. \A b \in DOMAIN tasks : b < DriverAt => tasks[b].kind # "Precomputed"
    BY <1>1, Parts, Places
  <2>2. ServedBefore(DriverAt) = {}
    BY <2>1 DEF ServedBefore
  <2> QED
    BY <2>2, FS_EmptySet
<1>8. HostTasks(program) # <<>> => Cardinality(TracedBefore(ResetAt)) > 0
  <2>1. IsFiniteSet(TracedBefore(ResetAt))
    BY FinitelyMany DEF TracedBefore
  <2>2. HostTasks(program) # <<>> => TracedBefore(ResetAt) # {}
    BY <1>1, <1>2, HostTasksShape
  <2>3. Cardinality(TracedBefore(ResetAt)) \in Nat
    BY <2>1, FS_CardinalityType
  <2> QED
    BY <2>1, <2>2, <2>3, FS_EmptySet
<1> QED
  BY <1>4, <1>5, <1>6, <1>7, <1>8

(* Which tasks have no exchange, and what the opening's is.                *)
LEMMA ExchangeLengths ==
  ASSUME NEW task
  PROVE  /\ task.kind \in {"FinishService", "ResetCounter", "InitializeInputs", "Precomputed",
                           "FinishRun"} => Exchanges(task) = <<>>
         /\ task.kind = "Poseidon2" /\ ~ task.shared => Exchanges(task) = <<>>
         /\ task.kind = "Open" =>
              Len(Exchanges(task)) = 1 /\ Exchanges(task)[1].pattern = "reshare"
<1>1. CASE task.kind \in {"FinishService", "ResetCounter", "InitializeInputs", "Precomputed",
                          "FinishRun"} \/ (task.kind = "Poseidon2" /\ ~ task.shared)
  <2>1. Exchanges(task) = <<>>
    BY <1>1 DEF Exchanges
  <2> QED
    BY <1>1, <2>1
<1>2. CASE task.kind = "Open"
  <2>1. Exchanges(task) = <<Exchange("reshare", 0)>>
    BY <1>2 DEF Exchanges
  <2> QED
    BY <1>2, <2>1 DEF Exchange
<1> QED
  BY <1>1, <1>2

(* The rounds of some kinds of tasks are those of any tasks with them and  *)
(* with others that have no exchange.                                      *)
LEMMA RoundsOfKinds ==
  ASSUME Scheduled, NEW kinds, NEW S \in SUBSET DOMAIN tasks,
         \A b \in DOMAIN tasks : tasks[b].kind \in kinds => b \in S,
         \A b \in S : tasks[b].kind \in kinds \/ Lengths[b] = 0
  PROVE  SumFunctionOnSet(Lengths, S) = RoundsOfTasks(kinds)
<1> DEFINE U == {m \in DOMAIN tasks : tasks[m].kind \in kinds}
           v == [n \in U |-> Len(Exchanges(tasks[n]))]
<1>1. RoundsOfTasks(kinds) = SumFunctionOnSet(v, U)
  BY DEF RoundsOfTasks, SumFunction
<1>2. U \in SUBSET S /\ IsFiniteSet(S)
  BY FinitelyMany
<1>3. \A b \in S : Lengths[b] \in Nat
  BY Weights
<1>4. \A b \in U : v[b] = Lengths[b]
  BY Weights
<1>5. \A b \in S \ U : Lengths[b] = 0
  OBVIOUS
<1> HIDE DEF U, v
<1> QED
  BY <1>1, <1>2, <1>3, <1>4, <1>5, SumWhereItCounts

(* What the counter counts before the host resets it.                      *)
LEMMA RoundsOfHost ==
  ASSUME Scheduled
  PROVE  RoundsBefore(ResetAt) = RoundsOfTasks({"NewService", "Trace"})
<1>1. ResetAt \in Nat /\ \A b \in DOMAIN tasks : b \in Nat
  BY Layout, Parts
<1>2. CountedBefore(ResetAt) = {b \in DOMAIN tasks : b < ResetAt}
  BY <1>1 DEF CountedBefore
<1>3. \A b \in DOMAIN tasks :
        tasks[b].kind \in {"NewService", "Trace"} => b \in CountedBefore(ResetAt)
  BY <1>2, Places
<1>4. \A b \in CountedBefore(ResetAt) :
        tasks[b].kind \in {"NewService", "Trace"} \/ Lengths[b] = 0
  BY <1>2, Places, Weights, ExchangeLengths
<1>5. CountedBefore(ResetAt) \in SUBSET DOMAIN tasks
  BY <1>2
<1> QED
  BY <1>3, <1>4, <1>5, RoundsOfKinds DEF RoundsBefore

(* What it counts in the run, the opening at its end included.             *)
LEMMA RoundsOfRun ==
  ASSUME Scheduled
  PROVE  RoundsBefore(Len(tasks)) + 1 =
           RoundsOfTasks({"NewDriver", "Poseidon2", "Reveal", "Reshare", "IsZeroReveal", "Open"})
<1> DEFINE kinds == {"NewDriver", "Poseidon2", "Reveal", "Reshare", "IsZeroReveal", "Open"}
           before == CountedBefore(Len(tasks))
           S == before \cup {Len(tasks)}
<1>1. /\ ResetAt \in Nat /\ DriverAt = ResetAt + 1 /\ Len(program) \in Nat
      /\ Len(tasks) = DriverAt + Len(program) + 3 /\ DOMAIN tasks = 1 .. Len(tasks)
  BY Layout
<1>2. before = {b \in DOMAIN tasks : b < Len(tasks) /\ b > ResetAt}
  BY <1>1 DEF CountedBefore
<1>3. S = {b \in DOMAIN tasks : b > ResetAt} /\ Len(tasks) \notin before
  BY <1>1, <1>2
<1>4. S \in SUBSET DOMAIN tasks /\ before \in SUBSET DOMAIN tasks
  BY <1>2, <1>3
<1>5. \A b \in S : Lengths[b] \in Nat
  BY <1>4, Weights
<1>6. SumFunctionOnSet(Lengths, S) = SumFunctionOnSet(Lengths, before) + Lengths[Len(tasks)]
  <2>1. IsFiniteSet(before)
    BY <1>4, FinitelyMany
  <2> HIDE DEF before
  <2> QED
    BY <1>3, <1>5, <2>1, SumAdds
<1>7. Lengths[Len(tasks)] = 1
  <2>1. Len(tasks) \in DOMAIN tasks
    BY <1>1
  <2> QED
    BY <2>1, Layout, Weights, ExchangeLengths
<1>8. \A b \in DOMAIN tasks : tasks[b].kind \in kinds => b \in S
  BY <1>1, <1>3, Places
<1>9. \A b \in S : tasks[b].kind \in kinds \/ Lengths[b] = 0
  <2> SUFFICES ASSUME NEW b \in S, tasks[b].kind \notin kinds
               PROVE  Lengths[b] = 0
    OBVIOUS
  <2>1. b \in DOMAIN tasks /\ b > ResetAt /\ b \in Nat
    BY <1>1, <1>3
  <2>2. tasks[b].kind \in {"InitializeInputs", "Precomputed", "FinishRun"}
    BY <1>1, <2>1, Places, Parts, SMTT(40)
  <2> QED
    BY <2>1, <2>2, Weights, ExchangeLengths
<1>10. SumFunctionOnSet(Lengths, S) = RoundsOfTasks(kinds)
  <2> HIDE DEF S, kinds
  <2> QED
    BY <1>4, <1>8, <1>9, RoundsOfKinds
<1> QED
  BY <1>6, <1>7, <1>10 DEF RoundsBefore

-----------------------------------------------------------------------------
(* The parties.                                                            *)

(* What the caller's mistake adds to the traces of the run.                *)
Excess(p) == CASE mistake[p] = "trace missing"  -> -1
               [] mistake[p] = "trace too many" -> 1
               [] OTHER                         -> 0
-----------------------------------------------------------------------------
(* The inductive invariant.                                                *)

Pattern(a, r) == Exchanges(tasks[a])[r].pattern

(* In exchange r of task a, p sends to q.                                  *)
Meets(p, q, a, r) ==
  /\ a \in DOMAIN tasks
  /\ r \in 1 .. Len(Exchanges(tasks[a]))
  /\ q \in Addressees(Pattern(a, r), p)

(* p has begun the exchange: its messages are sent.                        *)
Sent(p, a, r) ==
  \/ a < at[p]
  \/ a = at[p] /\ r <= round[p]
  \/ a = at[p] /\ r = round[p] + 1 /\ awaits[p] # <<>>

(* p needs nothing more from q in the exchange.                            *)
Heard(p, q, a, r) ==
  \/ a < at[p]
  \/ a = at[p] /\ r <= round[p]
  \/ a = at[p] /\ r = round[p] + 1 /\ awaits[p] # <<>> /\ q \notin ToSet(awaits[p])

Begun(p) == IF awaits[p] = <<>> THEN round[p] ELSE round[p] + 1

Earlier(m, n) == m.task < n.task \/ (m.task = n.task /\ m.round < n.round)

Frame ==
  /\ Scheduled
  /\ mistake \in [Parties -> Mistakes]
  /\ HostTasks(program) = <<>> => \A p \in Parties : mistake[p] # "trace missing"

(* What a party still waits for: all it waits for in this exchange, or the *)
(* second of two.                                                          *)
Expected(p) ==
  \/ awaits[p] = <<>>
  \/ /\ round[p] < Len(Exchanges(Task(p)))
     /\ \/ awaits[p] = Sources(Pattern(at[p], round[p] + 1), p)
        \/ /\ Pattern(at[p], round[p] + 1) = "broadcast"
           /\ awaits[p] = <<Next3(p)>>

PositionOf(p) == round[p] <= Len(Exchanges(Task(p))) /\ Expected(p)

Positions ==
  /\ at \in [Parties -> DOMAIN tasks]
  /\ round \in [Parties -> Nat]
  /\ awaits \in [Parties -> Seq(Parties)]
  /\ \A p \in Parties : PositionOf(p)

(* A message p has sent to q, which q has not heard, with the masks drawn  *)
(* by then.                                                                *)
Fits(p, q, m) ==
  /\ Meets(p, q, m.task, m.round)
  /\ Sent(p, m.task, m.round)
  /\ ~ Heard(q, p, m.task, m.round)
  /\ m.masks = SpentBefore(m.task) + DrawnBy(tasks[m.task], m.round)

InOrder(messages) ==
  \A i, j \in DOMAIN messages : i < j => Earlier(messages[i], messages[j])

Carries(messages, a, r) ==
  \E i \in DOMAIN messages : messages[i].task = a /\ messages[i].round = r

(* A channel holds the exchanges its sender has begun and its receiver has *)
(* not heard, in order.                                                    *)
Holds(p, q) ==
  /\ \A i \in DOMAIN channel[p][q] : Fits(p, q, channel[p][q][i])
  /\ InOrder(channel[p][q])
  /\ \A a, r \in Nat :
       Meets(p, q, a, r) /\ Sent(p, a, r) /\ ~ Heard(q, p, a, r) => Carries(channel[p][q], a, r)

HeardWasSent(p, q) ==
  \A a, r \in Nat : Meets(p, q, a, r) /\ Heard(q, p, a, r) => Sent(p, a, r)

Channels ==
  /\ channel \in [Parties -> [Parties -> Seq(MessageSet)]]
  /\ \A p, q \in Parties : Holds(p, q) /\ HeardWasSent(p, q)

PoolOf(p) ==
  /\ pool[p].consumed = SpentBefore(at[p]) + DrawnBy(Task(p), Begun(p))
  /\ Begun(p) > 0 => pool[p].before = SpentBefore(at[p])
  /\ pool[p].size = PoolSize(at[p])

Pools == pool \in [Parties -> PoolSet] /\ \A p \in Parties : PoolOf(p)

TracesOf(p) ==
  traces[p] = IF at[p] > ResetAt
              THEN Cardinality(TracedBefore(at[p])) + Excess(p)
                     - Cardinality(ServedBefore(at[p]))
              ELSE Cardinality(TracedBefore(at[p]))

Traces == traces \in [Parties -> Nat] /\ \A p \in Parties : TracesOf(p)

(* The round is counted with the first message heard in it.                *)
Unheard(p) == awaits[p] # <<>> /\ awaits[p] = Sources(Pattern(at[p], round[p] + 1), p)

CounterOf(p) ==
  /\ counter[p].sent <=> Unheard(p)
  /\ counter[p].rounds = RoundsBefore(at[p]) + (IF Unheard(p) THEN round[p] ELSE Begun(p))

Counters ==
  /\ counter \in [Parties -> [rounds : Nat, sent : BOOLEAN]]
  /\ \A p \in Parties : CounterOf(p)

(* A mistake is noticed before the run's end, and nobody else is in error. *)
OutcomeOf(p) ==
  /\ status[p] = "done" => at[p] = Len(tasks) /\ round[p] = 1 /\ awaits[p] = <<>>
  /\ mistake[p] = "wrong kind" => at[p] <= DriverAt + 1
  /\ mistake[p] # "none" => at[p] < Len(tasks)
  /\ status[p] \notin {"running", "done"} => \E q \in Parties : mistake[q] # "none"

Outcomes ==
  /\ status \in [Parties -> {"running", "done", "peer gone"} \cup CallerErrors]
  /\ \A p \in Parties : OutcomeOf(p)

IInv == Frame /\ Positions /\ Channels /\ Pools /\ Traces /\ Counters /\ Outcomes
-----------------------------------------------------------------------------
(* The ring of parties.                                                    *)

(* Each party has two different peers, and is the next of its previous.    *)
LEMMA Ring ==
  ASSUME NEW p \in Parties
  PROVE  /\ Next3(p) \in Parties /\ Prev(p) \in Parties
         /\ Next3(p) # p /\ Prev(p) # p /\ Next3(p) # Prev(p)
         /\ Next3(Prev(p)) = p /\ Prev(Next3(p)) = p
         /\ Next3(Next3(p)) = Prev(p) /\ Prev(Prev(p)) = Next3(p)
<1>1. CASE p = 0
  BY <1>1 DEF Parties, Next3, Prev
<1>2. CASE p = 1
  BY <1>2 DEF Parties, Next3, Prev
<1>3. CASE p = 2
  BY <1>3 DEF Parties, Next3, Prev
<1> QED
  BY <1>1, <1>2, <1>3 DEF Parties

(* Every party is one's own self, the next or the previous.                *)
LEMMA RingIsAll ==
  ASSUME NEW p \in Parties, NEW q \in Parties
  PROVE  q = p \/ q = Next3(p) \/ q = Prev(p)
<1>1. CASE p = 0
  BY <1>1 DEF Parties, Next3, Prev
<1>2. CASE p = 1
  BY <1>2 DEF Parties, Next3, Prev
<1>3. CASE p = 2
  BY <1>3 DEF Parties, Next3, Prev
<1> QED
  BY <1>1, <1>2, <1>3 DEF Parties

(* A party waits for exactly those that send to it.                        *)
LEMMA SourcesAreSenders ==
  ASSUME NEW p \in Parties, NEW q \in Parties, NEW pattern \in {"reshare", "broadcast"}
  PROVE  /\ Sources(pattern, p) \in Seq(Parties)
         /\ Sources(pattern, p) # <<>>
         /\ q \in Addressees(pattern, p) <=> p \in ToSet(Sources(pattern, q))
<1>1. CASE pattern = "reshare"
  <2>1. Sources(pattern, p) = <<Prev(p)>> /\ Sources(pattern, q) = <<Prev(q)>>
    BY <1>1 DEF Sources
  <2>2. Addressees(pattern, p) = {Next3(p)}
    BY <1>1 DEF Addressees
  <2>3. ToSet(Sources(pattern, q)) = {Prev(q)}
    BY <2>1 DEF ToSet
  <2> QED
    BY <2>1, <2>2, <2>3, Ring
<1>2. CASE pattern = "broadcast"
  <2>1. Sources(pattern, p) = <<Prev(p), Next3(p)>> /\ Sources(pattern, q) = <<Prev(q), Next3(q)>>
    BY <1>2 DEF Sources
  <2>2. Addressees(pattern, p) = {Next3(p), Prev(p)}
    BY <1>2 DEF Addressees
  <2>3. ToSet(Sources(pattern, q)) = {Prev(q), Next3(q)}
    BY <2>1 DEF ToSet
  <2> QED
    BY <2>1, <2>2, <2>3, Ring
<1> QED
  BY <1>1, <1>2

-----------------------------------------------------------------------------
(* What no step changes.                                                   *)

(* All that is derived from the program stays as it is.                    *)
LEMMA TasksStay ==
  ASSUME UNCHANGED <<program, tasks>>
  PROVE  /\ Scheduled' <=> Scheduled
         /\ ResetAt' = ResetAt /\ DriverAt' = DriverAt
         /\ \A a : Exchanges(tasks[a])' = Exchanges(tasks[a])
         /\ \A a : SpentBefore(a)' = SpentBefore(a) /\ PoolSize(a)' = PoolSize(a)
         /\ \A a : RoundsBefore(a)' = RoundsBefore(a)
         /\ \A a : TracedBefore(a)' = TracedBefore(a) /\ ServedBefore(a)' = ServedBefore(a)
         /\ \A a, r : Pattern(a, r)' = Pattern(a, r)
         /\ \A p, q, a, r : Meets(p, q, a, r)' <=> Meets(p, q, a, r)
<1>1. Scheduled' <=> Scheduled
  BY DEF Scheduled
<1>2. ResetAt' = ResetAt /\ DriverAt' = DriverAt
  BY DEF ResetAt, DriverAt
<1>3. \A task : Exchanges(task)' = Exchanges(task)
  BY DEF Exchanges
<1>4. \A a : Exchanges(tasks[a])' = Exchanges(tasks[a])
  BY <1>3
<1>5. \A a : SincePool(a)' = SincePool(a)
  BY DEF SincePool
<1>6. Masks' = Masks
  BY DEF Masks
<1>7. \A a : SpentBefore(a)' = SpentBefore(a)
  BY <1>5, <1>6 DEF SpentBefore
<1>8. \A a : PoolSize(a)' = PoolSize(a)
  BY <1>2, <1>7 DEF PoolSize
<1>9. \A a : CountedBefore(a)' = CountedBefore(a)
  BY <1>2 DEF CountedBefore
<1>10. Lengths' = Lengths
  BY <1>4 DEF Lengths
<1>11. \A a : RoundsBefore(a)' = RoundsBefore(a)
  BY <1>9, <1>10 DEF RoundsBefore
<1>12. \A a : TracedBefore(a)' = TracedBefore(a) /\ ServedBefore(a)' = ServedBefore(a)
  BY DEF TracedBefore, ServedBefore
<1>13. \A a, r : Pattern(a, r)' = Pattern(a, r)
  BY <1>4 DEF Pattern
<1>14. \A p, q, a, r : Meets(p, q, a, r)' <=> Meets(p, q, a, r)
  BY <1>4, <1>13 DEF Meets
<1> QED
  BY <1>1, <1>2, <1>4, <1>7, <1>8, <1>11, <1>12, <1>13, <1>14

(* The types that the invariant gives the state of a party.                *)
LEMMA PartyTypes ==
  ASSUME Frame, Positions, NEW p \in Parties
  PROVE  /\ at[p] \in DOMAIN tasks /\ at[p] \in Nat /\ 0 < at[p] /\ at[p] <= Len(tasks)
         /\ round[p] \in Nat /\ awaits[p] \in Seq(Parties)
         /\ Task(p) = tasks[at[p]] /\ Task(p) \in TaskSet
         /\ Exchanges(Task(p)) \in Seq(ExchangeSet) /\ Len(Exchanges(Task(p))) \in Nat
         /\ round[p] <= Len(Exchanges(Task(p)))
<1>1. Scheduled /\ at[p] \in DOMAIN tasks
  BY DEF Frame, Positions
<1>2. Task(p) \in TaskSet
  BY <1>1, Parts DEF Task
<1>3. Exchanges(Task(p)) \in Seq(ExchangeSet)
  BY <1>2, ExchangesShape
<1> QED
  BY <1>1, <1>2, <1>3, Parts DEF Positions, PositionOf, Task

(* The messages of a channel.                                              *)
LEMMA Messages ==
  ASSUME NEW c \in Seq(MessageSet), NEW i \in DOMAIN c
  PROVE  c[i] \in MessageSet /\ c[i].task \in Nat /\ c[i].round \in Nat
<1>1. c[i] \in MessageSet
  OBVIOUS
<1> QED
  BY <1>1 DEF MessageSet

(* What a channel holds stays right when, of the exchanges of the pair,    *)
(* the one begins none and the other hears none.                           *)
LEMMA PairStays ==
  ASSUME UNCHANGED <<program, tasks>>, NEW p \in Parties, NEW q \in Parties,
         channel[p][q] \in Seq(MessageSet), channel'[p][q] = channel[p][q],
         \A a, r \in Nat : Meets(p, q, a, r) =>
           (Sent(p, a, r)' <=> Sent(p, a, r)) /\ (Heard(q, p, a, r)' <=> Heard(q, p, a, r)),
         Holds(p, q), HeardWasSent(p, q)
  PROVE  Holds(p, q)' /\ HeardWasSent(p, q)'
<1>1. PICK c \in Seq(MessageSet) : c = channel[p][q] /\ c = channel'[p][q]
  OBVIOUS
<1>2. \A a, r : Meets(p, q, a, r)' <=> Meets(p, q, a, r)
  BY TasksStay
<1>3. ASSUME NEW m \in MessageSet, Fits(p, q, m)
      PROVE  Fits(p, q, m)'
  <2>1. m.task \in Nat /\ m.round \in Nat
    BY DEF MessageSet
  <2>2. Meets(p, q, m.task, m.round) /\ Sent(p, m.task, m.round) /\ ~ Heard(q, p, m.task, m.round)
    BY <1>3 DEF Fits
  <2>3. SpentBefore(m.task)' = SpentBefore(m.task)
    BY TasksStay
  <2>4. m.masks = SpentBefore(m.task) + DrawnBy(tasks[m.task], m.round)
    BY <1>3 DEF Fits
  <2> QED
    BY <1>2, <2>1, <2>2, <2>3, <2>4 DEF Fits
<1>4. \A i \in DOMAIN c : Fits(p, q, c[i])'
  <2> SUFFICES ASSUME NEW i \in DOMAIN c
               PROVE  Fits(p, q, c[i])'
    OBVIOUS
  <2>1. Fits(p, q, c[i])
    BY <1>1 DEF Holds
  <2>2. c[i] \in MessageSet
    BY Messages
  <2> QED
    BY <1>3, <2>1, <2>2
<1>5. InOrder(c)
  BY <1>1 DEF Holds
<1>6. \A a, r \in Nat :
        Meets(p, q, a, r)' /\ Sent(p, a, r)' /\ ~ Heard(q, p, a, r)' => Carries(c, a, r)
  BY <1>1, <1>2 DEF Holds
<1>7. Holds(p, q)'
  BY <1>1, <1>4, <1>5, <1>6 DEF Holds
<1>8. HeardWasSent(p, q)'
  BY <1>2 DEF HeardWasSent
<1> QED
  BY <1>7, <1>8

(* A party that takes no step is described by the same facts.              *)
LEMMA PartyStays ==
  ASSUME UNCHANGED <<program, tasks, mistake>>, NEW p \in Parties,
         at'[p] = at[p], round'[p] = round[p], awaits'[p] = awaits[p]
  PROVE  /\ PositionOf(p) => PositionOf(p)'
         /\ \A a, r : Sent(p, a, r)' <=> Sent(p, a, r)
         /\ \A q, a, r : Heard(p, q, a, r)' <=> Heard(p, q, a, r)
         /\ pool'[p] = pool[p] /\ PoolOf(p) => PoolOf(p)'
         /\ traces'[p] = traces[p] /\ TracesOf(p) => TracesOf(p)'
         /\ counter'[p] = counter[p] /\ CounterOf(p) => CounterOf(p)'
         /\ status'[p] = status[p] /\ OutcomeOf(p) => OutcomeOf(p)'
<1>1. \A a, r : Pattern(a, r)' = Pattern(a, r)
  BY TasksStay
<1>2. Task(p)' = Task(p) /\ Begun(p)' = Begun(p)
  BY DEF Task, Begun
<1>3. Exchanges(Task(p))' = Exchanges(Task(p))
  BY TasksStay DEF Task
<1>4. PositionOf(p) => PositionOf(p)'
  BY <1>1, <1>3 DEF PositionOf, Expected
<1>5. /\ \A a, r : Sent(p, a, r)' <=> Sent(p, a, r)
      /\ \A q, a, r : Heard(p, q, a, r)' <=> Heard(p, q, a, r)
  BY DEF Sent, Heard
<1>6. pool'[p] = pool[p] /\ PoolOf(p) => PoolOf(p)'
  BY <1>2, TasksStay DEF PoolOf
<1>7. traces'[p] = traces[p] /\ TracesOf(p) => TracesOf(p)'
  <2>1. Excess(p)' = Excess(p)
    BY DEF Excess
  <2> QED
    BY <2>1, TasksStay DEF TracesOf
<1>8. counter'[p] = counter[p] /\ CounterOf(p) => CounterOf(p)'
  <2>1. Unheard(p)' <=> Unheard(p)
    BY <1>1 DEF Unheard
  <2> QED
    BY <1>2, <2>1, TasksStay DEF CounterOf
<1>9. status'[p] = status[p] /\ OutcomeOf(p) => OutcomeOf(p)'
  BY TasksStay DEF OutcomeOf
<1> QED
  BY <1>4, <1>5, <1>6, <1>7, <1>8, <1>9

(* The frame stays when nothing of it changes.                             *)
LEMMA FrameStays ==
  ASSUME UNCHANGED <<program, tasks, mistake>>, Frame
  PROVE  Frame'
  BY TasksStay DEF Frame

(* When a party ends, only its outcome is to be looked at.                 *)
LEMMA Ending ==
  ASSUME IInv, NEW p \in Parties, NEW error,
         error \in {"running", "done", "peer gone"} \cup CallerErrors,
         Fail(p, error), OutcomeOf(p)'
  PROVE  IInv'
<1> USE DEF IInv
<1>1. UNCHANGED <<program, tasks, mistake, at, round, awaits, channel, pool, traces, counter>>
  BY DEF Fail
<1>2. Frame'
  BY <1>1, FrameStays
<1>3. Positions'
  BY <1>1, PartyStays DEF Positions
<1>4. Channels'
  <2>1. channel' \in [Parties -> [Parties -> Seq(MessageSet)]]
    BY <1>1 DEF Channels
  <2>2. ASSUME NEW o \in Parties, NEW q \in Parties
        PROVE  Holds(o, q)' /\ HeardWasSent(o, q)'
    <3>1. channel[o][q] \in Seq(MessageSet) /\ channel'[o][q] = channel[o][q]
      BY <1>1 DEF Channels
    <3>2. Holds(o, q) /\ HeardWasSent(o, q)
      BY DEF Channels
    <3>3. \A a, r : Sent(o, a, r)' <=> Sent(o, a, r)
      BY <1>1, PartyStays
    <3>4. \A a, r : Heard(q, o, a, r)' <=> Heard(q, o, a, r)
      BY <1>1, PartyStays
    <3> QED
      BY <1>1, <3>1, <3>2, <3>3, <3>4, PairStays
  <2> QED
    BY <2>1, <2>2 DEF Channels
<1>5. Pools'
  BY <1>1, PartyStays DEF Pools
<1>6. Traces'
  BY <1>1, PartyStays DEF Traces
<1>7. Counters'
  BY <1>1, PartyStays DEF Counters
<1>8. Outcomes'
  <2>1. status' = [status EXCEPT ![p] = error]
    BY DEF Fail
  <2>2. status' \in [Parties -> {"running", "done", "peer gone"} \cup CallerErrors]
    BY <2>1 DEF Outcomes
  <2>3. ASSUME NEW q \in Parties
        PROVE  OutcomeOf(q)'
    <3>1. CASE q = p
      BY <3>1
    <3>2. CASE q # p
      <4>1. status'[q] = status[q]
        BY <2>1, <3>2 DEF Outcomes
      <4> QED
        BY <1>1, <4>1, PartyStays DEF Outcomes
    <3> QED
      BY <3>1, <3>2
  <2> QED
    BY <2>2, <2>3 DEF Outcomes
<1> QED
  BY <1>2, <1>3, <1>4, <1>5, <1>6, <1>7, <1>8

-----------------------------------------------------------------------------
(* From one task to the next.                                              *)

Moves(p) ==
  /\ Idle(p)
  /\ round[p] = Len(Exchanges(Task(p)))
  /\ Task(p).kind # "Open"
  /\ Advance(p)

(* Where the party is then.                                                *)
LEMMA Moved ==
  ASSUME IInv, NEW p \in Parties, Moves(p)
  PROVE  /\ UNCHANGED <<program, tasks, mistake, awaits, channel, status>>
         /\ at[p] \in DOMAIN tasks /\ at[p] + 1 \in DOMAIN tasks
         /\ at'[p] = at[p] + 1 /\ round'[p] = 0 /\ awaits[p] = <<>>
         /\ at' \in [Parties -> DOMAIN tasks] /\ round' \in [Parties -> Nat]
         /\ \A q \in Parties : q # p => at'[q] = at[q] /\ round'[q] = round[q]
         /\ Begun(p) = Len(Exchanges(Task(p))) /\ Begun(p)' = 0
         /\ Task(p)' = tasks[at[p] + 1] /\ Task(p)' \in TaskSet
         /\ Scheduled
<1>1. UNCHANGED <<program, tasks, mistake, awaits, channel, status>>
  BY DEF Moves, Advance
<1>2. Frame /\ Positions /\ Scheduled
  BY DEF IInv, Frame
<1>3. at[p] \in DOMAIN tasks /\ at[p] # Len(tasks) /\ at[p] \in Nat
  <2>1. Task(p).kind # "Open"
    BY DEF Moves
  <2> QED
    BY <1>2, <2>1, PartyTypes, Places
<1>4. at[p] + 1 \in DOMAIN tasks
  BY <1>2, <1>3, Layout, SMTT(40)
<1>5. at \in [Parties -> DOMAIN tasks] /\ round \in [Parties -> Nat]
  BY <1>2 DEF Positions
<1>6. at' = [at EXCEPT ![p] = at[p] + 1] /\ round' = [round EXCEPT ![p] = 0]
  BY DEF Moves, Advance
<1>7. awaits[p] = <<>> /\ Begun(p) = Len(Exchanges(Task(p)))
  BY DEF Moves, Idle, Begun
<1>8. Begun(p)' = 0
  BY <1>1, <1>5, <1>6, <1>7 DEF Begun
<1>9. Task(p)' = tasks[at[p] + 1]
  BY <1>1, <1>5, <1>6 DEF Task
<1>10. tasks[at[p] + 1] \in TaskSet
  BY <1>2, <1>4, Parts
<1> QED
  BY <1>1, <1>2, <1>3, <1>4, <1>5, <1>6, <1>7, <1>8, <1>9, <1>10

(* It has sent and heard the same exchanges as before.                     *)
LEMMA MovedExchanges ==
  ASSUME IInv, NEW p \in Parties, Moves(p), NEW a \in DOMAIN tasks,
         NEW r \in 1 .. Len(Exchanges(tasks[a]))
  PROVE  /\ Sent(p, a, r)' <=> Sent(p, a, r)
         /\ \A q : Heard(p, q, a, r)' <=> Heard(p, q, a, r)
<1>1. Scheduled /\ at[p] \in Nat /\ round[p] = Len(Exchanges(tasks[at[p]]))
  <2>1. Frame /\ Positions
    BY DEF IInv
  <2> QED
    BY <2>1, PartyTypes DEF Moves, Frame
<1>2. a \in Nat /\ r \in Nat /\ r > 0 /\ r <= Len(Exchanges(tasks[a]))
  BY <1>1, Parts, Weights
<1>3. at'[p] = at[p] + 1 /\ round'[p] = 0 /\ awaits'[p] = <<>> /\ awaits[p] = <<>>
  BY Moved
<1>4. a = at[p] => r <= round[p]
  BY <1>1, <1>2
<1> QED
  BY <1>1, <1>2, <1>3, <1>4 DEF Sent, Heard

(* Whatever the task was, the parties' positions and channels are right.   *)
LEMMA MovedChannels ==
  ASSUME IInv, NEW p \in Parties, Moves(p)
  PROVE  Frame' /\ Positions' /\ Channels'
<1>1. UNCHANGED <<program, tasks, mistake, awaits, channel, status>>
  BY Moved
<1>2. Frame'
  BY <1>1, FrameStays DEF IInv
<1>3. Positions'
  <2>1. PositionOf(p)'
    <3>1. Task(p)' \in TaskSet
      BY Moved
    <3>2. Exchanges(Task(p))' = Exchanges(tasks[at[p] + 1])
      BY <1>1, Moved, TasksStay
    <3>3. Len(Exchanges(tasks[at[p] + 1])) \in Nat
      BY Moved, Weights
    <3> QED
      BY <3>2, <3>3, <1>1, Moved DEF PositionOf, Expected
  <2>2. ASSUME NEW q \in Parties, q # p
        PROVE  PositionOf(q)'
    <3>1. at'[q] = at[q] /\ round'[q] = round[q] /\ awaits'[q] = awaits[q]
      BY <1>1, <2>2, Moved
    <3>2. PositionOf(q)
      BY DEF IInv, Positions
    <3> QED
      BY <1>1, <3>1, <3>2, PartyStays
  <2>3. awaits' \in [Parties -> Seq(Parties)] /\ tasks' = tasks
    BY <1>1 DEF IInv, Positions
  <2>4. at' \in [Parties -> DOMAIN tasks] /\ round' \in [Parties -> Nat]
    BY Moved
  <2> QED
    BY <2>1, <2>2, <2>3, <2>4 DEF Positions
<1>4. Channels'
  <2>1. channel' \in [Parties -> [Parties -> Seq(MessageSet)]]
    BY <1>1 DEF IInv, Channels
  <2>2. ASSUME NEW o \in Parties, NEW a \in DOMAIN tasks, NEW r \in 1 .. Len(Exchanges(tasks[a]))
        PROVE  /\ Sent(o, a, r)' <=> Sent(o, a, r)
               /\ \A q : Heard(o, q, a, r)' <=> Heard(o, q, a, r)
    <3>1. CASE o = p
      BY <3>1, MovedExchanges
    <3>2. CASE o # p
      <4>1. at'[o] = at[o] /\ round'[o] = round[o] /\ awaits'[o] = awaits[o]
        BY <1>1, <3>2, Moved
      <4> QED
        BY <1>1, <4>1, PartyStays
    <3> QED
      BY <3>1, <3>2
  <2>3. ASSUME NEW o \in Parties, NEW q \in Parties
        PROVE  Holds(o, q)' /\ HeardWasSent(o, q)'
    <3>1. channel[o][q] \in Seq(MessageSet) /\ channel'[o][q] = channel[o][q]
      BY <1>1 DEF IInv, Channels
    <3>2. Holds(o, q) /\ HeardWasSent(o, q)
      BY DEF IInv, Channels
    <3>3. \A a, r \in Nat : Meets(o, q, a, r) =>
            (Sent(o, a, r)' <=> Sent(o, a, r)) /\ (Heard(q, o, a, r)' <=> Heard(q, o, a, r))
      BY <2>2 DEF Meets
    <3> QED
      BY <1>1, <3>1, <3>2, <3>3, PairStays
  <2> QED
    BY <2>1, <2>3 DEF Channels
<1> QED
  BY <1>2, <1>3, <1>4

(* What the task has to notice of a mistake.                               *)
Noticed(p) ==
  /\ at[p] = DriverAt + 1 => mistake[p] # "wrong kind"
  /\ at[p] = Len(tasks) - 1 => mistake[p] = "none"

(* A mistake that is noticed at the task ends the run there.               *)
LEMMA MovedOutcome ==
  ASSUME IInv, NEW p \in Parties, Moves(p), Noticed(p)
  PROVE  OutcomeOf(p)'
<1>1. UNCHANGED <<program, tasks, mistake, awaits, channel, status>>
  BY Moved
<1>7. OutcomeOf(p) /\ status[p] = "running"
  BY DEF IInv, Outcomes, Moves, Idle, Running
<1>2. Scheduled /\ at'[p] = at[p] + 1 /\ at[p] \in DOMAIN tasks /\ at[p] + 1 \in DOMAIN tasks
  BY Moved
<1>6. /\ at[p] \in Nat /\ at[p] + 1 <= Len(tasks)
      /\ Len(tasks) \in Nat /\ DriverAt \in Nat
  BY <1>2, Layout, Parts
<1>3. DriverAt' = DriverAt
  BY <1>1, TasksStay
<1>4. mistake[p] = "wrong kind" => at[p] + 1 <= DriverAt + 1
  <2>1. at[p] <= DriverAt + 1 => at[p] = DriverAt + 1 \/ at[p] + 1 <= DriverAt + 1
    BY <1>6
  <2> QED
    BY <1>7, <2>1, Zenon DEF OutcomeOf, Noticed
<1>5. mistake[p] # "none" => at[p] + 1 < Len(tasks)
  <2>1. at[p] < Len(tasks) => at[p] = Len(tasks) - 1 \/ at[p] + 1 < Len(tasks)
    BY <1>6
  <2> QED
    BY <1>7, <2>1, Zenon DEF OutcomeOf, Noticed
<1> QED
  BY <1>1, <1>7, <1>2, <1>3, <1>4, <1>5 DEF OutcomeOf

(* What is left to show of a step to the next task.                        *)
LEMMA Moving ==
  ASSUME IInv, NEW p \in Parties, Moves(p),
         pool' \in [Parties -> PoolSet], traces' \in [Parties -> Nat],
         counter' \in [Parties -> [rounds : Nat, sent : BOOLEAN]],
         \A q \in Parties : q # p => /\ pool'[q] = pool[q] /\ traces'[q] = traces[q]
                                     /\ counter'[q] = counter[q],
         PoolOf(p)', TracesOf(p)', CounterOf(p)',
         Noticed(p)
  PROVE  IInv'
<1>1. UNCHANGED <<program, tasks, mistake, awaits, channel, status>>
  BY Moved
<1>2. \A q \in Parties : q # p =>
        at'[q] = at[q] /\ round'[q] = round[q] /\ awaits'[q] = awaits[q] /\ status'[q] = status[q]
  BY <1>1, Moved
<1>3. Frame' /\ Positions' /\ Channels'
  BY MovedChannels
<1>4. ASSUME NEW q \in Parties, q # p
      PROVE  PoolOf(q)' /\ TracesOf(q)' /\ CounterOf(q)' /\ OutcomeOf(q)'
  <2>1. PoolOf(q) /\ TracesOf(q) /\ CounterOf(q) /\ OutcomeOf(q)
    BY DEF IInv, Pools, Traces, Counters, Outcomes
  <2> QED
    BY <1>1, <1>2, <1>4, <2>1, PartyStays
<1>5. OutcomeOf(p)'
  BY MovedOutcome
<1>6. Pools' /\ Traces' /\ Counters'
  BY <1>4 DEF Pools, Traces, Counters
<1>7. Outcomes'
  BY <1>1, <1>4, <1>5 DEF IInv, Outcomes
<1> QED
  BY <1>3, <1>6, <1>7 DEF IInv

(* The pool after a task that leaves it alone: what it drew is spent.      *)
LEMMA MovedPoolKept ==
  ASSUME IInv, NEW p \in Parties, Moves(p), pool'[p] = pool[p], ~ Prepares(Task(p))
  PROVE  PoolOf(p)'
<1>1. UNCHANGED <<program, tasks>> /\ Scheduled
  BY Moved
<1>2. PoolOf(p) /\ Task(p) = tasks[at[p]] /\ at[p] \in DOMAIN tasks /\ at[p] + 1 \in DOMAIN tasks
  BY Moved DEF IInv, Pools, Task
<1>3. pool[p].consumed = SpentBefore(at[p]) + TaskMasks(tasks[at[p]])
  <2>1. Begun(p) = Len(Exchanges(Task(p)))
    BY Moved
  <2>2. Task(p) \in TaskSet
    BY <1>1, <1>2, Parts
  <2> QED
    BY <1>2, <2>1, <2>2, ExchangesShape DEF PoolOf
<1>4. SpentBefore(at[p] + 1) = SpentBefore(at[p]) + TaskMasks(tasks[at[p]])
  BY <1>1, <1>2, SpentSteps
<1>5. SpentBefore(at[p] + 1) \in Nat
  BY <1>1, <1>2, SpentSteps
<1>6. PoolSize(at[p] + 1) = PoolSize(at[p])
  BY <1>1, <1>2, PoolSteps DEF Prepares
<1>7. DrawnBy(Task(p)', 0) = 0
  BY Moved, ExchangesShape
<1>8. /\ pool'[p].consumed = SpentBefore(at[p] + 1) + 0
      /\ pool'[p].size = PoolSize(at[p] + 1)
  BY <1>2, <1>3, <1>4, <1>5, <1>6 DEF PoolOf
<1> QED
  BY <1>1, <1>7, <1>8, Moved, TasksStay DEF PoolOf

(* The pool after its preparation: nothing is drawn from it.               *)
LEMMA MovedPoolPrepared ==
  ASSUME IInv, NEW p \in Parties, Moves(p), Prepares(Task(p)),
         pool'[p] = [EmptyPool EXCEPT !.size =
                       IF Task(p).kind = "NewDriver" THEN MaskBudget(program)
                       ELSE MaskElements(Task(p).t, Task(p).sites)]
  PROVE  PoolOf(p)' /\ pool'[p] \in PoolSet
<1>1. UNCHANGED <<program, tasks>> /\ Scheduled
  BY Moved
<1>2. Task(p) = tasks[at[p]] /\ at[p] \in DOMAIN tasks /\ at[p] + 1 \in DOMAIN tasks
  BY Moved DEF Task
<1>3. pool'[p].size = PoolSize(at[p] + 1)
  <2>1. pool'[p].size = IF Task(p).kind = "NewDriver" THEN MaskBudget(program)
                        ELSE MaskElements(Task(p).t, Task(p).sites)
    BY DEF EmptyPool
  <2>2. Task(p).kind \in {"NewService", "NewDriver"}
    BY DEF Prepares
  <2> QED
    BY <1>1, <1>2, <2>1, <2>2, PoolSteps
<1>4. pool'[p].consumed = 0 /\ pool'[p].before = 0
  BY DEF EmptyPool
<1>5. SpentBefore(at[p] + 1) = 0
  BY <1>1, <1>2, SpentSteps
<1>6. DrawnBy(Task(p)', 0) = 0
  BY Moved, ExchangesShape
<1>7. PoolSize(at[p] + 1) \in Nat
  BY <1>1, <1>2, PoolCovers
<1>8. pool'[p] \in PoolSet
  BY <1>3, <1>7 DEF EmptyPool, PoolSet
<1> QED
  BY <1>1, <1>3, <1>4, <1>5, <1>6, <1>8, Moved, TasksStay DEF PoolOf

(* The counter after a task, and after the host's reset.                   *)
LEMMA MovedCounter ==
  ASSUME IInv, NEW p \in Parties, Moves(p),
         IF Task(p).kind = "ResetCounter" THEN counter'[p] = [rounds |-> 0, sent |-> FALSE]
         ELSE counter'[p] = counter[p]
  PROVE  CounterOf(p)'
<1>1. UNCHANGED <<program, tasks, awaits>> /\ Scheduled /\ awaits[p] = <<>>
  BY Moved
<1>2. CounterOf(p) /\ Task(p) = tasks[at[p]] /\ at[p] \in DOMAIN tasks
  BY Moved DEF IInv, Counters, Task
<1>3. ~ Unheard(p) /\ ~ Unheard(p)'
  BY <1>1 DEF Unheard
<1>4. counter[p].sent = FALSE /\ counter[p].rounds = RoundsBefore(at[p]) + Len(Exchanges(Task(p)))
  <2>1. counter[p] \in [rounds : Nat, sent : BOOLEAN]
    BY DEF IInv, Counters
  <2> QED
    BY <1>2, <1>3, <2>1, Moved DEF CounterOf
<1>5. counter'[p].sent = FALSE /\ counter'[p].rounds = RoundsBefore(at[p] + 1)
  <2>1. CASE Task(p).kind = "ResetCounter"
    <3>1. at[p] = ResetAt
      BY <1>1, <1>2, <2>1, Places
    <3> QED
      BY <1>1, <1>2, <2>1, <3>1, RoundsSteps
  <2>2. CASE Task(p).kind # "ResetCounter"
    <3>1. at[p] # ResetAt
      BY <1>1, <1>2, <2>2, Places
    <3> QED
      BY <1>1, <1>2, <1>4, <2>2, <3>1, RoundsSteps
  <2> QED
    BY <2>1, <2>2
<1>6. RoundsBefore(at[p] + 1) \in Nat
  BY <1>1, Moved, RoundsSteps
<1> QED
  BY <1>1, <1>3, <1>5, <1>6, Moved, TasksStay DEF CounterOf

(* A mistake adds a trace, takes one away, or does neither.                *)
LEMMA ExcessType ==
  ASSUME NEW p \in Parties
  PROVE  /\ Excess(p) \in Int /\ Excess(p) >= -1 /\ Excess(p) <= 1
         /\ mistake[p] = "trace missing" => Excess(p) = -1
         /\ mistake[p] = "trace too many" => Excess(p) = 1
         /\ mistake[p] \notin {"trace missing", "trace too many"} => Excess(p) = 0
<1>1. mistake[p] = "trace missing" => Excess(p) = -1
  BY DEF Excess
<1>2. mistake[p] = "trace too many" => Excess(p) = 1
  BY DEF Excess
<1>3. mistake[p] \notin {"trace missing", "trace too many"} => Excess(p) = 0
  BY DEF Excess
<1>4. Excess(p) = -1 \/ Excess(p) = 1 \/ Excess(p) = 0
  BY <1>1, <1>2, <1>3, Zenon
<1>5. Excess(p) \in Int /\ Excess(p) >= -1 /\ Excess(p) <= 1
  BY <1>4
<1> QED
  BY <1>1, <1>2, <1>3, <1>5

(* The traces after a task: queued, attached, and consumed.                *)
LEMMA MovedTraces ==
  ASSUME IInv, NEW p \in Parties, Moves(p),
         traces'[p] = CASE Task(p).kind = "Trace"        -> traces[p] + 1
                        [] Task(p).kind = "Precomputed"  -> traces[p] - 1
                        [] Task(p).kind = "ResetCounter" -> traces[p] + Excess(p)
                        [] OTHER                         -> traces[p]
  PROVE  TracesOf(p)'
<1> DEFINE a == at[p]
           T(b) == Cardinality(TracedBefore(b))
           S(b) == Cardinality(ServedBefore(b))
<1>1. UNCHANGED <<program, tasks, mistake>> /\ Scheduled
  BY Moved
<1>2. /\ TracesOf(p) /\ Task(p) = tasks[a] /\ a \in DOMAIN tasks /\ a + 1 \in DOMAIN tasks
      /\ at'[p] = a + 1
  BY Moved DEF IInv, Traces, Task
<1>3. /\ T(a) \in Nat /\ S(a) \in Nat /\ Excess(p) \in Int
      /\ T(a + 1) = T(a) + (IF tasks[a].kind = "Trace" THEN 1 ELSE 0)
      /\ S(a + 1) = S(a) + (IF tasks[a].kind = "Precomputed" THEN 1 ELSE 0)
  <2>1. Excess(p) \in Int
    BY ExcessType
  <2>2. /\ T(a) \in Nat /\ S(a) \in Nat
        /\ T(a + 1) = T(a) + (IF tasks[a].kind = "Trace" THEN 1 ELSE 0)
        /\ S(a + 1) = S(a) + (IF tasks[a].kind = "Precomputed" THEN 1 ELSE 0)
    BY <1>1, <1>2, BatchesSteps
  <2> HIDE DEF T, S, a
  <2> QED
    BY <2>1, <2>2
<1>4. a \in Nat /\ ResetAt \in Nat
  BY <1>1, <1>2, Parts, Layout
<1>5. traces'[p] = IF a + 1 > ResetAt THEN T(a + 1) + Excess(p) - S(a + 1) ELSE T(a + 1)
  <2> HIDE DEF T, S
  <2>1. CASE a < ResetAt
    <3>1. tasks[a].kind \notin {"Precomputed", "ResetCounter"}
      BY <1>1, <1>2, <2>1, Places
    <3>2. traces[p] = T(a)
      BY <1>2, <1>4, <2>1 DEF TracesOf, T
    <3> QED
      BY <1>2, <1>3, <1>4, <2>1, <3>1, <3>2
  <2>2. CASE a = ResetAt
    <3>1. tasks[a].kind = "ResetCounter"
      BY <1>1, <1>2, <2>2, Places
    <3>2. traces[p] = T(a)
      BY <1>2, <1>4, <2>2 DEF TracesOf, T
    <3>3. S(a + 1) = 0
      <4>1. a + 1 = DriverAt
        BY <2>2 DEF DriverAt
      <4> QED
        BY <1>1, <4>1, BatchesBalance DEF S
    <3> QED
      BY <1>2, <1>3, <1>4, <2>2, <3>1, <3>2, <3>3
  <2>3. CASE a > ResetAt
    <3>1. tasks[a].kind \notin {"Trace", "ResetCounter"}
      <4>1. ~ (a < ResetAt) /\ a # ResetAt
        BY <1>4, <2>3
      <4> QED
        BY <1>1, <1>2, <4>1, Places
    <3>2. traces[p] = T(a) + Excess(p) - S(a)
      BY <1>2, <2>3 DEF TracesOf, T, S
    <3> QED
      BY <1>2, <1>3, <1>4, <2>3, <3>1, <3>2
  <2> QED
    BY <1>4, <2>1, <2>2, <2>3
<1>6. Excess(p)' = Excess(p)
  BY <1>1 DEF Excess
<1> HIDE DEF a
<1> QED
  BY <1>1, <1>2, <1>5, <1>6, TasksStay DEF TracesOf

-----------------------------------------------------------------------------
(* The steps that end a task.                                              *)

(* An error that some caller's mistake explains.                           *)
LEMMA Failing ==
  ASSUME IInv, NEW p \in Parties, NEW error \in {"peer gone"} \cup CallerErrors,
         Fail(p, error), \E q \in Parties : mistake[q] # "none"
  PROVE  IInv'
<1>1. UNCHANGED <<program, tasks, mistake, at, round, awaits>> /\ status' = [status EXCEPT ![p] = error]
  BY DEF Fail
<1>2. OutcomeOf(p) /\ status'[p] = error
  BY <1>1 DEF IInv, Outcomes
<1>3. error # "done"
  BY DEF CallerErrors
<1>4. DriverAt' = DriverAt
  BY <1>1, TasksStay
<1>5. OutcomeOf(p)'
  BY <1>1, <1>2, <1>3, <1>4 DEF OutcomeOf
<1> QED
  BY <1>5, Ending

(* Only two tasks notice a mistake at their end.                           *)
LEMMA NothingToNotice ==
  ASSUME IInv, NEW p \in Parties, Task(p).kind \notin {"InitializeInputs", "FinishRun"}
  PROVE  Noticed(p)
<1>1. Scheduled /\ at[p] \in DOMAIN tasks /\ Task(p) = tasks[at[p]]
  BY DEF IInv, Frame, Positions, Task
<1>2. at[p] # DriverAt + 1 /\ at[p] # Len(tasks) - 1
  BY <1>1, Places
<1> QED
  BY <1>2 DEF Noticed

(* A task that leaves pool and counter alone.                              *)
LEMMA LeftAlone ==
  ASSUME IInv, NEW p \in Parties, Moves(p), Noticed(p), UNCHANGED <<pool, counter>>,
         Task(p).kind \notin {"NewService", "NewDriver", "ResetCounter"},
         traces' \in [Parties -> Nat], \A q \in Parties : q # p => traces'[q] = traces[q],
         TracesOf(p)'
  PROVE  IInv'
<1>1. pool' \in [Parties -> PoolSet] /\ counter' \in [Parties -> [rounds : Nat, sent : BOOLEAN]]
  BY DEF IInv, Pools, Counters
<1>2. PoolOf(p)'
  BY MovedPoolKept DEF Prepares
<1>3. CounterOf(p)'
  BY MovedCounter
<1> QED
  BY <1>1, <1>2, <1>3, Moving

(* One that leaves the traces alone as well.                               *)
LEMMA AllLeftAlone ==
  ASSUME IInv, NEW p \in Parties, Moves(p), Noticed(p), UNCHANGED <<pool, traces, counter>>,
         Task(p).kind \notin {"NewService", "NewDriver", "ResetCounter", "Trace", "Precomputed"}
  PROVE  IInv'
<1>1. traces' \in [Parties -> Nat]
  BY DEF IInv, Traces
<1>2. TracesOf(p)'
  BY MovedTraces
<1> QED
  BY <1>1, <1>2, LeftAlone

(* A new pool.                                                             *)
LEMMA PreparePoolStep ==
  ASSUME IInv, NEW p \in Parties, PreparePool(p)
  PROVE  IInv'
<1>1. Moves(p) /\ Prepares(Task(p)) /\ UNCHANGED <<traces, counter>>
  BY DEF PreparePool, Completes, Moves, Prepares
<1>2. pool' = [pool EXCEPT ![p] =
                 [EmptyPool EXCEPT !.size =
                    IF Task(p).kind = "NewDriver" THEN MaskBudget(program)
                    ELSE MaskElements(Task(p).t, Task(p).sites)]]
  BY DEF PreparePool
<1>3. pool \in [Parties -> PoolSet]
  BY DEF IInv, Pools
<1>4. pool'[p] = [EmptyPool EXCEPT !.size =
                    IF Task(p).kind = "NewDriver" THEN MaskBudget(program)
                    ELSE MaskElements(Task(p).t, Task(p).sites)]
  BY <1>2, <1>3
<1>5. PoolOf(p)' /\ pool'[p] \in PoolSet
  BY <1>1, <1>4, MovedPoolPrepared
<1>6. pool' \in [Parties -> PoolSet] /\ \A q \in Parties : q # p => pool'[q] = pool[q]
  BY <1>2, <1>3, <1>4, <1>5
<1>7. CounterOf(p)'
  BY <1>1, MovedCounter DEF Prepares
<1>8. TracesOf(p)'
  BY <1>1, MovedTraces DEF Prepares
<1>9. /\ traces' \in [Parties -> Nat]
      /\ counter' \in [Parties -> [rounds : Nat, sent : BOOLEAN]]
  BY <1>1 DEF IInv, Traces, Counters
<1>10. Noticed(p)
  BY <1>1, NothingToNotice DEF Prepares
<1> QED
  BY <1>1, <1>5, <1>6, <1>7, <1>8, <1>9, <1>10, Moving

(* A permutation has consumed its share when it ends.                      *)
LEMMA ShareConsumed ==
  ASSUME IInv, NEW p \in Parties, Completes(p, {"Trace", "Poseidon2"}), Exchanges(Task(p)) # <<>>
  PROVE  pool[p].consumed - pool[p].before = MaskElements(Task(p).t, Task(p).sites)
<1>1. /\ Scheduled /\ at[p] \in DOMAIN tasks /\ Task(p) = tasks[at[p]] /\ Task(p) \in TaskSet
      /\ Exchanges(Task(p)) \in Seq(ExchangeSet)
  BY PartyTypes DEF IInv, Frame
<1>2. Draws(Task(p))
  <2>1. Task(p).kind \in {"Trace", "Poseidon2"}
    BY DEF Completes
  <2>2. Task(p).kind = "Poseidon2" => Task(p).shared
    BY ExchangeLengths
  <2> QED
    BY <2>1, <2>2 DEF Draws
<1>3. Begun(p) = Len(Exchanges(Task(p))) /\ Begun(p) > 0
  <2>1. Begun(p) = Len(Exchanges(Task(p)))
    BY DEF Completes, Idle, Begun
  <2>2. Len(Exchanges(Task(p))) > 0
    BY <1>1
  <2> QED
    BY <2>1, <2>2
<1>4. PoolOf(p)
  BY DEF IInv, Pools
<1>5. pool[p].before = SpentBefore(at[p])
  BY <1>3, <1>4 DEF PoolOf
<1>6. pool[p].consumed = SpentBefore(at[p]) + TaskMasks(Task(p))
  BY <1>1, <1>3, <1>4, ExchangesShape DEF PoolOf
<1>7. TaskMasks(Task(p)) = MaskElements(Task(p).t, Task(p).sites)
  BY <1>2 DEF TaskMasks
<1>8. SpentBefore(at[p]) \in Nat /\ TaskMasks(Task(p)) \in Nat
  BY <1>1, SpentSteps, ExchangesShape
<1> QED
  BY <1>5, <1>6, <1>7, <1>8

(* The end of a permutation, of the host or of the run.                    *)
LEMMA FinishPermutationStep ==
  ASSUME IInv, NEW p \in Parties, FinishPermutation(p)
  PROVE  IInv'
<1>1. Completes(p, {"Trace", "Poseidon2"})
  BY DEF FinishPermutation
<1>2. ~ (/\ Exchanges(Task(p)) # <<>>
         /\ pool[p].consumed - pool[p].before # MaskElements(Task(p).t, Task(p).sites))
  BY <1>1, ShareConsumed
<1>3. /\ traces' = [traces EXCEPT ![p] = IF Task(p).kind = "Trace" THEN @ + 1 ELSE @]
      /\ Advance(p) /\ UNCHANGED <<pool, counter>>
  BY <1>2 DEF FinishPermutation
<1>4. Moves(p) /\ Task(p).kind \in {"Trace", "Poseidon2"}
  BY <1>1, <1>3 DEF Completes, Moves
<1>5. traces \in [Parties -> Nat]
  BY DEF IInv, Traces
<1>6. traces'[p] = IF Task(p).kind = "Trace" THEN traces[p] + 1 ELSE traces[p]
  BY <1>3, <1>5
<1>7. TracesOf(p)'
  BY <1>4, <1>6, MovedTraces
<1>8. traces' \in [Parties -> Nat] /\ \A q \in Parties : q # p => traces'[q] = traces[q]
  BY <1>3, <1>5
<1>9. Noticed(p)
  BY <1>4, NothingToNotice
<1> QED
  BY <1>3, <1>4, <1>7, <1>8, <1>9, LeftAlone

(* A task that draws no masks ends with what was spent before it.          *)
LEMMA NothingDrawn ==
  ASSUME IInv, NEW p \in Parties, Idle(p), ~ Draws(Task(p))
  PROVE  pool[p].consumed = SpentBefore(at[p]) /\ pool[p].size = PoolSize(at[p])
<1>1. PoolOf(p) /\ Scheduled /\ at[p] \in DOMAIN tasks
  BY DEF IInv, Pools, Frame, Positions
<1>2. DrawnBy(Task(p), Begun(p)) = 0
  BY DEF DrawnBy
<1>3. SpentBefore(at[p]) \in Nat
  BY <1>1, SpentSteps
<1> QED
  BY <1>1, <1>2, <1>3 DEF PoolOf

(* The end of a service: its one trace has used the pool up.               *)
LEMMA FinishServiceStep ==
  ASSUME IInv, NEW p \in Parties, FinishService(p)
  PROVE  IInv'
<1>1. Completes(p, {"FinishService"}) /\ Idle(p) /\ Task(p).kind = "FinishService"
  BY DEF FinishService, Completes
<1>2. Scheduled /\ at[p] \in DOMAIN tasks /\ Task(p) = tasks[at[p]]
  BY DEF IInv, Frame, Positions, Task
<1>3. pool[p].consumed = pool[p].size
  <2>1. pool[p].consumed = SpentBefore(at[p]) /\ pool[p].size = PoolSize(at[p])
    BY <1>1, NothingDrawn DEF Draws
  <2>2. ~ (at[p] > DriverAt)
    <3>1. at[p] < ResetAt
      BY <1>1, <1>2, Places
    <3> QED
      BY <1>2, <3>1, Layout, Parts
  <2> QED
    BY <1>1, <1>2, <2>1, <2>2 DEF PoolSize
<1>4. Advance(p) /\ UNCHANGED <<pool, traces, counter>>
  BY <1>3 DEF FinishService
<1>5. Moves(p)
  BY <1>1, <1>4 DEF Completes, Moves
<1> QED
  BY <1>1, <1>4, <1>5, NothingToNotice, AllLeftAlone

(* The reset: the caller may lose a trace, or attach one too many.         *)
LEMMA ResetCounterStep ==
  ASSUME IInv, NEW p \in Parties, ResetCounter(p)
  PROVE  IInv'
<1>1. Moves(p) /\ Task(p).kind = "ResetCounter" /\ UNCHANGED pool
  BY DEF ResetCounter, Completes, Moves
<1>2. Scheduled /\ at[p] = ResetAt /\ at[p] \in DOMAIN tasks /\ Task(p) = tasks[at[p]]
  <2>1. Scheduled /\ at[p] \in DOMAIN tasks /\ Task(p) = tasks[at[p]]
    BY DEF IInv, Frame, Positions, Task
  <2> QED
    BY <1>1, <2>1, Places
<1>3. traces \in [Parties -> Nat] /\ counter \in [Parties -> [rounds : Nat, sent : BOOLEAN]]
  BY DEF IInv, Traces, Counters
<1>4. /\ traces' = [traces EXCEPT ![p] = traces'[p]]
      /\ traces'[p] = CASE mistake[p] = "trace missing" /\ traces[p] > 0 -> traces[p] - 1
                        [] mistake[p] = "trace too many"                 -> traces[p] + 1
                        [] OTHER                                         -> traces[p]
  BY <1>3 DEF ResetCounter
<1>14. ~ (ResetAt > ResetAt)
  <2>1. ResetAt \in Nat
    BY <1>2, Layout
  <2> QED
    BY <2>1
<1>5. mistake[p] = "trace missing" => traces[p] > 0
  <2> SUFFICES ASSUME mistake[p] = "trace missing"
               PROVE  traces[p] > 0
    OBVIOUS
  <2>1. HostTasks(program) # <<>>
    BY DEF IInv, Frame
  <2>2. Cardinality(TracedBefore(ResetAt)) > 0
    BY <1>2, <2>1, BatchesBalance
  <2>3. TracesOf(p)
    BY DEF IInv, Traces
  <2> QED
    BY <1>2, <1>14, <2>2, <2>3, Zenon DEF TracesOf
<1>6. traces'[p] = traces[p] + Excess(p) /\ traces'[p] \in Nat
  <2>1. traces[p] \in Nat
    BY <1>3
  <2>2. CASE mistake[p] = "trace missing"
    <3>1. traces'[p] = traces[p] - 1
      BY <1>4, <1>5, <2>2
    <3>2. Excess(p) = -1 /\ traces[p] > 0
      BY <1>5, <2>2, ExcessType
    <3> QED
      BY <2>1, <3>1, <3>2
  <2>3. CASE mistake[p] = "trace too many"
    <3>1. traces'[p] = traces[p] + 1
      BY <1>4, <2>3
    <3>2. Excess(p) = 1
      BY <2>3, ExcessType
    <3> QED
      BY <2>1, <3>1, <3>2
  <2>4. CASE mistake[p] \notin {"trace missing", "trace too many"}
    <3>1. traces'[p] = traces[p]
      BY <1>4, <2>4
    <3>2. Excess(p) = 0
      BY <2>4, ExcessType
    <3> QED
      BY <2>1, <3>1, <3>2
  <2> QED
    BY <2>2, <2>3, <2>4
<1>7. TracesOf(p)'
  BY <1>1, <1>6, MovedTraces
<1>8. traces' \in [Parties -> Nat] /\ \A q \in Parties : q # p => traces'[q] = traces[q]
  BY <1>3, <1>4, <1>6
<1>9. counter' = [counter EXCEPT ![p] = [rounds |-> 0, sent |-> FALSE]]
  BY DEF ResetCounter
<1>10. /\ counter' \in [Parties -> [rounds : Nat, sent : BOOLEAN]]
       /\ \A q \in Parties : q # p => counter'[q] = counter[q]
       /\ counter'[p] = [rounds |-> 0, sent |-> FALSE]
  BY <1>3, <1>9
<1>11. CounterOf(p)'
  BY <1>1, <1>10, MovedCounter
<1>12. PoolOf(p)' /\ pool' \in [Parties -> PoolSet]
  BY <1>1, MovedPoolKept DEF Prepares, IInv, Pools
<1>13. Noticed(p)
  BY <1>1, NothingToNotice
<1> QED
  BY <1>1, <1>7, <1>8, <1>10, <1>11, <1>12, <1>13, Moving

(* A wrong input kind is noticed.                                          *)
LEMMA InitializeInputsStep ==
  ASSUME IInv, NEW p \in Parties, InitializeInputs(p)
  PROVE  IInv'
<1>1. Task(p).kind = "InitializeInputs" /\ Completes(p, {"InitializeInputs"})
  BY DEF InitializeInputs, Completes
<1>2. CASE mistake[p] = "wrong kind"
  <2>1. Fail(p, "wrong input kind")
    BY <1>2 DEF InitializeInputs
  <2>2. mistake[p] # "none"
    BY <1>2
  <2> QED
    BY <2>1, <2>2, Failing DEF CallerErrors
<1>3. CASE mistake[p] # "wrong kind"
  <2>1. Advance(p) /\ UNCHANGED <<pool, traces, counter>>
    BY <1>3 DEF InitializeInputs
  <2>2. Moves(p)
    BY <1>1, <2>1 DEF Completes, Moves
  <2>3. Noticed(p)
    <3>1. Scheduled /\ at[p] \in DOMAIN tasks /\ Task(p) = tasks[at[p]]
      BY DEF IInv, Frame, Positions, Task
    <3>2. at[p] # Len(tasks) - 1
      BY <1>1, <3>1, Places
    <3> QED
      BY <1>3, <3>2 DEF Noticed
  <2> QED
    BY <1>1, <2>1, <2>2, <2>3, AllLeftAlone
<1> QED
  BY <1>2, <1>3

(* Reshares, reveals and zero tests leave nothing.                         *)
LEMMA FinishInstructionStep ==
  ASSUME IInv, NEW p \in Parties, FinishInstruction(p)
  PROVE  IInv'
<1>1. /\ Task(p).kind \in {"Reshare", "Reveal", "IsZeroReveal"}
      /\ Moves(p) /\ UNCHANGED <<pool, traces, counter>>
  BY DEF FinishInstruction, Completes, Moves
<1> QED
  BY <1>1, NothingToNotice, AllLeftAlone

(* What is left of the traces in the run.                                  *)
LEMMA TracesInRun ==
  ASSUME IInv, NEW p \in Parties, at[p] > ResetAt
  PROVE  /\ traces[p] = Cardinality(TracedBefore(ResetAt)) + Excess(p)
                          - Cardinality(ServedBefore(at[p]))
         /\ Cardinality(TracedBefore(ResetAt)) \in Nat
         /\ Cardinality(ServedBefore(at[p])) \in Nat
<1>1. Scheduled /\ at[p] \in DOMAIN tasks /\ TracesOf(p)
  BY DEF IInv, Frame, Positions, Traces
<1>2. TracedBefore(at[p]) \in SUBSET DOMAIN tasks
  BY DEF TracedBefore
<1>3. Cardinality(TracedBefore(at[p])) = Cardinality(TracedBefore(ResetAt))
  BY <1>1, BatchesBalance
<1> QED
  BY <1>1, <1>3, BatchesSteps DEF TracesOf

(* A missing trace is noticed, at the latest by the last batch.            *)
LEMMA RunPrecomputedStep ==
  ASSUME IInv, NEW p \in Parties, RunPrecomputed(p)
  PROVE  IInv'
<1>1. Task(p).kind = "Precomputed" /\ Completes(p, {"Precomputed"})
  BY DEF RunPrecomputed, Completes
<1>2. /\ Scheduled /\ at[p] \in DOMAIN tasks /\ Task(p) = tasks[at[p]]
      /\ traces \in [Parties -> Nat]
  BY DEF IInv, Frame, Positions, Traces, Task
<1>3. CASE traces[p] = 0
  <2>1. Fail(p, "missing trace")
    BY <1>3 DEF RunPrecomputed
  <2>2. at[p] > ResetAt
    BY <1>1, <1>2, Places, Layout, Parts, SMTT(40)
  <2>3. Cardinality(ServedBefore(at[p])) < Cardinality(TracedBefore(ResetAt))
    BY <1>1, <1>2, BatchesBalance
  <2>4. Excess(p) # 0
    <3>1. Excess(p) \in Int
      BY ExcessType
    <3> QED
      BY <1>3, <2>2, <2>3, <3>1, TracesInRun
  <2>5. mistake[p] # "none"
    BY <2>4, ExcessType
  <2> QED
    BY <2>1, <2>5, Failing DEF CallerErrors
<1>4. CASE traces[p] # 0
  <2>1. /\ traces' = [traces EXCEPT ![p] = @ - 1]
        /\ Advance(p) /\ UNCHANGED <<pool, counter>>
    BY <1>4 DEF RunPrecomputed
  <2>2. Moves(p)
    BY <1>1, <2>1 DEF Completes, Moves
  <2>3. traces'[p] = traces[p] - 1 /\ traces[p] - 1 \in Nat
    BY <1>2, <1>4, <2>1
  <2>4. TracesOf(p)'
    BY <1>1, <2>2, <2>3, MovedTraces
  <2>5. traces' \in [Parties -> Nat] /\ \A q \in Parties : q # p => traces'[q] = traces[q]
    BY <1>2, <2>1, <2>3
  <2> QED
    BY <1>1, <2>1, <2>2, <2>4, <2>5, NothingToNotice, LeftAlone
<1> QED
  BY <1>3, <1>4

(* The end of the run: no trace is left but one too many, and no mask.     *)
LEMMA FinishRunStep ==
  ASSUME IInv, NEW p \in Parties, FinishRun(p)
  PROVE  IInv'
<1>1. Task(p).kind = "FinishRun" /\ Completes(p, {"FinishRun"}) /\ Idle(p)
  BY DEF FinishRun, Completes
<1>2. /\ Scheduled /\ at[p] \in DOMAIN tasks /\ Task(p) = tasks[at[p]]
      /\ at[p] = Len(tasks) - 1
  <2>1. Scheduled /\ at[p] \in DOMAIN tasks /\ Task(p) = tasks[at[p]]
    BY DEF IInv, Frame, Positions, Task
  <2> QED
    BY <1>1, <2>1, Places
<1>3. at[p] > DriverAt + 1 /\ at[p] > DriverAt /\ at[p] > ResetAt /\ DriverAt \in Nat
  BY <1>2, Layout
<1>4. traces[p] = Excess(p)
  <2>1. Cardinality(ServedBefore(at[p])) = Cardinality(TracedBefore(ResetAt))
    BY <1>2, BatchesBalance
  <2>2. Excess(p) \in Int
    BY ExcessType
  <2> QED
    BY <1>3, <2>1, <2>2, TracesInRun
<1>5. pool[p].consumed = pool[p].size
  <2>1. pool[p].consumed = SpentBefore(at[p]) /\ pool[p].size = PoolSize(at[p])
    BY <1>1, NothingDrawn DEF Draws
  <2>2. SpentBefore(at[p]) = MaskBudget(program)
    BY <1>2, BudgetCovers
  <2>3. PoolSize(at[p]) = MaskBudget(program)
    BY <1>3 DEF PoolSize
  <2> QED
    BY <2>1, <2>2, <2>3
<1>6. CASE traces[p] # 0
  <2>1. Fail(p, "traces left over")
    BY <1>6 DEF FinishRun
  <2>2. mistake[p] # "none"
    BY <1>4, <1>6, ExcessType
  <2> QED
    BY <2>1, <2>2, Failing DEF CallerErrors
<1>7. CASE traces[p] = 0
  <2>1. Advance(p) /\ UNCHANGED <<pool, traces, counter>>
    BY <1>5, <1>7 DEF FinishRun
  <2>2. Moves(p)
    BY <1>1, <2>1 DEF Completes, Moves
  <2>3. mistake[p] \in {"none", "wrong kind", "trace missing", "trace too many"}
    BY MistakesAssumption DEF IInv, Frame
  <2>4. mistake[p] # "wrong kind"
    <3>1. OutcomeOf(p) /\ at[p] \in Nat
      BY <1>2, Parts DEF IInv, Outcomes
    <3>2. ~ (at[p] <= DriverAt + 1)
      BY <1>3, <3>1
    <3> QED
      BY <3>1, <3>2 DEF OutcomeOf
  <2>5. mistake[p] # "trace missing" /\ mistake[p] # "trace too many"
    <3>1. Excess(p) = 0
      BY <1>4, <1>7
    <3>2. Excess(p) # -1 /\ Excess(p) # 1
      BY <3>1
    <3> QED
      BY <3>2, ExcessType
  <2>6. Noticed(p)
    BY <2>3, <2>4, <2>5 DEF Noticed
  <2> QED
    BY <1>1, <2>1, <2>2, <2>6, AllLeftAlone
<1> QED
  BY <1>6, <1>7

(* The return, after the opening.                                          *)
LEMMA OpenPublicPrefixStep ==
  ASSUME IInv, NEW p \in Parties, OpenPublicPrefix(p)
  PROVE  IInv'
<1>1. Completes(p, {"Open"}) /\ Idle(p) /\ Task(p).kind = "Open" /\ Running(p)
  BY DEF OpenPublicPrefix, Completes, Idle
<1>2. Fail(p, "done")
  BY DEF OpenPublicPrefix, Fail
<1>3. at[p] = Len(tasks) /\ round[p] = 1 /\ awaits[p] = <<>>
  <2>1. Scheduled /\ at[p] \in DOMAIN tasks /\ Task(p) = tasks[at[p]]
    BY DEF IInv, Frame, Positions, Task
  <2> QED
    BY <1>1, <2>1, Places, ExchangeLengths DEF Completes, Idle
<1>4. OutcomeOf(p)'
  <2>1. UNCHANGED <<program, tasks, mistake, at, round, awaits>> /\ status' = [status EXCEPT ![p] = "done"]
    BY <1>2 DEF Fail
  <2>2. OutcomeOf(p) /\ status'[p] = "done"
    BY <2>1 DEF IInv, Outcomes
  <2>3. DriverAt' = DriverAt
    BY <2>1, TasksStay
  <2> QED
    BY <1>3, <2>1, <2>2, <2>3 DEF OutcomeOf
<1> QED
  BY <1>2, <1>4, Ending

-----------------------------------------------------------------------------
(* Messages.                                                               *)

(* A party waits for those who send to it in the exchange it is in, and    *)
(* has not heard from them.                                                *)
LEMMA Awaited ==
  ASSUME IInv, NEW p \in Parties, NEW q \in ToSet(awaits[p])
  PROVE  /\ q \in Parties /\ awaits[p] # <<>>
         /\ round[p] < Len(Exchanges(Task(p)))
         /\ Meets(q, p, at[p], round[p] + 1)
         /\ ~ Heard(p, q, at[p], round[p] + 1)
<1>1. Frame /\ Positions /\ PositionOf(p)
  BY DEF IInv, Positions
<1>2. /\ at[p] \in DOMAIN tasks /\ round[p] \in Nat /\ at[p] \in Nat /\ Task(p) = tasks[at[p]]
      /\ Exchanges(Task(p)) \in Seq(ExchangeSet) /\ awaits[p] \in Seq(Parties)
  BY <1>1, PartyTypes
<1>3. awaits[p] # <<>> /\ q \in Parties
  BY <1>2 DEF ToSet
<1>4. round[p] < Len(Exchanges(Task(p)))
  BY <1>1, <1>3 DEF PositionOf, Expected
<1>5. round[p] + 1 \in 1 .. Len(Exchanges(Task(p)))
  BY <1>2, <1>4
<1>6. Pattern(at[p], round[p] + 1) \in {"reshare", "broadcast"}
  <2>1. Exchanges(Task(p))[round[p] + 1] \in ExchangeSet
    BY <1>2, <1>5
  <2> QED
    BY <1>2, <2>1 DEF Pattern, ExchangeSet
<1>7. q \in ToSet(Sources(Pattern(at[p], round[p] + 1), p))
  <2>1. CASE awaits[p] = Sources(Pattern(at[p], round[p] + 1), p)
    BY <2>1
  <2>2. CASE Pattern(at[p], round[p] + 1) = "broadcast" /\ awaits[p] = <<Next3(p)>>
    <3>1. q = Next3(p)
      BY <2>2 DEF ToSet
    <3>2. Sources(Pattern(at[p], round[p] + 1), p) = <<Prev(p), Next3(p)>>
      BY <2>2 DEF Sources
    <3>3. Next3(p) \in ToSet(<<Prev(p), Next3(p)>>)
      BY DEF ToSet
    <3> QED
      BY <3>1, <3>2, <3>3
  <2> QED
    BY <1>1, <1>3, <2>1, <2>2 DEF PositionOf, Expected
<1>8. p \in Addressees(Pattern(at[p], round[p] + 1), q)
  BY <1>3, <1>6, <1>7, SourcesAreSenders
<1>9. Meets(q, p, at[p], round[p] + 1)
  BY <1>2, <1>5, <1>8 DEF Meets
<1>10. ~ Heard(p, q, at[p], round[p] + 1)
  BY <1>2 DEF Heard
<1> QED
  BY <1>3, <1>4, <1>9, <1>10

(* The first element of a sequence is one of it.                           *)
LEMMA FirstOfSequence ==
  ASSUME NEW S, NEW s \in Seq(S), s # <<>>
  PROVE  /\ Len(s) \in Nat /\ Len(s) > 0 /\ DOMAIN s = 1 .. Len(s)
         /\ 1 \in DOMAIN s /\ Head(s) = s[1] /\ Head(s) \in S /\ Head(s) \in ToSet(s)
<1>1. Len(s) \in Nat /\ Len(s) > 0 /\ DOMAIN s = 1 .. Len(s)
  OBVIOUS
<1>2. 1 \in DOMAIN s /\ Head(s) = s[1]
  BY <1>1
<1> QED
  BY <1>1, <1>2 DEF ToSet

(* A party that is done has sent and heard everything.                     *)
LEMMA DoneIsThrough ==
  ASSUME IInv, NEW p \in Parties, status[p] = "done",
         NEW a \in DOMAIN tasks, NEW r \in 1 .. Len(Exchanges(tasks[a]))
  PROVE  Sent(p, a, r) /\ \A q : Heard(p, q, a, r)
<1>1. Scheduled /\ OutcomeOf(p)
  BY DEF IInv, Frame, Outcomes
<1>2. at[p] = Len(tasks) /\ round[p] = 1 /\ awaits[p] = <<>>
  BY <1>1 DEF OutcomeOf
<1>3. a \in Nat /\ a <= Len(tasks) /\ Len(tasks) \in Nat
  BY <1>1, Parts, Layout
<1>4. CASE a < Len(tasks)
  BY <1>2, <1>4 DEF Sent, Heard
<1>5. CASE a = Len(tasks)
  <2>1. tasks[a].kind = "Open"
    BY <1>1, <1>5, Places
  <2>2. Len(Exchanges(tasks[a])) = 1
    BY <2>1, ExchangeLengths
  <2>3. r <= 1
    BY <2>2
  <2> QED
    BY <1>2, <1>5, <2>3 DEF Sent, Heard
<1> QED
  BY <1>3, <1>4, <1>5

(* What a party is to send next it has not sent.                           *)
LEMMA NotSentYet ==
  ASSUME IInv, NEW p \in Parties, awaits[p] = <<>>
  PROVE  ~ Sent(p, at[p], round[p] + 1)
<1>1. at[p] \in Nat /\ round[p] \in Nat
  BY PartyTypes DEF IInv
<1> QED
  BY <1>1 DEF Sent

(* Those a party sends to are its peers, and it meets them.                *)
LEMMA Addressed ==
  ASSUME IInv, NEW p \in Parties, round[p] < Len(Exchanges(Task(p)))
  PROVE  /\ Pattern(at[p], round[p] + 1) = Exchanges(Task(p))[round[p] + 1].pattern
         /\ Pattern(at[p], round[p] + 1) \in {"reshare", "broadcast"}
         /\ Exchanges(Task(p))[round[p] + 1].masks \in Nat
         /\ round[p] + 1 \in 1 .. Len(Exchanges(tasks[at[p]]))
         /\ \A q : Meets(p, q, at[p], round[p] + 1)
                     <=> q \in Addressees(Pattern(at[p], round[p] + 1), p)
         /\ \A q \in Addressees(Pattern(at[p], round[p] + 1), p) : q \in Parties /\ q # p
<1>1. /\ at[p] \in DOMAIN tasks /\ round[p] \in Nat /\ Task(p) = tasks[at[p]]
      /\ Exchanges(Task(p)) \in Seq(ExchangeSet)
  BY PartyTypes DEF IInv
<1>2. round[p] + 1 \in 1 .. Len(Exchanges(Task(p)))
  BY <1>1
<1>3. Exchanges(Task(p))[round[p] + 1] \in ExchangeSet
  BY <1>1, <1>2
<1>4. Pattern(at[p], round[p] + 1) = Exchanges(Task(p))[round[p] + 1].pattern
  BY <1>1 DEF Pattern
<1>5. \A q \in Addressees(Pattern(at[p], round[p] + 1), p) : q \in Parties /\ q # p
  BY Ring DEF Addressees
<1>6. \A q : Meets(p, q, at[p], round[p] + 1) <=> q \in Addressees(Pattern(at[p], round[p] + 1), p)
  BY <1>1, <1>2 DEF Meets
<1> QED
  BY <1>1, <1>2, <1>3, <1>4, <1>5, <1>6 DEF ExchangeSet

(* A peer that is gone when it is still needed has failed.                 *)
LEMMA SendFailsStep ==
  ASSUME IInv, NEW p \in Parties, SendFails(p)
  PROVE  IInv'
<1>1. /\ Idle(p) /\ round[p] < Len(Exchanges(Task(p))) /\ Fail(p, "peer gone")
      /\ \E q \in Addressees(Exchanges(Task(p))[round[p] + 1].pattern, p) : Gone(q)
  BY DEF SendFails
<1>2. PICK q \in Parties : Gone(q) /\ Meets(p, q, at[p], round[p] + 1)
  BY <1>1, Addressed
<1>3. status[q] # "done"
  <2> SUFFICES ASSUME status[q] = "done"
               PROVE  FALSE
    OBVIOUS
  <2>1. at[p] \in DOMAIN tasks /\ round[p] + 1 \in 1 .. Len(Exchanges(tasks[at[p]]))
    BY <1>2 DEF Meets
  <2>2. Heard(q, p, at[p], round[p] + 1)
    BY <2>1, DoneIsThrough
  <2>3. at[p] \in Nat /\ round[p] + 1 \in Nat
    BY PartyTypes DEF IInv
  <2>4. Sent(p, at[p], round[p] + 1)
    BY <1>2, <2>2, <2>3 DEF IInv, Channels, HeardWasSent
  <2> QED
    BY <1>1, <2>4, NotSentYet DEF Idle
<1>4. \E o \in Parties : mistake[o] # "none"
  <2>1. OutcomeOf(q) /\ status[q] # "running"
    BY <1>2 DEF IInv, Outcomes, Gone, Running
  <2> QED
    BY <1>3, <2>1 DEF OutcomeOf
<1> QED
  BY <1>1, <1>4, Failing

(* An empty channel carries no message.                                    *)
LEMMA NothingCarried ==
  ASSUME NEW a, NEW r
  PROVE  ~ Carries(<<>>, a, r)
  BY DEF Carries

(* So has one that is gone before it sent what is still awaited.           *)
LEMMA ReceiveFailsStep ==
  ASSUME IInv, NEW p \in Parties, ReceiveFails(p)
  PROVE  IInv'
<1> DEFINE q == Head(awaits[p])
<1>1. awaits[p] # <<>> /\ Gone(q) /\ channel[q][p] = <<>> /\ Fail(p, "peer gone")
  BY DEF ReceiveFails
<1>2. awaits[p] \in Seq(Parties)
  BY PartyTypes DEF IInv
<1>3. q \in ToSet(awaits[p])
  BY <1>1, <1>2, FirstOfSequence
<1> HIDE DEF q
<1>4. q \in Parties /\ Meets(q, p, at[p], round[p] + 1) /\ ~ Heard(p, q, at[p], round[p] + 1)
  BY <1>3, Awaited
<1>5. status[q] # "done"
  <2> SUFFICES ASSUME status[q] = "done"
               PROVE  FALSE
    OBVIOUS
  <2>1. Sent(q, at[p], round[p] + 1)
    BY <1>4, DoneIsThrough DEF Meets
  <2>2. at[p] \in Nat /\ round[p] + 1 \in Nat
    BY PartyTypes DEF IInv
  <2>3. Carries(channel[q][p], at[p], round[p] + 1)
    BY <1>4, <2>1, <2>2 DEF IInv, Channels, Holds
  <2> QED
    BY <1>1, <2>3, NothingCarried
<1>6. \E o \in Parties : mistake[o] # "none"
  <2>1. OutcomeOf(q) /\ status[q] # "running"
    BY <1>1, <1>4 DEF IInv, Outcomes, Gone, Running
  <2> QED
    BY <1>5, <2>1 DEF OutcomeOf
<1> QED
  BY <1>1, <1>6, Failing

(* Who has sent in an exchange has sent in those before it.                *)
LEMMA SentBeforeIt ==
  ASSUME IInv, NEW p \in Parties, NEW a \in Nat, NEW r \in Nat, NEW b \in Nat, NEW n \in Nat,
         Sent(p, b, n), a < b \/ (a = b /\ r <= n)
  PROVE  Sent(p, a, r)
<1>1. at[p] \in Nat /\ round[p] \in Nat
  BY PartyTypes DEF IInv
<1>2. CASE b < at[p]
  BY <1>1, <1>2 DEF Sent
<1>3. CASE b = at[p] /\ n <= round[p]
  BY <1>1, <1>3 DEF Sent
<1>4. CASE b = at[p] /\ n = round[p] + 1 /\ awaits[p] # <<>>
  <2>1. CASE a < b
    BY <1>4, <2>1 DEF Sent
  <2>2. CASE a = b /\ r <= n
    <3>1. r <= round[p] \/ r = round[p] + 1
      BY <1>1, <1>4, <2>2
    <3> QED
      BY <1>4, <2>2, <3>1 DEF Sent
  <2> QED
    BY <2>1, <2>2
<1> QED
  BY <1>2, <1>3, <1>4 DEF Sent

(* The first message in a channel from an awaited peer is that of the      *)
(* exchange the receiver is in.                                            *)
LEMMA FirstMessage ==
  ASSUME IInv, NEW p \in Parties, NEW q \in ToSet(awaits[p]), channel[q][p] # <<>>
  PROVE  /\ 1 \in DOMAIN channel[q][p] /\ Head(channel[q][p]) = channel[q][p][1]
         /\ channel[q][p][1].task = at[p] /\ channel[q][p][1].round = round[p] + 1
         /\ Sent(q, at[p], round[p] + 1)
<1>1. q \in Parties /\ Meets(q, p, at[p], round[p] + 1) /\ ~ Heard(p, q, at[p], round[p] + 1)
  BY Awaited
<1>2. at[p] \in Nat /\ round[p] \in Nat /\ awaits[p] # <<>>
  BY PartyTypes, Awaited DEF IInv
<1>3. PICK c \in Seq(MessageSet) : c = channel[q][p]
  BY <1>1 DEF IInv, Channels
<1>4. 1 \in DOMAIN c /\ Head(c) = c[1] /\ DOMAIN c = 1 .. Len(c) /\ Len(c) \in Nat
  BY <1>3, FirstOfSequence
<1>5. Holds(q, p)
  BY <1>1 DEF IInv, Channels
<1>6. Fits(q, p, c[1]) /\ InOrder(c)
  BY <1>3, <1>4, <1>5 DEF Holds
<1>7. PICK b, n \in Nat : b = c[1].task /\ n = c[1].round
  BY <1>4, Messages
<1>8. at[p] < b \/ (at[p] = b /\ round[p] + 1 <= n)
  <2>1. ~ Heard(p, q, b, n)
    BY <1>6, <1>7 DEF Fits
  <2> QED
    BY <1>2, <2>1 DEF Heard
<1>9. Sent(q, at[p], round[p] + 1)
  <2>1. Sent(q, b, n)
    BY <1>6, <1>7 DEF Fits
  <2> QED
    BY <1>1, <1>2, <1>8, <2>1, SentBeforeIt
<1>10. PICK i \in DOMAIN c : c[i].task = at[p] /\ c[i].round = round[p] + 1
  <2>1. round[p] + 1 \in Nat
    BY <1>2
  <2>2. Carries(c, at[p], round[p] + 1)
    BY <1>1, <1>2, <1>3, <1>5, <1>9, <2>1 DEF Holds
  <2> QED
    BY <2>2 DEF Carries
<1>11. i = 1
  <2> SUFFICES ASSUME i # 1
               PROVE  FALSE
    OBVIOUS
  <2>1. 1 < i
    BY <1>4
  <2>2. Earlier(c[1], c[i])
    BY <1>4, <1>6, <2>1 DEF InOrder
  <2>3. b < at[p] \/ (b = at[p] /\ n < round[p] + 1)
    BY <1>7, <1>10, <2>2 DEF Earlier
  <2> QED
    BY <1>2, <1>8, <2>3
<1> QED
  BY <1>3, <1>4, <1>9, <1>10, <1>11

-----------------------------------------------------------------------------
(* Sending.                                                                *)

(* A channel with one message more.                                        *)
LEMMA Appended ==
  ASSUME NEW c \in Seq(MessageSet), NEW m \in MessageSet
  PROVE  /\ Append(c, m) \in Seq(MessageSet)
         /\ DOMAIN Append(c, m) = DOMAIN c \cup {Len(c) + 1}
         /\ Append(c, m)[Len(c) + 1] = m
         /\ \A i \in DOMAIN c : Append(c, m)[i] = c[i] /\ i \in Nat /\ i < Len(c) + 1
  OBVIOUS

(* It carries the exchanges it carried, and the new one.                   *)
LEMMA AppendedCarries ==
  ASSUME NEW c \in Seq(MessageSet), NEW m \in MessageSet, NEW a, NEW r
  PROVE  /\ Carries(c, a, r) => Carries(Append(c, m), a, r)
         /\ m.task = a /\ m.round = r => Carries(Append(c, m), a, r)
  BY Appended DEF Carries

(* It is in order when the new one is the latest.                          *)
LEMMA AppendedInOrder ==
  ASSUME NEW c \in Seq(MessageSet), NEW m \in MessageSet, InOrder(c),
         \A i \in DOMAIN c : Earlier(c[i], m)
  PROVE  InOrder(Append(c, m))
<1> SUFFICES ASSUME NEW i \in DOMAIN Append(c, m), NEW j \in DOMAIN Append(c, m), i < j
             PROVE  Earlier(Append(c, m)[i], Append(c, m)[j])
  BY DEF InOrder
<1>1. i \in DOMAIN c
  BY Appended
<1>2. CASE j \in DOMAIN c
  BY <1>1, <1>2, Appended DEF InOrder
<1>3. CASE j = Len(c) + 1
  BY <1>1, <1>3, Appended
<1> QED
  BY <1>2, <1>3, Appended

(* What is drawn within a total that fits the pool fits it as well.        *)
LEMMA Within ==
  ASSUME NEW spent \in Nat, NEW drawn \in Nat, NEW masks \in Nat, NEW total \in Nat,
         NEW size \in Nat, drawn + masks <= total, spent + total <= size
  PROVE  /\ ~ ((spent + drawn) + masks > size)
         /\ drawn = 0 => ~ ((spent + drawn) + total > size)
  OBVIOUS

(* The pool lasts for every exchange of the task, and for the whole task   *)
(* when it begins.                                                         *)
LEMMA PoolLasts ==
  ASSUME IInv, NEW p \in Parties, Idle(p), round[p] < Len(Exchanges(Task(p))),
         NEW masks, masks = Exchanges(Task(p))[round[p] + 1].masks
  PROVE  /\ ~ (masks > 0 /\ Exhausted(p, masks))
         /\ pool[p].consumed \in Nat
         /\ round[p] = 0 => pool[p].consumed = SpentBefore(at[p])
         /\ pool[p].consumed + masks = SpentBefore(at[p]) + DrawnBy(Task(p), round[p] + 1)
         /\ pool[p].consumed + masks \in Nat
<1>1. /\ Scheduled /\ at[p] \in DOMAIN tasks /\ Task(p) = tasks[at[p]] /\ Task(p) \in TaskSet
      /\ round[p] \in Nat
  BY PartyTypes DEF IInv, Frame
<1>2. pool[p].consumed = SpentBefore(at[p]) + DrawnBy(Task(p), round[p])
      /\ pool[p].size = PoolSize(at[p])
  BY DEF IInv, Pools, PoolOf, Begun, Idle
<1>3. PICK spent, drawn, total \in Nat :
        /\ spent = SpentBefore(at[p]) /\ drawn = DrawnBy(Task(p), round[p])
        /\ total = TaskMasks(Task(p))
  BY <1>1, SpentSteps, ExchangesShape
<1>4. masks \in Nat /\ drawn + masks <= total /\ drawn + masks = DrawnBy(Task(p), round[p] + 1)
  <2>1. masks \in Nat
    BY Addressed
  <2> QED
    BY <1>1, <1>3, <2>1, ExchangesShape
<1>5. spent + total <= pool[p].size /\ pool[p].size \in Nat
  BY <1>1, <1>2, <1>3, PoolCovers
<1>6. masks > 0 => Draws(Task(p))
  <2> SUFFICES ASSUME ~ Draws(Task(p))
               PROVE  masks = 0
    BY <1>4
  <2>1. round[p] + 1 \in 1 .. Len(Exchanges(Task(p)))
    BY <1>1, ExchangesShape
  <2> QED
    BY <1>1, <2>1, PlainExchanges
<1>7. masks > 0 => ~ Exhausted(p, masks)
  <2> SUFFICES ASSUME masks > 0
               PROVE  ~ Exhausted(p, masks)
    OBVIOUS
  <2>1. MaskElements(Task(p).t, Task(p).sites) = total
    BY <1>3, <1>6 DEF TaskMasks
  <2>2. round[p] = 0 => drawn = 0
    BY <1>1, <1>3, ExchangesShape
  <2>3. PICK size \in Nat : size = pool[p].size /\ spent + total <= size
    BY <1>5
  <2>4. /\ ~ ((spent + drawn) + masks > size)
        /\ drawn = 0 => ~ ((spent + drawn) + total > size)
    BY <1>4, <2>3, Within
  <2>5. pool[p].consumed = spent + drawn
    BY <1>2, <1>3
  <2> QED
    BY <2>1, <2>2, <2>3, <2>4, <2>5, Zenon DEF Exhausted
<1>8. round[p] = 0 => pool[p].consumed = SpentBefore(at[p])
  BY <1>1, <1>2, <1>3, ExchangesShape
<1>9. PICK c : c = pool[p].consumed
  OBVIOUS
<1>10. c = spent + drawn
  BY <1>2, <1>3, <1>9
<1>11. /\ c \in Nat /\ c + masks \in Nat
       /\ c + masks = spent + (drawn + masks)
  <2>1. masks \in Nat /\ spent \in Nat /\ drawn \in Nat
    BY <1>3, <1>4
  <2> QED
    BY <1>10, <2>1
<1>12. /\ pool[p].consumed \in Nat /\ pool[p].consumed + masks \in Nat
       /\ pool[p].consumed + masks = SpentBefore(at[p]) + DrawnBy(Task(p), round[p] + 1)
  BY <1>3, <1>4, <1>9, <1>11
<1> QED
  BY <1>7, <1>8, <1>12, Zenon

(* The message of the exchange a party is to send next.                    *)
Message(p) ==
  [task |-> at[p], round |-> round[p] + 1,
   masks |-> SpentBefore(at[p]) + DrawnBy(tasks[at[p]], round[p] + 1)]

(* What sending it does to the party and to its channels.                  *)
Sends(p) ==
  /\ awaits[p] = <<>> /\ round[p] < Len(Exchanges(Task(p)))
  /\ UNCHANGED <<program, tasks, mistake, at, round, traces, status>>
  /\ Message(p) \in MessageSet
  /\ awaits' = [awaits EXCEPT ![p] = Sources(Pattern(at[p], round[p] + 1), p)]
  /\ channel' = [channel EXCEPT ![p] =
                   [q \in Parties |-> IF Meets(p, q, at[p], round[p] + 1)
                                      THEN Append(channel[p][q], Message(p))
                                      ELSE channel[p][q]]]

(* A send puts the message into the channels, and nothing else.            *)
LEMMA SendSends ==
  ASSUME IInv, NEW p \in Parties, Send(p)
  PROVE  /\ Sends(p)
         /\ \E taken \in Nat :
              /\ taken = SpentBefore(at[p]) + DrawnBy(Task(p), round[p] + 1)
              /\ pool' = [pool EXCEPT ![p] =
                            [size |-> pool[p].size, consumed |-> taken,
                             before |-> IF round[p] = 0 THEN pool[p].consumed
                                        ELSE pool[p].before]]
         /\ round[p] = 0 => pool[p].consumed = SpentBefore(at[p])
         /\ pool[p].consumed \in Nat
         /\ counter' = [counter EXCEPT ![p].sent = TRUE]
<1> DEFINE e == Exchanges(Task(p))[round[p] + 1]
           taken == pool[p].consumed + e.masks
<1>1. Idle(p) /\ round[p] < Len(Exchanges(Task(p)))
  BY DEF Send
<1>2. /\ ~ (e.masks > 0 /\ Exhausted(p, e.masks))
      /\ pool[p].consumed \in Nat
      /\ round[p] = 0 => pool[p].consumed = SpentBefore(at[p])
      /\ taken = SpentBefore(at[p]) + DrawnBy(Task(p), round[p] + 1)
      /\ taken \in Nat
  BY <1>1, PoolLasts
<1>3. /\ pool' = [pool EXCEPT ![p] =
                    [size |-> pool[p].size, consumed |-> taken,
                     before |-> IF round[p] = 0 THEN pool[p].consumed ELSE pool[p].before]]
      /\ channel' = [channel EXCEPT ![p] =
                       [q \in Parties |->
                          IF q \in Addressees(e.pattern, p)
                          THEN Append(@[q], [Label(p) EXCEPT !.masks = taken])
                          ELSE @[q]]]
      /\ awaits' = [awaits EXCEPT ![p] = Sources(e.pattern, p)]
      /\ counter' = [counter EXCEPT ![p].sent = TRUE]
      /\ UNCHANGED <<program, tasks, mistake, at, round, traces, status>>
  BY <1>2 DEF Send
<1>4. e.pattern = Pattern(at[p], round[p] + 1)
  BY DEF Pattern, Task
<1> HIDE DEF taken, e
<1>5. [Label(p) EXCEPT !.masks = taken] = Message(p)
  BY <1>2 DEF Label, Message, Task
<1>6. Message(p) \in MessageSet
  <2>1. at[p] \in Nat /\ round[p] + 1 \in Nat
    BY PartyTypes DEF IInv
  <2> QED
    BY <1>2, <2>1 DEF Message, MessageSet, Task
<1>7. \A q : q \in Addressees(e.pattern, p) <=> Meets(p, q, at[p], round[p] + 1)
  BY <1>1, <1>4, Addressed
<1>8. channel' = [channel EXCEPT ![p] =
                    [q \in Parties |-> IF Meets(p, q, at[p], round[p] + 1)
                                       THEN Append(channel[p][q], Message(p))
                                       ELSE channel[p][q]]]
  <2>1. channel \in [Parties -> [Parties -> Seq(MessageSet)]]
    BY DEF IInv, Channels
  <2> QED
    BY <1>3, <1>5, <1>7, <2>1
<1> QED
  BY <1>1, <1>2, <1>3, <1>4, <1>6, <1>8 DEF Sends, Idle

(* What a party has sent and heard when it has sent once more.             *)
LEMMA SendsExchanges ==
  ASSUME IInv, NEW p \in Parties, Sends(p)
  PROVE  /\ \A a, r : Sent(p, a, r)' <=> Sent(p, a, r) \/ (a = at[p] /\ r = round[p] + 1)
         /\ \A q \in Parties : \A a, r \in Nat :
              Meets(q, p, a, r) => (Heard(p, q, a, r)' <=> Heard(p, q, a, r))
         /\ \A o \in Parties : o # p =>
              /\ \A a, r : Sent(o, a, r)' <=> Sent(o, a, r)
              /\ \A q, a, r : Heard(o, q, a, r)' <=> Heard(o, q, a, r)
<1>1. UNCHANGED <<program, tasks, mistake, at, round>> /\ awaits[p] = <<>>
  BY DEF Sends
<1>2. awaits' = [awaits EXCEPT ![p] = Sources(Pattern(at[p], round[p] + 1), p)]
  BY DEF Sends
<1>3. awaits \in [Parties -> Seq(Parties)]
  BY DEF IInv, Positions
<1>4. Pattern(at[p], round[p] + 1) \in {"reshare", "broadcast"}
  BY Addressed DEF Sends
<1>5. awaits'[p] = Sources(Pattern(at[p], round[p] + 1), p) /\ awaits'[p] # <<>>
  BY <1>2, <1>3, <1>4, SourcesAreSenders
<1>6. \A a, r : Sent(p, a, r)' <=> Sent(p, a, r) \/ (a = at[p] /\ r = round[p] + 1)
  BY <1>1, <1>5 DEF Sent
<1>7. ASSUME NEW q \in Parties, NEW a \in Nat, NEW r \in Nat, Meets(q, p, a, r)
      PROVE  Heard(p, q, a, r)' <=> Heard(p, q, a, r)
  <2>1. CASE a = at[p] /\ r = round[p] + 1
    <3>1. p \in Addressees(Pattern(at[p], round[p] + 1), q)
      BY <1>7, <2>1 DEF Meets
    <3>2. q \in ToSet(awaits'[p])
      BY <1>4, <1>5, <3>1, SourcesAreSenders
    <3> QED
      BY <1>1, <2>1, <3>2 DEF Heard
  <2>2. CASE ~ (a = at[p] /\ r = round[p] + 1)
    BY <1>1, <2>2 DEF Heard
  <2> QED
    BY <2>1, <2>2
<1>8. ASSUME NEW o \in Parties, o # p
      PROVE  /\ \A a, r : Sent(o, a, r)' <=> Sent(o, a, r)
             /\ \A q, a, r : Heard(o, q, a, r)' <=> Heard(o, q, a, r)
  <2>1. awaits'[o] = awaits[o] /\ at'[o] = at[o] /\ round'[o] = round[o]
    BY <1>1, <1>2, <1>3, <1>8
  <2> QED
    BY <1>1, <2>1, PartyStays
<1> QED
  BY <1>6, <1>7, <1>8

(* The channel to a peer that is sent to.                                  *)
LEMMA SentTo ==
  ASSUME IInv, NEW p \in Parties, Sends(p), NEW q \in Parties,
         Meets(p, q, at[p], round[p] + 1)
  PROVE  Holds(p, q)' /\ HeardWasSent(p, q)' /\ channel'[p][q] \in Seq(MessageSet)
<1>1. UNCHANGED <<program, tasks>> /\ Message(p) \in MessageSet
  BY DEF Sends
<1>2. q # p /\ at[p] \in Nat /\ round[p] \in Nat /\ round[p] + 1 \in Nat
  <2>1. Frame /\ Positions /\ round[p] < Len(Exchanges(Task(p)))
    BY DEF IInv, Sends
  <2>2. at[p] \in Nat /\ round[p] \in Nat
    BY <2>1, PartyTypes
  <2>3. q \in Addressees(Pattern(at[p], round[p] + 1), p)
    BY DEF Meets
  <2>4. q # p
    BY <2>1, <2>3, Addressed
  <2> QED
    BY <2>2, <2>4
<1>3. PICK m \in MessageSet :
        /\ m = Message(p) /\ m.task = at[p] /\ m.round = round[p] + 1
        /\ m.masks = SpentBefore(m.task) + DrawnBy(tasks[m.task], m.round)
  BY <1>1 DEF Message
<1>4. channel \in [Parties -> [Parties -> Seq(MessageSet)]]
  BY DEF IInv, Channels
<1>5. PICK c \in Seq(MessageSet) : c = channel[p][q] /\ channel'[p][q] = Append(c, m)
  BY <1>3, <1>4 DEF Sends
<1>6. Holds(p, q) /\ HeardWasSent(p, q)
  BY DEF IInv, Channels
<1>7. /\ \A a, r : Sent(p, a, r)' <=> Sent(p, a, r) \/ (a = at[p] /\ r = round[p] + 1)
      /\ \A a, r : Heard(q, p, a, r)' <=> Heard(q, p, a, r)
      /\ \A a, r : Meets(p, q, a, r)' <=> Meets(p, q, a, r)
      /\ \A a : SpentBefore(a)' = SpentBefore(a)
  BY <1>1, <1>2, SendsExchanges, TasksStay
<1>8. ~ Sent(p, m.task, m.round)
  BY <1>3, NotSentYet DEF Sends
<1>9. ASSUME NEW n \in MessageSet, Fits(p, q, n)
      PROVE  Fits(p, q, n)' /\ Earlier(n, m)
  <2>1. /\ Meets(p, q, n.task, n.round) /\ Sent(p, n.task, n.round)
        /\ ~ Heard(q, p, n.task, n.round)
        /\ n.masks = SpentBefore(n.task) + DrawnBy(tasks[n.task], n.round)
    BY <1>9 DEF Fits
  <2>2. Fits(p, q, n)'
    BY <1>1, <1>7, <2>1 DEF Fits
  <2>3. Earlier(n, m)
    <3>1. n.task \in Nat /\ n.round \in Nat
      BY DEF MessageSet
    <3>2. n.task < at[p] \/ (n.task = at[p] /\ n.round <= round[p])
      BY <2>1 DEF Sent, Sends
    <3> QED
      BY <1>2, <1>3, <3>1, <3>2 DEF Earlier
  <2> QED
    BY <2>2, <2>3
<1>10. Fits(p, q, m)'
  <2>1. ~ Heard(q, p, m.task, m.round)
    BY <1>2, <1>3, <1>6, <1>8 DEF HeardWasSent
  <2> QED
    BY <1>1, <1>3, <1>7, <2>1 DEF Fits
<1>11. \A i \in DOMAIN c : Fits(p, q, c[i])' /\ Earlier(c[i], m)
  BY <1>5, <1>6, <1>9, Messages DEF Holds
<1>12. \A i \in DOMAIN Append(c, m) : Fits(p, q, Append(c, m)[i])'
  BY <1>10, <1>11, Appended
<1>13. InOrder(Append(c, m))
  BY <1>5, <1>6, <1>11, AppendedInOrder DEF Holds
<1>14. ASSUME NEW a \in Nat, NEW r \in Nat,
              Meets(p, q, a, r)', Sent(p, a, r)', ~ Heard(q, p, a, r)'
       PROVE  Carries(Append(c, m), a, r)
  <2>1. CASE a = at[p] /\ r = round[p] + 1
    BY <1>3, <2>1, AppendedCarries
  <2>2. CASE Sent(p, a, r)
    <3>1. Carries(c, a, r)
      BY <1>5, <1>6, <1>7, <1>14, <2>2 DEF Holds
    <3> QED
      BY <3>1, AppendedCarries
  <2> QED
    BY <1>7, <1>14, <2>1, <2>2
<1>15. Holds(p, q)'
  BY <1>5, <1>12, <1>13, <1>14 DEF Holds
<1>16. HeardWasSent(p, q)'
  BY <1>6, <1>7 DEF HeardWasSent
<1> QED
  BY <1>5, <1>15, <1>16, Appended

(* All channels, when a party has sent.                                    *)
LEMMA SendsChannels ==
  ASSUME IInv, NEW p \in Parties, Sends(p)
  PROVE  Channels'
<1>1. UNCHANGED <<program, tasks>>
  BY DEF Sends
<1>2. channel \in [Parties -> [Parties -> Seq(MessageSet)]]
  BY DEF IInv, Channels
<1>3. /\ DOMAIN channel' = Parties
      /\ \A o \in Parties : o # p => channel'[o] = channel[o]
      /\ channel'[p] = [q \in Parties |-> IF Meets(p, q, at[p], round[p] + 1)
                                          THEN Append(channel[p][q], Message(p))
                                          ELSE channel[p][q]]
  BY <1>2 DEF Sends
<1>4. ASSUME NEW o \in Parties, NEW q \in Parties
      PROVE  Holds(o, q)' /\ HeardWasSent(o, q)' /\ channel'[o][q] \in Seq(MessageSet)
  <2>1. CASE o = p /\ Meets(p, q, at[p], round[p] + 1)
    BY <2>1, SentTo
  <2>2. CASE ~ (o = p /\ Meets(p, q, at[p], round[p] + 1))
    <3>1. channel'[o][q] = channel[o][q] /\ channel[o][q] \in Seq(MessageSet)
      BY <1>2, <1>3, <2>2
    <3>2. Holds(o, q) /\ HeardWasSent(o, q)
      BY DEF IInv, Channels
    <3>3. ASSUME NEW a \in Nat, NEW r \in Nat, Meets(o, q, a, r)
          PROVE  /\ Sent(o, a, r)' <=> Sent(o, a, r)
                 /\ Heard(q, o, a, r)' <=> Heard(q, o, a, r)
      <4>1. ~ (o = p /\ a = at[p] /\ r = round[p] + 1)
        BY <2>2, <3>3
      <4>2. Sent(o, a, r)' <=> Sent(o, a, r)
        BY <4>1, SendsExchanges
      <4>3. Heard(q, o, a, r)' <=> Heard(q, o, a, r)
        BY <3>3, SendsExchanges
      <4> QED
        BY <4>2, <4>3
    <3> QED
      BY <1>1, <3>1, <3>2, <3>3, PairStays
  <2> QED
    BY <2>1, <2>2
<1>5. channel' \in [Parties -> [Parties -> Seq(MessageSet)]]
  <2>1. \A o \in Parties : channel'[o] \in [Parties -> Seq(MessageSet)]
    BY <1>2, <1>3, <1>4
  <2>2. channel' = [o \in Parties |-> channel'[o]]
    BY <1>2 DEF Sends
  <2> QED
    BY <2>1, <2>2
<1> QED
  BY <1>4, <1>5 DEF Channels

(* What is left to show of a step within an exchange.                      *)
LEMMA Exchanging ==
  ASSUME IInv, NEW p \in Parties, Running(p),
         UNCHANGED <<program, tasks, mistake, at, traces, status>>,
         awaits' \in [Parties -> Seq(Parties)], round' \in [Parties -> Nat],
         pool' \in [Parties -> PoolSet],
         counter' \in [Parties -> [rounds : Nat, sent : BOOLEAN]],
         \A q \in Parties : q # p => /\ awaits'[q] = awaits[q] /\ round'[q] = round[q]
                                     /\ pool'[q] = pool[q] /\ counter'[q] = counter[q],
         PositionOf(p)', PoolOf(p)', CounterOf(p)',
         Channels'
  PROVE  IInv'
<1>1. Frame'
  BY FrameStays DEF IInv
<1>2. ASSUME NEW q \in Parties, q # p
      PROVE  PositionOf(q)' /\ PoolOf(q)' /\ CounterOf(q)' /\ OutcomeOf(q)'
  <2>1. PositionOf(q) /\ PoolOf(q) /\ CounterOf(q) /\ OutcomeOf(q)
    BY DEF IInv, Positions, Pools, Counters, Outcomes
  <2>2. awaits'[q] = awaits[q] /\ round'[q] = round[q] /\ at'[q] = at[q] /\ status'[q] = status[q]
    BY <1>2
  <2> QED
    BY <1>2, <2>1, <2>2, PartyStays
<1>3. Positions'
  BY <1>2 DEF IInv, Positions
<1>4. Pools' /\ Counters'
  BY <1>2 DEF Pools, Counters
<1>5. Traces'
  <2>1. ASSUME NEW q \in Parties
        PROVE  TracesOf(q)'
    <3>1. TracesOf(q)
      BY DEF IInv, Traces
    <3>2. Excess(q)' = Excess(q)
      BY DEF Excess
    <3> QED
      BY <3>1, <3>2, TasksStay DEF TracesOf
  <2> QED
    BY <2>1 DEF IInv, Traces
<1>6. OutcomeOf(p)'
  <2>1. OutcomeOf(p) /\ status[p] = "running"
    BY DEF IInv, Outcomes, Running
  <2>2. DriverAt' = DriverAt
    BY TasksStay
  <2> QED
    BY <2>1, <2>2 DEF OutcomeOf
<1>7. Outcomes'
  BY <1>2, <1>6 DEF IInv, Outcomes
<1> QED
  BY <1>1, <1>3, <1>4, <1>5, <1>7 DEF IInv

(* A party sends, and takes the masks of the exchange.                     *)
LEMMA SendStep ==
  ASSUME IInv, NEW p \in Parties, Send(p)
  PROVE  IInv'
<1>1. Sends(p) /\ Running(p)
  BY SendSends DEF Send, Idle
<1>2. /\ UNCHANGED <<program, tasks, mistake, at, round, traces, status>> /\ awaits[p] = <<>>
      /\ awaits' = [awaits EXCEPT ![p] = Sources(Pattern(at[p], round[p] + 1), p)]
      /\ round[p] < Len(Exchanges(Task(p)))
  BY <1>1 DEF Sends
<1>3. Scheduled /\ at[p] \in DOMAIN tasks /\ round[p] \in Nat /\ Task(p) = tasks[at[p]]
  BY PartyTypes DEF IInv, Frame
<1>4. Pattern(at[p], round[p] + 1) \in {"reshare", "broadcast"}
  BY <1>2, Addressed
<1>5. /\ awaits' \in [Parties -> Seq(Parties)] /\ awaits'[p] # <<>>
      /\ awaits'[p] = Sources(Pattern(at[p], round[p] + 1), p)
      /\ \A q \in Parties : q # p => awaits'[q] = awaits[q]
  BY <1>2, <1>4, SourcesAreSenders DEF IInv, Positions
<1>6. /\ \A a, r : Pattern(a, r)' = Pattern(a, r)
      /\ Exchanges(Task(p))' = Exchanges(Task(p)) /\ Task(p)' = Task(p)
  BY <1>2, TasksStay DEF Task
<1>7. PositionOf(p)'
  <2>1. PositionOf(p)
    BY DEF IInv, Positions
  <2> QED
    BY <1>2, <1>5, <1>6, <2>1 DEF PositionOf, Expected
<1>8. Begun(p) = round[p] /\ Begun(p)' = round[p] + 1
  BY <1>2, <1>5 DEF Begun
<1>9. PICK taken \in Nat :
        /\ taken = SpentBefore(at[p]) + DrawnBy(Task(p), round[p] + 1)
        /\ pool' = [pool EXCEPT ![p] =
                      [size |-> pool[p].size, consumed |-> taken,
                       before |-> IF round[p] = 0 THEN pool[p].consumed ELSE pool[p].before]]
  BY SendSends
<1>10. pool \in [Parties -> PoolSet] /\ PoolOf(p)
  BY DEF IInv, Pools
<1>11. /\ pool' \in [Parties -> PoolSet] /\ \A q \in Parties : q # p => pool'[q] = pool[q]
       /\ pool'[p].consumed = taken /\ pool'[p].size = pool[p].size
       /\ pool'[p].before = IF round[p] = 0 THEN pool[p].consumed ELSE pool[p].before
  BY <1>9, <1>10 DEF PoolSet
<1>12. PoolOf(p)'
  <2>1. pool'[p].before = SpentBefore(at[p])
    <3>1. round[p] = 0 => pool[p].consumed = SpentBefore(at[p])
      BY SendSends
    <3>2. round[p] # 0 => pool[p].before = SpentBefore(at[p])
      BY <1>3, <1>8, <1>10 DEF PoolOf
    <3> QED
      BY <1>11, <3>1, <3>2
  <2>2. pool'[p].consumed = SpentBefore(at[p]) + DrawnBy(Task(p), Begun(p)')
    BY <1>8, <1>9, <1>11
  <2>3. pool'[p].size = PoolSize(at[p])
    BY <1>10, <1>11 DEF PoolOf
  <2> QED
    BY <1>2, <1>6, <2>1, <2>2, <2>3, TasksStay DEF PoolOf
<1>13. counter \in [Parties -> [rounds : Nat, sent : BOOLEAN]] /\ CounterOf(p)
  BY DEF IInv, Counters
<1>14. counter' = [counter EXCEPT ![p].sent = TRUE]
  BY SendSends
<1>15. /\ counter' \in [Parties -> [rounds : Nat, sent : BOOLEAN]]
       /\ \A q \in Parties : q # p => counter'[q] = counter[q]
       /\ counter'[p].sent = TRUE /\ counter'[p].rounds = counter[p].rounds
  BY <1>13, <1>14
<1>16. CounterOf(p)'
  <2>1. ~ Unheard(p)
    BY <1>2 DEF Unheard
  <2>2. Unheard(p)'
    BY <1>2, <1>5, <1>6 DEF Unheard
  <2>3. counter[p].rounds = RoundsBefore(at[p]) + round[p]
    BY <1>8, <1>13, <2>1 DEF CounterOf
  <2> QED
    BY <1>2, <1>15, <2>2, <2>3, TasksStay DEF CounterOf
<1>17. Channels'
  BY <1>1, SendsChannels
<1>18. round' \in [Parties -> Nat] /\ \A q \in Parties : q # p => round'[q] = round[q]
  BY <1>2 DEF IInv, Positions
<1> QED
  BY <1>1, <1>2, <1>5, <1>7, <1>11, <1>12, <1>15, <1>16, <1>17, <1>18, Exchanging

-----------------------------------------------------------------------------
(* Receiving.                                                              *)

(* A channel without its first message.                                    *)
LEMMA Shortened ==
  ASSUME NEW c \in Seq(MessageSet), c # <<>>
  PROVE  /\ Tail(c) \in Seq(MessageSet)
         /\ \A i \in DOMAIN Tail(c) : /\ i \in Nat /\ i + 1 \in DOMAIN c /\ 1 < i + 1
                                      /\ Tail(c)[i] = c[i + 1]
         /\ \A j \in DOMAIN c : j = 1 \/ \E i \in DOMAIN Tail(c) : c[j] = Tail(c)[i]
<1>1. Tail(c) \in Seq(MessageSet) /\ Len(Tail(c)) = Len(c) - 1 /\ Len(c) \in Nat /\ Len(c) > 0
  OBVIOUS
<1>2. DOMAIN Tail(c) = 1 .. (Len(c) - 1) /\ DOMAIN c = 1 .. Len(c)
  BY <1>1
<1>3. \A i \in 1 .. (Len(c) - 1) : Tail(c)[i] = c[i + 1]
  OBVIOUS
<1>4. ASSUME NEW j \in DOMAIN c, j # 1
      PROVE  \E i \in DOMAIN Tail(c) : c[j] = Tail(c)[i]
  <2>1. j - 1 \in 1 .. (Len(c) - 1) /\ (j - 1) + 1 = j
    BY <1>1, <1>2, <1>4
  <2>2. c[j] = Tail(c)[j - 1]
    BY <1>3, <2>1
  <2> QED
    BY <1>2, <2>1, <2>2
<1> QED
  BY <1>1, <1>2, <1>3, <1>4

(* It stays in order, and still carries every other exchange.              *)
LEMMA ShortenedCarries ==
  ASSUME NEW c \in Seq(MessageSet), c # <<>>, InOrder(c)
  PROVE  /\ InOrder(Tail(c))
         /\ \A i \in DOMAIN Tail(c) : Earlier(c[1], Tail(c)[i])
         /\ \A a, r : Carries(c, a, r) /\ ~ (c[1].task = a /\ c[1].round = r)
                        => Carries(Tail(c), a, r)
<1>1. InOrder(Tail(c))
  <2> SUFFICES ASSUME NEW i \in DOMAIN Tail(c), NEW j \in DOMAIN Tail(c), i < j
               PROVE  Earlier(Tail(c)[i], Tail(c)[j])
    BY DEF InOrder
  <2>1. i + 1 \in DOMAIN c /\ j + 1 \in DOMAIN c /\ i + 1 < j + 1
    BY Shortened
  <2> QED
    BY <2>1, Shortened DEF InOrder
<1>2. \A i \in DOMAIN Tail(c) : Earlier(c[1], Tail(c)[i])
  <2> SUFFICES ASSUME NEW i \in DOMAIN Tail(c)
               PROVE  Earlier(c[1], Tail(c)[i])
    OBVIOUS
  <2>1. 1 \in DOMAIN c /\ i + 1 \in DOMAIN c /\ 1 < i + 1
    BY Shortened, FirstOfSequence
  <2> QED
    BY <2>1, Shortened DEF InOrder
<1>3. ASSUME NEW a, NEW r, Carries(c, a, r), ~ (c[1].task = a /\ c[1].round = r)
      PROVE  Carries(Tail(c), a, r)
  <2>1. PICK j \in DOMAIN c : c[j].task = a /\ c[j].round = r
    BY <1>3 DEF Carries
  <2>2. PICK i \in DOMAIN Tail(c) : c[j] = Tail(c)[i]
    BY <1>3, <2>1, Shortened
  <2> QED
    BY <2>1, <2>2 DEF Carries
<1> QED
  BY <1>1, <1>2, <1>3

(* What a receive does to the party's place in the exchange: it completes  *)
(* it, or has one of two peers still to hear from.                         *)
Completed(p, q) == awaits[p] = <<q>> /\ awaits'[p] = <<>> /\ round'[p] = round[p] + 1

Halfway(p, q) ==
  /\ Pattern(at[p], round[p] + 1) = "broadcast"
  /\ q = Prev(p) /\ awaits[p] = <<Prev(p), Next3(p)>>
  /\ awaits'[p] = <<Next3(p)>> /\ round'[p] = round[p]

(* Every receive is one or the other, with the party it was waiting for.   *)
LEMMA ReceiveShape ==
  ASSUME IInv, NEW p \in Parties, Receive(p)
  PROVE  /\ awaits[p] # <<>> /\ Head(awaits[p]) \in ToSet(awaits[p])
         /\ Completed(p, Head(awaits[p])) \/ Halfway(p, Head(awaits[p]))
<1>1. /\ awaits[p] # <<>> /\ awaits' = [awaits EXCEPT ![p] = Tail(awaits[p])]
      /\ round' = [round EXCEPT ![p] = IF Len(awaits[p]) = 1 THEN round[p] + 1 ELSE round[p]]
  BY DEF Receive
<1>2. awaits \in [Parties -> Seq(Parties)] /\ round \in [Parties -> Nat] /\ PositionOf(p)
  BY DEF IInv, Positions
<1>3. /\ awaits'[p] = Tail(awaits[p])
      /\ round'[p] = IF Len(awaits[p]) = 1 THEN round[p] + 1 ELSE round[p]
  BY <1>1, <1>2
<1>4. ASSUME \E q : awaits[p] = <<q>>
      PROVE  Completed(p, Head(awaits[p]))
  <2>1. PICK q : awaits[p] = <<q>>
    BY <1>4
  <2>2. Len(awaits[p]) = 1 /\ Tail(awaits[p]) = <<>> /\ Head(awaits[p]) = q
    BY <2>1
  <2> QED
    BY <1>3, <2>1, <2>2 DEF Completed
<1>5. ASSUME Pattern(at[p], round[p] + 1) = "broadcast", awaits[p] = <<Prev(p), Next3(p)>>
      PROVE  Halfway(p, Head(awaits[p]))
  <2>1. Len(awaits[p]) = 2 /\ Tail(awaits[p]) = <<Next3(p)>> /\ Head(awaits[p]) = Prev(p)
    BY <1>5
  <2>2. Len(awaits[p]) # 1
    BY <2>1
  <2> QED
    BY <1>3, <1>5, <2>1, <2>2 DEF Halfway
<1>6. \/ \E q : awaits[p] = <<q>>
      \/ /\ Pattern(at[p], round[p] + 1) = "broadcast"
         /\ awaits[p] = <<Prev(p), Next3(p)>>
  BY <1>1, <1>2 DEF PositionOf, Expected, Sources
<1>7. Head(awaits[p]) \in ToSet(awaits[p])
  BY <1>1, <1>2, FirstOfSequence
<1> QED
  BY <1>1, <1>4, <1>5, <1>6, <1>7

(* What a party has sent and heard when it has received a message.         *)
LEMMA ReceiveExchanges ==
  ASSUME IInv, NEW p \in Parties, Receive(p), NEW q, q = Head(awaits[p])
  PROVE  /\ \A a, r \in Nat : Sent(p, a, r)' <=> Sent(p, a, r)
         /\ \A o \in Parties : \A a, r \in Nat :
              Heard(p, o, a, r)' <=>
                Heard(p, o, a, r) \/ (o = q /\ a = at[p] /\ r = round[p] + 1)
         /\ \A s \in Parties : s # p =>
              /\ \A a, r : Sent(s, a, r)' <=> Sent(s, a, r)
              /\ \A o, a, r : Heard(s, o, a, r)' <=> Heard(s, o, a, r)
<1>1. UNCHANGED <<program, tasks, mistake, at>> /\ awaits[p] # <<>>
  BY DEF Receive
<1>2. /\ awaits' = [awaits EXCEPT ![p] = awaits'[p]]
      /\ round' = [round EXCEPT ![p] = round'[p]]
  BY DEF Receive, IInv, Positions
<1>3. at[p] \in Nat /\ round[p] \in Nat
  BY PartyTypes DEF IInv
<1>4. \A r \in Nat : r <= round[p] + 1 <=> r <= round[p] \/ r = round[p] + 1
  BY <1>3
<1>5. ASSUME Completed(p, q)
      PROVE  /\ \A a, r \in Nat : Sent(p, a, r)' <=> Sent(p, a, r)
             /\ \A o : \A a, r \in Nat :
                  Heard(p, o, a, r)' <=>
                    Heard(p, o, a, r) \/ (o = q /\ a = at[p] /\ r = round[p] + 1)
  <2>1. ToSet(awaits[p]) = {q}
    BY <1>5 DEF Completed, ToSet
  <2>2. /\ \A a, r \in Nat : Sent(p, a, r)' <=> a < at[p] \/ (a = at[p] /\ r <= round[p] + 1)
        /\ \A o : \A a, r \in Nat :
             Heard(p, o, a, r)' <=> a < at[p] \/ (a = at[p] /\ r <= round[p] + 1)
    BY <1>1, <1>5 DEF Sent, Heard, Completed
  <2>3. \A a, r \in Nat : Sent(p, a, r)' <=> Sent(p, a, r)
    BY <1>1, <1>4, <2>2 DEF Sent
  <2>4. \A o : \A a, r \in Nat :
          Heard(p, o, a, r)' <=> Heard(p, o, a, r) \/ (o = q /\ a = at[p] /\ r = round[p] + 1)
    BY <1>1, <1>4, <2>1, <2>2 DEF Heard
  <2> QED
    BY <2>3, <2>4
<1>6. ASSUME Halfway(p, q)
      PROVE  /\ \A a, r \in Nat : Sent(p, a, r)' <=> Sent(p, a, r)
             /\ \A o : \A a, r \in Nat :
                  Heard(p, o, a, r)' <=>
                    Heard(p, o, a, r) \/ (o = q /\ a = at[p] /\ r = round[p] + 1)
  <2>1. ToSet(awaits[p]) = {Prev(p), Next3(p)} /\ ToSet(awaits'[p]) = {Next3(p)}
    BY <1>6 DEF Halfway, ToSet
  <2>2. q = Prev(p) /\ q # Next3(p) /\ awaits'[p] # <<>> /\ round'[p] = round[p]
    BY <1>6, Ring DEF Halfway
  <2>3. \A a, r \in Nat : Sent(p, a, r)' <=> Sent(p, a, r)
    BY <1>1, <2>2 DEF Sent
  <2>4. \A o : \A a, r \in Nat :
          Heard(p, o, a, r)' <=> Heard(p, o, a, r) \/ (o = q /\ a = at[p] /\ r = round[p] + 1)
    BY <1>1, <2>1, <2>2 DEF Heard
  <2> QED
    BY <2>3, <2>4
<1>7. ASSUME NEW s \in Parties, s # p
      PROVE  /\ \A a, r : Sent(s, a, r)' <=> Sent(s, a, r)
             /\ \A o, a, r : Heard(s, o, a, r)' <=> Heard(s, o, a, r)
  <2>1. awaits'[s] = awaits[s] /\ at'[s] = at[s] /\ round'[s] = round[s]
    BY <1>1, <1>2, <1>7 DEF IInv, Positions
  <2> QED
    BY <1>1, <2>1, PartyStays
<1>8. Completed(p, q) \/ Halfway(p, q)
  BY ReceiveShape
<1> QED
  BY <1>5, <1>6, <1>7, <1>8

(* The channel that is received from.                                      *)
LEMMA ReceivedFrom ==
  ASSUME IInv, NEW p \in Parties, Receive(p), NEW q \in Parties, q = Head(awaits[p])
  PROVE  Holds(q, p)' /\ HeardWasSent(q, p)' /\ channel'[q][p] \in Seq(MessageSet)
<1>1. /\ UNCHANGED <<program, tasks>> /\ channel[q][p] # <<>>
      /\ channel' = [channel EXCEPT ![q][p] = Tail(channel[q][p])]
  BY DEF Receive
<1>2. channel \in [Parties -> [Parties -> Seq(MessageSet)]]
  BY DEF IInv, Channels
<1>3. PICK c \in Seq(MessageSet) : c = channel[q][p] /\ c # <<>> /\ channel'[q][p] = Tail(c)
  BY <1>1, <1>2
<1>4. Holds(q, p) /\ HeardWasSent(q, p) /\ InOrder(c)
  BY <1>3 DEF IInv, Channels, Holds
<1>5. /\ c[1].task = at[p] /\ c[1].round = round[p] + 1
      /\ Sent(q, at[p], round[p] + 1)
  <2>1. q \in ToSet(awaits[p])
    BY ReceiveShape
  <2> QED
    BY <1>1, <1>3, <2>1, FirstMessage
<1>6. at[p] \in Nat /\ round[p] \in Nat
  BY PartyTypes DEF IInv
<1>7. /\ \A a, r \in Nat : Sent(q, a, r)' <=> Sent(q, a, r)
      /\ \A a, r \in Nat :
           Heard(p, q, a, r)' <=> Heard(p, q, a, r) \/ (a = at[p] /\ r = round[p] + 1)
      /\ \A a, r : Meets(q, p, a, r)' <=> Meets(q, p, a, r)
      /\ \A a : SpentBefore(a)' = SpentBefore(a)
  BY <1>1, ReceiveExchanges, TasksStay
<1>8. ASSUME NEW m \in MessageSet, Fits(q, p, m), Earlier(c[1], m)
      PROVE  Fits(q, p, m)'
  <2>1. m.task \in Nat /\ m.round \in Nat
    BY DEF MessageSet
  <2>2. ~ (m.task = at[p] /\ m.round = round[p] + 1)
    BY <1>5, <1>6, <1>8, <2>1 DEF Earlier
  <2>3. /\ Meets(q, p, m.task, m.round) /\ Sent(q, m.task, m.round)
        /\ ~ Heard(p, q, m.task, m.round)
        /\ m.masks = SpentBefore(m.task) + DrawnBy(tasks[m.task], m.round)
    BY <1>8 DEF Fits
  <2> QED
    BY <1>1, <1>7, <2>1, <2>2, <2>3 DEF Fits
<1>9. \A i \in DOMAIN Tail(c) : Fits(q, p, Tail(c)[i])'
  <2> SUFFICES ASSUME NEW i \in DOMAIN Tail(c)
               PROVE  Fits(q, p, Tail(c)[i])'
    OBVIOUS
  <2>1. i + 1 \in DOMAIN c /\ Tail(c)[i] = c[i + 1]
    BY <1>3, Shortened
  <2>2. Fits(q, p, c[i + 1]) /\ c[i + 1] \in MessageSet
    BY <1>3, <1>4, <2>1, Messages DEF Holds
  <2>3. Earlier(c[1], c[i + 1])
    BY <1>3, <1>4, <2>1, ShortenedCarries
  <2> QED
    BY <1>8, <2>1, <2>2, <2>3
<1>10. InOrder(Tail(c))
  BY <1>3, <1>4, ShortenedCarries
<1>11. ASSUME NEW a \in Nat, NEW r \in Nat,
              Meets(q, p, a, r)', Sent(q, a, r)', ~ Heard(p, q, a, r)'
       PROVE  Carries(Tail(c), a, r)
  <2>1. /\ Meets(q, p, a, r) /\ Sent(q, a, r) /\ ~ Heard(p, q, a, r)
        /\ ~ (a = at[p] /\ r = round[p] + 1)
    BY <1>7, <1>11
  <2>2. Carries(c, a, r)
    BY <1>3, <1>4, <2>1 DEF Holds
  <2> QED
    BY <1>3, <1>4, <1>5, <2>1, <2>2, ShortenedCarries
<1>12. Holds(q, p)'
  BY <1>3, <1>9, <1>10, <1>11 DEF Holds
<1>13. HeardWasSent(q, p)'
  BY <1>4, <1>5, <1>7 DEF HeardWasSent
<1> QED
  BY <1>3, <1>12, <1>13, Shortened

(* All channels, when a party has received.                                *)
LEMMA ReceiveChannels ==
  ASSUME IInv, NEW p \in Parties, Receive(p)
  PROVE  Channels'
<1>1. PICK q : q = Head(awaits[p])
  OBVIOUS
<1>2. UNCHANGED <<program, tasks>> /\ channel' = [channel EXCEPT ![q][p] = Tail(channel[q][p])]
  BY <1>1 DEF Receive
<1>3. q \in Parties
  BY <1>1, ReceiveShape, Awaited
<1>4. channel \in [Parties -> [Parties -> Seq(MessageSet)]]
  BY DEF IInv, Channels
<1>5. ASSUME NEW s \in Parties, NEW o \in Parties
      PROVE  Holds(s, o)' /\ HeardWasSent(s, o)' /\ channel'[s][o] \in Seq(MessageSet)
  <2>1. CASE s = q /\ o = p
    BY <1>1, <2>1, ReceivedFrom
  <2>2. CASE ~ (s = q /\ o = p)
    <3>1. channel'[s][o] = channel[s][o] /\ channel[s][o] \in Seq(MessageSet)
      BY <1>2, <1>3, <1>4, <2>2
    <3>2. Holds(s, o) /\ HeardWasSent(s, o)
      BY DEF IInv, Channels
    <3>3. ASSUME NEW a \in Nat, NEW r \in Nat
          PROVE  /\ Sent(s, a, r)' <=> Sent(s, a, r)
                 /\ Heard(o, s, a, r)' <=> Heard(o, s, a, r)
      <4>1. ~ (o = p /\ s = q /\ a = at[p] /\ r = round[p] + 1)
        BY <2>2
      <4> QED
        BY <1>1, <4>1, ReceiveExchanges
    <3> QED
      BY <1>2, <3>1, <3>2, <3>3, PairStays
  <2> QED
    BY <2>1, <2>2
<1>6. channel' \in [Parties -> [Parties -> Seq(MessageSet)]]
  BY <1>2, <1>3, <1>4, <1>5
<1> QED
  BY <1>5, <1>6 DEF Channels

(* The first message heard in an exchange counts its round, and no other.  *)
LEMMA ReceiveCounts ==
  ASSUME IInv, NEW p \in Parties, Receive(p)
  PROVE  CounterOf(p)' /\ counter'[p] \in [rounds : Nat, sent : BOOLEAN]
<1> DEFINE q == Head(awaits[p])
<1>1. UNCHANGED <<program, tasks, at>> /\ counter' = [counter EXCEPT ![p] = Counted(counter[p])]
  BY DEF Receive
<1>2. counter \in [Parties -> [rounds : Nat, sent : BOOLEAN]] /\ CounterOf(p)
  BY DEF IInv, Counters
<1>3. Scheduled /\ at[p] \in DOMAIN tasks /\ round[p] \in Nat
  BY PartyTypes DEF IInv, Frame
<1>4. RoundsBefore(at[p]) \in Nat
  BY <1>3, RoundsSteps
<1>5. Begun(p) = round[p] + 1
  BY DEF Begun, Receive
<1>6. ~ Unheard(p)' /\ Begun(p)' = round[p] + 1
  <2>1. \A a, r : Pattern(a, r)' = Pattern(a, r)
    BY <1>1, TasksStay
  <2>2. ASSUME Completed(p, q)
        PROVE  ~ Unheard(p)' /\ Begun(p)' = round[p] + 1
    BY <2>2 DEF Completed, Unheard, Begun
  <2>3. ASSUME Halfway(p, q)
        PROVE  ~ Unheard(p)' /\ Begun(p)' = round[p] + 1
    <3>1. Sources(Pattern(at[p], round[p] + 1), p) = <<Prev(p), Next3(p)>>
      BY <2>3 DEF Halfway, Sources
    <3>2. awaits'[p] = <<Next3(p)>> /\ awaits'[p] # <<>> /\ round'[p] = round[p]
      BY <2>3 DEF Halfway
    <3>3. <<Next3(p)>> # <<Prev(p), Next3(p)>>
      OBVIOUS
    <3> QED
      BY <1>1, <2>1, <3>1, <3>2, <3>3 DEF Unheard, Begun
  <2> QED
    BY <2>2, <2>3, ReceiveShape
<1>7. counter'[p].sent = FALSE /\ counter'[p].rounds = RoundsBefore(at[p]) + (round[p] + 1)
  <2>1. /\ counter'[p].sent = FALSE
        /\ counter'[p].rounds = IF counter[p].sent THEN counter[p].rounds + 1
                                ELSE counter[p].rounds
    BY <1>1, <1>2 DEF Counted
  <2>2. CASE Unheard(p)
    BY <1>2, <1>3, <1>4, <2>1, <2>2 DEF CounterOf
  <2>3. CASE ~ Unheard(p)
    BY <1>2, <1>5, <2>1, <2>3 DEF CounterOf
  <2> QED
    BY <2>2, <2>3
<1>8. counter'[p] \in [rounds : Nat, sent : BOOLEAN]
  <2>1. counter[p] \in [rounds : Nat, sent : BOOLEAN]
    BY <1>2
  <2> QED
    BY <1>1, <1>2, <2>1 DEF Counted
<1>9. CounterOf(p)'
  BY <1>1, <1>6, <1>7, TasksStay DEF CounterOf
<1> QED
  BY <1>8, <1>9

(* A party receives.                                                       *)
LEMMA ReceiveStep ==
  ASSUME IInv, NEW p \in Parties, Receive(p)
  PROVE  IInv'
<1> DEFINE q == Head(awaits[p])
<1>1. /\ UNCHANGED <<program, tasks, mistake, at, pool, traces, status>> /\ Running(p)
      /\ awaits' = [awaits EXCEPT ![p] = awaits'[p]] /\ round' = [round EXCEPT ![p] = round'[p]]
      /\ counter' = [counter EXCEPT ![p] = counter'[p]] /\ awaits[p] # <<>>
  BY DEF Receive, IInv, Positions, Counters
<1>2. /\ awaits \in [Parties -> Seq(Parties)] /\ round \in [Parties -> Nat]
      /\ counter \in [Parties -> [rounds : Nat, sent : BOOLEAN]] /\ pool \in [Parties -> PoolSet]
  BY DEF IInv, Positions, Counters, Pools
<1>3. q \in ToSet(awaits[p]) /\ (Completed(p, q) \/ Halfway(p, q))
  BY ReceiveShape
<1>4. round[p] < Len(Exchanges(Task(p))) /\ round[p] \in Nat /\ Len(Exchanges(Task(p))) \in Nat
  BY <1>3, Awaited, PartyTypes DEF IInv
<1>5. /\ \A a, r : Pattern(a, r)' = Pattern(a, r)
      /\ Exchanges(Task(p))' = Exchanges(Task(p)) /\ Task(p)' = Task(p)
  BY <1>1, TasksStay DEF Task
<1>6. PositionOf(p)' /\ Begun(p)' = Begun(p)
  <2>1. ASSUME Completed(p, q)
        PROVE  PositionOf(p)' /\ Begun(p)' = Begun(p)
    BY <1>1, <1>4, <1>5, <2>1 DEF Completed, PositionOf, Expected, Begun
  <2>2. ASSUME Halfway(p, q)
        PROVE  PositionOf(p)' /\ Begun(p)' = Begun(p)
    BY <1>1, <1>4, <1>5, <2>2 DEF Halfway, PositionOf, Expected, Begun
  <2> QED
    BY <1>3, <2>1, <2>2
<1>7. PoolOf(p)'
  <2>1. PoolOf(p) /\ pool'[p] = pool[p] /\ at'[p] = at[p]
    BY <1>1 DEF IInv, Pools
  <2> QED
    BY <1>1, <1>5, <1>6, <2>1, TasksStay DEF PoolOf
<1>8. awaits'[p] \in Seq(Parties) /\ round'[p] \in Nat
  <2>1. ASSUME Completed(p, q)
        PROVE  awaits'[p] \in Seq(Parties) /\ round'[p] \in Nat
    BY <1>4, <2>1 DEF Completed
  <2>2. ASSUME Halfway(p, q)
        PROVE  awaits'[p] \in Seq(Parties) /\ round'[p] \in Nat
    <3>1. Next3(p) \in Parties /\ awaits'[p] = <<Next3(p)>>
      BY <2>2, Ring DEF Halfway
    <3>2. <<Next3(p)>> \in Seq(Parties)
      BY <3>1
    <3> QED
      BY <1>4, <2>2, <3>1, <3>2 DEF Halfway
  <2> QED
    BY <1>3, <2>1, <2>2
<1>9. /\ awaits' \in [Parties -> Seq(Parties)] /\ round' \in [Parties -> Nat]
      /\ \A o \in Parties : o # p =>
           awaits'[o] = awaits[o] /\ round'[o] = round[o] /\ counter'[o] = counter[o]
  BY <1>1, <1>2, <1>8
<1>10. CounterOf(p)' /\ counter' \in [Parties -> [rounds : Nat, sent : BOOLEAN]]
  <2>1. CounterOf(p)' /\ counter'[p] \in [rounds : Nat, sent : BOOLEAN]
    BY ReceiveCounts
  <2> QED
    BY <1>1, <1>2, <2>1
<1>11. Channels'
  BY ReceiveChannels
<1>12. pool' \in [Parties -> PoolSet] /\ \A o \in Parties : pool'[o] = pool[o]
  BY <1>1, <1>2
<1> QED
  BY <1>1, <1>6, <1>7, <1>9, <1>10, <1>11, <1>12, Exchanging

-----------------------------------------------------------------------------
(* The invariant holds at first, and every step preserves it.              *)

(* Nobody has sent, heard, drawn or counted anything.                      *)
LEMMA InitHolds ==
  ASSUME Init
  PROVE  IInv
<1>1. /\ Scheduled /\ mistake \in [Parties -> Mistakes]
      /\ at = [p \in Parties |-> 1] /\ round = [p \in Parties |-> 0]
      /\ awaits = [p \in Parties |-> <<>>]
      /\ channel = [p \in Parties |-> [q \in Parties |-> <<>>]]
      /\ pool = [p \in Parties |-> EmptyPool] /\ traces = [p \in Parties |-> 0]
      /\ counter = [p \in Parties |-> [rounds |-> 0, sent |-> FALSE]]
      /\ status = [p \in Parties |-> "running"]
  BY DEF Init, Scheduled
<1>2. /\ 1 \in DOMAIN tasks /\ 1 < Len(tasks) /\ Len(tasks) \in Nat
      /\ ResetAt \in Nat /\ DriverAt \in Nat /\ ~ (1 > ResetAt) /\ ~ (1 > DriverAt)
  BY <1>1, Layout
<1>3. /\ tasks[1] \in TaskSet /\ DrawnBy(tasks[1], 0) = 0 /\ Len(Exchanges(tasks[1])) \in Nat
      /\ \A a \in DOMAIN tasks : a \in Nat /\ 0 < a
  BY <1>1, <1>2, Parts, ExchangesShape
<1>4. Frame
  BY <1>1 DEF Init, Frame
<1>5. Positions
  <2>1. \A p \in Parties : PositionOf(p)
    BY <1>1, <1>3 DEF PositionOf, Expected, Task
  <2> QED
    BY <1>1, <1>2, <2>1 DEF Positions
<1>6. Channels
  <2>1. ASSUME NEW p \in Parties, NEW q \in Parties
        PROVE  Holds(p, q) /\ HeardWasSent(p, q)
    <3>1. channel[p][q] = <<>>
      BY <1>1
    <3>2. \A i \in DOMAIN channel[p][q] : Fits(p, q, channel[p][q][i])
      BY <3>1
    <3>3. InOrder(channel[p][q])
      BY <3>1 DEF InOrder
    <3>4. ASSUME NEW a \in Nat, NEW r \in Nat, Meets(p, q, a, r)
          PROVE  ~ Sent(p, a, r) /\ ~ Heard(q, p, a, r)
      <4>1. a \in DOMAIN tasks /\ r > 0
        BY <3>4 DEF Meets
      <4>2. ~ (a < 1) /\ ~ (r <= 0)
        BY <1>3, <4>1
      <4>3. /\ at[p] = 1 /\ round[p] = 0 /\ awaits[p] = <<>>
            /\ at[q] = 1 /\ round[q] = 0 /\ awaits[q] = <<>>
        BY <1>1
      <4> QED
        BY <4>2, <4>3 DEF Sent, Heard
    <3> QED
      BY <3>2, <3>3, <3>4 DEF Holds, HeardWasSent
  <2> QED
    BY <1>1, <2>1 DEF Channels
<1>7. Pools
  <2>1. PoolSize(1) = 0
    <3>1. tasks[1].kind # "Trace"
      BY <1>1, <1>2, <1>3, TracePlaces
    <3> QED
      BY <1>1, <1>2, <3>1, AtTheStart DEF PoolSize
  <2>2. ASSUME NEW p \in Parties
        PROVE  PoolOf(p)
    <3>1. Begun(p) = 0 /\ at[p] = 1 /\ Task(p) = tasks[1] /\ pool[p] = EmptyPool
      BY <1>1 DEF Begun, Task
    <3> QED
      BY <1>1, <1>3, <2>1, <3>1, AtTheStart DEF PoolOf, EmptyPool
  <2> QED
    BY <1>1, <2>2 DEF Pools, EmptyPool, PoolSet
<1>8. Traces
  BY <1>1, <1>2, AtTheStart DEF Traces, TracesOf
<1>9. Counters
  BY <1>1, AtTheStart DEF Counters, CounterOf, Unheard, Begun
<1>10. Outcomes
  <2>1. 1 <= DriverAt + 1
    BY <1>2
  <2> QED
    BY <1>1, <1>2, <2>1 DEF Outcomes, OutcomeOf
<1> QED
  BY <1>4, <1>5, <1>6, <1>7, <1>8, <1>9, <1>10 DEF IInv

(* Every step of a party, and the end, preserve it.                        *)
LEMMA NextPreserves ==
  ASSUME IInv, [Next]_vars
  PROVE  IInv'
<1>1. ASSUME NEW p \in Parties, Step(p)
      PROVE  IInv'
  BY <1>1, SendStep, SendFailsStep, ReceiveStep, ReceiveFailsStep, PreparePoolStep,
     FinishPermutationStep, FinishServiceStep, ResetCounterStep, InitializeInputsStep,
     FinishInstructionStep, RunPrecomputedStep, FinishRunStep, OpenPublicPrefixStep DEF Step
<1>2. CASE UNCHANGED vars
  <2>1. UNCHANGED <<program, tasks, mistake, at, round, awaits, channel, pool, traces, counter>>
        /\ status' = status
    BY <1>2 DEF vars
  <2>2. PICK p \in Parties : TRUE
    BY DEF Parties
  <2>3. status \in [Parties -> {"running", "done", "peer gone"} \cup CallerErrors] /\ OutcomeOf(p)
    BY DEF IInv, Outcomes
  <2>4. Fail(p, status[p])
    BY <2>1, <2>3 DEF Fail
  <2>5. OutcomeOf(p)'
    BY <2>1, <2>3, PartyStays
  <2> QED
    BY <2>3, <2>4, <2>5, Ending
<1> QED
  BY <1>1, <1>2 DEF Next, Finished

-----------------------------------------------------------------------------
(* What follows from it.                                                   *)

(* A party has drawn no more than its pool covers.                         *)
LEMMA DrawnWithinPool ==
  ASSUME IInv, NEW p \in Parties
  PROVE  pool[p].consumed \in 0 .. pool[p].size
<1>1. /\ Scheduled /\ at[p] \in DOMAIN tasks /\ Task(p) = tasks[at[p]] /\ Task(p) \in TaskSet
      /\ round[p] \in Nat /\ Len(Exchanges(Task(p))) \in Nat
  BY PartyTypes DEF IInv, Frame
<1>2. /\ pool[p].consumed = SpentBefore(at[p]) + DrawnBy(Task(p), Begun(p))
      /\ pool[p].size = PoolSize(at[p]) /\ PositionOf(p)
  BY DEF IInv, Pools, PoolOf, Positions
<1>3. Begun(p) \in Nat /\ Begun(p) <= Len(Exchanges(Task(p)))
  BY <1>1, <1>2 DEF Begun, PositionOf, Expected
<1>4. DrawnBy(Task(p), Begun(p)) \in Nat /\ DrawnBy(Task(p), Begun(p)) <= TaskMasks(Task(p))
  <2>1. CASE Begun(p) = 0
    <3>1. DrawnBy(Task(p), Begun(p)) = 0 /\ TaskMasks(Task(p)) \in Nat
      BY <1>1, <2>1, ExchangesShape
    <3> QED
      BY <3>1
  <2>2. CASE Begun(p) = Len(Exchanges(Task(p)))
    <3>1. DrawnBy(Task(p), Begun(p)) = TaskMasks(Task(p)) /\ TaskMasks(Task(p)) \in Nat
      BY <1>1, <2>2, ExchangesShape
    <3> QED
      BY <3>1
  <2>3. CASE Begun(p) # 0 /\ Begun(p) # Len(Exchanges(Task(p)))
    <3>1. PICK r \in Nat : Begun(p) = r + 1 /\ r < Len(Exchanges(Task(p)))
                           /\ r + 1 < Len(Exchanges(Task(p))) /\ r + 1 \in Nat
      <4>1. /\ Begun(p) = (Begun(p) - 1) + 1 /\ Begun(p) - 1 \in Nat
            /\ Begun(p) - 1 < Len(Exchanges(Task(p))) /\ Begun(p) < Len(Exchanges(Task(p)))
        BY <1>1, <1>3, <2>3
      <4> QED
        BY <1>3, <4>1
    <3> QED
      BY <1>1, <3>1, ExchangesShape
  <2> QED
    BY <2>1, <2>2, <2>3
<1>5. /\ SpentBefore(at[p]) \in Nat /\ PoolSize(at[p]) \in Nat /\ TaskMasks(Task(p)) \in Nat
      /\ SpentBefore(at[p]) + TaskMasks(Task(p)) <= PoolSize(at[p])
  BY <1>1, SpentSteps, PoolCovers, ExchangesShape
<1> QED
  BY <1>2, <1>4, <1>5

(* The type invariant.                                                     *)
LEMMA TypeHolds ==
  ASSUME IInv
  PROVE  TypeOK
<1>1. at \in [Parties -> DOMAIN tasks] /\ traces \in [Parties -> Nat]
  BY DEF IInv, Positions, Traces
<1>2. \A p \in Parties : round[p] \in 0 .. Len(Exchanges(Task(p)))
  BY PartyTypes DEF IInv
<1>3. status \in [Parties -> {"running", "done", "peer gone", "mask pool exhausted",
                              "mask consumption mismatch", "masks left over"} \cup CallerErrors]
  BY DEF IInv, Outcomes
<1> QED
  BY <1>1, <1>2, <1>3, DrawnWithinPool DEF TypeOK

(* What an awaited peer sent first is the exchange the receiver is in.     *)
LEMMA LockstepHolds ==
  ASSUME IInv
  PROVE  Lockstep
<1> SUFFICES ASSUME NEW p \in Parties, NEW q \in ToSet(awaits[p]), channel[q][p] # <<>>
             PROVE  Head(channel[q][p]) = Label(p)
  BY DEF Lockstep
<1>1. /\ Head(channel[q][p]) = channel[q][p][1] /\ 1 \in DOMAIN channel[q][p]
      /\ channel[q][p][1].task = at[p] /\ channel[q][p][1].round = round[p] + 1
  BY FirstMessage
<1>2. q \in Parties /\ awaits[p] # <<>>
  BY Awaited
<1>3. PICK m \in MessageSet : m = Head(channel[q][p]) /\ m.task = at[p] /\ m.round = round[p] + 1
                              /\ Fits(q, p, m)
  <2>1. channel[q][p] \in Seq(MessageSet) /\ Holds(q, p)
    BY <1>2 DEF IInv, Channels
  <2> QED
    BY <1>1, <2>1, Messages DEF Holds
<1>4. m.masks = SpentBefore(at[p]) + DrawnBy(Task(p), round[p] + 1)
  BY <1>3 DEF Fits, Task
<1>5. pool[p].consumed = SpentBefore(at[p]) + DrawnBy(Task(p), round[p] + 1)
  BY <1>2 DEF IInv, Pools, PoolOf, Begun
<1>6. m = [task |-> m.task, round |-> m.round, masks |-> m.masks]
  BY DEF MessageSet
<1> QED
  BY <1>3, <1>4, <1>5, <1>6 DEF Label

(* Nothing that is sent to a party that is done is still to be heard.      *)
LEMMA NoResidueHolds ==
  ASSUME IInv
  PROVE  NoResidue
<1> SUFFICES ASSUME NEW p \in Parties, NEW q \in Parties, status[q] = "done",
                    channel[p][q] # <<>>
             PROVE  FALSE
  BY DEF NoResidue
<1>1. channel[p][q] \in Seq(MessageSet) /\ Holds(p, q)
  BY DEF IInv, Channels
<1>2. 1 \in DOMAIN channel[p][q]
  BY <1>1, FirstOfSequence
<1>3. PICK m : Fits(p, q, m)
  BY <1>1, <1>2 DEF Holds
<1>4. m.task \in DOMAIN tasks /\ m.round \in 1 .. Len(Exchanges(tasks[m.task]))
  BY <1>3 DEF Fits, Meets
<1>5. Heard(q, p, m.task, m.round)
  BY <1>4, DoneIsThrough
<1> QED
  BY <1>3, <1>5 DEF Fits

(* An error of any party comes with some caller's mistake.                 *)
LEMMA ErrorsHold ==
  ASSUME IInv
  PROVE  ErrorsAreTheCallers
  BY DEF IInv, Outcomes, OutcomeOf, ErrorsAreTheCallers

(* The next party needs the last message of the one that is mistaken.      *)
LEMMA MistakesHold ==
  ASSUME IInv
  PROVE  MistakesReachTheNext
<1> SUFFICES ASSUME NEW p \in Parties, mistake[p] # "none"
             PROVE  status[p] # "done" /\ status[Next3(p)] # "done"
  BY DEF MistakesReachTheNext
<1>1. OutcomeOf(p) /\ Scheduled /\ at[p] \in Nat /\ Next3(p) \in Parties /\ Next3(p) # p
  BY PartyTypes, Ring DEF IInv, Outcomes, Frame
<1>2. /\ Len(tasks) \in DOMAIN tasks /\ Len(tasks) \in Nat
      /\ Exchanges(tasks[Len(tasks)])[1].pattern = "reshare"
      /\ Len(Exchanges(tasks[Len(tasks)])) = 1
  <2>1. Len(tasks) \in DOMAIN tasks /\ Len(tasks) \in Nat /\ tasks[Len(tasks)].kind = "Open"
    BY <1>1, Layout
  <2> QED
    BY <2>1, ExchangeLengths
<1>3. at[p] < Len(tasks)
  BY <1>1 DEF OutcomeOf
<1>4. status[p] # "done"
  <2>1. at[p] # Len(tasks)
    BY <1>1, <1>2, <1>3
  <2> QED
    BY <1>1, <2>1 DEF OutcomeOf
<1>5. ~ Sent(p, Len(tasks), 1)
  <2>1. ~ (Len(tasks) < at[p]) /\ Len(tasks) # at[p]
    BY <1>1, <1>2, <1>3
  <2> QED
    BY <2>1 DEF Sent
<1>6. Meets(p, Next3(p), Len(tasks), 1)
  <2>1. Next3(p) \in Addressees("reshare", p)
    BY DEF Addressees
  <2>2. 1 \in 1 .. Len(Exchanges(tasks[Len(tasks)]))
    BY <1>2
  <2> QED
    BY <1>2, <2>1, <2>2 DEF Meets, Pattern
<1>7. ~ Heard(Next3(p), p, Len(tasks), 1)
  BY <1>1, <1>2, <1>5, <1>6 DEF IInv, Channels, HeardWasSent
<1>8. status[Next3(p)] # "done"
  BY <1>1, <1>6, <1>7, DoneIsThrough DEF Meets
<1> QED
  BY <1>4, <1>8

(* The rounds counted at the reset and at the end are those of the tasks.  *)
LEMMA RoundsHold ==
  ASSUME IInv
  PROVE  RoundsAsClaimed
<1> SUFFICES ASSUME NEW p \in Parties
             PROVE  /\ Task(p).kind = "ResetCounter" =>
                         counter[p].rounds = RoundsOfTasks({"NewService", "Trace"})
                    /\ status[p] = "done" =>
                         counter[p].rounds =
                           RoundsOfTasks({"NewDriver", "Poseidon2", "Reveal", "Reshare",
                                          "IsZeroReveal", "Open"})
  BY DEF RoundsAsClaimed
<1>1. /\ Scheduled /\ at[p] \in DOMAIN tasks /\ Task(p) = tasks[at[p]]
      /\ RoundsBefore(at[p]) \in Nat /\ round[p] \in Nat
      /\ CounterOf(p) /\ PositionOf(p) /\ OutcomeOf(p)
  <2>1. Scheduled /\ at[p] \in DOMAIN tasks /\ Task(p) = tasks[at[p]] /\ round[p] \in Nat
    BY PartyTypes DEF IInv, Frame
  <2> QED
    BY <2>1, RoundsSteps DEF IInv, Counters, Positions, Outcomes
<1>2. awaits[p] = <<>> => counter[p].rounds = RoundsBefore(at[p]) + round[p]
  BY <1>1 DEF CounterOf, Unheard, Begun
<1>3. ASSUME Task(p).kind = "ResetCounter"
      PROVE  counter[p].rounds = RoundsOfTasks({"NewService", "Trace"})
  <2>1. at[p] = ResetAt
    BY <1>1, <1>3, Places
  <2>2. Exchanges(Task(p)) = <<>>
    BY <1>3, ExchangeLengths
  <2>3. round[p] = 0 /\ awaits[p] = <<>>
    BY <1>1, <2>2 DEF PositionOf, Expected
  <2>4. counter[p].rounds = RoundsBefore(ResetAt)
    BY <1>1, <1>2, <2>1, <2>3
  <2> QED
    BY <1>1, <2>4, RoundsOfHost
<1>4. ASSUME status[p] = "done"
      PROVE  counter[p].rounds =
               RoundsOfTasks({"NewDriver", "Poseidon2", "Reveal", "Reshare", "IsZeroReveal",
                              "Open"})
  <2>1. at[p] = Len(tasks) /\ round[p] = 1 /\ awaits[p] = <<>>
    BY <1>1, <1>4 DEF OutcomeOf
  <2>2. counter[p].rounds = RoundsBefore(Len(tasks)) + 1
    BY <1>2, <2>1
  <2> QED
    BY <1>1, <2>2, RoundsOfRun
<1> QED
  BY <1>3, <1>4
-----------------------------------------------------------------------------
(* The theorems.                                                           *)

(* What the parties have sent and heard, the pools, the traces and the     *)
(* counters are functions of the parties' positions and of the tasks.      *)
THEOREM Invariance == Spec => []IInv
<1>1. Init => IInv
  BY InitHolds
<1>2. IInv /\ [Next]_vars => IInv'
  BY NextPreserves
<1> QED
  BY <1>1, <1>2, PTL DEF Spec

(* Every party stays within its tasks, and draws no more than its pool     *)
(* holds: the pool sized from the program is enough for its run.           *)
THEOREM TypeCorrect == Spec => []TypeOK
<1>1. IInv => TypeOK
  BY TypeHolds
<1> QED
  BY <1>1, Invariance, PTL

(* Whatever the scheduling, a party receives the message of the exchange   *)
(* it is in, with the same slice of the masks on both sides, although a    *)
(* message does not say what it belongs to.                                *)
THEOREM InLockstep == Spec => []Lockstep
<1>1. IInv => Lockstep
  BY LockstepHolds
<1> QED
  BY <1>1, Invariance, PTL

(* When all have returned, the connection is empty.                        *)
THEOREM LeavesNoResidue == Spec => []NoResidue
<1>1. IInv => NoResidue
  BY NoResidueHolds
<1> QED
  BY <1>1, Invariance, PTL

(* No party runs out of masks, consumes another number of them than the    *)
(* driver claimed, or has masks left over; any other error comes with a    *)
(* mistake of some caller.                                                 *)
THEOREM OnlyCallersErr == Spec => []ErrorsAreTheCallers
<1>1. IInv => ErrorsAreTheCallers
  BY ErrorsHold
<1> QED
  BY <1>1, Invariance, PTL

(* Neither a party whose caller made a mistake, nor the next one, which    *)
(* depends on its last message, returns a result.                          *)
THEOREM MistakesStop == Spec => []MistakesReachTheNext
<1>1. IInv => MistakesReachTheNext
  BY MistakesHold
<1> QED
  BY <1>1, Invariance, PTL

(* The counters read what the documentation claims of the rounds.          *)
THEOREM CountsAsClaimed == Spec => []RoundsAsClaimed
<1>1. IInv => RoundsAsClaimed
  BY RoundsHold
<1> QED
  BY <1>1, Invariance, PTL
=============================================================================
