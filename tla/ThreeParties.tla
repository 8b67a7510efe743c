---------------------------- MODULE ThreeParties ----------------------------
(***************************************************************************)
(* Three parties run one program against each other with the rep3 driver.  *)
(* Each is a thread of its own with its own machine, mask pool and round   *)
(* counter; they share nothing but channels. A session is: the host's      *)
(* permutations computed ahead of the run (Poseidon2Service), then the run *)
(* itself. Values do not matter here: what matters is that each party      *)
(* meets its peers in the same exchange, with the same masks.              *)
(*                                                                         *)
(* The network and the rep3 primitives are external: reshare and open send *)
(* to the next party and receive from the previous one, the opening of a   *)
(* product sends to both and receives from both, sends do not block, and a *)
(* receive from a party that is gone fails.                                *)
(***************************************************************************)
EXTENDS Integers, Sequences, SequencesExt

CONSTANTS
  Programs,       \* sequences of the instructions that concern the driver
  FullRounds,     \* full rounds before, and again after, the partial ones
  PartialRounds,  \* per width, the number of partial rounds
  Mistakes        \* what a caller may get wrong, with "none"

(* What concerns the driver in a program: the widths are those the         *)
(* permutation is parameterised for, a batch has any number of sites.      *)
InstructionSet ==
  [kind : {"Reshare", "IsZeroReveal"}]
    \cup [kind : {"Reveal"}, shared : BOOLEAN]
    \cup [kind : {"Poseidon2"}, t : DOMAIN PartialRounds, sites : Nat, shared : BOOLEAN]
    \cup [kind : {"Precomputed"}, t : DOMAIN PartialRounds, sites : Nat]

ASSUME RoundsAssumption ==
  /\ FullRounds \in Nat
  /\ DOMAIN PartialRounds \subseteq Nat
  /\ PartialRounds \in [DOMAIN PartialRounds -> Nat]

ASSUME ProgramsAssumption == Programs \subseteq Seq(InstructionSet)

ASSUME MistakesAssumption ==
  Mistakes \subseteq {"none", "wrong kind", "trace missing", "trace too many"}

VARIABLES
  program,   \* the program all three run
  tasks,     \* what each party does for it, in order
  mistake,   \* per party, what its caller gets wrong
  at,        \* per party, the task it is at
  round,     \* per party, the exchanges it has completed in that task
  awaits,    \* per party, the peers it still has to hear from in this exchange
  channel,   \* channel[p][q]: sent by p, not yet received by q
  pool,      \* per party, its mask pool
  traces,    \* per party, the host's batches of traces not consumed yet
  counter,   \* per party, its CountingNet
  status     \* per party, "running", "done", or the error it ended with

vars == <<program, tasks, mistake, at, round, awaits, channel, pool, traces, counter, status>>

Parties == 0 .. 2
Next3(p) == (p + 1) % 3
Prev(p)  == (p + 2) % 3
-----------------------------------------------------------------------------
(* Masks and exchanges.                                                    *)

MaskElements(t, sites) == sites * (t * 2 * FullRounds + PartialRounds[t])

(* Mutant: public permutations are budgeted too.                           *)
Budgeted_All(ins) == ins.kind = "Poseidon2"

(* What the driver serves itself; the host's batches have another kind.    *)
Budgeted(ins) == ins.kind = "Poseidon2" /\ ins.shared

MaskBudget(prog) ==
  SumFunction([n \in {m \in DOMAIN prog : Budgeted(prog[m])} |->
                 MaskElements(prog[n].t, prog[n].sites)])

Exchange(pattern, masks) == [pattern |-> pattern, masks |-> masks]

(* Squares, fourth powers, then third and fifth powers together.           *)
Preparation(elements) ==
  IF elements = 0 THEN <<>> ELSE [n \in 1 .. 3 |-> Exchange("reshare", 0)]

(* One exchange per s-box layer, all sites of a batch in lock step: a full *)
(* layer covers the state, a partial one its first element.                *)
Walk(t, sites) ==
  [n \in 1 .. (2 * FullRounds + PartialRounds[t]) |->
     Exchange("reshare",
              IF n \in (FullRounds + 1) .. (FullRounds + PartialRounds[t]) THEN sites
              ELSE t * sites)]

Exchanges(task) ==
  CASE task.kind = "NewService"               -> Preparation(MaskElements(task.t, task.sites))
    [] task.kind = "NewDriver"                -> Preparation(MaskBudget(program))
    [] task.kind = "Trace"                    -> Walk(task.t, task.sites)
    [] task.kind = "Poseidon2" /\ task.shared -> Walk(task.t, task.sites)
    [] task.kind = "Reveal" /\ task.shared    -> <<Exchange("reshare", 0)>>
    [] task.kind \in {"Reshare", "Open"}      -> <<Exchange("reshare", 0)>>
    [] task.kind = "IsZeroReveal"             -> <<Exchange("broadcast", 0)>>
    [] OTHER                                  -> <<>>

Addressees(pattern, p) == IF pattern = "broadcast" THEN {Next3(p), Prev(p)} ELSE {Next3(p)}

Sources(pattern, p) == IF pattern = "broadcast" THEN <<Prev(p), Next3(p)>> ELSE <<Prev(p)>>
-----------------------------------------------------------------------------
(* A party's tasks, one after the other.                                   *)

Precomputed(ins) == ins.kind = "Precomputed"

Service(batch) ==
  <<[kind |-> "NewService", t |-> batch.t, sites |-> batch.sites],
    [kind |-> "Trace", t |-> batch.t, sites |-> batch.sites],
    [kind |-> "FinishService"]>>

HostTasks(prog) ==
  LET host[n \in 0 .. Len(prog)] ==
        IF n = 0 THEN <<>>
        ELSE IF Precomputed(prog[n]) THEN host[n - 1] \o Service(prog[n])
        ELSE host[n - 1]
  IN  host[Len(prog)]

(* Mutant: the public prefix is opened before the closing checks.          *)
Closing_OpensFirst == <<[kind |-> "Open"], [kind |-> "FinishRun"]>>

Closing == <<[kind |-> "FinishRun"], [kind |-> "Open"]>>

Tasks(prog) ==
  HostTasks(prog)
    \o <<[kind |-> "ResetCounter"], [kind |-> "NewDriver"], [kind |-> "InitializeInputs"]>>
    \o prog \o Closing

Task(p) == tasks[at[p]]

Running(p) == status[p] = "running"

(* The exchange a message belongs to, and the slice of masks it used.      *)
Label(p) == [task |-> at[p], round |-> round[p] + 1, masks |-> pool[p].consumed]

EmptyPool == [size |-> 0, consumed |-> 0, before |-> 0]

Init ==
  /\ program \in Programs
  /\ tasks = Tasks(program)
  /\ mistake \in [Parties -> Mistakes]
  /\ \A p, q \in Parties : mistake[p] = "none" \/ mistake[q] = "none" \/ p = q
  /\ HostTasks(program) = <<>> => \A p \in Parties : mistake[p] # "trace missing"
  /\ at = [p \in Parties |-> 1]
  /\ round = [p \in Parties |-> 0]
  /\ awaits = [p \in Parties |-> <<>>]
  /\ channel = [p \in Parties |-> [q \in Parties |-> <<>>]]
  /\ pool = [p \in Parties |-> EmptyPool]
  /\ traces = [p \in Parties |-> 0]
  /\ counter = [p \in Parties |-> [rounds |-> 0, sent |-> FALSE]]
  /\ status = [p \in Parties |-> "running"]

Fail(p, error) ==
  /\ status' = [status EXCEPT ![p] = error]
  /\ UNCHANGED <<program, tasks, mistake, at, round, awaits, channel, pool, traces, counter>>
-----------------------------------------------------------------------------
(* Exchanges.                                                              *)

Idle(p) == Running(p) /\ awaits[p] = <<>>

Exhausted(p, masks) ==
  LET elements == IF Task(p).kind \in {"Trace", "Poseidon2"} /\ round[p] = 0
                  THEN MaskElements(Task(p).t, Task(p).sites)
                  ELSE masks
  IN  pool[p].consumed + elements > pool[p].size

(* An s-box layer takes its slice of the pool, then opens; every other     *)
(* exchange takes no mask. A service checks at its start that the pool     *)
(* covers all its layers.                                                  *)
Send(p) ==
  /\ Idle(p)
  /\ round[p] < Len(Exchanges(Task(p)))
  /\ LET e == Exchanges(Task(p))[round[p] + 1]
         taken == pool[p].consumed + e.masks
     IN  IF e.masks > 0 /\ Exhausted(p, e.masks) THEN Fail(p, "mask pool exhausted")
         ELSE /\ pool' = [pool EXCEPT ![p] =
                            [size |-> @.size, consumed |-> taken,
                             before |-> IF round[p] = 0 THEN @.consumed ELSE @.before]]
              /\ channel' = [channel EXCEPT ![p] =
                               [q \in Parties |->
                                  IF q \in Addressees(e.pattern, p)
                                  THEN Append(@[q], [Label(p) EXCEPT !.masks = taken])
                                  ELSE @[q]]]
              /\ awaits' = [awaits EXCEPT ![p] = Sources(e.pattern, p)]
              /\ counter' = [counter EXCEPT ![p].sent = TRUE]
              /\ UNCHANGED <<program, tasks, mistake, at, round, traces, status>>

(* Mutant: every message counts.                                           *)
Counted_Every(c) == [c EXCEPT !.rounds = @ + 1]

(* The first receive after a send closes a round.                          *)
Counted(c) == [rounds |-> IF c.sent THEN c.rounds + 1 ELSE c.rounds, sent |-> FALSE]

(* Mutant: a receive takes a message of either peer.                       *)
Receive_AnyPeer(p) ==
  /\ Running(p)
  /\ awaits[p] # <<>>
  /\ \E q \in Parties : channel[q][p] # <<>> /\ channel' = [channel EXCEPT ![q][p] = Tail(@)]
  /\ awaits' = [awaits EXCEPT ![p] = Tail(@)]
  /\ round' = [round EXCEPT ![p] = IF Len(awaits[p]) = 1 THEN @ + 1 ELSE @]
  /\ counter' = [counter EXCEPT ![p] = Counted(@)]
  /\ UNCHANGED <<program, tasks, mistake, at, pool, traces, status>>

Receive(p) ==
  /\ Running(p)
  /\ awaits[p] # <<>>
  /\ LET q == Head(awaits[p])
     IN  /\ channel[q][p] # <<>>
         /\ channel' = [channel EXCEPT ![q][p] = Tail(@)]
  /\ awaits' = [awaits EXCEPT ![p] = Tail(@)]
  /\ round' = [round EXCEPT ![p] = IF Len(awaits[p]) = 1 THEN @ + 1 ELSE @]
  /\ counter' = [counter EXCEPT ![p] = Counted(@)]
  /\ UNCHANGED <<program, tasks, mistake, at, pool, traces, status>>

Gone(q) == ~Running(q)

(* Mutant: a receive waits for a party that is gone.                       *)
ReceiveFails_Waits(p) == FALSE

ReceiveFails(p) ==
  /\ Running(p)
  /\ awaits[p] # <<>>
  /\ Gone(Head(awaits[p])) /\ channel[Head(awaits[p])][p] = <<>>
  /\ Fail(p, "peer gone")

(* Whether the peer's end is already closed is a matter of timing.         *)
SendFails(p) ==
  /\ Idle(p)
  /\ round[p] < Len(Exchanges(Task(p)))
  /\ \E q \in Addressees(Exchanges(Task(p))[round[p] + 1].pattern, p) : Gone(q)
  /\ Fail(p, "peer gone")
-----------------------------------------------------------------------------
(* What a task does once its exchanges are over.                           *)

Completes(p, kinds) ==
  /\ Idle(p)
  /\ Task(p).kind \in kinds
  /\ round[p] = Len(Exchanges(Task(p)))

Advance(p) ==
  /\ at' = [at EXCEPT ![p] = @ + 1]
  /\ round' = [round EXCEPT ![p] = 0]
  /\ UNCHANGED <<program, tasks, mistake, awaits, channel, status>>

(* Poseidon2Service::new and Rep3Driver::new: a fresh pool.                *)
PreparePool(p) ==
  /\ Completes(p, {"NewService", "NewDriver"})
  /\ LET size == IF Task(p).kind = "NewDriver" THEN MaskBudget(program)
                 ELSE MaskElements(Task(p).t, Task(p).sites)
     IN  pool' = [pool EXCEPT ![p] = [EmptyPool EXCEPT !.size = size]]
  /\ Advance(p)
  /\ UNCHANGED <<traces, counter>>

(* A permutation must have consumed its share; the host queues its traces. *)
FinishPermutation(p) ==
  /\ Completes(p, {"Trace", "Poseidon2"})
  /\ IF /\ Exchanges(Task(p)) # <<>>
        /\ pool[p].consumed - pool[p].before # MaskElements(Task(p).t, Task(p).sites)
     THEN Fail(p, "mask consumption mismatch")
     ELSE /\ traces' = [traces EXCEPT ![p] = IF Task(p).kind = "Trace" THEN @ + 1 ELSE @]
          /\ Advance(p)
          /\ UNCHANGED <<pool, counter>>

FinishService(p) ==
  /\ Completes(p, {"FinishService"})
  /\ IF pool[p].consumed # pool[p].size THEN Fail(p, "masks left over")
     ELSE Advance(p) /\ UNCHANGED <<pool, traces, counter>>

(* The host reads and resets the counter, and attaches what it queued.     *)
ResetCounter(p) ==
  /\ Completes(p, {"ResetCounter"})
  /\ counter' = [counter EXCEPT ![p] = [rounds |-> 0, sent |-> FALSE]]
  /\ traces' = [traces EXCEPT ![p] = CASE mistake[p] = "trace missing" /\ @ > 0 -> @ - 1
                                       [] mistake[p] = "trace too many"         -> @ + 1
                                       [] OTHER                                 -> @]
  /\ Advance(p)
  /\ UNCHANGED pool

InitializeInputs(p) ==
  /\ Completes(p, {"InitializeInputs"})
  /\ IF mistake[p] = "wrong kind" THEN Fail(p, "wrong input kind")
     ELSE Advance(p) /\ UNCHANGED <<pool, traces, counter>>

(* Reshares, opens and all-public batches leave nothing but values.        *)
FinishInstruction(p) ==
  /\ Completes(p, {"Reshare", "Reveal", "IsZeroReveal"})
  /\ Advance(p)
  /\ UNCHANGED <<pool, traces, counter>>

(* Mutant: a missing trace is not noticed.                                 *)
RunPrecomputed_Unchecked(p) ==
  /\ Completes(p, {"Precomputed"})
  /\ traces' = [traces EXCEPT ![p] = @ - 1]
  /\ Advance(p)
  /\ UNCHANGED <<pool, counter>>

RunPrecomputed(p) ==
  /\ Completes(p, {"Precomputed"})
  /\ IF traces[p] = 0 THEN Fail(p, "missing trace")
     ELSE /\ traces' = [traces EXCEPT ![p] = @ - 1]
          /\ Advance(p)
          /\ UNCHANGED <<pool, counter>>

(* No trace and no mask may be left.                                       *)
FinishRun(p) ==
  /\ Completes(p, {"FinishRun"})
  /\ IF traces[p] # 0 THEN Fail(p, "traces left over")
     ELSE IF pool[p].consumed # pool[p].size THEN Fail(p, "masks left over")
     ELSE Advance(p) /\ UNCHANGED <<pool, traces, counter>>

(* Mutant: a party returns once it has sent its part of the opening.       *)
OpenPublicPrefix_SendsOnly(p) ==
  /\ Running(p)
  /\ Task(p).kind = "Open"
  /\ round[p] = 1 \/ awaits[p] # <<>>
  /\ status' = [status EXCEPT ![p] = "done"]
  /\ UNCHANGED <<program, tasks, mistake, at, round, awaits, channel, pool, traces, counter>>

OpenPublicPrefix(p) ==
  /\ Completes(p, {"Open"})
  /\ status' = [status EXCEPT ![p] = "done"]
  /\ UNCHANGED <<program, tasks, mistake, at, round, awaits, channel, pool, traces, counter>>

Step(p) ==
  \/ Send(p) \/ SendFails(p) \/ Receive(p) \/ ReceiveFails(p)
  \/ PreparePool(p) \/ FinishPermutation(p) \/ FinishService(p) \/ ResetCounter(p)
  \/ InitializeInputs(p) \/ FinishInstruction(p) \/ RunPrecomputed(p)
  \/ FinishRun(p) \/ OpenPublicPrefix(p)

(* Everyone has returned, or blocks in a receive nothing will answer.      *)
Blocked(p) == awaits[p] # <<>> /\ channel[Head(awaits[p])][p] = <<>>

Finished == (\A p \in Parties : Gone(p) \/ Blocked(p)) /\ UNCHANGED vars

Next == Finished \/ \E p \in Parties : Step(p)

(* Each party is a thread that the scheduler runs while it can take a step.*)
Spec == Init /\ [][Next]_vars /\ \A p \in Parties : WF_vars(Step(p))
-----------------------------------------------------------------------------
(* Properties.                                                             *)

CallerErrors == {"wrong input kind", "missing trace", "traces left over"}

(* Each party stays within its tasks, counts its traces and its masks      *)
(* without going below zero or beyond its pool.                            *)
TypeOK ==
  /\ at \in [Parties -> DOMAIN tasks]
  /\ \A p \in Parties : round[p] \in 0 .. Len(Exchanges(Task(p)))
  /\ \A p \in Parties : pool[p].consumed \in 0 .. pool[p].size
  /\ traces \in [Parties -> Nat]
  /\ status \in [Parties -> {"running", "done", "peer gone", "mask pool exhausted",
                             "mask consumption mismatch", "masks left over"} \cup CallerErrors]

(* A party that receives finds the message of the exchange it is in, with  *)
(* the same slice of masks on both sides, however far its peers have run   *)
(* ahead: nothing in a message says which operation it belongs to.         *)
Lockstep ==
  \A p \in Parties : \A q \in ToSet(awaits[p]) :
    Running(p) /\ channel[q][p] # <<>> => Head(channel[q][p]) = Label(p)

(* The connection outlives the session (Rep3Driver borrows it): when all   *)
(* parties have returned, no message is left for the next session to read. *)
NoResidue ==
  (\A p \in Parties : status[p] = "done") =>
    \A p, q \in Parties : channel[p][q] = <<>>

(* The mask budget derived from the program is what the run consumes, and  *)
(* nobody loses a peer, unless some caller made a mistake.                 *)
ErrorsAreTheCallers ==
  \A p \in Parties :
    /\ status[p] \in {"running", "done", "peer gone"} \cup CallerErrors
    /\ status[p] \notin {"running", "done"} => \E q \in Parties : mistake[q] # "none"

(* A mistake at one party is never mistaken for success by the party that  *)
(* depends on its last message, although no message reports an error.      *)
MistakesReachTheNext ==
  \A p \in Parties : mistake[p] # "none" => /\ status[p] # "done"
                                           /\ status[Next3(p)] # "done"

(* The rounds each party counts are those the documentation claims: three  *)
(* to prepare a non-empty pool, one per s-box layer, one per reshare, open *)
(* and fused zero test, whoever was ahead.                                 *)
RoundsOfTasks(kinds) ==
  SumFunction([n \in {m \in DOMAIN tasks : tasks[m].kind \in kinds} |->
                 Len(Exchanges(tasks[n]))])

RoundsAsClaimed ==
  \A p \in Parties :
    /\ Task(p).kind = "ResetCounter" =>
         counter[p].rounds = RoundsOfTasks({"NewService", "Trace"})
    /\ status[p] = "done" =>
         counter[p].rounds =
           RoundsOfTasks({"NewDriver", "Poseidon2", "Reveal", "Reshare", "IsZeroReveal", "Open"})

(* Every party returns, with its result or with an error.                  *)
EveryPartyReturns == <>(\A p \in Parties : ~Running(p))
=============================================================================
