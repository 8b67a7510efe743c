--------------------------------- MODULE Vm ---------------------------------
(***************************************************************************)
(* The virtual machine (vm.rs) running one program once with the plain     *)
(* driver, for which a share is its value. Products are delayed: MulLocal  *)
(* only retains its operand values, and the Reshare of the round computes  *)
(* all of them, after comparing their destinations with the round's table. *)
(***************************************************************************)
EXTENDS CircuitIr

VARIABLES
  program,    \* the compiled program
  inputs,     \* per input signal, the caller's [kind, value]
  supplied,   \* the precomputed batches not consumed yet, each one trace per site
  ip,         \* the instruction to execute
  bank,       \* the public and the shared slots
  pending,    \* the products waiting for their round: [lhs, rhs, dst]
  status,     \* "idle", "running", "finished", or the error that ended the run
  witness     \* the result, position by position

vars == <<program, inputs, supplied, ip, bank, pending, status, witness>>

Running == status = "running" /\ ip <= Len(program.code)
instr   == program.code[ip]

Read(loc) == bank[loc.bank][loc.index]

Fail(error) ==
  /\ status' = error
  /\ UNCHANGED <<program, inputs, supplied, ip, bank, pending, witness>>

-----------------------------------------------------------------------------

(* Constants and bound inputs are written, everything else is zero. Only a *)
(* bound input's kind is compared with the bank it is bound to.            *)
InitializeInputs ==
  LET kindOf(b) == IF b = Public THEN "Public" ELSE "Secret"
      initial(b) ==
        [x \in 0 .. (program.slots[b] - 1) |->
           LET consts == {c \in program.constants : c.loc = [bank |-> b, index |-> x]}
               bound  == {n \in program.inputs : n.loc = [bank |-> b, index |-> x]}
           IN  IF consts # {} THEN (CHOOSE c \in consts : TRUE).value
               ELSE IF bound # {} THEN inputs[(CHOOSE n \in bound : TRUE).signal].value
               ELSE 0]
  IN  /\ status = "idle"
      /\ IF \E n \in program.inputs : inputs[n.signal].kind # kindOf(n.loc.bank)
         THEN Fail("wrong input kind")
         ELSE /\ bank' = [b \in {Public, Shared} |-> initial(b)]
              /\ status' = "running"
              /\ UNCHANGED <<program, inputs, supplied, ip, pending, witness>>

ExecuteArith ==
  /\ Running
  /\ instr.op \in ArithOps
  /\ bank' = [bank EXCEPT ![instr.dst.bank][instr.dst.index] =
                ArithValue(instr.op, Read(instr.a), Read(instr.b))]
  /\ ip' = ip + 1
  /\ UNCHANGED <<program, inputs, supplied, pending, status, witness>>

(* Mutant: the products are stacked, not queued.                           *)
ExecuteMulLocal_Stacks ==
  /\ Running
  /\ instr.op = "MulLocal"
  /\ pending' = <<[lhs |-> Read(instr.a), rhs |-> Read(instr.b), dst |-> instr.dst.index]>>
                \o pending
  /\ ip' = ip + 1
  /\ UNCHANGED <<program, inputs, supplied, bank, status, witness>>

ExecuteMulLocal ==
  /\ Running
  /\ instr.op = "MulLocal"
  /\ pending' = Append(pending, [lhs |-> Read(instr.a), rhs |-> Read(instr.b),
                                 dst |-> instr.dst.index])
  /\ ip' = ip + 1
  /\ UNCHANGED <<program, inputs, supplied, bank, status, witness>>

ExecuteReshare ==
  /\ Running
  /\ instr.op = "Reshare"
  /\ LET round == program.rounds[instr.round]
         product(x) ==
           LET j == CHOOSE j \in DOMAIN round.results : round.results[j] = x
           IN  ArithValue("Mul", pending[j].lhs, pending[j].rhs)
     IN  IF [j \in DOMAIN pending |-> pending[j].dst] # round.operands
         THEN Fail("products do not match the round")
         ELSE /\ bank' = [bank EXCEPT ![Shared] =
                            [x \in DOMAIN @ |-> IF x \in ToSet(round.results) THEN product(x)
                                                ELSE @[x]]]
              /\ pending' = <<>>
              /\ ip' = ip + 1
              /\ UNCHANGED <<program, inputs, supplied, status, witness>>

-----------------------------------------------------------------------------
(* Gadget batches. A site is one row of requested results.                 *)

Batch == program.batches[instr.batch]

SiteArgs(j) == [m \in DOMAIN Batch.inputs[j] |-> Read(Batch.inputs[j][m])]

NeedsMpc == \E j \in DOMAIN Batch.inputs : \E loc \in ToSet(Batch.inputs[j]) : loc.bank = Shared

(* The locations a batch writes, each with the value of its row.           *)
Written(value(_, _)) ==
  UNION {{[loc |-> r.target, value |-> value(j, r.logical)] : r \in ToSet(Batch.rows[j])} :
           j \in DOMAIN Batch.rows}

Store(writes) ==
  /\ bank' = [b \in DOMAIN bank |-> [x \in DOMAIN bank[b] |->
                LET here == {w \in writes : w.loc = [bank |-> b, index |-> x]}
                IN  IF here = {} THEN bank[b][x] ELSE (CHOOSE w \in here : TRUE).value]]
  /\ ip' = ip + 1
  /\ UNCHANGED <<program, inputs, pending, status, witness>>

(* An open, and work on public inputs, writes the public bank.             *)
RunBatch ==
  /\ Running
  /\ instr.op = "Gadget"
  /\ ~Batch.fused /\ ~Batch.precomputed
  /\ LET target == IF NeedsMpc /\ Batch.kind \notin Reveals THEN Shared ELSE Public
         writes == Written(LAMBDA j, logical : GadgetValue(Batch.kind, SiteArgs(j), logical))
     IN  IF \E w \in writes : w.loc.bank # target THEN Fail("wrong target bank")
         ELSE Store(writes) /\ UNCHANGED supplied

(* Logical results 0 and 1 are the zero test's, 2 is its opened flag.      *)
RunFusedBatch ==
  /\ Running
  /\ instr.op = "Gadget"
  /\ Batch.fused
  /\ LET writes == Written(LAMBDA j, logical :
                     GadgetValue("IsZero", SiteArgs(j), IF logical = 2 THEN 0 ELSE logical))
         rows   == UNION {ToSet(Batch.rows[j]) : j \in DOMAIN Batch.rows}
     IN  IF \/ \E j \in DOMAIN Batch.inputs : Batch.inputs[j][1].bank # Shared
            \/ \E r \in rows : r.target.bank # (IF r.logical = 2 THEN Public ELSE Shared)
         THEN Fail("wrong target bank")
         ELSE Store(writes) /\ UNCHANGED supplied

(* The host computed the traces ahead of the run; the driver is not asked. *)
(* A trace is given by the arguments the host computed it for.             *)
RunPrecomputedBatch ==
  /\ Running
  /\ instr.op = "Gadget"
  /\ Batch.precomputed
  /\ IF supplied = <<>> THEN Fail("missing trace")
     ELSE IF Len(Head(supplied)) # Len(Batch.inputs) THEN Fail("wrong trace count")
     ELSE /\ supplied' = Tail(supplied)
          /\ Store(Written(LAMBDA j, logical :
                     GadgetValue(Batch.kind, Head(supplied)[j], logical)))

-----------------------------------------------------------------------------

SourceValue(source) ==
  CASE source.src = "One"   -> 1
    [] source.src = "Zero"  -> 0
    [] source.src = "Input" -> inputs[source.signal].value
    [] source.src = "Slot"  -> Read(source.loc)

(* Every product must have met its round and every trace its batch.        *)
FinishWitness ==
  /\ status = "running"
  /\ ip = Len(program.code) + 1
  /\ IF pending # <<>> THEN Fail("products without a round")
     ELSE IF supplied # <<>> THEN Fail("traces left over")
     ELSE /\ witness' = [p \in DOMAIN program.sources |-> SourceValue(program.sources[p])]
          /\ status' = "finished"
          /\ UNCHANGED <<program, inputs, supplied, ip, bank, pending>>

Step ==
  \/ InitializeInputs
  \/ ExecuteArith \/ ExecuteMulLocal \/ ExecuteReshare
  \/ RunBatch \/ RunFusedBatch \/ RunPrecomputedBatch
  \/ FinishWitness
=============================================================================
