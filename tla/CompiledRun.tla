---------------------------- MODULE CompiledRun ----------------------------
(***************************************************************************)
(* A circuit compiled and run: the passes produce a lowered graph, code    *)
(* generation a program, which Program::new must accept, a host the        *)
(* precomputed traces, and the virtual machine the witness. The caller may *)
(* get the kinds of its inputs or the precomputation wrong.                *)
(***************************************************************************)
EXTENDS Cleanup, Lowering, ProgramAssembly

CONSTANTS
  Sources,        \* the circuits as the frontend hands them over
  InputVectors    \* the values of the input signals

VARIABLES
  source, values,                                          \* the request
  job, pc, i, k, slot, free, next, queue, served, siteIn, rounds, code,
  program, inputs, supplied, ip, bank, pending, status, witness,
  rightly     \* whether the caller supplied what the program asks for

(* The classical passes are left at dead code elimination (O0).            *)
Lowered(c) == Lower(DeadCode(c).graph)

C == INSTANCE Codegen WITH Graphs <- {Lowered(c) : c \in Sources}
M == INSTANCE Vm

compilerVars == <<job, pc, i, k, slot, free, next, queue, served, siteIn, rounds, code>>
machineVars  == <<program, inputs, supplied, ip, bank, pending, status, witness>>
requestVars  == <<source, values>>

vars == <<requestVars, compilerVars, machineVars, rightly>>

NoProgram == [code |-> <<>>]

Init ==
  /\ source \in Sources
  /\ values \in InputVectors
  /\ \E graph \in {Lowered(source)} : C!Begin(graph)
  /\ program = NoProgram
  /\ inputs = <<>>
  /\ supplied = <<>>
  /\ ip = 1
  /\ bank = <<>>
  /\ pending = <<>>
  /\ status = "compiling"
  /\ witness = <<>>
  /\ rightly = TRUE

CompileStep == C!Step /\ UNCHANGED <<requestVars, machineVars, rightly>>

(* The traces a correct host queues, in the order of Program's             *)
(* precomputed_batches: the order of the Gadget instructions.              *)
HostTraces(prog) ==
  LET wanted(c) == c.op = "Gadget" /\ prog.batches[c.batch].precomputed
      known     == Denotation(job.graph, values)
      trace(b)  == [j \in DOMAIN job.plans[b].sites |->
                      known[SiteNode(job.graph, job.plans[b].sites[j])]]
      order     == SelectSeq(prog.code, wanted)
  IN  [j \in DOMAIN order |-> trace(order[j].batch)]

KindOf(graph, signal) == IF SignalDomain(graph, signal) = Public THEN "Public" ELSE "Secret"

(* What the caller supplies: everything right; one kind wrong; one batch   *)
(* of traces missing, or one too many.                                     *)
Supplies(prog) ==
  LET right == [s \in DOMAIN values |-> [kind |-> KindOf(source, s), value |-> values[s]]]
      host  == HostTraces(prog)
      flip(n) == [right EXCEPT ![n.signal].kind = IF @ = "Public" THEN "Secret" ELSE "Public"]
  IN  {[inputs |-> right, traces |-> host, right |-> TRUE],
       [inputs |-> right, traces |-> Append(host, <<>>), right |-> FALSE]}
      \cup {[inputs |-> flip(n), traces |-> host, right |-> FALSE] : n \in prog.inputs}
      \cup {[inputs |-> right, traces |-> t, right |-> FALSE] :
              t \in {x \in {SubSeq(host, 2, Len(host)), Front(host)} : host # <<>>}}

(* Program::new may refuse the tables, and compile calls that its own bug.  *)
Load ==
  /\ pc = "done"
  /\ status = "compiling"
  /\ \E prog \in {C!Program} :
       IF ValidEncoding(Assembled(job.graph, prog))
       THEN /\ program' = prog
            /\ \E supply \in Supplies(prog) :
                 inputs' = supply.inputs /\ supplied' = supply.traces /\ rightly' = supply.right
            /\ status' = "idle"
       ELSE /\ status' = "malformed program"
            /\ UNCHANGED <<program, inputs, supplied, rightly>>
  /\ UNCHANGED <<requestVars, compilerVars, ip, bank, pending, witness>>

RunStep == M!Step /\ UNCHANGED <<requestVars, compilerVars, rightly>>

Ended == status \notin {"compiling", "idle", "running"}

Finished == Ended /\ UNCHANGED vars

Next == CompileStep \/ Load \/ RunStep \/ Finished

Spec == Init /\ [][Next]_vars
-----------------------------------------------------------------------------
(* Properties.                                                             *)

CallerErrors == {"wrong input kind", "missing trace", "wrong trace count", "traces left over"}

(* A compiled program runs: once code generation succeeded, no run ends    *)
(* with an error the caller did not cause. compile calls its result        *)
(* runnable via Vm::run, and Program::new calls it valid by construction.  *)
OnlyTheCallerErrs == Ended => status \in {"finished"} \cup CallerErrors

(* The products waiting for a round are always the first of the round      *)
(* that comes next, in the order of its table: a round's products are      *)
(* never mixed with another's, whatever is executed in between.            *)
PendingAwaitsItsRound ==
  status = "running" /\ pending # <<>> =>
    \E c \in ip .. Len(program.code) :
      /\ program.code[c].op = "Reshare"
      /\ \A d \in ip .. (c - 1) : program.code[d].op # "Reshare"
      /\ LET operands == program.rounds[program.code[c].round].operands
         IN  [j \in DOMAIN pending |-> pending[j].dst] = SubSeq(operands, 1, Len(pending))

(* What the caller sees of a run.                                          *)
Reply ==
  CASE ~Ended                    -> <<>>
    [] status \in CallerErrors  -> [refused |-> TRUE]
    [] status = "finished"       -> [witness |-> witness]
    [] OTHER                     -> [failed |-> status]

E == INSTANCE Evaluation WITH circuit <- source, supplyOk <- rightly, answer <- Reply

(* Compiling and running a circuit answers as Evaluation says: the witness *)
(* the circuit denotes, or a refusal of what the caller got wrong. Slots,  *)
(* batches, rounds, reordering and fusion never show.                      *)
Implements == E!Spec
=============================================================================
