--------------------------- MODULE ProgramChecks ---------------------------
(***************************************************************************)
(* What Program::new checks before it lets a program exist (program.rs):   *)
(* the machine relies on every slot and table index and never looks again. *)
(*                                                                         *)
(* A program is a record of flat tables as they are stored: a round is a   *)
(* range of round_operands and one of round_results, a batch's results are *)
(* rows of result_requests and result_targets between two offsets. Indices *)
(* count from 0, as in the file.                                           *)
(***************************************************************************)
EXTENDS CircuitIr, GadgetKinds, FiniteSetsExt

Instruction(op, dst, a, b) == [op |-> op, dst |-> dst, a |-> a, b |-> b]

TableOps == {"Reshare", "Gadget"}

(* The banks of an opcode's destination and operands.                      *)
OperandBanks(op) ==
  CASE op \in {"AddPP", "SubPP", "MulPP"} -> <<Public, Public, Public>>
    [] op \in {"AddSS", "SubSS"}          -> <<Shared, Shared, Shared>>
    [] op \in {"AddSP", "SubSP", "MulSP"} -> <<Shared, Shared, Public>>
    [] op = "SubPS"                       -> <<Shared, Public, Shared>>
    [] op = "MulLocal"                    -> <<Local, Shared, Shared>>

Entry(table, index) == table[index + 1]

CheckSlot(prog, bank, slot) == slot < prog.slots[bank]

CheckLocation(prog, loc) == loc.bank # Local /\ CheckSlot(prog, loc.bank, loc.slot)
-----------------------------------------------------------------------------

SizesOf(signals) == MapThenSumSet(LAMBDA j : signals[j].size, DOMAIN signals)

(* Nothing here keeps two signals from covering the same input, and then   *)
(* leaving another one uncovered.                                          *)
ValidSignals(prog) ==
  /\ SizesOf(prog.input_signals) = prog.num_inputs
  /\ \A signal \in ToSet(prog.input_signals) : signal.offset + signal.size <= prog.num_inputs
  /\ IsInjective([j \in DOMAIN prog.input_signals |-> prog.input_signals[j].name])

ValidInputs(prog) ==
  /\ Len(prog.constants) <= prog.slots[Public]
  /\ Len(prog.input_domains) = prog.num_inputs
  /\ Local \notin ToSet(prog.input_domains)
  /\ \A binding \in ToSet(prog.inputs) :
       /\ binding.input_index < prog.num_inputs
       /\ binding.bank = Entry(prog.input_domains, binding.input_index)
       /\ CheckSlot(prog, binding.bank, binding.slot)
  /\ ValidSignals(prog)

ValidInstruction(prog, instr) ==
  CASE instr.op = "Reshare" -> instr.a < Len(prog.rounds)
    [] instr.op = "Gadget"  -> instr.a < Len(prog.gadget_batches)
    [] OTHER ->
         \E banks \in {OperandBanks(instr.op)} :
           /\ CheckSlot(prog, banks[1], instr.dst)
           /\ CheckSlot(prog, banks[2], instr.a)
           /\ CheckSlot(prog, banks[3], instr.b)

ValidInstructions(prog) == \A instr \in ToSet(prog.instructions) : ValidInstruction(prog, instr)

RoundOperands(prog, round) ==
  SubSeq(prog.round_operands, round.operand_start + 1, round.operand_start + round.len)

RoundResults(prog, round) ==
  SubSeq(prog.round_results, round.result_start + 1, round.result_start + round.len)

ValidRound(prog, round) ==
  /\ round.len > 0
  /\ round.operand_start + round.len <= Len(prog.round_operands)
  /\ round.result_start + round.len <= Len(prog.round_results)
  /\ \A slot \in ToSet(RoundOperands(prog, round)) : CheckSlot(prog, Local, slot)
  /\ \A slot \in ToSet(RoundResults(prog, round)) : CheckSlot(prog, Shared, slot)
-----------------------------------------------------------------------------

BanksOf(locations) == {loc.bank : loc \in ToSet(locations)}

ValidBatchInputs(prog, batch) ==
  /\ batch.sites > 0
  /\ Len(batch.input_slots) = batch.sites * InputsPerSite(batch.kind)
  /\ \A input \in ToSet(batch.input_slots) : CheckLocation(prog, input)
  /\ batch.kind.tag = "IsZeroReveal" => BanksOf(batch.input_slots) = {Shared}
  /\ batch.kind.tag = "PrecomputedPoseidon2" => Shared \in BanksOf(batch.input_slots)

(* One row per site, together all the requests, each with its target.      *)
ValidOffsets(batch) ==
  /\ Len(batch.result_offsets) = batch.sites + 1
  /\ Head(batch.result_offsets) = 0
  /\ Last(batch.result_offsets) = Len(batch.result_requests)
  /\ \A site \in 1 .. batch.sites : batch.result_offsets[site] <= batch.result_offsets[site + 1]
  /\ Len(batch.result_targets) = Len(batch.result_requests)

RowOf(batch, site) == (batch.result_offsets[site] + 1) .. batch.result_offsets[site + 1]

(* Where a result of the batch belongs; a fused zero test's third is open. *)
ResultBankOf(batch, request) ==
  CASE batch.kind.tag = "Reveal"               -> Public
    [] batch.kind.tag = "IsZeroReveal"         -> IF request = 2 THEN Public ELSE Shared
    [] batch.kind.tag = "PrecomputedPoseidon2" -> Shared
    [] OTHER -> IF Shared \in BanksOf(batch.input_slots) THEN Shared ELSE Public

ValidBatchResults(prog, batch) ==
  \A site \in 1 .. batch.sites : \A n \in RowOf(batch, site) :
    /\ n + 1 \in RowOf(batch, site) => batch.result_requests[n] < batch.result_requests[n + 1]
    /\ batch.result_requests[n] < ExpectedResults(batch.kind)
    /\ batch.result_targets[n].bank = ResultBankOf(batch, batch.result_requests[n])
    /\ CheckLocation(prog, batch.result_targets[n])

ValidBatch(prog, batch) ==
  ValidBatchInputs(prog, batch) /\ ValidOffsets(batch) /\ ValidBatchResults(prog, batch)
-----------------------------------------------------------------------------

ValidSource(prog, source) ==
  CASE source.src \in {"One", "Zero"} -> TRUE
    [] source.src = "Input"           -> source.input < prog.num_inputs
    [] source.src = "Slot"            -> CheckLocation(prog, source)

ValidWitness(prog) ==
  /\ prog.witness_sources # <<>>
  /\ {p \in DOMAIN prog.witness_sources : prog.witness_sources[p].src = "One"} = {1}
  /\ prog.num_public_witness \in 1 .. Len(prog.witness_sources)
  /\ \A source \in ToSet(prog.witness_sources) : ValidSource(prog, source)

ValidEncoding(prog) ==
  /\ ValidInputs(prog)
  /\ ValidInstructions(prog)
  /\ \A round \in ToSet(prog.rounds) : ValidRound(prog, round)
  /\ \A batch \in ToSet(prog.gadget_batches) : ValidBatch(prog, batch)
  /\ ValidWitness(prog)
=============================================================================
