-------------------------- MODULE ProgramAssembly --------------------------
(***************************************************************************)
(* The tables compile hands to Program::new (codegen.rs), laid out from    *)
(* the record Codegen assembles: operands become slots of the banks their  *)
(* opcode implies, and rounds and batches become ranges of flat tables.    *)
(***************************************************************************)
EXTENDS ProgramChecks

BankLetter(bank) == CASE bank = Public -> "P" [] bank = Shared -> "S" [] bank = Local -> "L"

OpcodeOf(c) ==
  IF c.op = "MulLocal" THEN c.op ELSE c.op \o BankLetter(c.a.bank) \o BankLetter(c.b.bank)

Encoded(c) ==
  CASE c.op = "Reshare" -> Instruction("Reshare", 0, c.round - 1, 0)
    [] c.op = "Gadget"  -> Instruction("Gadget", 0, c.batch - 1, 0)
    [] OTHER            -> Instruction(OpcodeOf(c), c.dst.index, c.a.index, c.b.index)

Location(loc) == [bank |-> loc.bank, slot |-> loc.index]

LengthsBefore(seqs, n) == MapThenSumSet(LAMBDA j : Len(seqs[j]), 1 .. (n - 1))

RoundEntry(rounds, r) ==
  LET operands == [j \in DOMAIN rounds |-> rounds[j].operands]
      results  == [j \in DOMAIN rounds |-> rounds[j].results]
  IN  [operand_start |-> LengthsBefore(operands, r),
       result_start  |-> LengthsBefore(results, r),
       len           |-> Len(operands[r])]

(* A decomposition of the modelled circuits has this many bits.            *)
Decomposed == 3

TableKind(batch) ==
  CASE batch.fused             -> Kind("IsZeroReveal", 1)
    [] batch.precomputed       -> Kind("PrecomputedPoseidon2", 2)
    [] OTHER -> (CASE batch.kind = "Reveal1"   -> Kind("Reveal", 1)
                   [] batch.kind = "Reveal2"   -> Kind("Reveal", 2)
                   [] batch.kind = "Num2Bits"  -> Kind("Num2Bits", Decomposed)
                   [] batch.kind = "Poseidon2" -> Kind("Poseidon2", 2)
                   [] batch.kind = "IsZero"    -> Kind("IsZero", 1))

BatchTable(batch) ==
  LET requested == FlattenSeq(batch.rows)
  IN  [kind            |-> TableKind(batch),
       sites           |-> Len(batch.inputs),
       input_slots     |-> FlattenSeq([s \in DOMAIN batch.inputs |->
                             [j \in DOMAIN batch.inputs[s] |-> Location(batch.inputs[s][j])]]),
       result_requests |-> [j \in DOMAIN requested |-> requested[j].logical],
       result_offsets  |-> [s \in 1 .. (Len(batch.rows) + 1) |-> LengthsBefore(batch.rows, s)],
       result_targets  |-> [j \in DOMAIN requested |-> Location(requested[j].target)]]

SourceEntry(g, source) ==
  CASE source.src \in {"One", "Zero"} -> source
    [] source.src = "Input" -> [src |-> "Input", input |-> source.signal - g.numOutputs]
    [] source.src = "Slot"  -> [src |-> "Slot", bank |-> source.loc.bank, slot |-> source.loc.index]

(* The constant one, the outputs, and the inputs declared public.          *)
NumPublicWitness(g) == 1 + g.numOutputs + Cardinality(g.public)

(* Every input signal of these circuits is a name of its own.              *)
Assembled(g, prog) ==
  [instructions   |-> [n \in DOMAIN prog.code |-> Encoded(prog.code[n])],
   constants      |-> SetToSeq(prog.constants),
   inputs         |-> SetToSeq({[input_index |-> n.signal - g.numOutputs,
                                 bank |-> n.loc.bank, slot |-> n.loc.index] : n \in prog.inputs}),
   input_domains  |-> [j \in 1 .. g.numInputs |-> SignalDomain(g, g.numOutputs + j - 1)],
   input_signals  |-> [j \in 1 .. g.numInputs |-> [name |-> j, offset |-> j - 1, size |-> 1]],
   num_inputs     |-> g.numInputs,
   rounds         |-> [r \in DOMAIN prog.rounds |-> RoundEntry(prog.rounds, r)],
   round_operands |-> FlattenSeq([r \in DOMAIN prog.rounds |-> prog.rounds[r].operands]),
   round_results  |-> FlattenSeq([r \in DOMAIN prog.rounds |-> prog.rounds[r].results]),
   gadget_batches |-> [b \in DOMAIN prog.batches |-> BatchTable(prog.batches[b])],
   witness_sources |-> [p \in DOMAIN prog.sources |-> SourceEntry(g, prog.sources[p])],
   slots          |-> prog.slots,
   num_public_witness |-> NumPublicWitness(g)]
=============================================================================
