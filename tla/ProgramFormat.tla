--------------------------- MODULE ProgramFormat ---------------------------
(***************************************************************************)
(* How a program is written (serialize.rs): a magic, a version, then table *)
(* after table, each with its length in front. Integers are little-endian. *)
(* A byte is a digit of Base; the code's widths are one, four and eight    *)
(* bytes, and its base is 256. A field element takes one byte here.        *)
(***************************************************************************)
EXTENDS ProgramChecks

CONSTANTS
  Base,           \* the values of a byte
  Narrow, Wide,   \* the bytes of a u32 and of a u64
  Magic,          \* a sequence of bytes
  Version

ASSUME FormatAssumption ==
  /\ Base > 11 /\ P <= Base
  /\ Narrow \in Nat \ {0} /\ Wide >= Narrow

Padding == 3

(* The n-th opcode has the code n - 1, and Public, Shared, Local are the   *)
(* banks' own.                                                             *)
Opcodes == <<"AddPP", "SubPP", "MulPP", "AddSS", "SubSS", "AddSP", "SubSP", "SubPS",
             "MulSP", "MulLocal", "Reshare", "Gadget">>

CodeOf(op) == CHOOSE code \in 0 .. 11 : Opcodes[code + 1] = op

Digits(n, width) == [j \in 1 .. width |-> (n \div Base ^ (j - 1)) % Base]

U32(n) == Digits(n, Narrow)
U64(n) == Digits(n, Wide)

(* The length of a table, and its entries one after the other.             *)
Table(entries) == U64(Len(entries)) \o FlattenSeq(entries)

Indices(table) == Table([j \in DOMAIN table |-> U32(table[j])])

LocationBytes(loc) == <<loc.bank>> \o U32(loc.slot)

Locations(table) == Table([j \in DOMAIN table |-> LocationBytes(table[j])])

(* A round and a batch are named by a; dst and b stay zero.                *)
InstructionBytes(instr) ==
  <<CodeOf(instr.op)>> \o [j \in 1 .. Padding |-> 0]
    \o U32(instr.dst) \o U32(instr.a) \o U32(instr.b)

BindingBytes(binding) == LocationBytes(binding) \o U32(binding.input_index)

(* A name is written like a table of bytes.                                *)
SignalBytes(signal) ==
  U64(Len(signal.name)) \o signal.name \o U64(signal.offset) \o U64(signal.size)

RoundBytes(round) == U32(round.operand_start) \o U32(round.len) \o U32(round.result_start)

KindBytes(kind) ==
  CASE kind.tag = "Poseidon2"            -> <<0, 0>> \o U32(kind.n)
    [] kind.tag = "Num2Bits"             -> <<0, 1>> \o U32(kind.n)
    [] kind.tag = "IsZero"               -> <<0, 2>>
    [] kind.tag = "AliasCheck"           -> <<0, 3>>
    [] kind.tag = "Reveal"               -> <<0, 5>> \o U32(kind.n)
    [] kind.tag = "IsZeroReveal"         -> <<1>>
    [] kind.tag = "PrecomputedPoseidon2" -> <<2>> \o U32(kind.n)

BatchBytes(batch) ==
  KindBytes(batch.kind) \o U64(batch.sites) \o Locations(batch.input_slots)
    \o Indices(batch.result_requests) \o Indices(batch.result_offsets)
    \o Locations(batch.result_targets)

SourceBytes(source) ==
  CASE source.src = "One"   -> <<0>>
    [] source.src = "Input" -> <<1>> \o U32(source.input)
    [] source.src = "Slot"  -> <<2>> \o LocationBytes(source)
    [] source.src = "Zero"  -> <<3>>

Header == Magic \o U32(Version)

Written(prog) ==
  Header
    \o Table([j \in DOMAIN prog.instructions |-> InstructionBytes(prog.instructions[j])])
    \o Table([j \in DOMAIN prog.constants |-> <<prog.constants[j]>>])
    \o Table([j \in DOMAIN prog.input_domains |-> <<prog.input_domains[j]>>])
    \o Table([j \in DOMAIN prog.inputs |-> BindingBytes(prog.inputs[j])])
    \o Table([j \in DOMAIN prog.input_signals |-> SignalBytes(prog.input_signals[j])])
    \o Table([j \in DOMAIN prog.rounds |-> RoundBytes(prog.rounds[j])])
    \o Indices(prog.round_operands) \o Indices(prog.round_results)
    \o Table([j \in DOMAIN prog.gadget_batches |-> BatchBytes(prog.gadget_batches[j])])
    \o Table([j \in DOMAIN prog.witness_sources |-> SourceBytes(prog.witness_sources[j])])
    \o U64(prog.num_inputs)
    \o U32(prog.slots[Public]) \o U32(prog.slots[Shared]) \o U32(prog.slots[Local])
    \o U32(prog.num_public_witness)
=============================================================================
