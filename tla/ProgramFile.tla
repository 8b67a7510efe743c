---------------------------- MODULE ProgramFile ----------------------------
(***************************************************************************)
(* Programs written one after the other to a medium and read back under    *)
(* limits (serialize.rs), then given their inputs by name (inputs.rs). The *)
(* writer may stop half-way; the medium may alter a byte or hold more than *)
(* the programs. The reader trusts neither counts nor tags.                *)
(***************************************************************************)
EXTENDS ProgramFormat

CONSTANTS
  Streams,        \* sequences of programs, written to one file each
  LimitChoices,   \* records [bytes, allocation, entries] of a caller
  DefaultLimits,
  SpoiledUnder,   \* the limits under which a spoiled file is read, a bound
  NamedInputs     \* functions from names to sequences of values

VARIABLES
  sent, file,
  medium,         \* what became of the file: whole, cut, altered or extended
  limits, exact,  \* the caller's limits; whether nothing may follow
  loaded,         \* the programs read so far
  start,          \* where the one being read starts
  part,           \* the part of it that is read next
  r,              \* the reader: [at, fields, failed]
  status,
  named, answer   \* the inputs supplied by name, and what came of them

vars == <<sent, file, medium, limits, exact, loaded, start, part, r, status, named, answer>>

Tables == <<"instructions", "constants", "input_domains", "inputs", "input_signals", "rounds",
            "round_operands", "round_results", "gadget_batches", "witness_sources">>

(* The size of an entry in memory, in bytes, as the limit counts it.       *)
EntrySize(table) ==
  CASE table \in {"input_domains", "name"}                         -> 1
    [] table \in {"round_operands", "round_results", "requests", "offsets"} -> 4
    [] table \in {"input_signals", "inputs_of_sites", "targets", "witness_sources"} -> 8
    [] table \in {"inputs", "rounds"}                              -> 12
    [] table = "instructions"                                      -> 16
    [] table = "constants"                                         -> 32
    [] table = "gadget_batches"                                    -> 120

Fresh(at) == [at |-> at, fields |-> <<>>, failed |-> FALSE]

(* F of the value of x, which TLC evaluates once.                          *)
Of(F(_), x) == CHOOSE y \in {F(v) : v \in {x}} : TRUE

(* F done n times, starting from x.                                        *)
Times(F(_), n, x) == FoldLeft(LAMBDA acc, j : Of(F, acc), x, [j \in 1 .. n |-> j])
-----------------------------------------------------------------------------
(* Reading a field.                                                        *)

FieldWidth(kind) ==
  CASE kind \in {"u32", "width"}    -> Narrow
    [] kind \in {"count", "size", "sites"} -> Wide
    [] kind = "padding"             -> Padding
    [] OTHER                        -> 1

NumberAt(at, width) ==
  MapThenSumSet(LAMBDA j : file[at + j] * Base ^ (j - 1), 1 .. width)

(* Mutant: the padding is skipped.                                         *)
Accepts_AnyPadding(kind, n) ==
  CASE kind = "opcode"     -> n < Len(Opcodes)
    [] kind = "bank"       -> n \in Domain3
    [] kind = "held bank"  -> n \in Domain3 \ {Local}
    [] kind = "element"    -> n < P
    [] kind = "width"      -> n \in SupportedWidths
    [] kind = "letter"     -> n < Base \div 2
    [] kind = "size"       -> n <= limits.entries
    [] kind = "sites"      -> n <= limits.entries /\ n > 0
    [] kind = "batch tag"  -> n <= 2
    [] kind = "gadget tag" -> n \in {0, 1, 2, 3, 5}
    [] kind = "source tag" -> n <= 3
    [] OTHER               -> TRUE

(* A letter above half the base needs more bytes to be one.                *)
Accepts(kind, n) ==
  CASE kind = "padding"    -> n = 0
    [] kind = "opcode"     -> n < Len(Opcodes)
    [] kind = "bank"       -> n \in Domain3
    [] kind = "held bank"  -> n \in Domain3 \ {Local}
    [] kind = "element"    -> n < P
    [] kind = "width"      -> n \in SupportedWidths
    [] kind = "letter"     -> n < Base \div 2
    [] kind = "size"       -> n <= limits.entries
    [] kind = "sites"      -> n <= limits.entries /\ n > 0
    [] kind = "batch tag"  -> n <= 2
    [] kind = "gadget tag" -> n \in {0, 1, 2, 3, 5}
    [] kind = "source tag" -> n <= 3
    [] OTHER               -> TRUE

(* Mutant: not a byte more than the limit is let through.                  *)
Allowance_Exact == limits.bytes

(* One byte more than the limit, so that reading past it can be noticed.   *)
Allowance == limits.bytes + 1

Available == Min({Len(file), start + Allowance})

Failed(rd) == [rd EXCEPT !.failed = TRUE]

(* The bytes of the first n fields of a shape.                             *)
WidthOf(shape, n) == MapThenSumSet(LAMBDA j : FieldWidth(shape[j]), 1 .. n)

FieldsAt(at, shape) ==
  [j \in DOMAIN shape |-> NumberAt(at + WidthOf(shape, j - 1), FieldWidth(shape[j]))]

(* Once something failed, nothing more is read.                            *)
Take(rd, shape) ==
  IF \/ rd.failed
     \/ rd.at + WidthOf(shape, Len(shape)) > Available
     \/ \E j \in DOMAIN shape : ~Accepts(shape[j], FieldsAt(rd.at, shape)[j])
  THEN Failed(rd)
  ELSE [rd EXCEPT !.at = @ + WidthOf(shape, Len(shape)),
                  !.fields = @ \o FieldsAt(rd.at, shape)]

(* The byte that decides how an entry goes on.                             *)
Tag(rd, ahead) == IF rd.at + ahead < Available THEN file[rd.at + ahead + 1] ELSE 0

-----------------------------------------------------------------------------
(* Reading an entry.                                                       *)

SourceShape(tag) ==
  <<"source tag">> \o (CASE tag = 1 -> <<"u32">>
                         [] tag = 2 -> <<"held bank", "u32">>
                         [] OTHER   -> <<>>)

KindShape(tag, gadget) ==
  <<"batch tag">> \o
    (CASE tag = 0 -> <<"gadget tag">> \o (CASE gadget = 0        -> <<"width">>
                                            [] gadget \in {1, 5} -> <<"u32">>
                                            [] OTHER             -> <<>>)
       [] tag = 2 -> <<"width">>
       [] OTHER   -> <<>>)

Shape(table, rd) ==
  CASE table = "instructions"    -> <<"opcode", "padding", "u32", "u32", "u32">>
    [] table = "constants"       -> <<"element">>
    [] table = "input_domains"   -> <<"bank">>
    [] table = "inputs"          -> <<"bank", "u32", "u32">>
    [] table = "rounds"          -> <<"u32", "u32", "u32">>
    [] table = "name"            -> <<"letter">>
    [] table = "witness_sources" -> SourceShape(Tag(rd, 0))
    [] table \in {"inputs_of_sites", "targets"} -> <<"held bank", "u32">>
    [] OTHER                     -> <<"u32">>

(* A round or a batch is named by a; what stands in dst and b is ignored.  *)
InstructionOf(op, dst, a, b) ==
  IF op \in TableOps THEN Instruction(op, 0, a, 0) ELSE Instruction(op, dst, a, b)

KindOf(f) ==
  CASE f[1] = 1 -> Kind("IsZeroReveal", 0)
    [] f[1] = 2 -> Kind("PrecomputedPoseidon2", f[2])
    [] f[1] = 0 -> CASE f[2] = 0 -> Kind("Poseidon2", f[3])
                     [] f[2] = 1 -> Kind("Num2Bits", f[3])
                     [] f[2] = 2 -> Kind("IsZero", 0)
                     [] f[2] = 3 -> Kind("AliasCheck", 0)
                     [] f[2] = 5 -> Kind("Reveal", f[3])

EntryOf(table, f) ==
  CASE table = "instructions" -> InstructionOf(Opcodes[f[1] + 1], f[3], f[4], f[5])
    [] table = "inputs"       -> [bank |-> f[1], slot |-> f[2], input_index |-> f[3]]
    [] table = "rounds"       -> [operand_start |-> f[1], len |-> f[2], result_start |-> f[3]]
    [] table \in {"inputs_of_sites", "targets"} -> [bank |-> f[1], slot |-> f[2]]
    [] table = "witness_sources" ->
         (CASE f[1] = 0 -> [src |-> "One"]
            [] f[1] = 1 -> [src |-> "Input", input |-> f[2]]
            [] f[1] = 2 -> [src |-> "Slot", bank |-> f[2], slot |-> f[3]]
            [] f[1] = 3 -> [src |-> "Zero"])
    [] OTHER -> f[1]

(* What was read takes the place of the fields it was read from.           *)
Entered(rd, before, entry) ==
  IF rd.failed THEN rd ELSE [rd EXCEPT !.fields = Append(before, entry)]

Empty(rd) == [rd EXCEPT !.fields = <<>>]

ReadEntry(table, rd) ==
  Of(LAMBDA read : IF read.failed THEN read
                   ELSE Entered(read, rd.fields, EntryOf(table, read.fields)),
     Take(Empty(rd), Shape(table, rd)))
-----------------------------------------------------------------------------
(* Reading a table.                                                        *)

CheckedCount(table, count) ==
  /\ count <= limits.entries
  /\ count * EntrySize(table) <= limits.allocation

(* The count is bounded before anything is allocated for the table.        *)
Counted(table, rd) ==
  Of(LAMBDA read : IF read.failed \/ ~CheckedCount(table, read.fields[1]) THEN Failed(read)
                   ELSE read,
     Take(Empty(rd), <<"count">>))

CountOf(counted) == IF counted.failed THEN 0 ELSE counted.fields[1]

ReadTable(table, rd) ==
  Of(LAMBDA counted :
       Of(LAMBDA read : Entered(read, rd.fields, read.fields),
          Times(LAMBDA acc : ReadEntry(table, acc), CountOf(counted), Empty(counted))),
     Counted(table, rd))

ReadSignal(rd) ==
  Of(LAMBDA read : IF read.failed THEN read
                   ELSE Entered(read, rd.fields,
                                [name |-> read.fields[1], offset |-> read.fields[2],
                                 size |-> read.fields[3]]),
     Take(ReadTable("name", Empty(rd)), <<"size", "size">>))

(* A batch, from the fields read.                                          *)
BatchOf(kind, f) ==
  [kind |-> kind, sites |-> f[1], input_slots |-> f[2], result_requests |-> f[3],
   result_offsets |-> f[4], result_targets |-> f[5]]

(* The number of sites, and the four tables of a batch.                    *)
ReadBody(rd) ==
  FoldLeft(LAMBDA acc, table : Of(LAMBDA read : ReadTable(table, read), acc),
           Take(Empty(rd), <<"sites">>), <<"inputs_of_sites", "requests", "offsets", "targets">>)

ReadBatch(rd) ==
  Of(LAMBDA head :
       Of(LAMBDA body : IF body.failed THEN body
                        ELSE IF ~ValidOffsets(BatchOf(Kind("", 0), body.fields)) THEN Failed(body)
                        ELSE Entered(body, rd.fields, BatchOf(KindOf(head.fields), body.fields)),
          ReadBody(head)),
     Take(Empty(rd), KindShape(Tag(rd, 0), Tag(rd, 1))))

ReadNested(table, rd) ==
  Of(LAMBDA counted :
       Of(LAMBDA read : Entered(read, rd.fields, read.fields),
          Times(LAMBDA acc : IF table = "gadget_batches" THEN ReadBatch(acc) ELSE ReadSignal(acc),
                CountOf(counted), Empty(counted))),
     Counted(table, rd))
-----------------------------------------------------------------------------
(* The inputs by name.                                                     *)

Unset == <<>>

(* Mutant: values are placed from the first input on.                      *)
Scatter_NoOffset(prog, flat, signal) ==
  [n \in DOMAIN flat |->
     IF n \in 1 .. signal.size THEN <<named[signal.name][n]>> ELSE flat[n]]

(* The values of a signal, at its offset.                                  *)
Scatter(prog, flat, signal) ==
  [n \in DOMAIN flat |->
     IF n - signal.offset \in 1 .. signal.size THEN <<named[signal.name][n - signal.offset]>>
     ELSE flat[n]]

Supplied(signal) ==
  signal.name \in DOMAIN named /\ Len(named[signal.name]) = signal.size

NamesOf(prog) == {signal.name : signal \in ToSet(prog.input_signals)}

(* flatten_named: an error, a panic at an input no signal covers, or the   *)
(* values in the order of the circuit's inputs.                            *)
Flatten(prog) ==
  LET flat == FoldLeft(LAMBDA acc, signal : Scatter(prog, acc, signal),
                       [n \in 1 .. prog.num_inputs |-> Unset], prog.input_signals)
  IN  IF \/ \E signal \in ToSet(prog.input_signals) : ~Supplied(signal)
         \/ DOMAIN named \ NamesOf(prog) # {}
      THEN [outcome |-> "error"]
      ELSE IF \E n \in DOMAIN flat : flat[n] = Unset
      THEN [outcome |-> "panic"]
      ELSE [outcome |-> "flat", values |-> [n \in DOMAIN flat |-> flat[n][1]]]
-----------------------------------------------------------------------------
(* The state machine.                                                      *)

NoAnswer == [outcome |-> "none"]

Init ==
  /\ sent \in Streams
  /\ file = <<>>
  /\ medium = "whole"
  /\ limits \in LimitChoices \cup {DefaultLimits}
  /\ exact \in BOOLEAN
  /\ exact => limits = DefaultLimits /\ Len(sent) = 1
  /\ loaded = <<>>
  /\ start = 0
  /\ part = 0
  /\ r = Fresh(0)
  /\ status = "writing"
  /\ named = <<>>
  /\ answer = NoAnswer

(* The programs are written; or the writer fails, or dies, on its way.     *)
Write ==
  /\ status = "writing" /\ file = <<>>
  /\ \E bytes \in {FlattenSeq([j \in DOMAIN sent |-> Written(sent[j])])} :
       \/ file' = bytes /\ medium' = "whole"
       \/ \E n \in 0 .. (Len(bytes) - 1) : file' = SubSeq(bytes, 1, n) /\ medium' = "cut"
  /\ status' = "written"
  /\ UNCHANGED <<sent, limits, exact, loaded, start, part, r, named, answer>>

(* One byte is not what was written, or one more follows.                  *)
Spoil ==
  /\ status = "written" /\ medium = "whole" /\ limits \in SpoiledUnder
  /\ \/ /\ medium' = "altered"
        /\ \E n \in DOMAIN file, byte \in 0 .. (Base - 1) :
             byte # file[n] /\ file' = [file EXCEPT ![n] = byte]
     \/ /\ medium' = "extended"
        /\ file' = Append(file, 0)
  /\ UNCHANGED <<sent, limits, exact, loaded, start, part, r, status, named, answer>>

(* A part is read; what could not be read ends the whole.                  *)
Read(rd) ==
  /\ r' = rd
  /\ part' = part + 1
  /\ status' = IF rd.failed THEN "refused" ELSE "reading"
  /\ UNCHANGED <<sent, file, medium, limits, exact, loaded, start, named, answer>>

ReadHeader ==
  /\ status \in {"written", "reading"} /\ part = 0
  /\ LET end == start + Len(Header)
     IN  \E whole \in {end <= Available} :
           IF whole /\ SubSeq(file, start + 1, end) = Header
           THEN Read([r EXCEPT !.at = end])
           ELSE Read(Failed(r))

ReadTables ==
  /\ status = "reading" /\ part \in DOMAIN Tables
  /\ \E table \in {Tables[part]} :
       \E rd \in {IF table \in {"input_signals", "gadget_batches"}
                  THEN ReadNested(table, r) ELSE ReadTable(table, r)} :
         Read(rd)

ReadCounts ==
  /\ status = "reading" /\ part = Len(Tables) + 1
  /\ \E rd \in {Take(r, <<"size", "u32", "u32", "u32", "u32">>)} : Read(rd)

(* The program whose parts were read.                                      *)
ProgramRead ==
  LET f == r.fields
  IN  [instructions |-> f[1], constants |-> f[2], input_domains |-> f[3], inputs |-> f[4],
       input_signals |-> f[5], rounds |-> f[6], round_operands |-> f[7], round_results |-> f[8],
       gadget_batches |-> f[9], witness_sources |-> f[10], num_inputs |-> f[11],
       slots |-> [bank \in Domain3 |-> f[12 + bank]], num_public_witness |-> f[15]]

(* Program::new looks at the whole; then the limit, and for read_exact the *)
(* end of the file. The next program is read from where this one ends.     *)
Accept ==
  /\ status = "reading" /\ part = Len(Tables) + 2
  /\ \E prog \in {ProgramRead} :
       IF /\ ValidEncoding(prog)
          /\ r.at - start < Allowance
          /\ exact => r.at = Len(file)
       THEN /\ loaded' = Append(loaded, prog)
            /\ start' = r.at
            /\ part' = 0
            /\ r' = Fresh(r.at)
            /\ status' = IF Len(loaded) + 1 = Len(sent) THEN "loaded" ELSE "reading"
       ELSE status' = "refused" /\ UNCHANGED <<loaded, start, part, r>>
  /\ UNCHANGED <<sent, file, medium, limits, exact, named, answer>>

(* The last program loaded is given its inputs.                            *)
Supply ==
  /\ status = "loaded"
  /\ named' \in NamedInputs
  /\ status' = "supplied"
  /\ UNCHANGED <<sent, file, medium, limits, exact, loaded, start, part, r, answer>>

Place ==
  /\ status = "supplied"
  /\ answer' = Flatten(Last(loaded))
  /\ status' = "answered"
  /\ UNCHANGED <<sent, file, medium, limits, exact, loaded, start, part, r, named>>

Finished == status \in {"refused", "answered"} /\ UNCHANGED vars

Next == Write \/ Spoil \/ ReadHeader \/ ReadTables \/ ReadCounts \/ Accept \/ Supply \/ Place
        \/ Finished

Spec == Init /\ [][Next]_vars
-----------------------------------------------------------------------------
(* Properties.                                                             *)

(* Every number a count or a limit is compared with when it is read back.  *)
CountsOf(prog) ==
  LET batches == ToSet(prog.gadget_batches)
      signals == ToSet(prog.input_signals)
  IN  {<<table, Len(prog[table])>> : table \in ToSet(Tables)}
      \cup {<<"name", Len(signal.name)>> : signal \in signals}
      \cup {<<"inputs_of_sites", Len(batch.input_slots)>> : batch \in batches}
      \cup {<<"requests", Len(batch.result_requests)>> : batch \in batches}
      \cup {<<"offsets", Len(batch.result_offsets)>> : batch \in batches}
      \cup {<<"targets", Len(batch.result_targets)>> : batch \in batches}

Fits(prog) ==
  /\ Len(Written(prog)) <= limits.bytes
  /\ prog.num_inputs <= limits.entries
  /\ \A batch \in ToSet(prog.gadget_batches) : batch.sites <= limits.entries
  /\ \A c \in CountsOf(prog) :
       c[2] <= limits.entries /\ c[2] * EntrySize(c[1]) <= limits.allocation

(* A file that is as it was written gives back its programs, one by one    *)
(* and in order, as many as are there in full; a program is refused only   *)
(* when it exceeds a limit, by one byte or one entry even, or when more    *)
(* follows it than may.                                                    *)
ReadsWhatWasWritten ==
  medium # "altered" =>
    /\ loaded = SubSeq(sent, 1, Len(loaded))
    /\ \A prog \in ToSet(loaded) : Fits(prog)
    /\ medium = "cut" => Len(loaded) < Len(sent)
    /\ status = "refused" =>
         \E next \in {sent[Len(loaded) + 1]} :
           \/ start + Len(Written(next)) > Len(file)
           \/ medium = "extended" /\ exact
           \/ ~Fits(next)

(* The bytes of an instruction that names a round or a batch which no one  *)
(* reads.                                                                  *)
UnusedIn(prog) ==
  LET first(n) == Len(Header) + Wide + (n - 1) * (1 + Padding + 3 * Narrow) + 1 + Padding
  IN  UNION {(first(n) + 1 .. first(n) + Narrow)
             \cup (first(n) + 2 * Narrow + 1 .. first(n) + 3 * Narrow) :
               n \in {m \in DOMAIN prog.instructions : prog.instructions[m].op \in TableOps}}

(* Whatever happened to the file, a program that loads is the one its      *)
(* bytes stand for: written again it gives the same bytes, but for those   *)
(* two operands. No tag, count, pad or field is read as another's.         *)
LoadedIsWhatIsThere ==
  status \in {"loaded", "reading"} /\ part = 0 /\ loaded # <<>> =>
    LET bytes == Written(Last(loaded))
        from  == start - Len(bytes)
    IN  /\ from >= 0
        /\ \A n \in DOMAIN bytes \ UnusedIn(Last(loaded)) : file[from + n] = bytes[n]

Covered(prog, signal) == (signal.offset + 1) .. (signal.offset + signal.size)

(* Inputs supplied by name are the positional ones: each signal's values   *)
(* stand where the program says, an error is the caller's, and the panic   *)
(* is met exactly when signals overlap, which no written program's do.     *)
NamedMeansPositional ==
  status = "answered" =>
    \E prog \in {Last(loaded)} :
      LET signals  == ToSet(prog.input_signals)
          disjoint == \A s \in signals : \A t \in signals \ {s} :
                        Covered(prog, s) \cap Covered(prog, t) = {}
          right    == /\ DOMAIN named = {s.name : s \in signals}
                      /\ \A s \in signals : Len(named[s.name]) = s.size
      IN  /\ answer.outcome = "error" <=> ~right
          /\ answer.outcome = "panic" <=> right /\ ~disjoint
          /\ answer.outcome = "panic" => medium = "altered"
          /\ answer.outcome = "flat" =>
               \A s \in signals : \A n \in 1 .. s.size :
                 answer.values[s.offset + n] = named[s.name][n]
=============================================================================
