--------------------------- MODULE MCProgramFile ---------------------------
(***************************************************************************)
(* Two programs: one with a product, its round and two input signals, one  *)
(* with an opened zero test, an opened secret and a decomposition. A byte  *)
(* has sixteen values, a u32 one byte and a u64 two.                       *)
(***************************************************************************)
EXTENDS ProgramFile

At(bank, slot) == [bank |-> bank, slot |-> slot]

Signal(name, offset, size) == [name |-> name, offset |-> offset, size |-> size]

Binding(bank, slot, n) == [bank |-> bank, slot |-> slot, input_index |-> n]

ASlot(bank, slot) == [src |-> "Slot", bank |-> bank, slot |-> slot]

Product ==
  [instructions |-> <<Instruction("AddSP", 0, 0, 1), Instruction("MulLocal", 0, 0, 1),
                      Instruction("Reshare", 0, 0, 0)>>,
   constants |-> <<2>>,
   input_domains |-> <<Shared, Shared, Public>>,
   inputs |-> <<Binding(Shared, 0, 0), Binding(Shared, 1, 1), Binding(Public, 1, 2)>>,
   input_signals |-> <<Signal(<<1>>, 1, 2), Signal(<<2>>, 0, 1)>>,
   rounds |-> <<[operand_start |-> 0, len |-> 1, result_start |-> 0]>>,
   round_operands |-> <<0>>,
   round_results |-> <<2>>,
   gadget_batches |-> <<>>,
   witness_sources |-> <<[src |-> "One"], ASlot(Shared, 2), [src |-> "Input", input |-> 1],
                         [src |-> "Zero"]>>,
   num_inputs |-> 3,
   slots |-> [bank \in Domain3 |-> CASE bank = Public -> 2 [] bank = Shared -> 3 [] OTHER -> 1],
   num_public_witness |-> 2]

OpenedTest ==
  [kind |-> Kind("IsZeroReveal", 0), sites |-> 2, input_slots |-> <<At(Shared, 0), At(Shared, 1)>>,
   result_requests |-> <<0, 2, 2>>, result_offsets |-> <<0, 2, 3>>,
   result_targets |-> <<At(Shared, 2), At(Public, 0), At(Public, 1)>>]

Bits ==
  [kind |-> Kind("Num2Bits", 2), sites |-> 1, input_slots |-> <<At(Public, 1)>>,
   result_requests |-> <<0, 1>>, result_offsets |-> <<0, 2>>,
   result_targets |-> <<At(Public, 2), At(Public, 3)>>]

Hash ==
  [kind |-> Kind("PrecomputedPoseidon2", 2), sites |-> 1,
   input_slots |-> <<At(Public, 3), At(Shared, 2)>>,
   result_requests |-> <<0>>, result_offsets |-> <<0, 1>>,
   result_targets |-> <<At(Shared, 3)>>]

Gadgets ==
  [instructions |-> <<Instruction("Gadget", 0, 0, 0), Instruction("Gadget", 0, 1, 0),
                      Instruction("Gadget", 0, 2, 0)>>,
   constants |-> <<>>,
   input_domains |-> <<Shared, Shared>>,
   inputs |-> <<Binding(Shared, 0, 0), Binding(Shared, 1, 1)>>,
   input_signals |-> <<Signal(<<1>>, 0, 1), Signal(<<2>>, 1, 1)>>,
   rounds |-> <<>>,
   round_operands |-> <<>>,
   round_results |-> <<>>,
   gadget_batches |-> <<OpenedTest, Bits, Hash>>,
   witness_sources |-> <<[src |-> "One"], ASlot(Public, 3), ASlot(Shared, 3)>>,
   num_inputs |-> 2,
   slots |-> [bank \in Domain3 |-> IF bank = Local THEN 0 ELSE 4],
   num_public_witness |-> 1]

MCStreams == {<<Product>>, <<Gadgets>>, <<Product, Gadgets>>}

MCDefault == [bytes |-> 255, allocation |-> 480, entries |-> 20]

(* Just enough for a program, and one byte or one entry less.              *)
MCLimits ==
  {[MCDefault EXCEPT !.bytes = Len(Written(prog)) - d] : prog \in {Product, Gadgets}, d \in {0, 1}}
  \cup {[MCDefault EXCEPT !.allocation = a] : a \in {48, 47}}
  \cup {[MCDefault EXCEPT !.entries = n] : n \in {4, 3}}

MCSpoiledUnder == {MCDefault}

MCMagic == <<7>>

MCPartialRounds == [t \in SupportedWidths |-> 1]

MCNamed ==
  [{<<1>>, <<2>>} -> {<<4>>, <<5>>, <<6, 7>>}] \cup
  {(<<1>> :> <<5>>), (<<1>> :> <<6, 7>>) @@ (<<2>> :> <<5>>) @@ (<<3>> :> <<8>>)}
=============================================================================
