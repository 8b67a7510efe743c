----------------------------- MODULE Evaluation -----------------------------
(***************************************************************************)
(* What compiling and running a circuit promises: one answer, which is the *)
(* witness the circuit denotes on the caller's inputs, or a refusal of     *)
(* what the caller supplied. Nothing of slots, batches or rounds shows.    *)
(***************************************************************************)
EXTENDS CircuitIr

None == <<>>            \* no answer yet

VARIABLES
  circuit,    \* the circuit as written
  values,     \* the value of every input signal
  supplyOk,   \* whether the caller supplied what the program asks for
  answer      \* None, or [refused], or [witness]

vars == <<circuit, values, supplyOk, answer>>

Init == answer = None

Answer ==
  /\ answer = None
  /\ answer' = IF supplyOk THEN [witness |-> WitnessOf(circuit, values)] ELSE [refused |-> TRUE]
  /\ UNCHANGED <<circuit, values, supplyOk>>

(* The caller decides what to supply before the run starts.                *)
Supply ==
  /\ answer = None
  /\ supplyOk' \in BOOLEAN
  /\ UNCHANGED <<circuit, values, answer>>

Spec == Init /\ [][Answer \/ Supply]_vars
=============================================================================
