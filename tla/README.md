# A verification model of circom-mpc-compiler

This directory models the compiler and the virtual machine of `circom-mpc-compiler` in TLA+:
how a template's code is lowered into a graph and templates are flattened, how the graph is
rewritten, lowered, scheduled and turned into a program over recycled slots, how the program is
checked, written to a file and read back, how the virtual machine runs it and serves its gadgets,
and how three parties run it on shares. TLC checks the modules on small instances;
TLAPS proves that the rounds of classical passes end at their fixpoint and code generation's safety
for every graph, the lockstep of three parties for every program, and that the shared driver
implements the plain one for every prime field.

Source paths below are relative to `src/crates/`. `PROJECT.json` maps every definition to the
lines it stands for.

## The system

```
circom source --frontend--> value graph --passes--> optimised graph --lowering--> lowered graph
   --codegen (batch planner, slots, emission)--> Program --Vm::run (driver, gadgets)--> witness
```

| Part | Code | State it keeps | Operations | What makes it correct |
| --- | --- | --- | --- | --- |
| Value graph | `circom-mpc-compiler/src/ir.rs` | nodes (a value is its node's position), outputs, gadget sites, witness map | `rewrite`, `rebuild_nodes`, `gc`, `retain_outputs` | renumbering keeps the meaning; gadget sites are never lost |
| Domain and level | `passes/mpc/domain.rs`, `level.rs` | none (pure) | forward folds | secrets stay in the shared bank; a level counts network rounds |
| Classical passes | `passes/dead_code.rs`, `const_fold.rs`, `cse.rs` | none | graph to graph and changed flag | same witness, honest flag |
| Lowering | `passes/mpc/mul_split.rs`, `round_schedule.rs`, `wide_schedule.rs` | none | graph to graph | one round per level, results next to their round |
| Pass manager | `passes/mod.rs` | graph, changed, iteration | fixpoint loop, lowering once | reaches the fixpoint below its cap |
| Batch planner | `passes/mpc/gadget_schedule.rs` | plans with anchor and deadline, active plan per key | place a site, fuse zero tests with reveals | every site served once, after its operands and before its readers |
| Code generation | `codegen.rs` | value to slot mapping, free lists, next slots, tables, instructions | reserve, one arm per op, service batches, release | live values never share a slot, none leaks, no panic on lowered graphs |
| Program container | `circom-mpc-program/src/program.rs`, `gadget.rs`, `inputs.rs` | immutable tables | validate, flatten inputs | every index in range; named inputs are the positional ones |
| Serialization | `circom-mpc-program/src/serialize.rs` | what is left of the caller's limits, the tables read so far | write, read, read exactly | what is written reads back; what loads is what the bytes stand for; nothing is allocated beyond the limits |
| Virtual machine | `circom-mpc-vm/src/vm.rs` | public and shared banks, pending products, precomputed traces | initialise, execute, run batch, finish | the witness is what the circuit denotes |
| Drivers | `circom-mpc-vm/src/driver/` | network, correlated randomness, mask pool | arithmetic, open, reshare, gadgets | three parties stay in lockstep |
| Gadgets | `circom-mpc-vm/src/gadgets/` | mask-pool cursor; per chunk of sites, states and trace sinks | traces of each gadget kind | a trace has the circuit's signals at the circuit's positions; shared and plain traces agree; the pool is used up exactly |
| Round counter | `circom-mpc-vm/src/counting_net.rs` | rounds, sent flag | send, recv, reset | a send followed by receives is one round |
| Frontend | `circom-mpc-compiler/src/frontend/` | per-template nodes, variables, graphs of templates already compiled; inlining maps | build, unroll, fold, inline | the graph assigns what running the code would; instances are inlined once, with all their inputs |

Calls go one way, from frontend to machine; parts share data, not memory. The compiler is
sequential and the machine's run is too. What is hard here is not interleaving but *order over
distance*: a value is the position of its node and seven passes move positions; a slot is handed
out at one node, read at another and recycled at a third; a gadget site's operands are noted at
its node, its batch runs at an anchor further down, its results must be there before a reader that
may come much later; a product is started in one instruction and finished in another, and three
tables must agree on the order in between. The host's traces are a queue consumed in an order
nobody writes down. A trace is laid out as the circuit numbers its signals and computed in another
order, by several threads. In a shared run three machines execute the same program against each
other, so every order is also a protocol.

`PROJECT.json` lists the hazards, each at its line, with the properties that would catch it.

## Modules

| Module | Models | Kind |
| --- | --- | --- |
| `CircuitIr` | graphs, domains, levels, the denotation of a graph | operators |
| `Rewriting` | `Graph::rewrite`, `rebuild_nodes`, `gc` | operators |
| `Cleanup` | dead code, constant folding, cse | operators |
| `Lowering` | `mul_split`, `round_schedule`, `wide_schedule` | operators |
| `GadgetSchedule` | the batch planner and fusion | operators |
| `PassManager` | the pass manager | state machine |
| `RewritingProofs` | what rewriting, folding, merging, splitting, `gc`, rebuilding and the two schedules keep and leave | lemmas |
| `PassManagerProofs` | the passes keep the witness, the sites and the rounds; the classical ones reach their fixpoint and report honestly | proofs |
| `Codegen` | `codegen::compile` | state machine |
| `CodegenProofs` | the slot allocator of `Codegen`; its walk: what it accepts, keeps alive, serves and loses | proofs |
| `GadgetScheduleProofs` | what the batch planner schedules | proofs |
| `Vm` | one run with the plain driver | actions, composed by `CompiledRun` |
| `Evaluation` | what compiling and running promises | abstract specification |
| `CompiledRun` | passes, `Codegen` and `Vm` composed, with a caller | state machine, refines `Evaluation` |
| `ThreeParties` | three rep3 parties in one session: exchanges, mask pools, round counters, host services | state machine with fairness |
| `NumberTheorems` | least and largest elements, sums over finite sets, congruence modulo a prime | lemmas |
| `ThreePartiesProofs` | what the tasks of every program add up to; theorems about `ThreeParties` | proofs |
| `PlainDriver` | what every driver call yields | abstract specification |
| `SharedDriver` | the rep3 driver's calls and the gadgets' protocols on shares | state machine, refines `PlainDriver` |
| `SharedDriverProofs` | `SharedDriver` implements `PlainDriver` | proofs |
| `GadgetKinds` | operands and results of each gadget kind (`gadget.rs`) | operators |
| `ProgramChecks` | `Program::new` as a predicate | operators |
| `ProgramAssembly` | the tables code generation hands to `Program::new` | operators |
| `ProgramFormat` | the byte format, as the writer lays it out | operators |
| `ProgramFile` | writing, a medium that cuts, alters or extends, reading under limits, inputs by name | state machine |
| `PermutationTemplates` | the permutation as the circuit's templates number it | reference operators |
| `PermutationWalk` | the permutation as the machine runs it: chunks, rounds, addresses, sinks | state machine |
| `AliasCheck` | the weighted sum of the alias check's trace | state machine |
| `GadgetService` | one gadget batch, from inputs to stored results; composes the two above | state machine |
| `Folding` | `fold.rs` | operators |
| `BucketCode` | the code circom hands over, and what running it means | data and reference operators |
| `GraphCompiler` | `build.rs` and `unroll.rs`: a template's code lowered to a graph | state machine |
| `Templates` | the template language of `Inlining`, the graph a template becomes, what it means | operators |
| `Inlining` | `inline::build` | state machine |
| `InliningProofs` | no signal is bound twice, every gadget instance is one site, and nothing but a gadget's layout stops `Inlining` | proofs |
| `Circuits` | generators of graphs the frontend can hand over | for the MC modules |

`CompiledRun` composes `PassManager`'s operators, `Codegen`, the checks of `ProgramChecks` on what
`ProgramAssembly` lays out, and `Vm`; `GadgetService` composes `PermutationWalk` and `AliasCheck`
under the machine's dispatch; `GraphCompiler` runs `BucketCode` with `Folding`. `Inlining` rests on
`Templates` and on the denotation of `CircuitIr`. `ThreeParties` and `SharedDriver` divide the
rep3 driver between them: who is sent what and when, without values, and what values come out,
without messages. What joins them is that an exchange is completed by all three parties or by
none, which `Lockstep` states.

### How state and actions correspond to the code

*Graphs.* A graph is a record of node, output and site sequences. Positions and site ids start at
1. Field elements are the integers modulo a small prime `P`; the passes are generic in the field.
`Denotation` is the reference: a gadget result is a function of its site's operands (`IsZero` and
`Num2Bits` exactly, the Poseidon2 permutation as some fixed mixing of its inputs), and `WitnessOf`
is what each witness position carries. A pass is correct when `WitnessOf` does not move.

*`PassManager`.* `graph`, `changed` and the loop counter are the locals of `PassManager::run`.
`RunOptimizePass` is one call of a classical pass; `NextIteration` and `StopOptimizing` are the
two ways out of a round; `RunLowerPass` is one lowering pass.

*`Codegen`.* `slot` is `Arena::slot` (a value absent from its domain is `None`), `free` and `next`
are the three `BankAlloc`s, `job` what `compile` computes before the walk, `siteIn`, `rounds` and
`code` the tables under construction. `Reserve` is phase A. Each arm of the emission loop is an
action; `emit_round`'s two loops take one step per operand (`TakeRoundOperand`, which recycles the
product's slot at once) and per result (`PlaceRoundResult`). Every handler ends by queueing its
`free_if_dead` calls, which `Release` makes one at a time, then `ServiceBatch` emits the batches
anchored at the node, then `NextNode` moves on. `eyre` errors end in `rejected`, `expect` and
`unreachable!` in `panicked`. Last uses (`Uses`, `IsLastUse`) are stated as the set of places
where a value is read, of which the code stores the maximum. Gadget results have homes in a
reserved region from the start (`Home`), as `result_phys` gives them; their mapping entry appears
when their node is visited.

*`Vm`.* `bank` holds the two slot banks, `pending` the three `pending_mul_*` vectors zipped,
`supplied` the queue of precomputed batches. `ExecuteReshare` compares destinations with the
round's table before anything is computed. `status` carries the error a run ended with.

*`CompiledRun`.* `Load` assembles the flat tables (`ProgramAssembly!Assembled`), refuses them where
`Program::new` would, and hands the finished program to a machine, with what the caller supplies:
everything right, one bound input of the wrong kind, one batch of traces missing at either end, or
one too many.

*`ThreeParties`.* A session is what a host does with one connection: a `Poseidon2Service` per batch
of permutations that are computed ahead (`NewService`, `Trace`, `FinishService`), a reset of the
round counter (`ResetCounter`), the driver with its mask pool (`NewDriver`), the bound inputs
(`InitializeInputs`), the program's instructions that concern the driver, the machine's closing
checks (`FinishRun`), and the opening of the public outputs (`Open`). Every party goes through
these `tasks` on its own. `Exchanges` lists what a task sends and receives; `Send`, `Receive`,
`SendFails` and `ReceiveFails` are one call on the network each, so any interleaving of the parties
between two of them is possible. `pool` is a `MaskPool` with its cursor, `counter` a `CountingNet`.
A message carries `Label`, the exchange and the masks it was computed with: the code's messages
carry no such thing, the label is what lets `Lockstep` say that the right message was received.
The network and the rep3 primitives of mpc-core are external, modelled from their use: channels
are reliable and ordered, a send does not block, a receive from a party that has returned fails
once the channel is empty, and a send to it may fail.

*`SharedDriver`.* `shares` lists every value obtained so far, per party its two summands, and
`opened` what the last call revealed to each party. Correlated randomness (`ZeroShares`), masks and
the split of a fresh sharing are arbitrary choices out of small sets. `PlainDriver` has the same
calls on values. An operand is one of the last `Window` values. Bits come out of a conversion to
binary shares and back, which is external: `BitsOf` shares the bits of the value afresh. What the
repository builds on it is modelled line by line: the alias check multiplies the pairs of all sites
in one exchange and gives each site its chunk of the products (`ChunkOf`), adds up the pairs' parts
by the changing `Weights`, the public summand at one party only (`PartOf`, `SumOf`), and lays the
trace out as the plain gadget does (`AliasSignals`). The permutation is there by the calls its rounds
make (`SboxLayer` and the linear ones); its walk is `PermutationWalk`.

*`ProgramFile`.* `sent` and `file` are what was written and the bytes it became, `medium` what
happened to them: nothing, an end anywhere in the file (a writer that stopped, or a short disk),
one byte replaced, or one more byte. `r` is the reader of one program: where it is and
what was read. `ReadHeader`, `ReadTables` (one table per step),
`ReadCounts` (inputs, slots, witness) and `Accept` (validation, the limit on bytes, and the end of
the stream where `exact`) are the phases of `Program::read`; a refusal can end any of them.
`Supply` chooses named inputs and `Place` flattens them as `inputs.rs` does. A byte has `Base`
values, a `u32` and a `u64` have `Narrow` and `Wide` of them; an entry's
size in memory is the one the code counts it by (`EntrySize`).

*`PermutationWalk`.* `BeginWalk` splits a batch into chunks, one per thread of the pool unless
they would get too small; each chunk is one entry of `chunks` with its own round, and any of them
may go on next. `state` holds a site's evolving state, `sinks` what its sink has recorded, in
order, so that a second record for a position is seen. Addresses come from the code's base
formulas, `PermutationTemplates` has none: it lists the signals of each template and component in
the circuit's order.

*`GadgetService`.* One action per arm of the machine's dispatch on a batch (`Vm::run_batch` with the
plain driver): permutations walked with requests or read from the host's full traces,
zero tests, decompositions and openings traced at once, alias checks traced site by site with
`AliasCheck!TakePair` and `ReadBit`; then the selection of the requested signals and their stores.

*`GraphCompiler`.* `compilers` is the recursion of `handle_create_cmp_bucket`, a compiler per
template with its `nodes`, `variables` (`var_to_value`) and `subs` (`sub_graphs`); `blocks` are
the bodies it is in, of which a loop's has the induction variable and its values. One action per
instruction: `LowerStore`, `LowerBranch`, `LowerLoop`, `LowerAssert`, `RefuseStatement`, and three
for a component, as it is compiled already (`CreateKnown`), a gadget (`CreateSite`) or neither
(`CompileTemplate`, which `FinishTemplate` returns from). `ConstantValue` is `get_constant_value`,
on machine integers that panic or wrap around (`checked`); `ExpectValue` lowers an expression and,
when a removed operator cannot be folded, leaves the nodes of its operands behind, as the code
does. `eyre` errors end in `refused`. `BucketCode!Interpreted` is the reference: the code run with
field arithmetic and signed comparisons, loops for as long as their condition holds, up to `Fuel`
iterations; what it assigns to signals and ports, and the components it creates, in order.

*`Inlining`.* The recursion of `inline::build` is a stack of `frames`; a frame has the locals of one
call. `ReadSubCmpOutput` takes two steps when the component is not inlined yet: one that inlines a
gadget or pushes a frame, one that resolves the read. A template's `writes` serve as its output
ports (`port_outputs` holds the same values). `Templates!Parse` is the graph `build.rs` makes of a
template, `Accepted` the assignments circom accepts, `LaidOut` where it places the signals, `Solves` the reference: what the flat signals
must satisfy. The hundreds of intermediate signals of a Poseidon2 gadget are one.

## Runs

| Run | Question | Instance |
| --- | --- | --- |
| `passes` | do the passes keep meaning, order and sites; do the classical ones reach their fixpoint and report honestly; is there one round per level? | all circuits of two operations over a secret, a public and a constant leaf; circuits of a product, a zero test and one more operation; chains of three products and gadget sites over two secrets and a public value; the three optimisation levels |
| `codegen` | is code generation sound on lowered graphs, and does it refuse all others? | lowered chains of two sums, products and zero tests, and of three products, zero tests and reveals; hand-built graphs of two or three arbitrary nodes over two leaves or a local product |
| `compiled_run` | does compiling and running refine `Evaluation`? | products, zero tests and reveals; two permutations, precomputed or not, chained or side by side; two zero tests whose flags are opened, all or in part |
| `three_parties` | do three parties stay in lockstep, use their masks up, count the claimed rounds, leave no message, and all return? | programs of two driver instructions of every kind, and of three with a permutation in the middle; at most one caller with a mistake |
| `shared_driver` | do the shares sum up to what the plain driver computes? | two calls of every kind from three starts in a field of 31 elements; decompositions into three bits; alias checks of four pairs of bits, one site or two |
| `program_file` | is what is written what is read, and what loads what is there; is a program refused only beyond a limit; are named inputs the positional ones? | two programs that use every table, one after the other or alone; every end of the file, every byte replaced by every other, one byte more; limits that just fit and one less |
| `gadget_service` | does every stored result carry the circuit's signal of its number? | batches of every kind; permutations of all five widths, up to five sites in one chunk or two, requests for everything, nothing and scattered signals; all alias checks of six bits |
| `inlining` | does the flat graph satisfy every instance's assignments? | two components per template in all accepted orders, two levels deep; templates, gadgets, a precomputed gadget, one of a wrong layout |
| `lowering` | does a lowered template assign what running it would, and is everything lowered that should be? | counting loops up and down from four starts, over accumulations and conditions; nested loops with one of 45 statements inside and one of 19 outside: every folded operator, arrays, addresses, ports, branches, and what is refused; four components of two templates out of 18, gadgets of right and wrong shape, two levels deep; builds with and without overflow checks |
| `product_order` | does every compiled program run? (violated) | one circuit |
| `unread_input` | is every component's input addressable? (violated) | one circuit |
| `loop_shapes` | is what is unrolled always a counting loop? (violated) | three loops, two starts |

The field has five elements (`P = 5`) in the runs about circuits: enough to tell 0, 1, the two
operands and their results apart, so that a swapped or stale operand shows. The input vectors are
chosen with different values on different signals, one of them zero in `compiled_run` so that both
outcomes of a zero test occur. Chains of two or three operations are the smallest in which a
merged round, a shared stage after it, a public gadget chain beside it and a recycled slot after
all of them occur together. Each property has a mutant of a modelled definition in `PROJECT.json`
that the same instance refutes, so none of the bounds leaves a property idle.

Numbers of the code that are constants here:

- the pass manager's four iterations are the code's own (`MaxIterations`), as are the four full
  rounds that count a permutation's results in `compiled_run`;
- `three_parties`: a permutation has one full round before and after one or two partial ones where
  the code has four and 56 or more, which keeps the three kinds of layer and both transitions; its
  width is 2 or 3;
- `gadget_service`: two full rounds before and after two partial ones (one for widths 8 and 16), of
  all the code's widths; a field of 61 elements; two sites per chunk at least, where the code has
  four, and one or three threads, so that there is a batch of one chunk, and one with a last chunk
  that is shorter; the alias check has 3 pairs in place of 127, with a field just wide enough, as
  the code's is for its own;
- `shared_driver`: a field of 31 elements, of five bits, and four pairs in place of 127 (`Pairs`),
  one for each pair of bits the limit may have; the result of an alias check is the fifth bit of the
  sum, which half of the field's elements have. The starts are zero, one and the field's last element
  beside a fixed value; a batch has one operand or two, and an alias check one site or two;
- `program_file`: sixteen values of a byte, one byte for a `u32` and two for a `u64` (`Base`,
  `Narrow`, `Wide`), a field of seven elements. A spoiled file is read under one choice of limits
  (`SpoiledUnder`), a whole one under all;
- `lowering`: machine integers end at 63 (`MaxUsize`) below a field of 131 elements, so that
  counting past zero and comparing negative numbers both occur and the code's conversions are
  lossless where they are; an alias check has two inputs; the reference runs at most eight
  iterations of a loop (`Fuel`), and `LoweredAsWritten` fails if that is not enough; a signal that
  is read carries one of two values (`Seeds`), different from signal to signal.

Masks are not zero in `shared_driver`: a zero mask makes a fused zero test report zero, with a
probability of one in the size of the field, which the code documents (`gadgets/iszero.rs:88`).

What the passing runs show: the classical passes never need their cap on these circuits (two
rounds with a change and one without are the most seen); a site without readers survives; lowering
never needs two rounds or two shared batches of one kind at one network level; code generation
neither fails nor panics on lowered graphs, never aliases or leaks a slot, keeps batch operands
alive to their anchor, and serves every batch before its first reader, also across the block of
results the walk jumps over; on graphs that are not lowered it answers with an error or a panic,
never with a program (`IsLowered` states the difference; `OneRoundPerLevel` and
`RoundsKeepTheirResults` of `passes` show that lowering attains it); and the composition answers
with the denoted witness or refuses the caller.

Three parties receive what was sent for the exchange they are in, however far a peer is ahead; the
masks budgeted from the program are those it consumes, to the last one; the rounds a party counts
are the documented ones and do not depend on who was first; after a success nothing is left in the
channels for the next session on the same connection. A caller's mistake at one party makes that
party fail, and never leaves the next one with a result; the third may finish, when it had what it
needed before. Every call of the rep3 driver keeps shares replicated and sums up to the plain
driver's answer, including the masked s-box, the fused zero test, bit decompositions, and alias
checks of one site or two.
Lazy inlining satisfies every instance's assignments in all accepted orders, binds no flat signal
twice and keeps every gadget as one site.

A lowered template, and every template compiled on the way, assigns the same values to the same
signals and ports in the same order as running its code, and creates the same components, also
where a loop counts below zero; templates that keep to counting loops and known conditions are
never refused, however often and at whatever depth a component is created (a template is taken out
of its table when it is first compiled). A template that is refused or ends in a panic promises
nothing.

Every program code generation emits in `compiled_run` passes `Program::new`. A file is read back
as written up to the exact byte and entry of a limit; a file that ends early is refused; a file
with any one byte changed is refused or stands, byte for byte, for the program that loads, but for
two operands of a table instruction that no one reads. A served batch stores for every site what
the circuit's template has at the requested number; no position is recorded twice, whatever the
order of the chunks.

### Finding: the order of a round's products

`product_order` is violated. `round_schedule` fixes the inputs of a merged `Round` in the order of
its products at that time; `wide_schedule` afterwards sorts the nodes of one network level by
their full level and leaves those inputs as they are (`wide_schedule.rs:52`). For
`(a + isZero(p)) * b` followed by `a * b`, with `p` public, both products are at network level 0,
but the first is at full level 1: it is emitted second, while the round lists it first.
`Vm::run` compares the two orders (`vm.rs:292`) and ends with "MulLocal instructions do not match
the following round's operand table", although `Program::new` accepted the program and the
caller supplied everything right. `lib.rs:87` promises a program "runnable via
`circom_mpc_vm::Vm::run`". The instance of `compiled_run` keeps to circuits whose rounds list
their products in node order (`RoundsInOrder`), which the `codegen` and `passes` runs do not
need.

### Finding: inputs a component does not read

`unread_input` is violated. A component's input signal is bound where the component's own body
reads it (`inline.rs:82`); a component that ignores an input leaves the flat signal unbound, and
code generation makes an unbound signal zero in the witness (`codegen.rs:910`). The comment above
that line wants every such signal "addressable by signal_to_witness". When the ignored input is
assigned a product, `c.x <== a * b`, that assignment is a constraint and the zero does not satisfy
it. `SolvesTheCircuit` of the `inlining` run leaves signals without binding unconstrained, so that
it covers everything else; gadgets bind all their inputs and are not concerned.

### Finding: loops that are not counting loops

`loop_shapes` is violated. `unroll.rs:96` means to refuse a body that "writes to induction
variable", but looks at the top level of the body only; it evaluates the bound once, before the
first iteration; and it takes the variable of the last store for the one the condition is about. A
loop that stores its variable under a condition, that moves its bound, or whose last store is to
another variable is accepted and unrolled into something else than the loop does. The header
(`unroll.rs:1`) promises that "loops with a statically known trip count are fully unrolled".

### Smaller divergences, kept out of the instances

- `gadget.rs:65` lists width 12 among the permutation's; `program.rs:13` does not support it. The
  model has the latter.
- `serialize.rs:102` documents the limit on allocation as the "maximum total bytes any single table is
  allowed to pre-allocate for". An input signal is counted as 8 bytes (`checked_count::<u64>`,
  `serialize.rs:385`) and reserved as 40 (`Vec::with_capacity` of `InputSignal`, one line below), so
  that table may reserve five times the limit. The model counts as the code does and has no
  reservations.
- `fold.rs:19` says the folded operators match circom's; a shift to the left by a negative amount,
  which circom takes for one to the right, is folded as a shift by a huge amount, and the result is
  not masked. The instance of `lowering` has no negative shift and none that overflows the mask.
- A literal alone as a loop's last store (`i = 5`) is taken for a step of five
  (`unroll.rs:63`, "a constant round trip"); the run has no such loop among those to be lowered.
- Addresses and bounds are unsigned machine integers: `i < n - 1` with `n = 0` panics in a build
  with overflow checks and wraps around without. The instance has `i - 1 + 1` at `i = 0`, which
  panics in one and is right in the other; a negative variable as an address panics in both.

### Liveness and fairness

`three_parties` is the one run with a liveness property: `EveryPartyReturns`. Its specification
states weak fairness of each party's `Step`: a party is a thread of its own in the three-party
tests and a process in deployment, and the scheduler runs it while it can take a step. Nothing is
assumed of an order between the parties, nor between a party's own alternatives (a send that
fails or goes through). `Finished` also covers parties that block in a receive nobody will answer,
so that a protocol that blocks violates `EveryPartyReturns` instead of passing as a system at rest.

No other run states fairness. Every other component is a loop over a finite list in a single
thread: that it ends is the absence of deadlock outside the end states together with the finite
state graph. Deadlock checking is on in every run; the only stuttering self-loop is `Finished`,
enabled in the end states alone. In `CompiledRun` a compilation that fails has no such step, so a
rejected or panicked compilation would be reported as a deadlock. Termination of the pass loop
below its cap is the invariant `FixpointBeforeCap`.

## Proofs

TLAPS checks the theorems below for every value of the constants, under the assumptions named with
the constants. Every conjunct of an inductive invariant was first checked by TLC as an invariant of
the component's run, hand-built graphs included.

| Theorem | Statement | Module |
| --- | --- | --- |
| `ReachesFixpoint` | `Spec => []FixpointBeforeCap` | `PassManagerProofs` |
| `Reported` | `Spec => ChangesAreReported` | `PassManagerProofs` |
| `WitnessKept` | `Spec => []MeaningPreserved` | `PassManagerProofs` |
| `EverySiteSurvives` | `Spec => []SitesSurvive` | `PassManagerProofs` |
| `RoundsStayWhole` | `Spec => []RoundsKeepTheirResults` | `PassManagerProofs` |
| `OneRoundEach` | `Spec => []OneRoundPerLevel` | `PassManagerProofs` |
| `SharedBatchesWhole` | `Spec => []SharedBatchesNeverSplit` | `PassManagerProofs` |
| `TypeCorrect` | `Spec => []TypeOK` | `CodegenProofs` |
| `SlotsNeverAliased` | `Spec => []NoAlias` | `CodegenProofs` |
| `NothingFreedInUse` | `Spec => []FreeSlotsUnused` | `CodegenProofs` |
| `ProgramInRange` | `Spec => []SlotsInRange` | `CodegenProofs` |
| `BatchesScheduled` | every graph's batches are `Scheduled` | `GadgetScheduleProofs` |
| `OnlyLoweredEmitted` | `Spec => []EmitsOnlyLowered` | `CodegenProofs` |
| `LoweredCompiles` | `Spec => []CompilesLowered` | `CodegenProofs` |
| `OperandsKeptForBatches` | `Spec => []BatchInputsStayAlive` | `CodegenProofs` |
| `BatchesServedInTime` | `Spec => []ServedInTime` | `CodegenProofs` |
| `SlotsNeverLeak` | `Spec => []NoSlotLeaks` | `CodegenProofs` |
| `TypeCorrect` | `Spec => []TypeOK` | `ThreePartiesProofs` |
| `InLockstep` | `Spec => []Lockstep` | `ThreePartiesProofs` |
| `LeavesNoResidue` | `Spec => []NoResidue` | `ThreePartiesProofs` |
| `OnlyCallersErr` | `Spec => []ErrorsAreTheCallers` | `ThreePartiesProofs` |
| `MistakesStop` | `Spec => []MistakesReachTheNext` | `ThreePartiesProofs` |
| `CountsAsClaimed` | `Spec => []RoundsAsClaimed` | `ThreePartiesProofs` |
| `StaysReplicated` | `Spec => []Replicated` | `SharedDriverProofs` |
| `Refinement` | `Spec => ImplementsPlain` | `SharedDriverProofs` |
| `EverySignalBoundOnce` | `Spec => []BoundOnce` | `InliningProofs` |
| `EveryInstanceASite` | `Spec => []SitesAreInstances` | `InliningProofs` |
| `StopsOnlyOnLayout` | `Spec => []PanicsOnlyOnLayout` | `InliningProofs` |

`ClassicalInvariance` and `LoweringInvariance` in `PassManagerProofs` and `Invariance` in
`CodegenProofs`, `ThreePartiesProofs` and `SharedDriverProofs` state the inductive invariant of each.

### The assumptions

- `SourceAssumption`: a graph the frontend hands over is well-typed, each operand precedes its
  reader, gadget sites are whole, it is a record of a graph's fields (`IsGraph`), and it holds no
  operation of the lowering (`Unlowered`): those are "materialized later, by inlining and passes/mpc
  respectively" (`frontend/build.rs:57`), of which inlining makes the gadgets'.
  `ArithmeticAssumption`: sums, differences and products are of field elements. In the code every
  value is one; in the model a `Gadget` node denotes the tuple of its operands, whose "own value is
  never read directly, only through `Op::GadgetResult` nodes" (`ir.rs:100`). Without it folding
  `x + 0` to `x` would not be right, and TLC evaluates it on every graph and input of the run.
  `OptAssumption`: the level is one of the code's three.
- `PAssumption`: the modulus is beyond two. `GraphsAssumption`: a graph code generation is called
  with is well-typed, each operand precedes its reader, and gadget sites are whole
  (`WellFormed`): a site has one `Gadget` node, a result is read off a `Gadget` or `Round` node,
  and no result node is there twice. `Node::new` and the order of a node list give the first two.
  `inline_gadget` makes a site, its node and one result per slot together; the passes renumber
  them; cse merges pure nodes only, results among them; and the planner relies on all of it
  (its `expect`s). Nothing is assumed of lowering: the theorems that need a lowered graph say so.
- `RoundsAssumption`, `ProgramsAssumption`: rounds are natural numbers per width, and the programs
  are any sequences of the driver's instructions with any number of sites, of widths the
  permutation has parameters for, which `Program::new` checks. `MistakesAssumption`: the mistakes
  are among the modelled ones.
- `FieldAssumption`: the modulus is a prime. `StartsAssumption`: a session starts with as many
  registers as the window of operands is wide. `RandomnessAssumption`: shares are drawn from the
  field, correlated randomness sums up to zero, and a mask is not zero, which is the documented
  caveat of the fused zero test (`gadgets/iszero.rs:88`). `GadgetAssumption`: an alias check has
  pairs of bits, a limit of as many bits, and serves one site or two.
- `MainsAssumption`: templates are those circom hands over. Their statements are well formed
  (`WellTypedTemplate`); a signal is assigned once, a template does not assign its own inputs, and
  of a component it assigns nothing but inputs (`Accepted`); circom gives every signal of every
  instance a place of its own (`LaidOut`): those of a component are disjoint from its creator's and
  from its siblings'. A gadget is a leaf: it is of one of the kinds `GadgetKind` has and creates no
  components itself (`SubGraphInstance::Gadget` has no template).
- `DepthAssumption`: a tree of templates ends. It is nested no deeper than `MaxDepth`, which may be
  any number; `inline_template` recurses over trees that are built, so they have an end.
- `ReadsAssumption`: what a template reads of a component is an output the component has (a gadget)
  or a signal it assigns (a template). `Accepted` says that signals are assigned before they are
  read; this says the same of a component's. The code panics on a program that does otherwise
  ("subcomponent output port read before it was produced"), and `StopsOnlyOnLayout` is about those
  that do not.

### The classical passes

`FixpointBeforeCap` says that a loop bounded by four rounds is never stopped by the bound. The
code does not argue it; it follows from what each pass leaves and what the others do not undo:

- `Folded`: after `const_fold`, which folds in node order and so sees folded operands, no operation
  is left on two constants. Merging and dropping nodes rename operands to nodes of the same opcode
  and constant, and keep it so.
- `Distinct`: after `cse`, no two pure nodes have the same key. Dropping nodes renumbers those that
  stay by an increasing map, under which keys stay different: products and sums order their
  operands, and an increasing map keeps their order. Folding does nothing on a `Folded` graph.
- `Live`: after dead code elimination, every node is reached from an output or a gadget site. In
  the first round folding and merging leave nodes behind; in the second they have nothing to do, so
  the graph `dead_code` left is still `Live` in the third, which changes nothing.

`Marked` ties these to the position in the rounds and is, with the graph being sound, inductive. A
pass that finds nothing to do returns the very graph (`FoldedStays`, `DistinctStays`, `LiveStays`),
and one that says "unchanged" has returned it (`SilentRewrite`, `SilentDeadCode`), hence `Reported`.

Rewriting and rebuilding are folds over the node list whose callbacks depend on the nodes emitted
so far. `RewritingProofs` describes their outcome by a map from old values to new ones
(`Carried`), `gc`'s by the increasing map from the kept values (`Collected`), `rebuild`'s by the
permutation it follows (`Moved`), and shows that each keeps a graph sound: its types, the order of
operands before readers, and its sites with their results. The sweep that decides what is kept
walks the nodes backwards once; that one walk suffices is `SweepFacts`, from operands preceding
their readers.

### The lowering and the meaning

`LoweringInv` names what each pass of the lowering finds. Before `mul_split` no value is lowered
(`Unlowered`); after it every round is a trio of its own: a local product, a round over it alone, and
that round's one result, at three consecutive places (`SplitShape`). `round_schedule` relies on that
shape, it reads a round's result at the place after it, and yields rounds followed by their results in
slot order (`RoundsInPlace`). `wide_schedule` sorts by a key that a round shares with its results, so
that a round and what follows it move as one block: `WideInPlace` shows that nothing can be sorted in
between.

`WitnessKept` is about the values. For each pass the proof names the map from old values to new ones
and shows that a value denotes, for a given input, what its image denotes; the least value of which
this fails would have operands of which it holds. Folding, merging equal nodes and splitting
products are instances of one lemma on rewriting (`RewrittenValues`), dropping and reordering nodes of
one on renumbered nodes (`MovedMeaning`). Merging rounds is the one pass that does not map nodes to like nodes:
a round of one operand becomes a slot of a round of many, so the map is stated of every node but the
rounds, and a result's value is looked up in the merged round (`GroupedResult`). A witness position
carries the last binding of its signal, and `gc` and the schedules keep the order of the outputs
(`LastBinding`). Whether arithmetic is on field elements has to be known while products are whole,
and it is kept as values are (`MeaningInv`). Folding the sum of zero and a value to that value is where
this is used.

`OneRoundEach` is about the cost. A domain or a network level is computed from a node and those of its
operands, so the same least-value argument shows that `mul_split` keeps domains (a split product had
two secret factors and was secret, as its round's result is), and that both schedules keep domains and
levels (`GroupedLevels`, `MovedLevels`): the round that merges a level's rounds has that very level,
which is why no second round can. `RoundInv` says when each part is reached: whole products have a
public factor from `mul_split` on; rounds stand apart, and a local product has one place in one round,
from `round_schedule` on. It is an invariant only together with `LoweringInv`, since the merging is
right on graphs of trios.

`SharedBatchesWhole` joins the last pass to the batch planner. After `wide_schedule` the nodes stand by
their network level (`ByLevel`). A site's result is one level above the site, so whatever reads a
result of a stage stands after every shared site of that stage: the key of those sites is `Roomy`, all
of them are reached before a result of any is read. That is all the planner needs: its invariant
`Planned` says that a roomy key has one plan at most, because a further site of it always finds room
in the plan that is open (`RoomyFits`).

### Code generation: slots

`NoAlias` is not inductive: nothing in it says that the slot an allocation takes from the free
list is unused, nor that the slot a node returns to the list is not on it already. The inductive
invariant `IInv` adds `FreshStart` (nothing is mapped before the regions are reserved),
`RoundInWalk` (the results a round has placed lie within the node list) and `AllocatorInv`:

- `RegionsMinted`: after `Reserve`, a bank's counter is beyond its reserved region;
- `FreeBeyondRegions`: a free list holds minted slots beyond the region only;
- `FreeOnce`: it holds each once;
- `HomesKept`: a mapped value of the region is at its home;
- `LentBeyondRegions`: any other mapped public or shared value is at a minted slot beyond the
  region;
- `LentOnce`: no two of those share a slot, nor is one of them on the free list.

The argument is that of an ownership discipline: an allocation moves a slot from "free" or
"unminted" to "lent", a release moves it back and drops the mapping in the same step, and the
regions never take part. That homes are distinct needs a fact about counting: `Home` numbers the
values of a bank by how many precede them, and the lemmas prove that a proper subset counts
strictly less. The Local bank is deliberately outside `LentOnce`: a round returns a product's slot
while its mapping stays, so distinctness there depends on each product feeding one round, which
`mul_split` provides and code generation does not check.

### Code generation: the walk

Three further invariants, each on top of the ones before, describe the walk by `Passed`, the last
node it is done with.

- `WalkInv`: every node passed has been `Checked`, that is, its operands have the domains its
  opcode needs. A program is emitted when all nodes have passed, hence `OnlyLoweredEmitted`.
- `AliveInv`: only nodes already reached are mapped (`OnlyGiven`), and a node reached that has no
  slot any more is `Dead`: the walk has passed its last use (`KeptAlive`). Releases that are queued
  are of nodes passed (`QueueInv`), and a round passed is passed with its block of results
  (`RoundsJumped`). Since a reader is a use and is being visited, its operands have slots; that
  every arm of the walk finds what it expects on a lowered graph is `LoweredCompiles`.
- `ServiceInv`: the operands of each `Gadget` node passed are noted (`SitesNoted`, `NotedOnce`); a
  batch has run if and only if its anchor has been passed (`ServedPassed`, `NoneForgotten`); at an
  anchor nothing is released before the batch has run (`QuietAtAnchor`), which is what keeps the
  batch's own operands where they were noted: the anchor is one of their uses, so that they are not
  dead before it. With `BatchesScheduled` it follows that a result has been served when its reader
  is visited.
- `Balance`: the account of a bank. What it minted beyond its region equals what is free plus what
  is held; each step's change on both sides is a lemma on cardinalities. In the Local bank a
  product counts as held until its round has taken it (`Taken`), since the round returns the slot
  before the mapping goes.

`BatchesScheduled` is about the planner, a pure fold. Its loop invariant is
`Planned(gr, S, plans)` after the sites `S`: every one of them is in exactly one plan, and each
plan is `Serviceable`: its anchor is the node of one of its sites and no site's node comes later,
its deadline is after the anchor and not after the first reader of any of its sites. Fusion replaces a reveal's plan by the zero test's; the
flag it opens has no other reader.

### Three parties

`Lockstep` speaks of the head of a channel. The invariant has to know all of it: `IInv` makes a
party's whole state a function of its position. `Positions` says what a party may be waiting for at
its exchange. `Channels` says that the channel from `p` to `q` holds, in order, exactly the
exchanges `p` has begun and `q` has not heard, each with the masks drawn by then (`Holds`), and
that nobody has heard what was not sent. `Pools`, `Traces` and `Counters` equate cursor, queue and
counter with sums over the tasks before the position. `Outcomes` says that a mistake is noticed
before the run's end and that no one else is in error.

A send or a receive moves one position by one exchange and must change one channel at one end; the
party at the other end is touched by nothing. The theorems are then about the tasks alone:
The first half of `ThreePartiesProofs` shows, for every program, where the host's tasks end and the run's begin, that
the masks drawn add up to the budget derived from the program, and that exchanges and traces add up
to what is claimed.

### The rep3 driver

`Shares(s, v)` says that `s` is replicated and its summands add up to `v` modulo `P`. Each
operation on shares is shown to keep it (addition, products through re-sharing, opening,
correlated randomness), each protocol is a sequence of those, and each call of `SharedDriver` is
then the same call of `PlainDriver` on the values. `NumberTheorems` has congruence, and the
inverse of a field element from the absence of zero divisors in a prime field. The masked s-box
needs a polynomial identity of degree five, and the zero tests that a mask which is not zero does
not change whether a value is. A decomposition gives sharings of the value's bits (`SharesBits`). An
alias check is proved for any number of pairs and any limit: a pair's part is shared in each of the
four cases of the limit's bits (`SharesPart`), both sums are the last of a list that goes on by one
part (`PlainSum`, `SharedSum`, with `IterationExists`) and so agree by induction (`SharesSumOf`), the
trace lists the same signals (`SignalsShared`), and the products a site finds are those of its own
pairs (`AliasCheckTracesStep`).

### Inlining

`LaidOut` speaks of offsets relative to a template's creator; that the flat graph binds no signal
twice depends on how the walk adds them up, on each component being inlined once (on the first read
of an output or at the end, never both), and on an input read several times being bound to the
value its creator stored each time. `InliningProofs` reads the stack as loans. A frame owns the
flat signals of its tree, its `Region`. It lends those of a component to the frame above
(`Called`, `Nested`), and as long as a component waits, none of its signals is bound (`Untouched`).
What is bound of a frame's own signals is what the frame `Carries` for them (`OwnBound`): what its
nodes wrote, else what it was given. Hence a binding that is added either repeats what the top frame
carries, or is of a region nobody has touched; no frame below and no waiting component is concerned
(`BelowTop`). That a frame never carries two values for a signal needs the template's graph to write
each signal once and no input: `Built`, an invariant of the fold that makes the graph
(`ParseFacts`).

The runtime serves sites by count, so a gadget instance that is forgotten or inlined twice shifts
every site after it. `EveryInstanceASite` follows the instances through the same loans. The set of a
tree's instances is characterised as the least one with the root that is closed under components
(`InstancesLeast`), and `Under` is what of it lies below an instance. `Placed`: every frame is that
of an instance of the tree. `Awaited`: an instance is a component still to be inlined, or below one.
`Sited`: there is an assignment of an instance to every site that names none twice, is of the site's
kind, and leaves out only what is awaited. Reading an output of a gadget turns one awaited instance
into a site; calling a template replaces what is below the component by what is below the
template's own (`UnderTemplate`); a return may only drop what has nothing left below it, which is
why components nobody reads must be inlined before it. That a new site is of an instance not sited
yet needs `Untouched` again: a sited instance has a signal bound, a component that waits has none.
In the end nothing waits (`Settled`), the assignment is a bijection, and the two sides are counted
by it (`SitesCounted`).

`inline.rs` has four panics that depend on the program, three of them about a value that is missing
(an input of a template or of a gadget, an output). That only the fourth can happen, the cross-check
of a gadget's signal layout (`inline.rs:224`), is the interplay of two orders: the
statements', where a component's inputs are assigned before an output is read, and the nodes',
where components are inlined lazily. `Prepared`, part of `Built`, carries the first over to the
nodes: what the k-th node reads is stored by an earlier one. `Feeds` says that a frame has stored
what the nodes behind it store, that a frame with a creator was given all inputs of its template,
and that a component inlined has what it offers. With it a component is `Fueled` when it is
inlined, at the first read of an output or at the end, and a return hands over all signals the
template assigns. Conversely a gadget of another layout is never passed: `Sited` has every site's
instance `Canonical`, and in the end every gadget instance has a site.

### How inductions are made

The library's induction schemes take an operator and cannot be instantiated by the installed
provers. Folds and recursive functions are therefore reached in two ways. A recursion equation is
proved for the one function in question (`HostTasksByRecursion`, the folds of the planner and of a
template's statements, the sum over a set) as a lemma, by showing that a function that satisfies it exists. An induction over
numbers is made by the least element of the set of counterexamples (`LeastElement`), which is a set
and not a predicate.

### Only model-checked

- that the inlined graph solves the circuit (`SolvesTheCircuit`) and that the machine's run yields
  what the graph denotes (the refinement of `Evaluation`);
- `PendingAwaitsItsRound` of the machine, which does not hold of every graph: where `wide_schedule`
  puts products in another order than their round's operands (run `product_order`) a product is
  completed under another's slot, and the passing run keeps to graphs whose rounds are in order;
- the file's, the named inputs' and the gadget batches'
  properties;
- `GraphCompiler` and `BucketCode`, which are recursive over nested code and use bit operators:
  modules the provers cannot take;
- `EveryPartyReturns`: liveness is out of the prover's reach. The theorems on three parties say
  that whoever returns does so with the right answer, TLC that all return.

## Not modelled

- circom's own parser, type checker, constraint and code generation: external libraries. What they
  hand over enters as the code of a template (`BucketCode`), within the shapes `build.rs` tells
  apart; the rebasing of the main inputs (`frontend/mod.rs:152`) is arithmetic on what they report.
- The exchanges inside the conversions between arithmetic and binary shares (zero tests that are not
  fused, bit decompositions, alias checks): their number and order are mpc-core's. What they yield,
  and all that the gadgets do before and after them, is in `SharedDriver`.
- The numbers of the permutation's constants (`poseidon2_constants.rs`): data; they are parameters.
- The errors of a driver whose network fails inside a single-machine run, and the length checks on
  what it returns: `ThreeParties` has failing exchanges, `Vm` a driver that answers.
- The empty witness of a graph without `signal_to_witness` (`codegen.rs:866`): "pass/codegen unit
  tests intentionally use hand-built graphs" of that kind, and a compiled circuit has one at least
  for the constant. The graphs of every run have a witness.
- Statistics, accessors and `Display`: they change nothing.
- Overflow of the 32-bit indices in code generation: a program of that size is refused by a
  conversion that fails. The reader's 64-bit counts are modelled.
- The command line and logging.

## Plan

1. Done: graph, passes, planner, code generation, machine, their composition, the allocator's
   theorems.
2. Done: three parties with mask pools and round counters, the rep3 driver on shares; inlining.
3. Done: program validation, byte format and named inputs; the plain traces of all gadgets with the
   permutation's layout; the lowering of templates with unrolling and folding.
4. Done: proofs of all of code generation's invariants with the planner's schedule, of the three
   parties' safety, of the rep3 driver's refinement with all its gadgets, of inlining (each signal
   bound once, each gadget instance one site, no stop but at a gadget's layout), and of the
   classical passes' fixpoint; that no pass of either stage moves the witness, loses a site or
   parts a round from its results, that a level has one round, and that no shared batch is split.
5. Next: that the machine's pending products await their round where rounds are in order; that
   chunks of the permutation's walk
   record a position once for every width and number of threads.
6. `GadgetPlanner`: the planner as a state machine that places one site per step, refining an
   abstract planner that may place a site anywhere within its window.
