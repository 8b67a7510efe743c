-------------------------- MODULE MCGraphCompiler --------------------------
(***************************************************************************)
(* Three families of main templates. Loops that count i up or down to a    *)
(* literal or to n, over an accumulation and perhaps a condition. Nested   *)
(* loops over i and j, with one statement in the inner and one in the      *)
(* outer, out of a list of what templates do: folded operators, arrays and *)
(* their addresses, branches, ports. Two components of every kind, some of *)
(* them of a shape that is refused.                                        *)
(***************************************************************************)
EXTENDS GraphCompiler

(* Variables, by their addresses; arr has three elements.                  *)
At(k) == Variable(U32(k))
i == At(0)   n == At(1)   acc == At(2)   old == At(3)   j == At(4)
Arr(address) == Variable(Compute("AddAddress", <<address, U32(5)>>))

Set(variable, src) == Store(variable, 1, src)
Put(signal, src)   == Store(Signal(U32(signal)), 1, src)
Add(x, y) == Compute("Add", <<x, y>>)
Sub(x, y) == Compute("Sub", <<x, y>>)

Template(name, ins, outs, inters, triggers, body) ==
  [name |-> name, ins |-> ins, outs |-> outs, inters |-> inters, triggers |-> triggers,
   body |-> body]
-----------------------------------------------------------------------------
(* Counting loops, from a start that may be negative.                      *)

Starts == <<0, 1, 3, P - 2>>

Bounds == <<Value(0), Value(3), n>>

Accumulations == <<Set(acc, Add(acc, i)), Set(acc, Sub(i, acc)), Set(old, i)>>

Guards ==
  [g \in 1 .. 6 |->
     Branch(Compute((<<"Lesser", "GreaterEq", "NotEq">>)[((g - 1) % 3) + 1],
                    <<acc, IF g > 3 THEN i ELSE Value(1)>>),
            <<Set(acc, Sub(acc, Value(5)))>>, <<>>)]

(* The first four count, the others do not.                                *)
Counters(bound, c) ==
  [k \in 1 .. 9 |->
     CASE k <= 2 -> <<Compute((<<"Lesser", "LesserEq">>)[k], <<i, bound>>),
                      Set(i, Add(i, Value(c)))>>
       [] k <= 4 -> <<Compute((<<"Greater", "GreaterEq">>)[k - 2], <<i, bound>>),
                      Set(i, Sub(i, Value(c)))>>
       [] k = 5  -> <<Compute("Lesser", <<i, bound>>), Set(i, Add(i, n))>>
       [] k = 6  -> <<Compute("Lesser", <<i, bound>>), Set(i, Compute("Mul", <<i, Value(c)>>))>>
       [] k = 7  -> <<Compute("Greater", <<i, bound>>), Set(i, Add(i, Value(c)))>>
       [] k = 8  -> <<Compute("Lesser", <<i, bound>>), Set(i, Add(i, Value(0)))>>
       [] k = 9  -> <<i, Set(i, Sub(i, Value(c)))>>]

Report == <<Put(0, acc), Put(1, Add(old, Signal(U32(9)))), Put(2, i)>>

CountingBody(start, counter, g) ==
  <<Set(i, Value(start)), Set(n, Value(2)), Set(acc, Value(1)), Set(old, Value(0)),
    Loop(counter[1], <<Accumulations[(g % 3) + 1], Guards[g], counter[2]>>)>> \o Report

CountingHeaders ==
  {<<1, s, b, c, k, g>> : s \in DOMAIN Starts, b \in DOMAIN Bounds, c \in 1 .. 2, k \in 1 .. 4,
                          g \in DOMAIN Guards}
  \cup {<<1, s, 2, 1, k, 1>> : s \in DOMAIN Starts, k \in 5 .. 9}

CountingTemplate(h) ==
  Template("Counting", 1, 3, 0, <<>>,
           CountingBody(Starts[h[2]], Counters(Bounds[h[3]], h[4])[h[5]], h[6]))

CountingLowerable == {h \in CountingHeaders : h[5] <= 4 /\ h[2] # Len(Starts)}
-----------------------------------------------------------------------------
(* Nested loops.                                                           *)

Address(e) == Compute("ToAddress", <<e>>)

(* Where iteration (i, j) has its place, from base on.                     *)
Place(base) ==
  Compute("AddAddress", <<Compute("AddAddress", <<Compute("MulAddress", <<U32(3), Address(i)>>),
                                                  Address(j)>>), U32(base)>>)

Fold(op, x, y) == Set(acc, Compute(op, <<x, y>>))

If(cond, taken, otherwise) == Branch(cond, taken, otherwise)

(* What is lowered.                                                        *)
Plain(base) == <<
  Store(Signal(Place(base)), 1, Add(Signal(Place(40)), acc)),
  Set(acc, Sub(Compute("Mul", <<acc, acc>>), i)),
  Fold("IntDiv", acc, Value(2)),
  Fold("Div", Add(acc, Value(1)), Value(3)),
  Fold("Pow", acc, j),
  Fold("ShiftL", acc, j),
  Fold("ShiftR", acc, Value(1)),
  Fold("BitAnd", acc, Value(6)),
  Fold("BitOr", acc, Add(i, Value(8))),
  Fold("BitXor", acc, Value(5)),
  If(Sub(acc, Value(2)), <<Set(acc, Add(acc, j))>>, <<Set(old, i)>>),
  If(Compute("BoolNot", <<j>>), <<Set(Arr(Address(i)), acc)>>, <<Assertion>>),
  If(Compute("Eq", <<i, j>>),
     <<If(j, <<Set(old, Add(old, Value(1)))>>, <<>>)>>,
     <<If(Compute("BoolAnd", <<i, j>>), <<Set(acc, j)>>, <<Set(acc, Value(9))>>)>>),
  If(Compute("Lesser", <<Sub(i, Value(1)), Value(0)>>), <<Set(acc, Add(acc, Value(7)))>>,
     <<If(Compute("BoolOr", <<j, Value(0)>>), <<Set(old, acc)>>, <<>>)>>),
  Set(Arr(Address(j)), Arr(Compute("Sub", <<Sub(n, Value(1)), Address(i)>>))),
  Set(Arr(Compute("Mod", <<Add(i, j), U32(2)>>)), i),
  Store(Arr(U32(0)), 2, Arr(U32(1))),
  Store(Port(Place(0), U32(1)), 1, Add(Port(Address(j), U32(0)), i)),
  Assertion>>

(* What is refused, or panics, or needs what is not known at compile time. *)
Odd == <<
  Set(acc, Signal(Address(i))),
  Store(Arr(U32(1)), 2, Signal(Address(i))),
  Fold("BitAnd", Signal(U32(20)), Value(1)),
  Fold("Div", acc, i),
  Fold("IntDiv", acc, j),
  Fold("Lesser", i, j),
  Fold("Mod", acc, Value(2)),
  If(Compute("BoolAnd", <<Compute("Lesser", <<i, j>>), Value(1)>>), <<>>, <<>>),
  If(Compute("ArrayEq", <<i, j>>), <<>>, <<>>),
  If(Compute("BoolNot", <<Signal(U32(20))>>), <<>>, <<>>),
  If(Signal(U32(20)), <<>>, <<>>),
  Set(Arr(Add(Sub(i, Value(1)), Value(1))), acc),
  Set(Arr(Compute("Mul", <<i, Value(2)>>)), acc),
  Set(Arr(Compute("Mod", <<j, i>>)), acc),
  Set(acc, Arr(Address(Signal(U32(20))))),
  Set(acc, At(30)),
  Store(Port(acc, U32(1)), 1, i),
  Store(Arr(U32(0)), Several, Arr(U32(1))),
  Store(Arr(U32(0)), 2, Add(i, j)),
  Store(Variable(Mapped), 1, i),
  Set(acc, Variable(Mapped)),
  Set(acc, Compute("AddAddress", <<i, j>>)),
  Set(j, Value(7)),
  Statement("Log"), Statement("Call"), Statement("Return")>>

Statements(base) == Plain(base) \o Odd

Inner2(up, statement) ==
  IF up THEN <<Set(j, Value(0)),
               Loop(Compute("Lesser", <<j, n>>), <<statement, Set(j, Add(Value(1), j))>>)>>
  ELSE <<Set(j, Value(2)),
         Loop(Compute("GreaterEq", <<j, Value(0)>>), <<statement, Set(j, Sub(j, Value(2)))>>)>>

NestedBody(up, s, t) ==
  <<Set(n, Value(3)), Set(acc, Value(2)), Set(old, Value(0)), Set(Arr(U32(0)), Value(3)),
    Set(Arr(U32(1)), Value(5)), Set(Arr(U32(2)), Value(4)), Set(i, Value(0)),
    Loop(Compute("LesserEq", <<i, Value(1)>>),
         Inner2(up, Statements(45)[s]) \o <<If(Value(1), <<Statements(55)[t]>>, <<>>),
                                            Set(i, Add(i, Value(1)))>>)>>
  \o Report \o <<Put(3, j), Put(4, Arr(U32(0))), Put(5, Arr(U32(1)))>>

(* After the inner loop j is what it ended with: negative when it counted  *)
(* down, and then no address and no exponent.                              *)
UsesJ == {1, 5, 12, 15, 16, 18}

(* A negative shift is left out: circom takes it for one to the right.     *)
NestedHeaders ==
  {h \in {2} \X {0, 1} \X (DOMAIN Statements(0)) \X (DOMAIN Plain(0)) :
     h[2] = 0 => h[4] # 6}

NestedTemplate(h) == Template("Nested", 4, 6, 0, <<>>, NestedBody(h[2] = 1, h[3], h[4]))

NestedLowerable ==
  {h \in NestedHeaders : h[3] <= Len(Plain(0)) /\ (h[2] = 1 \/ h[4] \notin UsesJ)}
-----------------------------------------------------------------------------
(* Components.                                                             *)

Leaf     == Template("Leaf", 1, 1, 0, <<>>,
                     <<Put(0, Compute("Mul", <<Signal(U32(1)), Signal(U32(1))>>))>>)
Poseidon == Template("Poseidon2", 2, 2, 3, <<>>, <<>>)
Num2Bits == Template("Num2Bits", 1, 3, 0, <<>>, <<>>)
IsZero   == Template("IsZero", 1, 1, 1, <<>>, <<>>)
Compare  == Template("CompConstant", 2, 1, 4, <<<<3, 3>>>>, <<>>)
Alias    == Template("AliasCheck", 2, 0, 0, <<<<3, 5>>>>, <<>>)
Reveal   == Template("TACEO_REVEAL", 2, 2, 0, <<>>, <<>>)

Feed(cmp, ins, outs) ==
  <<Set(j, Value(0)),
    Loop(Compute("Lesser", <<j, Value(ins)>>),
         <<Store(Port(cmp, Compute("AddAddress", <<Address(j), U32(outs)>>)), 1,
                 Add(Signal(Compute("AddAddress", <<Address(j), U32(1)>>)), Value(3))),
           Set(j, Add(j, Value(1)))>>)>>

Holder(name, symbol, ins, outs) ==
  Template(name, 2, 1, 0, <<symbol>>,
           <<Create(symbol, 1, 3, 0)>> \o Feed(U32(0), ins, outs) \o
           <<Put(0, Port(U32(0), U32(0)))>>)

Components == <<
  Leaf, Poseidon, Num2Bits, IsZero, Compare, Alias, Reveal,
  Holder("Holder", <<3, 1>>, 1, 1),
  Holder("TACEO_PRECOMPUTATION_Poseidon2", <<3, 2>>, 2, 2),
  Holder("Outer", <<3, 8>>, 2, 1),
  Holder("TACEO_PRECOMPUTATION_Poseidon2", <<3, 4>>, 1, 1),
  Template("Poseidon2", 5, 5, 3, <<>>, <<>>),
  Template("Poseidon2", 2, 3, 3, <<>>, <<>>),
  Template("Num2Bits", 2, 3, 0, <<>>, <<>>),
  Template("IsZero", 1, 2, 1, <<>>, <<>>),
  Template("AliasCheck", 1, 0, 0, <<>>, <<>>),
  Template("TACEO_REVEAL", 2, 1, 0, <<>>, <<>>),
  Template("Refused", 1, 1, 0, <<>>, <<Statement("Log")>>)>>

Good == 1 .. 10

(* Two of the first, one of the second, and once more one of the first.    *)
CreatingTemplate(h) ==
  LET a == Components[h[2]]
  IN  Template("Creating", 4, 2, 0, <<<<3, h[2]>>, <<3, h[2]>>, <<3, h[3]>>, <<3, h[2]>>>>,
               <<Create(<<3, h[2]>>, 2, 6, 9), Create(<<3, h[3]>>, 1, 30, 0)>>
               \o Feed(U32(1), a.ins, a.outs)
               \o <<If(Value(1), <<Create(<<3, h[2]>>, 1, 50, 0)>>, <<>>)>>
               \o (IF a.outs = 0 THEN <<>> ELSE <<Put(0, Port(U32(1), U32(0)))>>))

CreatingHeaders == {<<4, a, b>> : a \in DOMAIN Components, b \in DOMAIN Components}

CreatingLowerable == {h \in CreatingHeaders : {h[2], h[3]} \subseteq Good}
-----------------------------------------------------------------------------
MCMains     == CountingHeaders \cup NestedHeaders \cup CreatingHeaders
MCLowerable == CountingLowerable \cup NestedLowerable \cup CreatingLowerable

MCTemplates ==
  [h \in MCMains \cup {<<3, c>> : c \in DOMAIN Components} |->
     CASE h[1] = 1 -> CountingTemplate(h)
       [] h[1] = 2 -> NestedTemplate(h)
       [] h[1] = 3 -> Components[h[2]]
       [] h[1] = 4 -> CreatingTemplate(h)]

MCBuilds == {<<TRUE, TRUE>>, <<FALSE, FALSE>>}
-----------------------------------------------------------------------------
(* Loops that circom runs and that do not count: the induction variable is *)
(* also stored under a condition, the bound moves, or the condition is on  *)
(* another variable than the last store.                                   *)
Up(variable) == Set(variable, Add(variable, Value(1)))

Below(x, bound) == Compute("Lesser", <<x, bound>>)

ShapedLoops == <<
  Loop(Below(i, Value(3)), <<Branch(Below(acc, Value(1)), <<Up(i)>>, <<>>), Up(acc), Up(i)>>),
  Loop(Below(i, n), <<Set(n, Sub(n, Value(1))), Up(i)>>),
  Loop(Below(i, Value(3)), <<Up(i), Up(acc)>>)>>

ShapedBody(loop, start) ==
  <<Set(i, Value(0)), Set(n, Value(4)), Set(acc, Value(start)), loop,
    Put(0, i), Put(1, n), Put(2, acc)>>

ShapedMains == (DOMAIN ShapedLoops) \X {0, 5}

ShapedTemplates ==
  [h \in ShapedMains |->
     Template("Shaped", 0, 3, 0, <<>>, ShapedBody(ShapedLoops[h[1]], h[2]))]

ShapedBuilds == {<<TRUE, TRUE>>}
=============================================================================
