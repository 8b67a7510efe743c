----------------------------- MODULE BucketCode -----------------------------
(***************************************************************************)
(* The code circom hands over for a template, and what running it means:   *)
(* loops run as long as their condition holds, all arithmetic, also that   *)
(* of addresses, is the field's, and a comparison is one of signed         *)
(* numbers. The meaning of a template is what it assigns to signals and to *)
(* its components' inputs, and the components it creates, in this order.   *)
(*                                                                         *)
(* A template is [name, ins, outs, inters, triggers, body]; signals number *)
(* outputs first, then inputs, then the others.                            *)
(***************************************************************************)
EXTENDS Folding, Sequences, FiniteSetsExt

CONSTANTS
  Templates,   \* a function from headers to templates
  Seeds,       \* valuations of the signals that are read
  Fuel         \* bound: iterations of a loop that are run

(* Expressions.                                                            *)
Value(n) == [kind |-> "Value", op |-> "BigInt", value |-> n, args |-> <<>>]
U32(n)   == [kind |-> "Value", op |-> "U32", value |-> n, args |-> <<>>]

Compute(op, args) == [kind |-> "Compute", op |-> op, value |-> 0, args |-> args]

(* Read where they stand for a value, written where they are a destination. *)
Variable(at)  == [kind |-> "Load", op |-> "Variable", value |-> 0, args |-> <<at>>]
Signal(at)    == [kind |-> "Load", op |-> "Signal", value |-> 0, args |-> <<at>>]
Port(cmp, at) == [kind |-> "Load", op |-> "Port", value |-> 0, args |-> <<at, cmp>>]

(* An address by name, as in a bus.                                        *)
Mapped == [kind |-> "Mapped", op |-> "", value |-> 0, args |-> <<>>]

(* Instructions. A size above one is that of an array; an array of several *)
(* components' signals has none.                                           *)
Several == 0

Store(dest, size, src)         == [kind |-> "Store", dest |-> dest, size |-> size, src |-> src]
Branch(cond, taken, otherwise) ==
  [kind |-> "Branch", cond |-> cond, taken |-> taken, otherwise |-> otherwise]
Loop(cond, body)               == [kind |-> "Loop", cond |-> cond, body |-> body]
Create(symbol, count, offset, jump) ==
  [kind |-> "Create", symbol |-> symbol, count |-> count, offset |-> offset, jump |-> jump]

Assertion       == [kind |-> "Assert"]
Statement(kind) == [kind |-> kind]      \* a call, a return or a log

(* F of the value of x, which TLC evaluates once.                          *)
Of(F(_), x) == CHOOSE y \in {F(v) : v \in {x}} : TRUE
-----------------------------------------------------------------------------
(* Running it.                                                             *)

(* What a signal carries, one of its own or a component's.                 *)
Carried(seed, cmp, index) == (seed + 17 * cmp + 5 * index) % P

Signed(x) == IF x > P \div 2 THEN x - P ELSE x

Bit(x, j) == (x \div 2 ^ j) % 2

Bitwise2(x, y, B(_, _)) == MapThenSumSet(LAMBDA j : 2 ^ j * B(Bit(x, j), Bit(y, j)), 0 .. 7) % P

(* The two address operators of circom are a product and a sum.            *)
Operator(op, x, y) ==
  CASE op \in {"Add", "AddAddress"} -> (x + y) % P
    [] op = "Sub"                   -> (x - y) % P
    [] op \in {"Mul", "MulAddress"} -> (x * y) % P
    [] op = "Mod"                   -> x % y
    [] op = "Div"                   -> CHOOSE z \in 0 .. (P - 1) : (z * y) % P = x
    [] op = "IntDiv"                -> x \div y
    [] op = "Pow"                   -> Power(x, y)
    [] op = "ShiftL"                -> (x * 2 ^ y) % P
    [] op = "ShiftR"                -> x \div 2 ^ y
    [] op = "BitAnd"                -> Bitwise2(x, y, LAMBDA a, b : a * b)
    [] op = "BitOr"                 -> Bitwise2(x, y, LAMBDA a, b : a + b - a * b)
    [] op = "BitXor"                -> Bitwise2(x, y, LAMBDA a, b : (a + b) % 2)
    [] op = "Eq"                    -> Truth(x = y)
    [] op = "NotEq"                 -> Truth(x # y)
    [] op = "Lesser"                -> Truth(Signed(x) < Signed(y))
    [] op = "LesserEq"              -> Truth(Signed(x) <= Signed(y))
    [] op = "Greater"               -> Truth(Signed(x) > Signed(y))
    [] op = "GreaterEq"             -> Truth(Signed(x) >= Signed(y))
    [] op = "BoolAnd"               -> Truth(x * y # 0)
    [] op = "BoolOr"                -> Truth(x + y # 0)

Unary(op, x) ==
  CASE op = "ToAddress" -> x
    [] op = "BoolNot"   -> Truth(x = 0)

RECURSIVE Meaning(_, _, _)
Meaning(seed, variables, e) ==
  LET arg(n) == Meaning(seed, variables, e.args[n])
  IN  CASE e.kind = "Value"                          -> e.value
        [] e.kind = "Load" /\ e.op = "Variable"      -> variables[arg(1)]
        [] e.kind = "Load" /\ e.op = "Signal"        -> Carried(seed, 0, arg(1))
        [] e.kind = "Load" /\ e.op = "Port"          -> Carried(seed, arg(2) + 1, arg(1))
        [] e.kind = "Compute" /\ Len(e.args) = 1     -> Unary(e.op, arg(1))
        [] e.kind = "Compute" /\ Len(e.args) = 2     -> Operator(e.op, arg(1), arg(2))

(* The n-th element of the array that starts at an address.                *)
Element(e, n) == [e EXCEPT !.args[1] = Compute("Add", <<@, Value(n)>>)]

Effect(kind, cmp, index, value) == [kind |-> kind, cmp |-> cmp, index |-> index, value |-> value]

Assignment(seed, run, dest, src) ==
  LET meant(e) == Meaning(seed, run.variables, e)
      index    == meant(dest.args[1])
  IN  CASE dest.op = "Variable" -> [run EXCEPT !.variables = [n \in DOMAIN @ \cup {index} |->
                                                                IF n = index THEN meant(src) ELSE @[n]]]
        [] dest.op = "Signal"   ->
             [run EXCEPT !.effects = Append(@, Effect("Signal", 0, index, meant(src)))]
        [] dest.op = "Port"     ->
             [run EXCEPT !.effects = Append(@, Effect("Port", meant(dest.args[2]), index, meant(src)))]

Created(inst) ==
  [n \in 1 .. inst.count |-> [symbol |-> inst.symbol, offset |-> inst.offset + (n - 1) * inst.jump]]

RECURSIVE Run(_, _, _)
Run(seed, run, code) ==
  LET Once(so_far, inst) ==
        CASE inst.kind = "Store" ->
               FoldLeft(LAMBDA acc, n :
                          Assignment(seed, acc,
                                     IF inst.size = 1 THEN inst.dest ELSE Element(inst.dest, n - 1),
                                     IF inst.size = 1 THEN inst.src ELSE Element(inst.src, n - 1)),
                        so_far, [n \in 1 .. inst.size |-> n])
          [] inst.kind = "Branch" ->
               Run(seed, so_far, IF Meaning(seed, so_far.variables, inst.cond) # 0
                                 THEN inst.taken ELSE inst.otherwise)
          [] inst.kind = "Loop" ->
               LET goes(r) == Meaning(seed, r.variables, inst.cond) # 0
                   ran == FoldLeft(LAMBDA acc, n : IF goes(acc) THEN Run(seed, acc, inst.body) ELSE acc,
                                   so_far, [n \in 1 .. Fuel |-> n])
               IN  Of(LAMBDA r : IF goes(r) THEN [r EXCEPT !.over = FALSE] ELSE r, ran)
          [] inst.kind = "Create" -> [so_far EXCEPT !.subs = @ \o Created(inst)]
          [] inst.kind = "Assert" -> so_far
  IN  FoldLeft(LAMBDA acc, inst : Of(LAMBDA r : Once(r, inst), acc), run, code)

(* over: every loop came to its end.                                       *)
Interpreted(seed, header) ==
  Run(seed, [variables |-> <<>>, effects |-> <<>>, subs |-> <<>>, over |-> TRUE],
      Templates[header].body)
=============================================================================
