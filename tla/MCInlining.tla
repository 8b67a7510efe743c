----------------------------- MODULE MCInlining -----------------------------
(***************************************************************************)
(* Templates of two components, in every order of their assignments that   *)
(* circom accepts: leaves, gadgets, or templates of two components again,  *)
(* with and without signals of their own in between.                       *)
(***************************************************************************)
EXTENDS Inlining

(* A component without its place, and its span of flat signals.            *)
Leaf(outs, ins, inters, body) ==
  [sub |-> Compiled([outs |-> outs, ins |-> ins, subs |-> <<>>, body |-> body], 0),
   span |-> outs + ins + inters]

Service(kind, outs, ins, inters, precomputed) ==
  [sub |-> GadgetOf(kind, outs, ins, inters, precomputed), span |-> outs + ins + inters]

Square == Leaf(1, 1, 0, <<Assign(Signal(0), "Mul", <<Signal(1), Signal(1)>>)>>)
Twice  == Leaf(1, 2, 1, <<Assign(Signal(3), "Mul", <<Signal(1), Signal(2)>>),
                          Assign(Variable(0), "Sub", <<Signal(3), Literal(2)>>),
                          Assign(Variable(0), "Add", <<Variable(0), Signal(3)>>),
                          Assign(Signal(0), "Copy", <<Variable(0)>>)>>)
Check  == Leaf(0, 1, 1, <<Assign(Signal(1), "Mul", <<Signal(0), Signal(0)>>)>>)
Ignore == Leaf(1, 1, 0, <<Assign(Signal(0), "Copy", <<Literal(3)>>)>>)

IsZero  == Service("IsZero", 1, 1, 1, FALSE)
Reveal2 == Service("Reveal2", 2, 2, 0, FALSE)
Hosted  == Service("Poseidon2", 2, 2, 1, TRUE)
Widened == Service("IsZero", 1, 1, 2, FALSE)

(* Components are placed behind their creator's own signals.               *)
Place(outs, ins, c, d, body) ==
  [outs |-> outs, ins |-> ins, body |-> body,
   subs |-> <<[c.sub EXCEPT !.offset = outs + ins],
              [d.sub EXCEPT !.offset = outs + ins + c.span]>>]

(* c is fed from x and y, d from c, or from x when c has no output.        *)
Assignments(outs, x, y, c, d) ==
  LET first == IF c.sub.outs > 0 THEN Port(1, 0) ELSE x
      last  == IF d.sub.outs > 0 THEN Port(2, d.sub.outs - 1) ELSE y
  IN  [k \in 1 .. c.sub.ins |->
         Assign(Port(1, c.sub.outs + k - 1), "Copy", <<IF k = 1 THEN x ELSE y>>)]
      \o [k \in 1 .. d.sub.ins |->
            Assign(Port(2, d.sub.outs + k - 1), "Add", <<first, y>>)]
      \o [k \in 1 .. outs |-> Assign(Signal(0), "Mul", <<first, last>>)]

Orders(body) ==
  {[n \in DOMAIN body |-> body[order[n]]] : order \in Permutations(DOMAIN body)}

WithSignals(c, d) ==
  {t \in {Place(1, 2, c, d, body) :
            body \in Orders(Assignments(1, Signal(1), Signal(2), c, d))} : Accepted(t)}

Signalless(c, d) ==
  {t \in {Place(0, 0, c, d, body) :
            body \in Orders(Assignments(0, Literal(2), Literal(4), c, d))} : Accepted(t)}

Nested(t, c, d) == [sub |-> Compiled(t, 0), span |-> t.outs + t.ins + c.span + d.span]

Inner == {<<Twice, IsZero>>, <<IsZero, Check>>, <<Reveal2, Square>>}

Nests == UNION {{Nested(t, p[1], p[2]) : t \in WithSignals(p[1], p[2])} : p \in Inner}

Components == {Square, Twice, Check, Ignore, IsZero, Reveal2, Hosted, Widened}

MCMains ==
  UNION {WithSignals(c, d) \cup Signalless(c, d) : c, d \in Components}
    \cup UNION {WithSignals(c, d) : c \in Nests, d \in {Square, IsZero}}
    \cup UNION {Signalless(c, d) : c \in Nests, d \in Nests}

(* The main component's two inputs; its other flat signals are no inputs.  *)
Vector(x, y) == [s \in 0 .. 8 |-> CASE s = 1 -> x [] s = 2 -> y [] OTHER -> 4]

MCInputVectors == {Vector(3, 1), Vector(0, 2)}
-----------------------------------------------------------------------------
(* A component whose input is a product of main's inputs and whose body    *)
(* never reads it.                                                         *)
Feeding ==
  [outs |-> 1, ins |-> 2, subs |-> <<[Ignore.sub EXCEPT !.offset = 3]>>,
   body |-> <<Assign(Port(1, 1), "Mul", <<Signal(1), Signal(2)>>),
              Assign(Signal(0), "Copy", <<Port(1, 0)>>)>>]

UnreadMains == {Feeding}

UnreadInputs == {[s \in 1 .. 2 |-> s]}
=============================================================================
