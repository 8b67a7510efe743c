---------------------------- MODULE SharedDriver ----------------------------
(***************************************************************************)
(* The rep3 driver: a value is split into three summands, party p holds    *)
(* its own and its predecessor's. Sums and public factors are local work;  *)
(* products, openings and the gadgets take exchanges, which all three      *)
(* parties take part in (ThreeParties). It implements PlainDriver: what    *)
(* the three parties' shares sum up to is the value.                       *)
(*                                                                         *)
(* The shares' arithmetic is that of the mpc-core library, external and    *)
(* modelled here from its use; the protocols built on it are the           *)
(* repository's own.                                                       *)
(***************************************************************************)
EXTENDS Integers, Sequences, SequencesExt

CONSTANTS
  P, Starts, PublicValues, Window, BitCounts, Pairs, Limit, AliasSites,
  MaxCalls,     \* bound: calls of a run
  Randomness,   \* the pairs two summands of a fresh sharing are drawn from
  ZeroShares,   \* the correlated randomness: triples that sum up to zero
  Masks         \* the values a random mask may have: not zero, or a zero test errs

Field == 0 .. (P - 1)

ASSUME FieldAssumption == P \in Nat /\ P > 1 /\ \A d \in 2 .. (P - 1) : P % d # 0

ASSUME StartsAssumption ==
  /\ Window \in Nat
  /\ \A start \in Starts : start \in Seq(Field) /\ Len(start) >= Window
  /\ PublicValues \subseteq Field

(* One site or two, as of every batch here.                                *)
ASSUME GadgetAssumption ==
  /\ BitCounts \subseteq Nat
  /\ Pairs \in Nat /\ Pairs > 0
  /\ Limit \in [1 .. (2 * Pairs) -> {0, 1}]
  /\ \A places \in AliasSites :
       \E sites \in {1, 2} : places \in [1 .. (sites * (2 * Pairs)) -> 1 .. Window]

ASSUME RandomnessAssumption ==
  /\ \A r \in Randomness : r[1] \in Field /\ r[2] \in Field
  /\ \A zero \in ZeroShares : /\ \A p \in 1 .. 3 : zero[p] \in Field
                              /\ (zero[1] + zero[2] + zero[3]) % P = 0
  /\ Masks \subseteq Field \ {0}

VARIABLES
  shares,   \* the register file: per register a sharing, per party its two summands
  opened,   \* per party, the last values revealed to it
  calls     \* the calls made

vars == <<shares, opened, calls>>

Parties == 1 .. 3
Prev(p) == IF p = 1 THEN 3 ELSE p - 1
-----------------------------------------------------------------------------
(* Replicated sharings (external): a sharing is, per party, its share.     *)

Sharing(x, y, z) ==
  <<[a |-> x % P, b |-> z % P], [a |-> y % P, b |-> x % P], [a |-> z % P, b |-> y % P]>>

FreshSharing(x, r) == Sharing(r[1], r[2], x - r[1] - r[2])

Combine(s) == (s[1].a + s[2].a + s[3].a) % P

Plus(x, y)  == [a |-> (x.a + y.a) % P, b |-> (x.b + y.b) % P]
Minus(x, y) == [a |-> (x.a - y.a) % P, b |-> (x.b - y.b) % P]
Times(x, v) == [a |-> (x.a * v) % P, b |-> (x.b * v) % P]

Add(s, t)       == <<Plus(s[1], t[1]), Plus(s[2], t[2]), Plus(s[3], t[3])>>
Sub(s, t)       == <<Minus(s[1], t[1]), Minus(s[2], t[2]), Minus(s[3], t[3])>>
MulPublic(s, v) == <<Times(s[1], v), Times(s[2], v), Times(s[3], v)>>

(* Mutant: the second party forgets its copy of the first one's summand.   *)
PromoteTrivial_OneSided(v) ==
  <<[a |-> v % P, b |-> 0], [a |-> 0, b |-> 0], [a |-> 0, b |-> 0]>>

(* The first party's summand is the value; the second holds the copy.      *)
PromoteTrivial(v) == <<[a |-> v % P, b |-> 0], [a |-> 0, b |-> v % P], [a |-> 0, b |-> 0]>>

AddPublic(s, v) == Add(s, PromoteTrivial(v))

(* A party's summand of a product, masked by its summand of zero.          *)
LocalMul(x, y, zero) == (x.a * y.a + x.a * y.b + x.b * y.a + zero) % P

(* Reshared: each summand is sent to the next party.                       *)
Product(s, t, zero) ==
  Sharing(LocalMul(s[1], t[1], zero[1]), LocalMul(s[2], t[2], zero[2]),
          LocalMul(s[3], t[3], zero[3]))

(* Each party is sent the one summand it lacks, its predecessor's b.       *)
OpenAt(p, s) == (s[p].a + s[p].b + s[Prev(p)].b) % P

(* The broadcast of masked summands opens a product without resharing it.  *)
MulOpen(s, t, zero) ==
  (LocalMul(s[1], t[1], zero[1]) + LocalMul(s[2], t[2], zero[2])
    + LocalMul(s[3], t[3], zero[3])) % P
-----------------------------------------------------------------------------
(* The protocols of the repository.                                        *)

(* The powers of a mask, prepared in three exchanges.                      *)
Powers(r, zero) ==
  LET r2 == Product(r, r, zero)
      r4 == Product(r2, r2, zero)
  IN  <<r, r2, Product(r, r2, zero), r4, Product(r, r4, zero)>>

(* Mutant: one coefficient of the fourth power is that of the fifth.       *)
SboxOf_WrongCoefficient(y, m) ==
  LET y2 == y * y
      y4 == y2 * y2
  IN  <<AddPublic(Add(MulPublic(m[1], 2 * y), m[2]), y2),
        AddPublic(Add(Add(Add(MulPublic(m[1], 4 * (y * y2)), MulPublic(m[2], 10 * y2)),
                          MulPublic(m[3], 4 * y)), m[4]), y4),
        AddPublic(Add(Add(Add(Add(MulPublic(m[1], 5 * y4), MulPublic(m[2], 10 * (y * y2))),
                              MulPublic(m[3], 10 * y2)), MulPublic(m[4], 5 * y)), m[5]),
                  y * y4)>>

(* From the opened y = x - r and the shared powers of r, by binomial       *)
(* expansion: x^2, x^4 and x^5.                                            *)
SboxOf(y, m) ==
  LET y2 == y * y
      y4 == y2 * y2
  IN  <<AddPublic(Add(MulPublic(m[1], 2 * y), m[2]), y2),
        AddPublic(Add(Add(Add(MulPublic(m[1], 4 * (y * y2)), MulPublic(m[2], 6 * y2)),
                          MulPublic(m[3], 4 * y)), m[4]), y4),
        AddPublic(Add(Add(Add(Add(MulPublic(m[1], 5 * y4), MulPublic(m[2], 10 * (y * y2))),
                              MulPublic(m[3], 10 * y2)), MulPublic(m[4], 5 * y)), m[5]),
                  y * y4)>>

FieldInverse(x) == CHOOSE y \in Field : (x * y) % P = 1

(* Whether x is zero comes out of a conversion to bits and back; adding it *)
(* to x makes x invertible, and taking it off the inverse undoes that.     *)
IsZeroOf(x, r) ==
  LET isZero == FreshSharing(IF Combine(x) = 0 THEN 1 ELSE 0, r)
      inverse == FreshSharing(FieldInverse(Combine(Add(x, isZero))), r)
  IN  <<isZero, Sub(inverse, isZero)>>

(* One exchange: the product with a fresh mask is opened. It is zero when  *)
(* x is (or when the mask is), and otherwise unmasks the inverse of x.     *)
IsZeroRevealOf(x, mask, zero) ==
  LET product == MulOpen(x, mask, zero)
  IN  IF product = 0
      THEN [flag |-> PromoteTrivial(1), helper |-> PromoteTrivial(0), revealed |-> 1]
      ELSE [flag |-> PromoteTrivial(0), helper |-> MulPublic(mask, FieldInverse(product)),
            revealed |-> 0]

BitOf(x, j) == IF (x \div 2 ^ (j - 1)) % 2 = 1 THEN 1 ELSE 0

(* A conversion to binary shares, by either strategy, of which the lowest  *)
(* bits are converted back one by one (both conversions external).         *)
BitsOf(x, count, r) == [j \in 1 .. count |-> FreshSharing(BitOf(Combine(x), j), r)]

Weights[n \in 0 .. Pairs] ==
  IF n = 0 THEN [a |-> 1, b |-> 2 ^ (Pairs + 1) - 1, e |-> 1]
  ELSE LET w == Weights[n - 1]
       IN  [a |-> w.a + w.e, b |-> w.b - w.e, e |-> w.e + w.e]

(* What the n-th pair of an alias check adds: public weights times the     *)
(* pair's shared product and its bits, and a public summand.               *)
PartOf(n, product, high, low) ==
  LET w == Weights[n - 1]
  IN  CASE Limit[2 * n] = 0 /\ Limit[2 * n - 1] = 0 ->
             Add(Add(MulPublic(product, -w.b), MulPublic(high, w.b)), MulPublic(low, w.b))
        [] Limit[2 * n] = 0 /\ Limit[2 * n - 1] = 1 ->
             AddPublic(Sub(Add(Sub(MulPublic(product, w.a), MulPublic(low, w.a)),
                               MulPublic(high, w.b)),
                           MulPublic(high, w.a)), w.a)
        [] Limit[2 * n] = 1 /\ Limit[2 * n - 1] = 0 ->
             AddPublic(Sub(MulPublic(product, w.b), MulPublic(high, w.a)), w.a)
        [] Limit[2 * n] = 1 /\ Limit[2 * n - 1] = 1 ->
             AddPublic(MulPublic(product, -w.a), w.a)

ZeroShare == Sharing(0, 0, 0)

SumOf(parts) ==
  LET sum[n \in 0 .. Pairs] == IF n = 0 THEN ZeroShare ELSE Add(sum[n - 1], parts[n])
  IN  sum[Pairs]

(* The signals of a site, in the order of the template's.                  *)
AliasSignals(ins, parts, sum, bits) ==
  <<bits[Pairs + 1]>> \o ins \o parts \o <<sum>> \o bits \o <<sum>>

(* Mutant: every site takes the first one's products.                      *)
ChunkOf_First(products, s) == [n \in 1 .. Pairs |-> products[n]]

ChunkOf(products, s) == [n \in 1 .. Pairs |-> products[(s - 1) * Pairs + n]]

(* One site, from its inputs and its chunk of the products.                *)
AliasTrace(ins, products, r) ==
  LET parts == [n \in 1 .. Pairs |-> PartOf(n, products[n], ins[2 * n], ins[2 * n - 1])]
      sum   == SumOf(parts)
  IN  AliasSignals(ins, parts, sum, BitsOf(sum, Pairs + 8, r))
-----------------------------------------------------------------------------

Operands == (Len(shares) - Window + 1) .. Len(shares)

Vectors == {<<i>> : i \in Operands} \cup {<<i, j>> : i, j \in Operands}

AliasVectors == {[n \in DOMAIN places |-> Len(shares) - Window + places[n]] : places \in AliasSites}

Init ==
  /\ \E start \in Starts, r \in Randomness :
       shares = [n \in DOMAIN start |-> FreshSharing(start[n], r)]
  /\ opened = [p \in Parties |-> <<>>]
  /\ calls = 0

Called == calls < MaxCalls /\ calls' = calls + 1

Obtain(results) == Called /\ shares' = shares \o results

Local(results) == Obtain(results) /\ UNCHANGED opened

Promote(v)  == Local(<<PromoteTrivial(v)>>)
AddSS(i, j) == Local(<<Add(shares[i], shares[j])>>)
SubSS(i, j) == Local(<<Sub(shares[i], shares[j])>>)
AddSP(i, v) == Local(<<AddPublic(shares[i], v)>>)
SubSP(i, v) == Local(<<AddPublic(shares[i], -v)>>)
SubPS(v, i) == Local(<<AddPublic(MulPublic(shares[i], -1), v)>>)
MulSP(i, v) == Local(<<MulPublic(shares[i], v)>>)

MulVec(lhs, rhs, zero) ==
  Local([n \in DOMAIN lhs |-> Product(shares[lhs[n]], shares[rhs[n]], zero)])

Open(xs) ==
  /\ Called
  /\ opened' = [p \in Parties |-> [n \in DOMAIN xs |-> OpenAt(p, shares[xs[n]])]]
  /\ UNCHANGED shares

(* Each element takes a mask of its own; what is opened stays inside.      *)
SboxLayer(xs, mask, r, zero) ==
  LET m(n) == Powers(FreshSharing(mask + n, r), zero)
      y(n) == OpenAt(1, Sub(shares[xs[n]], m(n)[1]))
  IN  Local(FlattenSeq([n \in DOMAIN xs |-> SboxOf(y(n), m(n))]))

IsZeroTraces(xs, r) ==
  Local(FlattenSeq([n \in DOMAIN xs |-> IsZeroOf(shares[xs[n]], r)]))

IsZeroRevealTraces(xs, mask, r, zero) ==
  LET trace == [n \in DOMAIN xs |-> IsZeroRevealOf(shares[xs[n]], FreshSharing(mask, r), zero)]
  IN  /\ Obtain(FlattenSeq([n \in DOMAIN xs |-> <<trace[n].flag, trace[n].helper>>]))
      /\ opened' = [p \in Parties |-> [n \in DOMAIN xs |-> trace[n].revealed]]

Num2BitsTraces(count, xs, r) ==
  Local(FlattenSeq([n \in DOMAIN xs |-> BitsOf(shares[xs[n]], count, r)]))

(* The products of all sites take one exchange; each site finds its own    *)
(* among them by its place.                                                *)
AliasCheckTraces(xs, r, zero) ==
  LET sites    == Len(xs) \div (2 * Pairs)
      products == [k \in 1 .. (sites * Pairs) |->
                     Product(shares[xs[2 * k - 1]], shares[xs[2 * k]], zero)]
  IN  Local(FlattenSeq([s \in 1 .. sites |->
        AliasTrace([n \in 1 .. (2 * Pairs) |-> shares[xs[(s - 1) * (2 * Pairs) + n]]],
                   ChunkOf(products, s), r)]))

Finished == calls = MaxCalls /\ UNCHANGED vars

Next ==
  \/ \E v \in PublicValues : Promote(v)
  \/ \E i, j \in Operands : AddSS(i, j) \/ SubSS(i, j)
  \/ \E i \in Operands, v \in PublicValues :
       AddSP(i, v) \/ SubSP(i, v) \/ SubPS(v, i) \/ MulSP(i, v)
  \/ \E xs, ys \in Vectors, zero \in ZeroShares : Len(xs) = Len(ys) /\ MulVec(xs, ys, zero)
  \/ \E xs \in Vectors, r \in Randomness : Open(xs) \/ IsZeroTraces(xs, r)
  \/ \E xs \in Vectors, mask \in Masks, r \in Randomness, zero \in ZeroShares :
       SboxLayer(xs, mask, r, zero) \/ IsZeroRevealTraces(xs, mask, r, zero)
  \/ \E xs \in Vectors, count \in BitCounts, r \in Randomness : Num2BitsTraces(count, xs, r)
  \/ \E xs \in AliasVectors, r \in Randomness, zero \in ZeroShares :
       AliasCheckTraces(xs, r, zero)
  \/ Finished

Spec == Init /\ [][Next]_vars
-----------------------------------------------------------------------------
(* Properties.                                                             *)

(* Every register stays a replicated sharing whatever call produced it:    *)
(* the summand two parties hold is the same at both. A sharing that is not *)
(* still combines to the right value, and corrupts the next product.       *)
Replicated ==
  \A n \in DOMAIN shares : \A p \in Parties : shares[n][p].b = shares[n][Prev(p)].a

(* A revealed value is the same at all parties: their machines branch into *)
(* public arithmetic from there on. Parties that disagree reveal nothing a *)
(* plain driver could.                                                     *)
Revealed == IF \A p \in Parties : opened[p] = opened[1] THEN opened[1] ELSE <<P>>

Plain == INSTANCE PlainDriver WITH
           regs <- [n \in DOMAIN shares |-> Combine(shares[n])], opened <- Revealed

(* Every call of the rep3 driver, and every layer of a permutation's walk, *)
(* yields, summed up, what the plain driver yields: so does a shared run,  *)
(* which consists of such calls.                                           *)
ImplementsPlain == Plain!Spec
=============================================================================
