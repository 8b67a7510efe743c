------------------------- MODULE SharedDriverProofs -------------------------
(***************************************************************************)
(* The rep3 driver implements the plain one, for every prime field, every  *)
(* randomness the protocols draw and every sequence of calls. The heart is *)
(* Shares(s, v): s is a replicated sharing whose summands add up to v      *)
(* modulo P. Every operation on sharings is shown to keep it, the          *)
(* protocols are sequences of those operations, and a register obtained by *)
(* a call shares the value the plain driver obtains by the same call.      *)
(* An alias check adds up Pairs parts, each of which shares the plain one: *)
(* both sums are the last of a list that goes on by one part at a time.    *)
(***************************************************************************)
EXTENDS SharedDriver, NumberTheorems, TLAPS

Sharings == {Sharing(x, y, z) : x, y, z \in Int}

Shares(s, v) == s \in Sharings /\ v \in Int /\ Congruent(Combine(s), v, P)

(* The modulus is a prime.                                                 *)
LEMMA Modulus ==
  P \in Nat /\ P > 0 /\ P > 1 /\ Prime(P)
  BY FieldAssumption DEF Prime

(* Remainders modulo P are in the field.                                   *)
LEMMA InField ==
  ASSUME NEW x \in Int
  PROVE  /\ (x % P) \in Field /\ (x % P) \in Int
         /\ Congruent((x % P), x, P) /\ Congruent(x, (x % P), P)
<1>1. (x % P) \in 0 .. (P - 1) /\ Congruent((x % P), x, P)
  BY Modulus, Remainder
<1>2. (x % P) \in Int
  BY <1>1, Modulus
<1>3. Congruent(x, (x % P), P)
  BY <1>1, <1>2, Modulus, CongruentFlipped
<1> QED
  BY <1>1, <1>2, <1>3 DEF Field

(* What is known of the parts of a sharing.                                *)
LEMMA SharingParts ==
  ASSUME NEW x \in Int, NEW y \in Int, NEW z \in Int
  PROVE  LET s == Sharing(x, y, z)
         IN  /\ s[1].a = (x % P) /\ s[1].b = (z % P)
             /\ s[2].a = (y % P) /\ s[2].b = (x % P)
             /\ s[3].a = (z % P) /\ s[3].b = (y % P)
  BY DEF Sharing

(* The summands of a sharing add up to its value.                          *)
LEMMA CombineSharing ==
  ASSUME NEW x \in Int, NEW y \in Int, NEW z \in Int
  PROVE  /\ Combine(Sharing(x, y, z)) \in Field
         /\ Shares(Sharing(x, y, z), x + y + z)
<1> DEFINE s == Sharing(x, y, z)
<1>1. PICK a \in Field : a = (x % P) /\ a \in Int /\ Congruent(a, x, P)
  BY InField
<1>2. PICK b \in Field : b = (y % P) /\ b \in Int /\ Congruent(b, y, P)
  BY InField
<1>3. PICK c \in Field : c = (z % P) /\ c \in Int /\ Congruent(c, z, P)
  BY InField
<1>4. s[1].a = a /\ s[2].a = b /\ s[3].a = c
  BY <1>1, <1>2, <1>3, SharingParts
<1> HIDE DEF s
<1>5. Combine(s) = ((a + b + c) % P)
  BY <1>4 DEF Combine
<1>6. Congruent(a + b, x + y, P)
  BY <1>1, <1>2, Modulus, CongruentSum
<1>7. Congruent((a + b) + c, (x + y) + z, P)
  BY <1>3, <1>6, <1>1, <1>2, Modulus, CongruentSum
<1>8. a + b + c \in Int /\ x + y + z \in Int
  BY <1>1, <1>2, <1>3
<1>9. PICK v \in Field : v = Combine(s) /\ v \in Int /\ Congruent(v, a + b + c, P)
  BY <1>5, <1>8, InField
<1>10. Congruent(v, x + y + z, P)
  BY <1>7, <1>8, <1>9, Modulus, CongruentThrough
<1>11. s \in Sharings
  BY DEF s, Sharings
<1> QED
  BY <1>8, <1>9, <1>10, <1>11 DEF s, Shares

-----------------------------------------------------------------------------
(* Remainders may be taken before or after an operation.                   *)
LEMMA RemainderOfSum ==
  ASSUME NEW x \in Int, NEW y \in Int
  PROVE  (((x % P) + (y % P)) % P) = ((x + y) % P)
<1>1. PICK a \in Int : a = (x % P) /\ Congruent(a, x, P)
  BY InField
<1>2. PICK b \in Int : b = (y % P) /\ Congruent(b, y, P)
  BY InField
<1>3. a + b \in Int /\ x + y \in Int /\ Congruent(a + b, x + y, P)
  BY <1>1, <1>2, Modulus, CongruentSum
<1>4. ((a + b) % P) = ((x + y) % P)
  BY <1>3, Modulus, SameRemainder
<1> QED
  BY <1>1, <1>2, <1>4

(* The same of a difference.                                               *)
LEMMA RemainderOfDifference ==
  ASSUME NEW x \in Int, NEW y \in Int
  PROVE  (((x % P) - (y % P)) % P) = ((x - y) % P)
<1>1. PICK a \in Int : a = (x % P) /\ Congruent(a, x, P)
  BY InField
<1>2. PICK b \in Int : b = (y % P) /\ Congruent(b, y, P)
  BY InField
<1>3. a - b \in Int /\ x - y \in Int /\ Congruent(a - b, x - y, P)
  BY <1>1, <1>2, Modulus, CongruentDifference
<1>4. ((a - b) % P) = ((x - y) % P)
  BY <1>3, Modulus, SameRemainder
<1> QED
  BY <1>1, <1>2, <1>4

(* The same of a product with a public factor.                             *)
LEMMA RemainderOfProduct ==
  ASSUME NEW x \in Int, NEW v \in Int
  PROVE  (((x % P) * v) % P) = ((x * v) % P)
<1>1. PICK a \in Int : a = (x % P) /\ Congruent(a, x, P)
  BY InField
<1>2. a * v \in Int /\ x * v \in Int
  BY Z3
<1>3. Congruent(a * v, x * v, P)
  BY <1>1, Modulus, CongruentSelf, CongruentProduct
<1>4. ((a * v) % P) = ((x * v) % P)
  BY <1>2, <1>3, Modulus, SameRemainder
<1> QED
  BY <1>1, <1>4

(* A public factor is multiplied to every summand.                         *)
LEMMA MulSharing ==
  ASSUME NEW x \in Int, NEW y \in Int, NEW z \in Int, NEW v \in Int
  PROVE  MulPublic(Sharing(x, y, z), v) = Sharing(x * v, y * v, z * v)
<1> DEFINE s == Sharing(x, y, z)
<1>1. /\ s[1].a = (x % P) /\ s[1].b = (z % P)
      /\ s[2].a = (y % P) /\ s[2].b = (x % P)
      /\ s[3].a = (z % P) /\ s[3].b = (y % P)
  BY SharingParts
<1> HIDE DEF s
<1>2. /\ (((x % P) * v) % P) = ((x * v) % P)
      /\ (((y % P) * v) % P) = ((y * v) % P)
      /\ (((z % P) * v) % P) = ((z * v) % P)
  BY RemainderOfProduct
<1>3. MulPublic(s, v) = Sharing(x * v, y * v, z * v)
  BY <1>1, <1>2, Zenon DEF MulPublic, Times, Sharing
<1> QED
  BY <1>3 DEF s

(* A public value is shared as a summand of its own and two zeros.         *)
LEMMA PromoteSharing ==
  ASSUME NEW v \in Int
  PROVE  PromoteTrivial(v) = Sharing(v, 0, 0)
<1>1. (0 % P) = 0
  BY Modulus, RemainderOfSmall
<1> QED
  BY <1>1, Zenon DEF PromoteTrivial, Sharing

-----------------------------------------------------------------------------
(* A sharing has three summands, which add up to the value it shares.      *)
LEMMA Summands ==
  ASSUME NEW s, NEW v, Shares(s, v)
  PROVE  \E x, y, z \in Int :
           /\ s = Sharing(x, y, z)
           /\ x + y + z \in Int
           /\ Congruent(x + y + z, v, P)
<1>1. s \in Sharings /\ v \in Int /\ Congruent(Combine(s), v, P)
  BY DEF Shares
<1>2. PICK x \in Int, y \in Int, z \in Int : s = Sharing(x, y, z)
  BY <1>1 DEF Sharings
<1>3. Combine(s) \in Field /\ Congruent(Combine(s), x + y + z, P)
  BY <1>2, CombineSharing DEF Shares
<1>4. Combine(s) \in Int /\ x + y + z \in Int
  BY <1>3 DEF Field
<1>5. Congruent(x + y + z, Combine(s), P)
  BY <1>3, <1>4, Modulus, CongruentFlipped
<1>6. Congruent(x + y + z, v, P)
  BY <1>1, <1>4, <1>5, Modulus, CongruentThrough
<1> QED
  BY <1>2, <1>4, <1>6

(* What is shared may be replaced by a congruent number.                   *)
LEMMA SharesCongruent ==
  ASSUME NEW s, NEW u \in Int, NEW v \in Int, Shares(s, u), Congruent(u, v, P)
  PROVE  Shares(s, v)
<1>1. s \in Sharings /\ Congruent(Combine(s), u, P)
  BY DEF Shares
<1>2. PICK x \in Int, y \in Int, z \in Int : s = Sharing(x, y, z)
  BY <1>1 DEF Sharings
<1>3. Combine(s) \in Int
  BY <1>2, CombineSharing, Modulus DEF Field
<1>4. Congruent(Combine(s), v, P)
  BY <1>1, <1>3, Modulus, CongruentThrough
<1> QED
  BY <1>1, <1>4 DEF Shares

(* Summands that add up to a number share it.                              *)
LEMMA SharingShares ==
  ASSUME NEW x \in Int, NEW y \in Int, NEW z \in Int, NEW v \in Int,
         Congruent(x + y + z, v, P)
  PROVE  Shares(Sharing(x, y, z), v)
<1>1. Shares(Sharing(x, y, z), x + y + z) /\ x + y + z \in Int
  BY CombineSharing DEF Shares
<1> QED
  BY <1>1, SharesCongruent

(* The parties combine what is shared.                                     *)
LEMMA Combined ==
  ASSUME NEW s, NEW v, Shares(s, v)
  PROVE  Combine(s) \in Field /\ Combine(s) = (v % P)
<1>1. s \in Sharings /\ v \in Int /\ Congruent(Combine(s), v, P)
  BY DEF Shares
<1>2. PICK x \in Int, y \in Int, z \in Int : s = Sharing(x, y, z)
  BY <1>1 DEF Sharings
<1>3. Combine(s) \in Field
  BY <1>2, CombineSharing
<1>4. PICK c \in 0 .. (P - 1) : c = Combine(s)
  BY <1>3 DEF Field
<1>5. c \in Int /\ (c % P) = c
  BY <1>4, Modulus, RemainderOfSmall
<1>6. (c % P) = (v % P)
  BY <1>1, <1>4, <1>5, Modulus, SameRemainder
<1> QED
  BY <1>3, <1>4, <1>5, <1>6

(* Sums of sharings share sums.                                            *)
LEMMA SharesSum ==
  ASSUME NEW s, NEW t, NEW u \in Int, NEW v \in Int, Shares(s, u), Shares(t, v)
  PROVE  Shares(Add(s, t), u + v)
<1>1. PICK x \in Int, y \in Int, z \in Int :
        s = Sharing(x, y, z) /\ x + y + z \in Int /\ Congruent(x + y + z, u, P)
  BY Summands
<1>2. PICK a \in Int, b \in Int, c \in Int :
        t = Sharing(a, b, c) /\ a + b + c \in Int /\ Congruent(a + b + c, v, P)
  BY Summands
<1>3. Congruent((x + y + z) + (a + b + c), u + v, P)
  BY <1>1, <1>2, Modulus, CongruentSum
<1>4. (x + y + z) + (a + b + c) = (x + a) + (y + b) + (z + c)
  OBVIOUS
<1>5. Congruent((x + a) + (y + b) + (z + c), u + v, P)
  BY <1>3, <1>4
<1>6. Shares(Sharing(x + a, y + b, z + c), u + v)
  BY <1>5, SharingShares
<1>7. Add(s, t) = Sharing(x + a, y + b, z + c)
  <2>1. /\ s[1].a = (x % P) /\ s[1].b = (z % P)
        /\ s[2].a = (y % P) /\ s[2].b = (x % P)
        /\ s[3].a = (z % P) /\ s[3].b = (y % P)
    BY <1>1 DEF Sharing
  <2>2. /\ t[1].a = (a % P) /\ t[1].b = (c % P)
        /\ t[2].a = (b % P) /\ t[2].b = (a % P)
        /\ t[3].a = (c % P) /\ t[3].b = (b % P)
    BY <1>2 DEF Sharing
  <2>3. /\ (((x % P) + (a % P)) % P) = ((x + a) % P)
        /\ (((y % P) + (b % P)) % P) = ((y + b) % P)
        /\ (((z % P) + (c % P)) % P) = ((z + c) % P)
    BY RemainderOfSum
  <2> QED
    BY <2>1, <2>2, <2>3, Zenon DEF Add, Plus, Sharing
<1> QED
  BY <1>6, <1>7, Zenon

(* Differences of sharings share differences.                              *)
LEMMA SharesDifference ==
  ASSUME NEW s, NEW t, NEW u \in Int, NEW v \in Int, Shares(s, u), Shares(t, v)
  PROVE  Shares(Sub(s, t), u - v)
<1>1. PICK x \in Int, y \in Int, z \in Int :
        s = Sharing(x, y, z) /\ x + y + z \in Int /\ Congruent(x + y + z, u, P)
  BY Summands
<1>2. PICK a \in Int, b \in Int, c \in Int :
        t = Sharing(a, b, c) /\ a + b + c \in Int /\ Congruent(a + b + c, v, P)
  BY Summands
<1>3. Congruent((x + y + z) - (a + b + c), u - v, P)
  BY <1>1, <1>2, Modulus, CongruentDifference
<1>4. (x + y + z) - (a + b + c) = (x - a) + (y - b) + (z - c)
  OBVIOUS
<1>5. Congruent((x - a) + (y - b) + (z - c), u - v, P)
  BY <1>3, <1>4
<1>6. Shares(Sharing(x - a, y - b, z - c), u - v)
  BY <1>5, SharingShares
<1>7. Sub(s, t) = Sharing(x - a, y - b, z - c)
  <2>1. /\ s[1].a = (x % P) /\ s[1].b = (z % P)
        /\ s[2].a = (y % P) /\ s[2].b = (x % P)
        /\ s[3].a = (z % P) /\ s[3].b = (y % P)
    BY <1>1 DEF Sharing
  <2>2. /\ t[1].a = (a % P) /\ t[1].b = (c % P)
        /\ t[2].a = (b % P) /\ t[2].b = (a % P)
        /\ t[3].a = (c % P) /\ t[3].b = (b % P)
    BY <1>2 DEF Sharing
  <2>3. /\ (((x % P) - (a % P)) % P) = ((x - a) % P)
        /\ (((y % P) - (b % P)) % P) = ((y - b) % P)
        /\ (((z % P) - (c % P)) % P) = ((z - c) % P)
    BY RemainderOfDifference
  <2> QED
    BY <2>1, <2>2, <2>3, Zenon DEF Sub, Minus, Sharing
<1> QED
  BY <1>6, <1>7, Zenon

(* A public factor of a sharing is a factor of what is shared.             *)
LEMMA SharesMultiple ==
  ASSUME NEW s, NEW u \in Int, NEW v \in Int, Shares(s, u)
  PROVE  Shares(MulPublic(s, v), u * v)
<1>1. PICK x \in Int, y \in Int, z \in Int :
        s = Sharing(x, y, z) /\ x + y + z \in Int /\ Congruent(x + y + z, u, P)
  BY Summands
<1>2. Congruent((x + y + z) * v, u * v, P)
  BY <1>1, Modulus, CongruentSelf, CongruentProduct
<1>3. /\ (x + y + z) * v = (x * v) + (y * v) + (z * v)
      /\ x * v \in Int /\ y * v \in Int /\ z * v \in Int /\ u * v \in Int
  BY Z3
<1>4. Congruent((x * v) + (y * v) + (z * v), u * v, P)
  BY <1>2, <1>3
<1>5. Shares(Sharing(x * v, y * v, z * v), u * v)
  BY <1>3, <1>4, SharingShares
<1> QED
  BY <1>1, <1>5, MulSharing

(* A promoted public value is shared.                                      *)
LEMMA SharesPromoted ==
  ASSUME NEW v \in Int
  PROVE  Shares(PromoteTrivial(v), v)
<1>1. Congruent(v + 0 + 0, v, P)
  BY Modulus, CongruentSelf
<1> QED
  BY <1>1, SharingShares, PromoteSharing

(* A public value added to a sharing is added to what is shared.           *)
LEMMA SharesPublicSum ==
  ASSUME NEW s, NEW u \in Int, NEW v \in Int, Shares(s, u)
  PROVE  Shares(AddPublic(s, v), u + v)
  BY SharesPromoted, SharesSum DEF AddPublic

(* A fresh sharing shares its value, whatever its summands are.            *)
LEMMA SharesFresh ==
  ASSUME NEW v \in Int, NEW r \in Randomness
  PROVE  Shares(FreshSharing(v, r), v)
<1>1. PICK a \in Int, b \in Int : a = r[1] /\ b = r[2]
  BY RandomnessAssumption, Modulus DEF Field
<1>2. a + b + (v - a - b) = v /\ v - a - b \in Int
  BY <1>1
<1>3. Congruent(a + b + (v - a - b), v, P)
  BY <1>2, Modulus, CongruentSelf
<1>4. Shares(Sharing(a, b, v - a - b), v)
  BY <1>2, <1>3, SharingShares
<1> QED
  BY <1>1, <1>4 DEF FreshSharing

-----------------------------------------------------------------------------
(* What the three parties hold of a sharing.                               *)
LEMMA HeldParts ==
  ASSUME NEW s, NEW v, Shares(s, v)
  PROVE  \E a, b, c \in Int :
           /\ s[1].a = a /\ s[1].b = c
           /\ s[2].a = b /\ s[2].b = a
           /\ s[3].a = c /\ s[3].b = b
           /\ Congruent(a + b + c, v, P)
<1>1. PICK x \in Int, y \in Int, z \in Int : s = Sharing(x, y, z)
  BY DEF Shares, Sharings
<1>2. PICK a \in Int : a = (x % P)
  BY InField
<1>3. PICK b \in Int : b = (y % P)
  BY InField
<1>4. PICK c \in Int : c = (z % P)
  BY InField
<1>5. /\ s[1].a = a /\ s[1].b = c
      /\ s[2].a = b /\ s[2].b = a
      /\ s[3].a = c /\ s[3].b = b
  BY <1>1, <1>2, <1>3, <1>4 DEF Sharing
<1>6. Combine(s) = ((a + b + c) % P) /\ a + b + c \in Int
  BY <1>5 DEF Combine
<1>7. v \in Int /\ Combine(s) \in Int /\ Congruent(Combine(s), v, P)
  BY <1>6, InField DEF Shares
<1>8. Congruent(a + b + c, Combine(s), P)
  BY <1>6, InField
<1>9. Congruent(a + b + c, v, P)
  BY <1>6, <1>7, <1>8, Modulus, CongruentThrough
<1> QED
  BY <1>5, <1>9

(* The correlated randomness adds up to zero.                              *)
LEMMA ZeroSummands ==
  ASSUME NEW zero \in ZeroShares
  PROVE  /\ zero[1] \in Int /\ zero[2] \in Int /\ zero[3] \in Int
         /\ Congruent(zero[1] + zero[2] + zero[3], 0, P)
<1>1. zero[1] \in Int /\ zero[2] \in Int /\ zero[3] \in Int
  BY RandomnessAssumption, Modulus DEF Field
<1>2. PICK n \in Int : n = zero[1] + zero[2] + zero[3]
  BY <1>1
<1>3. (n % P) = 0
  BY <1>2, RandomnessAssumption
<1>4. (0 % P) = 0
  BY Modulus, RemainderOfSmall
<1>5. Congruent(n, 0, P)
  BY <1>3, <1>4, Modulus, SameRemainderCongruent
<1> QED
  BY <1>1, <1>2, <1>5

(* One party's summand of a product, up to the modulus.                    *)
LEMMA LocalSummand ==
  ASSUME NEW x, NEW y, NEW w \in Int, NEW a \in Int, NEW b \in Int, NEW c \in Int,
         NEW d \in Int, x.a = a, x.b = b, y.a = c, y.b = d
  PROVE  /\ LocalMul(x, y, w) \in Int
         /\ Congruent(LocalMul(x, y, w), a * c + a * d + b * c + w, P)
<1>1. PICK n \in Int : n = a * c + a * d + b * c + w
  BY Z3
<1>2. LocalMul(x, y, w) = (n % P)
  BY <1>1, Zenon DEF LocalMul
<1>3. (n % P) \in Int /\ Congruent((n % P), n, P)
  BY InField
<1> QED
  BY <1>1, <1>2, <1>3, Zenon

(* The parties' summands of a product add up to the product: every pair of *)
(* summands of the factors is at exactly one party.                        *)
LEMMA ProductSummands ==
  ASSUME NEW s, NEW t, NEW u \in Int, NEW v \in Int, NEW zero \in ZeroShares,
         Shares(s, u), Shares(t, v)
  PROVE  \E k, l, m \in Int :
           /\ k = LocalMul(s[1], t[1], zero[1])
           /\ l = LocalMul(s[2], t[2], zero[2])
           /\ m = LocalMul(s[3], t[3], zero[3])
           /\ Congruent(k + l + m, u * v, P)
<1>1. PICK a \in Int, b \in Int, c \in Int :
        /\ s[1].a = a /\ s[1].b = c
        /\ s[2].a = b /\ s[2].b = a
        /\ s[3].a = c /\ s[3].b = b
        /\ Congruent(a + b + c, u, P)
  BY HeldParts
<1>2. PICK d \in Int, e \in Int, f \in Int :
        /\ t[1].a = d /\ t[1].b = f
        /\ t[2].a = e /\ t[2].b = d
        /\ t[3].a = f /\ t[3].b = e
        /\ Congruent(d + e + f, v, P)
  BY HeldParts
<1>3. PICK x \in Int, y \in Int, z \in Int :
        x = zero[1] /\ y = zero[2] /\ z = zero[3] /\ Congruent(x + y + z, 0, P)
  BY ZeroSummands
<1>4. PICK k \in Int : k = LocalMul(s[1], t[1], x)
                       /\ Congruent(k, a * d + a * f + c * d + x, P)
  BY <1>1, <1>2, LocalSummand, ZenonT(80)
<1>5. PICK l \in Int : l = LocalMul(s[2], t[2], y)
                       /\ Congruent(l, b * e + b * d + a * e + y, P)
  BY <1>1, <1>2, LocalSummand, ZenonT(80)
<1>6. PICK m \in Int : m = LocalMul(s[3], t[3], z)
                       /\ Congruent(m, c * f + c * e + b * f + z, P)
  BY <1>1, <1>2, LocalSummand, ZenonT(80)
<1>7. PICK k1 \in Int, l1 \in Int, m1 \in Int :
        /\ k1 = a * d + a * f + c * d + x
        /\ l1 = b * e + b * d + a * e + y
        /\ m1 = c * f + c * e + b * f + z
  BY Z3
<1>8. Congruent((k + l) + m, (k1 + l1) + m1, P)
  <2>1. Congruent(k, k1, P) /\ Congruent(l, l1, P) /\ Congruent(m, m1, P)
    BY <1>4, <1>5, <1>6, <1>7, Zenon
  <2>2. k + l \in Int /\ k1 + l1 \in Int
    OBVIOUS
  <2>3. Congruent(k + l, k1 + l1, P)
    BY <2>1, Modulus, CongruentSum
  <2> QED
    BY <2>1, <2>2, <2>3, Modulus, CongruentSum
<1>9. PICK n \in Int : n = (a + b + c) * (d + e + f)
  BY Z3
<1>10. (k1 + l1) + m1 = n + (x + y + z)
  BY <1>7, <1>9, Z3
<1>11. n + 0 = n /\ u * v \in Int
  BY Z3
<1>12. Congruent(n, u * v, P)
  BY <1>1, <1>2, <1>9, Modulus, CongruentProduct
<1>13. Congruent(n + (x + y + z), n + 0, P)
  <2>1. x + y + z \in Int /\ 0 \in Int /\ Congruent(n, n, P)
    BY Modulus, CongruentSelf
  <2>2. Congruent(x + y + z, 0, P)
    BY <1>3
  <2> QED
    BY <2>1, <2>2, Modulus, CongruentSum
<1>14. PICK g \in Int : g = (k + l) + m /\ Congruent(g, n + (x + y + z), P)
  BY <1>8, <1>10
<1>15. PICK h \in Int : h = n + (x + y + z)
  OBVIOUS
<1>16. Congruent(g, h, P) /\ Congruent(h, n, P)
  BY <1>11, <1>13, <1>14, <1>15
<1>17. Congruent(g, n, P)
  BY <1>16, Modulus, CongruentThrough
<1>18. Congruent(g, u * v, P)
  BY <1>11, <1>12, <1>17, Modulus, CongruentThrough
<1> QED
  BY <1>3, <1>4, <1>5, <1>6, <1>14, <1>18

(* A product is reshared.                                                  *)
LEMMA SharesProduct ==
  ASSUME NEW s, NEW t, NEW u \in Int, NEW v \in Int, NEW zero \in ZeroShares,
         Shares(s, u), Shares(t, v)
  PROVE  Shares(Product(s, t, zero), u * v)
<1>1. PICK k \in Int, l \in Int, m \in Int :
        /\ k = LocalMul(s[1], t[1], zero[1])
        /\ l = LocalMul(s[2], t[2], zero[2])
        /\ m = LocalMul(s[3], t[3], zero[3])
        /\ Congruent(k + l + m, u * v, P)
  BY ProductSummands
<1>2. PICK w \in Int : w = u * v
  BY Z3
<1>3. Shares(Sharing(k, l, m), w)
  BY <1>1, <1>2, SharingShares
<1>4. Product(s, t, zero) = Sharing(k, l, m)
  BY <1>1, Zenon DEF Product
<1> QED
  BY <1>2, <1>3, <1>4, Zenon

(* A product that is opened without being reshared.                        *)
LEMMA OpenedProduct ==
  ASSUME NEW s, NEW t, NEW u \in Int, NEW v \in Int, NEW zero \in ZeroShares,
         Shares(s, u), Shares(t, v)
  PROVE  MulOpen(s, t, zero) = ((u * v) % P)
<1>1. PICK k \in Int, l \in Int, m \in Int :
        /\ k = LocalMul(s[1], t[1], zero[1])
        /\ l = LocalMul(s[2], t[2], zero[2])
        /\ m = LocalMul(s[3], t[3], zero[3])
        /\ Congruent(k + l + m, u * v, P)
  BY ProductSummands
<1>2. PICK w \in Int : w = u * v
  BY Z3
<1>3. PICK n \in Int : n = k + l + m
  OBVIOUS
<1>4. Congruent(n, w, P)
  BY <1>1, <1>2, <1>3
<1>5. (n % P) = (w % P)
  BY <1>4, Modulus, SameRemainder
<1>6. MulOpen(s, t, zero) = (n % P)
  BY <1>1, <1>3, Zenon DEF MulOpen
<1> QED
  BY <1>2, <1>5, <1>6

(* Every party opens what is shared.                                       *)
LEMMA OpenedValue ==
  ASSUME NEW s, NEW v, Shares(s, v), NEW p \in Parties
  PROVE  OpenAt(p, s) = Combine(s)
<1>1. PICK a \in Int, b \in Int, c \in Int :
        /\ s[1].a = a /\ s[1].b = c
        /\ s[2].a = b /\ s[2].b = a
        /\ s[3].a = c /\ s[3].b = b
  BY HeldParts
<1>2. p \in {1, 2, 3}
  BY DEF Parties
<1>3. Combine(s) = ((a + b + c) % P)
  BY <1>1 DEF Combine
<1>4. OpenAt(1, s) = ((a + c + b) % P) /\ OpenAt(2, s) = ((b + a + c) % P)
      /\ OpenAt(3, s) = ((c + b + a) % P)
  BY <1>1 DEF OpenAt, Prev
<1>5. a + c + b = a + b + c /\ b + a + c = a + b + c /\ c + b + a = a + b + c
  OBVIOUS
<1> QED
  BY <1>2, <1>3, <1>4, <1>5
-----------------------------------------------------------------------------
(* The protocols.                                                          *)

(* Powers(r, _) shares the powers of what r shares.                        *)
LEMMA SharesPowers ==
  ASSUME NEW s, NEW r \in Int, NEW zero \in ZeroShares, Shares(s, r)
  PROVE  LET m == Powers(s, zero)
         IN  /\ m[1] = s
             /\ Shares(m[2], r * r)
             /\ Shares(m[3], r * (r * r))
             /\ Shares(m[4], (r * r) * (r * r))
             /\ Shares(m[5], r * ((r * r) * (r * r)))
<1> DEFINE m == Powers(s, zero)
<1>1. PICK q \in Int : q = r * r
  BY Z3
<1>2. PICK h \in Int : h = q * q
  BY Z3
<1>3. /\ m[1] = s
      /\ m[2] = Product(s, s, zero)
      /\ m[3] = Product(s, m[2], zero)
      /\ m[4] = Product(m[2], m[2], zero)
      /\ m[5] = Product(s, m[4], zero)
  BY DEF Powers
<1> HIDE DEF m
<1>4. Shares(m[2], q)
  BY <1>1, <1>3, SharesProduct
<1>5. Shares(m[3], r * q)
  BY <1>3, <1>4, SharesProduct
<1>6. Shares(m[4], h)
  BY <1>2, <1>3, <1>4, SharesProduct
<1>7. Shares(m[5], r * h)
  BY <1>3, <1>6, SharesProduct
<1> QED
  BY <1>1, <1>2, <1>3, <1>4, <1>5, <1>6, <1>7, Zenon DEF m

(* The binomial expansions of the square, the fourth and the fifth power.  *)
LEMMA Square ==
  ASSUME NEW y \in Int, NEW r \in Int
  PROVE  r * (2 * y) + r * r + y * y = (y + r) * (y + r)
  BY Z3

(* Of the fourth power.                                                    *)
LEMMA FourthPower ==
  ASSUME NEW y \in Int, NEW r \in Int
  PROVE  r * (4 * (y * (y * y))) + (r * r) * (6 * (y * y)) + (r * (r * r)) * (4 * y)
           + (r * r) * (r * r) + (y * y) * (y * y)
         = ((y + r) * (y + r)) * ((y + r) * (y + r))
  BY Z3

(* Of the fifth power.                                                     *)
LEMMA FifthPower ==
  ASSUME NEW y \in Int, NEW r \in Int
  PROVE  r * (5 * ((y * y) * (y * y))) + (r * r) * (10 * (y * (y * y)))
           + (r * (r * r)) * (10 * (y * y)) + ((r * r) * (r * r)) * (5 * y)
           + r * ((r * r) * (r * r)) + y * ((y * y) * (y * y))
         = (y + r) * (((y + r) * (y + r)) * ((y + r) * (y + r)))
  BY Z3

(* A number equal to a power of y + r is congruent to that power of x.     *)
LEMMA PowersCongruent ==
  ASSUME NEW w \in Int, NEW x \in Int, Congruent(w, x, P)
  PROVE  /\ w * w \in Int /\ x * x \in Int /\ Congruent(w * w, x * x, P)
         /\ (w * w) * (w * w) \in Int /\ (x * x) * (x * x) \in Int
         /\ Congruent((w * w) * (w * w), (x * x) * (x * x), P)
         /\ w * ((w * w) * (w * w)) \in Int /\ x * ((x * x) * (x * x)) \in Int
         /\ Congruent(w * ((w * w) * (w * w)), x * ((x * x) * (x * x)), P)
<1>1. PICK w2 \in Int : w2 = w * w
  BY Z3
<1>2. PICK x2 \in Int : x2 = x * x
  BY Z3
<1>3. Congruent(w2, x2, P)
  BY <1>1, <1>2, Modulus, CongruentProduct
<1>4. PICK w4 \in Int : w4 = w2 * w2
  BY Z3
<1>5. PICK x4 \in Int : x4 = x2 * x2
  BY Z3
<1>6. Congruent(w4, x4, P)
  BY <1>3, <1>4, <1>5, Modulus, CongruentProduct
<1>7. Congruent(w * w4, x * x4, P)
  BY <1>6, Modulus, CongruentProduct
<1>8. w * w4 \in Int /\ x * x4 \in Int
  BY Z3
<1> QED
  BY <1>1, <1>2, <1>3, <1>4, <1>5, <1>6, <1>7, <1>8, Zenon

(* From y = x - r and the powers of r the s-box shares the powers of x.    *)
LEMMA SharesSbox ==
  ASSUME NEW m, NEW y \in Int, NEW r \in Int, NEW x \in Int,
         Congruent(y + r, x, P),
         Shares(m[1], r), Shares(m[2], r * r), Shares(m[3], r * (r * r)),
         Shares(m[4], (r * r) * (r * r)), Shares(m[5], r * ((r * r) * (r * r)))
  PROVE  \E s2, s4, s5 :
           /\ SboxOf(y, m) = <<s2, s4, s5>>
           /\ Shares(s2, x * x)
           /\ Shares(s4, (x * x) * (x * x))
           /\ Shares(s5, x * ((x * x) * (x * x)))
<1>1. PICK y2 \in Int, y3 \in Int, y4 \in Int, y5 \in Int :
        y2 = y * y /\ y3 = y * y2 /\ y4 = y2 * y2 /\ y5 = y * y4
  <2>1. PICK y2 \in Int : y2 = y * y
    BY Z3
  <2>2. y * y2 \in Int /\ y2 * y2 \in Int
    BY Z3
  <2>3. PICK y4 \in Int : y4 = y2 * y2
    BY <2>2
  <2>4. y * y4 \in Int
    BY Z3
  <2> QED
    BY <2>1, <2>2, <2>3, <2>4, Zenon
<1>2. PICK r2 \in Int, r3 \in Int, r4 \in Int, r5 \in Int :
        r2 = r * r /\ r3 = r * r2 /\ r4 = r2 * r2 /\ r5 = r * r4
  <2>1. PICK r2 \in Int : r2 = r * r
    BY Z3
  <2>2. r * r2 \in Int /\ r2 * r2 \in Int
    BY Z3
  <2>3. PICK r4 \in Int : r4 = r2 * r2
    BY <2>2
  <2>4. r * r4 \in Int
    BY Z3
  <2> QED
    BY <2>1, <2>2, <2>3, <2>4, Zenon
<1>3. Shares(m[2], r2) /\ Shares(m[3], r3) /\ Shares(m[4], r4) /\ Shares(m[5], r5)
  BY <1>2, Zenon
<1>4. PICK w \in Int : w = y + r
  OBVIOUS
<1>5. Congruent(w, x, P)
  BY <1>4
<1> DEFINE s2 == AddPublic(Add(MulPublic(m[1], 2 * y), m[2]), y2)
           s4 == AddPublic(Add(Add(Add(MulPublic(m[1], 4 * y3), MulPublic(m[2], 6 * y2)),
                                   MulPublic(m[3], 4 * y)), m[4]), y4)
           s5 == AddPublic(Add(Add(Add(Add(MulPublic(m[1], 5 * y4), MulPublic(m[2], 10 * y3)),
                                       MulPublic(m[3], 10 * y2)), MulPublic(m[4], 5 * y)), m[5]),
                           y5)
<1>6. SboxOf(y, m) = <<s2, s4, s5>>
  BY <1>1, Zenon DEF SboxOf
<1>7. Shares(s2, x * x)
  <2>1. PICK a \in Int, b \in Int : a = r * (2 * y) /\ b = 2 * y
    BY Z3
  <2>2. Shares(MulPublic(m[1], b), a)
    BY <2>1, SharesMultiple
  <2>3. Shares(Add(MulPublic(m[1], b), m[2]), a + r2) /\ a + r2 \in Int
    BY <1>3, <2>2, SharesSum
  <2>4. Shares(AddPublic(Add(MulPublic(m[1], b), m[2]), y2), a + r2 + y2)
    BY <2>3, SharesPublicSum
  <2>5. a + r2 + y2 = w * w
    BY <1>1, <1>2, <1>4, <2>1, Square
  <2>6. w * w \in Int /\ x * x \in Int /\ Congruent(w * w, x * x, P)
    BY <1>5, PowersCongruent
  <2>7. Shares(s2, w * w)
    BY <2>1, <2>4, <2>5
  <2> QED
    BY <2>6, <2>7, SharesCongruent
<1>8. Shares(s4, (x * x) * (x * x))
  <2>1. PICK a \in Int, b \in Int : a = r * (4 * y3) /\ b = 4 * y3
    BY Z3
  <2>2. PICK c \in Int, d \in Int : c = r2 * (6 * y2) /\ d = 6 * y2
    BY Z3
  <2>3. PICK e \in Int, f \in Int : e = r3 * (4 * y) /\ f = 4 * y
    BY Z3
  <2> DEFINE t1 == Add(MulPublic(m[1], b), MulPublic(m[2], d))
             t2 == Add(t1, MulPublic(m[3], f))
             t3 == Add(t2, m[4])
  <2>4. Shares(MulPublic(m[1], b), a) /\ Shares(MulPublic(m[2], d), c)
        /\ Shares(MulPublic(m[3], f), e)
    BY <1>3, <2>1, <2>2, <2>3, SharesMultiple
  <2>5. Shares(t1, a + c) /\ a + c \in Int
    BY <2>4, SharesSum
  <2>6. Shares(t2, a + c + e) /\ a + c + e \in Int
    BY <2>4, <2>5, SharesSum
  <2>7. Shares(t3, a + c + e + r4) /\ a + c + e + r4 \in Int
    BY <1>3, <2>6, SharesSum
  <2>8. Shares(AddPublic(t3, y4), a + c + e + r4 + y4)
    BY <2>7, SharesPublicSum
  <2>9. a + c + e + r4 + y4 = (w * w) * (w * w)
    BY <1>1, <1>2, <1>4, <2>1, <2>2, <2>3, FourthPower
  <2>10. /\ (w * w) * (w * w) \in Int /\ (x * x) * (x * x) \in Int
         /\ Congruent((w * w) * (w * w), (x * x) * (x * x), P)
    BY <1>5, PowersCongruent
  <2>11. Shares(s4, (w * w) * (w * w))
    BY <2>1, <2>2, <2>3, <2>8, <2>9, Zenon
  <2> QED
    BY <2>10, <2>11, SharesCongruent
<1>9. Shares(s5, x * ((x * x) * (x * x)))
  <2>1. PICK a \in Int, b \in Int : a = r * (5 * y4) /\ b = 5 * y4
    BY Z3
  <2>2. PICK c \in Int, d \in Int : c = r2 * (10 * y3) /\ d = 10 * y3
    BY Z3
  <2>3. PICK e \in Int, f \in Int : e = r3 * (10 * y2) /\ f = 10 * y2
    BY Z3
  <2>4. PICK g \in Int, h \in Int : g = r4 * (5 * y) /\ h = 5 * y
    BY Z3
  <2> DEFINE t1 == Add(MulPublic(m[1], b), MulPublic(m[2], d))
             t2 == Add(t1, MulPublic(m[3], f))
             t3 == Add(t2, MulPublic(m[4], h))
             t4 == Add(t3, m[5])
  <2>5. Shares(MulPublic(m[1], b), a) /\ Shares(MulPublic(m[2], d), c)
        /\ Shares(MulPublic(m[3], f), e) /\ Shares(MulPublic(m[4], h), g)
    BY <1>3, <2>1, <2>2, <2>3, <2>4, SharesMultiple
  <2>6. Shares(t1, a + c) /\ a + c \in Int
    BY <2>5, SharesSum
  <2>7. Shares(t2, a + c + e) /\ a + c + e \in Int
    BY <2>5, <2>6, SharesSum
  <2>8. Shares(t3, a + c + e + g) /\ a + c + e + g \in Int
    BY <2>5, <2>7, SharesSum
  <2>9. Shares(t4, a + c + e + g + r5) /\ a + c + e + g + r5 \in Int
    BY <1>3, <2>8, SharesSum
  <2>10. Shares(AddPublic(t4, y5), a + c + e + g + r5 + y5)
    BY <2>9, SharesPublicSum
  <2>11. a + c + e + g + r5 + y5 = w * ((w * w) * (w * w))
    BY <1>1, <1>2, <1>4, <2>1, <2>2, <2>3, <2>4, FifthPower
  <2>12. /\ w * ((w * w) * (w * w)) \in Int /\ x * ((x * x) * (x * x)) \in Int
         /\ Congruent(w * ((w * w) * (w * w)), x * ((x * x) * (x * x)), P)
    BY <1>5, PowersCongruent
  <2>13. Shares(s5, w * ((w * w) * (w * w)))
    BY <2>1, <2>2, <2>3, <2>4, <2>10, <2>11, Zenon
  <2> QED
    BY <2>12, <2>13, SharesCongruent
<1> HIDE DEF s2, s4, s5
<1> QED
  BY <1>6, <1>7, <1>8, <1>9

-----------------------------------------------------------------------------
(* Inverses and zero tests.                                                *)

(* Having the remainder e, a value of the field, is being congruent to it.  *)
LEMMA RemainderIs ==
  ASSUME NEW n \in Int, NEW e \in Field
  PROVE  (n % P) = e <=> Congruent(n, e, P)
<1>1. e \in Int /\ (e % P) = e
  BY Modulus, RemainderOfSmall DEF Field
<1>2. ASSUME (n % P) = e PROVE Congruent(n, e, P)
  BY InField, <1>2
<1>3. ASSUME Congruent(n, e, P) PROVE (n % P) = e
  <2>1. P > 0
    BY Modulus
  <2>2. (n % P) = (e % P)
    BY <1>1, <1>3, <2>1, Modulus, SameRemainder
  <2> QED
    BY <1>1, <2>2
<1> QED
  BY <1>2, <1>3

(* The field has a zero and a one.                                         *)
LEMMA ZeroAndOne ==
  0 \in Field /\ 1 \in Field /\ (0 % P) = 0 /\ (1 % P) = 1
<1>1. 0 \in 0 .. (P - 1) /\ 1 \in 0 .. (P - 1)
  BY Modulus
<1> QED
  BY <1>1, Modulus, RemainderOfSmall DEF Field

(* A value of the field but zero is inverted.                              *)
LEMMA Inverted ==
  ASSUME NEW x \in Field \ {0}
  PROVE  /\ FieldInverse(x) \in Field /\ FieldInverse(x) \in Int
         /\ ((x * FieldInverse(x)) % P) = 1
         /\ x * FieldInverse(x) \in Int
         /\ Congruent(x * FieldInverse(x), 1, P)
<1>1. x \in 1 .. (P - 1) /\ x \in Int
  BY Modulus DEF Field
<1>2. \E y \in Field : ((x * y) % P) = 1
  BY <1>1, Modulus, InverseExists DEF Field
<1>3. FieldInverse(x) \in Field /\ ((x * FieldInverse(x)) % P) = 1
  BY <1>2, Zenon DEF FieldInverse
<1>4. PICK q \in Int : q = FieldInverse(x)
  BY <1>3, Modulus DEF Field
<1>5. PICK n \in Int : n = x * q
  BY <1>1, Z3
<1>6. (n % P) = 1
  BY <1>3, <1>4, <1>5
<1>7. Congruent(n, 1, P)
  BY <1>6, ZeroAndOne, RemainderIs
<1> QED
  BY <1>3, <1>4, <1>5, <1>7, Zenon

(* The inverse is the one value of the field that gives 1.                 *)
LEMMA InverseIs ==
  ASSUME NEW x \in Int, NEW y \in Field, Congruent(x * y, 1, P)
  PROVE  FieldInverse(x) = y
<1>1. y \in Int
  BY Modulus DEF Field
<1>2. PICK n \in Int : n = x * y
  BY <1>1, Z3
<1>3. (n % P) = 1
  BY <1>2, ZeroAndOne, RemainderIs
<1>4. \E z \in Field : ((x * z) % P) = 1
  BY <1>2, <1>3
<1>5. PICK z \in Field : z = FieldInverse(x) /\ ((x * z) % P) = 1
  BY <1>4, Zenon DEF FieldInverse
<1>6. z \in Int
  BY Modulus DEF Field
<1>7. PICK k \in Int : k = x * z
  BY <1>6, Z3
<1>8. Congruent(k, 1, P)
  BY <1>5, <1>7, ZeroAndOne, RemainderIs
<1>9. Congruent(x * z, 1, P)
  BY <1>7, <1>8
<1>10. y \in 0 .. (P - 1) /\ z \in 0 .. (P - 1)
  BY DEF Field
<1>11. y = z
  BY <1>9, <1>10, Modulus, InverseUnique
<1> QED
  BY <1>5, <1>11

(* A sharing shares what it combines to.                                   *)
LEMMA SharesCombined ==
  ASSUME NEW s, NEW v, Shares(s, v)
  PROVE  Combine(s) \in Field /\ Combine(s) \in Int /\ Shares(s, Combine(s))
<1>1. Combine(s) \in Field
  BY Combined
<1>2. PICK c \in Int : c = Combine(s)
  BY <1>1, Modulus DEF Field
<1>3. Congruent(c, c, P)
  BY Modulus, CongruentSelf
<1> QED
  BY <1>1, <1>2, <1>3 DEF Shares

(* The zero test by conversion to bits: adding the flag makes the value    *)
(* invertible, and taking it off again makes the inverse of zero zero.     *)
LEMMA SharesIsZero ==
  ASSUME NEW s, NEW v, Shares(s, v), NEW r \in Randomness
  PROVE  \E flag, helper :
           /\ IsZeroOf(s, r) = <<flag, helper>>
           /\ Shares(flag, IF Combine(s) = 0 THEN 1 ELSE 0)
           /\ Shares(helper, IF Combine(s) = 0 THEN 0 ELSE FieldInverse(Combine(s)))
<1>1. PICK c \in Field : c = Combine(s) /\ c \in Int /\ Shares(s, c)
  BY SharesCombined
<1>2. PICK e \in {0, 1} : e = IF c = 0 THEN 1 ELSE 0
  OBVIOUS
<1> DEFINE flag == FreshSharing(e, r)
           sum == Combine(Add(s, flag))
           inverse == FreshSharing(FieldInverse(sum), r)
           helper == Sub(inverse, flag)
<1>3. IsZeroOf(s, r) = <<flag, helper>>
  BY <1>1, <1>2, Zenon DEF IsZeroOf
<1>4. Shares(flag, e)
  BY SharesFresh
<1>5. sum = ((c + e) % P)
  <2>1. Shares(Add(s, flag), c + e)
    BY <1>1, <1>4, SharesSum
  <2> QED
    BY <2>1, Combined
<1> HIDE DEF flag, sum
<1>6. CASE c = 0
  <2>1. e = 1 /\ 1 \in Field
    BY <1>2, <1>6, Modulus DEF Field
  <2>2. (1 % P) = 1
    BY Modulus, RemainderOfSmall
  <2>3. sum = 1
    BY <1>5, <1>6, <2>1, <2>2
  <2>4. 1 * 1 = 1 /\ Congruent(1, 1, P)
    BY Modulus, CongruentSelf
  <2>5. FieldInverse(1) = 1
    BY <2>1, <2>4, InverseIs
  <2>6. Shares(inverse, 1)
    BY <2>3, <2>5, SharesFresh
  <2>7. Shares(helper, 1 - 1) /\ 1 - 1 = 0
    BY <1>4, <2>1, <2>6, SharesDifference
  <2> HIDE DEF helper
  <2> QED
    BY <1>1, <1>3, <1>4, <1>6, <2>1, <2>7
<1>7. CASE c # 0
  <2>1. e = 0 /\ c \in Field \ {0}
    BY <1>2, <1>7
  <2>2. (c % P) = c
    BY Modulus, RemainderOfSmall DEF Field
  <2>3. sum = c
    BY <1>1, <1>5, <2>1, <2>2
  <2>4. PICK q \in Int : q = FieldInverse(c)
    BY <2>1, Inverted
  <2>5. Shares(inverse, q)
    BY <2>3, <2>4, SharesFresh
  <2>6. Shares(helper, q - 0) /\ q - 0 = q
    BY <1>4, <2>1, <2>5, SharesDifference
  <2> HIDE DEF helper
  <2> QED
    BY <1>1, <1>3, <1>4, <1>7, <2>1, <2>4, <2>6
<1> QED
  BY <1>6, <1>7

(* A product of the field is zero only when a factor is.                   *)
LEMMA NoZeroDivisors ==
  ASSUME NEW x \in Field \ {0}, NEW y \in Field \ {0}
  PROVE  ((x * y) % P) # 0
<1> SUFFICES ASSUME ((x * y) % P) = 0 PROVE FALSE
  OBVIOUS
<1>1. x \in Int /\ y \in Int
  BY Modulus DEF Field
<1>2. PICK n \in Int : n = x * y
  BY <1>1, Z3
<1>3. (0 % P) = 0
  BY Modulus, RemainderOfSmall
<1>4. Congruent(n, 0, P)
  BY <1>2, <1>3, Modulus, SameRemainderCongruent
<1>5. PICK q \in Int : Congruent(y * q, 1, P)
  BY Inverted
<1>6. PICK m \in Int : m = y * q
  BY <1>1, Z3
<1>7. x * m = n * q /\ x * m \in Int /\ x * 1 = x /\ 0 * q = 0
  <2>1. x * (y * q) = (x * y) * q
    BY <1>1, Z3
  <2> QED
    BY <1>1, <1>2, <1>6, <2>1, Z3
<1>8. Congruent(m, 1, P)
  BY <1>5, <1>6
<1>9. Congruent(x * m, x * 1, P)
  BY <1>1, <1>8, Modulus, CongruentSelf, CongruentProduct
<1>10. Congruent(n * q, 0 * q, P)
  <2>1. Congruent(q, q, P) /\ 0 \in Int
    BY Modulus, CongruentSelf
  <2> QED
    BY <1>4, <2>1, Modulus, CongruentProduct
<1>11. PICK k \in Int : k = x * m
  BY <1>7
<1>12. Congruent(k, x, P) /\ Congruent(k, 0, P)
  BY <1>7, <1>9, <1>10, <1>11
<1>13. Congruent(x, k, P)
  BY <1>1, <1>12, Modulus, CongruentFlipped
<1>14. Congruent(x, 0, P)
  BY <1>1, <1>12, <1>13, Modulus, CongruentThrough
<1>15. x \in 0 .. (P - 1) /\ 0 \in 0 .. (P - 1)
  BY Modulus DEF Field
<1>16. x = 0
  BY <1>14, <1>15, Modulus, CongruentSmall
<1> QED
  BY <1>16

(* The mask cancels out of the inverse of a masked value.                  *)
LEMMA Unmasked ==
  ASSUME NEW c \in Field \ {0}, NEW mask \in Field \ {0}
  PROVE  /\ mask * FieldInverse(((c * mask) % P)) \in Int
         /\ Congruent(mask * FieldInverse(((c * mask) % P)), FieldInverse(c), P)
<1>1. c \in Int /\ mask \in Int
  BY Modulus DEF Field
<1>2. PICK n \in Int : n = c * mask
  BY <1>1, Z3
<1>3. PICK d \in Field \ {0} : d = (n % P) /\ Congruent(d, n, P) /\ d \in Int
  BY <1>2, NoZeroDivisors, InField
<1>4. PICK q \in Int : q = FieldInverse(d) /\ Congruent(d * q, 1, P)
  BY Inverted
<1>5. PICK w \in Int : w = mask * q
  BY <1>1, Z3
<1>6. n * q = c * w
  <2>1. (c * mask) * q = c * (mask * q)
    BY <1>1, Z3
  <2> QED
    BY <1>2, <1>5, <2>1
<1>7. d * q \in Int /\ n * q \in Int
  BY <1>3, Z3
<1>8. Congruent(n, d, P)
  BY <1>3, Modulus, CongruentFlipped
<1>9. Congruent(n * q, d * q, P)
  BY <1>8, <1>3, Modulus, CongruentSelf, CongruentProduct
<1>10. Congruent(n * q, 1, P)
  BY <1>4, <1>7, <1>9, Modulus, CongruentThrough
<1>11. PICK y \in Field : y = (w % P) /\ Congruent(y, w, P) /\ Congruent(w, y, P) /\ y \in Int
  BY InField
<1>12. c * y \in Int /\ c * w \in Int
  BY <1>1, Z3
<1>13. Congruent(c * y, c * w, P)
  BY <1>1, <1>11, Modulus, CongruentSelf, CongruentProduct
<1>14. Congruent(c * w, 1, P)
  BY <1>6, <1>10
<1>15. Congruent(c * y, 1, P)
  BY <1>12, <1>13, <1>14, Modulus, CongruentThrough
<1>16. FieldInverse(c) = y
  BY <1>1, <1>15, InverseIs
<1> QED
  BY <1>2, <1>3, <1>4, <1>5, <1>11, <1>16, Zenon

(* The zero test by a masked opening.                                      *)
LEMMA SharesIsZeroReveal ==
  ASSUME NEW s, NEW v, Shares(s, v), NEW mask \in Masks, NEW r \in Randomness,
         NEW zero \in ZeroShares
  PROVE  LET t == IsZeroRevealOf(s, FreshSharing(mask, r), zero)
         IN  /\ Shares(t.flag, IF Combine(s) = 0 THEN 1 ELSE 0)
             /\ Shares(t.helper, IF Combine(s) = 0 THEN 0 ELSE FieldInverse(Combine(s)))
             /\ t.revealed = IF Combine(s) = 0 THEN 1 ELSE 0
<1>1. PICK c \in Field : c = Combine(s) /\ c \in Int /\ Shares(s, c)
  BY SharesCombined
<1>2. mask \in Field \ {0} /\ mask \in Int
  BY RandomnessAssumption, Modulus DEF Field
<1> DEFINE shared == FreshSharing(mask, r)
           product == MulOpen(s, shared, zero)
           t == IsZeroRevealOf(s, shared, zero)
<1>3. Shares(shared, mask)
  BY <1>2, SharesFresh
<1>4. product = ((c * mask) % P)
  BY <1>1, <1>2, <1>3, OpenedProduct
<1> HIDE DEF shared
<1>5. CASE c = 0
  <2>1. c * mask = 0 /\ (0 % P) = 0
    BY <1>2, <1>5, Modulus, RemainderOfSmall, Z3
  <2>2. product = 0
    BY <1>4, <2>1
  <2>3. t = [flag |-> PromoteTrivial(1), helper |-> PromoteTrivial(0), revealed |-> 1]
    BY <2>2, Zenon DEF IsZeroRevealOf
  <2>4. Shares(PromoteTrivial(1), 1) /\ Shares(PromoteTrivial(0), 0)
    BY SharesPromoted
  <2> HIDE DEF t
  <2>5. Shares(t.flag, 1) /\ Shares(t.helper, 0) /\ t.revealed = 1
    BY <2>3, <2>4
  <2> QED
    BY <1>1, <1>5, <2>5 DEF t, shared
<1>6. CASE c # 0
  <2>1. product # 0
    BY <1>2, <1>4, <1>6, NoZeroDivisors
  <2>2. PICK q \in Int : q = FieldInverse(product)
    <3>1. product \in Field \ {0}
      <4>1. PICK n \in Int : n = c * mask
        BY <1>2, Z3
      <4> QED
        BY <1>4, <2>1, <4>1, InField
    <3> QED
      BY <3>1, Inverted
  <2>3. t = [flag |-> PromoteTrivial(0), helper |-> MulPublic(shared, q), revealed |-> 0]
    BY <2>1, <2>2, Zenon DEF IsZeroRevealOf
  <2>4. Shares(PromoteTrivial(0), 0)
    BY SharesPromoted
  <2>5. PICK w \in Int, i \in Int :
          w = mask * q /\ i = FieldInverse(c) /\ Congruent(w, i, P)
    BY <1>2, <1>4, <1>6, <2>2, Unmasked, Inverted
  <2>6. Shares(MulPublic(shared, q), w)
    BY <1>2, <1>3, <2>5, SharesMultiple
  <2>7. Shares(MulPublic(shared, q), i)
    BY <2>5, <2>6, SharesCongruent
  <2> HIDE DEF t
  <2>8. Shares(t.flag, 0) /\ Shares(t.helper, i) /\ t.revealed = 0
    BY <2>3, <2>4, <2>7
  <2> QED
    BY <1>1, <1>6, <2>5, <2>8 DEF t, shared
<1> QED
  BY <1>5, <1>6

-----------------------------------------------------------------------------
(* Register files: sequences of sharings and the values they share.        *)

Values(s) == [n \in DOMAIN s |-> Combine(s[n])]

(* A sharing combines to a value of the field and shares it.               *)
LEMMA OfSharings ==
  ASSUME NEW s \in Sharings
  PROVE  Combine(s) \in Field /\ Combine(s) \in Int /\ Shares(s, Combine(s))
<1>1. PICK x \in Int, y \in Int, z \in Int : s = Sharing(x, y, z)
  BY DEF Sharings
<1>2. Shares(s, x + y + z)
  BY <1>1, CombineSharing
<1> QED
  BY <1>2, SharesCombined

(* Registers combine one by one.                                           *)
LEMMA ValuesOf ==
  ASSUME NEW s \in Seq(Sharings)
  PROVE  /\ Values(s) \in Seq(Field) /\ Len(Values(s)) = Len(s)
         /\ \A n \in 1 .. Len(s) : /\ Values(s)[n] = Combine(s[n])
                                   /\ s[n] \in Sharings
<1>1. \A n \in 1 .. Len(s) : s[n] \in Sharings
  OBVIOUS
<1>2. \A n \in 1 .. Len(s) : Combine(s[n]) \in Field
  BY <1>1, OfSharings
<1>3. DOMAIN s = 1 .. Len(s) /\ Len(s) \in Nat
  OBVIOUS
<1>4. Values(s) = [n \in 1 .. Len(s) |-> Combine(s[n])]
  BY <1>3, Zenon DEF Values
<1>5. Values(s) \in Seq(Field) /\ Len(Values(s)) = Len(s)
  BY <1>2, <1>3, <1>4
<1> QED
  BY <1>1, <1>4, <1>5

(* What is obtained is combined like what was there.                       *)
LEMMA ValuesObtained ==
  ASSUME NEW s \in Seq(Sharings), NEW t \in Seq(Sharings)
  PROVE  s \o t \in Seq(Sharings) /\ Values(s \o t) = Values(s) \o Values(t)
<1>1. s \o t \in Seq(Sharings) /\ Len(s \o t) = Len(s) + Len(t)
  OBVIOUS
<1>2. Len(Values(s \o t)) = Len(s) + Len(t) /\ Values(s \o t) \in Seq(Field)
  BY <1>1, ValuesOf
<1>3. Values(s) \in Seq(Field) /\ Values(t) \in Seq(Field)
      /\ Len(Values(s)) = Len(s) /\ Len(Values(t)) = Len(t)
  BY ValuesOf
<1>4. Values(s) \o Values(t) \in Seq(Field)
      /\ Len(Values(s) \o Values(t)) = Len(s) + Len(t)
  BY <1>3, SMTT(40)
<1>5. ASSUME NEW n \in 1 .. (Len(s) + Len(t))
      PROVE  Values(s \o t)[n] = (Values(s) \o Values(t))[n]
  <2>1. Values(s \o t)[n] = Combine((s \o t)[n])
    BY <1>1, ValuesOf
  <2>2. CASE n <= Len(s)
    <3>1. n \in 1 .. Len(s)
      BY <2>2
    <3>2. (s \o t)[n] = s[n]
      BY <3>1
    <3>3. (Values(s) \o Values(t))[n] = Values(s)[n]
      BY <1>3, <3>1
    <3> QED
      BY <2>1, <3>1, <3>2, <3>3, ValuesOf
  <2>3. CASE n > Len(s)
    <3>1. n - Len(s) \in 1 .. Len(t)
      BY <2>3
    <3>2. (s \o t)[n] = t[n - Len(s)]
      BY <2>3, <3>1
    <3>3. (Values(s) \o Values(t))[n] = Values(t)[n - Len(s)]
      BY <1>3, <2>3, <3>1
    <3> QED
      BY <2>1, <3>1, <3>2, <3>3, ValuesOf
  <2>4. n <= Len(s) \/ n > Len(s)
    OBVIOUS
  <2> QED
    BY <2>2, <2>3, <2>4, Zenon
<1> QED
  BY <1>1, <1>2, <1>4, <1>5, SMTT(40)

(* Flattening a sequence of one.                                           *)
LEMMA FlattenOne ==
  ASSUME NEW f, DOMAIN f = 1 .. 1, Len(f) = 1
  PROVE  FlattenSeq(f) = f[1]
<1> DEFINE g == [i \in 1 .. 1 |-> f[1]]
           step(h) == [i \in 1 .. 1 |-> IF i = 1 THEN f[i] ELSE h[i - 1] \o f[i]]
<1>1. g = step(g)
  OBVIOUS
<1>2. PICK h : h = CHOOSE f1 : f1 = step(f1)
  OBVIOUS
<1>3. h = step(h)
  BY <1>1, <1>2, Zenon
<1>4. h[1] = f[1]
  BY <1>3
<1>5. FlattenSeq(f) = h[1]
  BY <1>2 DEF FlattenSeq
<1> QED
  BY <1>4, <1>5

(* Flattening a sequence of two.                                           *)
LEMMA FlattenTwo ==
  ASSUME NEW f, DOMAIN f = 1 .. 2, Len(f) = 2
  PROVE  FlattenSeq(f) = f[1] \o f[2]
<1> DEFINE g == [i \in 1 .. 2 |-> IF i = 1 THEN f[1] ELSE f[1] \o f[2]]
           step(h) == [i \in 1 .. 2 |-> IF i = 1 THEN f[i] ELSE h[i - 1] \o f[i]]
<1>1. g = step(g)
  OBVIOUS
<1>2. PICK h : h = CHOOSE f1 : f1 = step(f1)
  OBVIOUS
<1>3. h = step(h)
  BY <1>1, <1>2, Zenon
<1>4. h[1] = f[1] /\ h[2] = h[1] \o f[2]
  BY <1>3, SMTT(40)
<1>5. FlattenSeq(f) = h[2]
  BY <1>2 DEF FlattenSeq
<1> QED
  BY <1>4, <1>5

(* Flattened batches of sharings combine to the flattened batches of their *)
(* values; a batch serves one element or two.                              *)
LEMMA ValuesFlattened ==
  ASSUME NEW k \in {1, 2}, NEW f, NEW g, DOMAIN f = 1 .. k, Len(f) = k,
         DOMAIN g = 1 .. k, Len(g) = k,
         \A n \in 1 .. k : f[n] \in Seq(Sharings) /\ Values(f[n]) = g[n]
  PROVE  FlattenSeq(f) \in Seq(Sharings) /\ Values(FlattenSeq(f)) = FlattenSeq(g)
<1>1. CASE k = 1
  <2>1. FlattenSeq(f) = f[1] /\ FlattenSeq(g) = g[1]
    BY <1>1, FlattenOne
  <2> QED
    BY <1>1, <2>1
<1>2. CASE k = 2
  <2>1. FlattenSeq(f) = f[1] \o f[2] /\ FlattenSeq(g) = g[1] \o g[2]
    BY <1>2, FlattenTwo
  <2>2. f[1] \in Seq(Sharings) /\ Values(f[1]) = g[1]
        /\ f[2] \in Seq(Sharings) /\ Values(f[2]) = g[2]
    BY <1>2
  <2> QED
    BY <2>1, <2>2, ValuesObtained
<1> QED
  BY <1>1, <1>2

(* One sharing.                                                            *)
LEMMA ValuesOfOne ==
  ASSUME NEW s \in Sharings
  PROVE  <<s>> \in Seq(Sharings) /\ Values(<<s>>) = <<Combine(s)>>
<1>1. PICK q \in Seq(Sharings) : q = <<s>> /\ Len(q) = 1
        /\ q[1] = s
  <2>1. <<s>> \in Seq(Sharings) /\ Len(<<s>>) = 1
    OBVIOUS
  <2>2. /\ <<s>>[1] = s
    OBVIOUS
  <2> QED
    BY <2>1, <2>2, Zenon
<1>2. 1 \in 1 .. Len(q)
  BY <1>1
<1>3. Values(q) \in Seq(Field) /\ Len(Values(q)) = 1
      /\ Values(q)[1] = Combine(s)
  BY <1>1, <1>2, ValuesOf
<1>4. Values(q) = <<Combine(s)>>
  BY <1>3
<1> QED
  BY <1>1, <1>4

(* Two.                                                                    *)
LEMMA ValuesOfTwo ==
  ASSUME NEW s \in Sharings, NEW t \in Sharings
  PROVE  <<s, t>> \in Seq(Sharings) /\ Values(<<s, t>>) = <<Combine(s), Combine(t)>>
<1>1. PICK q \in Seq(Sharings) : q = <<s, t>> /\ Len(q) = 2
        /\ q[1] = s /\ q[2] = t
  <2>1. <<s, t>> \in Seq(Sharings) /\ Len(<<s, t>>) = 2
    OBVIOUS
  <2>2. /\ <<s, t>>[1] = s /\ <<s, t>>[2] = t
    OBVIOUS
  <2> QED
    BY <2>1, <2>2, Zenon
<1>2. 1 \in 1 .. Len(q) /\ 2 \in 1 .. Len(q)
  BY <1>1
<1>3. Values(q) \in Seq(Field) /\ Len(Values(q)) = 2
      /\ Values(q)[1] = Combine(s) /\ Values(q)[2] = Combine(t)
  BY <1>1, <1>2, ValuesOf
<1>4. Values(q) = <<Combine(s), Combine(t)>>
  BY <1>3
<1> QED
  BY <1>1, <1>4

(* Three.                                                                  *)
LEMMA ValuesOfThree ==
  ASSUME NEW s \in Sharings, NEW t \in Sharings, NEW u \in Sharings
  PROVE  /\ <<s, t, u>> \in Seq(Sharings)
         /\ Values(<<s, t, u>>) = <<Combine(s), Combine(t), Combine(u)>>
<1>1. PICK q \in Seq(Sharings) : q = <<s, t, u>> /\ Len(q) = 3
        /\ q[1] = s /\ q[2] = t /\ q[3] = u
  <2>1. <<s, t, u>> \in Seq(Sharings) /\ Len(<<s, t, u>>) = 3
    OBVIOUS
  <2>2. /\ <<s, t, u>>[1] = s /\ <<s, t, u>>[2] = t /\ <<s, t, u>>[3] = u
    OBVIOUS
  <2> QED
    BY <2>1, <2>2, Zenon
<1>2. 1 \in 1 .. Len(q) /\ 2 \in 1 .. Len(q) /\ 3 \in 1 .. Len(q)
  BY <1>1
<1>3. Values(q) \in Seq(Field) /\ Len(Values(q)) = 3
      /\ Values(q)[1] = Combine(s) /\ Values(q)[2] = Combine(t) /\ Values(q)[3] = Combine(u)
  BY <1>1, <1>2, ValuesOf
<1>4. Values(q) = <<Combine(s), Combine(t), Combine(u)>>
  BY <1>3
<1> QED
  BY <1>1, <1>4
-----------------------------------------------------------------------------
(* The invariant: every register is a sharing, and all parties have been   *)
(* revealed the same.                                                      *)
IInv ==
  /\ shares \in Seq(Sharings)
  /\ Len(shares) >= Window
  /\ \A p \in Parties : opened[p] = opened[1]

(* Registers that a call may take exist, for either driver the same ones.  *)
LEMMA OperandsExist ==
  ASSUME IInv
  PROVE  /\ Operands \subseteq 1 .. Len(shares)
         /\ Plain!Operands = Operands /\ Plain!Vectors = Vectors
         /\ Values(shares) \in Seq(Field)
         /\ \A i \in Operands : /\ shares[i] \in Sharings
                                /\ Values(shares)[i] = Combine(shares[i])
<1>1. shares \in Seq(Sharings) /\ Len(shares) \in Nat /\ Len(shares) >= Window /\ Window \in Nat
  BY StartsAssumption DEF IInv
<1>2. Operands \subseteq 1 .. Len(shares)
  BY <1>1 DEF Operands
<1>3. Values(shares) \in Seq(Field) /\ Len(Values(shares)) = Len(shares)
      /\ \A n \in 1 .. Len(shares) : /\ Values(shares)[n] = Combine(shares[n])
                                     /\ shares[n] \in Sharings
  BY <1>1, ValuesOf
<1>4. Plain!Operands = Operands
  BY <1>3, Zenon DEF Plain!Operands, Operands, Values
<1>5. Plain!Vectors = Vectors
  BY <1>4 DEF Plain!Vectors, Vectors
<1> QED
  BY <1>2, <1>3, <1>4, <1>5

(* Obtaining sharings is obtaining their values.                           *)
LEMMA Obtained ==
  ASSUME IInv, NEW results \in Seq(Sharings), shares' = shares \o results
  PROVE  /\ shares' \in Seq(Sharings) /\ Len(shares') >= Window
         /\ Plain!Obtain(Values(results))
<1>1. shares \in Seq(Sharings)
  BY DEF IInv
<1>2. shares' \in Seq(Sharings) /\ Values(shares') = Values(shares) \o Values(results)
  BY <1>1, ValuesObtained
<1>3. Len(shares') = Len(shares) + Len(results) /\ Len(results) \in Nat
      /\ Len(shares) \in Nat /\ Len(shares) >= Window /\ Window \in Nat
  BY <1>1, StartsAssumption DEF IInv
<1>4. Plain!Obtain(Values(results))
  BY <1>2 DEF Plain!Obtain, Values
<1> QED
  BY <1>2, <1>3, <1>4

(* A local call that obtains sharings obtains their values.                *)
LEMMA LocalStep ==
  ASSUME IInv, NEW results \in Seq(Sharings), Local(results)
  PROVE  IInv' /\ Plain!Local(Values(results))
<1>1. shares' = shares \o results /\ opened' = opened
  BY DEF Local, Obtain
<1>2. /\ shares' \in Seq(Sharings) /\ Len(shares') >= Window
      /\ Plain!Obtain(Values(results))
  BY <1>1, Obtained
<1>3. IInv'
  BY <1>1, <1>2 DEF IInv
<1>4. Revealed' = Revealed
  BY <1>1 DEF Revealed
<1> QED
  BY <1>2, <1>3, <1>4 DEF Plain!Local

(* A local call that obtains one sharing obtains what it shares.           *)
LEMMA LocalStepOfOne ==
  ASSUME IInv, NEW s, NEW v \in Int, Shares(s, v), Local(<<s>>)
  PROVE  IInv' /\ Plain!Local(<<(v % P)>>)
<1>1. s \in Sharings /\ Combine(s) = (v % P)
  BY Combined DEF Shares
<1>2. <<s>> \in Seq(Sharings) /\ Values(<<s>>) = <<(v % P)>>
  BY <1>1, ValuesOfOne
<1>3. IInv' /\ Plain!Local(Values(<<s>>))
  BY <1>2, LocalStep
<1> QED
  BY <1>2, <1>3, Zenon

(* An operand is a sharing, and the plain driver has its value.            *)
LEMMA OperandShares ==
  ASSUME IInv, NEW i \in Operands
  PROVE  \E c \in Field :
           /\ c \in Int
           /\ c = Combine(shares[i])
           /\ c = [n \in DOMAIN shares |-> Combine(shares[n])][i]
           /\ Shares(shares[i], c)
<1>1. shares[i] \in Sharings /\ Values(shares)[i] = Combine(shares[i])
  BY OperandsExist
<1>2. Combine(shares[i]) \in Field /\ Combine(shares[i]) \in Int
      /\ Shares(shares[i], Combine(shares[i]))
  BY <1>1, OfSharings
<1> QED
  BY <1>1, <1>2 DEF Values

(* Promotion.                                                              *)
LEMMA PromoteStep ==
  ASSUME IInv, NEW v \in PublicValues, Promote(v)
  PROVE  IInv' /\ Plain!Promote(v)
<1>1. v \in Field /\ v \in Int
  BY StartsAssumption, Modulus DEF Field
<1>2. (v % P) = v
  BY <1>1, Modulus, RemainderOfSmall DEF Field
<1>3. IInv' /\ Plain!Local(<<(v % P)>>)
  BY <1>1, SharesPromoted, LocalStepOfOne DEF Promote
<1> QED
  BY <1>2, <1>3 DEF Plain!Promote

(* The sum of two registers.                                               *)
LEMMA AddSSStep ==
  ASSUME IInv, NEW i \in Operands, NEW j \in Operands, AddSS(i, j)
  PROVE  IInv' /\ Plain!AddSS(i, j)
<1>1. PICK c \in Field : /\ c \in Int /\ Shares(shares[i], c)
                         /\ c = [n \in DOMAIN shares |-> Combine(shares[n])][i]
  BY OperandShares
<1>2. PICK d \in Field : /\ d \in Int /\ Shares(shares[j], d)
                         /\ d = [n \in DOMAIN shares |-> Combine(shares[n])][j]
  BY OperandShares
<1>3. Shares(Add(shares[i], shares[j]), c + d) /\ c + d \in Int
  BY <1>1, <1>2, SharesSum
<1>4. IInv' /\ Plain!Local(<<((c + d) % P)>>)
  BY <1>3, LocalStepOfOne DEF AddSS
<1> QED
  BY <1>1, <1>2, <1>4, Zenon DEF Plain!AddSS

(* The difference of two registers.                                        *)
LEMMA SubSSStep ==
  ASSUME IInv, NEW i \in Operands, NEW j \in Operands, SubSS(i, j)
  PROVE  IInv' /\ Plain!SubSS(i, j)
<1>1. PICK c \in Field : /\ c \in Int /\ Shares(shares[i], c)
                         /\ c = [n \in DOMAIN shares |-> Combine(shares[n])][i]
  BY OperandShares
<1>2. PICK d \in Field : /\ d \in Int /\ Shares(shares[j], d)
                         /\ d = [n \in DOMAIN shares |-> Combine(shares[n])][j]
  BY OperandShares
<1>3. Shares(Sub(shares[i], shares[j]), c - d) /\ c - d \in Int
  BY <1>1, <1>2, SharesDifference
<1>4. IInv' /\ Plain!Local(<<((c - d) % P)>>)
  BY <1>3, LocalStepOfOne DEF SubSS
<1> QED
  BY <1>1, <1>2, <1>4, Zenon DEF Plain!SubSS

(* The calls with a public operand.                                        *)
LEMMA PublicStep ==
  ASSUME IInv, NEW i \in Operands, NEW v \in PublicValues
  PROVE  /\ AddSP(i, v) => IInv' /\ Plain!AddSP(i, v)
         /\ SubSP(i, v) => IInv' /\ Plain!SubSP(i, v)
         /\ SubPS(v, i) => IInv' /\ Plain!SubPS(v, i)
         /\ MulSP(i, v) => IInv' /\ Plain!MulSP(i, v)
<1>1. PICK c \in Field : /\ c \in Int /\ Shares(shares[i], c)
                         /\ c = [n \in DOMAIN shares |-> Combine(shares[n])][i]
  BY OperandShares
<1>2. v \in Int /\ -v \in Int /\ -1 \in Int
  BY StartsAssumption, Modulus DEF Field
<1>3. ASSUME AddSP(i, v)
      PROVE  IInv' /\ Plain!AddSP(i, v)
  <2>1. Shares(AddPublic(shares[i], v), c + v) /\ c + v \in Int
    BY <1>1, <1>2, SharesPublicSum
  <2>2. IInv' /\ Plain!Local(<<((c + v) % P)>>)
    BY <1>3, <2>1, LocalStepOfOne DEF AddSP
  <2> QED
    BY <1>1, <2>2, Zenon DEF Plain!AddSP
<1>4. ASSUME SubSP(i, v)
      PROVE  IInv' /\ Plain!SubSP(i, v)
  <2>1. Shares(AddPublic(shares[i], -v), c + (-v))
    BY <1>1, <1>2, SharesPublicSum
  <2>2. c + (-v) = c - v /\ c - v \in Int
    BY <1>1, <1>2
  <2>3. IInv' /\ Plain!Local(<<((c - v) % P)>>)
    BY <1>4, <2>1, <2>2, LocalStepOfOne DEF SubSP
  <2> QED
    BY <1>1, <2>3, Zenon DEF Plain!SubSP
<1>5. ASSUME SubPS(v, i)
      PROVE  IInv' /\ Plain!SubPS(v, i)
  <2>1. PICK w \in Int : w = c * (-1) /\ w + v = v - c
    BY <1>1, <1>2, Z3
  <2>2. Shares(MulPublic(shares[i], -1), w)
    BY <1>1, <1>2, <2>1, SharesMultiple
  <2>3. Shares(AddPublic(MulPublic(shares[i], -1), v), v - c) /\ v - c \in Int
    BY <1>1, <1>2, <2>1, <2>2, SharesPublicSum
  <2>4. IInv' /\ Plain!Local(<<((v - c) % P)>>)
    BY <1>5, <2>3, LocalStepOfOne DEF SubPS
  <2> QED
    BY <1>1, <2>4, Zenon DEF Plain!SubPS
<1>6. ASSUME MulSP(i, v)
      PROVE  IInv' /\ Plain!MulSP(i, v)
  <2>1. PICK w \in Int : w = c * v
    BY <1>1, <1>2, Z3
  <2>2. Shares(MulPublic(shares[i], v), w)
    BY <1>1, <1>2, <2>1, SharesMultiple
  <2>3. IInv' /\ Plain!Local(<<(w % P)>>)
    BY <1>6, <2>2, LocalStepOfOne DEF MulSP
  <2> QED
    BY <1>1, <2>1, <2>3, Zenon DEF Plain!MulSP
<1> QED
  BY <1>3, <1>4, <1>5, <1>6

(* A batch has one operand or two.                                         *)
LEMMA VectorOf ==
  ASSUME IInv, NEW xs \in Vectors
  PROVE  \E k \in {1, 2} : /\ DOMAIN xs = 1 .. k /\ Len(xs) = k
                           /\ \A n \in 1 .. k : xs[n] \in Operands
<1>1. CASE \E i \in Operands : xs = <<i>>
  <2>1. PICK i \in Operands : xs = <<i>>
    BY <1>1
  <2>2. DOMAIN xs = 1 .. 1 /\ Len(xs) = 1 /\ xs[1] = i
    BY <2>1
  <2> QED
    BY <2>2
<1>2. CASE \E i \in Operands, j \in Operands : xs = <<i, j>>
  <2>1. PICK i \in Operands, j \in Operands : xs = <<i, j>>
    BY <1>2
  <2>2. DOMAIN xs = 1 .. 2 /\ Len(xs) = 2 /\ xs[1] = i /\ xs[2] = j
    BY <2>1
  <2> QED
    BY <2>2
<1> QED
  BY <1>1, <1>2 DEF Vectors

(* A batch of products.                                                    *)
LEMMA MulVecStep ==
  ASSUME IInv, NEW xs \in Vectors, NEW ys \in Vectors, NEW zero \in ZeroShares,
         Len(xs) = Len(ys), MulVec(xs, ys, zero)
  PROVE  IInv' /\ Plain!MulVec(xs, ys)
<1>1. PICK k \in {1, 2} : /\ DOMAIN xs = 1 .. k /\ Len(xs) = k /\ DOMAIN ys = 1 .. k
                          /\ \A n \in 1 .. k : xs[n] \in Operands /\ ys[n] \in Operands
  BY VectorOf
<1> DEFINE F(n) == Product(shares[xs[n]], shares[ys[n]], zero)
           G(n) == ([m \in DOMAIN shares |-> Combine(shares[m])][xs[n]]
                    * [m \in DOMAIN shares |-> Combine(shares[m])][ys[n]]) % P
           results == [n \in DOMAIN xs |-> F(n)]
<1>2. ASSUME NEW n \in 1 .. k
      PROVE  F(n) \in Sharings /\ Combine(F(n)) = G(n)
  <2>1. PICK c \in Field : /\ c \in Int /\ Shares(shares[xs[n]], c)
                           /\ c = [m \in DOMAIN shares |-> Combine(shares[m])][xs[n]]
    BY <1>1, OperandShares
  <2>2. PICK d \in Field : /\ d \in Int /\ Shares(shares[ys[n]], d)
                           /\ d = [m \in DOMAIN shares |-> Combine(shares[m])][ys[n]]
    BY <1>1, OperandShares
  <2>3. Shares(F(n), c * d)
    BY <2>1, <2>2, SharesProduct
  <2>4. F(n) \in Sharings /\ Combine(F(n)) = ((c * d) % P)
    BY <2>3, Combined DEF Shares
  <2> QED
    BY <2>1, <2>2, <2>4, Zenon
<1>3. MulVec(xs, ys, zero) <=> Local(results)
  BY DEF MulVec
<1>4. Plain!MulVec(xs, ys) <=> Plain!Local([n \in DOMAIN xs |-> G(n)])
  BY Zenon DEF Plain!MulVec
<1> HIDE DEF F, G
<1>5. results \in Seq(Sharings) /\ Len(results) = k
      /\ \A n \in 1 .. k : results[n] = F(n)
  BY <1>1, <1>2
<1>6. Values(results) = [n \in 1 .. k |-> G(n)]
  <2>1. DOMAIN results = 1 .. k
    BY <1>1
  <2>2. \A n \in 1 .. k : Combine(results[n]) = G(n)
    BY <1>2, <1>5
  <2> HIDE DEF results
  <2> QED
    BY <2>1, <2>2 DEF Values
<1>7. IInv' /\ Plain!Local(Values(results))
  BY <1>3, <1>5, LocalStep
<1> QED
  BY <1>1, <1>4, <1>6, <1>7, Zenon

(* An opening: all parties learn the values, and nothing is obtained.      *)
LEMMA OpenStep ==
  ASSUME IInv, NEW xs \in Vectors, Open(xs)
  PROVE  IInv' /\ Plain!Open(xs)
<1>1. PICK k \in {1, 2} : DOMAIN xs = 1 .. k /\ \A n \in 1 .. k : xs[n] \in Operands
  BY VectorOf
<1> DEFINE regs == [m \in DOMAIN shares |-> Combine(shares[m])]
<1>2. ASSUME NEW p \in Parties
      PROVE  opened'[p] = [n \in DOMAIN xs |-> regs[xs[n]]]
  <2>1. opened'[p] = [n \in DOMAIN xs |-> OpenAt(p, shares[xs[n]])]
    BY DEF Open
  <2>2. \A n \in DOMAIN xs : OpenAt(p, shares[xs[n]]) = regs[xs[n]]
    <3>1. SUFFICES ASSUME NEW n \in DOMAIN xs
                   PROVE  OpenAt(p, shares[xs[n]]) = regs[xs[n]]
      OBVIOUS
    <3>2. xs[n] \in Operands
      BY <1>1
    <3>3. PICK c \in Field : /\ Shares(shares[xs[n]], c) /\ c = Combine(shares[xs[n]])
                             /\ c = regs[xs[n]]
      BY <3>2, OperandShares
    <3> QED
      BY <3>3, OpenedValue
  <2> QED
    BY <2>1, <2>2
<1>3. 1 \in Parties
  BY DEF Parties
<1>4. opened'[1] = [n \in DOMAIN xs |-> regs[xs[n]]]
      /\ \A p \in Parties : opened'[p] = opened'[1]
  BY <1>2, <1>3
<1>5. Revealed' = [n \in DOMAIN xs |-> regs[xs[n]]]
  BY <1>4 DEF Revealed
<1>6. shares' = shares
  BY DEF Open
<1>7. IInv'
  BY <1>4, <1>6 DEF IInv
<1> QED
  BY <1>5, <1>6, <1>7 DEF Plain!Open


(* One element of an s-box layer: the plain driver's powers of the value.  *)
LEMMA SboxTrace ==
  ASSUME NEW s, NEW c \in Int, Shares(s, c), NEW mask \in Int,
         NEW r \in Randomness, NEW zero \in ZeroShares
  PROVE  LET m == Powers(FreshSharing(mask, r), zero)
             t == SboxOf(OpenAt(1, Sub(s, m[1])), m)
         IN  t \in Seq(Sharings) /\ Values(t) = Plain!Sbox(c)
<1> DEFINE fresh == FreshSharing(mask, r)
           m == Powers(fresh, zero)
           y == OpenAt(1, Sub(s, m[1]))
           t == SboxOf(y, m)
<1>1. Shares(fresh, mask)
  BY SharesFresh
<1> HIDE DEF fresh
<1>2. /\ m[1] = fresh
      /\ Shares(m[2], mask * mask)
      /\ Shares(m[3], mask * (mask * mask))
      /\ Shares(m[4], (mask * mask) * (mask * mask))
      /\ Shares(m[5], mask * ((mask * mask) * (mask * mask)))
  BY <1>1, SharesPowers
<1> HIDE DEF m
<1>3. PICK d \in Int : d = c - mask /\ d + mask = c
  OBVIOUS
<1>4. Shares(Sub(s, m[1]), d)
  BY <1>1, <1>2, <1>3, SharesDifference
<1>5. y = (d % P)
  BY <1>4, OpenedValue, Combined DEF Parties
<1>6. y \in Int /\ Congruent(y, d, P)
  BY <1>5, InField
<1> HIDE DEF y
<1>7. Congruent(y + mask, d + mask, P)
  BY <1>6, Modulus, CongruentSelf, CongruentSum
<1>8. Congruent(y + mask, c, P)
  BY <1>3, <1>7
<1>9. PICK s2, s4, s5 :
        /\ t = <<s2, s4, s5>>
        /\ Shares(s2, c * c)
        /\ Shares(s4, (c * c) * (c * c))
        /\ Shares(s5, c * ((c * c) * (c * c)))
  BY <1>1, <1>2, <1>6, <1>8, SharesSbox
<1>10. /\ s2 \in Sharings /\ Combine(s2) = ((c * c) % P)
       /\ s4 \in Sharings /\ Combine(s4) = (((c * c) * (c * c)) % P)
       /\ s5 \in Sharings /\ Combine(s5) = ((c * ((c * c) * (c * c))) % P)
  BY <1>9, Combined DEF Shares
<1> HIDE DEF t
<1>11. t \in Seq(Sharings) /\ Values(t) = <<Combine(s2), Combine(s4), Combine(s5)>>
  BY <1>9, <1>10, ValuesOfThree
<1>12. Plain!Sbox(c) = <<((c * c) % P), (((c * c) * (c * c)) % P),
                         ((c * ((c * c) * (c * c))) % P)>>
  BY Zenon DEF Plain!Sbox
<1>13. Values(t) = Plain!Sbox(c)
  BY <1>10, <1>11, <1>12, Zenon
<1> QED
  BY <1>11, <1>13 DEF t, y, m, fresh

(* Traces of a batch, flattened.                                           *)
LEMMA BatchValues ==
  ASSUME IInv, NEW xs \in Vectors, NEW f, NEW g,
         f = [n \in DOMAIN xs |-> f[n]], g = [n \in DOMAIN xs |-> g[n]],
         \A n \in DOMAIN xs : f[n] \in Seq(Sharings) /\ Values(f[n]) = g[n]
  PROVE  FlattenSeq(f) \in Seq(Sharings) /\ Values(FlattenSeq(f)) = FlattenSeq(g)
<1>1. PICK k \in {1, 2} : DOMAIN xs = 1 .. k
  BY VectorOf
<1>2. DOMAIN f = 1 .. k /\ DOMAIN g = 1 .. k
  BY <1>1
<1>3. Len(f) = k /\ Len(g) = k
  BY <1>2
<1>4. \A n \in 1 .. k : f[n] \in Seq(Sharings) /\ Values(f[n]) = g[n]
  BY <1>1
<1> QED
  BY <1>2, <1>3, <1>4, ValuesFlattened

(* Both drivers flatten alike.                                             *)
LEMMA SameFlattened ==
  ASSUME NEW f
  PROVE  Plain!FlattenSeq(f) = FlattenSeq(f)
  BY Zenon DEF Plain!FlattenSeq, FlattenSeq

(* An s-box layer.                                                         *)
LEMMA SboxLayerStep ==
  ASSUME IInv, NEW xs \in Vectors, NEW mask \in Masks, NEW r \in Randomness,
         NEW zero \in ZeroShares, SboxLayer(xs, mask, r, zero)
  PROVE  IInv' /\ Plain!SboxLayer(xs)
<1>1. PICK k \in {1, 2} : DOMAIN xs = 1 .. k /\ \A n \in 1 .. k : xs[n] \in Operands
  BY VectorOf
<1> DEFINE m(n) == Powers(FreshSharing(mask + n, r), zero)
           y(n) == OpenAt(1, Sub(shares[xs[n]], m(n)[1]))
           f == [n \in DOMAIN xs |-> SboxOf(y(n), m(n))]
           regs == [i \in DOMAIN shares |-> Combine(shares[i])]
           g == [n \in DOMAIN xs |-> Plain!Sbox(regs[xs[n]])]
<1>2. ASSUME NEW n \in DOMAIN xs
      PROVE  f[n] \in Seq(Sharings) /\ Values(f[n]) = g[n]
  <2>1. xs[n] \in Operands /\ n \in Int
    BY <1>1
  <2>2. PICK c \in Field : c \in Int /\ Shares(shares[xs[n]], c) /\ c = regs[xs[n]]
    BY <2>1, OperandShares
  <2>3. mask + n \in Int
    BY <2>1, RandomnessAssumption, Modulus DEF Field
  <2>4. SboxOf(y(n), m(n)) \in Seq(Sharings) /\ Values(SboxOf(y(n), m(n))) = Plain!Sbox(c)
    BY <2>2, <2>3, SboxTrace
  <2> HIDE DEF m, y
  <2> QED
    BY <2>2, <2>4
<1>3. Local(FlattenSeq(f))
  BY Zenon DEF SboxLayer
<1>4. Plain!SboxLayer(xs) <=> Plain!Local(FlattenSeq(g))
  BY SameFlattened, Zenon DEF Plain!SboxLayer
<1>5. f = [n \in DOMAIN xs |-> f[n]] /\ g = [n \in DOMAIN xs |-> g[n]]
  OBVIOUS
<1> HIDE DEF f, g
<1>6. FlattenSeq(f) \in Seq(Sharings) /\ Values(FlattenSeq(f)) = FlattenSeq(g)
  BY <1>2, <1>5, BatchValues
<1>7. IInv' /\ Plain!Local(Values(FlattenSeq(f)))
  BY <1>3, <1>6, LocalStep
<1> QED
  BY <1>4, <1>6, <1>7, Zenon

(* A shared flag is the plain driver's.                                    *)
LEMMA SharedFlag ==
  ASSUME NEW c \in Field, NEW flag, Shares(flag, IF c = 0 THEN 1 ELSE 0)
  PROVE  flag \in Sharings /\ Combine(flag) = Plain!Flag(c)
<1>1. PICK e \in Field : e = (IF c = 0 THEN 1 ELSE 0) /\ (e % P) = e
  BY ZeroAndOne
<1>2. Combine(flag) = (e % P) /\ flag \in Sharings
  BY <1>1, Combined DEF Shares
<1> QED
  BY <1>1, <1>2 DEF Plain!Flag

(* A shared helper is the plain driver's.                                  *)
LEMMA SharedHelper ==
  ASSUME NEW c \in Field, NEW helper,
         Shares(helper, IF c = 0 THEN 0 ELSE FieldInverse(c))
  PROVE  helper \in Sharings /\ Combine(helper) = Plain!Helper(c)
<1>1. PICK e \in Field : e = IF c = 0 THEN 0 ELSE FieldInverse(c)
  BY ZeroAndOne, Inverted
<1>2. e \in 0 .. (P - 1)
  BY DEF Field
<1>3. (e % P) = e
  BY <1>2, Modulus, RemainderOfSmall
<1>4. Combine(helper) = (e % P) /\ helper \in Sharings
  BY <1>1, Combined DEF Shares
<1>5. Plain!FieldInverse(c) = FieldInverse(c)
  BY Zenon DEF Plain!FieldInverse, FieldInverse, Plain!Field, Field
<1> QED
  BY <1>1, <1>3, <1>4, <1>5 DEF Plain!Helper

(* Zero tests by conversion.                                               *)
LEMMA IsZeroTracesStep ==
  ASSUME IInv, NEW xs \in Vectors, NEW r \in Randomness, IsZeroTraces(xs, r)
  PROVE  IInv' /\ Plain!IsZeroTraces(xs)
<1>1. PICK k \in {1, 2} : DOMAIN xs = 1 .. k /\ \A n \in 1 .. k : xs[n] \in Operands
  BY VectorOf
<1> DEFINE f == [n \in DOMAIN xs |-> IsZeroOf(shares[xs[n]], r)]
           regs == [i \in DOMAIN shares |-> Combine(shares[i])]
           g == [n \in DOMAIN xs |-> <<Plain!Flag(regs[xs[n]]), Plain!Helper(regs[xs[n]])>>]
<1>2. ASSUME NEW n \in DOMAIN xs
      PROVE  f[n] \in Seq(Sharings) /\ Values(f[n]) = g[n]
  <2>1. xs[n] \in Operands
    BY <1>1
  <2>2. PICK c \in Field : /\ c = Combine(shares[xs[n]]) /\ c = regs[xs[n]]
                           /\ Shares(shares[xs[n]], c)
    BY <2>1, OperandShares
  <2>3. PICK flag, helper :
          /\ IsZeroOf(shares[xs[n]], r) = <<flag, helper>>
          /\ Shares(flag, IF c = 0 THEN 1 ELSE 0)
          /\ Shares(helper, IF c = 0 THEN 0 ELSE FieldInverse(c))
    BY <2>2, SharesIsZero
  <2>4. flag \in Sharings /\ Combine(flag) = Plain!Flag(c)
    BY <2>3, SharedFlag
  <2>5. helper \in Sharings /\ Combine(helper) = Plain!Helper(c)
    BY <2>3, SharedHelper
  <2>6. <<flag, helper>> \in Seq(Sharings)
        /\ Values(<<flag, helper>>) = <<Plain!Flag(c), Plain!Helper(c)>>
    BY <2>4, <2>5, ValuesOfTwo
  <2> QED
    BY <2>2, <2>3, <2>6
<1>3. Local(FlattenSeq(f))
  BY Zenon DEF IsZeroTraces
<1>4. Plain!IsZeroTraces(xs) <=> Plain!Local(FlattenSeq(g))
  BY SameFlattened, Zenon DEF Plain!IsZeroTraces
<1>5. f = [n \in DOMAIN xs |-> f[n]] /\ g = [n \in DOMAIN xs |-> g[n]]
  OBVIOUS
<1> HIDE DEF f, g
<1>6. FlattenSeq(f) \in Seq(Sharings) /\ Values(FlattenSeq(f)) = FlattenSeq(g)
  BY <1>2, <1>5, BatchValues
<1>7. IInv' /\ Plain!Local(Values(FlattenSeq(f)))
  BY <1>3, <1>6, LocalStep
<1> QED
  BY <1>4, <1>6, <1>7, Zenon

(* Zero tests by masked openings: the flags are revealed to all parties.   *)
LEMMA IsZeroRevealTracesStep ==
  ASSUME IInv, NEW xs \in Vectors, NEW mask \in Masks, NEW r \in Randomness,
         NEW zero \in ZeroShares, IsZeroRevealTraces(xs, mask, r, zero)
  PROVE  IInv' /\ Plain!IsZeroRevealTraces(xs)
<1>1. PICK k \in {1, 2} : DOMAIN xs = 1 .. k /\ \A n \in 1 .. k : xs[n] \in Operands
  BY VectorOf
<1> DEFINE trace == [n \in DOMAIN xs |->
                       IsZeroRevealOf(shares[xs[n]], FreshSharing(mask, r), zero)]
           f == [n \in DOMAIN xs |-> <<trace[n].flag, trace[n].helper>>]
           regs == [i \in DOMAIN shares |-> Combine(shares[i])]
           g == [n \in DOMAIN xs |-> <<Plain!Flag(regs[xs[n]]), Plain!Helper(regs[xs[n]])>>]
           flags == [n \in DOMAIN xs |-> Plain!Flag(regs[xs[n]])]
<1>2. ASSUME NEW n \in DOMAIN xs
      PROVE  /\ f[n] \in Seq(Sharings) /\ Values(f[n]) = g[n]
             /\ trace[n].revealed = flags[n]
  <2>1. xs[n] \in Operands
    BY <1>1
  <2>2. PICK c \in Field : /\ c = Combine(shares[xs[n]]) /\ c = regs[xs[n]]
                           /\ Shares(shares[xs[n]], c)
    BY <2>1, OperandShares
  <2>3. PICK t : t = IsZeroRevealOf(shares[xs[n]], FreshSharing(mask, r), zero)
    OBVIOUS
  <2>4. /\ Shares(t.flag, IF c = 0 THEN 1 ELSE 0)
        /\ Shares(t.helper, IF c = 0 THEN 0 ELSE FieldInverse(c))
        /\ t.revealed = IF c = 0 THEN 1 ELSE 0
    BY <2>2, <2>3, SharesIsZeroReveal
  <2>5. t.flag \in Sharings /\ Combine(t.flag) = Plain!Flag(c)
    BY <2>4, SharedFlag
  <2>6. t.helper \in Sharings /\ Combine(t.helper) = Plain!Helper(c)
    BY <2>4, SharedHelper
  <2>7. <<t.flag, t.helper>> \in Seq(Sharings)
        /\ Values(<<t.flag, t.helper>>) = <<Plain!Flag(c), Plain!Helper(c)>>
    BY <2>5, <2>6, ValuesOfTwo
  <2>8. t.revealed = Plain!Flag(c)
    BY <2>4 DEF Plain!Flag
  <2>9. trace[n] = t
    BY <2>3
  <2> HIDE DEF trace
  <2> QED
    BY <2>2, <2>7, <2>8, <2>9
<1>3. /\ shares' = shares \o FlattenSeq(f)
      /\ opened' = [p \in Parties |-> [n \in DOMAIN xs |-> trace[n].revealed]]
  BY Zenon DEF IsZeroRevealTraces, Obtain
<1>4. Plain!IsZeroRevealTraces(xs) <=> Plain!Obtain(FlattenSeq(g)) /\ Revealed' = flags
  BY SameFlattened, Zenon DEF Plain!IsZeroRevealTraces
<1>5. f = [n \in DOMAIN xs |-> f[n]] /\ g = [n \in DOMAIN xs |-> g[n]]
  OBVIOUS
<1>6. [n \in DOMAIN xs |-> trace[n].revealed] = flags
  <2> HIDE DEF trace
  <2>1. \A n \in DOMAIN xs : trace[n].revealed = flags[n]
    BY <1>2
  <2> QED
    BY <2>1
<1> HIDE DEF f, g, flags, trace
<1>7. FlattenSeq(f) \in Seq(Sharings) /\ Values(FlattenSeq(f)) = FlattenSeq(g)
  BY <1>2, <1>5, BatchValues
<1>8. \A p \in Parties : opened'[p] = flags
  BY <1>3, <1>6
<1>9. opened'[1] = flags
  BY <1>8 DEF Parties
<1>10. Revealed' = flags
  BY <1>8, <1>9 DEF Revealed
<1>11. /\ shares' \in Seq(Sharings) /\ Len(shares') >= Window
       /\ Plain!Obtain(Values(FlattenSeq(f)))
  BY <1>3, <1>7, Obtained
<1>12. IInv'
  BY <1>8, <1>9, <1>11 DEF IInv
<1> QED
  BY <1>4, <1>7, <1>10, <1>11, <1>12, Zenon

-----------------------------------------------------------------------------
(* A step from one value of a list to the next, and a list that starts     *)
(* with a value and goes on by it.                                         *)
IsStep(G, m, S) == G \in [(1 .. m) \X S -> S]

Iterates(f, m, S, first, G) ==
  /\ f \in [0 .. m -> S]
  /\ f[0] = first
  /\ \A n \in 1 .. m : f[n] = G[<<n, f[n - 1]>>]

(* There is such a list, however long.                                     *)
LEMMA IterationExists ==
  ASSUME NEW m \in Nat, NEW S, NEW first \in S, NEW G, IsStep(G, m, S)
  PROVE  \E f : Iterates(f, m, S, first, G)
<1> USE DEF IsStep, Iterates
<1> DEFINE Upto(k) == \E f \in [0 .. k -> S] : /\ f[0] = first
                                              /\ \A n \in 1 .. k : f[n] = G[<<n, f[n - 1]>>]
           T == {k \in Nat : k <= m => Upto(k)}
<1>1. 0 \in T
  <2> DEFINE f == [n \in 0 .. 0 |-> first]
  <2>1. f \in [0 .. 0 -> S] /\ f[0] = first
    OBVIOUS
  <2> HIDE DEF f
  <2>2. \A n \in 1 .. 0 : f[n] = G[<<n, f[n - 1]>>]
    OBVIOUS
  <2> QED
    BY <2>1, <2>2
<1>2. ASSUME NEW k \in T
      PROVE  k + 1 \in T
  <2> SUFFICES ASSUME k + 1 <= m PROVE Upto(k + 1)
    OBVIOUS
  <2>1. PICK f \in [0 .. k -> S] : f[0] = first /\ \A n \in 1 .. k : f[n] = G[<<n, f[n - 1]>>]
    OBVIOUS
  <2>2. G[<<k + 1, f[k]>>] \in S
    OBVIOUS
  <2> DEFINE h == [n \in 0 .. (k + 1) |-> IF n <= k THEN f[n] ELSE G[<<k + 1, f[k]>>]]
  <2>3. h \in [0 .. (k + 1) -> S]
    BY <2>2
  <2>4. h[0] = first
    BY <2>1
  <2>5. ASSUME NEW n \in 1 .. (k + 1)
        PROVE  h[n] = G[<<n, h[n - 1]>>]
    <3>1. CASE n <= k
      <4>1. h[n] = f[n] /\ h[n - 1] = f[n - 1] /\ n \in 1 .. k
        BY <3>1
      <4> HIDE DEF h
      <4> QED
        BY <2>1, <4>1
    <3>2. CASE n = k + 1
      <4>1. h[n] = G[<<k + 1, f[k]>>] /\ h[n - 1] = f[k]
        BY <3>2
      <4> HIDE DEF h
      <4> QED
        BY <3>2, <4>1
    <3> QED
      BY <3>1, <3>2
  <2> HIDE DEF h
  <2> QED
    BY <2>3, <2>4, <2>5
<1>3. T = Nat
  <2> HIDE DEF T
  <2>1. T \in SUBSET Nat
    BY DEF T
  <2> QED
    BY <1>1, <1>2, <2>1, NaturalsFrom0
<1>4. m \in T
  BY <1>3
<1> QED
  BY <1>4

-----------------------------------------------------------------------------
(* Decompositions and alias checks.                                        *)

LEMMA Gadgets ==
  /\ Pairs \in Nat /\ Pairs > 0
  /\ \A n \in 1 .. Pairs : /\ n \in Nat /\ 2 * n \in 1 .. (2 * Pairs)
                           /\ 2 * n - 1 \in 1 .. (2 * Pairs) /\ n - 1 \in 0 .. Pairs
                           /\ Limit[2 * n] \in {0, 1} /\ Limit[2 * n - 1] \in {0, 1}
  BY GadgetAssumption

(* A bit is shared as it is.                                               *)
LEMMA SharesBit ==
  ASSUME NEW v, NEW j, NEW r \in Randomness
  PROVE  /\ FreshSharing(BitOf(v, j), r) \in Sharings
         /\ Combine(FreshSharing(BitOf(v, j), r)) = Plain!BitOf(v, j)
<1>1. PICK b \in {0, 1} : b = BitOf(v, j)
  BY Zenon DEF BitOf
<1>2. Plain!BitOf(v, j) = BitOf(v, j)
  BY Zenon DEF Plain!BitOf, BitOf
<1>3. b \in Int /\ (b % P) = b
  BY ZeroAndOne
<1>4. Shares(FreshSharing(b, r), b)
  BY <1>3, SharesFresh
<1>5. FreshSharing(b, r) \in Sharings /\ Combine(FreshSharing(b, r)) = b
  BY <1>3, <1>4, Combined DEF Shares
<1> QED
  BY <1>1, <1>2, <1>5, Zenon

(* A list of sharings, and its values.                                     *)
Listed(f, g, m) ==
  /\ f = [n \in 1 .. m |-> f[n]]
  /\ g = [n \in 1 .. m |-> g[n]]
  /\ \A n \in 1 .. m : f[n] \in Sharings /\ Combine(f[n]) = g[n]

LEMMA ValuesListed ==
  ASSUME NEW m \in Nat, NEW f, NEW g, Listed(f, g, m)
  PROVE  f \in Seq(Sharings) /\ Len(f) = m /\ Values(f) = g
<1> USE DEF Listed
<1>1. f \in [1 .. m -> Sharings]
  <2>1. \A n \in 1 .. m : f[n] \in Sharings
    OBVIOUS
  <2>2. [n \in 1 .. m |-> f[n]] \in [1 .. m -> Sharings]
    BY <2>1
  <2> QED
    BY <2>2
<1>2. f \in Seq(Sharings) /\ Len(f) = m
  BY <1>1, ListOf
<1>3. DOMAIN f = 1 .. m
  BY <1>1
<1>4. [n \in 1 .. m |-> Combine(f[n])] = [n \in 1 .. m |-> g[n]]
  OBVIOUS
<1>5. Values(f) = [n \in 1 .. m |-> Combine(f[n])]
  BY <1>3, Zenon DEF Values
<1> QED
  BY <1>2, <1>4, <1>5, Zenon

(* Decomposed, a sharing gives the bits of its value.                      *)
LEMMA SharesBits ==
  ASSUME NEW s, NEW c, Combine(s) = c, NEW count \in Nat, NEW r \in Randomness
  PROVE  /\ BitsOf(s, count, r) \in Seq(Sharings) /\ Len(BitsOf(s, count, r)) = count
         /\ Values(BitsOf(s, count, r)) = Plain!BitsOf(c, count)
         /\ \A j \in 1 .. count : /\ BitsOf(s, count, r)[j] \in Sharings
                                  /\ Combine(BitsOf(s, count, r)[j]) = Plain!BitsOf(c, count)[j]
<1> DEFINE f == [j \in 1 .. count |-> FreshSharing(BitOf(c, j), r)]
           g == [j \in 1 .. count |-> Plain!BitOf(c, j)]
<1>1. BitsOf(s, count, r) = f /\ Plain!BitsOf(c, count) = g
  BY Zenon DEF BitsOf, Plain!BitsOf
<1>2. \A j \in 1 .. count : f[j] \in Sharings /\ Combine(f[j]) = g[j]
  <2> SUFFICES ASSUME NEW j \in 1 .. count PROVE f[j] \in Sharings /\ Combine(f[j]) = g[j]
    OBVIOUS
  <2>1. f[j] = FreshSharing(BitOf(c, j), r) /\ g[j] = Plain!BitOf(c, j)
    OBVIOUS
  <2> HIDE DEF f, g
  <2> QED
    BY <2>1, SharesBit
<1>3. f = [n \in 1 .. count |-> f[n]] /\ g = [n \in 1 .. count |-> g[n]]
  OBVIOUS
<1> HIDE DEF f, g
<1>4. f \in Seq(Sharings) /\ Len(f) = count /\ Values(f) = g
  <2>1. Listed(f, g, count)
    BY <1>2, <1>3 DEF Listed
  <2> QED
    BY <2>1, ValuesListed
<1> QED
  BY <1>1, <1>2, <1>4

(* Decompositions.                                                         *)
LEMMA Num2BitsTracesStep ==
  ASSUME IInv, NEW xs \in Vectors, NEW count \in BitCounts, NEW r \in Randomness,
         Num2BitsTraces(count, xs, r)
  PROVE  IInv' /\ Plain!Num2BitsTraces(count, xs)
<1>1. PICK k \in {1, 2} : DOMAIN xs = 1 .. k /\ \A n \in 1 .. k : xs[n] \in Operands
  BY VectorOf
<1> DEFINE f == [n \in DOMAIN xs |-> BitsOf(shares[xs[n]], count, r)]
           regs == [i \in DOMAIN shares |-> Combine(shares[i])]
           g == [n \in DOMAIN xs |-> Plain!BitsOf(regs[xs[n]], count)]
<1>2. ASSUME NEW n \in DOMAIN xs
      PROVE  f[n] \in Seq(Sharings) /\ Values(f[n]) = g[n]
  <2>1. xs[n] \in Operands
    BY <1>1
  <2>2. PICK c \in Field : c = Combine(shares[xs[n]]) /\ c = regs[xs[n]]
    BY <2>1, OperandShares
  <2>3. count \in Nat
    BY GadgetAssumption
  <2>4. /\ BitsOf(shares[xs[n]], count, r) \in Seq(Sharings)
        /\ Values(BitsOf(shares[xs[n]], count, r)) = Plain!BitsOf(c, count)
    BY <2>2, <2>3, SharesBits
  <2> QED
    BY <2>2, <2>4
<1>3. Local(FlattenSeq(f))
  BY Zenon DEF Num2BitsTraces
<1>4. Plain!Num2BitsTraces(count, xs) <=> Plain!Local(FlattenSeq(g))
  BY SameFlattened, Zenon DEF Plain!Num2BitsTraces
<1>5. f = [n \in DOMAIN xs |-> f[n]] /\ g = [n \in DOMAIN xs |-> g[n]]
  OBVIOUS
<1> HIDE DEF f, g
<1>6. FlattenSeq(f) \in Seq(Sharings) /\ Values(FlattenSeq(f)) = FlattenSeq(g)
  BY <1>2, <1>5, BatchValues
<1>7. IInv' /\ Plain!Local(Values(FlattenSeq(f)))
  BY <1>3, <1>6, LocalStep
<1> QED
  BY <1>4, <1>6, <1>7, Zenon

(* The weights are numbers, and both drivers' are the same.                *)
LEMMA WeightsKnown ==
  /\ Plain!Weights = Weights
  /\ \A n \in 0 .. Pairs : Weights[n].a \in Int /\ Weights[n].b \in Int /\ Weights[n].e \in Int
<1> DEFINE First == [a |-> 1, b |-> 2 ^ (Pairs + 1) - 1, e |-> 1]
           Following(w) == [a |-> w.a + w.e, b |-> w.b - w.e, e |-> w.e + w.e]
           Run(h) == [n \in 0 .. Pairs |-> IF n = 0 THEN First ELSE Following(h[n - 1])]
           S == [a : Int, b : Int, e : Int]
           G == [x \in (1 .. Pairs) \X S |-> Following(x[2])]
<1>1. Pairs \in Nat
  BY Gadgets
<1>2. First \in S /\ First.a = 1 /\ First.e = 1
  BY <1>1
<1>3. \A w \in S : Following(w) \in S
  OBVIOUS
<1>4. G \in [(1 .. Pairs) \X S -> S] /\ \A n \in 1 .. Pairs, w \in S : G[<<n, w>>] = Following(w)
  BY <1>3
<1>5. PICK f : Iterates(f, Pairs, S, First, G)
  <2>1. IsStep(G, Pairs, S)
    BY <1>4 DEF IsStep
  <2> HIDE DEF G, S, First
  <2> QED
    BY <1>1, <1>2, <2>1, IterationExists, Zenon
<1>6. f = Run(f)
  <2>1. \A n \in 0 .. Pairs : f[n] = IF n = 0 THEN First ELSE Following(f[n - 1])
    <3> SUFFICES ASSUME NEW n \in 0 .. Pairs, n # 0 PROVE f[n] = Following(f[n - 1])
      BY <1>5 DEF Iterates
    <3>1. n \in 1 .. Pairs /\ n - 1 \in 0 .. Pairs
      BY <1>1
    <3>2. f[n - 1] \in S /\ f[n] = G[<<n, f[n - 1]>>]
      BY <1>5, <3>1 DEF Iterates
    <3> HIDE DEF G, S, Following
    <3> QED
      BY <1>4, <3>1, <3>2
  <2> HIDE DEF S, First, Following
  <2> QED
    BY <1>5, <2>1 DEF Iterates
<1>7. Weights = CHOOSE h : h = Run(h)
  BY Zenon DEF Weights
<1>8. Weights = Run(Weights)
  <2> HIDE DEF Run
  <2> QED
    BY <1>6, <1>7, Zenon
<1>9. Weights[0] = First /\ \A n \in 0 .. Pairs : n + 1 \in 0 .. Pairs => Weights[n + 1] = Following(Weights[n])
  <2> HIDE DEF First, Following
  <2>1. Weights = [n \in 0 .. Pairs |-> IF n = 0 THEN First ELSE Following(Weights[n - 1])]
    BY <1>8
  <2>2. \A n \in 0 .. Pairs : Weights[n] = IF n = 0 THEN First ELSE Following(Weights[n - 1])
    BY <2>1
  <2> QED
    BY <1>1, <2>2
<1> DEFINE Numbers(n) == Weights[n].a \in Int /\ Weights[n].b \in Int /\ Weights[n].e \in Int
           T == {n \in Nat : n \in 0 .. Pairs => Numbers(n)}
<1>10. 0 \in T
  <2>1. First.a \in Int /\ First.b \in Int /\ First.e \in Int
    BY <1>1
  <2> HIDE DEF First
  <2> QED
    BY <1>9, <2>1
<1>11. ASSUME NEW n \in T
       PROVE  n + 1 \in T
  <2> SUFFICES ASSUME n + 1 \in 0 .. Pairs PROVE Numbers(n + 1)
    OBVIOUS
  <2>1. n \in 0 .. Pairs /\ Numbers(n)
    <3> HIDE DEF Numbers
    <3>1. n \in Nat /\ (n \in 0 .. Pairs => Numbers(n))
      OBVIOUS
    <3>2. n \in 0 .. Pairs
      BY <1>1, <3>1
    <3> QED
      BY <3>1, <3>2
  <2>2. Weights[n + 1] = Following(Weights[n])
    BY <1>9, <2>1
  <2> QED
    BY <2>1, <2>2
<1>12. T = Nat
  <2> HIDE DEF T
  <2>1. T \in SUBSET Nat
    BY DEF T
  <2> QED
    BY <1>10, <1>11, <2>1, NaturalsFrom0
<1>13. Plain!Weights = Weights
  BY Zenon DEF Plain!Weights, Weights
<1> QED
  BY <1>1, <1>12, <1>13

-----------------------------------------------------------------------------
(* What a pair adds is shared as the plain driver has it: the same weights *)
(* times the same product and bits.                                        *)
LEMMA SharesPart ==
  ASSUME NEW n \in 1 .. Pairs, NEW h \in Int, NEW l \in Int,
         NEW product, NEW high, NEW low,
         Shares(product, h * l), Shares(high, h), Shares(low, l)
  PROVE  /\ PartOf(n, product, high, low) \in Sharings
         /\ Combine(PartOf(n, product, high, low)) = Plain!Part(n, h, l)
<1>1. n - 1 \in 0 .. Pairs
      /\ Limit[2 * n] \in {0, 1} /\ Limit[2 * n - 1] \in {0, 1}
  BY Gadgets
<1>2. PICK w : w = Weights[n - 1] /\ w.a \in Int /\ w.b \in Int
  BY <1>1, WeightsKnown
<1>3. PICK a \in Int : a = w.a
  BY <1>2
<1>4. PICK b \in Int : b = w.b
  BY <1>2
<1>5. PICK m \in Int : m = h * l
  BY Z3
<1>6. -a \in Int /\ -b \in Int
  OBVIOUS
<1>7. /\ m * a \in Int /\ m * b \in Int /\ m * (-a) \in Int /\ m * (-b) \in Int
      /\ h * a \in Int /\ h * b \in Int /\ l * a \in Int /\ l * b \in Int
  BY <1>6, Z3
<1>8. /\ Shares(MulPublic(product, a), m * a) /\ Shares(MulPublic(product, b), m * b)
      /\ Shares(MulPublic(product, -a), m * (-a)) /\ Shares(MulPublic(product, -b), m * (-b))
      /\ Shares(MulPublic(high, a), h * a) /\ Shares(MulPublic(high, b), h * b)
      /\ Shares(MulPublic(low, a), l * a) /\ Shares(MulPublic(low, b), l * b)
  BY <1>5, <1>6, SharesMultiple
<1> DEFINE p == PartOf(n, product, high, low)
           v == Plain!Part(n, h, l)
<1>9. CASE Limit[2 * n] = 0 /\ Limit[2 * n - 1] = 0
  <2>1. p = Add(Add(MulPublic(product, -b), MulPublic(high, b)), MulPublic(low, b))
    BY <1>2, <1>4, <1>9 DEF PartOf
  <2>2. v = (((-b) * m + b * h + b * l) % P)
    BY <1>2, <1>4, <1>5, <1>9, WeightsKnown DEF Plain!Part
  <2>3. (-b) * m + b * h + b * l = (m * (-b) + h * b) + l * b
    BY Z3
  <2>4. Shares(Add(MulPublic(product, -b), MulPublic(high, b)), m * (-b) + h * b)
    BY <1>7, <1>8, SharesSum
  <2>5. m * (-b) + h * b \in Int
    BY <1>7
  <2>6. Shares(p, (m * (-b) + h * b) + l * b)
    BY <1>7, <1>8, <2>1, <2>4, <2>5, SharesSum
  <2> QED
    BY <2>2, <2>3, <2>6, Combined DEF Shares
<1>10. CASE Limit[2 * n] = 0 /\ Limit[2 * n - 1] = 1
  <2> DEFINE p1 == Sub(MulPublic(product, a), MulPublic(low, a))
             p2 == Add(p1, MulPublic(high, b))
             p3 == Sub(p2, MulPublic(high, a))
  <2>1. p = AddPublic(p3, a)
    BY <1>2, <1>3, <1>4, <1>10 DEF PartOf
  <2>2. v = ((a * m - a * l + b * h - a * h + a) % P)
    BY <1>2, <1>3, <1>4, <1>5, <1>10, WeightsKnown DEF Plain!Part
  <2>3. PICK x \in Int : x = m * a - l * a
    BY <1>7
  <2>4. PICK y \in Int : y = x + h * b
    BY <1>7
  <2>5. PICK z \in Int : z = y - h * a
    BY <1>7
  <2>6. a * m - a * l + b * h - a * h + a = z + a
    BY <2>3, <2>4, <2>5, Z3
  <2>7. Shares(p1, x)
    BY <1>7, <1>8, <2>3, SharesDifference
  <2> HIDE DEF p1
  <2>8. Shares(p2, y)
    BY <1>7, <1>8, <2>4, <2>7, SharesSum
  <2> HIDE DEF p2
  <2>9. Shares(p3, z)
    BY <1>7, <1>8, <2>5, <2>8, SharesDifference
  <2> HIDE DEF p3
  <2>10. Shares(p, z + a)
    BY <2>1, <2>9, SharesPublicSum
  <2> QED
    BY <2>2, <2>6, <2>10, Combined DEF Shares
<1>11. CASE Limit[2 * n] = 1 /\ Limit[2 * n - 1] = 0
  <2> DEFINE p1 == Sub(MulPublic(product, b), MulPublic(high, a))
  <2>1. p = AddPublic(p1, a)
    BY <1>2, <1>3, <1>4, <1>11 DEF PartOf
  <2>2. v = ((b * m - a * h + a) % P)
    BY <1>2, <1>3, <1>4, <1>5, <1>11, WeightsKnown DEF Plain!Part
  <2>3. PICK x \in Int : x = m * b - h * a
    BY <1>7
  <2>4. b * m - a * h + a = x + a
    BY <2>3, Z3
  <2>5. Shares(p1, x)
    BY <1>7, <1>8, <2>3, SharesDifference
  <2> HIDE DEF p1
  <2>6. Shares(p, x + a)
    BY <2>1, <2>5, SharesPublicSum
  <2> QED
    BY <2>2, <2>4, <2>6, Combined DEF Shares
<1>12. CASE Limit[2 * n] = 1 /\ Limit[2 * n - 1] = 1
  <2>1. p = AddPublic(MulPublic(product, -a), a)
    BY <1>2, <1>3, <1>12 DEF PartOf
  <2>2. v = (((-a) * m + a) % P)
    BY <1>2, <1>3, <1>5, <1>12, WeightsKnown DEF Plain!Part
  <2>3. (-a) * m + a = m * (-a) + a
    BY Z3
  <2>4. Shares(p, m * (-a) + a)
    BY <1>7, <1>8, <2>1, SharesPublicSum
  <2> QED
    BY <2>2, <2>3, <2>4, Combined DEF Shares
<1> QED
  BY <1>1, <1>9, <1>10, <1>11, <1>12

(* The plain driver's sum, by its recursion.                               *)
LEMMA PlainSum ==
  ASSUME NEW values, \A n \in 1 .. Pairs : values[n] \in Int
  PROVE  \E g : /\ Plain!SumOf(values) = g[Pairs] /\ g[0] = 0
                /\ \A n \in 1 .. Pairs : g[n] = ((g[n - 1] + values[n]) % P)
<1> DEFINE Run(h) == [n \in 0 .. Pairs |-> IF n = 0 THEN 0 ELSE (h[n - 1] + values[n]) % P]
           G == [x \in (1 .. Pairs) \X Int |-> (x[2] + values[x[1]]) % P]
<1>1. Pairs \in Nat
  BY Gadgets
<1>2. G \in [(1 .. Pairs) \X Int -> Int]
  <2> SUFFICES ASSUME NEW n \in 1 .. Pairs, NEW y \in Int PROVE ((y + values[n]) % P) \in Int
    OBVIOUS
  <2>1. y + values[n] \in Int
    OBVIOUS
  <2> QED
    BY <2>1, InField
<1>3. \A n \in 1 .. Pairs, y \in Int : G[<<n, y>>] = ((y + values[n]) % P)
  OBVIOUS
<1>4. PICK f : Iterates(f, Pairs, Int, 0, G)
  <2>1. IsStep(G, Pairs, Int)
    BY <1>2 DEF IsStep
  <2>2. 0 \in Int
    OBVIOUS
  <2> HIDE DEF G
  <2> QED
    BY <1>1, <2>1, <2>2, IterationExists, Zenon
<1>5. f = Run(f)
  <2>1. \A n \in 0 .. Pairs : f[n] = IF n = 0 THEN 0 ELSE (f[n - 1] + values[n]) % P
    <3> SUFFICES ASSUME NEW n \in 0 .. Pairs, n # 0 PROVE f[n] = ((f[n - 1] + values[n]) % P)
      BY <1>4 DEF Iterates
    <3>1. n \in 1 .. Pairs /\ n - 1 \in 0 .. Pairs
      BY <1>1
    <3>2. f[n - 1] \in Int /\ f[n] = G[<<n, f[n - 1]>>]
      BY <1>4, <3>1 DEF Iterates
    <3> HIDE DEF G
    <3> QED
      BY <1>3, <3>1, <3>2
  <2> QED
    BY <1>4, <2>1 DEF Iterates
<1>6. PICK g : g = CHOOSE h : h = Run(h)
  OBVIOUS
<1>7. g = Run(g)
  <2> HIDE DEF Run
  <2> QED
    BY <1>5, <1>6, Zenon
<1>8. Plain!SumOf(values) = g[Pairs]
  BY <1>6, Zenon DEF Plain!SumOf
<1>9. \A n \in 0 .. Pairs : g[n] = IF n = 0 THEN 0 ELSE (g[n - 1] + values[n]) % P
  BY <1>7
<1>10. 0 \in 0 .. Pairs /\ \A n \in 1 .. Pairs : n \in 0 .. Pairs /\ n # 0
  BY <1>1
<1> QED
  BY <1>8, <1>9, <1>10

(* The shared sum, by its own.                                             *)
LEMMA SharedSum ==
  ASSUME NEW parts, \A n \in 1 .. Pairs : parts[n] \in Sharings
  PROVE  \E g : /\ SumOf(parts) = g[Pairs] /\ g[0] = ZeroShare
                /\ \A n \in 1 .. Pairs : g[n] = Add(g[n - 1], parts[n])
<1> DEFINE Run(h) == [n \in 0 .. Pairs |-> IF n = 0 THEN ZeroShare ELSE Add(h[n - 1], parts[n])]
           G == [x \in (1 .. Pairs) \X Sharings |-> Add(x[2], parts[x[1]])]
<1>1. Pairs \in Nat
  BY Gadgets
<1>2. G \in [(1 .. Pairs) \X Sharings -> Sharings]
  <2> SUFFICES ASSUME NEW n \in 1 .. Pairs, NEW s \in Sharings PROVE Add(s, parts[n]) \in Sharings
    OBVIOUS
  <2>1. parts[n] \in Sharings
    OBVIOUS
  <2>2. PICK c \in Int, d \in Int : Shares(s, c) /\ Shares(parts[n], d)
    BY <2>1, OfSharings
  <2> QED
    BY <2>2, SharesSum DEF Shares
<1>3. \A n \in 1 .. Pairs, s \in Sharings : G[<<n, s>>] = Add(s, parts[n])
  OBVIOUS
<1>4. ZeroShare \in Sharings
  BY DEF ZeroShare, Sharings
<1>5. PICK f : Iterates(f, Pairs, Sharings, ZeroShare, G)
  <2>1. IsStep(G, Pairs, Sharings)
    BY <1>2 DEF IsStep
  <2> HIDE DEF G
  <2> QED
    BY <1>1, <1>4, <2>1, IterationExists, Zenon
<1>6. f = Run(f)
  <2>1. \A n \in 0 .. Pairs : f[n] = IF n = 0 THEN ZeroShare ELSE Add(f[n - 1], parts[n])
    <3> SUFFICES ASSUME NEW n \in 0 .. Pairs, n # 0 PROVE f[n] = Add(f[n - 1], parts[n])
      BY <1>5 DEF Iterates
    <3>1. n \in 1 .. Pairs /\ n - 1 \in 0 .. Pairs
      BY <1>1
    <3>2. f[n - 1] \in Sharings /\ f[n] = G[<<n, f[n - 1]>>]
      BY <1>5, <3>1 DEF Iterates
    <3> HIDE DEF G
    <3> QED
      BY <1>3, <3>1, <3>2
  <2> QED
    BY <1>5, <2>1 DEF Iterates
<1>7. PICK g : g = CHOOSE h : h = Run(h)
  OBVIOUS
<1>8. g = Run(g)
  <2> HIDE DEF Run
  <2> QED
    BY <1>6, <1>7, Zenon
<1>9. SumOf(parts) = g[Pairs]
  BY <1>7, Zenon DEF SumOf
<1>10. \A n \in 0 .. Pairs : g[n] = IF n = 0 THEN ZeroShare ELSE Add(g[n - 1], parts[n])
  BY <1>8
<1>11. 0 \in 0 .. Pairs /\ \A n \in 1 .. Pairs : n \in 0 .. Pairs /\ n # 0
  BY <1>1
<1> QED
  BY <1>9, <1>10, <1>11

(* The parts' sum is shared as the plain driver has it.                    *)
LEMMA SharesSumOf ==
  ASSUME NEW parts, NEW values,
         \A n \in 1 .. Pairs : parts[n] \in Sharings /\ Combine(parts[n]) = values[n]
  PROVE  SumOf(parts) \in Sharings /\ Combine(SumOf(parts)) = Plain!SumOf(values)
<1>1. \A n \in 1 .. Pairs : values[n] \in Int /\ Shares(parts[n], values[n])
  BY OfSharings
<1>2. PICK f : /\ SumOf(parts) = f[Pairs] /\ f[0] = ZeroShare
               /\ \A n \in 1 .. Pairs : f[n] = Add(f[n - 1], parts[n])
  BY SharedSum
<1>3. PICK g : /\ Plain!SumOf(values) = g[Pairs] /\ g[0] = 0
               /\ \A n \in 1 .. Pairs : g[n] = ((g[n - 1] + values[n]) % P)
  BY <1>1, PlainSum
<1> DEFINE Agree(n) == g[n] \in Int /\ f[n] \in Sharings /\ Combine(f[n]) = g[n]
           T == {n \in Nat : n <= Pairs => Agree(n)}
<1>4. 0 \in T
  <2>1. Shares(ZeroShare, 0)
    <3>1. Congruent(0 + 0 + 0, 0, P)
      BY Modulus, CongruentSelf
    <3> QED
      BY <3>1, SharingShares DEF ZeroShare
  <2>2. ZeroShare \in Sharings /\ Combine(ZeroShare) = 0
    BY <2>1, Combined, ZeroAndOne DEF Shares
  <2>3. Agree(0)
    BY <1>2, <1>3, <2>2
  <2> QED
    BY <2>3
<1>5. ASSUME NEW n \in T
      PROVE  n + 1 \in T
  <2> HIDE DEF Agree
  <2>1. n \in Nat /\ (n <= Pairs => Agree(n)) /\ Pairs \in Nat
    BY Gadgets
  <2> SUFFICES ASSUME n + 1 <= Pairs PROVE Agree(n + 1)
    BY <2>1
  <2>2. Agree(n) /\ n + 1 \in 1 .. Pairs /\ (n + 1) - 1 = n
    BY <2>1
  <2>3. PICK c \in Int : c = g[n] /\ Shares(f[n], c)
    BY <2>2, OfSharings DEF Agree
  <2>4. PICK d \in Int : d = values[n + 1] /\ Shares(parts[n + 1], d)
    BY <1>1, <2>2
  <2>5. Shares(Add(f[n], parts[n + 1]), c + d)
    BY <2>3, <2>4, SharesSum
  <2>6. f[n + 1] = Add(f[n], parts[n + 1]) /\ g[n + 1] = ((c + d) % P)
    BY <1>2, <1>3, <2>2, <2>3, <2>4
  <2>7. f[n + 1] \in Sharings /\ Combine(f[n + 1]) = g[n + 1]
    BY <2>5, <2>6, Combined DEF Shares
  <2>8. c + d \in Int
    OBVIOUS
  <2>9. g[n + 1] \in Int
    BY <2>6, <2>8, InField
  <2> QED
    BY <2>7, <2>9 DEF Agree
<1>6. T = Nat
  <2> HIDE DEF T
  <2>1. T \in SUBSET Nat
    BY DEF T
  <2> QED
    BY <1>4, <1>5, <2>1, NaturalsFrom0
<1>7. Agree(Pairs)
  <2> HIDE DEF Agree
  <2>1. Pairs \in T /\ Pairs <= Pairs
    BY <1>6, Gadgets
  <2> QED
    BY <2>1
<1> QED
  BY <1>2, <1>3, <1>7

(* A site's signals are shared in the plain driver's order.                *)
LEMMA SignalsShared ==
  ASSUME NEW ins \in Seq(Sharings), NEW parts \in Seq(Sharings), NEW sum \in Sharings,
         NEW bits \in Seq(Sharings), Len(bits) = Pairs + 8
  PROVE  /\ AliasSignals(ins, parts, sum, bits) \in Seq(Sharings)
         /\ Values(AliasSignals(ins, parts, sum, bits))
              = Plain!AliasSignals(Values(ins), Values(parts), Combine(sum), Values(bits))
<1>1. Pairs + 1 \in 1 .. Len(bits)
  BY Gadgets
<1>2. PICK out \in Sharings : out = bits[Pairs + 1] /\ Values(bits)[Pairs + 1] = Combine(out)
  BY <1>1, ValuesOf
<1> DEFINE t1 == <<out>> \o ins
           t2 == t1 \o parts
           t3 == t2 \o <<sum>>
           t4 == t3 \o bits
           t5 == t4 \o <<sum>>
<1>3. /\ <<out>> \in Seq(Sharings) /\ Values(<<out>>) = <<Combine(out)>>
      /\ <<sum>> \in Seq(Sharings) /\ Values(<<sum>>) = <<Combine(sum)>>
  BY ValuesOfOne
<1>4. t1 \in Seq(Sharings) /\ Values(t1) = <<Combine(out)>> \o Values(ins)
  <2>1. PICK one \in Seq(Sharings) : one = <<out>> /\ Values(one) = <<Combine(out)>>
    BY <1>3
  <2>2. one \o ins \in Seq(Sharings) /\ Values(one \o ins) = Values(one) \o Values(ins)
    BY ValuesObtained
  <2> QED
    BY <2>1, <2>2, Zenon
<1> HIDE DEF t1
<1>5. t2 \in Seq(Sharings) /\ Values(t2) = Values(t1) \o Values(parts)
  BY <1>4, ValuesObtained
<1> HIDE DEF t2
<1>6. t3 \in Seq(Sharings) /\ Values(t3) = Values(t2) \o <<Combine(sum)>>
  BY <1>3, <1>5, ValuesObtained
<1> HIDE DEF t3
<1>7. t4 \in Seq(Sharings) /\ Values(t4) = Values(t3) \o Values(bits)
  BY <1>6, ValuesObtained
<1> HIDE DEF t4
<1>8. t5 \in Seq(Sharings) /\ Values(t5) = Values(t4) \o <<Combine(sum)>>
  BY <1>3, <1>7, ValuesObtained
<1>9. AliasSignals(ins, parts, sum, bits) = t5
  BY <1>2, Zenon DEF AliasSignals, t1, t2, t3, t4
<1>10. Plain!AliasSignals(Values(ins), Values(parts), Combine(sum), Values(bits))
         = (((((<<Combine(out)>> \o Values(ins)) \o Values(parts)) \o <<Combine(sum)>>)
               \o Values(bits)) \o <<Combine(sum)>>)
  BY <1>2, Zenon DEF Plain!AliasSignals
<1> HIDE DEF t5
<1>11. Values(t2) = (<<Combine(out)>> \o Values(ins)) \o Values(parts)
  BY <1>4, <1>5, Zenon
<1>12. Values(t4) = (Values(t2) \o <<Combine(sum)>>) \o Values(bits)
  BY <1>6, <1>7, Zenon
<1>13. Values(t5) = ((Values(t2) \o <<Combine(sum)>>) \o Values(bits)) \o <<Combine(sum)>>
  BY <1>8, <1>12, Zenon
<1>14. Values(t5) = Plain!AliasSignals(Values(ins), Values(parts), Combine(sum), Values(bits))
  BY <1>10, <1>11, <1>13, Zenon
<1> QED
  BY <1>8, <1>9, <1>14, Zenon

(* One site: from shared inputs and products, the plain driver's trace.    *)
LEMMA SharesAliasTrace ==
  ASSUME NEW ins, NEW values, NEW products, NEW r \in Randomness,
         Listed(ins, values, 2 * Pairs),
         \A n \in 1 .. (2 * Pairs) : values[n] \in Int /\ Shares(ins[n], values[n]),
         \A n \in 1 .. Pairs : Shares(products[n], values[2 * n - 1] * values[2 * n])
  PROVE  /\ AliasTrace(ins, products, r) \in Seq(Sharings)
         /\ Values(AliasTrace(ins, products, r)) = Plain!AliasTrace(values)
<1> DEFINE parts == [n \in 1 .. Pairs |-> PartOf(n, products[n], ins[2 * n], ins[2 * n - 1])]
           sum == SumOf(parts)
           bits == BitsOf(sum, Pairs + 8, r)
           plainParts == [n \in 1 .. Pairs |-> Plain!Part(n, values[2 * n], values[2 * n - 1])]
           plainSum == Plain!SumOf(plainParts)
           plainBits == Plain!BitsOf(plainSum, Pairs + 8)
<1>1. Pairs \in Nat /\ Pairs + 8 \in Nat /\ 2 * Pairs \in Nat
  BY Gadgets
<1>2. ins \in Seq(Sharings) /\ Values(ins) = values
  BY <1>1, ValuesListed, Zenon
<1>3. ASSUME NEW n \in 1 .. Pairs
      PROVE  parts[n] \in Sharings /\ Combine(parts[n]) = plainParts[n]
  <2>1. 2 * n \in 1 .. (2 * Pairs) /\ 2 * n - 1 \in 1 .. (2 * Pairs)
    BY Gadgets
  <2>2. PICK h \in Int : h = values[2 * n] /\ Shares(ins[2 * n], h)
    BY <2>1
  <2>3. PICK l \in Int : l = values[2 * n - 1] /\ Shares(ins[2 * n - 1], l)
    BY <2>1
  <2>4. l * h = h * l
    BY Z3
  <2>5. Shares(products[n], h * l)
    BY <2>2, <2>3, <2>4
  <2>6. PICK p : p = PartOf(n, products[n], ins[2 * n], ins[2 * n - 1])
    OBVIOUS
  <2>7. p \in Sharings /\ Combine(p) = Plain!Part(n, h, l)
    BY <2>2, <2>3, <2>5, <2>6, SharesPart
  <2>8. parts[n] = p /\ plainParts[n] = Plain!Part(n, h, l)
    BY <2>2, <2>3, <2>6
  <2> QED
    BY <2>7, <2>8, Zenon
<1>4. /\ parts = [n \in 1 .. Pairs |-> parts[n]]
      /\ plainParts = [n \in 1 .. Pairs |-> plainParts[n]]
  OBVIOUS
<1>5. /\ AliasTrace(ins, products, r) = AliasSignals(ins, parts, sum, bits)
      /\ Plain!AliasTrace(values) = Plain!AliasSignals(values, plainParts, plainSum, plainBits)
  BY Zenon DEF AliasTrace, Plain!AliasTrace
<1> HIDE DEF parts, plainParts
<1>6. parts \in Seq(Sharings) /\ Values(parts) = plainParts
  <2>1. Listed(parts, plainParts, Pairs)
    BY <1>3, <1>4, Zenon DEF Listed
  <2> QED
    BY <1>1, <2>1, ValuesListed, Zenon
<1>7. sum \in Sharings /\ Combine(sum) = plainSum
  BY <1>3, SharesSumOf
<1> HIDE DEF sum, plainSum
<1>8. bits \in Seq(Sharings) /\ Len(bits) = Pairs + 8 /\ Values(bits) = plainBits
  BY <1>1, <1>7, SharesBits
<1> HIDE DEF bits, plainBits
<1>9. /\ AliasSignals(ins, parts, sum, bits) \in Seq(Sharings)
      /\ Values(AliasSignals(ins, parts, sum, bits))
           = Plain!AliasSignals(Values(ins), Values(parts), Combine(sum), Values(bits))
  BY <1>2, <1>6, <1>7, <1>8, SignalsShared
<1> QED
  BY <1>2, <1>5, <1>6, <1>7, <1>8, <1>9, Zenon

(* An alias check serves one site or two.                                  *)
LEMMA AliasVectorOf ==
  ASSUME IInv, NEW xs \in AliasVectors
  PROVE  /\ xs \in Plain!AliasVectors
         /\ \E k \in {1, 2} : /\ Len(xs) \div (2 * Pairs) = k
                              /\ \A n \in 1 .. (k * (2 * Pairs)) : xs[n] \in Operands
<1>1. PICK places \in AliasSites : xs = [n \in DOMAIN places |-> Len(shares) - Window + places[n]]
  BY DEF AliasVectors
<1>2. PICK k \in {1, 2} : places \in [1 .. (k * (2 * Pairs)) -> 1 .. Window]
  BY GadgetAssumption
<1>3. shares \in Seq(Sharings) /\ Len(shares) \in Nat /\ Len(shares) >= Window /\ Window \in Nat
  BY StartsAssumption DEF IInv
<1>4. PICK m \in Nat : m = k * (2 * Pairs)
  BY Gadgets
<1>5. \A n \in 1 .. m : xs[n] = Len(shares) - Window + places[n] /\ places[n] \in 1 .. Window
  BY <1>1, <1>2, <1>4
<1>6. \A n \in 1 .. m : xs[n] \in Operands
  BY <1>3, <1>5 DEF Operands
<1>7. Len(xs) = m
  <2>1. xs = [n \in 1 .. m |-> xs[n]]
    BY <1>1, <1>2, <1>4
  <2>2. xs \in [1 .. m -> Operands]
    BY <1>6, <2>1
  <2> QED
    BY <2>2, ListOf
<1>8. m \div (2 * Pairs) = k
  <2>1. PICK d \in Nat : d = 2 * Pairs /\ d > 0
    BY Gadgets
  <2>2. d \div d = 1 /\ (2 * d) \div d = 2
    BY <2>1, Z3
  <2> QED
    BY <1>4, <2>1, <2>2
<1>9. xs \in Plain!AliasVectors
  <2>1. Values(shares) = [n \in DOMAIN shares |-> Combine(shares[n])] /\ Len(Values(shares)) = Len(shares)
    BY <1>3, ValuesOf DEF Values
  <2>2. xs = [n \in DOMAIN places |->
                Len([i \in DOMAIN shares |-> Combine(shares[i])]) - Window + places[n]]
    BY <1>1, <2>1, Zenon
  <2> QED
    BY <2>2, Zenon DEF Plain!AliasVectors
<1> QED
  BY <1>4, <1>6, <1>7, <1>8, <1>9

(* Alias checks.                                                           *)
LEMMA AliasCheckTracesStep ==
  ASSUME IInv, NEW xs \in AliasVectors, NEW r \in Randomness, NEW zero \in ZeroShares,
         AliasCheckTraces(xs, r, zero)
  PROVE  IInv' /\ Plain!AliasCheckTraces(xs)
<1>1. PICK k \in {1, 2} : /\ Len(xs) \div (2 * Pairs) = k
                          /\ \A n \in 1 .. (k * (2 * Pairs)) : xs[n] \in Operands
  BY AliasVectorOf
<1> DEFINE regs == [i \in DOMAIN shares |-> Combine(shares[i])]
           ins(s) == [n \in 1 .. (2 * Pairs) |-> shares[xs[(s - 1) * (2 * Pairs) + n]]]
           values(s) == [n \in 1 .. (2 * Pairs) |-> regs[xs[(s - 1) * (2 * Pairs) + n]]]
           products == [j \in 1 .. (k * Pairs) |->
                          Product(shares[xs[2 * j - 1]], shares[xs[2 * j]], zero)]
           f == [s \in 1 .. k |-> AliasTrace(ins(s), ChunkOf(products, s), r)]
           g == [s \in 1 .. k |-> Plain!AliasTrace(values(s))]
<1>2. ASSUME NEW s \in 1 .. k
      PROVE  f[s] \in Seq(Sharings) /\ Values(f[s]) = g[s]
  <2>1. PICK o \in Nat : /\ o = (s - 1) * Pairs /\ 2 * o = (s - 1) * (2 * Pairs)
                         /\ o + Pairs <= k * Pairs /\ 2 * o + 2 * Pairs <= k * (2 * Pairs)
    <3>1. Pairs \in Nat
      BY Gadgets
    <3>2. CASE s = 1
      <4>1. (s - 1) * Pairs = 0 /\ (s - 1) * (2 * Pairs) = 0
        BY <3>1, <3>2
      <4>2. k * Pairs >= Pairs /\ k * (2 * Pairs) >= 2 * Pairs
        BY <3>1
      <4> QED
        BY <3>1, <4>1, <4>2
    <3>3. CASE s = 2 /\ k = 2
      BY <3>1, <3>3
    <3> QED
      BY <3>2, <3>3
  <2>2. ASSUME NEW n \in 1 .. (2 * Pairs)
        PROVE  /\ ins(s)[n] = shares[xs[2 * o + n]]
               /\ values(s)[n] = regs[xs[2 * o + n]]
               /\ values(s)[n] \in Int
               /\ Shares(ins(s)[n], values(s)[n])
               /\ Combine(ins(s)[n]) = values(s)[n]
    <3>1. ins(s)[n] = shares[xs[2 * o + n]] /\ values(s)[n] = regs[xs[2 * o + n]]
      BY <2>1
    <3>2. 2 * o + n \in 1 .. (k * (2 * Pairs))
      BY <2>1, Gadgets
    <3>3. xs[2 * o + n] \in Operands
      BY <1>1, <3>2
    <3>4. PICK c \in Field : /\ c \in Int /\ c = Combine(shares[xs[2 * o + n]])
                             /\ c = regs[xs[2 * o + n]]
                             /\ Shares(shares[xs[2 * o + n]], c)
      BY <3>3, OperandShares
    <3> HIDE DEF ins, values, regs
    <3> QED
      BY <3>1, <3>4
  <2>3. ASSUME NEW n \in 1 .. Pairs
        PROVE  Shares(ChunkOf(products, s)[n], values(s)[2 * n - 1] * values(s)[2 * n])
    <3>1. 2 * n \in 1 .. (2 * Pairs) /\ 2 * n - 1 \in 1 .. (2 * Pairs) /\ n \in Nat
      BY Gadgets
    <3>2. o + n \in 1 .. (k * Pairs)
      BY <2>1, Gadgets
    <3>3. ChunkOf(products, s)[n] = products[o + n]
      BY <2>1 DEF ChunkOf
    <3>4. products[o + n] = Product(shares[xs[2 * (o + n) - 1]], shares[xs[2 * (o + n)]], zero)
      BY <3>2
    <3>5. 2 * (o + n) - 1 = 2 * o + (2 * n - 1) /\ 2 * (o + n) = 2 * o + 2 * n
      BY <3>1
    <3>6. products[o + n] = Product(ins(s)[2 * n - 1], ins(s)[2 * n], zero)
      <4> HIDE DEF ins, values, products
      <4> QED
        BY <2>2, <3>1, <3>4, <3>5
    <3> HIDE DEF ins, values, products
    <3>7. PICK c \in Int : c = values(s)[2 * n - 1] /\ Shares(ins(s)[2 * n - 1], c)
      BY <2>2, <3>1
    <3>8. PICK d \in Int : d = values(s)[2 * n] /\ Shares(ins(s)[2 * n], d)
      BY <2>2, <3>1
    <3>9. Shares(Product(ins(s)[2 * n - 1], ins(s)[2 * n], zero), c * d)
      BY <3>7, <3>8, SharesProduct
    <3> QED
      BY <3>3, <3>6, <3>7, <3>8, <3>9, Zenon
  <2>4. ins(s) = [n \in 1 .. (2 * Pairs) |-> ins(s)[n]]
        /\ values(s) = [n \in 1 .. (2 * Pairs) |-> values(s)[n]]
    OBVIOUS
  <2>5. PICK is, vs, ps : is = ins(s) /\ vs = values(s) /\ ps = ChunkOf(products, s)
    OBVIOUS
  <2>6. f[s] = AliasTrace(is, ps, r) /\ g[s] = Plain!AliasTrace(vs)
    BY <2>5
  <2> HIDE DEF ins, values, products, f, g
  <2>7. /\ Listed(is, vs, 2 * Pairs)
        /\ \A n \in 1 .. (2 * Pairs) : vs[n] \in Int /\ Shares(is[n], vs[n])
        /\ \A n \in 1 .. Pairs : Shares(ps[n], vs[2 * n - 1] * vs[2 * n])
    BY <2>2, <2>3, <2>4, <2>5, Zenon DEF Listed, Shares
  <2>8. AliasTrace(is, ps, r) \in Seq(Sharings)
        /\ Values(AliasTrace(is, ps, r)) = Plain!AliasTrace(vs)
    BY <2>7, SharesAliasTrace, Zenon
  <2> QED
    BY <2>6, <2>8
<1>3. Local(FlattenSeq(f))
  BY <1>1, Zenon DEF AliasCheckTraces
<1>4. Plain!AliasCheckTraces(xs) <=> Plain!Local(FlattenSeq(g))
  BY <1>1, SameFlattened, Zenon DEF Plain!AliasCheckTraces
<1>5. DOMAIN f = 1 .. k /\ Len(f) = k /\ DOMAIN g = 1 .. k /\ Len(g) = k
  OBVIOUS
<1> HIDE DEF f, g
<1>6. FlattenSeq(f) \in Seq(Sharings) /\ Values(FlattenSeq(f)) = FlattenSeq(g)
  BY <1>2, <1>5, ValuesFlattened
<1>7. IInv' /\ Plain!Local(Values(FlattenSeq(f)))
  BY <1>3, <1>6, LocalStep
<1> QED
  BY <1>4, <1>6, <1>7, Zenon
-----------------------------------------------------------------------------
(* The register file a run starts from shares the plain one.               *)
LEMMA InitHolds ==
  ASSUME Init
  PROVE  IInv /\ Plain!Init
<1>1. PICK start \in Starts, r \in Randomness :
        shares = [n \in DOMAIN start |-> FreshSharing(start[n], r)]
  BY DEF Init
<1>2. start \in Seq(Field) /\ Len(start) >= Window
  BY StartsAssumption
<1>3. ASSUME NEW n \in DOMAIN start
      PROVE  FreshSharing(start[n], r) \in Sharings /\ Combine(FreshSharing(start[n], r)) = start[n]
  <2>1. PICK c \in 0 .. (P - 1) : c = start[n] /\ c \in Int
    BY <1>2, Modulus DEF Field
  <2>2. (c % P) = c
    BY Modulus, RemainderOfSmall
  <2>3. Shares(FreshSharing(c, r), c)
    BY <2>1, SharesFresh
  <2> QED
    BY <2>1, <2>2, <2>3, Combined DEF Shares
<1>4. DOMAIN start = 1 .. Len(start) /\ Len(start) \in Nat
  BY <1>2
<1>5. shares \in Seq(Sharings) /\ Len(shares) = Len(start) /\ DOMAIN shares = DOMAIN start
      /\ \A n \in DOMAIN start : shares[n] = FreshSharing(start[n], r)
  BY <1>1, <1>3, <1>4
<1>6. \A p \in Parties : opened[p] = <<>>
  BY DEF Init
<1>7. opened[1] = <<>>
  BY <1>6 DEF Parties
<1>8. IInv
  BY <1>2, <1>5, <1>6, <1>7 DEF IInv
<1>9. [n \in DOMAIN shares |-> Combine(shares[n])] = start
  <2>1. \A n \in DOMAIN start : Combine(shares[n]) = start[n]
    BY <1>3, <1>5
  <2>2. start = [n \in DOMAIN start |-> start[n]]
    BY <1>2
  <2> QED
    BY <1>5, <2>1, <2>2, Zenon
<1>10. Revealed = <<>>
  BY <1>6, <1>7 DEF Revealed
<1> QED
  BY <1>8, <1>9, <1>10 DEF Plain!Init

(* Every call of the rep3 driver is that call of the plain one.            *)
LEMMA NextStep ==
  ASSUME IInv, [Next]_vars
  PROVE  IInv' /\ [Plain!Next]_(Plain!vars)
<1>1. ASSUME NEW v \in PublicValues, Promote(v)
      PROVE  IInv' /\ Plain!Next
  BY <1>1, PromoteStep DEF Plain!Next
<1>2. ASSUME NEW i \in Operands, NEW j \in Operands, AddSS(i, j) \/ SubSS(i, j)
      PROVE  IInv' /\ Plain!Next
  <2>1. IInv' /\ (Plain!AddSS(i, j) \/ Plain!SubSS(i, j))
    BY <1>2, AddSSStep, SubSSStep
  <2> QED
    BY <2>1, OperandsExist, Zenon DEF Plain!Next
<1>3. ASSUME NEW i \in Operands, NEW v \in PublicValues,
             AddSP(i, v) \/ SubSP(i, v) \/ SubPS(v, i) \/ MulSP(i, v)
      PROVE  IInv' /\ Plain!Next
  <2>1. IInv' /\ (Plain!AddSP(i, v) \/ Plain!SubSP(i, v) \/ Plain!SubPS(v, i) \/ Plain!MulSP(i, v))
    BY <1>3, PublicStep
  <2> QED
    BY <2>1, OperandsExist, Zenon DEF Plain!Next
<1>4. ASSUME NEW xs \in Vectors, NEW ys \in Vectors, NEW zero \in ZeroShares,
             Len(xs) = Len(ys), MulVec(xs, ys, zero)
      PROVE  IInv' /\ Plain!Next
  <2>1. IInv' /\ Plain!MulVec(xs, ys)
    BY <1>4, MulVecStep
  <2> QED
    BY <1>4, <2>1, OperandsExist, Zenon DEF Plain!Next
<1>5. ASSUME NEW xs \in Vectors, NEW r \in Randomness, Open(xs) \/ IsZeroTraces(xs, r)
      PROVE  IInv' /\ Plain!Next
  <2>1. IInv' /\ (Plain!Open(xs) \/ Plain!IsZeroTraces(xs))
    BY <1>5, OpenStep, IsZeroTracesStep
  <2> QED
    BY <2>1, OperandsExist, Zenon DEF Plain!Next
<1>6. ASSUME NEW xs \in Vectors, NEW mask \in Masks, NEW r \in Randomness,
             NEW zero \in ZeroShares,
             SboxLayer(xs, mask, r, zero) \/ IsZeroRevealTraces(xs, mask, r, zero)
      PROVE  IInv' /\ Plain!Next
  <2>1. IInv' /\ (Plain!SboxLayer(xs) \/ Plain!IsZeroRevealTraces(xs))
    BY <1>6, SboxLayerStep, IsZeroRevealTracesStep
  <2> QED
    BY <2>1, OperandsExist, Zenon DEF Plain!Next
<1>7. ASSUME NEW xs \in Vectors, NEW count \in BitCounts, NEW r \in Randomness,
             Num2BitsTraces(count, xs, r)
      PROVE  IInv' /\ Plain!Next
  <2>1. IInv' /\ Plain!Num2BitsTraces(count, xs)
    BY <1>7, Num2BitsTracesStep
  <2> QED
    BY <2>1, OperandsExist, Zenon DEF Plain!Next
<1>8. ASSUME NEW xs \in AliasVectors, NEW r \in Randomness, NEW zero \in ZeroShares,
             AliasCheckTraces(xs, r, zero)
      PROVE  IInv' /\ Plain!Next
  <2>1. IInv' /\ Plain!AliasCheckTraces(xs)
    BY <1>8, AliasCheckTracesStep
  <2> QED
    BY <2>1, AliasVectorOf, Zenon DEF Plain!Next
<1>9. ASSUME UNCHANGED vars
      PROVE  IInv' /\ UNCHANGED Plain!vars
  <2>1. shares' = shares /\ opened' = opened
    BY <1>9 DEF vars
  <2> QED
    BY <2>1 DEF IInv, Revealed, Plain!vars
<1>10. CASE Next
  BY <1>1, <1>2, <1>3, <1>4, <1>5, <1>6, <1>7, <1>8, <1>9, <1>10, Zenon DEF Next, Finished
<1>11. CASE UNCHANGED vars
  BY <1>9, <1>11
<1> QED
  BY <1>10, <1>11

(* In every reachable state the registers are sharings, and the parties    *)
(* agree on what was revealed.                                             *)
THEOREM Invariance ==
  Spec => []IInv
<1>1. Init => IInv
  BY InitHolds
<1>2. IInv /\ [Next]_vars => IInv'
  BY NextStep
<1> QED
  BY <1>1, <1>2, PTL DEF Spec

(* Whatever the prime, the randomness and the calls, every register is a   *)
(* replicated sharing: each party's copy is its predecessor's summand.     *)
THEOREM StaysReplicated ==
  Spec => []Replicated
<1>1. IInv => Replicated
  <2> SUFFICES ASSUME IInv, NEW n \in DOMAIN shares, NEW p \in Parties
               PROVE  shares[n][p].b = shares[n][Prev(p)].a
    BY DEF Replicated
  <2>1. shares[n] \in Sharings
    BY DEF IInv
  <2>2. PICK x \in Int, y \in Int, z \in Int : shares[n] = Sharing(x, y, z)
    BY <2>1 DEF Sharings
  <2>3. p \in {1, 2, 3}
    BY DEF Parties
  <2> QED
    BY <2>2, <2>3 DEF Sharing, Prev
<1> QED
  BY <1>1, Invariance, PTL

(* The rep3 driver implements the plain one: what the shares add up to is  *)
(* what the plain driver computes, call by call, and what the parties open *)
(* is what it opens.                                                       *)
THEOREM Refinement ==
  Spec => ImplementsPlain
<1>1. Init => Plain!Init
  BY InitHolds
<1>2. IInv /\ [Next]_vars => [Plain!Next]_(Plain!vars)
  BY NextStep
<1> QED
  BY <1>1, <1>2, Invariance, PTL DEF Spec, ImplementsPlain, Plain!Spec
=============================================================================
