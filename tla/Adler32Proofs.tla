---------------------------- MODULE Adler32Proofs ----------------------------
(***************************************************************************)
(* The checksum does not tell all specs apart.                             *)
(***************************************************************************)
EXTENDS Adler32, NaturalsInduction, WellFoundedInduction, TLAPS

\* It does not matter whether a summand was reduced before.
LEMMA Reduced ==
  ASSUME NEW u \in Int, NEW v \in Int
  PROVE  /\ (u % Modulus) \in Int
         /\ ((u % Modulus) + v) % Modulus = (u + v) % Modulus
  BY DEF Modulus

\* Nor does it matter which of the two numbers is reduced, or both.
LEMMA BothReduced ==
  ASSUME NEW u \in Int, NEW v \in Int
  PROVE  ((u % Modulus) + (v % Modulus)) % Modulus = (u + v) % Modulus
  <1> DEFINE r == v % Modulus
  <1>1. r \in Int
    BY Reduced
  <1>2. (r + u) % Modulus = (v + u) % Modulus
    BY Reduced
  <1> HIDE DEF r
  <1>3. ((u % Modulus) + r) % Modulus = (u + r) % Modulus
    BY <1>1, Reduced
  <1>4. u + r = r + u /\ u + v = v + u
    BY <1>1
  <1>5. ((u % Modulus) + r) % Modulus = (u + v) % Modulus
    BY <1>2, <1>3, <1>4
  <1> QED  BY <1>5 DEF r

\* Three bytes can be changed without a trace.
LEMMA ThreeBytes ==
  ASSUME NEW sums \in Sums, NEW x \in Byte, NEW y \in Byte, NEW z \in Byte
  PROVE  Next(Next(Next(sums, x), y), z)
           = Next(Next(Next(sums, x + 1), y - 2), z + 1)
  <1> DEFINE a == sums.a
             b == sums.b
             a1 == (a + x) % Modulus
             a2 == (a1 + y) % Modulus
             a3 == (a2 + z) % Modulus
             c1 == (a + (x + 1)) % Modulus
             c2 == (c1 + (y - 2)) % Modulus
             c3 == (c2 + (z + 1)) % Modulus
             b1 == (b + a1) % Modulus
             b2 == (b1 + a2) % Modulus
             b3 == (b2 + a3) % Modulus
             d1 == (b + c1) % Modulus
             d2 == (d1 + c2) % Modulus
             d3 == (d2 + c3) % Modulus
  <1>0. a \in Int /\ b \in Int /\ x \in Int /\ y \in Int /\ z \in Int
    <2> HIDE DEF a1, a2, a3, c1, c2, c3, b1, b2, b3, d1, d2, d3
    <2>1. a \in 0 .. Modulus - 1 /\ b \in 0 .. Modulus - 1
      BY DEF Sums
    <2> HIDE DEF a, b
    <2>2. Modulus \in Nat
      BY DEF Modulus
    <2>3. a \in Int /\ b \in Int
      BY <2>1, <2>2
    <2> QED  BY <2>3 DEF Byte
  <1>1. /\ Next(Next(Next(sums, x), y), z) = [a |-> a3, b |-> b3]
        /\ Next(Next(Next(sums, x + 1), y - 2), z + 1) = [a |-> c3, b |-> d3]
    BY DEF Next
  <1> HIDE DEF a, b
  <1>2. /\ a2 = (a + x + y) % Modulus /\ c2 = (a + x + y - 1) % Modulus
        /\ a3 = (a + x + y + z) % Modulus /\ c3 = a3
    <2>1. a2 = ((a + x) + y) % Modulus
      BY <1>0, Reduced
    <2>2. c2 = ((a + (x + 1)) + (y - 2)) % Modulus
      BY <1>0, Reduced
    <2>3. a3 = ((a + x + y) + z) % Modulus
      BY <1>0, <2>1, Reduced
    <2>4. c3 = (((a + (x + 1)) + (y - 2)) + (z + 1)) % Modulus
      <3>1. ((a + (x + 1)) + (y - 2)) \in Int /\ z + 1 \in Int
        BY <1>0
      <3> HIDE DEF c2
      <3> QED  BY <2>2, <3>1, Reduced
    <2>5. /\ (a + (x + 1)) + (y - 2) = a + x + y - 1
          /\ ((a + (x + 1)) + (y - 2)) + (z + 1) = (a + x + y) + z
          /\ (a + x) + y = a + x + y
      BY <1>0
    <2> HIDE DEF a2, a3, c2, c3
    <2> QED  BY <2>1, <2>2, <2>3, <2>4, <2>5
  <1>3. d2 = b2
    <2>1. b2 = (b + (a + x) + (a + x + y)) % Modulus
      <3>1. b1 = (b + (a + x)) % Modulus
        <4>1. b1 = (a1 + b) % Modulus /\ (a + x) + b = b + (a + x)
          BY <1>0, Reduced
        <4> QED  BY <1>0, <4>1, Reduced
      <3> HIDE DEF b1, a2
      <3> DEFINE u == b + (a + x)
                 v == a + x + y
      <3>2. u \in Int /\ v \in Int
        BY <1>0
      <3>3. b2 = ((u % Modulus) + (v % Modulus)) % Modulus
        BY <1>2, <3>1
      <3> HIDE DEF u, v
      <3>4. b2 = (u + v) % Modulus
        BY <3>2, <3>3, BothReduced
      <3> QED  BY <3>4 DEF u, v
    <2>2. d2 = (b + (a + (x + 1)) + (a + x + y - 1)) % Modulus
      <3>1. d1 = (b + (a + (x + 1))) % Modulus
        <4>1. d1 = (c1 + b) % Modulus /\ (a + (x + 1)) + b = b + (a + (x + 1))
          BY <1>0, Reduced
        <4> QED  BY <1>0, <4>1, Reduced
      <3> HIDE DEF d1, c2
      <3> DEFINE u == b + (a + (x + 1))
                 v == a + x + y - 1
      <3>2. u \in Int /\ v \in Int
        BY <1>0
      <3>3. d2 = ((u % Modulus) + (v % Modulus)) % Modulus
        BY <1>2, <3>1
      <3> HIDE DEF u, v
      <3>4. d2 = (u + v) % Modulus
        BY <3>2, <3>3, BothReduced
      <3> QED  BY <3>4 DEF u, v
    <2>3. b + (a + x) + (a + x + y) = b + (a + (x + 1)) + (a + x + y - 1)
      BY <1>0
    <2> HIDE DEF b2, d2
    <2> QED  BY <2>1, <2>2, <2>3
  <1> QED  BY <1>1, <1>2, <1>3

Before == {p \in Nat \X Nat : p[1] < p[2]}

\* A set of numbers has a least one.
LEMMA Least ==
  ASSUME NEW T, T \subseteq Nat, T # {}
  PROVE  \E x \in T : \A y \in T : x <= y
  <1>1. IsWellFoundedOn(Before, Nat)
    BY NatLessThanWellFounded DEF OpToRel, Before
  <1>2. PICK x \in T : \A y \in T : ~(<<y, x>> \in Before)
    BY <1>1, WFMin
  <1>3. \A y \in T : x <= y
    <2> SUFFICES ASSUME NEW y \in T, ~(x <= y) PROVE FALSE
      OBVIOUS
    <2>1. y \in Nat /\ x \in Nat
      OBVIOUS
    <2>2. y < x
      BY <2>1
    <2>3. <<y, x>> \in Before
      BY <2>1, <2>2 DEF Before
    <2> QED  BY <1>2, <2>3
  <1> QED  BY <1>3

\* The sums f of s and g of t are made in the same way after "from" bytes.
SameSteps(from, l, f, g, s, t) ==
  \A n \in from + 1 .. l : /\ f[n] = Next(f[n - 1], s[n])
                          /\ g[n] = Next(g[n - 1], t[n])
                          /\ s[n] = t[n]

\* Sums that agree somewhere agree as long as the bytes do.
LEMMA AgreeFromThereOn ==
  ASSUME NEW l \in Nat, NEW from \in 0 .. l, NEW f, NEW g, NEW s, NEW t,
         f[from] = g[from], SameSteps(from, l, f, g, s, t)
  PROVE  f[l] = g[l]
  <1> DEFINE Differ == {n \in from .. l : f[n] # g[n]}
  <1> SUFFICES ASSUME Differ # {} PROVE FALSE
    OBVIOUS
  <1>1. Differ \subseteq Nat
    OBVIOUS
  <1>2. PICK n \in Differ : \A m \in Differ : n <= m
    BY <1>1, Least
  <1>3. n \in from + 1 .. l /\ n - 1 \in from .. l
    OBVIOUS
  <1>4. n - 1 \notin Differ
    <2>1. ~(n <= n - 1)
      BY <1>3
    <2> QED  BY <1>2, <2>1
  <1>5. f[n - 1] = g[n - 1] /\ s[n] = t[n]
    BY <1>3, <1>4 DEF SameSteps
  <1>6. f[n] = g[n]
    BY <1>3, <1>5 DEF SameSteps
  <1> QED  BY <1>6

\* CalculateChecksum misses edits: wherever three bytes go up by one, down by two
\* and up by one again, as the digits 121 that become 202 in the value of a
\* parameter, the spec keeps its checksum, and ValidateORUpdateCheckSum takes the
\* edit for none.
THEOREM ShortEditsCollide ==
  ASSUME NEW s \in Seq(Byte), NEW i \in Nat, i + 3 <= Len(s),
         NEW t, t = [s EXCEPT ![i + 1] = s[i + 1] + 1, ![i + 2] = s[i + 2] - 2,
                              ![i + 3] = s[i + 3] + 1],
         t \in Seq(Byte),
         NEW f, AreSums(f, s), NEW g, AreSums(g, t)
  PROVE  CalculateChecksum(f, s) = CalculateChecksum(g, t)
  <1> DEFINE l == Len(s)
  <1>1. l \in Nat /\ Len(t) = l /\ DOMAIN s = 1 .. l
    OBVIOUS
  <1>2. /\ \A n \in 1 .. l : n \notin {i + 1, i + 2, i + 3} => s[n] = t[n]
        /\ t[i + 1] = s[i + 1] + 1 /\ t[i + 2] = s[i + 2] - 2
        /\ t[i + 3] = s[i + 3] + 1
    BY <1>1
  <1>3. \A n \in 1 .. l : s[n] \in Byte
    BY <1>1
  <1> HIDE DEF l
  <1>4. \A n \in 1 .. l : f[n] = Next(f[n - 1], s[n]) /\ g[n] = Next(g[n - 1], t[n])
    BY <1>1 DEF AreSums, l
  <1>5. i \in 0 .. l /\ i + 1 \in 1 .. l /\ i + 2 \in 1 .. l /\ i + 3 \in 1 .. l
    BY <1>1 DEF l
  <1>6. f[i] = g[i]
    <2>1. \A n \in 0 + 1 .. i : n \in 1 .. l /\ n \notin {i + 1, i + 2, i + 3}
      BY <1>1, <1>5
    <2>2. SameSteps(0, i, f, g, s, t)
      BY <1>2, <1>4, <2>1 DEF SameSteps
    <2>3. f[0] = g[0] /\ 0 \in 0 .. i
      BY DEF AreSums
    <2> QED  BY <2>2, <2>3, AgreeFromThereOn
  <1>7. f[i + 3] = g[i + 3]
    <2>1. f[i] \in Sums
      BY <1>5 DEF AreSums, l
    <2>2. /\ f[i + 1] = Next(f[i], s[i + 1]) /\ g[i + 1] = Next(g[i], s[i + 1] + 1)
          /\ f[i + 2] = Next(f[i + 1], s[i + 2])
          /\ g[i + 2] = Next(g[i + 1], s[i + 2] - 2)
          /\ f[i + 3] = Next(f[i + 2], s[i + 3])
          /\ g[i + 3] = Next(g[i + 2], s[i + 3] + 1)
      <3>1. (i + 1) - 1 = i /\ (i + 2) - 1 = i + 1 /\ (i + 3) - 1 = i + 2
        OBVIOUS
      <3> QED  BY <1>2, <1>4, <1>5, <3>1
    <2> QED  BY <1>3, <1>5, <1>6, <2>1, <2>2, ThreeBytes
  <1>8. f[l] = g[l]
    <2>1. i + 3 \in 0 .. l
      BY <1>1, <1>5
    <2>2. \A n \in (i + 3) + 1 .. l : n \in 1 .. l /\ n \notin {i + 1, i + 2, i + 3}
      BY <1>1
    <2>3. SameSteps(i + 3, l, f, g, s, t)
      BY <1>2, <1>4, <2>2 DEF SameSteps
    <2> QED  BY <1>1, <1>7, <2>1, <2>3, AgreeFromThereOn
  <1> QED  BY <1>1, <1>8 DEF CalculateChecksum, l
=============================================================================
