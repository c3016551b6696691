---------------------------- MODULE FramingProofs ----------------------------
(***************************************************************************)
(* What the encoding and the framing of the protocol promise, for every    *)
(* size of a byte, every width of the integer types and every set of       *)
(* messages that can be encoded: a message comes back from its bytes, a    *)
(* message cut short does not, and a reader that takes bytes in pieces of  *)
(* any size is handed the messages that were written.                      *)
(***************************************************************************)
EXTENDS Framing, FiniteSetTheorems, SequenceTheorems, WellFoundedInduction, TLAPS

-----------------------------------------------------------------------------
(* Recursive functions of numbers.                                         *)

\* Induction over the naturals, stated with a set so that it can be cited.
LEMMA ByNaturals ==
  ASSUME NEW N \in SUBSET Nat, 0 \in N, \A n \in N : n + 1 \in N
  PROVE  N = Nat
<1> DEFINE less == {ss \in Nat \X Nat : ss[1] < ss[2]}
           rest == Nat \ N
<1>1. IsWellFoundedOn(less, Nat)
  BY NatLessThanWellFounded DEF OpToRel
<1>2. SUFFICES ASSUME rest # {} PROVE FALSE
  OBVIOUS
<1>3. PICK x \in rest : \A y \in rest : ~ (<<y, x>> \in less)
  <2> HIDE DEF less
  <2> QED BY <1>1, <1>2, WFMin
<1>4. x - 1 \in Nat /\ <<x - 1, x>> \in less
  OBVIOUS
<1>5. x - 1 \in N
  BY <1>3, <1>4
<1> QED BY <1>3, <1>5

\* g holds the first n steps of the recursion that starts at base.
Runs(V, base, step, n, g) ==
  /\ g \in [0..n -> V] /\ g[0] = base
  /\ \A i \in 1..n : g[i] = step[i][g[i - 1]]

\* Any number of steps can be made.
LEMMA RunsExist ==
  ASSUME NEW V, NEW base \in V, NEW step \in [Nat -> [V -> V]], NEW n \in Nat
  PROVE  \E g : Runs(V, base, step, n, g)
<1> DEFINE N == {k \in Nat : \E g : Runs(V, base, step, k, g)}
<1>1. 0 \in N
  <2> DEFINE g == [i \in 0..0 |-> base]
  <2>1. Runs(V, base, step, 0, g)
    BY DEF Runs
  <2> QED BY <2>1
<1>2. ASSUME NEW k \in N PROVE k + 1 \in N
  <2>1. PICK g : Runs(V, base, step, k, g)
    OBVIOUS
  <2> DEFINE h == [i \in 0..(k + 1) |-> IF i <= k THEN g[i] ELSE step[i][g[i - 1]]]
  <2>2. \A i \in 0..k : h[i] = g[i]
    OBVIOUS
  <2>3. h[k + 1] = step[k + 1][h[k]] /\ h[k + 1] \in V
    BY <2>1 DEF Runs
  <2>4. h \in [0..(k + 1) -> V]
    BY <2>1, <2>3 DEF Runs
  <2>5. \A i \in 1..(k + 1) : h[i] = step[i][h[i - 1]]
    <3>1. ASSUME NEW i \in 1..(k + 1) PROVE h[i] = step[i][h[i - 1]]
      <4>1. CASE i = k + 1
        BY <2>3, <4>1
      <4>2. CASE i # k + 1
        <5>1. i \in 1..k /\ i - 1 \in 0..k
          BY <4>2
        <5>2. g[i] = step[i][g[i - 1]]
          BY <2>1, <5>1 DEF Runs
        <5> HIDE DEF h
        <5> QED BY <2>2, <5>1, <5>2
      <4> QED BY <4>1, <4>2
    <3> QED BY <3>1
  <2>6. h[0] = base
    BY <2>1, <2>2 DEF Runs
  <2> HIDE DEF h
  <2>7. Runs(V, base, step, k + 1, h)
    BY <2>4, <2>5, <2>6 DEF Runs
  <2> QED BY <2>7
<1> HIDE DEF N
<1>3. N = Nat
  <2>1. N \in SUBSET Nat
    BY DEF N
  <2> QED BY <1>1, <1>2, <2>1, ByNaturals
<1> QED BY <1>3 DEF N

\* And they can be made in one way only.
LEMMA RunsAgree ==
  ASSUME NEW V, NEW base \in V, NEW step \in [Nat -> [V -> V]], NEW n \in Nat, NEW k \in Nat,
         NEW g, Runs(V, base, step, n, g), NEW h, Runs(V, base, step, k, h)
  PROVE  \A i \in Nat : i <= n /\ i <= k => g[i] = h[i]
<1> DEFINE N == {i \in Nat : i <= n /\ i <= k => g[i] = h[i]}
<1>1. 0 \in N
  BY DEF Runs
<1>2. ASSUME NEW i \in N PROVE i + 1 \in N
  <2>1. SUFFICES ASSUME i + 1 <= n, i + 1 <= k PROVE g[i + 1] = h[i + 1]
    OBVIOUS
  <2>2. g[i] = h[i] /\ i + 1 \in 1..n /\ i + 1 \in 1..k /\ (i + 1) - 1 = i
    BY <2>1
  <2>3. g[i + 1] = step[i + 1][g[i]] /\ h[i + 1] = step[i + 1][h[i]]
    BY <2>2 DEF Runs
  <2> QED BY <2>2, <2>3
<1> HIDE DEF N
<1>3. N = Nat
  <2>1. N \in SUBSET Nat
    BY DEF N
  <2> QED BY <1>1, <1>2, <2>1, ByNaturals
<1> QED BY <1>3 DEF N

\* f holds all of the steps.
Forever(V, base, step, f) ==
  f \in [Nat -> V] /\ f[0] = base /\ \A n \in Nat : f[n + 1] = step[n + 1][f[n]]

\* All of the steps together.
LEMMA RunForever ==
  ASSUME NEW V, NEW base \in V, NEW step \in [Nat -> [V -> V]]
  PROVE  \E f : Forever(V, base, step, f)
<1> DEFINE run(n) == CHOOSE g : Runs(V, base, step, n, g)
           f == [n \in Nat |-> run(n)[n]]
<1>1. \A n \in Nat : Runs(V, base, step, n, run(n))
  BY RunsExist
<1> HIDE DEF run
<1>2. f \in [Nat -> V] /\ f[0] = base
  BY <1>1 DEF Runs
<1>3. ASSUME NEW n \in Nat PROVE f[n + 1] = step[n + 1][f[n]]
  <2>1. run(n + 1)[n + 1] = step[n + 1][run(n + 1)[n]]
    <3>1. n + 1 \in 1..(n + 1) /\ (n + 1) - 1 = n
      OBVIOUS
    <3> QED BY <1>1, <3>1 DEF Runs
  <2>2. run(n + 1)[n] = run(n)[n]
    BY <1>1, RunsAgree
  <2> QED BY <2>1, <2>2
<1> HIDE DEF f
<1>4. Forever(V, base, step, f)
  BY <1>2, <1>3 DEF Forever
<1> QED BY <1>4

-----------------------------------------------------------------------------
(* Numbers and their bytes.                                                *)

Places(f) == f = [n \in Nat |-> IF n = 0 THEN 1 ELSE Radix * f[n - 1]]

\* The powers of the radix.
LEMMA PlaceIs ==
  /\ Place \in [Nat -> Nat \ {0}] /\ Place[0] = 1
  /\ \A n \in Nat : Place[n + 1] = Radix * Place[n]
<1> DEFINE V == Nat \ {0}
           step == [n \in Nat |-> [x \in V |-> Radix * x]]
<1>1. step \in [Nat -> [V -> V]] /\ 1 \in V
  BY WireAssumption
<1>2. \A n \in Nat, x \in V : step[n][x] = Radix * x
  OBVIOUS
<1> HIDE DEF step
<1>3. PICK f \in [Nat -> V] : f[0] = 1 /\ \A n \in Nat : f[n + 1] = step[n + 1][f[n]]
  <2> HIDE DEF V
  <2>1. step \in [Nat -> [V -> V]] /\ 1 \in V
    BY <1>1
  <2>2. PICK f : Forever(V, 1, step, f)
    BY ONLY <2>1, RunForever, Zenon
  <2> QED BY ONLY <2>2 DEF Forever
<1>4. \A n \in Nat : f[n] = IF n = 0 THEN 1 ELSE Radix * f[n - 1]
  <2>1. ASSUME NEW n \in Nat, n # 0 PROVE f[n] = Radix * f[n - 1]
    <3>1. n - 1 \in Nat /\ (n - 1) + 1 = n
      BY <2>1
    <3>2. PICK j : j \in Nat /\ j = n - 1 /\ j + 1 = n
      BY <3>1
    <3>3. f[n] = step[n][f[j]] /\ f[j] \in V
      BY <1>3, <3>2
    <3> QED BY ONLY <1>2, <3>2, <3>3
  <2> QED BY <1>3, <2>1
<1>5. Places(f)
  BY <1>4 DEF Places
<1>6. Place = CHOOSE g : Places(g)
  BY DEF Place, Places
<1>7. Places(Place)
  BY <1>5, <1>6
<1>8. PICK p : p = Place
  OBVIOUS
<1>9. p = [n \in Nat |-> IF n = 0 THEN 1 ELSE Radix * p[n - 1]]
  BY <1>7, <1>8 DEF Places
<1>10. p[0] = 1 /\ \A n \in Nat : p[n + 1] = Radix * p[n]
  BY <1>9
<1>11. DOMAIN p = Nat /\ p = [n \in Nat |-> p[n]]
  BY <1>9
<1>12. \A n \in Nat : p[n] = f[n]
  <2> DEFINE N == {n \in Nat : p[n] = f[n]}
  <2>1. 0 \in N
    BY <1>3, <1>10
  <2>2. ASSUME NEW n \in N PROVE n + 1 \in N
    <3>1. n \in Nat /\ n + 1 \in Nat /\ p[n] = f[n] /\ f[n] \in V
      OBVIOUS
    <3>2. f[n + 1] = Radix * f[n]
      BY <1>2, <1>3, <3>1
    <3> QED BY <1>10, <3>1, <3>2
  <2> HIDE DEF N
  <2>3. N = Nat
    <3>1. N \in SUBSET Nat
      BY DEF N
    <3> QED BY <2>1, <2>2, <3>1, ByNaturals
  <2> QED BY <2>3 DEF N
<1>13. p \in [Nat -> V]
  BY <1>3, <1>11, <1>12
<1> QED BY <1>8, <1>10, <1>13

\* A number is written in as many bytes as its type has.
LEMMA DigitsAreBytes ==
  ASSUME NEW v \in Nat, NEW w \in Nat
  PROVE  /\ Digits(v, w) \in Seq(Byte) /\ Len(Digits(v, w)) = w
         /\ \A i \in 1..w : Digits(v, w)[i] = (v \div Place[i - 1]) % Radix
<1>1. ASSUME NEW i \in 1..w PROVE (v \div Place[i - 1]) % Radix \in Byte
  <2>1. PICK p \in Nat \ {0} : p = Place[i - 1]
    BY PlaceIs
  <2>2. v \div p \in Nat
    BY <2>1
  <2>3. PICK q \in Nat : q = v \div p
    BY <2>2
  <2>4. q % Radix \in Byte
    BY WireAssumption DEF Byte
  <2> QED BY <2>1, <2>3, <2>4
<1> DEFINE e(i) == (v \div Place[i - 1]) % Radix
<1>2. \A i \in 1..w : e(i) \in Byte
  BY <1>1
<1>3. Digits(v, w) = [i \in 1..w |-> e(i)]
  BY DEF Digits
<1> HIDE DEF e
<1>4. [i \in 1..w |-> e(i)] \in Seq(Byte) /\ Len([i \in 1..w |-> e(i)]) = w
  BY <1>2
<1>5. \A i \in 1..w : [j \in 1..w |-> e(j)][i] = e(i)
  OBVIOUS
<1> QED BY <1>3, <1>4, <1>5 DEF e

Values(bytes, f) ==
  f = [n \in 0..Len(bytes) |-> IF n = 0 THEN 0 ELSE f[n - 1] + bytes[n] * Place[n - 1]]

\* Number adds up byte after byte.
LEMMA NumberBySteps ==
  ASSUME NEW bytes \in Seq(Nat)
  PROVE  \E value \in [0..Len(bytes) -> Nat] :
           /\ value[0] = 0
           /\ \A n \in 1..Len(bytes) : value[n] = value[n - 1] + bytes[n] * Place[n - 1]
           /\ Number(bytes) = value[Len(bytes)]
<1> DEFINE len == Len(bytes)
           step == [i \in Nat |-> [x \in Nat |->
                      IF i \in 1..len THEN x + bytes[i] * Place[i - 1] ELSE x]]
<1>1. len \in Nat
  OBVIOUS
<1>2. ASSUME NEW i \in 1..len, NEW x \in Nat PROVE x + bytes[i] * Place[i - 1] \in Nat
  <2>1. PICK b \in Nat : b = bytes[i]
    BY ElementOfSeq
  <2>2. PICK p \in Nat : p = Place[i - 1]
    <3>1. i - 1 \in Nat
      BY <1>1
    <3>2. Place[i - 1] \in Nat
      BY <3>1, PlaceIs
    <3> QED BY <3>2
  <2>3. x + b * p \in Nat
    OBVIOUS
  <2> QED BY <2>1, <2>2, <2>3
<1> HIDE DEF len
<1>3. step \in [Nat -> [Nat -> Nat]]
  BY <1>2
<1>4. \A i \in 1..len, x \in Nat : step[i][x] = x + bytes[i] * Place[i - 1]
  BY <1>1
<1> HIDE DEF step
<1>5. PICK g : Runs(Nat, 0, step, len, g)
  <2>1. 0 \in Nat
    OBVIOUS
  <2> QED BY <1>1, <1>3, <2>1, RunsExist, Zenon
<1>6. g \in [0..len -> Nat] /\ g[0] = 0
  BY <1>5 DEF Runs
<1>7. \A n \in 1..len : g[n] = g[n - 1] + bytes[n] * Place[n - 1]
  <2>1. ASSUME NEW n \in 1..len PROVE g[n] = g[n - 1] + bytes[n] * Place[n - 1]
    <3>1. n - 1 \in 0..len
      BY <1>1
    <3>2. g[n - 1] \in Nat
      BY <1>6, <3>1
    <3> QED BY <1>4, <1>5, <3>2 DEF Runs
  <2> QED BY <2>1
<1>8. Values(bytes, g)
  BY <1>1, <1>6, <1>7 DEF Values, len
<1>9. PICK f : f = CHOOSE h : Values(bytes, h)
  OBVIOUS
<1>10. Values(bytes, f)
  BY <1>8, <1>9
<1>11. Number(bytes) = f[len]
  BY <1>9 DEF Number, Values, len
<1>12. /\ f = [n \in 0..len |-> IF n = 0 THEN 0 ELSE f[n - 1] + bytes[n] * Place[n - 1]]
  BY <1>10 DEF Values, len
<1>13. f[0] = 0 /\ \A n \in 1..len : f[n] = f[n - 1] + bytes[n] * Place[n - 1]
  BY <1>1, <1>12
<1>14. \A n \in 0..len : f[n] = g[n]
  <2> DEFINE N == {n \in Nat : n <= len => f[n] = g[n]}
  <2>1. 0 \in N
    BY <1>6, <1>13
  <2>2. ASSUME NEW n \in N PROVE n + 1 \in N
    <3>1. SUFFICES ASSUME n + 1 <= len PROVE f[n + 1] = g[n + 1]
      OBVIOUS
    <3>2. n + 1 \in 1..len /\ (n + 1) - 1 = n /\ f[n] = g[n]
      BY <1>1, <3>1
    <3> QED BY <1>7, <1>13, <3>2
  <2> HIDE DEF N
  <2>3. N = Nat
    <3>1. N \in SUBSET Nat
      BY DEF N
    <3> QED BY <2>1, <2>2, <3>1, ByNaturals
  <2> QED BY <1>1, <2>3 DEF N
<1>15. f \in [0..len -> Nat]
  BY <1>6, <1>12, <1>14
<1>16. Number(bytes) = f[len]
  BY <1>11
<1> QED BY <1>13, <1>15, <1>16 DEF len

\* Dividing by a power of the radix, one byte at a time.
LEMMA QuotientSteps ==
  ASSUME NEW v \in Nat, NEW p \in Nat \ {0}
  PROVE  /\ v \div p \in Nat /\ v \div (Radix * p) \in Nat /\ (v \div p) % Radix \in Nat
         /\ v \div p = Radix * (v \div (Radix * p)) + ((v \div p) % Radix)
<1>1. v \div (p * Radix) = (v \div p) \div Radix /\ p * Radix = Radix * p
  BY WireAssumption
<1>2. PICK q \in Nat : q = v \div p
  OBVIOUS
<1>3. q \div Radix \in Nat /\ q % Radix \in Nat /\ q = Radix * (q \div Radix) + (q % Radix)
  BY WireAssumption
<1> QED BY <1>1, <1>2, <1>3

\* A number comes back from its bytes, if they are enough to hold it.
LEMMA NumberOfDigits ==
  ASSUME NEW v \in Nat, NEW w \in Nat, v < Place[w]
  PROVE  Number(Digits(v, w)) = v
<1> DEFINE d == Digits(v, w)
<1>1. /\ d \in Seq(Byte) /\ Len(d) = w
      /\ \A i \in 1..w : d[i] = (v \div Place[i - 1]) % Radix
  BY DigitsAreBytes
<1> HIDE DEF d
<1>2. d \in Seq(Nat)
  <2>1. Byte \subseteq Nat
    BY WireAssumption DEF Byte
  <2> QED BY <1>1, <2>1, SeqMonotonic
<1>3. PICK value \in [0..w -> Nat] :
        /\ value[0] = 0
        /\ \A n \in 1..w : value[n] = value[n - 1] + d[n] * Place[n - 1]
        /\ Number(d) = value[w]
  BY <1>1, <1>2, NumberBySteps
<1> DEFINE N == {n \in Nat : n <= w => value[n] + Place[n] * (v \div Place[n]) = v}
<1>4. 0 \in N
  BY <1>3, PlaceIs
<1>5. ASSUME NEW n \in N PROVE n + 1 \in N
  <2>1. SUFFICES ASSUME n + 1 <= w
                 PROVE  value[n + 1] + Place[n + 1] * (v \div Place[n + 1]) = v
    OBVIOUS
  <2>2. n + 1 \in 1..w /\ (n + 1) - 1 = n /\ n \in 0..w /\ n \in Nat
    BY <2>1
  <2>3. PICK p \in Nat \ {0} : p = Place[n] /\ Place[n + 1] = Radix * p
    <3>1. Place[n] \in Nat \ {0} /\ Place[n + 1] = Radix * Place[n]
      BY <2>2, PlaceIs
    <3> QED BY <3>1
  <2>4. PICK q \in Nat, r \in Nat, u \in Nat :
          /\ q = v \div p /\ r = (v \div p) % Radix /\ u = v \div (Radix * p)
          /\ q = Radix * u + r
    <3>1. PICK q \in Nat : q = v \div p
      BY QuotientSteps
    <3>2. PICK r \in Nat : r = (v \div p) % Radix
      BY QuotientSteps
    <3>3. PICK u \in Nat : u = v \div (Radix * p)
      BY QuotientSteps
    <3>4. q = Radix * u + r
      BY <3>1, <3>2, <3>3, QuotientSteps
    <3> QED BY <3>1, <3>2, <3>3, <3>4
  <2>5. PICK x \in Nat : x = value[n]
    BY <2>2
  <2>6. x + p * q = v
    BY <2>2, <2>1, <2>3, <2>4, <2>5
  <2>7. value[n + 1] = x + r * p
    BY <1>1, <1>3, <2>2, <2>3, <2>4, <2>5
  <2>8. Radix \in Nat
    BY WireAssumption
  <2>9. (x + r * p) + (Radix * p) * u = x + p * (Radix * u + r)
    BY <2>8
  <2> QED BY <2>3, <2>4, <2>6, <2>7, <2>9
<1> HIDE DEF N
<1>6. N = Nat
  <2>1. N \in SUBSET Nat
    BY DEF N
  <2> QED BY <1>4, <1>5, <2>1, ByNaturals
<1>7. value[w] + Place[w] * (v \div Place[w]) = v
  BY <1>6 DEF N
<1>8. PICK p \in Nat \ {0} : p = Place[w]
  BY PlaceIs
<1>9. v \div p = 0
  BY <1>8
<1> QED BY <1>3, <1>7, <1>8, <1>9 DEF d

\* One byte is its own number.
LEMMA NumberOfByte ==
  ASSUME NEW b \in Nat
  PROVE  Number(<<b>>) = b
<1>1. <<b>> \in Seq(Nat) /\ Len(<<b>>) = 1 /\ <<b>>[1] = b
  OBVIOUS
<1>2. PICK value \in [0..1 -> Nat] :
        /\ value[0] = 0
        /\ \A n \in 1..1 : value[n] = value[n - 1] + <<b>>[n] * Place[n - 1]
        /\ Number(<<b>>) = value[1]
  BY <1>1, NumberBySteps
<1>3. value[1] = value[0] + <<b>>[1] * Place[0]
  BY <1>2
<1> QED BY <1>1, <1>2, <1>3, PlaceIs

-----------------------------------------------------------------------------
(* Byte strings laid end to end.                                           *)

Text == Seq(Byte)

\* Joining byte strings.
LEMMA JoinIs ==
  ASSUME NEW a \in Text, NEW b \in Text
  PROVE  /\ a \o b \in Text /\ Len(a \o b) = Len(a) + Len(b)
         /\ Len(a) \in Nat /\ Len(b) \in Nat
BY ConcatProperties, LenProperties DEF Text

\* Joining is associative.
LEMMA JoinAgain ==
  ASSUME NEW a \in Text, NEW b \in Text, NEW c \in Text
  PROVE  (a \o b) \o c = a \o (b \o c)
BY ConcatAssociative DEF Text

Again(a, b, c) == (a \o b) \o c = a \o (b \o c)

\* The same of three byte strings that have names.
LEMMA AgainIs ==
  ASSUME NEW a, NEW b, NEW c, a \in Text, b \in Text, c \in Text
  PROVE  Again(a, b, c)
BY JoinAgain DEF Again

\* The empty byte string.
LEMMA JoinNothing ==
  ASSUME NEW a \in Text
  PROVE  << >> \in Text /\ a \o << >> = a /\ << >> \o a = a
BY ConcatEmptySeq, EmptySeq DEF Text

\* run[n] is the first n parts, joined.
Joins(parts, run) ==
  /\ run \in [0..Len(parts) -> Text] /\ run[0] = << >>
  /\ \A n \in 1..Len(parts) : run[n] = run[n - 1] \o parts[n]

Flattens(parts, f) ==
  f = [i \in 1..Len(parts) |-> IF i = 1 THEN parts[i] ELSE f[i - 1] \o parts[i]]

\* Two runs of the same parts are the same as far as both go.
LEMMA JoinsAgree ==
  ASSUME NEW parts \in Seq(Text), NEW run, Joins(parts, run),
         NEW others \in Seq(Text), NEW ran, Joins(others, ran),
         NEW m \in Nat, m <= Len(parts), m <= Len(others),
         \A i \in 1..m : parts[i] = others[i]
  PROVE  run[m] = ran[m]
<1> DEFINE N == {n \in Nat : n <= m => run[n] = ran[n]}
<1>1. 0 \in N
  BY DEF Joins
<1>2. ASSUME NEW n \in N PROVE n + 1 \in N
  <2>1. SUFFICES ASSUME n + 1 <= m PROVE run[n + 1] = ran[n + 1]
    OBVIOUS
  <2>2. /\ n + 1 \in 1..Len(parts) /\ n + 1 \in 1..Len(others) /\ n + 1 \in 1..m
        /\ (n + 1) - 1 = n /\ run[n] = ran[n]
    BY <2>1, LenProperties
  <2>3. run[n + 1] = run[n] \o parts[n + 1] /\ ran[n + 1] = ran[n] \o others[n + 1]
    BY <2>2 DEF Joins
  <2> QED BY <2>2, <2>3
<1> HIDE DEF N
<1>3. N = Nat
  <2>1. N \in SUBSET Nat
    BY DEF N
  <2> QED BY <1>1, <1>2, <2>1, ByNaturals
<1> QED BY <1>3 DEF N

\* FlattenSeq joins part after part.
LEMMA FlattenBySteps ==
  ASSUME NEW parts \in Seq(Text)
  PROVE  \E run : Joins(parts, run) /\ FlattenSeq(parts) = run[Len(parts)]
<1>1. PICK len \in Nat : len = Len(parts)
  BY LenProperties
<1> DEFINE step == [i \in Nat |-> [x \in Text |-> IF i \in 1..len THEN x \o parts[i] ELSE x]]
<1>2. ASSUME NEW i \in 1..len PROVE parts[i] \in Text /\ \A x \in Text : x \o parts[i] \in Text
  <2>1. parts[i] \in Text
    BY <1>1, ElementOfSeq
  <2> QED BY <2>1, ConcatProperties DEF Text
<1>3. step \in [Nat -> [Text -> Text]]
  BY <1>2
<1>4. ASSUME NEW i \in 1..len, NEW x \in Text PROVE step[i][x] = x \o parts[i]
  <2>1. i \in Nat /\ i \in 1..len /\ x \in Text
    OBVIOUS
  <2> QED BY ONLY <2>1
<1> HIDE DEF step
<1>5. PICK run : Runs(Text, << >>, step, len, run)
  <2>1. << >> \in Text
    BY DEF Text
  <2> QED BY <1>3, <2>1, RunsExist, Zenon
<1>6. run \in [0..len -> Text] /\ run[0] = << >>
  BY <1>5 DEF Runs
<1>7. ASSUME NEW n \in 1..len PROVE run[n] = run[n - 1] \o parts[n]
  <2>1. n - 1 \in 0..len
    OBVIOUS
  <2>2. run[n - 1] \in Text
    BY <1>6, <2>1
  <2> QED BY <1>4, <1>5, <2>2 DEF Runs
<1>8. Joins(parts, run)
  BY <1>1, <1>6, <1>7 DEF Joins
<1>9. CASE len = 0
  <2>1. parts = << >>
    BY <1>1, <1>9, EmptySeq
  <2>2. FlattenSeq(parts) = parts
    BY <1>1, <1>9 DEF FlattenSeq
  <2> QED BY <1>1, <1>6, <1>8, <1>9, <2>1, <2>2
<1>10. CASE len # 0
  <2> DEFINE h == [i \in 1..len |-> run[i]]
  <2>1. ASSUME NEW i \in 1..len PROVE h[i] = IF i = 1 THEN parts[i] ELSE h[i - 1] \o parts[i]
    <3>1. CASE i = 1
      <4>1. run[1] = run[0] \o parts[1] /\ parts[1] \in Text
        <5>1. 1 \in 1..len /\ 1 - 1 = 0
          BY <3>1
        <5> QED BY <1>2, <1>7, <5>1
      <4>2. run[1] = parts[1]
        BY <1>6, <4>1, JoinNothing
      <4> QED BY <3>1, <4>2
    <3>2. CASE i # 1
      <4>1. i - 1 \in 1..len
        BY <3>2
      <4> QED BY <1>7, <3>2, <4>1
    <3> QED BY <3>1, <3>2
  <2>2. h = [i \in 1..len |-> IF i = 1 THEN parts[i] ELSE h[i - 1] \o parts[i]]
    <3>1. h = [i \in 1..len |-> h[i]]
      OBVIOUS
    <3> HIDE DEF h
    <3> QED BY <2>1, <3>1
  <2> HIDE DEF h
  <2>3. Flattens(parts, h)
    BY <1>1, <2>2 DEF Flattens
  <2>4. PICK f : f = CHOOSE g : Flattens(parts, g)
    OBVIOUS
  <2>5. Flattens(parts, f)
    BY <2>3, <2>4
  <2>6. FlattenSeq(parts) = f[len]
    BY <1>1, <1>10, <2>4 DEF FlattenSeq, Flattens
  <2>7. \A i \in 1..len : f[i] = IF i = 1 THEN parts[i] ELSE f[i - 1] \o parts[i]
    BY <1>1, <2>5 DEF Flattens
  <2> DEFINE N == {n \in Nat : n + 1 <= len => f[n + 1] = run[n + 1]}
  <2>8. 0 \in N
    <3>1. 1 \in 1..len
      BY <1>10
    <3>2. f[1] = parts[1] /\ h[1] = parts[1] /\ h[1] = run[1]
      BY <2>1, <2>7, <3>1 DEF h
    <3>3. 0 + 1 = 1 /\ 0 \in Nat
      OBVIOUS
    <3> QED BY <3>2, <3>3
  <2>9. ASSUME NEW n \in N PROVE n + 1 \in N
    <3>1. PICK j \in Nat : j = n + 1
      OBVIOUS
    <3>2. ASSUME j + 1 <= len PROVE f[j + 1] = run[j + 1]
      <4>1. PICK i \in 1..len : i = j + 1 /\ i - 1 = j /\ i # 1
        BY <3>1, <3>2
      <4>2. f[j] = run[j]
        BY <3>1, <3>2
      <4>3. f[i] = f[i - 1] \o parts[i] /\ run[i] = run[i - 1] \o parts[i]
        BY <1>7, <2>7, <4>1
      <4> QED BY <4>1, <4>2, <4>3
    <3> QED BY <3>1, <3>2
  <2> HIDE DEF N
  <2>10. N = Nat
    <3>1. N \in SUBSET Nat
      BY DEF N
    <3> QED BY <2>8, <2>9, <3>1, ByNaturals
  <2>11. PICK j \in Nat : j + 1 = len
    <3>1. len - 1 \in Nat /\ (len - 1) + 1 = len
      BY <1>10
    <3> QED BY <3>1
  <2>12. f[len] = run[len]
    <3>1. j + 1 <= len => f[j + 1] = run[j + 1]
      BY <2>10 DEF N
    <3> QED BY <2>11, <3>1
  <2> QED BY <1>1, <1>8, <2>6, <2>12
<1> QED BY <1>9, <1>10

\* A part can be found in the whole: behind the parts before it.
LEMMA JoinsSplit ==
  ASSUME NEW parts \in Seq(Text), NEW run, Joins(parts, run), NEW k \in 0..Len(parts)
  PROVE  \E rest \in Text : run[Len(parts)] = run[k] \o rest
<1>1. PICK len \in Nat : len = Len(parts)
  BY LenProperties
<1> DEFINE Reaches(n) == k + n <= len => \E rest \in Text : run[k + n] = run[k] \o rest
           N == {n \in Nat : Reaches(n)}
<1>2. run[k] \in Text /\ << >> \in Text
  BY DEF Joins, Text
<1>3. 0 \in N
  <2>1. run[k + 0] = run[k] \o << >>
    BY <1>2, JoinNothing
  <2> QED BY <1>2, <2>1
<1>4. ASSUME NEW n \in N PROVE n + 1 \in N
  <2>1. ASSUME k + (n + 1) <= len
        PROVE  \E rest \in Text : run[k + (n + 1)] = run[k] \o rest
    <3>1. PICK rest \in Text : run[k + n] = run[k] \o rest
      BY <1>1, <2>1
    <3>2. PICK i \in 1..len : i = k + (n + 1) /\ i - 1 = k + n
      BY <1>1, <2>1
    <3>3. run[i] = run[i - 1] \o parts[i]
      BY <1>1, <3>2 DEF Joins
    <3>4. PICK p \in Text : p = parts[i]
      BY <1>1, <3>2, ElementOfSeq
    <3>5. PICK a \in Text : a = run[k]
      BY <1>2
    <3>6. (a \o rest) \o p = a \o (rest \o p) /\ rest \o p \in Text
      <4>1. a \in Text /\ rest \in Text /\ p \in Text
        OBVIOUS
      <4>2. Again(a, rest, p)
        BY ONLY <4>1, AgainIs
      <4>3. rest \o p \in Text
        BY ONLY <4>1, JoinIs
      <4> QED BY ONLY <4>2, <4>3 DEF Again
    <3>7. run[i] = a \o (rest \o p)
      BY <3>1, <3>2, <3>3, <3>4, <3>5, <3>6
    <3> QED BY <3>2, <3>5, <3>6, <3>7
  <2>2. Reaches(n + 1)
    BY <2>1, Zenon
  <2>3. n + 1 \in Nat
    OBVIOUS
  <2> HIDE DEF Reaches
  <2> QED BY <2>2, <2>3
<1> HIDE DEF N
<1>5. N = Nat
  <2>1. N \in SUBSET Nat
    BY DEF N
  <2> QED BY <1>3, <1>4, <2>1, ByNaturals
<1>6. len - k \in Nat /\ k + (len - k) = len
  BY <1>1
<1>7. len - k \in N
  BY <1>5, <1>6
<1> QED BY <1>1, <1>6, <1>7 DEF N

\* What is flattened with one more part.
LEMMA FlattenAppend ==
  ASSUME NEW parts \in Seq(Text), NEW part \in Text
  PROVE  FlattenSeq(Append(parts, part)) = FlattenSeq(parts) \o part
<1>1. PICK len \in Nat : len = Len(parts)
  BY LenProperties
<1>2. PICK more \in Seq(Text) : more = Append(parts, part)
  BY AppendProperties
<1>3. /\ Len(more) = len + 1 /\ more[len + 1] = part
      /\ \A i \in 1..len : parts[i] = more[i]
  BY <1>1, <1>2, AppendProperties
<1>4. PICK run : Joins(parts, run) /\ FlattenSeq(parts) = run[len]
  BY <1>1, FlattenBySteps
<1>5. PICK ran : Joins(more, ran) /\ FlattenSeq(more) = ran[len + 1]
  BY <1>3, FlattenBySteps
<1>6. run[len] = ran[len]
  BY <1>1, <1>3, <1>4, <1>5, JoinsAgree
<1>7. ran[len + 1] = ran[len] \o part
  <2>1. len + 1 \in 1..Len(more) /\ (len + 1) - 1 = len
    BY <1>3
  <2> QED BY <1>3, <1>5, <2>1 DEF Joins
<1> QED BY <1>2, <1>4, <1>5, <1>6, <1>7

\* Nothing flattens to nothing.
LEMMA FlattenNothing == FlattenSeq(<< >>) = << >>
BY DEF FlattenSeq

-----------------------------------------------------------------------------
(* Reading a byte string.                                                  *)

\* The piece of a byte string between two others.
LEMMA PieceIs ==
  ASSUME NEW a \in Text, NEW b \in Text, NEW c \in Text
  PROVE  SubSeq(a \o (b \o c), Len(a) + 1, Len(a) + Len(b)) = b
<1>1. PICK bytes \in Text : bytes = a \o (b \o c)
  BY JoinIs
<1>2. PICK m \in Nat, n \in Nat : m = Len(a) /\ n = Len(b)
  BY JoinIs
<1>3. \A i \in 1..n : bytes[m + i] = b[i]
  <2>1. ASSUME NEW i \in 1..n PROVE bytes[m + i] = b[i]
    <3>1. PICK d \in Text : d = b \o c /\ Len(d) = Len(b) + Len(c) /\ Len(c) \in Nat
      BY JoinIs
    <3>2. d[i] = b[i]
      <4>1. i \in 1..(Len(b) + Len(c)) /\ i <= Len(b)
        BY <1>2, <3>1
      <4> QED BY <3>1, <4>1, ConcatProperties DEF Text
    <3>3. bytes[m + i] = d[i]
      <4>1. m + i \in 1..(Len(a) + Len(d)) /\ ~ (m + i <= Len(a)) /\ (m + i) - Len(a) = i
        BY <1>2, <3>1
      <4> QED BY <1>1, <3>1, <4>1, ConcatProperties DEF Text
    <3> QED BY <3>2, <3>3
  <2> QED BY <2>1
<1>4. \A i \in (m + 1)..(m + n) : bytes[i] \in Byte
  <2>1. ASSUME NEW i \in (m + 1)..(m + n) PROVE bytes[i] \in Byte
    <3>1. i - m \in 1..n /\ m + (i - m) = i
      BY <1>2
    <3>2. b[i - m] \in Byte
      BY <1>2, <3>1, ElementOfSeq DEF Text
    <3> QED BY <1>3, <3>1, <3>2
  <2> QED BY <2>1
<1>5. PICK s : s = SubSeq(bytes, m + 1, m + n)
  OBVIOUS
<1>6. /\ s \in Seq(Byte) /\ Len(s) = IF m + 1 <= m + n THEN (m + n) - (m + 1) + 1 ELSE 0
      /\ \A i \in 1..((m + n) - (m + 1) + 1) : s[i] = bytes[(m + 1) + i - 1]
  <2>1. m + 1 \in Int /\ m + n \in Int
    OBVIOUS
  <2> QED BY <1>4, <1>5, <2>1, SubSeqProperties
<1>7. Len(s) = n /\ \A i \in 1..n : s[i] = bytes[m + i]
  BY <1>6
<1>8. s = b
  <2>1. b \in Seq(Byte) /\ Len(s) = Len(b) /\ \A i \in 1..Len(s) : s[i] = b[i]
    BY <1>2, <1>3, <1>7 DEF Text
  <2> QED BY <1>6, <2>1, SeqEqual
<1> QED BY <1>1, <1>2, <1>5, <1>8

\* Cutting a byte string in two.
LEMMA CutIs ==
  ASSUME NEW a \in Text, NEW n \in 0..Len(a)
  PROVE  /\ SubSeq(a, 1, n) \in Text /\ SubSeq(a, n + 1, Len(a)) \in Text
         /\ Len(SubSeq(a, 1, n)) = n /\ Len(SubSeq(a, n + 1, Len(a))) = Len(a) - n
         /\ SubSeq(a, 1, n) \o SubSeq(a, n + 1, Len(a)) = a
<1>1. PICK len \in Nat : len = Len(a)
  BY LenProperties DEF Text
<1>2. \A i \in 1..len : a[i] \in Byte
  BY <1>1, ElementOfSeq DEF Text
<1>3. SubSeq(a, 1, n) \in Seq(Byte) /\ Len(SubSeq(a, 1, n)) = n
  <2>1. 1 \in Int /\ n \in Int /\ \A i \in 1..n : a[i] \in Byte
    BY <1>1, <1>2
  <2>2. /\ SubSeq(a, 1, n) \in Seq(Byte)
        /\ Len(SubSeq(a, 1, n)) = IF 1 <= n THEN n - 1 + 1 ELSE 0
    BY <2>1, SubSeqProperties
  <2> QED BY <1>1, <2>2
<1>4. SubSeq(a, n + 1, len) \in Seq(Byte) /\ Len(SubSeq(a, n + 1, len)) = len - n
  <2>1. n + 1 \in Int /\ len \in Int /\ \A i \in (n + 1)..len : a[i] \in Byte
    BY <1>1, <1>2
  <2>2. /\ SubSeq(a, n + 1, len) \in Seq(Byte)
        /\ Len(SubSeq(a, n + 1, len)) = IF n + 1 <= len THEN len - (n + 1) + 1 ELSE 0
    BY <2>1, SubSeqProperties
  <2> QED BY <1>1, <2>2
<1>5. SubSeq(a, 1, n) \o SubSeq(a, n + 1, len) = a
  <2>1. 1 \in 1..(len + 1) /\ n \in (1 - 1)..len /\ len \in n..len
    BY <1>1
  <2>2. SubSeq(a, 1, n) \o SubSeq(a, n + 1, len) = SubSeq(a, 1, len)
    BY <1>1, <2>1, ConcatAdjacentSubSeq DEF Text
  <2>3. SubSeq(a, 1, len) = a
    BY <1>1, SubSeqFull DEF Text
  <2> QED BY <2>2, <2>3
<1> QED BY <1>1, <1>3, <1>4, <1>5 DEF Text

\* Two ways to cut the same bytes at the same place.
LEMMA SameCut ==
  ASSUME NEW a \in Text, NEW b \in Text, NEW c \in Text, NEW d \in Text,
         a \o b = c \o d, Len(a) = Len(c)
  PROVE  a = c /\ b = d
<1>1. << >> \in Text
  BY JoinNothing
<1>2. << >> \o (a \o b) = a \o b /\ << >> \o (c \o d) = c \o d
  BY JoinIs, JoinNothing
<1>3. /\ SubSeq(<< >> \o (a \o b), Len(<< >>) + 1, Len(<< >>) + Len(a)) = a
      /\ SubSeq(<< >> \o (c \o d), Len(<< >>) + 1, Len(<< >>) + Len(c)) = c
  BY <1>1, PieceIs
<1>4. a = c
  BY <1>2, <1>3
<1>5. a \o b = a \o d
  BY <1>4
<1>6. b = d
  BY <1>5, ConcatSimplifications DEF Text
<1> QED BY <1>4, <1>6

\* The beginning of a byte string.
LEMMA BeginsWith ==
  ASSUME NEW a \in Text, NEW b \in Text, NEW n \in Len(a)..(Len(a) + Len(b))
  PROVE  \E c \in Text : SubSeq(a \o b, 1, n) = a \o c /\ Len(c) = n - Len(a)
<1>1. PICK m \in Nat, k \in Nat : m = Len(a) /\ k = Len(b)
  BY JoinIs
<1>2. n \in 0..(m + k) /\ n - m \in 0..Len(b)
  BY <1>1
<1>3. PICK u \in Text, v \in Text : Len(u) = n - m /\ u \o v = b
  <2>1. PICK q \in 0..Len(b) : q = n - m
    BY <1>2
  <2>2. SubSeq(b, 1, q) \in Text /\ SubSeq(b, q + 1, Len(b)) \in Text
    BY CutIs
  <2>3. Len(SubSeq(b, 1, q)) = q /\ SubSeq(b, 1, q) \o SubSeq(b, q + 1, Len(b)) = b
    BY CutIs
  <2> QED BY <2>1, <2>2, <2>3
<1>4. (a \o u) \o v = a \o (u \o v)
  <2>1. a \in Text /\ u \in Text /\ v \in Text
    OBVIOUS
  <2>2. Again(a, u, v)
    BY ONLY <2>1, AgainIs
  <2> QED BY ONLY <2>2 DEF Again
<1>5. a \o u \in Text /\ Len(a \o u) = n /\ a \o b \in Text /\ Len(a \o b) = m + k
  <2>1. /\ a \o u \in Text /\ Len(a \o u) = Len(a) + Len(u)
        /\ a \o b \in Text /\ Len(a \o b) = Len(a) + Len(b)
    BY JoinIs
  <2> QED BY <1>1, <1>2, <1>3, <2>1
<1>6. PICK bytes \in Text, z \in Text : bytes = a \o b /\ z = a \o u
  BY <1>5
<1>7. PICK x \in Text, y \in Text :
        x = SubSeq(bytes, 1, n) /\ Len(x) = n /\ x \o y = bytes
  <2>1. n \in 0..Len(bytes)
    BY <1>2, <1>5, <1>6
  <2>2. SubSeq(bytes, 1, n) \in Text /\ SubSeq(bytes, n + 1, Len(bytes)) \in Text
    BY <2>1, CutIs
  <2>3. /\ Len(SubSeq(bytes, 1, n)) = n
        /\ SubSeq(bytes, 1, n) \o SubSeq(bytes, n + 1, Len(bytes)) = bytes
    BY <2>1, CutIs
  <2> QED BY <2>2, <2>3
<1>8. x \o y = z \o v /\ Len(x) = Len(z)
  BY <1>3, <1>4, <1>5, <1>6, <1>7
<1>9. x = z
  BY <1>8, SameCut
<1> QED BY <1>1, <1>3, <1>6, <1>7, <1>9

\* A number is read where it was written.
LEMMA NumberIsThere ==
  ASSUME NEW a \in Text, NEW c \in Text, NEW v \in Nat, NEW w \in Nat, v < Place[w]
  PROVE  /\ NumberAt(a \o (Digits(v, w) \o c), Len(a), w) = v
         /\ Has(a \o (Digits(v, w) \o c), Len(a), w)
<1>1. PICK b \in Text : b = Digits(v, w) /\ Len(b) = w
  BY DigitsAreBytes DEF Text
<1>2. SubSeq(a \o (b \o c), Len(a) + 1, Len(a) + w) = b
  BY <1>1, PieceIs
<1>3. Number(b) = v
  BY <1>1, NumberOfDigits
<1>4. Len(a \o (b \o c)) = Len(a) + (w + Len(c)) /\ Len(a) \in Nat /\ Len(c) \in Nat
  <2>1. PICK d \in Text : d = b \o c /\ Len(d) = w + Len(c)
    <3>1. b \o c \in Text /\ Len(b \o c) = w + Len(c)
      BY <1>1, JoinIs
    <3> QED BY <3>1
  <2>2. Len(a \o d) = Len(a) + Len(d) /\ Len(a) \in Nat /\ Len(c) \in Nat
    BY JoinIs
  <2> QED BY <2>1, <2>2
<1>5. Len(a) + w <= Len(a \o (b \o c))
  BY <1>4
<1> QED BY <1>1, <1>2, <1>3, <1>5 DEF NumberAt, Has

-----------------------------------------------------------------------------
(* Fields.                                                                 *)

Scalar == {"uid", "u8", "u32", "u64"}

List == {"uids", "u64s"}

\* What the encoders write of a field.
LEMMA FieldIs ==
  /\ \A type \in Scalar : \A value : Field(type, value) = Digits(value, Width[type])
  /\ \A value : Field("bool", value) = Digits(IF value THEN 1 ELSE 0, Width["u8"])
  /\ \A value : Field("string", value) = Digits(Len(value), Width["u32"]) \o value
  /\ \A type \in List : \A value :
       Field(type, value) =
         Digits(Len(value), Width["u32"])
         \o FlattenSeq([i \in DOMAIN value |-> Digits(value[i], ItemWidth(type))])
BY DEF Field, Scalar, List

\* What the fields of a message can hold.
LEMMA HoldsIs ==
  /\ \A type \in Scalar : \A value :
       Holds(type, value) <=> value \in 0..(Place[Width[type]] - 1)
  /\ \A value : Holds("bool", value) <=> value \in BOOLEAN
  /\ \A value : Holds("string", value) <=>
                  value \in Text /\ Len(value) < Place[Width["u32"]]
  /\ \A type \in List : \A value :
       Holds(type, value) <=>
         /\ value \in Seq(0..(Place[ItemWidth(type)] - 1))
         /\ Len(value) <= MaxCount /\ Len(value) < Place[Width["u32"]]
BY DEF Holds, Scalar, List, Text

\* What the decoders check of a field.
LEMMA AfterIs ==
  ASSUME NEW bytes, NEW at \in 0..Thrown(bytes)
  PROVE  /\ \A type \in Scalar :
              After(type, bytes)[at] =
                IF Has(bytes, at, Width[type]) THEN at + Width[type] ELSE Thrown(bytes)
         /\ After("bool", bytes)[at] =
              IF Has(bytes, at, Width["u8"]) THEN at + Width["u8"] ELSE Thrown(bytes)
         /\ After("string", bytes)[at] =
              LET count == NumberAt(bytes, at, Width["u32"])
              IN  IF Has(bytes, at, Width["u32"]) /\ TextFits(bytes, at + Width["u32"], count)
                  THEN at + Width["u32"] + count ELSE Thrown(bytes)
         /\ \A type \in List :
              After(type, bytes)[at] =
                LET count == NumberAt(bytes, at, Width["u32"])
                IN  IF /\ Has(bytes, at, Width["u32"]) /\ count <= MaxCount
                       /\ Has(bytes, at + Width["u32"], count * ItemWidth(type))
                    THEN at + Width["u32"] + count * ItemWidth(type) ELSE Thrown(bytes)
BY DEF After, Scalar, List

\* What the decoders return of a field.
LEMMA ValueIs ==
  ASSUME NEW bytes, NEW at
  PROVE  /\ \A type \in Scalar : ValueAt(type, bytes, at) = NumberAt(bytes, at, Width[type])
         /\ ValueAt("bool", bytes, at) <=> NumberAt(bytes, at, Width["u8"]) # 0
         /\ ValueAt("string", bytes, at) =
              [i \in 1..NumberAt(bytes, at, Width["u32"]) |->
                 NumberAt(bytes, at + Width["u32"] + (i - 1) * 1, 1)]
         /\ \A type \in List :
              ValueAt(type, bytes, at) =
                [i \in 1..NumberAt(bytes, at, Width["u32"]) |->
                   NumberAt(bytes, at + Width["u32"] + (i - 1) * ItemWidth(type),
                            ItemWidth(type))]
BY DEF ValueAt, Scalar, List

Types == Scalar \cup {"bool", "string"} \cup List

\* Every width is the number of some bytes, and a byte tells two values apart.
LEMMA WidthIs ==
  /\ \A type \in Scalar : Width[type] \in Nat \ {0}
  /\ \A type \in List : ItemWidth(type) \in Nat \ {0}
  /\ \A w \in Nat \ {0} : Place[w] \in Nat /\ 1 < Place[w]
<1>1. \A type \in Scalar : Width[type] \in Nat \ {0}
  BY WireAssumption DEF Scalar
<1>2. \A type \in List : ItemWidth(type) \in Nat \ {0}
  BY <1>1 DEF List, ItemWidth, Scalar
<1>3. ASSUME NEW w \in Nat \ {0} PROVE Place[w] \in Nat /\ 1 < Place[w]
  <2>1. w - 1 \in Nat /\ (w - 1) + 1 = w
    OBVIOUS
  <2>2. PICK p \in Nat \ {0} : p = Place[w - 1]
    BY <2>1, PlaceIs
  <2>3. Place[w] = Radix * p
    BY <2>1, <2>2, PlaceIs
  <2>4. Radix * p \in Nat /\ 1 < Radix * p
    BY WireAssumption
  <2> QED BY <2>3, <2>4
<1> QED BY <1>1, <1>2, <1>3

\* The items of a list, one after the other.
LEMMA ListIs ==
  ASSUME NEW w \in Nat \ {0}, NEW value \in Seq(0..(Place[w] - 1))
  PROVE  LET items == FlattenSeq([i \in DOMAIN value |-> Digits(value[i], w)])
         IN  /\ items \in Text /\ Len(items) = Len(value) * w
             /\ \A i \in 1..Len(value) : \E x \in Text, y \in Text :
                  items = x \o (Digits(value[i], w) \o y) /\ Len(x) = (i - 1) * w
<1>1. PICK len \in Nat : len = Len(value) /\ DOMAIN value = 1..len
  BY LenProperties
<1>2. ASSUME NEW i \in 1..len
      PROVE  value[i] \in Nat /\ Digits(value[i], w) \in Text /\ Len(Digits(value[i], w)) = w
  <2>1. value[i] \in Nat
    <3>1. value[i] \in 0..(Place[w] - 1)
      BY <1>1, ElementOfSeq
    <3> QED BY <3>1, WidthIs
  <2> QED BY <2>1, DigitsAreBytes DEF Text
<1> DEFINE parts == [i \in 1..len |-> Digits(value[i], w)]
<1>3. parts \in Seq(Text) /\ Len(parts) = len
  BY <1>2
<1>4. \A i \in 1..len : parts[i] = Digits(value[i], w)
  OBVIOUS
<1>5. PICK p : p = parts
  OBVIOUS
<1> HIDE DEF parts
<1>6. PICK run : Joins(p, run) /\ FlattenSeq(p) = run[len]
  BY <1>3, <1>5, FlattenBySteps
<1>7. /\ run \in [0..len -> Text] /\ run[0] = << >>
      /\ \A n \in 1..len : run[n] = run[n - 1] \o p[n]
  BY <1>3, <1>5, <1>6 DEF Joins
<1>8. \A n \in 0..len : Len(run[n]) = n * w
  <2> DEFINE N == {n \in Nat : n <= len => Len(run[n]) = n * w}
  <2>1. 0 \in N
    BY <1>7
  <2>2. ASSUME NEW n \in N PROVE n + 1 \in N
    <3>1. ASSUME n + 1 <= len PROVE Len(run[n + 1]) = (n + 1) * w
      <4>1. n + 1 \in 1..len /\ (n + 1) - 1 = n /\ n \in 0..len /\ n \in Nat
        BY <3>1
      <4>2. PICK r \in Text : r = run[n] /\ Len(r) = n * w
        BY <1>7, <3>1, <4>1
      <4>3. PICK d \in Text : d = Digits(value[n + 1], w) /\ Len(d) = w
        BY <1>2, <4>1
      <4>4. run[n + 1] = r \o d
        BY <1>4, <1>5, <1>7, <4>1, <4>2, <4>3
      <4>5. Len(r \o d) = n * w + w
        <5>1. Len(r \o d) = Len(r) + Len(d)
          BY ONLY r \in Text, d \in Text, JoinIs
        <5> QED BY <4>2, <4>3, <5>1
      <4>6. n * w + w = (n + 1) * w
        BY <4>1
      <4> QED BY <4>4, <4>5, <4>6
    <3> QED BY <3>1
  <2> HIDE DEF N
  <2>3. N = Nat
    <3>1. N \in SUBSET Nat
      BY DEF N
    <3> QED BY <2>1, <2>2, <3>1, ByNaturals
  <2> QED BY <2>3 DEF N
<1>9. ASSUME NEW i \in 1..len
      PROVE  \E x \in Text, y \in Text :
               run[len] = x \o (Digits(value[i], w) \o y) /\ Len(x) = (i - 1) * w
  <2>1. i \in 0..len /\ i - 1 \in 0..len
    OBVIOUS
  <2>2. PICK x \in Text : x = run[i - 1] /\ Len(x) = (i - 1) * w
    BY <1>7, <1>8, <2>1
  <2>3. PICK d \in Text : d = Digits(value[i], w)
    BY <1>2
  <2>4. run[i] = x \o d
    BY <1>4, <1>5, <1>7, <2>2, <2>3
  <2>5. PICK y \in Text : run[len] = run[i] \o y
    BY <1>3, <1>5, <1>6, <2>1, JoinsSplit
  <2>6. run[len] = x \o (d \o y)
    <3>1. x \in Text /\ d \in Text /\ y \in Text
      OBVIOUS
    <3>2. Again(x, d, y)
      BY ONLY <3>1, AgainIs
    <3> QED BY ONLY <2>4, <2>5, <3>2 DEF Again
  <2> QED BY <2>2, <2>3, <2>6
<1>10. run[len] \in Text /\ Len(run[len]) = len * w
  BY <1>7, <1>8
<1>11. FlattenSeq([i \in DOMAIN value |-> Digits(value[i], w)]) = run[len]
  BY <1>1, <1>5, <1>6 DEF parts
<1> QED BY <1>1, <1>9, <1>10, <1>11

\* The bytes of a text, one after the other.
LEMMA TextIs ==
  ASSUME NEW value \in Text, NEW i \in 1..Len(value)
  PROVE  /\ value[i] \in Byte
         /\ \E x \in Text, y \in Text :
              value = x \o (<<value[i]>> \o y) /\ Len(x) = i - 1
<1>1. PICK len \in Nat : len = Len(value)
  BY LenProperties DEF Text
<1>2. PICK b \in Byte : b = value[i]
  BY ElementOfSeq DEF Text
<1>3. PICK j \in 0..len : j = i - 1
  BY <1>1
<1>4. PICK x \in Text : x = SubSeq(value, 1, j) /\ Len(x) = j
  BY <1>1, <1>3, CutIs
<1>5. PICK y \in Text : y = SubSeq(value, i + 1, len)
  <2>1. i \in 0..len
    BY <1>1
  <2> QED BY <1>1, <2>1, CutIs
<1>6. x \o SubSeq(value, i, len) = value
  <2>1. j + 1 = i
    BY <1>3
  <2>2. SubSeq(value, 1, j) \o SubSeq(value, j + 1, len) = value
    BY <1>1, <1>3, CutIs
  <2> QED BY ONLY <1>4, <2>1, <2>2
<1>7. SubSeq(value, i, len) = <<b>> \o y
  <2>1. i \in 1..len /\ len \in i..len
    BY <1>1
  <2> QED BY <1>1, <1>2, <1>5, <2>1, SubSeqRecursiveFirst DEF Text
<1>8. value = x \o (<<b>> \o y)
  BY <1>6, <1>7
<1> QED BY <1>2, <1>3, <1>4, <1>8

\* A position within a byte string, or behind it.
LEMMA PositionIs ==
  ASSUME NEW a \in Text, NEW b \in Text
  PROVE  /\ Len(a) \in 0..Thrown(a \o b) /\ Thrown(a \o b) = (Len(a) + Len(b)) + 1
         /\ Thrown(a) = Len(a) + 1 /\ Thrown(a) \in Nat /\ Thrown(a) \in 0..Thrown(a)
<1>1. Len(a \o b) = Len(a) + Len(b) /\ Len(a) \in Nat /\ Len(b) \in Nat
  BY JoinIs
<1> QED BY <1>1 DEF Thrown

\* Nothing can be read behind the end.
LEMMA ThrownStays ==
  ASSUME NEW bytes \in Text, NEW type \in Types
  PROVE  After(type, bytes)[Thrown(bytes)] = Thrown(bytes)
<1>1. Thrown(bytes) \in 0..Thrown(bytes) /\ Thrown(bytes) = Len(bytes) + 1 /\ Len(bytes) \in Nat
  <2>1. Len(bytes) \in Nat
    BY LenProperties DEF Text
  <2> QED BY <2>1 DEF Thrown
<1>2. \A w \in Nat \ {0} : ~ Has(bytes, Thrown(bytes), w)
  BY <1>1 DEF Has
<1>3. \A s \in Scalar : ~ Has(bytes, Thrown(bytes), Width[s])
  BY <1>2, WidthIs
<1>4. "u8" \in Scalar /\ "u32" \in Scalar
  BY DEF Scalar
<1>5. CASE type \in Scalar
  BY <1>1, <1>3, <1>5, AfterIs
<1>6. CASE type = "bool"
  BY <1>1, <1>3, <1>4, <1>6, AfterIs
<1>7. CASE type = "string"
  BY <1>1, <1>3, <1>4, <1>7, AfterIs
<1>8. CASE type \in List
  BY <1>1, <1>3, <1>4, <1>8, AfterIs
<1> QED BY <1>5, <1>6, <1>7, <1>8 DEF Types

\* A number field, read whole and cut short.
LEMMA ScalarRead ==
  ASSUME NEW a \in Text, NEW c \in Text, NEW type \in Scalar,
         NEW value \in 0..(Place[Width[type]] - 1)
  PROVE  LET d     == Digits(value, Width[type])
             bytes == a \o (d \o c)
         IN  /\ d \in Text
             /\ After(type, bytes)[Len(a)] = Len(a) + Len(d)
             /\ ValueAt(type, bytes, Len(a)) = value
<1>1. PICK w \in Nat \ {0} : w = Width[type] /\ Place[w] \in Nat
  BY WidthIs
<1>2. value \in Nat /\ value < Place[w]
  BY <1>1
<1>3. PICK d \in Text : d = Digits(value, w) /\ Len(d) = w
  BY <1>1, <1>2, DigitsAreBytes DEF Text
<1>4. PICK bytes \in Text : bytes = a \o (d \o c)
  BY JoinIs
<1>5. NumberAt(bytes, Len(a), w) = value /\ Has(bytes, Len(a), w)
  BY <1>1, <1>2, <1>3, <1>4, NumberIsThere
<1>6. Len(a) \in 0..Thrown(bytes)
  BY <1>4, PositionIs, JoinIs
<1>7. After(type, bytes)[Len(a)] = Len(a) + w /\ ValueAt(type, bytes, Len(a)) = value
  BY <1>1, <1>5, <1>6, AfterIs, ValueIs
<1> QED BY <1>1, <1>3, <1>4, <1>7

\* A flag, read whole.
LEMMA BoolRead ==
  ASSUME NEW a \in Text, NEW c \in Text, NEW value \in BOOLEAN
  PROVE  LET d     == Field("bool", value)
             bytes == a \o (d \o c)
         IN  /\ d \in Text
             /\ After("bool", bytes)[Len(a)] = Len(a) + Len(d)
             /\ ValueAt("bool", bytes, Len(a)) <=> value
<1>1. PICK w \in Nat \ {0} : w = Width["u8"] /\ Place[w] \in Nat /\ 1 < Place[w]
  BY WidthIs DEF Scalar
<1>2. PICK v \in Nat : v = (IF value THEN 1 ELSE 0) /\ v < Place[w]
  BY <1>1
<1>3. PICK d \in Text : d = Digits(v, w) /\ Len(d) = w
  BY <1>1, <1>2, DigitsAreBytes DEF Text
<1>4. PICK bytes \in Text : bytes = a \o (d \o c)
  BY JoinIs
<1>5. NumberAt(bytes, Len(a), w) = v /\ Has(bytes, Len(a), w)
  BY <1>1, <1>2, <1>3, <1>4, NumberIsThere
<1>6. Len(a) \in 0..Thrown(bytes)
  BY <1>4, PositionIs, JoinIs
<1>7. After("bool", bytes)[Len(a)] = Len(a) + w
  BY <1>1, <1>5, <1>6, AfterIs
<1>8. ValueAt("bool", bytes, Len(a)) <=> v # 0
  BY <1>1, <1>5, ValueIs
<1>9. Field("bool", value) = d
  BY <1>1, <1>2, <1>3, FieldIs
<1>10. ValueAt("bool", bytes, Len(a)) <=> value
  BY <1>2, <1>8
<1>11. After("bool", bytes)[Len(a)] = Len(a) + Len(d)
  BY <1>3, <1>7
<1> QED BY <1>4, <1>9, <1>10, <1>11, Zenon

\* A length and what it counts, between other bytes.
Counted(a, c, n, b) ==
  LET d     == Digits(n, Width["u32"])
      bytes == a \o ((d \o b) \o c)
  IN  /\ d \in Text /\ Len(d) = Width["u32"] /\ Width["u32"] \in Nat
      /\ d \o b \in Text /\ Len(d \o b) = Width["u32"] + Len(b)
      /\ a \o d \in Text /\ Len(a \o d) = Len(a) + Width["u32"]
      /\ bytes \in Text /\ bytes = (a \o d) \o (b \o c)
      /\ Len(bytes) = ((Len(a) + Width["u32"]) + Len(b)) + Len(c)
      /\ NumberAt(bytes, Len(a), Width["u32"]) = n
      /\ Has(bytes, Len(a), Width["u32"])
      /\ Len(a) \in 0..Thrown(bytes)

\* The length is read where it was written.
LEMMA CountedIs ==
  ASSUME NEW a \in Text, NEW c \in Text, NEW n \in Nat, n < Place[Width["u32"]], NEW b \in Text
  PROVE  Counted(a, c, n, b)
<1>1. PICK w \in Nat : w = Width["u32"]
  BY WidthIs DEF Scalar
<1>2. PICK d \in Text : d = Digits(n, w) /\ Len(d) = w
  BY DigitsAreBytes DEF Text
<1>3. a \o d \in Text /\ Len(a \o d) = Len(a) + w
  <2>1. a \o d \in Text /\ Len(a \o d) = Len(a) + Len(d)
    BY JoinIs, Zenon
  <2> QED BY <1>2, <2>1
<1>4. PICK e \in Text : e = b \o c /\ Len(e) = Len(b) + Len(c)
  BY JoinIs
<1>5. (d \o b) \o c = d \o e
  <2>1. b \in Text /\ c \in Text /\ d \in Text
    OBVIOUS
  <2>2. Again(d, b, c)
    BY ONLY <2>1, AgainIs
  <2> QED BY ONLY <1>4, <2>2 DEF Again
<1>6. a \o (d \o e) = (a \o d) \o e
  <2>1. a \in Text /\ d \in Text /\ e \in Text
    OBVIOUS
  <2>2. Again(a, d, e)
    BY ONLY <2>1, AgainIs
  <2> QED BY ONLY <2>2 DEF Again
<1>7. NumberAt(a \o (d \o e), Len(a), w) = n /\ Has(a \o (d \o e), Len(a), w)
  BY <1>1, <1>2, NumberIsThere
<1>8. d \o b \in Text /\ Len(d \o b) = w + Len(b) /\ d \o e \in Text /\ Len(d \o e) = w + Len(e)
  BY <1>2, JoinIs
<1>9. /\ a \o (d \o e) \in Text /\ Len(a \o (d \o e)) = Len(a) + (w + Len(e))
      /\ Len(a) \in Nat /\ Len(b) \in Nat /\ Len(c) \in Nat
  BY <1>8, JoinIs
<1>10. Len(a \o (d \o e)) = ((Len(a) + w) + Len(b)) + Len(c)
  BY <1>4, <1>9
<1>11. Len(a) \in 0..Thrown(a \o (d \o e))
  BY <1>9 DEF Thrown
<1> QED BY ONLY <1>1, <1>2, <1>3, <1>4, <1>5, <1>6, <1>7, <1>8, <1>9, <1>10, <1>11 DEF Counted

ReadsBack(a, c, v, w) == NumberAt(a \o (Digits(v, w) \o c), Len(a), w) = v

\* A number between other bytes is read back.
LEMMA ReadsBackIs ==
  ASSUME NEW a, NEW c, NEW v, NEW w, a \in Text, c \in Text, v \in Nat, w \in Nat, v < Place[w]
  PROVE  ReadsBack(a, c, v, w)
BY NumberIsThere DEF ReadsBack

Inside(p, x, m, y, c) ==
  /\ p \o ((x \o (m \o y)) \o c) = (p \o x) \o (m \o (y \o c))
  /\ p \o x \in Text /\ Len(p \o x) = Len(p) + Len(x) /\ y \o c \in Text

\* A piece of a piece is a piece.
LEMMA InsideIs ==
  ASSUME NEW p, NEW x, NEW m, NEW y, NEW c,
         p \in Text, x \in Text, m \in Text, y \in Text, c \in Text
  PROVE  Inside(p, x, m, y, c)
<1>1. PICK u : u \in Text /\ u = m \o y
  BY JoinIs
<1>2. (x \o u) \o c = x \o (u \o c)
  <2>1. x \in Text /\ c \in Text
    OBVIOUS
  <2> QED BY ONLY <1>1, <2>1, JoinAgain
<1>3. (m \o y) \o c = m \o (y \o c)
  <2>1. m \in Text /\ y \in Text /\ c \in Text
    OBVIOUS
  <2> QED BY ONLY <2>1, JoinAgain
<1>4. PICK v : v \in Text /\ v = u \o c
  BY <1>1, JoinIs
<1>5. p \o (x \o v) = (p \o x) \o v
  <2>1. p \in Text /\ x \in Text
    OBVIOUS
  <2> QED BY ONLY <1>4, <2>1, JoinAgain
<1>6. p \o x \in Text /\ Len(p \o x) = Len(p) + Len(x) /\ y \o c \in Text
  BY JoinIs, Zenon
<1> QED BY ONLY <1>1, <1>2, <1>3, <1>4, <1>5, <1>6 DEF Inside

\* A list is read where it was written.
LEMMA ListRead ==
  ASSUME NEW a, NEW c, a \in Text, c \in Text, NEW type \in List, NEW value, Holds(type, value)
  PROVE  LET d     == Field(type, value)
             bytes == a \o (d \o c)
         IN  /\ d \in Text
             /\ After(type, bytes)[Len(a)] = Len(a) + Len(d)
             /\ ValueAt(type, bytes, Len(a)) = value
<1>1. PICK w \in Nat \ {0} : w = ItemWidth(type) /\ Place[w] \in Nat
  BY WidthIs
<1>2. /\ value \in Seq(0..(Place[w] - 1))
      /\ Len(value) <= MaxCount /\ Len(value) < Place[Width["u32"]]
  BY <1>1, HoldsIs
<1>3. PICK n \in Nat : n = Len(value) /\ DOMAIN value = 1..n
  BY <1>2, LenProperties
<1>4. PICK b : b = FlattenSeq([i \in DOMAIN value |-> Digits(value[i], w)])
  OBVIOUS
<1>5. /\ b \in Text /\ Len(b) = n * w
      /\ \A i \in 1..n : \E x \in Text, y \in Text :
           b = x \o (Digits(value[i], w) \o y) /\ Len(x) = (i - 1) * w
  BY <1>2, <1>3, <1>4, ListIs
<1>6. PICK k, d : k \in Nat /\ k = Width["u32"] /\ d = Digits(n, k)
  BY WidthIs DEF Scalar
<1>7. PICK bytes : bytes = a \o ((d \o b) \o c)
  OBVIOUS
<1>8. /\ d \in Text /\ d \o b \in Text /\ Len(d \o b) = k + Len(b)
      /\ a \o d \in Text /\ Len(a \o d) = Len(a) + k
      /\ bytes \in Text /\ bytes = (a \o d) \o (b \o c)
      /\ Len(bytes) = ((Len(a) + k) + Len(b)) + Len(c)
      /\ NumberAt(bytes, Len(a), k) = n /\ Has(bytes, Len(a), k)
      /\ Len(a) \in 0..Thrown(bytes)
  <2>1. a \in Text /\ c \in Text /\ n \in Nat /\ n < Place[Width["u32"]] /\ b \in Text
    BY <1>2, <1>3, <1>5
  <2>2. Counted(a, c, n, b)
    BY ONLY <2>1, CountedIs
  <2> QED BY ONLY <1>6, <1>7, <2>2 DEF Counted
<1>9. Field(type, value) = d \o b
  BY <1>1, <1>3, <1>4, <1>6, FieldIs
<1>10. PICK la \in Nat, lc \in Nat, nw \in Nat : la = Len(a) /\ lc = Len(c) /\ nw = n * w
  <2>1. Len(a) \in Nat /\ Len(c) \in Nat
    BY JoinIs
  <2>2. n * w \in Nat
    OBVIOUS
  <2> QED BY <2>1, <2>2
<1>11. Has(bytes, la + k, nw)
  BY <1>5, <1>8, <1>10 DEF Has
<1>12. After(type, bytes)[la] = la + k + nw
  <2>1. PICK at : at = la /\ at \in 0..Thrown(bytes)
    BY <1>8, <1>10
  <2>2. NumberAt(bytes, at, Width["u32"]) = n /\ Has(bytes, at, Width["u32"]) /\ n <= MaxCount
    BY <1>2, <1>3, <1>6, <1>8, <1>10, <2>1
  <2>3. Has(bytes, at + Width["u32"], n * ItemWidth(type)) /\ nw = n * ItemWidth(type)
    BY <1>1, <1>6, <1>10, <1>11, <2>1
  <2>4. After(type, bytes)[at] = at + Width["u32"] + n * ItemWidth(type)
    BY <2>1, <2>2, <2>3, AfterIs
  <2> QED BY ONLY <1>6, <2>1, <2>3, <2>4
<1>13. After(type, bytes)[la] = la + Len(d \o b)
  BY <1>5, <1>8, <1>10, <1>12
<1>14. ASSUME NEW i \in 1..n PROVE NumberAt(bytes, la + k + (i - 1) * w, w) = value[i]
  <2>1. PICK x, y : /\ x \in Text /\ y \in Text
                     /\ b = x \o (Digits(value[i], w) \o y) /\ Len(x) = (i - 1) * w
    BY <1>5
  <2>2. value[i] \in Nat /\ value[i] < Place[w]
    <3>1. value[i] \in 0..(Place[w] - 1)
      BY <1>2, <1>3, ElementOfSeq
    <3> QED BY <1>1, <3>1
  <2>3. PICK m : m \in Text /\ m = Digits(value[i], w)
    BY <2>2, DigitsAreBytes DEF Text
  <2>4. PICK p : p \in Text /\ p = a \o d /\ Len(p) = la + k
    BY <1>8, <1>10
  <2>5. Inside(p, x, m, y, c)
    <3>1. p \in Text /\ x \in Text /\ m \in Text /\ y \in Text /\ c \in Text
      BY <2>1, <2>3, <2>4
    <3> QED BY ONLY <3>1, InsideIs
  <2>6. PICK q, z : q \in Text /\ z \in Text /\ q = p \o x /\ z = y \o c
    BY ONLY <2>5 DEF Inside
  <2>7. NumberAt(q \o (Digits(value[i], w) \o z), Len(q), w) = value[i]
    <3>1. w \in Nat
      OBVIOUS
    <3>2. PICK v : v \in Nat /\ v = value[i] /\ v < Place[w]
      BY <2>2
    <3>3. ReadsBack(q, z, v, w)
      BY ONLY <2>6, <3>1, <3>2, ReadsBackIs
    <3> QED BY ONLY <3>2, <3>3 DEF ReadsBack
  <2>8. Len(q) = la + k + (i - 1) * w
    BY <2>1, <2>4, <2>5, <2>6 DEF Inside
  <2>9. bytes = q \o (m \o z)
    BY ONLY <1>8, <2>1, <2>3, <2>4, <2>5, <2>6 DEF Inside
  <2> QED BY ONLY <2>3, <2>7, <2>8, <2>9
<1>15. ValueAt(type, bytes, la) = [i \in 1..n |-> NumberAt(bytes, la + k + (i - 1) * w, w)]
  <2>1. NumberAt(bytes, la, Width["u32"]) = n
    BY <1>6, <1>8, <1>10
  <2>2. ValueAt(type, bytes, la) =
          [i \in 1..NumberAt(bytes, la, Width["u32"]) |->
             NumberAt(bytes, la + Width["u32"] + (i - 1) * ItemWidth(type), ItemWidth(type))]
    BY ONLY ValueIs
  <2> QED BY ONLY <1>1, <1>6, <2>1, <2>2
<1>16. [i \in 1..n |-> NumberAt(bytes, la + k + (i - 1) * w, w)] = [i \in 1..n |-> value[i]]
  BY <1>14
<1>17. [i \in 1..n |-> value[i]] = value
  BY <1>2, <1>3, LenProperties
<1> QED BY <1>7, <1>8, <1>9, <1>10, <1>13, <1>15, <1>16, <1>17

\* A text is read where it was written.
LEMMA StringRead ==
  ASSUME NEW a, NEW c, a \in Text, c \in Text, NEW value, Holds("string", value)
  PROVE  LET d     == Field("string", value)
             bytes == a \o (d \o c)
         IN  /\ d \in Text
             /\ After("string", bytes)[Len(a)] = Len(a) + Len(d)
             /\ ValueAt("string", bytes, Len(a)) = value
<1>1. value \in Text /\ Len(value) < Place[Width["u32"]]
  BY HoldsIs
<1>2. PICK n \in Nat : n = Len(value) /\ DOMAIN value = 1..n
  BY <1>1, LenProperties DEF Text
<1>3. PICK k, d : k \in Nat /\ k = Width["u32"] /\ d = Digits(n, k)
  BY WidthIs DEF Scalar
<1>4. PICK bytes : bytes = a \o ((d \o value) \o c)
  OBVIOUS
<1>5. /\ d \in Text /\ d \o value \in Text /\ Len(d \o value) = k + Len(value)
      /\ a \o d \in Text /\ Len(a \o d) = Len(a) + k
      /\ bytes \in Text /\ bytes = (a \o d) \o (value \o c)
      /\ Len(bytes) = ((Len(a) + k) + Len(value)) + Len(c)
      /\ NumberAt(bytes, Len(a), k) = n /\ Has(bytes, Len(a), k)
      /\ Len(a) \in 0..Thrown(bytes)
  <2>1. a \in Text /\ c \in Text /\ n \in Nat /\ n < Place[Width["u32"]] /\ value \in Text
    BY <1>1, <1>2
  <2>2. Counted(a, c, n, value)
    BY ONLY <2>1, CountedIs
  <2> QED BY ONLY <1>3, <1>4, <2>2 DEF Counted
<1>6. Field("string", value) = d \o value
  BY <1>2, <1>3, FieldIs
<1>7. PICK la \in Nat, lc \in Nat : la = Len(a) /\ lc = Len(c)
  BY JoinIs
<1>8. TextFits(bytes, la + k, n)
  BY <1>2, <1>5, <1>7 DEF TextFits
<1>9. After("string", bytes)[la] = la + k + n
  BY <1>3, <1>5, <1>7, <1>8, AfterIs
<1>10. After("string", bytes)[la] = la + Len(d \o value)
  <2>1. Len(d \o value) = k + n /\ k \in Nat /\ n \in Nat /\ la \in Nat
    BY <1>2, <1>3, <1>5
  <2> QED BY ONLY <1>9, <2>1
<1>11. ASSUME NEW i \in 1..n PROVE NumberAt(bytes, la + k + (i - 1) * 1, 1) = value[i]
  <2>1. PICK x, y : x \in Text /\ y \in Text /\ value = x \o (<<value[i]>> \o y) /\ Len(x) = i - 1
    <3>1. \E x \in Text, y \in Text : value = x \o (<<value[i]>> \o y) /\ Len(x) = i - 1
      BY <1>1, <1>2, TextIs
    <3> QED BY <3>1, Zenon
  <2>2. value[i] \in Nat
    <3>1. value[i] \in Byte
      BY <1>1, <1>2, TextIs
    <3> QED BY <3>1, WireAssumption DEF Byte
  <2>3. PICK m : m \in Text /\ m = <<value[i]>> /\ Len(m) = 1
    <3>1. value[i] \in Byte
      BY <1>1, <1>2, TextIs
    <3>2. <<value[i]>> \in Text /\ Len(<<value[i]>>) = 1
      BY <3>1 DEF Text
    <3> QED BY <3>2
  <2>4. PICK p : p \in Text /\ p = a \o d /\ Len(p) = la + k
    BY <1>5, <1>7
  <2>5. Inside(p, x, m, y, c)
    <3>1. p \in Text /\ x \in Text /\ m \in Text /\ y \in Text /\ c \in Text
      BY <2>1, <2>3, <2>4
    <3> QED BY ONLY <3>1, InsideIs
  <2>6. PICK q, z : q \in Text /\ z \in Text /\ q = p \o x /\ z = y \o c
    BY ONLY <2>5 DEF Inside
  <2>7. bytes = q \o (m \o z)
    BY ONLY <1>5, <2>1, <2>3, <2>4, <2>5, <2>6 DEF Inside
  <2>8. SubSeq(bytes, Len(q) + 1, Len(q) + 1) = m
    <3>1. SubSeq(q \o (m \o z), Len(q) + 1, Len(q) + Len(m)) = m
      <4>1. q \in Text /\ m \in Text /\ z \in Text
        BY <2>3, <2>6
      <4> QED BY ONLY <4>1, PieceIs
    <3> QED BY ONLY <2>3, <2>7, <3>1
  <2>9. Len(q) = la + k + (i - 1) * 1
    BY <2>1, <2>4, <2>5, <2>6 DEF Inside
  <2>10. Number(m) = value[i]
    BY <2>2, <2>3, NumberOfByte
  <2> QED BY <2>8, <2>9, <2>10 DEF NumberAt
<1>12. ValueAt("string", bytes, la) = [i \in 1..n |-> NumberAt(bytes, la + k + (i - 1) * 1, 1)]
  BY <1>3, <1>5, <1>7, ValueIs
<1>13. [i \in 1..n |-> NumberAt(bytes, la + k + (i - 1) * 1, 1)] = [i \in 1..n |-> value[i]]
  BY <1>11
<1>14. [i \in 1..n |-> value[i]] = value
  BY <1>1, <1>2, LenProperties DEF Text
<1> QED BY <1>4, <1>5, <1>6, <1>7, <1>10, <1>12, <1>13, <1>14

\* A field that was written between other bytes: where its decoder stops, and
\* what it returns.
Found(type, value, a, c) ==
  LET d     == Field(type, value)
      bytes == a \o (d \o c)
  IN  /\ d \in Text
      /\ After(type, bytes)[Len(a)] = Len(a) + Len(d)
      /\ ValueAt(type, bytes, Len(a)) = value

\* A field is read where it was written, and nothing else with it.
LEMMA FieldRead ==
  ASSUME NEW type \in Types, NEW value, Holds(type, value), NEW a, NEW c, a \in Text, c \in Text
  PROVE  Found(type, value, a, c)
<1>1. CASE type \in Scalar
  <2>1. value \in 0..(Place[Width[type]] - 1)
    BY <1>1, HoldsIs
  <2>2. PICK d : d = Digits(value, Width[type])
    OBVIOUS
  <2>3. d = Field(type, value)
    BY <1>1, <2>2, FieldIs
  <2>4. /\ d \in Text
        /\ After(type, a \o (d \o c))[Len(a)] = Len(a) + Len(d)
        /\ ValueAt(type, a \o (d \o c), Len(a)) = value
    <3>1. a \in Text /\ c \in Text
      OBVIOUS
    <3> QED BY ONLY <1>1, <2>1, <2>2, <3>1, ScalarRead
  <2> QED BY ONLY <2>3, <2>4 DEF Found
<1>2. CASE type = "bool"
  <2>1. value \in BOOLEAN
    BY <1>2, HoldsIs
  <2>2. PICK d : d = Field("bool", value)
    OBVIOUS
  <2>3. /\ d \in Text /\ After("bool", a \o (d \o c))[Len(a)] = Len(a) + Len(d)
        /\ ValueAt("bool", a \o (d \o c), Len(a)) <=> value
    BY <2>1, <2>2, BoolRead
  <2>4. ValueAt("bool", a \o (d \o c), Len(a)) \in BOOLEAN
    BY DEF ValueAt
  <2>5. ValueAt("bool", a \o (d \o c), Len(a)) = value
    BY <2>1, <2>3, <2>4, Zenon
  <2> QED BY <1>2, <2>2, <2>3, <2>5 DEF Found
<1>3. CASE type = "string"
  BY <1>3, StringRead DEF Found
<1>4. CASE type \in List
  BY <1>4, ListRead DEF Found
<1> QED BY <1>1, <1>2, <1>3, <1>4 DEF Types

\* What is cut off a byte string of two parts is cut off one of them.
LEMMA CutOff ==
  ASSUME NEW d \in Text, NEW b \in Text, NEW p \in Text, NEW q \in Text,
         p \o q = d \o b, q # << >>
  PROVE  \/ Len(p) < Len(d)
         \/ \E s \in Text : p = d \o s /\ Len(s) < Len(b)
<1>1. /\ Len(p) + Len(q) = Len(d) + Len(b)
      /\ Len(p) \in Nat /\ Len(q) \in Nat /\ Len(d) \in Nat /\ Len(b) \in Nat
  BY JoinIs
<1>2. Len(q) > 0
  BY <1>1, EmptySeq DEF Text
<1>3. SUFFICES ASSUME Len(p) >= Len(d)
               PROVE  \E s \in Text : p = d \o s /\ Len(s) < Len(b)
  BY <1>1
<1>4. Len(p) \in Len(d)..(Len(d) + Len(b))
  BY <1>1, <1>3
<1>5. PICK s \in Text : SubSeq(d \o b, 1, Len(p)) = d \o s /\ Len(s) = Len(p) - Len(d)
  BY <1>4, BeginsWith
<1>6. SubSeq(p \o q, 1, Len(p)) = p
  <2>1. SubSeq(<< >> \o (p \o q), Len(<< >>) + 1, Len(<< >>) + Len(p)) = p
    BY JoinNothing, PieceIs
  <2>2. << >> \o (p \o q) = p \o q
    BY JoinNothing, JoinIs
  <2> QED BY <1>1, <2>1, <2>2
<1>7. p = d \o s
  <2>1. p \o q = d \o b
    OBVIOUS
  <2> QED BY ONLY <1>5, <1>6, <2>1
<1>8. Len(s) < Len(b)
  BY ONLY <1>1, <1>2, <1>5
<1> QED BY <1>7, <1>8

\* The decoder of a field whose bytes begin with a number of width w throws
\* when the number is not there.
Short(a, p, w) == a \o p \in Text /\ Len(a) \in 0..Thrown(a \o p) /\ ~ Has(a \o p, Len(a), w)

\* Too few bytes for a number.
LEMMA ShortIs ==
  ASSUME NEW a, NEW p, NEW w, a \in Text, p \in Text, w \in Nat, Len(p) < w
  PROVE  Short(a, p, w)
<1>1. a \o p \in Text /\ Len(a \o p) = Len(a) + Len(p) /\ Len(a) \in Nat /\ Len(p) \in Nat
  BY JoinIs
<1>2. Len(a) \in 0..Thrown(a \o p)
  BY <1>1 DEF Thrown
<1> QED BY <1>1, <1>2 DEF Short, Has

\* Cut off behind its length, what a length counts is too short.
LEMMA CountCut ==
  ASSUME NEW a, NEW p, NEW q, NEW n, NEW b,
         a \in Text, p \in Text, q \in Text, b \in Text, n \in Nat,
         n < Place[Width["u32"]], p \o q = Digits(n, Width["u32"]) \o b, q # << >>
  PROVE  LET k == Width["u32"] IN
         \/ Short(a, p, k)
         \/ /\ a \o p \in Text /\ Len(a) \in 0..Thrown(a \o p)
            /\ NumberAt(a \o p, Len(a), k) = n
            /\ Len(a \o p) < Len(a) + k + Len(b)
<1>1. PICK k : k \in Nat /\ k = Width["u32"]
  BY WidthIs DEF Scalar
<1>2. PICK d : d \in Text /\ d = Digits(n, k) /\ Len(d) = k
  BY <1>1, DigitsAreBytes DEF Text
<1>3. \/ Len(p) < Len(d)
      \/ \E s \in Text : p = d \o s /\ Len(s) < Len(b)
  <2>1. /\ p \in Text /\ q \in Text /\ b \in Text /\ d \in Text
        /\ p \o q = d \o b /\ q # << >>
    BY <1>1, <1>2
  <2> QED BY ONLY <2>1, CutOff, Zenon
<1>4. CASE Len(p) < Len(d)
  BY <1>1, <1>2, <1>4, ShortIs
<1>5. CASE \E s \in Text : p = d \o s /\ Len(s) < Len(b)
  <2>1. PICK s : s \in Text /\ p = d \o s /\ Len(s) < Len(b)
    BY <1>5
  <2>2. NumberAt(a \o p, Len(a), k) = n
    <3>1. ReadsBack(a, s, n, k)
      <4>1. a \in Text /\ n \in Nat /\ n < Place[k]
        BY <1>1
      <4> QED BY ONLY <1>1, <2>1, <4>1, ReadsBackIs
    <3> QED BY ONLY <1>2, <2>1, <3>1 DEF ReadsBack
  <2>3. /\ a \o p \in Text /\ Len(a \o p) = Len(a) + Len(p) /\ Len(a) \in Nat /\ Len(p) \in Nat
    BY JoinIs, Zenon
  <2>4. Len(p) = k + Len(s) /\ Len(s) \in Nat /\ Len(b) \in Nat
    <3>1. Len(d \o s) = Len(d) + Len(s) /\ Len(s) \in Nat /\ Len(b) \in Nat
      BY <1>2, <2>1, JoinIs, Zenon
    <3> QED BY ONLY <1>2, <2>1, <3>1
  <2>5. Len(a) \in 0..Thrown(a \o p)
    BY ONLY <2>3 DEF Thrown
  <2>6. Len(a \o p) < Len(a) + k + Len(b)
    BY ONLY <1>1, <2>1, <2>3, <2>4
  <2> QED BY ONLY <1>1, <2>2, <2>3, <2>5, <2>6
<1> QED BY <1>3, <1>4, <1>5

\* A field that was cut short is not read.
Lost(type, a, p) == After(type, a \o p)[Len(a)] = Thrown(a \o p)

\* A decoder throws when the bytes end within a field.
LEMMA FieldCut ==
  ASSUME NEW type \in Types, NEW value, Holds(type, value), NEW a, NEW p, NEW q,
         a \in Text, p \in Text, q \in Text, p \o q = Field(type, value), q # << >>
  PROVE  Lost(type, a, p)
<1>1. Len(p \o q) = Len(p) + Len(q) /\ Len(p) \in Nat /\ Len(q) \in Nat
  BY JoinIs, Zenon
<1>2. Len(q) # 0
  BY EmptySeq DEF Text
<1>3. CASE type \in Scalar
  <2>1. value \in 0..(Place[Width[type]] - 1) /\ Field(type, value) = Digits(value, Width[type])
    BY <1>3, HoldsIs, FieldIs
  <2>2. PICK w : w \in Nat \ {0} /\ w = Width[type] /\ Place[w] \in Nat
    BY <1>3, WidthIs
  <2>3. Len(Digits(value, w)) = w
    <3>1. value \in Nat /\ w \in Nat
      BY <2>1, <2>2
    <3> QED BY ONLY <3>1, DigitsAreBytes
  <2>4. Len(p) < w
    BY <1>1, <1>2, <2>1, <2>2, <2>3
  <2>5. Short(a, p, w)
    BY <2>2, <2>4, ShortIs
  <2> QED BY <1>3, <2>2, <2>5, AfterIs DEF Short, Lost
<1>4. CASE type = "bool"
  <2>1. Field(type, value) = Digits(IF value THEN 1 ELSE 0, Width["u8"])
    BY <1>4, FieldIs
  <2>2. PICK w : w \in Nat \ {0} /\ w = Width["u8"]
    BY WidthIs DEF Scalar
  <2>3. Len(Digits(IF value THEN 1 ELSE 0, w)) = w
    <3>1. PICK v \in Nat : v = IF value THEN 1 ELSE 0
      OBVIOUS
    <3>2. Len(Digits(v, w)) = w
      BY <2>2, DigitsAreBytes
    <3> QED BY <3>1, <3>2
  <2>4. Len(p) < w
    BY <1>1, <1>2, <2>1, <2>2, <2>3
  <2>5. Short(a, p, w)
    BY <2>2, <2>4, ShortIs
  <2> QED BY <1>4, <2>2, <2>5, AfterIs DEF Short, Lost
<1>5. CASE type = "string"
  <2>1. PICK n : /\ n \in Nat /\ n = Len(value) /\ n < Place[Width["u32"]] /\ value \in Text
                 /\ Field(type, value) = Digits(n, Width["u32"]) \o value
    BY <1>5, HoldsIs, FieldIs, LenProperties DEF Text
  <2>2. PICK k : k \in Nat /\ k = Width["u32"]
    BY WidthIs DEF Scalar
  <2>3. \/ Short(a, p, k)
        \/ /\ a \o p \in Text /\ Len(a) \in 0..Thrown(a \o p)
           /\ NumberAt(a \o p, Len(a), k) = n
           /\ Len(a \o p) < Len(a) + k + n
    <3>1. /\ a \in Text /\ p \in Text /\ q \in Text
          /\ p \o q = Digits(n, Width["u32"]) \o value /\ q # << >>
      BY <2>1
    <3> QED BY ONLY <2>1, <2>2, <3>1, CountCut
  <2>4. CASE Short(a, p, k)
    BY <1>5, <2>2, <2>4, AfterIs DEF Short, Lost
  <2>5. CASE /\ a \o p \in Text /\ Len(a) \in 0..Thrown(a \o p)
             /\ NumberAt(a \o p, Len(a), k) = n
             /\ Len(a \o p) < Len(a) + k + n
    <3>1. Len(a) \in Nat /\ Len(a \o p) \in Nat
      BY <2>5, LenProperties DEF Text
    <3>2. ~ TextFits(a \o p, Len(a) + k, n)
      BY <2>1, <2>2, <2>5, <3>1 DEF TextFits
    <3> QED BY <1>5, <2>2, <2>5, <3>2, AfterIs DEF Lost
  <2> QED BY <2>3, <2>4, <2>5
<1>6. CASE type \in List
  <2>1. PICK w : w \in Nat \ {0} /\ w = ItemWidth(type) /\ Place[w] \in Nat
    BY <1>6, WidthIs
  <2>2. PICK b : b = FlattenSeq([i \in DOMAIN value |-> Digits(value[i], w)])
    OBVIOUS
  <2>3. PICK n : /\ n \in Nat /\ n = Len(value) /\ n < Place[Width["u32"]]
                 /\ value \in Seq(0..(Place[w] - 1))
                 /\ Field(type, value) = Digits(n, Width["u32"]) \o b
    <3>1. value \in Seq(0..(Place[w] - 1)) /\ Len(value) < Place[Width["u32"]]
      BY <1>6, <2>1, HoldsIs
    <3>2. Field(type, value) = Digits(Len(value), Width["u32"]) \o b
      BY <1>6, <2>1, <2>2, FieldIs
    <3> QED BY <3>1, <3>2, LenProperties
  <2>4. b \in Text /\ Len(b) = n * w
    BY <2>1, <2>2, <2>3, ListIs
  <2>5. PICK k : k \in Nat /\ k = Width["u32"]
    BY WidthIs DEF Scalar
  <2>6. \/ Short(a, p, k)
        \/ /\ a \o p \in Text /\ Len(a) \in 0..Thrown(a \o p)
           /\ NumberAt(a \o p, Len(a), k) = n
           /\ Len(a \o p) < Len(a) + k + n * w
    <3>1. /\ a \in Text /\ p \in Text /\ q \in Text
          /\ p \o q = Digits(n, Width["u32"]) \o b /\ q # << >>
      BY <2>3
    <3> QED BY ONLY <2>3, <2>4, <2>5, <3>1, CountCut
  <2>7. CASE Short(a, p, k)
    BY <1>6, <2>5, <2>7, AfterIs DEF Short, Lost
  <2>8. CASE /\ a \o p \in Text /\ Len(a) \in 0..Thrown(a \o p)
             /\ NumberAt(a \o p, Len(a), k) = n
             /\ Len(a \o p) < Len(a) + k + n * w
    <3>1. Len(a) \in Nat /\ Len(a \o p) \in Nat /\ n * w \in Nat
      BY <2>1, <2>3, <2>8, LenProperties DEF Text
    <3>2. ~ Has(a \o p, Len(a) + k, n * w)
      BY <2>5, <2>8, <3>1 DEF Has
    <3> QED BY <1>6, <2>1, <2>5, <2>8, <3>2, AfterIs DEF Lost
  <2> QED BY <2>6, <2>7, <2>8
<1> QED BY <1>3, <1>4, <1>5, <1>6 DEF Types

-----------------------------------------------------------------------------
(* Messages.                                                               *)

\* A list can be counted through.
Counts(list) == Len(list) \in Nat /\ DOMAIN list = 1..Len(list)

\* Every decoder reads the fields its encoder writes, in their order.
LEMMA WrittenIsRead ==
  ASSUME NEW kind \in Kind
  PROVE  Written(kind) = Read(kind) /\ Counts(Written(kind))
<1>1. kind \in {"RegisterWorker", "WorkerRegistered", "WorkerReport", "CoordLoad",
                "WorkerLoadResult", "CoordEvict", "WorkerEvictResult", "RegisterModel",
                "RegisterDomain", "ControlLoad", "ControlLoadReply", "ControlState",
                "WorkerHello"}
  BY DEF Kind, KindNumber
<1>2. WrittenReport = ReadReport /\ Counts(WrittenReport)
  BY DEF WrittenReport, ReadReport, Counts
<1>3. Written(kind) = Read(kind)
  BY <1>1, <1>2 DEF Written, Read
<1>4. Counts(Written(kind))
  <2>1. CASE kind = "RegisterWorker"
    BY <2>1 DEF Written, Counts
  <2>2. CASE kind = "WorkerRegistered"
    BY <2>2 DEF Written, Counts
  <2>3. CASE kind = "WorkerHello"
    BY <2>3 DEF Written, Counts
  <2>4. CASE kind = "CoordLoad"
    BY <2>4 DEF Written, Counts
  <2>5. CASE kind = "WorkerLoadResult"
    BY <2>5 DEF Written, Counts
  <2>6. CASE kind = "ControlLoadReply"
    BY <2>6 DEF Written, Counts
  <2>7. CASE kind = "CoordEvict"
    BY <2>7 DEF Written, Counts
  <2>8. CASE kind = "WorkerEvictResult"
    BY <2>8 DEF Written, Counts
  <2>9. CASE kind = "RegisterModel"
    BY <2>9 DEF Written, Counts
  <2>10. CASE kind = "RegisterDomain"
    BY <2>10 DEF Written, Counts
  <2>11. CASE kind = "ControlLoad"
    BY <2>11 DEF Written, Counts
  <2>12. CASE kind = "ControlState"
    BY <2>12 DEF Written, Counts
  <2>13. CASE kind = "WorkerReport"
    BY <1>2, <2>13 DEF Written
  <2> QED BY <1>1, <2>1, <2>2, <2>3, <2>4, <2>5, <2>6, <2>7,
    <2>8, <2>9, <2>10, <2>11, <2>12, <2>13
<1> QED BY <1>3, <1>4

\* Every field has one of the types.
LEMMA FieldTypeIs == \A field : FieldType(field) \in Types
BY DEF FieldType, Types, Scalar, List

\* run[n] is the first n fields of a message's payload.
Laid(m, run) ==
  LET fields  == Written(m.kind)
      type(n) == FieldType(fields[n])
      body(n) == m.body[fields[n]]
  IN  /\ fields = Read(m.kind) /\ Len(fields) \in Nat /\ DOMAIN fields = 1..Len(fields)
      /\ run \in [0..Len(fields) -> Text] /\ run[0] = << >>
      /\ \A n \in 1..Len(fields) :
           /\ run[n] = run[n - 1] \o Field(type(n), body(n))
           /\ type(n) \in Types /\ Holds(type(n), body(n)) /\ Field(type(n), body(n)) \in Text
      /\ \A n \in 0..Len(fields) : \E rest \in Text : Payload(m) = run[n] \o rest
      /\ Payload(m) = run[Len(fields)] /\ Payload(m) \in Text

\* The payload of a message is laid out field by field.
LEMMA LaidOut ==
  ASSUME NEW m, Encodable(m)
  PROVE  \E run : Laid(m, run)
<1>1. PICK fields : fields = Written(m.kind)
  OBVIOUS
<1>2. fields = Read(m.kind) /\ Counts(fields)
  BY <1>1, WrittenIsRead DEF Encodable
<1>3. PICK len \in Nat : len = Len(fields) /\ DOMAIN fields = 1..len
  BY <1>2 DEF Counts
<1> DEFINE type(n) == FieldType(fields[n])
           body(n) == m.body[fields[n]]
           parts == [n \in 1..len |-> Field(type(n), body(n))]
<1>4. \A n \in 1..len : type(n) \in Types /\ Holds(type(n), body(n))
  BY <1>1, <1>3, FieldTypeIs DEF Encodable
<1> HIDE DEF type, body
<1>5. ASSUME NEW n \in 1..len PROVE Field(type(n), body(n)) \in Text
  <2>1. << >> \in Text
    BY EmptySeq DEF Text
  <2>2. Found(type(n), body(n), << >>, << >>)
    <3>1. PICK t, v : t = type(n) /\ v = body(n)
      OBVIOUS
    <3>2. t \in Types /\ Holds(t, v)
      BY <1>4, <3>1
    <3>3. Found(t, v, << >>, << >>)
      BY ONLY <2>1, <3>2, FieldRead
    <3> QED BY <3>1, <3>3
  <2> QED BY <2>2 DEF Found
<1>6. parts \in Seq(Text) /\ Len(parts) = len /\ \A n \in 1..len : parts[n] = Field(type(n), body(n))
  BY <1>5
<1>7. Payload(m) = FlattenSeq(parts)
  BY <1>1, <1>3 DEF Payload, type, body
<1> HIDE DEF parts
<1>8. PICK run : Joins(parts, run) /\ FlattenSeq(parts) = run[len]
  BY <1>6, FlattenBySteps
<1>9. \A n \in 0..len : \E rest \in Text : run[len] = run[n] \o rest
  BY <1>6, <1>8, JoinsSplit
<1>10. /\ run \in [0..len -> Text] /\ run[0] = << >>
       /\ \A n \in 1..len : run[n] = run[n - 1] \o Field(type(n), body(n))
  BY <1>6, <1>8 DEF Joins
<1>11. \A n \in 0..len : \E rest \in Text : Payload(m) = run[n] \o rest
  BY <1>7, <1>8, <1>9
<1>12. Payload(m) \in Text
  <2>1. len \in 0..len
    OBVIOUS
  <2> QED BY <1>7, <1>8, <1>10, <2>1
<1>13. Laid(m, run)
  BY <1>1, <1>2, <1>3, <1>4, <1>5, <1>7, <1>8, <1>10, <1>11, <1>12 DEF Laid, type, body
<1> QED BY <1>13

\* The number at a place in a byte string.
LEMMA NumberAtIs ==
  ASSUME NEW bytes \in Text, NEW at \in Nat, NEW w \in Nat, Has(bytes, at, w)
  PROVE  NumberAt(bytes, at, w) \in Nat
<1>1. PICK s : s = SubSeq(bytes, at + 1, at + w)
  OBVIOUS
<1>2. \A i \in (at + 1)..(at + w) : bytes[i] \in Byte
  <2>1. \A i \in 1..Len(bytes) : bytes[i] \in Byte
    BY ElementOfSeq DEF Text
  <2>2. Len(bytes) \in Nat
    BY LenProperties DEF Text
  <2> QED BY <2>1, <2>2 DEF Has
<1>3. s \in Seq(Byte)
  <2>1. at + 1 \in Int /\ at + w \in Int
    OBVIOUS
  <2> QED BY <1>1, <1>2, <2>1, SubSeqProperties
<1>4. s \in Seq(Nat)
  <2>1. Byte \subseteq Nat
    BY WireAssumption DEF Byte
  <2> QED BY <1>3, <2>1, SeqMonotonic
<1>5. PICK value \in [0..Len(s) -> Nat] : Number(s) = value[Len(s)]
  BY <1>4, NumberBySteps
<1>6. Len(s) \in 0..Len(s)
  BY <1>4, LenProperties
<1>7. Number(s) \in Nat
  BY <1>5, <1>6
<1> QED BY <1>1, <1>7 DEF NumberAt

\* A decoder never goes past the position behind the end.
LEMMA AfterStays ==
  ASSUME NEW bytes \in Text, NEW type \in Types, NEW at \in 0..Thrown(bytes)
  PROVE  After(type, bytes)[at] \in 0..Thrown(bytes)
<1>1. PICK len \in Nat : len = Len(bytes) /\ Thrown(bytes) = len + 1 /\ at \in Nat
  <2>1. Len(bytes) \in Nat
    BY LenProperties DEF Text
  <2> QED BY <2>1 DEF Thrown
<1>2. ASSUME NEW w \in Nat, Has(bytes, at, w) PROVE at + w <= len /\ NumberAt(bytes, at, w) \in Nat
  BY <1>1, <1>2, NumberAtIs DEF Has
<1>3. CASE type \in Scalar
  <2>1. PICK w \in Nat : w = Width[type]
    BY <1>3, WidthIs
  <2> QED BY <1>1, <1>2, <1>3, <2>1, AfterIs
<1>4. CASE type = "bool"
  <2>1. PICK w \in Nat : w = Width["u8"]
    BY WidthIs DEF Scalar
  <2> QED BY <1>1, <1>2, <1>4, <2>1, AfterIs
<1>5. PICK k \in Nat : k = Width["u32"]
  BY WidthIs DEF Scalar
<1>6. CASE type = "string"
  <2>1. PICK n : n = NumberAt(bytes, at, k)
    OBVIOUS
  <2>2. CASE Has(bytes, at, k) /\ TextFits(bytes, at + k, n)
    <3>1. n \in Nat /\ at + k + n <= len
      BY <1>1, <1>2, <2>1, <2>2 DEF TextFits
    <3>2. After(type, bytes)[at] = at + k + n
      BY <1>5, <1>6, <2>1, <2>2, AfterIs
    <3> QED BY <1>1, <3>1, <3>2
  <2>3. CASE ~ (Has(bytes, at, k) /\ TextFits(bytes, at + k, n))
    BY <1>1, <1>5, <1>6, <2>1, <2>3, AfterIs
  <2> QED BY <2>2, <2>3
<1>7. CASE type \in List
  <2>1. PICK n : n = NumberAt(bytes, at, k)
    OBVIOUS
  <2>2. PICK w \in Nat : w = ItemWidth(type)
    BY <1>7, WidthIs
  <2>3. CASE Has(bytes, at, k) /\ n <= MaxCount /\ Has(bytes, at + k, n * w)
    <3>1. n \in Nat /\ at + k + n * w <= len /\ n * w \in Nat
      BY <1>1, <1>2, <2>1, <2>3 DEF Has
    <3>2. After(type, bytes)[at] = at + k + n * w
      BY <1>5, <1>7, <2>1, <2>2, <2>3, AfterIs
    <3> QED BY <1>1, <3>1, <3>2
  <2>4. CASE ~ (Has(bytes, at, k) /\ n <= MaxCount /\ Has(bytes, at + k, n * w))
    BY <1>1, <1>5, <1>7, <2>1, <2>2, <2>4, AfterIs
  <2> QED BY <2>3, <2>4
<1> QED BY <1>3, <1>4, <1>6, <1>7 DEF Types

Behind(fields, bytes, f) ==
  f = [n \in 0..Len(fields) |->
         IF n = 0 THEN 0 ELSE After(FieldType(fields[n]), bytes)[f[n - 1]]]

\* A decoder goes from field to field.
LEMMA PositionsBySteps ==
  ASSUME NEW kind \in Kind, NEW bytes \in Text, NEW at, at = Positions(kind, bytes),
         NEW fields, fields = Read(kind)
  PROVE  /\ at[0] = 0
         /\ \A n \in 1..Len(fields) : at[n] = After(FieldType(fields[n]), bytes)[at[n - 1]]
<1>1. PICK len \in Nat : len = Len(fields)
  BY WrittenIsRead DEF Counts
<1> DEFINE V == 0..Thrown(bytes)
           step == [n \in Nat |-> [x \in V |-> After(FieldType(fields[n]), bytes)[x]]]
<1>2. step \in [Nat -> [V -> V]]
  <2>1. ASSUME NEW n \in Nat, NEW x \in V PROVE After(FieldType(fields[n]), bytes)[x] \in V
    BY FieldTypeIs, AfterStays
  <2> HIDE DEF V
  <2> QED BY <2>1
<1>3. 0 \in V
  <2>1. Len(bytes) \in Nat
    BY LenProperties DEF Text
  <2> QED BY <2>1 DEF Thrown
<1>4. \A n \in 1..len, x \in V : step[n][x] = After(FieldType(fields[n]), bytes)[x]
  OBVIOUS
<1> HIDE DEF V, step
<1>5. PICK g : Runs(V, 0, step, len, g)
  BY <1>2, <1>3, RunsExist, Zenon
<1>6. g \in [0..len -> V] /\ g[0] = 0 /\ \A n \in 1..len : g[n] = step[n][g[n - 1]]
  BY <1>5 DEF Runs
<1>7. ASSUME NEW n \in 1..len PROVE g[n] = After(FieldType(fields[n]), bytes)[g[n - 1]]
  <2>1. n - 1 \in 0..len
    OBVIOUS
  <2>2. g[n - 1] \in V
    BY <1>6, <2>1
  <2> QED BY <1>4, <1>6, <2>2
<1>8. Behind(fields, bytes, g)
  BY <1>1, <1>6, <1>7 DEF Behind
<1>9. at = CHOOSE f : Behind(fields, bytes, f)
  BY DEF Positions, Behind
<1>10. Behind(fields, bytes, at)
  BY <1>8, <1>9
<1>11. at = [n \in 0..len |->
               IF n = 0 THEN 0 ELSE After(FieldType(fields[n]), bytes)[at[n - 1]]]
  BY <1>1, <1>10 DEF Behind
<1>12. at[0] = 0
  BY <1>11
<1>13. \A n \in 1..len : at[n] = After(FieldType(fields[n]), bytes)[at[n - 1]]
  BY <1>11
<1> QED BY <1>1, <1>12, <1>13

\* The decoder is behind n fields where the encoder was.
Follows(m, run, n) == Positions(m.kind, Payload(m))[n] = Len(run[n])

\* Each field of a payload is found where it was written.
LEMMA FieldsFound ==
  ASSUME NEW m, Encodable(m), NEW run, Laid(m, run), NEW n, n \in 0..Len(Written(m.kind))
  PROVE  Follows(m, run, n)
<1>0. PICK fields, at : fields = Written(m.kind) /\ at = Positions(m.kind, Payload(m))
  OBVIOUS
<1>1. PICK len \in Nat : len = Len(fields)
  BY <1>0 DEF Laid
<1>2. PICK whole : whole = Payload(m) /\ whole \in Text
  BY DEF Laid
<1>3. at[0] = 0 /\ \A i \in 1..len : at[i] = After(FieldType(fields[i]), whole)[at[i - 1]]
  <2>1. fields = Read(m.kind) /\ m.kind \in Kind
    BY <1>0 DEF Laid, Encodable
  <2> QED BY <1>0, <1>1, <1>2, <2>1, PositionsBySteps
<1> DEFINE N == {i \in Nat : i <= len => at[i] = Len(run[i])}
<1>4. 0 \in N
  <2>1. run[0] = << >>
    BY DEF Laid
  <2> QED BY <1>3, <2>1, EmptySeq
<1>5. ASSUME NEW i \in N PROVE i + 1 \in N
  <2>1. ASSUME i + 1 <= len PROVE at[i + 1] = Len(run[i + 1])
    <3>1. PICK j : j \in 1..len /\ j = i + 1 /\ j - 1 = i /\ i \in 0..len /\ j \in 0..len
      BY <2>1
    <3>2. at[i] = Len(run[i])
      BY <2>1
    <3>3. PICK type, value : type = FieldType(fields[j]) /\ value = m.body[fields[j]]
      OBVIOUS
    <3>4. /\ type \in Types /\ Holds(type, value) /\ Field(type, value) \in Text
          /\ run[j] = run[i] \o Field(type, value)
      BY <1>0, <1>1, <3>1, <3>3 DEF Laid
    <3>5. PICK rest : rest \in Text /\ whole = run[j] \o rest
      BY <1>0, <1>1, <1>2, <3>1 DEF Laid
    <3>6. PICK a, d : a = run[i] /\ a \in Text /\ d = Field(type, value) /\ d \in Text
      BY <1>0, <1>1, <3>1, <3>4 DEF Laid
    <3>7. whole = a \o (d \o rest)
      <4>1. (a \o d) \o rest = a \o (d \o rest)
        <5>1. a \in Text /\ d \in Text /\ rest \in Text
          BY <3>5, <3>6
        <5>2. Again(a, d, rest)
          BY ONLY <5>1, AgainIs
        <5> QED BY ONLY <5>2 DEF Again
      <4> QED BY ONLY <3>4, <3>5, <3>6, <4>1
    <3>8. Found(type, value, a, rest)
      BY ONLY <3>4, <3>5, <3>6, FieldRead
    <3>9. After(type, whole)[Len(a)] = Len(a) + Len(d)
      BY ONLY <3>6, <3>7, <3>8 DEF Found
    <3>10. Len(run[j]) = Len(a) + Len(d)
      BY ONLY <3>4, <3>6, JoinIs
    <3>11. at[j] = After(type, whole)[at[i]]
      BY <1>3, <3>1, <3>3
    <3> QED BY ONLY <3>1, <3>2, <3>6, <3>9, <3>10, <3>11
  <2> QED BY <2>1
<1> HIDE DEF N
<1>6. N = Nat
  <2>1. N \in SUBSET Nat
    BY DEF N
  <2> QED BY <1>4, <1>5, <2>1, ByNaturals
<1> QED BY <1>0, <1>1, <1>6 DEF N, Follows

\* A payload decodes to the body it was made from.
LEMMA PayloadDecodes ==
  ASSUME NEW m, Encodable(m)
  PROVE  /\ Payload(m) \in Text
         /\ Decodes(m.kind, Payload(m)) /\ Decode(m.kind, Payload(m)) = m.body
<1>1. PICK run : Laid(m, run)
  BY LaidOut
<1>2. PICK fields : fields = Written(m.kind)
  OBVIOUS
<1>3. PICK len \in Nat : len = Len(fields) /\ DOMAIN fields = 1..len /\ fields = Read(m.kind)
  BY <1>1, <1>2 DEF Laid
<1>4. PICK at : at = Positions(m.kind, Payload(m))
  OBVIOUS
<1>5. PICK whole : whole = Payload(m) /\ whole \in Text
  BY <1>1 DEF Laid
<1>6. \A n \in 0..len : at[n] = Len(run[n])
  <2>1. ASSUME NEW n \in 0..len PROVE at[n] = Len(run[n])
    <3>1. Encodable(m) /\ n \in 0..Len(Written(m.kind))
      BY <1>2, <1>3
    <3>2. Follows(m, run, n)
      BY ONLY <1>1, <3>1, FieldsFound
    <3> QED BY <1>4, <3>2 DEF Follows
  <2> QED BY <2>1
<1>7. Decodes(m.kind, whole)
  <2>1. run[len] = whole /\ Len(whole) \in Nat
    BY <1>1, <1>2, <1>3, <1>5, LenProperties DEF Laid, Text
  <2>2. at[len] # Thrown(whole)
    BY <1>6, <2>1 DEF Thrown
  <2> QED BY <1>3, <1>4, <1>5, <2>2 DEF Decodes
<1>8. ASSUME NEW n \in 1..len
      PROVE  ValueAt(FieldType(fields[n]), whole, at[n - 1]) = m.body[fields[n]]
  <2>1. PICK j : j \in 0..len /\ j = n - 1 /\ n \in 0..len
    OBVIOUS
  <2>2. PICK type, value : type = FieldType(fields[n]) /\ value = m.body[fields[n]]
    OBVIOUS
  <2>3. /\ type \in Types /\ Holds(type, value) /\ Field(type, value) \in Text
        /\ run[n] = run[j] \o Field(type, value)
    BY <1>1, <1>2, <1>3, <2>1, <2>2 DEF Laid
  <2>4. PICK rest : rest \in Text /\ whole = run[n] \o rest
    BY <1>1, <1>2, <1>3, <1>5, <2>1 DEF Laid
  <2>5. PICK a, d : a = run[j] /\ a \in Text /\ d = Field(type, value) /\ d \in Text
    BY <1>1, <1>2, <1>3, <2>1, <2>3 DEF Laid
  <2>6. whole = a \o (d \o rest)
    <3>1. (a \o d) \o rest = a \o (d \o rest)
      <4>1. a \in Text /\ d \in Text /\ rest \in Text
        BY <2>4, <2>5
      <4>2. Again(a, d, rest)
        BY ONLY <4>1, AgainIs
      <4> QED BY ONLY <4>2 DEF Again
    <3> QED BY ONLY <2>3, <2>4, <2>5, <3>1
  <2>7. Found(type, value, a, rest)
    BY ONLY <2>3, <2>4, <2>5, FieldRead
  <2>8. ValueAt(type, whole, Len(a)) = value
    BY ONLY <2>5, <2>6, <2>7 DEF Found
  <2> QED BY <1>6, <2>1, <2>2, <2>5, <2>8
<1>9. Decode(m.kind, whole) = m.body
  <2> DEFINE names == {Read(m.kind)[n] : n \in DOMAIN Read(m.kind)}
             place(f) == CHOOSE n \in DOMAIN Read(m.kind) : Read(m.kind)[n] = f
             found(f) == ValueAt(FieldType(f), whole, Positions(m.kind, whole)[place(f) - 1])
  <2>1. ASSUME NEW f \in names PROVE found(f) = m.body[f]
    <3>1. place(f) \in DOMAIN fields /\ fields[place(f)] = f
      BY <1>3
    <3> HIDE DEF place
    <3> QED BY <1>3, <1>4, <1>5, <1>8, <3>1
  <2>2. m.body = [f \in names |-> m.body[f]]
    BY <1>2, <1>3 DEF Encodable
  <2>3. Decode(m.kind, whole) = [f \in names |-> found(f)]
    BY ONLY DEF Decode
  <2> HIDE DEF names, found
  <2>4. [f \in names |-> found(f)] = [f \in names |-> m.body[f]]
    BY <2>1
  <2> QED BY ONLY <2>2, <2>3, <2>4
<1> QED BY <1>5, <1>7, <1>9

\* The first of two byte strings.
LEMMA FirstIs ==
  ASSUME NEW x, NEW y, x \in Text, y \in Text
  PROVE  SubSeq(x \o y, 1, Len(x)) = x
<1>1. << >> \in Text /\ << >> \o (x \o y) = x \o y
  BY JoinNothing, JoinIs
<1>2. SubSeq(<< >> \o (x \o y), Len(<< >>) + 1, Len(<< >>) + Len(x)) = x
  BY <1>1, PieceIs
<1>3. Len(<< >>) + 1 = 1 /\ Len(<< >>) + Len(x) = Len(x)
  BY LenProperties DEF Text
<1> QED BY ONLY <1>1, <1>2, <1>3

\* Three byte strings cut short within the second.
Within(a, d, rest, c) ==
  \E p, q : /\ p \in Text /\ q \in Text /\ p \o q = d /\ q # << >>
            /\ SubSeq(a \o (d \o rest), 1, c) = a \o p

\* A cut within the second leaves a piece of it behind the first.
LEMMA WithinIs ==
  ASSUME NEW a, NEW d, NEW rest, NEW c, a \in Text, d \in Text, rest \in Text,
         c \in Nat, Len(a) <= c, c < Len(a) + Len(d)
  PROVE  Within(a, d, rest, c)
<1>1. Len(a) \in Nat /\ Len(d) \in Nat
  BY LenProperties DEF Text
<1>2. PICK k : k \in 0..Len(d) /\ k = c - Len(a) /\ k < Len(d)
  BY <1>1
<1>3. PICK p, q : /\ p \in Text /\ q \in Text /\ p \o q = d
                  /\ Len(p) = k /\ Len(q) = Len(d) - k
  <2>1. d \in Text
    OBVIOUS
  <2>2. PICK p, q : p = SubSeq(d, 1, k) /\ q = SubSeq(d, k + 1, Len(d))
    OBVIOUS
  <2>3. /\ p \in Text /\ q \in Text /\ p \o q = d
        /\ Len(p) = k /\ Len(q) = Len(d) - k
    BY ONLY <1>2, <2>1, <2>2, CutIs
  <2> QED BY ONLY <2>3
<1>4. q # << >>
  BY <1>1, <1>2, <1>3, EmptySeq
<1>5. a \o (d \o rest) = (a \o p) \o (q \o rest)
  <2>1. Inside(a, p, q, << >>, rest)
    <3>1. << >> \in Text /\ a \in Text /\ rest \in Text
      BY EmptySeq DEF Text
    <3> QED BY ONLY <1>3, <3>1, InsideIs
  <2>2. q \o << >> = q /\ << >> \o rest = rest
    BY <1>3, JoinNothing
  <2> QED BY ONLY <1>3, <2>1, <2>2 DEF Inside
<1>6. a \o p \in Text /\ Len(a \o p) = Len(a) + Len(p) /\ q \o rest \in Text
  BY <1>3, JoinIs, Zenon
<1>7. Len(a \o p) = c
  BY <1>1, <1>2, <1>3, <1>6
<1>8. SubSeq((a \o p) \o (q \o rest), 1, Len(a \o p)) = a \o p
  BY ONLY <1>6, FirstIs
<1> QED BY ONLY <1>3, <1>4, <1>5, <1>7, <1>8 DEF Within

\* A payload that was cut short does not decode.
LEMMA PayloadCut ==
  ASSUME NEW m, Encodable(m), NEW c \in 0..(Len(Payload(m)) - 1)
  PROVE  ~ Decodes(m.kind, SubSeq(Payload(m), 1, c))
<1>1. PICK run : Laid(m, run)
  BY LaidOut
<1>2. PICK fields : fields = Written(m.kind)
  OBVIOUS
<1>3. PICK len \in Nat : len = Len(fields) /\ fields = Read(m.kind)
  BY <1>1, <1>2 DEF Laid
<1>4. PICK whole : whole = Payload(m) /\ whole \in Text /\ Len(whole) \in Nat
  BY <1>1, LenProperties DEF Laid, Text
<1>5. PICK cut : cut = SubSeq(whole, 1, c) /\ cut \in Text /\ Len(cut) = c
  <2>1. c \in 0..Len(whole)
    BY <1>4
  <2> QED BY <1>4, <2>1, CutIs
<1>6. PICK at : at = Positions(m.kind, cut)
  OBVIOUS
<1>7. at[0] = 0 /\ \A i \in 1..len : at[i] = After(FieldType(fields[i]), cut)[at[i - 1]]
  <2>1. m.kind \in Kind
    BY DEF Encodable
  <2> QED BY <1>3, <1>5, <1>6, <2>1, PositionsBySteps
<1>8. \A i \in 0..len : run[i] \in Text /\ Len(run[i]) \in Nat
  BY <1>1, <1>2, <1>3, LenProperties DEF Laid, Text
<1> DEFINE Stops(i) == at[i] = IF Len(run[i]) <= c THEN Len(run[i]) ELSE Thrown(cut)
           N == {i \in Nat : i <= len => Stops(i)}
<1>9. 0 \in N
  <2>1. run[0] = << >>
    BY <1>1 DEF Laid
  <2>2. Len(run[0]) = 0
    BY <2>1, EmptySeq
  <2> QED BY <1>7, <2>2
<1>10. ASSUME NEW i \in N PROVE i + 1 \in N
  <2>1. ASSUME i + 1 <= len PROVE Stops(i + 1)
    <3>1. PICK j : j \in 1..len /\ j = i + 1 /\ j - 1 = i /\ i \in 0..len /\ j \in 0..len
      BY <2>1
    <3>2. Stops(i)
      BY <2>1
    <3>3. PICK type, value : type = FieldType(fields[j]) /\ value = m.body[fields[j]]
      OBVIOUS
    <3>4. /\ type \in Types /\ Holds(type, value) /\ Field(type, value) \in Text
          /\ run[j] = run[i] \o Field(type, value)
      BY <1>1, <1>2, <1>3, <3>1, <3>3 DEF Laid
    <3>5. PICK rest : rest \in Text /\ whole = run[j] \o rest
      BY <1>1, <1>2, <1>3, <1>4, <3>1 DEF Laid
    <3>6. PICK a, d : /\ a = run[i] /\ a \in Text /\ d = Field(type, value) /\ d \in Text
                      /\ Len(a) \in Nat
      BY <1>8, <3>1, <3>4
    <3>7. whole = a \o (d \o rest)
      <4>1. (a \o d) \o rest = a \o (d \o rest)
        <5>1. a \in Text /\ d \in Text /\ rest \in Text
          BY <3>5, <3>6
        <5>2. Again(a, d, rest)
          BY ONLY <5>1, AgainIs
        <5> QED BY ONLY <5>2 DEF Again
      <4> QED BY ONLY <3>4, <3>5, <3>6, <4>1
    <3>8. Len(run[j]) = Len(a) + Len(d) /\ Len(d) \in Nat
      BY ONLY <3>4, <3>6, JoinIs
    <3>9. at[j] = After(type, cut)[at[i]]
      BY <1>7, <3>1, <3>3
    <3>10. at[i] = IF Len(a) <= c THEN Len(a) ELSE Thrown(cut)
      BY ONLY <3>2, <3>6
    <3> HIDE DEF Stops
    <3>11. CASE Len(a) > c
      <4>1. c \in Nat /\ ~ (Len(a) <= c) /\ ~ (Len(run[j]) <= c)
        BY <3>6, <3>8, <3>11
      <4>2. After(type, cut)[Thrown(cut)] = Thrown(cut)
        BY ONLY <1>5, <3>4, ThrownStays
      <4> QED BY ONLY <3>1, <3>9, <3>10, <4>1, <4>2 DEF Stops
    <3>12. CASE Len(a) <= c /\ c < Len(a) + Len(d)
      <4>1. c \in Nat /\ ~ (Len(run[j]) <= c)
        BY <3>6, <3>8, <3>12
      <4>2. Within(a, d, rest, c)
        BY ONLY <3>5, <3>6, <3>12, <4>1, WithinIs
      <4>3. PICK p, q : /\ p \in Text /\ q \in Text /\ p \o q = d /\ q # << >>
                        /\ cut = a \o p
        BY ONLY <1>5, <3>7, <4>2 DEF Within
      <4>4. Lost(type, a, p)
        BY ONLY <3>4, <3>6, <4>3, FieldCut
      <4> QED BY ONLY <3>1, <3>9, <3>10, <3>12, <4>1, <4>3, <4>4 DEF Stops, Lost
    <3>13. CASE Len(a) + Len(d) <= c
      <4>1. Len(a) <= c /\ Len(run[j]) <= c /\ c \in Nat
        BY <3>6, <3>8, <3>13
      <4>2. PICK x : x = run[j] /\ x \in Text
        BY <1>8, <3>1
      <4>3. Len(whole) = Len(x) + Len(rest) /\ Len(rest) \in Nat /\ Len(x) \in Nat
        BY ONLY <3>5, <4>2, JoinIs
      <4>4. c \in Len(x)..(Len(x) + Len(rest))
        BY <1>4, <4>1, <4>2, <4>3
      <4>5. PICK s : s \in Text /\ SubSeq(x \o rest, 1, c) = x \o s
        <5>1. x \in Text /\ rest \in Text
          BY <3>5, <4>2
        <5> QED BY ONLY <4>4, <5>1, BeginsWith, Zenon
      <4>6. cut = a \o (d \o s)
        <5>1. (a \o d) \o s = a \o (d \o s)
          <6>1. a \in Text /\ d \in Text /\ s \in Text
            BY <3>6, <4>5
          <6>2. Again(a, d, s)
            BY ONLY <6>1, AgainIs
          <6> QED BY ONLY <6>2 DEF Again
        <5> QED BY ONLY <1>5, <3>4, <3>5, <3>6, <4>2, <4>5, <5>1
      <4>7. Found(type, value, a, s)
        BY ONLY <3>4, <3>6, <4>5, FieldRead
      <4>8. After(type, cut)[Len(a)] = Len(a) + Len(d)
        BY ONLY <3>6, <4>6, <4>7 DEF Found
      <4> QED BY ONLY <3>1, <3>8, <3>9, <3>10, <4>1, <4>8 DEF Stops
    <3>14. Len(a) > c \/ (Len(a) <= c /\ c < Len(a) + Len(d)) \/ Len(a) + Len(d) <= c
      BY <3>6, <3>8
    <3> QED BY <3>11, <3>12, <3>13, <3>14
  <2> HIDE DEF Stops
  <2> QED BY <2>1
<1> HIDE DEF N, Stops
<1>11. N = Nat
  <2>1. N \in SUBSET Nat
    BY DEF N
  <2> QED BY <1>9, <1>10, <2>1, ByNaturals
<1>12. Stops(len)
  BY <1>11 DEF N
<1>13. run[len] = whole
  BY <1>1, <1>2, <1>3, <1>4 DEF Laid
<1>14. at[len] = Thrown(cut)
  BY <1>4, <1>12, <1>13 DEF Stops
<1> QED BY <1>3, <1>4, <1>5, <1>6, <1>14 DEF Decodes

-----------------------------------------------------------------------------
(* Frames.                                                                 *)

\* The numbers of the kinds are numbers that a u32 holds, each its own.
LEMMA KindNumberIs ==
  /\ \A kind \in Kind : KindNumber[kind] \in Nat /\ KindNumber[kind] < Place[Width["u32"]]
  /\ \A kind \in Kind, other \in Kind : KindNumber[kind] = KindNumber[other] => kind = other
<1>1. \A kind \in Kind : KindNumber[kind] \in Nat
  BY DEF Kind, KindNumber
<1>2. \A kind \in Kind, other \in Kind : KindNumber[kind] = KindNumber[other] => kind = other
  BY DEF Kind, KindNumber
<1> QED BY <1>1, <1>2, KindAssumption

\* A set of one element is handed over as that element.
LEMMA OneToSeq == \A x : SetToSeq({x}) = <<x>>
<1>1. SUFFICES ASSUME NEW x PROVE SetToSeq({x}) = <<x>>
  OBVIOUS
<1>2. Cardinality({x}) = 1
  BY FS_Singleton
<1>3. PICK f : f = SetToSeq({x})
  OBVIOUS
<1>4. <<x>> \in [1..1 -> {x}] /\ IsInjective(<<x>>)
  BY DEF IsInjective
<1>5. f = CHOOSE g \in [1..1 -> {x}] : IsInjective(g)
  BY <1>2, <1>3 DEF SetToSeq
<1>6. f \in [1..1 -> {x}]
  BY <1>4, <1>5
<1>7. f = <<x>>
  BY <1>6
<1> QED BY <1>3, <1>7

\* A frame is decoded to the message it was made of.
LEMMA FrameIs ==
  ASSUME NEW m, Encodable(m), NEW frame, frame = FrameOf(m)
  PROVE  /\ frame \in Text /\ Len(frame) > 0
         /\ LET kinds == {kind \in FrameKinds(frame) : Decodes(kind, FrameBody(frame))}
            IN  /\ kinds # {}
                /\ SetToSeq({[kind |-> kind, body |-> Decode(kind, FrameBody(frame))] :
                               kind \in kinds}) = <<m>>
<1>1. PICK v : v \in Nat /\ v = KindNumber[m.kind] /\ v < Place[Width["u32"]] /\ m.kind \in Kind
  BY KindNumberIs DEF Encodable
<1>2. PICK w : w \in Nat \ {0} /\ w = Width["u32"]
  BY WidthIs DEF Scalar
<1>3. PICK d : d = Digits(v, w) /\ d \in Text /\ Len(d) = w
  BY <1>1, <1>2, DigitsAreBytes DEF Text
<1>4. PICK body : body = Payload(m) /\ body \in Text
  BY PayloadDecodes
<1>5. frame = d \o body
  BY <1>1, <1>2, <1>3, <1>4 DEF FrameOf
<1>6. /\ frame \in Text /\ Len(frame) = w + Len(body)
      /\ Len(body) \in Nat /\ Len(frame) \in Nat
  <2>1. d \o body \in Text /\ Len(d \o body) = Len(d) + Len(body) /\ Len(body) \in Nat
    BY ONLY <1>3, <1>4, JoinIs
  <2> QED BY <1>2, <1>3, <1>5, <2>1
<1>7. << >> \in Text /\ << >> \o frame = frame /\ body \o << >> = body /\ Len(<< >>) = 0
  BY <1>4, <1>6, JoinNothing, EmptySeq
<1>8. NumberAt(frame, 0, w) = v /\ Has(frame, 0, w)
  <2>1. ReadsBack(<< >>, body, v, w)
    <3>1. v < Place[w] /\ w \in Nat
      BY <1>1, <1>2
    <3> QED BY ONLY <1>1, <1>4, <1>7, <3>1, ReadsBackIs
  <2>2. NumberAt(frame, 0, w) = v
    BY ONLY <1>3, <1>5, <1>7, <2>1 DEF ReadsBack
  <2> QED BY <1>2, <1>6, <2>2 DEF Has
<1>9. FrameKinds(frame) = {m.kind}
  BY <1>1, <1>2, <1>8, KindNumberIs DEF FrameKinds
<1>10. FrameBody(frame) = body
  <2>1. SubSeq(d \o (body \o << >>), Len(d) + 1, Len(d) + Len(body)) = body
    <3>1. d \in Text /\ body \in Text /\ << >> \in Text
      BY <1>3, <1>4, <1>7
    <3> QED BY ONLY <3>1, PieceIs, Zenon
  <2> QED BY ONLY <1>2, <1>3, <1>5, <1>6, <1>7, <2>1 DEF FrameBody
<1>11. Decodes(m.kind, body) /\ Decode(m.kind, body) = m.body
  BY <1>4, PayloadDecodes
<1>12. {kind \in FrameKinds(frame) : Decodes(kind, FrameBody(frame))} = {m.kind}
  BY <1>9, <1>10, <1>11
<1>13. [kind |-> m.kind, body |-> m.body] = m
  BY DEF Encodable
<1>14. {[kind |-> kind, body |-> Decode(kind, body)] : kind \in {m.kind}} = {m}
  BY <1>11, <1>13
<1>15. Len(frame) > 0
  BY <1>2, <1>6
<1>16. SetToSeq({[kind |-> kind, body |-> Decode(kind, FrameBody(frame))] : kind \in {m.kind}})
         = <<m>>
  BY ONLY <1>10, <1>14, OneToSeq
<1>17. {m.kind} # {}
  OBVIOUS
<1> QED BY ONLY <1>6, <1>12, <1>15, <1>16, <1>17

\* A frame that fits is written behind its length, and the length is read back.
LEMMA FramedIs ==
  ASSUME NEW frame, frame \in Text, Fits(frame)
  PROVE  /\ Framed(frame) \in Text /\ Framed(frame) # << >>
         /\ Digits(Len(frame), Header) \in Text /\ Len(Digits(Len(frame), Header)) = Header
         /\ Header \in Nat \ {0} /\ Number(Digits(Len(frame), Header)) = Len(frame)
<1>1. Len(frame) \in Nat /\ Len(frame) <= MaxFrame
  BY LenProperties DEF Text, Fits
<1>2. Header \in Nat \ {0} /\ Place[Header] \in Nat /\ Header = Width["u32"]
  BY WidthIs DEF Header, Scalar
<1>3. Len(frame) < Place[Header]
  BY <1>1, <1>2, FramingAssumption
<1>4. PICK d : d = Digits(Len(frame), Header) /\ d \in Text /\ Len(d) = Header
  BY <1>1, <1>2, DigitsAreBytes DEF Text
<1>5. Number(d) = Len(frame)
  BY <1>1, <1>2, <1>3, <1>4, NumberOfDigits
<1>6. d \o frame \in Text /\ Len(d \o frame) = Header + Len(frame)
  BY <1>4, JoinIs
<1>7. d \o frame # << >>
  BY <1>1, <1>2, <1>6, EmptySeq
<1> QED BY <1>2, <1>4, <1>5, <1>6, <1>7 DEF Framed

-----------------------------------------------------------------------------
(* The bytes of a list of messages.                                        *)

\* Messages that write_frame accepted.
Accepted(list) == list \in Seq(Messages) /\ \A i \in 1..Len(list) : Fits(FrameOf(list[i]))

\* A list of messages begins with another.
Begins(list, first) ==
  /\ first \in Seq(Messages) /\ Len(first) <= Len(list)
  /\ \A i \in 1..Len(first) : first[i] = list[i]

\* The frames of messages, with their lengths.
LEMMA FramesAre ==
  ASSUME NEW list, list \in Seq(Messages), \A i \in 1..Len(list) : Fits(FrameOf(list[i]))
  PROVE  LET parts == [i \in DOMAIN list |-> Framed(FrameOf(list[i]))]
         IN  /\ parts \in Seq(Text) /\ Len(parts) = Len(list)
             /\ \A i \in 1..Len(list) : parts[i] = Framed(FrameOf(list[i]))
<1>1. PICK len \in Nat : len = Len(list) /\ DOMAIN list = 1..len
  BY LenProperties
<1> DEFINE parts == [i \in 1..len |-> Framed(FrameOf(list[i]))]
<1>2. ASSUME NEW i \in 1..len PROVE Framed(FrameOf(list[i])) \in Text
  <2>1. list[i] \in Messages
    BY <1>1, ElementOfSeq
  <2>2. PICK m, frame : m = list[i] /\ Encodable(m) /\ frame = FrameOf(m)
    BY <2>1, FramingAssumption
  <2>3. frame \in Text
    BY <2>2, FrameIs
  <2>4. Fits(frame)
    BY <1>1, <2>2
  <2>5. Framed(frame) \in Text
    BY ONLY <2>3, <2>4, FramedIs
  <2> QED BY <2>2, <2>5
<1>3. parts \in Seq(Text) /\ Len(parts) = len
  BY <1>2
<1>4. \A i \in 1..len : parts[i] = Framed(FrameOf(list[i]))
  OBVIOUS
<1>5. [i \in DOMAIN list |-> Framed(FrameOf(list[i]))] = parts
  BY <1>1
<1> HIDE DEF parts
<1> QED BY <1>1, <1>3, <1>4, <1>5

\* run[n] is the bytes of the first n messages.
ByteRun(list, run) ==
  /\ run \in [0..Len(list) -> Text] /\ run[0] = << >>
  /\ \A n \in 1..Len(list) : run[n] = run[n - 1] \o Framed(FrameOf(list[n]))
  /\ Bytes(list) = run[Len(list)]
  /\ \A n \in 0..Len(list) : \E rest \in Text : Bytes(list) = run[n] \o rest

\* The bytes of the messages, one after the other.
LEMMA BytesBySteps ==
  ASSUME NEW list, Accepted(list)
  PROVE  \E run : ByteRun(list, run)
<1>1. PICK parts : parts = [i \in DOMAIN list |-> Framed(FrameOf(list[i]))]
  OBVIOUS
<1>2. /\ parts \in Seq(Text) /\ Len(parts) = Len(list)
      /\ \A i \in 1..Len(list) : parts[i] = Framed(FrameOf(list[i]))
  BY <1>1, FramesAre DEF Accepted
<1>3. Bytes(list) = FlattenSeq(parts)
  BY <1>1 DEF Bytes
<1>4. PICK run : Joins(parts, run) /\ FlattenSeq(parts) = run[Len(parts)]
  BY <1>2, FlattenBySteps
<1>5. \A n \in 0..Len(parts) : \E rest \in Text : run[Len(parts)] = run[n] \o rest
  BY <1>2, <1>4, JoinsSplit
<1>6. /\ run \in [0..Len(list) -> Text] /\ run[0] = << >>
      /\ \A n \in 1..Len(list) : run[n] = run[n - 1] \o Framed(FrameOf(list[n]))
  BY <1>2, <1>4 DEF Joins
<1>7. Bytes(list) = run[Len(list)]
  BY <1>2, <1>3, <1>4
<1>8. \A n \in 0..Len(list) : \E rest \in Text : Bytes(list) = run[n] \o rest
  BY <1>2, <1>4, <1>5, <1>7
<1>9. ByteRun(list, run)
  BY <1>6, <1>7, <1>8 DEF ByteRun
<1> QED BY <1>9

\* What a list begins with is accepted too.
LEMMA BeginsIs ==
  ASSUME NEW list, Accepted(list), NEW first, Begins(list, first)
  PROVE  Accepted(first) /\ Len(list) \in Nat /\ Len(first) \in Nat
<1>1. Len(list) \in Nat /\ Len(first) \in Nat
  BY LenProperties DEF Accepted, Begins
<1> QED BY <1>1 DEF Accepted, Begins

\* The bytes of messages are bytes; no messages have none.
LEMMA BytesAre ==
  /\ \A list : Accepted(list) => Bytes(list) \in Text
  /\ Bytes(<< >>) = << >> /\ Accepted(<< >>)
<1>1. ASSUME NEW list, Accepted(list) PROVE Bytes(list) \in Text
  <2>1. Len(list) \in 0..Len(list)
    BY <1>1, LenProperties DEF Accepted
  <2>2. PICK run : ByteRun(list, run)
    BY <1>1, BytesBySteps
  <2> QED BY <2>1, <2>2 DEF ByteRun
<1>2. Bytes(<< >>) = << >>
  <2>1. [i \in DOMAIN << >> |-> Framed(FrameOf(<< >>[i]))] = << >>
    OBVIOUS
  <2> QED BY <2>1, FlattenNothing DEF Bytes
<1>3. Accepted(<< >>)
  BY EmptySeq DEF Accepted
<1> QED BY <1>1, <1>2, <1>3

\* The bytes of a list begin with the bytes of what it begins with.
LEMMA BytesBegin ==
  ASSUME NEW list, Accepted(list), NEW first, Begins(list, first)
  PROVE  \E run : ByteRun(list, run) /\ run[Len(first)] = Bytes(first)
<1>1. Accepted(first)
  BY BeginsIs
<1>2. PICK len \in Nat, more \in Nat : len = Len(first) /\ more = Len(list) /\ len <= more
  BY BeginsIs DEF Begins
<1>3. PICK run : ByteRun(first, run)
  BY <1>1, BytesBySteps
<1>4. PICK ran : ByteRun(list, ran)
  BY BytesBySteps
<1>5. \A i \in 1..len : first[i] = list[i]
  BY <1>2 DEF Begins
<1> DEFINE N == {n \in Nat : n <= len => run[n] = ran[n]}
<1>6. 0 \in N
  BY <1>3, <1>4 DEF ByteRun
<1>7. ASSUME NEW n \in N PROVE n + 1 \in N
  <2>1. ASSUME n + 1 <= len PROVE run[n + 1] = ran[n + 1]
    <3>1. n + 1 \in 1..len /\ n + 1 \in 1..more /\ (n + 1) - 1 = n /\ run[n] = ran[n]
      BY <1>2, <2>1
    <3>2. run[n + 1] = run[n] \o Framed(FrameOf(first[n + 1]))
      BY <1>2, <1>3, <3>1 DEF ByteRun
    <3>3. ran[n + 1] = ran[n] \o Framed(FrameOf(list[n + 1]))
      BY <1>2, <1>4, <3>1 DEF ByteRun
    <3> QED BY <1>5, <3>1, <3>2, <3>3
  <2> QED BY <2>1
<1> HIDE DEF N
<1>8. N = Nat
  <2>1. N \in SUBSET Nat
    BY DEF N
  <2> QED BY <1>6, <1>7, <2>1, ByNaturals
<1>9. ran[len] = Bytes(first)
  <2>1. run[len] = ran[len]
    BY <1>8 DEF N
  <2>2. Bytes(first) = run[len]
    BY <1>2, <1>3 DEF ByteRun
  <2> QED BY <2>1, <2>2
<1> QED BY <1>2, <1>4, <1>9

\* The bytes of messages with one more.
LEMMA BytesAppend ==
  ASSUME NEW list, Accepted(list), NEW m \in Messages, Fits(FrameOf(m))
  PROVE  /\ Accepted(Append(list, m)) /\ Begins(Append(list, m), list)
         /\ Bytes(Append(list, m)) = Bytes(list) \o Framed(FrameOf(m))
<1>1. PICK more : more = Append(list, m)
  OBVIOUS
<1>2. PICK len \in Nat : len = Len(list) /\ list \in Seq(Messages)
  BY LenProperties DEF Accepted
<1>3. /\ more \in Seq(Messages) /\ Len(more) = len + 1 /\ more[len + 1] = m
      /\ \A i \in 1..len : more[i] = list[i]
  BY <1>1, <1>2, AppendProperties
<1>4. Accepted(more)
  <2>1. ASSUME NEW i \in 1..(len + 1) PROVE Fits(FrameOf(more[i]))
    <3>1. CASE i = len + 1
      BY <1>3, <3>1
    <3>2. CASE i # len + 1
      <4>1. i \in 1..len
        BY <3>2
      <4> QED BY <1>2, <1>3, <4>1 DEF Accepted
    <3> QED BY <3>1, <3>2
  <2> QED BY <1>3, <2>1 DEF Accepted
<1>5. Begins(more, list)
  BY <1>2, <1>3 DEF Begins
<1>6. PICK run : ByteRun(more, run) /\ run[Len(list)] = Bytes(list)
  BY <1>4, <1>5, BytesBegin
<1>7. run[len + 1] = run[len] \o Framed(FrameOf(m))
  <2>1. len + 1 \in 1..Len(more) /\ (len + 1) - 1 = len
    BY <1>3
  <2> QED BY <1>3, <1>6, <2>1 DEF ByteRun
<1> QED BY <1>1, <1>2, <1>3, <1>4, <1>5, <1>6, <1>7 DEF ByteRun

\* What is left of a list of messages begins with the frame of the next one.
Comes(list, first, bytes) ==
  /\ Len(first) < Len(list) /\ list[Len(first) + 1] \in Messages
  /\ LET frame == FrameOf(list[Len(first) + 1])
     IN  /\ frame \in Text /\ Fits(frame)
         /\ \E tail : tail \in Text /\ bytes = Digits(Len(frame), Header) \o (frame \o tail)

\* The bytes that follow a frame are the next frame.
LEMMA FrameComes ==
  ASSUME NEW list, Accepted(list), NEW first, Begins(list, first),
         NEW bytes, bytes \in Text, bytes # << >>, Bytes(list) = Bytes(first) \o bytes
  PROVE  Comes(list, first, bytes)
<1>1. PICK len, more : /\ len \in Nat /\ more \in Nat
                       /\ len = Len(first) /\ more = Len(list) /\ len <= more
  BY BeginsIs DEF Begins
<1>2. PICK run : ByteRun(list, run) /\ run[len] = Bytes(first)
  BY <1>1, BytesBegin
<1>3. PICK a : a = Bytes(first) /\ a \in Text /\ Len(a) \in Nat
  BY BeginsIs, BytesAre, LenProperties DEF Text
<1>4. len < more
  <2>1. SUFFICES ASSUME len = more PROVE FALSE
    BY <1>1
  <2>2. a = a \o bytes
    BY <1>1, <1>2, <1>3, <2>1 DEF ByteRun
  <2>3. Len(a \o bytes) = Len(a) + Len(bytes) /\ Len(bytes) \in Nat
    BY <1>3, JoinIs
  <2>4. Len(bytes) = 0
    BY <1>3, <2>2, <2>3
  <2> QED BY <2>4, EmptySeq DEF Text
<1>5. PICK n : n \in 1..more /\ n = len + 1 /\ n - 1 = len /\ n \in 0..more
  BY <1>1, <1>4
<1>6. list[n] \in Messages /\ Fits(FrameOf(list[n]))
  BY <1>1, <1>5, ElementOfSeq DEF Accepted
<1>7. PICK frame : frame = FrameOf(list[n]) /\ frame \in Text /\ Fits(frame)
  <2>1. PICK m : m = list[n] /\ Encodable(m)
    BY <1>6, FramingAssumption
  <2>2. FrameOf(m) \in Text
    BY <2>1, FrameIs
  <2> QED BY <1>6, <2>1, <2>2
<1>8. PICK d : /\ d = Digits(Len(frame), Header) /\ d \in Text
               /\ Framed(frame) = d \o frame /\ Framed(frame) \in Text
  BY <1>7, FramedIs DEF Framed
<1>9. PICK rest : rest \in Text /\ Bytes(list) = run[n] \o rest
  BY <1>1, <1>2, <1>5 DEF ByteRun
<1>10. run[n] = a \o (d \o frame)
  BY <1>1, <1>2, <1>3, <1>5, <1>7, <1>8 DEF ByteRun
<1>11. bytes = d \o (frame \o rest)
  <2>1. PICK u : u = d \o frame /\ u \in Text /\ u \o rest \in Text
    BY <1>7, <1>8, <1>9, JoinIs
  <2>2. (a \o u) \o rest = a \o (u \o rest)
    <3>1. a \in Text /\ u \in Text /\ rest \in Text
      BY <1>3, <1>9, <2>1
    <3>2. Again(a, u, rest)
      BY ONLY <3>1, AgainIs
    <3> QED BY ONLY <3>2 DEF Again
  <2>3. a \o bytes = a \o (u \o rest)
    <3>1. Bytes(list) = Bytes(first) \o bytes
      OBVIOUS
    <3> QED BY ONLY <1>3, <1>9, <1>10, <2>1, <2>2, <3>1
  <2>4. bytes = u \o rest
    <3>1. bytes \in Text
      OBVIOUS
    <3>2. PICK v : v = u \o rest /\ v \in Text
      BY <2>1
    <3>3. a \in Text /\ a \o bytes = a \o v /\ Len(a) = Len(a)
      BY ONLY <1>3, <2>3, <3>2
    <3>4. bytes = v
      BY ONLY <3>1, <3>2, <3>3, SameCut, Zenon
    <3> QED BY ONLY <3>2, <3>4
  <2>5. (d \o frame) \o rest = d \o (frame \o rest)
    <3>1. d \in Text /\ frame \in Text /\ rest \in Text
      BY <1>7, <1>8, <1>9
    <3>2. Again(d, frame, rest)
      BY ONLY <3>1, AgainIs
    <3> QED BY ONLY <3>2 DEF Again
  <2> QED BY ONLY <2>1, <2>4, <2>5
<1>12. len < more /\ list[len + 1] \in Messages /\ frame = FrameOf(list[len + 1])
  BY <1>4, <1>5, <1>6, <1>7
<1> QED BY ONLY <1>1, <1>7, <1>8, <1>9, <1>11, <1>12 DEF Comes

-----------------------------------------------------------------------------
(* The connection.                                                         *)

\* rest is what the sockets will still be given of the messages asked for: what
\* write_all has left, or what a failed connection lost.
Whole(rest) == Bytes(asked) = Bytes(got) \o (Held \o (stream \o rest))

\* Where read_frame can be: it has less than it waits for.
ReaderShape ==
  /\ reader = [phase |-> reader.phase, need |-> reader.need, buf |-> reader.buf]
  /\ reader.buf \in Text
  /\ \/ reader.phase = "header" /\ reader.need = Header /\ Len(reader.buf) < Header
     \/ /\ reader.phase = "payload" /\ reader.need \in 1..MaxFrame
        /\ Len(reader.buf) < reader.need
     \/ reader.phase = "ended" /\ reader.buf = << >>

\* While the reader reads, nothing is missing between what it was handed and what
\* the writer was asked for.
Complements ==
  Reading => \E rest : rest \in Text /\ Whole(rest) /\ (~ Failed => rest = out)

\* The reader ends when the connection failed, or when it has everything.
EndsLast ==
  ~ Reading =>
    /\ line # "up"
    /\ ~ Failed => stream = << >> /\ out = << >> /\ Bytes(asked) = Bytes(got)

\* The inductive invariant of a connection.
FrameInv ==
  /\ Accepted(asked) /\ Begins(asked, got)
  /\ out \in Text /\ stream \in Text /\ line \in {"up", "closed", "cut", "broken"}
  /\ ReaderShape /\ Complements /\ EndsLast
  /\ line = "closed" => out = << >>
  /\ out # << >> => asked # << >>

\* Moving bytes from one to the next of four byte strings laid end to end.
Moves(h, x, y, r) == h \o ((x \o y) \o r) = (h \o x) \o (y \o r)

\* Bytes can be moved.
LEMMA MovesIs ==
  ASSUME NEW h, NEW x, NEW y, NEW r, h \in Text, x \in Text, y \in Text, r \in Text
  PROVE  Moves(h, x, y, r)
<1>1. PICK u : u = y \o r /\ u \in Text
  <2>1. y \o r \in Text
    BY JoinIs, Zenon
  <2> QED BY ONLY <2>1
<1>2. (x \o y) \o r = x \o (y \o r)
  <2>1. x \in Text /\ y \in Text /\ r \in Text
    OBVIOUS
  <2>2. Again(x, y, r)
    BY ONLY <2>1, AgainIs
  <2> QED BY ONLY <2>2 DEF Again
<1>3. h \in Text /\ x \in Text
  OBVIOUS
<1>4. (h \o x) \o u = h \o (x \o u)
  <2>1. h \in Text /\ x \in Text /\ u \in Text
    BY <1>1, <1>3
  <2>2. Again(h, x, u)
    BY ONLY <2>1, AgainIs
  <2> QED BY ONLY <2>2 DEF Again
<1> QED BY ONLY <1>1, <1>2, <1>4 DEF Moves

\* Joining behind three byte strings.
Lengthens(g, h, s, w) == (g \o (h \o s)) \o w = g \o (h \o (s \o w))

\* Behind three byte strings is behind the third.
LEMMA LengthensIs ==
  ASSUME NEW g, NEW h, NEW s, NEW w, g \in Text, h \in Text, s \in Text, w \in Text
  PROVE  Lengthens(g, h, s, w)
<1>1. PICK u : u = h \o s /\ u \in Text
  <2>1. h \o s \in Text
    BY JoinIs, Zenon
  <2> QED BY ONLY <2>1
<1>2. (h \o s) \o w = h \o (s \o w)
  <2>1. h \in Text /\ s \in Text /\ w \in Text
    OBVIOUS
  <2>2. Again(h, s, w)
    BY ONLY <2>1, AgainIs
  <2> QED BY ONLY <2>2 DEF Again
<1>3. g \in Text /\ w \in Text
  OBVIOUS
<1>4. (g \o u) \o w = g \o (u \o w)
  <2>1. g \in Text /\ u \in Text /\ w \in Text
    BY <1>1, <1>3
  <2>2. Again(g, u, w)
    BY ONLY <2>1, AgainIs
  <2> QED BY ONLY <2>2 DEF Again
<1> QED BY ONLY <1>1, <1>2, <1>4 DEF Lengthens

\* What read_frame holds is a byte string.
LEMMA HeldIs ==
  ASSUME ReaderShape
  PROVE  /\ Held \in Text
         /\ reader.phase = "header" => Held = reader.buf
         /\ reader.phase = "payload" =>
              /\ Held = Digits(reader.need, Header) \o reader.buf
              /\ Digits(reader.need, Header) \in Text
              /\ Len(Digits(reader.need, Header)) = Header
              /\ Number(Digits(reader.need, Header)) = reader.need
              /\ reader.need \in Nat
<1>1. Header \in Nat /\ Place[Header] \in Nat /\ Header = Width["u32"]
  BY WidthIs DEF Header, Scalar
<1>2. ASSUME reader.phase = "payload"
      PROVE  /\ Digits(reader.need, Header) \in Text /\ Len(Digits(reader.need, Header)) = Header
             /\ Number(Digits(reader.need, Header)) = reader.need /\ reader.need \in Nat
  <2>1. PICK n \in Nat : n = reader.need /\ n < Place[Header]
    BY <1>1, <1>2, FramingAssumption DEF ReaderShape
  <2>2. Digits(n, Header) \in Text /\ Len(Digits(n, Header)) = Header
    BY <1>1, DigitsAreBytes DEF Text
  <2>3. Number(Digits(n, Header)) = n
    BY <1>1, <2>1, NumberOfDigits
  <2> QED BY <2>1, <2>2, <2>3
<1>3. Held \in Text
  <2>1. CASE reader.phase = "payload"
    BY <1>2, <2>1, JoinIs DEF Held, ReaderShape
  <2>2. CASE reader.phase # "payload"
    BY <2>2 DEF Held, ReaderShape
  <2> QED BY <2>1, <2>2
<1>4. reader.phase = "header" => Held = reader.buf
  BY DEF Held
<1>5. reader.phase = "payload" => Held = Digits(reader.need, Header) \o reader.buf
  BY DEF Held
<1> QED BY <1>2, <1>3, <1>4, <1>5

\* What the invariant says of the bytes, with names for them.
LEMMA InvBytes ==
  ASSUME FrameInv
  PROVE  /\ Bytes(asked) \in Text /\ Bytes(got) \in Text /\ Held \in Text
         /\ stream \in Text /\ out \in Text /\ Accepted(got)
BY BytesAre, BeginsIs, HeldIs DEF FrameInv

\* The connection begins so.
LEMMA FrameInvInit ==
  ASSUME Init
  PROVE  FrameInv
<1>1. << >> \in Text /\ << >> \o << >> = << >>
  <2>1. << >> \in Text
    BY EmptySeq DEF Text
  <2> QED BY <2>1, JoinNothing
<1>2. Header \in Nat \ {0}
  BY WidthIs DEF Header, Scalar
<1>3. Accepted(asked) /\ Begins(asked, got)
  BY BytesAre, EmptySeq DEF Init, Begins, Accepted
<1>4. ReaderShape /\ Reading /\ Held = << >>
  BY <1>1, <1>2, EmptySeq DEF Init, Idle, ReaderShape, Reading, Held
<1>5. Whole(<< >>)
  BY <1>1, <1>4, BytesAre DEF Init, Whole
<1>6. Complements /\ EndsLast
  BY <1>1, <1>4, <1>5 DEF Complements, EndsLast, Init
<1> QED BY <1>1, <1>3, <1>4, <1>6 DEF Init, FrameInv

\* write_frame begins a frame.
LEMMA WriteKeeps ==
  ASSUME FrameInv, NEW m \in Messages, WriteFrame(m)
  PROVE  FrameInv'
<1>1. /\ line = "up" /\ out = << >> /\ Fits(FrameOf(m))
      /\ asked' = Append(asked, m) /\ out' = Framed(FrameOf(m))
      /\ stream' = stream /\ line' = line /\ reader' = reader /\ got' = got
  BY DEF WriteFrame
<1>2. Reading /\ ~ Failed
  BY <1>1 DEF FrameInv, EndsLast, Failed
<1>3. PICK w : w = Framed(FrameOf(m)) /\ w \in Text
  <2>1. FrameOf(m) \in Text
    BY FramingAssumption, FrameIs
  <2> QED BY <1>1, <2>1, FramedIs
<1>4. /\ Accepted(asked') /\ Begins(asked', asked)
      /\ Bytes(asked') = Bytes(asked) \o w
  BY <1>1, <1>3, BytesAppend DEF FrameInv
<1>5. Begins(asked', got')
  <2>1. Len(asked) <= Len(asked') /\ Len(asked) \in Nat /\ Len(asked') \in Nat
    BY <1>4, LenProperties DEF Begins, Accepted
  <2>2. Len(got) <= Len(asked) /\ Len(got) \in Nat /\ got \in Seq(Messages)
    BY LenProperties DEF FrameInv, Begins
  <2>3. \A i \in 1..Len(got) : got[i] = asked[i] /\ i \in 1..Len(asked)
    BY <2>1, <2>2 DEF FrameInv, Begins
  <2>4. \A i \in 1..Len(got) : got[i] = asked'[i]
    BY <1>4, <2>3 DEF Begins
  <2> QED BY <1>1, <2>1, <2>2, <2>4 DEF Begins
<1>6. PICK g, h, s : /\ g = Bytes(got) /\ h = Held /\ s = stream
                     /\ g \in Text /\ h \in Text /\ s \in Text
  BY InvBytes
<1>7. Whole(<< >>)
  BY <1>1, <1>2 DEF FrameInv, Complements
<1>8. Bytes(asked) = g \o (h \o s)
  <2>1. s \o << >> = s
    BY <1>6, JoinNothing
  <2> QED BY <1>6, <1>7, <2>1 DEF Whole
<1>9. Lengthens(g, h, s, w)
  BY ONLY <1>3, <1>6, LengthensIs
<1>10. Held' = Held
  BY <1>1 DEF Held
<1>11. Bytes(asked') = Bytes(got') \o (Held' \o (stream' \o w))
  BY ONLY <1>1, <1>4, <1>6, <1>8, <1>9, <1>10 DEF Lengthens
<1>12. Reading'
  BY <1>1, <1>2 DEF Reading
<1>13. Complements' /\ EndsLast'
  BY <1>1, <1>3, <1>11, <1>12 DEF Complements, EndsLast, Whole
<1>14. ReaderShape'
  BY <1>1 DEF FrameInv, ReaderShape
<1>15. asked' # << >>
  <2>1. Len(asked) \in Nat /\ asked \in Seq(Messages)
    BY LenProperties DEF FrameInv, Accepted
  <2>2. Len(asked') = Len(asked) + 1
    BY <1>1, <2>1, AppendProperties
  <2> QED BY <2>1, <2>2, EmptySeq
<1>16. out' \in Text /\ stream' \in Text /\ line' \in {"up", "closed", "cut", "broken"}
  BY <1>1, <1>3 DEF FrameInv
<1>17. line' # "closed"
  BY <1>1
<1> QED BY ONLY <1>4, <1>5, <1>13, <1>14, <1>15, <1>16, <1>17 DEF FrameInv

\* One send of write_all.
LEMMA SendKeeps ==
  ASSUME FrameInv, NEW k \in 1..Window, Send(k)
  PROVE  FrameInv'
<1>1. /\ line = "up" /\ k \in 1..Len(out)
      /\ stream' = stream \o SubSeq(out, 1, k) /\ out' = SubSeq(out, k + 1, Len(out))
      /\ asked' = asked /\ line' = line /\ reader' = reader /\ got' = got
  BY DEF Send, Rest
<1>2. Reading /\ ~ Failed
  BY <1>1 DEF FrameInv, EndsLast, Failed
<1>3. PICK x, y : x = SubSeq(out, 1, k) /\ y = SubSeq(out, k + 1, Len(out))
  OBVIOUS
<1>4. x \in Text /\ y \in Text /\ x \o y = out
  <2>1. k \in 0..Len(out) /\ out \in Text
    BY <1>1 DEF FrameInv
  <2> QED BY ONLY <1>3, <2>1, CutIs
<1>5. stream \in Text /\ Whole(out)
  BY <1>2 DEF FrameInv, Complements
<1>6. (stream \o x) \o y = stream \o out
  <2>1. (stream \o x) \o y = stream \o (x \o y)
    <3>1. stream \in Text /\ x \in Text /\ y \in Text
      BY <1>4, <1>5
    <3>2. Again(stream, x, y)
      BY ONLY <3>1, AgainIs
    <3> QED BY ONLY <3>2 DEF Again
  <2> QED BY <1>4, <2>1
<1>7. stream \o x \in Text
  BY ONLY <1>4, <1>5, JoinIs
<1>8. stream' = stream \o x /\ out' = y /\ Held' = Held
  BY <1>1, <1>3 DEF Held
<1>9. Whole(y)'
  BY ONLY <1>1, <1>5, <1>6, <1>8 DEF Whole
<1>10. Reading' /\ ~ Failed'
  BY <1>1, <1>2 DEF Reading, Failed
<1>11. Complements' /\ EndsLast'
  <2>1. Bytes(asked') = Bytes(got') \o (Held' \o (stream' \o y))
    BY <1>9 DEF Whole
  <2>2. Complements'
    BY ONLY <1>4, <1>8, <2>1 DEF Complements, Whole
  <2> QED BY <1>10, <2>2 DEF EndsLast
<1>12. ReaderShape' /\ Accepted(asked') /\ Begins(asked', got')
  BY <1>1 DEF FrameInv, ReaderShape
<1>13. out # << >>
  BY <1>1, EmptySeq
<1>14. asked' # << >>
  BY <1>1, <1>13 DEF FrameInv
<1>15. line' \in {"up", "closed", "cut", "broken"} /\ line' # "closed"
  BY <1>1 DEF FrameInv
<1> QED BY ONLY <1>4, <1>7, <1>8, <1>11, <1>12, <1>14, <1>15 DEF FrameInv

\* The writer gives up or closes: what is lost is the end.
LEMMA WriterEndsKeep ==
  ASSUME FrameInv, SendFails \/ Close
  PROVE  FrameInv'
<1>1. /\ asked' = asked /\ stream' = stream /\ reader' = reader /\ got' = got /\ out' = << >>
  BY DEF SendFails, Close
<1>2. \/ line = "broken" /\ line' = "broken"
      \/ line = "up" /\ line' = (IF out = << >> THEN "closed" ELSE "cut")
  BY DEF SendFails, Close
<1>3. Held' = Held /\ Reading' = Reading
  BY <1>1 DEF Held, Reading
<1>4. << >> \in Text
  BY EmptySeq DEF Text
<1>5. ~ Failed' => line = "up" /\ out = << >> /\ ~ Failed
  BY <1>2 DEF Failed
<1>6. Complements'
  <2>1. SUFFICES ASSUME Reading'
                 PROVE  \E rest : rest \in Text /\ Whole(rest)' /\ (~ Failed' => rest = out')
    BY DEF Complements
  <2>2. PICK rest : rest \in Text /\ Whole(rest) /\ (~ Failed => rest = out)
    BY <1>3, <2>1 DEF FrameInv, Complements
  <2>3. Whole(rest)'
    BY <1>1, <1>3, <2>2 DEF Whole
  <2>4. ~ Failed' => rest = out'
    BY <1>1, <1>5, <2>2
  <2> QED BY <2>2, <2>3, <2>4
<1>7. EndsLast'
  <2>1. ~ Reading' => line # "up"
    BY <1>3 DEF FrameInv, EndsLast
  <2> QED BY <1>2, <1>5, <2>1 DEF EndsLast
<1>8. ReaderShape' /\ Accepted(asked') /\ Begins(asked', got')
  BY <1>1 DEF FrameInv, ReaderShape
<1>9. line' \in {"up", "closed", "cut", "broken"} /\ stream' \in Text
  BY <1>1, <1>2 DEF FrameInv
<1> QED BY ONLY <1>1, <1>4, <1>6, <1>7, <1>8, <1>9 DEF FrameInv

\* The connection breaks: what is lost is the end.
LEMMA BreakKeeps ==
  ASSUME FrameInv, Break
  PROVE  FrameInv'
<1>1. /\ asked' = asked /\ out' = out /\ reader' = reader /\ got' = got
      /\ stream' = << >> /\ line' = "broken"
  BY DEF Break
<1>2. Held' = Held /\ Reading' = Reading /\ Failed'
  BY <1>1 DEF Held, Reading, Failed
<1>3. << >> \in Text
  BY EmptySeq DEF Text
<1>4. Complements'
  <2>1. SUFFICES ASSUME Reading'
                 PROVE  \E rest : rest \in Text /\ Whole(rest)'
    BY <1>2 DEF Complements
  <2>2. PICK rest : rest \in Text /\ Whole(rest)
    BY <1>2, <2>1 DEF FrameInv, Complements
  <2>3. PICK r : r = stream \o rest /\ r \in Text /\ << >> \o r = r
    BY <2>2, JoinIs, JoinNothing DEF FrameInv
  <2>4. Whole(r)'
    BY ONLY <1>1, <1>2, <2>2, <2>3 DEF Whole
  <2> QED BY <2>3, <2>4
<1>5. EndsLast'
  BY <1>1, <1>2 DEF EndsLast
<1>6. ReaderShape' /\ Accepted(asked') /\ Begins(asked', got')
  BY <1>1 DEF FrameInv, ReaderShape
<1>7. out' \in Text /\ (out' # << >> => asked' # << >>)
  BY <1>1 DEF FrameInv
<1> QED BY ONLY <1>1, <1>3, <1>4, <1>5, <1>6, <1>7 DEF FrameInv

\* What follows in the stream is the next frame.
LEMMA FrameAhead ==
  ASSUME FrameInv, NEW bytes, bytes \in Text, bytes # << >>, Bytes(asked) = Bytes(got) \o bytes
  PROVE  Comes(asked, got, bytes)
BY FrameComes DEF FrameInv

\* A frame is never longer than read_frame waits for, so that a whole one is
\* never held.
LEMMA WaitsForMore ==
  ASSUME FrameInv, Reading, Comes(asked, got, Held)
  PROVE  FALSE
<1>1. PICK frame, tail : /\ frame \in Text /\ Fits(frame) /\ tail \in Text
                         /\ Held = Digits(Len(frame), Header) \o (frame \o tail)
  BY DEF Comes
<1>2. PICK d : /\ d = Digits(Len(frame), Header) /\ d \in Text /\ Len(d) = Header
               /\ Header \in Nat /\ Number(d) = Len(frame)
  BY <1>1, FramedIs
<1>3. PICK e : /\ e = frame \o tail /\ e \in Text /\ Len(e) = Len(frame) + Len(tail)
               /\ Len(frame) \in Nat /\ Len(tail) \in Nat
  BY <1>1, JoinIs
<1>4. Len(d \o e) = Len(d) + Len(e)
  BY ONLY <1>2, <1>3, JoinIs
<1>5. CASE reader.phase = "header"
  <2>1. Held = reader.buf /\ Len(reader.buf) < Header
    BY <1>5, HeldIs DEF FrameInv, ReaderShape
  <2> QED BY <1>1, <1>2, <1>3, <1>4, <2>1
<1>6. CASE reader.phase = "payload"
  <2>1. PICK f, b : /\ f = Digits(reader.need, Header) /\ f \in Text /\ Len(f) = Header
                    /\ Number(f) = reader.need /\ b = reader.buf /\ b \in Text
                    /\ Held = f \o b /\ Len(b) < reader.need
    BY <1>6, HeldIs DEF FrameInv, ReaderShape
  <2>2. d \o e = f \o b /\ Len(d) = Len(f)
    BY <1>1, <1>2, <1>3, <2>1
  <2>3. d = f /\ e = b
    <3>1. d \in Text /\ e \in Text /\ f \in Text /\ b \in Text
      BY <1>2, <1>3, <2>1
    <3> QED BY ONLY <2>2, <3>1, SameCut
  <2> QED BY ONLY <1>2, <1>3, <2>1, <2>3
<1> QED BY <1>5, <1>6 DEF Reading

\* recv finds the end of the stream.
LEMMA RecvEndsKeeps ==
  ASSUME FrameInv, RecvEnds
  PROVE  FrameInv'
<1>1. /\ Reading /\ line # "up" /\ stream = << >>
      /\ reader' = [phase |-> "ended", need |-> 0, buf |-> << >>]
      /\ asked' = asked /\ out' = out /\ stream' = stream /\ line' = line /\ got' = got
  BY DEF RecvEnds
<1>2. ~ Reading' /\ ReaderShape'
  BY <1>1, EmptySeq DEF Reading, ReaderShape, Text
<1>3. ASSUME ~ Failed' PROVE out = << >> /\ Bytes(asked) = Bytes(got)
  <2>1. line = "closed" /\ ~ Failed /\ out = << >>
    BY <1>1, <1>3 DEF Failed, FrameInv
  <2>2. Whole(<< >>)
    BY <1>1, <2>1 DEF FrameInv, Complements
  <2>3. Held \in Text /\ Bytes(got) \in Text
    BY InvBytes
  <2>4. << >> \o << >> = << >> /\ Held \o << >> = Held /\ Bytes(got) \o << >> = Bytes(got)
    BY <2>3, JoinNothing
  <2>5. Bytes(asked) = Bytes(got) \o Held
    BY ONLY <1>1, <2>2, <2>4 DEF Whole
  <2>6. Held = << >>
    <3>1. SUFFICES ASSUME Held # << >> PROVE FALSE
      OBVIOUS
    <3>2. Comes(asked, got, Held)
      BY <2>3, <2>5, <3>1, FrameAhead
    <3> QED BY <1>1, <3>2, WaitsForMore
  <2> QED BY <2>1, <2>4, <2>5, <2>6
<1>4. Complements'
  BY <1>2 DEF Complements
<1>5. EndsLast'
  BY <1>1, <1>3 DEF EndsLast
<1>6. /\ Accepted(asked') /\ Begins(asked', got') /\ out' \in Text /\ stream' \in Text
      /\ line' \in {"up", "closed", "cut", "broken"}
      /\ (line' = "closed" => out' = << >>) /\ (out' # << >> => asked' # << >>)
  BY <1>1 DEF FrameInv
<1> QED BY ONLY <1>2, <1>4, <1>5, <1>6 DEF FrameInv

\* What one recv takes: x of the stream, and y is left.
Takes(x, y, rest) ==
  /\ x \in Text /\ y \in Text /\ rest \in Text /\ stream = x \o y /\ stream' = y
  /\ Held \o x \in Text /\ reader.buf \o x \in Text /\ y \o rest \in Text /\ x # << >>
  /\ Bytes(asked) = Bytes(got) \o ((Held \o x) \o (y \o rest))
  /\ ~ Failed => rest = out

\* The bytes that a recv takes move from the stream to the reader.
LEMMA RecvTakes ==
  ASSUME FrameInv, NEW k \in 1..Window, Recv(k)
  PROVE  \E x, y, rest : Takes(x, y, rest) /\ x = SubSeq(stream, 1, k)
<1>1. Reading /\ k \in 1..Len(stream) /\ stream' = SubSeq(stream, k + 1, Len(stream))
  BY DEF Recv
<1>2. PICK x, y : x = SubSeq(stream, 1, k) /\ y = SubSeq(stream, k + 1, Len(stream))
  OBVIOUS
<1>3. x \in Text /\ y \in Text /\ x \o y = stream /\ Len(x) = k
  <2>1. k \in 0..Len(stream) /\ stream \in Text
    BY <1>1 DEF FrameInv
  <2> QED BY ONLY <1>2, <2>1, CutIs
<1>4. x # << >>
  BY <1>3, EmptySeq
<1>5. PICK rest : rest \in Text /\ Whole(rest) /\ (~ Failed => rest = out)
  BY <1>1 DEF FrameInv, Complements
<1>6. Held \in Text /\ reader.buf \in Text
  BY InvBytes DEF FrameInv, ReaderShape
<1>7. Moves(Held, x, y, rest)
  BY ONLY <1>3, <1>5, <1>6, MovesIs
<1>8. Bytes(asked) = Bytes(got) \o ((Held \o x) \o (y \o rest))
  BY ONLY <1>3, <1>5, <1>7 DEF Moves, Whole
<1>9. Held \o x \in Text /\ reader.buf \o x \in Text /\ y \o rest \in Text
  BY ONLY <1>3, <1>5, <1>6, JoinIs
<1>10. Takes(x, y, rest)
  BY <1>1, <1>2, <1>3, <1>4, <1>5, <1>8, <1>9 DEF Takes
<1> QED BY <1>2, <1>10

\* A step of the reader that leaves the writer and the line alone.
Receives == asked' = asked /\ out' = out /\ line' = line

\* The reader has taken x and waits for more, or goes on to the next part.
LEMMA ReaderMoves ==
  ASSUME FrameInv, Receives, NEW x, NEW y, NEW rest, Takes(x, y, rest),
         Begins(asked, got'), ReaderShape', Reading',
         Bytes(asked) = Bytes(got') \o (Held' \o (y \o rest))
  PROVE  FrameInv'
<1>1. /\ Accepted(asked') /\ Begins(asked', got') /\ out' \in Text /\ stream' \in Text
      /\ line' \in {"up", "closed", "cut", "broken"}
      /\ (line' = "closed" => out' = << >>) /\ (out' # << >> => asked' # << >>)
  BY DEF FrameInv, Receives, Takes
<1>2. Complements'
  <2>1. Whole(rest)'
    BY DEF Whole, Receives, Takes
  <2>2. rest \in Text /\ (~ Failed' => rest = out')
    BY DEF Takes, Receives, Failed
  <2> QED BY <2>1, <2>2 DEF Complements
<1>3. EndsLast'
  BY DEF EndsLast
<1> QED BY <1>1, <1>2, <1>3 DEF FrameInv

\* read_exact goes on.
LEMMA PartRead ==
  ASSUME FrameInv, Reading, Receives, NEW x, NEW y, NEW rest, Takes(x, y, rest),
         Len(reader.buf \o x) <= reader.need, Len(reader.buf \o x) # reader.need,
         reader' = [reader EXCEPT !.buf = reader.buf \o x], got' = got
  PROVE  FrameInv'
<1>1. PICK b : b = reader.buf /\ b \in Text /\ x \in Text /\ b \o x \in Text
  BY DEF FrameInv, ReaderShape, Takes
<1>2. /\ reader'.phase = reader.phase /\ reader'.need = reader.need /\ reader'.buf = b \o x
      /\ reader' = [phase |-> reader'.phase, need |-> reader'.need, buf |-> reader'.buf]
  <2>1. PICK p, n : reader = [phase |-> p, need |-> n, buf |-> b]
    BY <1>1 DEF FrameInv, ReaderShape
  <2>2. reader' = [phase |-> p, need |-> n, buf |-> b \o x]
    <3>1. PICK r, c : r = reader /\ c = b \o x
      OBVIOUS
    <3>2. [r EXCEPT !.buf = c] = [phase |-> p, need |-> n, buf |-> c]
      <4>1. r = [phase |-> p, need |-> n, buf |-> b]
        BY <2>1, <3>1
      <4>2. [[phase |-> p, need |-> n, buf |-> b] EXCEPT !.buf = c]
              = [phase |-> p, need |-> n, buf |-> c]
        BY ONLY TRUE
      <4> QED BY ONLY <4>1, <4>2
    <3>3. reader' = [r EXCEPT !.buf = c]
      BY <1>1, <3>1
    <3> QED BY ONLY <3>1, <3>2, <3>3
  <2> QED BY <2>1, <2>2
<1>3. Len(b \o x) \in Nat /\ Header \in Nat
  BY <1>1, LenProperties, WidthIs DEF Text, Header, Scalar
<1>4. reader.need \in Nat
  BY <1>3 DEF FrameInv, ReaderShape, Reading
<1>5. Len(b \o x) < reader.need
  BY <1>1, <1>3, <1>4
<1>6. ReaderShape' /\ Reading'
  BY <1>1, <1>2, <1>5 DEF FrameInv, ReaderShape, Reading
<1>7. Held' = Held \o x
  <2>1. CASE reader.phase = "header"
    BY <1>1, <1>2, <2>1 DEF Held
  <2>2. CASE reader.phase = "payload"
    <3>1. PICK d : d = Digits(reader.need, Header) /\ d \in Text /\ Held = d \o b
      BY <1>1, <2>2, HeldIs DEF FrameInv
    <3>2. (d \o b) \o x = d \o (b \o x)
      <4>1. d \in Text /\ b \in Text /\ x \in Text
        BY <1>1, <3>1
      <4>2. Again(d, b, x)
        BY ONLY <4>1, AgainIs
      <4> QED BY ONLY <4>2 DEF Again
    <3>3. Held' = d \o (b \o x)
      BY <1>2, <2>2, <3>1 DEF Held
    <3> QED BY ONLY <3>1, <3>2, <3>3
  <2> QED BY <2>1, <2>2 DEF Reading
<1>8. Bytes(asked) = Bytes(got') \o (Held' \o (y \o rest))
  BY <1>7 DEF Takes
<1>9. Begins(asked, got')
  BY DEF FrameInv
<1> QED BY <1>6, <1>8, <1>9, ReaderMoves

\* The length of a frame is read: it is the one that was written.
LEMMA HeaderIsRead ==
  ASSUME FrameInv, Receives, reader.phase = "header", NEW x, NEW y, NEW rest, Takes(x, y, rest),
         Len(reader.buf \o x) = reader.need, HeaderRead(reader.buf \o x)
  PROVE  FrameInv' /\ got' = got
<1>1. PICK b : b = reader.buf \o x /\ b \in Text
  BY DEF Takes
<1>2. Held = reader.buf /\ reader.need = Header
  BY HeldIs DEF FrameInv, ReaderShape
<1>3. PICK z : z = y \o rest /\ z \in Text
  BY DEF Takes
<1>4. Bytes(asked) = Bytes(got) \o (b \o z)
  BY <1>1, <1>2, <1>3 DEF Takes
<1>5. Header \in Nat \ {0} /\ Len(b) = Header
  BY <1>1, <1>2, WidthIs DEF Header, Scalar
<1>6. Comes(asked, got, b \o z)
  <2>1. b \o z \in Text /\ Len(b \o z) = Len(b) + Len(z) /\ Len(z) \in Nat
    BY ONLY <1>1, <1>3, JoinIs
  <2>2. b \o z # << >>
    BY <1>5, <2>1, EmptySeq
  <2> QED BY <1>4, <2>1, <2>2, FrameAhead
<1>7. PICK frame, tail : /\ frame \in Text /\ Fits(frame) /\ tail \in Text
                         /\ b \o z = Digits(Len(frame), Header) \o (frame \o tail)
                         /\ Len(frame) > 0
  <2>1. PICK m : m \in Messages /\ m = asked[Len(got) + 1]
    BY <1>6 DEF Comes
  <2>2. Len(FrameOf(m)) > 0
    BY <2>1, FramingAssumption, FrameIs
  <2> QED BY <1>6, <2>1, <2>2 DEF Comes
<1>8. PICK d, e : /\ d = Digits(Len(frame), Header) /\ d \in Text /\ Len(d) = Header
                  /\ Number(d) = Len(frame) /\ e = frame \o tail /\ e \in Text
  <2>1. PICK d, e : d = Digits(Len(frame), Header) /\ e = frame \o tail
    OBVIOUS
  <2>2. e \in Text
    BY ONLY <1>7, <2>1, JoinIs
  <2>3. d \in Text /\ Len(d) = Header /\ Number(d) = Len(frame)
    BY ONLY <1>7, <2>1, FramedIs
  <2> QED BY ONLY <2>1, <2>2, <2>3
<1>9. b = d
  <2>1. b \o z = d \o e /\ Len(b) = Len(d)
    BY <1>5, <1>7, <1>8
  <2>2. b \in Text /\ z \in Text /\ d \in Text /\ e \in Text
    BY <1>1, <1>3, <1>8
  <2> QED BY ONLY <2>1, <2>2, SameCut
<1>10. PICK len : len = Len(frame) /\ len = Number(b) /\ len \in 1..MaxFrame
  <2>1. Len(frame) \in Nat /\ Len(frame) <= MaxFrame /\ MaxFrame \in Nat
    BY <1>7, LenProperties, FramingAssumption DEF Text, Fits
  <2> QED BY <1>7, <1>8, <1>9, <2>1
<1>11. got' = got /\ reader' = [phase |-> "payload", need |-> len, buf |-> << >>]
  <2>1. ~ (len > MaxFrame \/ len = 0)
    BY <1>10, FramingAssumption
  <2> QED BY <1>1, <1>10, <2>1 DEF HeaderRead
<1>12. ReaderShape' /\ Reading'
  BY <1>10, <1>11, EmptySeq DEF ReaderShape, Reading, Text
<1>13. Held' = b
  <2>1. Held' = d \o << >>
    BY <1>8, <1>10, <1>11 DEF Held
  <2> QED BY <1>8, <1>9, <2>1, JoinNothing
<1>14. Bytes(asked) = Bytes(got') \o (Held' \o (y \o rest))
  BY <1>3, <1>4, <1>11, <1>13
<1>15. Begins(asked, got')
  BY <1>11 DEF FrameInv
<1> QED BY <1>11, <1>12, <1>14, <1>15, ReaderMoves

\* A frame is read: it is decoded to the next message.
LEMMA PayloadIsRead ==
  ASSUME FrameInv, Receives, reader.phase = "payload", NEW x, NEW y, NEW rest, Takes(x, y, rest),
         Len(reader.buf \o x) = reader.need, PayloadRead(reader.buf \o x)
  PROVE  FrameInv' /\ Len(got) < Len(asked) /\ got' = Append(got, asked[Len(got) + 1])
<1>1. PICK b : b = reader.buf \o x /\ b \in Text /\ reader.buf \in Text /\ x \in Text
  BY DEF Takes, FrameInv, ReaderShape
<1>2. PICK f : /\ f = Digits(reader.need, Header) /\ f \in Text /\ Len(f) = Header
               /\ Number(f) = reader.need /\ Held = f \o reader.buf
  BY HeldIs DEF FrameInv
<1>3. PICK z : z = y \o rest /\ z \in Text
  BY DEF Takes
<1>4. Held \o x = f \o b
  <2>1. (f \o reader.buf) \o x = f \o (reader.buf \o x)
    <3>1. f \in Text /\ reader.buf \in Text /\ x \in Text
      BY <1>1, <1>2
    <3>2. Again(f, reader.buf, x)
      BY ONLY <3>1, AgainIs
    <3> QED BY ONLY <3>2 DEF Again
  <2> QED BY ONLY <1>1, <1>2, <2>1
<1>5. PICK c : c = b \o z /\ c \in Text /\ (f \o b) \o z = f \o c
  <2>1. b \o z \in Text
    BY ONLY <1>1, <1>3, JoinIs
  <2>2. (f \o b) \o z = f \o (b \o z)
    <3>1. f \in Text /\ b \in Text /\ z \in Text
      BY <1>1, <1>2, <1>3
    <3> QED BY ONLY <3>1, JoinAgain
  <2> QED BY ONLY <2>1, <2>2
<1>6. Bytes(asked) = Bytes(got) \o (f \o c)
  BY <1>3, <1>4, <1>5 DEF Takes
<1>7. Header \in Nat \ {0}
  BY WidthIs DEF Header, Scalar
<1>8. Comes(asked, got, f \o c)
  <2>1. f \o c \in Text /\ Len(f \o c) = Len(f) + Len(c) /\ Len(c) \in Nat
    BY ONLY <1>2, <1>5, JoinIs
  <2>2. f \o c # << >>
    BY <1>2, <1>7, <2>1, EmptySeq
  <2> QED BY <1>6, <2>1, <2>2, FrameAhead
<1>9. PICK m, frame, tail : /\ m \in Messages /\ m = asked[Len(got) + 1] /\ frame = FrameOf(m)
                            /\ frame \in Text /\ Fits(frame) /\ tail \in Text
                            /\ f \o c = Digits(Len(frame), Header) \o (frame \o tail)
                            /\ Len(got) < Len(asked)
  BY <1>8 DEF Comes
<1>10. PICK d, e : /\ d = Digits(Len(frame), Header) /\ d \in Text /\ Len(d) = Header
                   /\ Number(d) = Len(frame) /\ e = frame \o tail /\ e \in Text
                   /\ Framed(frame) = d \o frame /\ Framed(frame) \in Text
  <2>1. PICK d, e : d = Digits(Len(frame), Header) /\ e = frame \o tail
    OBVIOUS
  <2>2. e \in Text
    BY ONLY <1>9, <2>1, JoinIs
  <2>3. d \in Text /\ Len(d) = Header /\ Number(d) = Len(frame) /\ Framed(frame) \in Text
    BY ONLY <1>9, <2>1, FramedIs
  <2>4. Framed(frame) = d \o frame
    BY <2>1 DEF Framed
  <2> QED BY ONLY <2>1, <2>2, <2>3, <2>4
<1>11. f = d /\ c = e
  <2>1. f \o c = d \o e /\ Len(f) = Len(d)
    BY <1>2, <1>9, <1>10
  <2>2. f \in Text /\ c \in Text /\ d \in Text /\ e \in Text
    BY <1>2, <1>5, <1>10
  <2> QED BY ONLY <2>1, <2>2, SameCut
<1>12. b = frame /\ z = tail
  <2>1. b \o z = frame \o tail /\ Len(b) = Len(frame)
    BY <1>1, <1>2, <1>5, <1>10, <1>11
  <2>2. b \in Text /\ z \in Text /\ frame \in Text /\ tail \in Text
    BY <1>1, <1>3, <1>9
  <2> QED BY ONLY <2>1, <2>2, SameCut
<1>13. reader' = Idle /\ got' = got \o <<m>>
  <2>1. Encodable(m)
    BY <1>9, FramingAssumption
  <2>2. LET kinds == {kind \in FrameKinds(frame) : Decodes(kind, FrameBody(frame))}
        IN  /\ kinds # {}
            /\ SetToSeq({[kind |-> kind, body |-> Decode(kind, FrameBody(frame))] :
                           kind \in kinds}) = <<m>>
    <3>1. frame = FrameOf(m)
      BY <1>9
    <3> QED BY ONLY <2>1, <3>1, FrameIs
  <2>3. PayloadRead(frame)
    BY <1>1, <1>12
  <2> QED BY ONLY <2>2, <2>3 DEF PayloadRead
<1>14. PICK n : n \in Nat /\ n = Len(got) /\ got \in Seq(Messages) /\ n < Len(asked) /\ Len(asked) \in Nat
  BY <1>9, LenProperties DEF FrameInv, Begins, Accepted
<1>15. got' = Append(got, m)
  BY <1>9, <1>13, <1>14, AppendIsConcat
<1>16. Accepted(got) /\ Bytes(got') = Bytes(got) \o Framed(frame)
  <2>1. Accepted(got)
    BY InvBytes
  <2> QED BY <1>9, <1>15, <2>1, BytesAppend
<1>17. Begins(asked, got')
  <2>1. /\ got' \in Seq(Messages) /\ Len(got') = n + 1 /\ got'[n + 1] = m
        /\ \A i \in 1..n : got'[i] = got[i]
    BY <1>9, <1>14, <1>15, AppendProperties
  <2>2. \A i \in 1..n : got[i] = asked[i]
    BY <1>14 DEF FrameInv, Begins
  <2>3. ASSUME NEW i \in 1..(n + 1) PROVE got'[i] = asked[i]
    <3>1. CASE i = n + 1
      BY <1>9, <1>14, <2>1, <3>1
    <3>2. CASE i # n + 1
      <4>1. i \in 1..n
        BY <1>14, <3>2
      <4> QED BY <2>1, <2>2, <4>1
    <3> QED BY <3>1, <3>2
  <2>4. n + 1 <= Len(asked)
    BY <1>14
  <2> QED BY ONLY <2>1, <2>3, <2>4 DEF Begins
<1>18. ReaderShape' /\ Reading' /\ Held' = << >>
  BY <1>7, <1>13, EmptySeq DEF Idle, ReaderShape, Reading, Held, Text
<1>19. Bytes(asked) = Bytes(got') \o (Held' \o (y \o rest))
  <2>1. PICK g, w : g = Bytes(got) /\ g \in Text /\ w = d \o frame /\ w \in Text
    BY <1>10, InvBytes
  <2>2. (g \o w) \o z = g \o (w \o z)
    <3>1. g \in Text /\ w \in Text /\ z \in Text
      BY <1>3, <2>1
    <3>2. Again(g, w, z)
      BY ONLY <3>1, AgainIs
    <3> QED BY ONLY <3>2 DEF Again
  <2>3. (d \o frame) \o z = d \o (frame \o z)
    <3>1. d \in Text /\ frame \in Text /\ z \in Text
      BY <1>3, <1>9, <1>10
    <3> QED BY ONLY <3>1, JoinAgain
  <2>4. << >> \o z = z
    BY <1>3, JoinNothing
  <2> QED BY ONLY <1>3, <1>5, <1>6, <1>10, <1>11, <1>12, <1>16, <1>18, <2>1, <2>2, <2>3, <2>4
<1>20. FrameInv'
  BY <1>17, <1>18, <1>19, ReaderMoves
<1> QED BY <1>9, <1>15, <1>20

\* One recv of read_exact: the invariant stands, and the loop is handed nothing or
\* the next message.
LEMMA RecvKeeps ==
  ASSUME FrameInv, NEW k \in 1..Window, Recv(k)
  PROVE  /\ FrameInv'
         /\ \/ got' = got
            \/ Len(got) < Len(asked) /\ got' = Append(got, asked[Len(got) + 1])
<1>1. PICK x, y, rest : Takes(x, y, rest) /\ x = SubSeq(stream, 1, k)
  BY RecvTakes
<1>2. Reading /\ Receives /\ Len(reader.buf \o x) <= reader.need
  BY <1>1 DEF Recv, Receives
<1>3. CASE /\ ~ Complete(reader.buf \o x)
           /\ reader' = [reader EXCEPT !.buf = reader.buf \o x] /\ got' = got
  BY <1>1, <1>2, <1>3, PartRead DEF Complete
<1>4. CASE Complete(reader.buf \o x) /\ reader.phase = "header" /\ HeaderRead(reader.buf \o x)
  BY <1>1, <1>2, <1>4, HeaderIsRead DEF Complete
<1>5. CASE Complete(reader.buf \o x) /\ reader.phase = "payload" /\ PayloadRead(reader.buf \o x)
  BY <1>1, <1>2, <1>5, PayloadIsRead DEF Complete
<1> QED BY <1>1, <1>3, <1>4, <1>5 DEF Recv

\* Every step keeps the invariant.
LEMMA FrameInvNext ==
  ASSUME FrameInv, [Next]_vars
  PROVE  FrameInv'
<1>1. CASE \E m \in Messages : WriteFrame(m)
  BY <1>1, WriteKeeps
<1>2. CASE \E k \in 1..Window : Send(k)
  BY <1>2, SendKeeps
<1>3. CASE \E k \in 1..Window : Recv(k)
  BY <1>3, RecvKeeps
<1>4. CASE SendFails \/ Close
  BY <1>4, WriterEndsKeep
<1>5. CASE Break
  BY <1>5, BreakKeeps
<1>6. CASE RecvEnds
  BY <1>6, RecvEndsKeeps
<1>7. CASE Over \/ UNCHANGED vars
  <2>1. /\ asked' = asked /\ out' = out /\ stream' = stream /\ line' = line
        /\ reader' = reader /\ got' = got
    BY <1>7 DEF Over, vars
  <2>2. Held' = Held /\ Reading' = Reading /\ Failed' = Failed
    BY <2>1 DEF Held, Reading, Failed
  <2>3. ReaderShape' /\ Complements' /\ EndsLast'
    BY <2>1, <2>2 DEF FrameInv, ReaderShape, Complements, EndsLast, Whole
  <2> QED BY <2>1, <2>3 DEF FrameInv
<1> QED BY <1>1, <1>2, <1>3, <1>4, <1>5, <1>6, <1>7 DEF Next

\* The invariant of the connection, at all times.
THEOREM FrameInvariant == Spec => []FrameInv
<1>1. Init => FrameInv
  BY FrameInvInit
<1>2. FrameInv /\ [Next]_vars => FrameInv'
  BY FrameInvNext
<1> QED BY <1>1, <1>2, PTL DEF Spec

-----------------------------------------------------------------------------
(* What the two processes rely on.                                         *)

\* While the connection stands, the bytes of the messages write_frame began are
\* the bytes of those the loop was handed, the bytes read_frame holds, those in the
\* sockets and those write_all has left: whatever the sizes of the pieces, neither
\* end loses its place in the stream.
THEOREM BytesConservedTheorem == Spec => []BytesConserved
<1>1. FrameInv => BytesConserved
  <2>1. SUFFICES ASSUME FrameInv, ~ Failed
                 PROVE  Bytes(asked) = ((Bytes(got) \o Held) \o stream) \o out
    BY DEF BytesConserved
  <2>2. PICK g, h, s, o : /\ g = Bytes(got) /\ h = Held /\ s = stream /\ o = out
                          /\ g \in Text /\ h \in Text /\ s \in Text /\ o \in Text
    BY <2>1, InvBytes
  <2>3. Bytes(asked) = g \o (h \o (s \o o))
    <3>1. CASE Reading
      BY <2>1, <2>2, <3>1 DEF FrameInv, Complements, Whole
    <3>2. CASE ~ Reading
      <4>1. s = << >> /\ o = << >> /\ h = << >> /\ Bytes(asked) = g
        BY <2>1, <2>2, <3>2 DEF FrameInv, EndsLast, ReaderShape, Reading, Held
      <4>2. << >> \o << >> = << >> /\ g \o << >> = g
        BY <2>2, <4>1, JoinNothing
      <4> QED BY ONLY <4>1, <4>2
    <3> QED BY <3>1, <3>2
  <2>4. (g \o (h \o s)) \o o = g \o (h \o (s \o o))
    <3>1. Lengthens(g, h, s, o)
      BY ONLY <2>2, LengthensIs
    <3> QED BY <3>1 DEF Lengthens
  <2>5. (g \o h) \o s = g \o (h \o s)
    <3>1. g \in Text /\ h \in Text /\ s \in Text
      BY <2>2
    <3>2. Again(g, h, s)
      BY ONLY <3>1, AgainIs
    <3> QED BY ONLY <3>2 DEF Again
  <2> QED BY ONLY <2>2, <2>3, <2>4, <2>5
<1> QED BY <1>1, FrameInvariant, PTL

\* read_frame never meets a length over the limit or of nothing, and no decoder
\* throws, on what write_frame sent: the server's loops never end, and the worker's
\* never skips a message, over a frame of the other side.
THEOREM NeverRefusedTheorem == Spec => []NeverRefused
<1>1. FrameInv => NeverRefused
  BY DEF FrameInv, ReaderShape, NeverRefused
<1> QED BY <1>1, FrameInvariant, PTL

\* A message that is being written does not decode from less than all of its
\* bytes: every decoder finds out that the buffer ends within one of its fields.
THEOREM CutIsMalformedTheorem == Spec => []CutIsMalformed
<1>1. FrameInv => CutIsMalformed
  <2>1. SUFFICES ASSUME FrameInv, out # << >>,
                        NEW n \in 0..(Len(Payload(Last(asked))) - 1)
                 PROVE  ~ Decodes(Last(asked).kind, SubSeq(Payload(Last(asked)), 1, n))
    BY DEF CutIsMalformed
  <2>2. PICK m : m = Last(asked) /\ Encodable(m)
    <3>1. asked \in Seq(Messages) /\ asked # << >>
      BY <2>1 DEF FrameInv, Accepted
    <3>2. Len(asked) \in Nat /\ Len(asked) # 0
      BY <3>1, LenProperties, EmptySeq
    <3>3. asked[Len(asked)] \in Messages
      BY <3>1, <3>2, ElementOfSeq
    <3> QED BY <3>3, FramingAssumption DEF Last
  <2> QED BY <2>2, PayloadCut
<1> QED BY <1>1, FrameInvariant, PTL

\* A connection is the channel it stands for, step by step: write_frame accepts a
\* message, the last byte of a frame hands it over, and a cut or a reset is the
\* failure of the channel; the loop is handed the messages whole, in order, none
\* twice and none made up.
THEOREM ChannelSafety == Spec => Channel!Init /\ [][Channel!Next]_(Channel!vars)
<1>1. Init => Channel!Init
  BY DEF Init, Channel!Init, Failed
<1>2. FrameInv /\ [Next]_vars => [Channel!Next]_(Channel!vars)
  <2>1. SUFFICES ASSUME FrameInv, [Next]_vars PROVE [Channel!Next]_(Channel!vars)
    OBVIOUS
  <2>2. CASE \E m \in Messages : WriteFrame(m)
    <3>1. PICK m \in Messages : WriteFrame(m)
      BY <2>2
    <3>2. ~ Failed /\ asked' = Append(asked, m) /\ got' = got /\ Failed' = Failed
      BY <3>1 DEF WriteFrame, Failed
    <3> QED BY <3>2 DEF Channel!Next, Channel!Accept
  <2>3. CASE \E k \in 1..Window : Recv(k)
    <3>1. PICK k \in 1..Window : Recv(k)
      BY <2>3
    <3>2. asked' = asked /\ Failed' = Failed
      BY <3>1 DEF Recv, Failed
    <3>3. \/ got' = got
          \/ Len(got) < Len(asked) /\ got' = Append(got, asked[Len(got) + 1])
      BY <2>1, <3>1, RecvKeeps
    <3> QED BY <3>2, <3>3 DEF Channel!Next, Channel!Deliver, Channel!vars
  <2>4. CASE Close \/ Break
    <3>1. asked' = asked /\ got' = got
      BY <2>4 DEF Close, Break
    <3>2. Failed' = TRUE \/ Failed' = Failed
      BY <2>4 DEF Close, Break, Failed
    <3> QED BY <3>1, <3>2 DEF Channel!Next, Channel!Fail, Channel!vars
  <2>5. CASE \/ \E k \in 1..Window : Send(k)
             \/ SendFails \/ RecvEnds \/ Over \/ UNCHANGED vars
    <3>1. asked' = asked /\ got' = got /\ Failed' = Failed
      BY <2>5 DEF Send, SendFails, RecvEnds, Over, vars, Failed
    <3> QED BY <3>1 DEF Channel!vars
  <2> QED BY <2>1, <2>2, <2>3, <2>4, <2>5 DEF Next
<1> QED BY <1>1, <1>2, FrameInvariant, PTL DEF Spec
=============================================================================
