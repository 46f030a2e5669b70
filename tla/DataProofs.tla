----------------------------- MODULE DataProofs -----------------------------
(***************************************************************************)
(* Theorems about the modules that are about data more than about          *)
(* processes: StatesFile, for every set of ids and data and any number of  *)
(* crashes; Panel, for every set of pictures, whatever their size and      *)
(* speed, however often a frame is drawn and however fine the wave is; and *)
(* Base64, for texts of any length.                                        *)
(***************************************************************************)
EXTENDS StatesFile, Panel, Codec, FiniteSetTheorems, SequenceTheorems, TLAPS

-----------------------------------------------------------------------------
(* Induction over the naturals, for sets of them.                          *)
LEMMA Induction ==
  ASSUME NEW S \in SUBSET Nat, 0 \in S, \A n \in S : n + 1 \in S
  PROVE  S = Nat
<1> DEFINE T == Nat \ S
           Less == OpToRel(<, Nat)
<1>1. SUFFICES ASSUME T # {} PROVE FALSE
  OBVIOUS
<1>2. IsWellFoundedOn(Less, Nat) /\ \A m, n \in Nat : m < n => <<m, n>> \in Less
  BY NatLessThanWellFounded DEF OpToRel
<1>3. T \subseteq Nat
  OBVIOUS
<1> HIDE DEF Less, T
<1>4. PICK n \in T : \A m \in T : ~(<<m, n>> \in Less)
  <2>1. IsWellFoundedOn(Less, Nat) /\ T \subseteq Nat /\ T # {}
    BY <1>1, <1>2, <1>3
  <2>2. \E n \in T : \A m \in T : ~(<<m, n>> \in Less)
    BY <2>1, WFMin
  <2> QED
    BY <2>2
<1>5. n \in Nat /\ n \notin S /\ n # 0
  BY <1>4 DEF T
<1>6. n - 1 \in Nat /\ n - 1 < n /\ (n - 1) + 1 = n
  BY <1>5
<1>7. n - 1 \in S
  BY <1>2, <1>4, <1>5, <1>6 DEF T
<1> QED
  BY <1>5, <1>6, <1>7

(* The same for the numbers up to n.                                       *)
LEMMA InductionUpTo ==
  ASSUME NEW n \in Nat, NEW S, 0 \in S, \A k \in 1..n : k - 1 \in S => k \in S
  PROVE  \A k \in 0..n : k \in S
<1> DEFINE T == {k \in Nat : k <= n => k \in S}
<1>1. 0 \in T
  OBVIOUS
<1>2. ASSUME NEW k \in T PROVE k + 1 \in T
  <2>1. k \in Nat /\ k + 1 \in Nat /\ (k + 1) - 1 = k
    OBVIOUS
  <2>2. ASSUME k + 1 <= n PROVE k + 1 \in S
    <3>1. k + 1 \in 1..n /\ k \in S
      BY <2>1, <2>2
    <3> QED
      BY <2>1, <3>1
  <2> QED
    BY <2>1, <2>2
<1>3. T = Nat
  <2> HIDE DEF T
  <2>1. T \subseteq Nat
    BY DEF T
  <2> QED
    BY <1>1, <1>2, <2>1, Induction
<1>4. ASSUME NEW k \in 0..n PROVE k \in S
  <2>1. k \in Nat /\ k <= n
    OBVIOUS
  <2>2. k \in T
    <3> HIDE DEF T
    <3> QED
      BY <1>3, <2>1
  <2> QED
    BY <2>1, <2>2
<1> QED
  BY <1>4

(* A function that is defined by recursion on the naturals up to n.        *)
Recurses(f, n, V, v, g) ==
    f \in [0..n -> V] /\ f[0] = v /\ \A k \in 1..n : f[k] = g[k][f[k - 1]]

LEMMA Recursion ==
  ASSUME NEW n \in Nat, NEW V, NEW v \in V, NEW g \in [1..n -> [V -> V]]
  PROVE  \E f : Recurses(f, n, V, v, g)
<1> DEFINE Upto(m, f) == Recurses(f, m, V, v, g)
           S == {m \in Nat : m <= n => \E f : Upto(m, f)}
<1>1. 0 \in S
  <2> DEFINE f == [k \in 0..0 |-> v]
  <2>1. Upto(0, f)
    BY DEF Recurses
  <2> HIDE DEF Upto, f
  <2> QED
    BY <2>1
<1>2. ASSUME NEW m \in S PROVE m + 1 \in S
  <2>1. m \in Nat /\ m + 1 \in Nat
    OBVIOUS
  <2>2. ASSUME m + 1 <= n PROVE \E h : Upto(m + 1, h)
    <3>1. PICK f : f \in [0..m -> V] /\ f[0] = v /\ \A k \in 1..m : f[k] = g[k][f[k - 1]]
      <4>1. m <= n
        BY <2>1, <2>2
      <4> QED
        BY <4>1 DEF S, Recurses
    <3>2. m + 1 \in 1..n /\ 0..m + 1 = (0..m) \union {m + 1} /\ m + 1 \notin 0..m /\ m \in 0..m
      BY <2>1, <2>2
    <3> DEFINE h == [k \in 0..m + 1 |-> IF k = m + 1 THEN g[m + 1][f[m]] ELSE f[k]]
    <3>3. h \in [0..m + 1 -> V] /\ h[0] = v
      BY <2>1, <3>1, <3>2
    <3>4. ASSUME NEW k \in 1..m + 1 PROVE h[k] = g[k][h[k - 1]]
      <4>1. k - 1 \in 0..m /\ k - 1 # m + 1 /\ k - 1 \in 0..m + 1 /\ k \in 0..m + 1
        BY <2>1
      <4>2. h[k - 1] = f[k - 1]
        BY <4>1
      <4>3. CASE k = m + 1
        BY <4>1, <4>2, <4>3
      <4>4. CASE k # m + 1
        <5>1. k \in 1..m
          BY <2>1, <4>4
        <5> QED
          BY <3>1, <4>1, <4>2, <4>4, <5>1
      <4> QED
        BY <4>3, <4>4
    <3>5. Upto(m + 1, h)
      <4> HIDE DEF h
      <4> QED
        BY <3>3, <3>4 DEF Recurses
    <3> HIDE DEF h, Upto
    <3> QED
      BY <3>5
  <2> HIDE DEF Upto
  <2> QED
    BY <2>1, <2>2
<1>3. S = Nat
  <2> HIDE DEF S
  <2>1. S \subseteq Nat
    BY DEF S
  <2> QED
    BY <1>1, <1>2, <2>1, Induction
<1>4. n \in S
  BY <1>3
<1> QED
  BY <1>4

(* A set of naturals has a least one.                                      *)
LEMMA Least ==
  ASSUME NEW S \in SUBSET Nat, S # {}
  PROVE  Min(S) \in S /\ \A y \in S : Min(S) <= y
<1> DEFINE Below == {n \in Nat : \A y \in S : n <= y}
<1>1. PICK x \in S : \A y \in S : x <= y
  <2>1. SUFFICES ASSUME \A x \in S : \E y \in S : ~(x <= y) PROVE FALSE
    OBVIOUS
  <2>2. 0 \in Below
    OBVIOUS
  <2>3. ASSUME NEW n \in Below PROVE n + 1 \in Below
    <3>1. n \notin S
      BY <2>1
    <3>2. ASSUME NEW y \in S PROVE n + 1 <= y
      BY <3>1
    <3> QED
      BY <3>2
  <2>4. Below = Nat
    <3> HIDE DEF Below
    <3>1. Below \subseteq Nat
      BY DEF Below
    <3> QED
      BY <2>2, <2>3, <3>1, Induction
  <2>5. PICK y \in S : TRUE
    OBVIOUS
  <2>6. y + 1 \in Nat /\ ~(y + 1 <= y)
    OBVIOUS
  <2> QED
    BY <2>4, <2>5, <2>6
<1> QED
  BY <1>1 DEF Min

-----------------------------------------------------------------------------
(* What a quotient and a remainder are.                                    *)
LEMMA Division ==
    ASSUME NEW n \in Int, NEW d \in Nat \ {0}
    PROVE  /\ n \div d \in Int /\ n % d \in 0..(d - 1)
           /\ n = (d * (n \div d)) + (n % d)
OBVIOUS

(* There is only one of each.                                              *)
LEMMA DivisionUnique ==
    ASSUME NEW n \in Int, NEW d \in Nat \ {0}, NEW q \in Int, NEW r \in 0..(d - 1), n = d * q + r
    PROVE  n \div d = q /\ n % d = r
OBVIOUS

-----------------------------------------------------------------------------
(* The states file.                                                        *)
Strings == Seq(Nat)

-----------------------------------------------------------------------------
(* The inductive invariant.                                                *)
Typed ==
    /\ phase \in {"down", "starting", "up", "saving", "stopping"}
    /\ file \in Strings /\ out \in Strings
    /\ torn \in BOOLEAN

Keyed ==
    /\ DOMAIN states \subseteq Strings /\ IsFiniteSet(DOMAIN states)
    /\ \A i \in DOMAIN states : states[i] \in Strings

(* Nothing is there to be saved before the states were loaded.             *)
Fresh == phase = "starting" => Entries(states) = {} /\ snapshot = {}

(* While a save is going on, the file and what is still in the ofstream    *)
(* are together what it writes.                                            *)
Midway ==
    phase \in {"saving", "stopping"} =>
        torn /\ \E q \in SetToSeqs(Entries(states)) : file \o out = Written(q)

Inv == Typed /\ Keyed /\ Fresh /\ Midway /\ Durable /\ SnapshotIsFile

-----------------------------------------------------------------------------
(* The image of a finite set is finite.                                    *)
LEMMA Image ==
    ASSUME NEW S, IsFiniteSet(S), NEW f, DOMAIN f = S
    PROVE  IsFiniteSet({f[x] : x \in S})
<1> DEFINE T == {f[x] : x \in S}
<1>1. [x \in S |-> f[x]] \in Surjection(S, T)
  BY DEF Surjection
<1> QED
  BY <1>1, FS_Surjection

(* Concatenation is associative.                                           *)
LEMMA Regrouped == \A s, t, u \in Seq(Nat) : (s \o t) \o u = s \o (t \o u)
  BY ConcatAssociative

(* Entries are strings, and finitely many.                                 *)
LEMMA EntriesAreStrings ==
    ASSUME Keyed
    PROVE  Entries(states) \subseteq Strings /\ IsFiniteSet(Entries(states))
<1> DEFINE f == [i \in DOMAIN states |-> i \o <<Newline>> \o states[i]]
<1>1. \A i \in DOMAIN states : f[i] \in Strings
  <2> TAKE i \in DOMAIN states
  <2>1. i \in Seq(Nat) /\ states[i] \in Seq(Nat) /\ <<Newline>> \in Seq(Nat)
    BY DEF Keyed, Strings, Newline
  <2>2. i \o <<Newline>> \in Seq(Nat)
    BY <2>1, ConcatProperties
  <2> QED
    BY <2>1, <2>2, ConcatProperties DEF Strings
<1>2. Entries(states) = {f[i] : i \in DOMAIN states}
  BY DEF Entries
<1> HIDE DEF f
<1>3. IsFiniteSet(Entries(states))
  <2>1. DOMAIN f = DOMAIN states
    BY DEF f
  <2> QED
    BY <2>1, <1>2, Image DEF Keyed
<1> QED
  BY <1>1, <1>2, <1>3

(* A list of a finite set without repetitions has all of its elements.     *)
LEMMA ListsHaveAll ==
    ASSUME NEW S, IsFiniteSet(S), S \subseteq Strings, NEW q \in SetToSeqs(S)
    PROVE  q \in Seq(Strings) /\ Range(q) = S
<1> DEFINE D == 1..Cardinality(S)
<1>1. Cardinality(S) \in Nat
  BY FS_CardinalityType
<1>2. q \in [D -> S] /\ \A i, j \in D : i # j => q[i] # q[j]
  BY DEF SetToSeqs
<1>3. q \in Injection(D, S)
  BY <1>2 DEF Injection, IsInjective
<1>4. IsFiniteSet(D) /\ Cardinality(D) = Cardinality(S)
  <2>1. IsFiniteSet(1..Cardinality(S)) /\ Cardinality(1..Cardinality(S)) = IF 1 > Cardinality(S) THEN 0 ELSE Cardinality(S) - 1 + 1
    BY <1>1, FS_Interval
  <2> QED
    BY <1>1, <2>1
<1>5. q \in Surjection(D, S)
  BY <1>3, <1>4, FS_Injection
<1>6. Range(q) = S
  BY <1>2, <1>5 DEF Surjection, Range
<1>7. q \in Seq(Strings)
  <2>1. q \in Seq(S)
    BY <1>1, <1>2
  <2> QED
    BY <2>1, SeqMonotonic
<1> QED
  BY <1>6, <1>7

(* Where a string is cut in two: a position of it, or 0.                   *)
LEMMA Cut ==
    ASSUME NEW e \in Strings
    PROVE  SelectInSeq(e, LAMBDA b : b = Newline) \in 0..Len(e)
<1> DEFINE I == {i \in 1..Len(e) : e[i] = Newline}
<1>1. Len(e) \in Nat
  BY DEF Strings
<1>2. CASE I = {}
  BY <1>1, <1>2 DEF SelectInSeq
<1>3. CASE I # {}
  <2>1. I \in SUBSET Nat
    OBVIOUS
  <2>2. Min(I) \in I
    <3> HIDE DEF I
    <3> QED
      BY <1>3, <2>1, Least
  <2> QED
    BY <1>1, <1>3, <2>2 DEF SelectInSeq
<1> QED
  BY <1>2, <1>3

(* The id and the data of a string are strings.                            *)
LEMMA PartsAreStrings ==
    ASSUME NEW e \in Strings
    PROVE  Id(e) \in Strings /\ DataOf(e) \in Strings
<1> DEFINE i == SelectInSeq(e, LAMBDA b : b = Newline)
<1>1. i \in 0..Len(e) /\ Len(e) \in Nat
  BY Cut DEF Strings, SelectInSeq
<1>2. Id(e) = IF i = 0 THEN e ELSE SubSeq(e, 1, i - 1)
  BY DEF Id
<1>3. DataOf(e) = SubSeq(e, i + 1, Len(e))
  BY DEF DataOf
<1> HIDE DEF i
<1>4. SubSeq(e, 1, i - 1) \in Seq(Nat) /\ SubSeq(e, i + 1, Len(e)) \in Seq(Nat)
  <2>1. i - 1 \in Int /\ i + 1 \in Int
    BY <1>1
  <2>2. \A k \in 1..i - 1 : e[k] \in Nat
    BY <1>1 DEF Strings
  <2>3. \A k \in i + 1..Len(e) : e[k] \in Nat
    BY <1>1 DEF Strings
  <2> QED
    BY <1>1, <2>1, <2>2, <2>3, SubSeqProperties
<1> QED
  BY <1>2, <1>3, <1>4 DEF Strings

-----------------------------------------------------------------------------
(* The encoding: what saveSet() writes, loadSet() reads.                   *)
LEMMA Joined ==
  ASSUME NEW s \in Strings, NEW t \in Strings
  PROVE  /\ s \o t \in Strings /\ Len(s \o t) = Len(s) + Len(t) /\ Len(s) \in Nat /\ Len(t) \in Nat
         /\ \A j \in 1..Len(s) : (s \o t)[j] = s[j]
         /\ \A j \in 1..Len(t) : (s \o t)[Len(s) + j] = t[j]
<1>1. Len(s) \in Nat /\ Len(t) \in Nat /\ s \in Seq(Nat) /\ t \in Seq(Nat)
  BY LenProperties DEF Strings
<1>2. /\ s \o t \in Seq(Nat) /\ Len(s \o t) = Len(s) + Len(t)
      /\ \A j \in 1..Len(s) + Len(t) : (s \o t)[j] = IF j <= Len(s) THEN s[j] ELSE t[j - Len(s)]
  BY <1>1, ConcatProperties
<1>3. ASSUME NEW j \in 1..Len(t) PROVE (s \o t)[Len(s) + j] = t[j]
  <2>1. Len(s) + j \in 1..Len(s) + Len(t) /\ ~(Len(s) + j <= Len(s)) /\ (Len(s) + j) - Len(s) = j
    BY <1>1
  <2> QED
    BY <1>2, <2>1
<1>4. ASSUME NEW j \in 1..Len(s) PROVE (s \o t)[j] = s[j]
  <2>1. j \in 1..Len(s) + Len(t) /\ j <= Len(s)
    BY <1>1
  <2> QED
    BY <1>2, <2>1
<1> QED
  BY <1>1, <1>2, <1>3, <1>4 DEF Strings

(* ... and taken apart again.                                              *)
LEMMA Parted ==
  ASSUME NEW s \in Strings, NEW t \in Strings
  PROVE  SubSeq(s \o t, 1, Len(s)) = s /\ SubSeq(s \o t, Len(s) + 1, Len(s \o t)) = t
<1> DEFINE x == s \o t
           y == SubSeq(x, 1, Len(s))
           z == SubSeq(x, Len(s) + 1, Len(x))
<1>1. /\ x \in Strings /\ Len(x) = Len(s) + Len(t) /\ Len(s) \in Nat /\ Len(t) \in Nat
      /\ \A j \in 1..Len(s) : x[j] = s[j]
      /\ \A j \in 1..Len(t) : x[Len(s) + j] = t[j]
  BY Joined
<1> HIDE DEF x
<1>2. ASSUME NEW j \in 1..Len(x) PROVE x[j] \in Nat
  BY <1>1, ElementOfSeq DEF Strings
<1>3. y \in Strings /\ Len(y) = Len(s) /\ \A j \in 1..Len(s) : y[j] = x[j]
  <2>1. \A j \in 1..Len(s) : x[j] \in Nat
    BY <1>1, <1>2
  <2>2. 1 \in Int /\ Len(s) \in Int
    BY <1>1
  <2>3. /\ y \in Seq(Nat) /\ Len(y) = IF 1 <= Len(s) THEN Len(s) - 1 + 1 ELSE 0
        /\ \A j \in 1..Len(s) - 1 + 1 : y[j] = x[1 + j - 1]
    BY <2>1, <2>2, SubSeqProperties
  <2> HIDE DEF y
  <2>4. ASSUME NEW j \in 1..Len(s) PROVE y[j] = x[j]
    <3>1. j \in 1..Len(s) - 1 + 1 /\ 1 + j - 1 = j
      BY <1>1
    <3> QED
      BY <2>3, <3>1
  <2> QED
    BY <1>1, <2>3, <2>4 DEF Strings
<1>4. z \in Strings /\ Len(z) = Len(t) /\ \A j \in 1..Len(t) : z[j] = x[Len(s) + j]
  <2>1. \A j \in Len(s) + 1..Len(x) : x[j] \in Nat
    BY <1>1, <1>2
  <2>2. Len(s) + 1 \in Int /\ Len(x) \in Int
    BY <1>1
  <2>3. /\ z \in Seq(Nat) /\ Len(z) = IF Len(s) + 1 <= Len(x) THEN Len(x) - (Len(s) + 1) + 1 ELSE 0
        /\ \A j \in 1..Len(x) - (Len(s) + 1) + 1 : z[j] = x[Len(s) + 1 + j - 1]
    BY <2>1, <2>2, SubSeqProperties
  <2> HIDE DEF z
  <2>4. ASSUME NEW j \in 1..Len(t) PROVE z[j] = x[Len(s) + j]
    <3>1. j \in 1..Len(x) - (Len(s) + 1) + 1 /\ Len(s) + 1 + j - 1 = Len(s) + j
      BY <1>1
    <3> QED
      BY <2>3, <3>1
  <2> QED
    BY <1>1, <2>3, <2>4 DEF Strings
<1> HIDE DEF y, z
<1>5. y = s
  BY <1>1, <1>3, SeqEqual DEF Strings
<1>6. z = t
  BY <1>1, <1>4, SeqEqual DEF Strings
<1> QED
  BY <1>5, <1>6 DEF x, y, z

(* The value of digits, from the last one.                                 *)
Valued(w, v) ==
    /\ v \in [0..Len(w) -> Nat] /\ v[0] = 0
    /\ \A k \in 1..Len(w) : v[k] = (w[Len(w) - k + 1] % Base) + Base * v[k - 1]

LEMMA BaseIs == Base \in Nat \ {0} /\ Base >= 2 /\ \A k \in Nat : k % Base \in Nat /\ Base * k \in Nat
<1>1. Base \in Nat \ {0} /\ Base >= 2
  BY FileAssumption
<1>2. ASSUME NEW k \in Nat PROVE k % Base \in Nat
  BY <1>1, Division
<1>3. ASSUME NEW k \in Nat PROVE Base * k \in Nat
  BY <1>1
<1> QED
  BY <1>1, <1>2, <1>3

LEMMA ValueIs ==
  ASSUME NEW w \in Strings
  PROVE  \E v : Valued(w, v) /\ Value(w) = v[Len(w)]
<1> DEFINE n == Len(w)
           d(k) == w[n - k + 1] % Base
           g == [k \in 1..n |-> [t \in Nat |-> d(k) + Base * t]]
           Body(x) == [k \in 0..n |-> IF k = 0 THEN 0 ELSE d(k) + Base * x[k - 1]]
<1>1. n \in Nat
  BY LenProperties DEF Strings
<1>2. ASSUME NEW k \in 1..n PROVE d(k) \in Nat
  <2>1. n - k + 1 \in 1..n
    BY <1>1
  <2>2. w[n - k + 1] \in Nat
    BY <2>1, ElementOfSeq DEF Strings
  <2> QED
    BY <2>2, BaseIs
<1>3. g \in [1..n -> [Nat -> Nat]]
  <2>1. ASSUME NEW k \in 1..n, NEW t \in Nat PROVE d(k) + Base * t \in Nat
    <3>1. d(k) \in Nat /\ Base * t \in Nat
      BY <1>2, BaseIs
    <3> HIDE DEF d
    <3> QED
      BY <3>1
  <2> HIDE DEF d
  <2> QED
    BY <2>1
<1>4. PICK f : f \in [0..n -> Nat] /\ f[0] = 0 /\ \A k \in 1..n : f[k] = g[k][f[k - 1]]
  <2> HIDE DEF g, n
  <2>1. \E f : Recurses(f, n, Nat, 0, g)
    BY <1>1, <1>3, Recursion
  <2> QED
    BY <2>1 DEF Recurses
<1>5. f = Body(f)
  <2>1. ASSUME NEW k \in 1..n PROVE f[k] = d(k) + Base * f[k - 1]
    <3>1. k - 1 \in 0..n
      BY <1>1
    <3>2. f[k - 1] \in Nat /\ f[k] = g[k][f[k - 1]]
      BY <1>4, <3>1
    <3> HIDE DEF d, n
    <3> QED
      BY <3>2
  <2>2. \A k \in 0..n : k # 0 => k \in 1..n
    BY <1>1
  <2>3. f = [k \in 0..n |-> f[k]]
    BY <1>4
  <2> HIDE DEF g, n, d
  <2>4. \A k \in 0..n : f[k] = IF k = 0 THEN 0 ELSE d(k) + Base * f[k - 1]
    BY <1>4, <2>1, <2>2
  <2> QED
    BY <2>3, <2>4
<1> DEFINE u == CHOOSE x : x = Body(x)
<1>6. Value(w) = u[n]
  BY DEF Value
<1>7. u = Body(u)
  <2> HIDE DEF Body
  <2> QED
    BY <1>5
<1>8. ASSUME NEW x, x = Body(x)
      PROVE  /\ x[0] = 0 /\ \A k \in 1..n : x[k] = d(k) + Base * x[k - 1]
             /\ x = [k \in 0..n |-> x[k]]
  <2>1. 0 \in 0..n /\ \A k \in 1..n : k \in 0..n /\ k # 0
    BY <1>1
  <2> HIDE DEF n, d
  <2> QED
    BY <1>8, <2>1
<1>9. u[0] = 0 /\ (\A k \in 1..n : u[k] = d(k) + Base * u[k - 1]) /\ u = [k \in 0..n |-> u[k]]
  <2> HIDE DEF Body, n, d, u
  <2> QED
    BY <1>7, <1>8
<1>a. ASSUME NEW x, x[0] = 0, \A k \in 1..n : x[k] = d(k) + Base * x[k - 1]
      PROVE  \A k \in 0..n : x[k] \in Nat
  <2> DEFINE S == {k \in 0..n : x[k] \in Nat}
  <2>1. 0 \in S
    BY <1>1, <1>a
  <2>2. ASSUME NEW k \in 1..n, k - 1 \in S PROVE k \in S
    <3>1. x[k - 1] \in Nat /\ x[k] = d(k) + Base * x[k - 1] /\ d(k) \in Nat
      BY <1>2, <1>a, <2>2
    <3>2. Base * x[k - 1] \in Nat
      BY <3>1, BaseIs
    <3> HIDE DEF d
    <3>3. x[k] \in Nat
      BY <3>1, <3>2
    <3> QED
      BY <1>1, <3>3
  <2> HIDE DEF S
  <2>3. \A k \in 0..n : k \in S
    BY <1>1, <2>1, <2>2, InductionUpTo
  <2> QED
    BY <2>3 DEF S
<1>b. \A k \in 0..n : u[k] \in Nat
  <2> HIDE DEF d, n, u
  <2> QED
    BY <1>9, <1>a
<1>c. u \in [0..n -> Nat]
  <2> HIDE DEF d, n, u
  <2> QED
    BY <1>9, <1>b
<1>d. Valued(w, u)
  <2> HIDE DEF u
  <2> QED
    BY <1>9, <1>c DEF Valued
<1> HIDE DEF u
<1> QED
  BY <1>6, <1>d

LEMMA ValueNat == ASSUME NEW w \in Strings PROVE Value(w) \in Nat
<1>1. PICK v : Valued(w, v) /\ Value(w) = v[Len(w)]
  BY ValueIs
<1>2. Len(w) \in 0..Len(w)
  BY LenProperties DEF Strings
<1> QED
  BY <1>1, <1>2 DEF Valued

(* A digit in front of others.                                             *)
LEMMA ValueStep ==
  ASSUME NEW w \in Strings, NEW b \in Nat
  PROVE  /\ <<b>> \o w \in Strings /\ Value(<<b>> \o w) = (b % Base) + Base * Value(w)
         /\ <<b>> \in Strings /\ Value(<<b>>) = b % Base
<1> DEFINE h == <<b>>
           x == h \o w
           n == Len(w)
<1>1. h \in Strings /\ Len(h) = 1 /\ h[1] = b
  BY DEF Strings
<1>2. PICK v : Valued(w, v) /\ Value(w) = v[n]
  BY ValueIs
<1> HIDE DEF h
<1>3. /\ x \in Strings /\ Len(x) = 1 + n /\ n \in Nat /\ x[1] = b
      /\ \A j \in 1..n : x[1 + j] = w[j]
  <2>1. /\ x \in Strings /\ Len(x) = Len(h) + Len(w) /\ Len(w) \in Nat
        /\ \A j \in 1..Len(h) : x[j] = h[j]
        /\ \A j \in 1..Len(w) : x[Len(h) + j] = w[j]
    BY <1>1, Joined
  <2> HIDE DEF x
  <2> QED
    BY <1>1, <2>1
<1> HIDE DEF x, n
<1>4. PICK u : Valued(x, u) /\ Value(x) = u[Len(x)]
  BY <1>3, ValueIs
<1>5. \A k \in 0..n : u[k] = v[k]
  <2> DEFINE S == {k \in 0..n : u[k] = v[k]}
  <2>1. 0 \in S
    BY <1>2, <1>3, <1>4 DEF Valued
  <2>2. ASSUME NEW k \in 1..n, k - 1 \in S PROVE k \in S
    <3>1. k \in 1..Len(w) /\ k \in 1..Len(x) /\ n - k + 1 \in 1..n /\ Len(x) - k + 1 = 1 + (n - k + 1)
          /\ k \in 0..n
      BY <1>3 DEF n
    <3>2. x[Len(x) - k + 1] = w[n - k + 1]
      BY <1>3, <3>1
    <3>3. u[k - 1] = v[k - 1]
      BY <2>2
    <3>4. u[k] = (x[Len(x) - k + 1] % Base) + Base * u[k - 1]
      BY <1>4, <3>1 DEF Valued
    <3>5. v[k] = (w[n - k + 1] % Base) + Base * v[k - 1]
      BY <1>2, <3>1 DEF Valued, n
    <3>6. u[k] = v[k]
      BY <3>2, <3>3, <3>4, <3>5
    <3> QED
      BY <3>1, <3>6
  <2> HIDE DEF S
  <2>3. \A k \in 0..n : k \in S
    BY <1>3, <2>1, <2>2, InductionUpTo
  <2> QED
    BY <2>3 DEF S
<1>6. Value(x) = (b % Base) + Base * Value(w)
  <2>1. Len(x) \in 1..Len(x) /\ Len(x) - Len(x) + 1 = 1 /\ Len(x) - 1 = n /\ n \in 0..n
    BY <1>3
  <2>2. u[Len(x)] = (x[Len(x) - Len(x) + 1] % Base) + Base * u[Len(x) - 1]
    BY <1>4, <2>1 DEF Valued
  <2>3. u[Len(x)] = (b % Base) + Base * u[n]
    BY <1>3, <2>1, <2>2
  <2> QED
    BY <1>2, <1>4, <1>5, <2>1, <2>3
<1>7. Value(h) = b % Base
  <2>1. PICK t : Valued(h, t) /\ Value(h) = t[1]
    BY <1>1, ValueIs
  <2>2. 1 \in 1..Len(h) /\ Len(h) - 1 + 1 = 1 /\ 1 - 1 = 0
    BY <1>1
  <2>3. t[1] = (h[Len(h) - 1 + 1] % Base) + Base * t[1 - 1] /\ t[0] = 0
    BY <2>1, <2>2 DEF Valued
  <2>4. t[1] = (b % Base) + Base * 0
    BY <1>1, <2>2, <2>3
  <2>5. b % Base \in Nat /\ Base * 0 = 0
    BY BaseIs
  <2> QED
    BY <2>1, <2>4, <2>5
<1> QED
  BY <1>1, <1>3, <1>6, <1>7 DEF h, x

(* A length prefix: its last digit is below Base, no other one is, and it  *)
(* has the value of the length.                                            *)
Spells(w, n) ==
    /\ w \in Strings /\ Len(w) \in Nat \ {0} /\ w[Len(w)] < Base
    /\ \A i \in 1..Len(w) - 1 : w[i] >= Base
    /\ Value(w) = n

LEMMA Shrinks ==
  ASSUME NEW k \in Nat, k >= Base
  PROVE  k \div Base \in 0..(k - 1) /\ k = (Base * (k \div Base)) + (k % Base) /\ k % Base \in Nat
<1> DEFINE q == k \div Base
           r == k % Base
<1>1. Base \in Nat /\ Base >= 2 /\ q \in Int /\ r \in 0..(Base - 1) /\ k = (Base * q) + r
  BY BaseIs, Division
<1> HIDE DEF q, r
<1>2. q >= 0
  <2>1. SUFFICES ASSUME q <= -1 PROVE FALSE
    BY <1>1
  <2>2. Base * q <= Base * (-1)
    BY <1>1, <2>1
  <2> QED
    BY <1>1, <2>2
<1>3. q < k
  <2>1. SUFFICES ASSUME q >= k PROVE FALSE
    BY <1>1
  <2>2. Base * q >= 2 * q
    BY <1>1, <1>2
  <2> QED
    BY <1>1, <1>2, <2>1, <2>2
<1> QED
  BY <1>1, <1>2, <1>3 DEF q, r

LEMMA SpellsMore ==
  ASSUME NEW k \in Nat, k >= Base, NEW w, Spells(w, k \div Base)
  PROVE  Spells(<<Base + (k % Base)>> \o w, k)
<1> DEFINE b == Base + (k % Base)
           x == <<b>> \o w
<1>1. k % Base \in 0..(Base - 1) /\ Base \in Nat \ {0} /\ b \in Nat /\ b >= Base
  BY BaseIs, Division
<1>2. w \in Strings /\ Len(w) \in Nat \ {0} /\ w[Len(w)] < Base /\ Value(w) = k \div Base
      /\ \A i \in 1..Len(w) - 1 : w[i] >= Base
  BY DEF Spells
<1>3. b % Base = k % Base
  <2> DEFINE r == k % Base
  <2>1. b = Base * 1 + r /\ r \in 0..(Base - 1) /\ 1 \in Int /\ b \in Int
    BY <1>1
  <2> HIDE DEF b, r
  <2>2. b % Base = r
    BY <1>1, <2>1, DivisionUnique
  <2> QED
    BY <2>2 DEF r
<1> HIDE DEF b
<1>4. x \in Strings /\ Value(x) = (b % Base) + Base * Value(w) /\ <<b>> \in Strings
  BY <1>1, <1>2, ValueStep
<1>5. Value(x) = k
  <2>1. k = (Base * (k \div Base)) + (k % Base) /\ k % Base \in Nat /\ k \div Base \in Nat
    BY Shrinks
  <2> DEFINE q == Base * (k \div Base)
             r == k % Base
  <2>2. Value(x) = r + q
    BY <1>2, <1>3, <1>4
  <2>3. q \in Nat
    BY <2>1, BaseIs
  <2> HIDE DEF q, x
  <2>4. r \in Nat /\ k = q + r
    BY <2>1 DEF q
  <2> HIDE DEF r
  <2> QED
    BY <2>2, <2>3, <2>4
<1>6. Len(x) = 1 + Len(w) /\ x[1] = b /\ \A j \in 1..Len(w) : x[1 + j] = w[j]
  <2> DEFINE h == <<b>>
  <2>1. h \in Strings /\ Len(h) = 1 /\ h[1] = b
    BY <1>4
  <2> HIDE DEF h
  <2>2. /\ Len(h \o w) = Len(h) + Len(w)
        /\ \A j \in 1..Len(h) : (h \o w)[j] = h[j]
        /\ \A j \in 1..Len(w) : (h \o w)[Len(h) + j] = w[j]
    BY <1>2, <2>1, Joined
  <2> QED
    BY <2>1, <2>2 DEF h
<1> HIDE DEF x
<1>7. x[Len(x)] < Base /\ Len(x) \in Nat \ {0}
  <2>1. Len(w) \in 1..Len(w)
    BY <1>2
  <2> QED
    BY <1>2, <1>6, <2>1
<1>8. ASSUME NEW i \in 1..Len(x) - 1 PROVE x[i] >= Base
  <2>1. CASE i = 1
    BY <1>1, <1>6, <2>1
  <2>2. CASE i # 1
    <3>1. i - 1 \in 1..Len(w) - 1 /\ 1 + (i - 1) = i /\ i - 1 \in 1..Len(w)
      BY <1>2, <1>6, <2>2
    <3>2. x[i] = w[i - 1]
      BY <1>6, <3>1
    <3> QED
      BY <1>2, <3>1, <3>2
  <2> QED
    BY <2>1, <2>2
<1>9. Spells(x, k)
  BY <1>4, <1>5, <1>7, <1>8 DEF Spells
<1> QED
  BY <1>9 DEF x, b

LEMMA SpellsOne ==
  ASSUME NEW k \in Nat, k < Base
  PROVE  Spells(<<k>>, k)
<1>1. <<k>> \in Strings /\ Value(<<k>>) = k % Base /\ <<>> \in Strings
  <2>1. <<>> \in Strings
    BY DEF Strings
  <2> QED
    BY <2>1, ValueStep
<1>2. k % Base = k
  <2>1. k = Base * 0 + k /\ k \in 0..(Base - 1) /\ Base \in Nat \ {0}
    BY BaseIs
  <2> QED
    BY <2>1, DivisionUnique
<1> DEFINE x == <<k>>
<1>3. Len(x) = 1 /\ x[1] = k
  OBVIOUS
<1> HIDE DEF x
<1>4. Spells(x, k)
  BY <1>1, <1>2, <1>3 DEF Spells, x
<1> QED
  BY <1>4 DEF x

LEMMA PrefixSpells ==
  ASSUME NEW n \in Nat
  PROVE  Spells(LengthPrefix(n), n)
<1> DEFINE more(k, s) == <<Base + (k % Base)>> \o s
           Body(x) == [k \in 0..n |-> IF k < Base THEN <<k>> ELSE more(k, x[k \div Base])]
           T == [0..n -> Strings]
           step(k, t) == IF k < Base THEN <<k>> ELSE more(k, t[k \div Base])
           g == [k \in 1..n |-> [t \in T |-> [j \in 0..n |-> IF j = k THEN step(k, t) ELSE t[j]]]]
           v == [j \in 0..n |-> <<0>>]
<1>1. \A k \in 0..n : k < Base \/ (k >= Base /\ k \div Base \in 0..n /\ k \div Base < k /\ k \div Base \in 0..(k - 1))
  <2> SUFFICES ASSUME NEW k \in 0..n, ~(k < Base)
               PROVE  k >= Base /\ k \div Base \in 0..n /\ k \div Base < k /\ k \div Base \in 0..(k - 1)
    OBVIOUS
  <2>1. k \in Nat /\ k >= Base
    BY BaseIs
  <2>2. k \div Base \in 0..(k - 1)
    BY <2>1, Shrinks
  <2> QED
    BY <2>1, <2>2
<1>2. ASSUME NEW k \in 0..n, NEW t \in T PROVE step(k, t) \in Strings
  <2>1. CASE k < Base
    BY <2>1 DEF Strings
  <2>2. CASE ~(k < Base)
    <3>1. t[k \div Base] \in Strings /\ Base + (k % Base) \in Nat
      <4>1. k \div Base \in 0..n /\ k \in Nat
        BY <1>1, <2>2
      <4>2. k % Base \in Nat /\ Base \in Nat
        BY <4>1, BaseIs
      <4>3. t[k \div Base] \in Strings
        BY <4>1
      <4> QED
        BY <4>2, <4>3
    <3>2. more(k, t[k \div Base]) \in Strings
      BY <3>1, ValueStep
    <3> QED
      BY <2>2, <3>2
  <2> QED
    BY <2>1, <2>2
<1>3. g \in [1..n -> [T -> T]] /\ v \in T
  <2>1. ASSUME NEW k \in 1..n, NEW t \in T
        PROVE  [j \in 0..n |-> IF j = k THEN step(k, t) ELSE t[j]] \in T
    <3>1. step(k, t) \in Strings
      BY <1>2
    <3> HIDE DEF step
    <3> QED
      BY <3>1
  <2>2. <<0>> \in Strings
    BY DEF Strings
  <2> HIDE DEF step, T
  <2>3. v \in T
    BY <2>2 DEF T
  <2> QED
    BY <2>1, <2>3
<1>4. PICK h : h \in [0..n -> T] /\ h[0] = v /\ \A k \in 1..n : h[k] = g[k][h[k - 1]]
  <2> HIDE DEF g, T, v
  <2>1. \E h : Recurses(h, n, T, v, g)
    BY <1>3, Recursion
  <2> QED
    BY <2>1 DEF Recurses
<1> DEFINE f == [k \in 0..n |-> h[k][k]]
<1>5. \A k \in 1..n : \A j \in 0..n : h[k][j] = IF j = k THEN step(k, h[k - 1]) ELSE h[k - 1][j]
  <2> SUFFICES ASSUME NEW k \in 1..n, NEW j \in 0..n
               PROVE  h[k][j] = IF j = k THEN step(k, h[k - 1]) ELSE h[k - 1][j]
    OBVIOUS
  <2>1. k - 1 \in 0..n
    OBVIOUS
  <2>2. h[k - 1] \in T
    BY <1>4, <2>1
  <2> HIDE DEF step, T
  <2>3. g[k][h[k - 1]] = [i \in 0..n |-> IF i = k THEN step(k, h[k - 1]) ELSE h[k - 1][i]]
    BY <2>2
  <2> HIDE DEF g
  <2> QED
    BY <1>4, <2>3
<1> HIDE DEF g
<1>6. \A k \in 0..n : \A j \in 0..k : h[k][j] = h[j][j]
  <2> DEFINE S == {k \in 0..n : \A j \in 0..k : h[k][j] = h[j][j]}
  <2>1. 0 \in S
    <3>1. \A j \in 0..0 : j = 0
      OBVIOUS
    <3> QED
      BY <3>1
  <2>2. ASSUME NEW k \in 1..n, k - 1 \in S PROVE k \in S
    <3>1. ASSUME NEW j \in 0..k PROVE h[k][j] = h[j][j]
      <4>1. CASE j = k
        BY <4>1
      <4>2. CASE j # k
        <5>1. j \in 0..k - 1 /\ j \in 0..n
          BY <4>2
        <5>2. h[k][j] = h[k - 1][j]
          BY <1>5, <4>2, <5>1
        <5>3. h[k - 1][j] = h[j][j]
          BY <2>2, <5>1
        <5> QED
          BY <5>2, <5>3
      <4> QED
        BY <4>1, <4>2
    <3> QED
      BY <3>1
  <2> HIDE DEF S
  <2>3. \A k \in 0..n : k \in S
    BY <2>1, <2>2, InductionUpTo
  <2> QED
    BY <2>3 DEF S
<1>7. \A k \in 0..n : f[k] = IF k < Base THEN <<k>> ELSE more(k, f[k \div Base])
  <2> SUFFICES ASSUME NEW k \in 0..n PROVE f[k] = IF k < Base THEN <<k>> ELSE more(k, f[k \div Base])
    OBVIOUS
  <2>1. CASE k = 0
    <3>1. f[0] = <<0>> /\ 0 < Base
      BY <1>4, BaseIs
    <3> QED
      BY <2>1, <3>1
  <2>2. CASE k # 0
    <3>1. k \in 1..n /\ k - 1 \in 0..n
      BY <2>2
    <3>2. f[k] = step(k, h[k - 1])
      BY <1>5, <3>1
    <3>3. ~(k < Base) => h[k - 1][k \div Base] = f[k \div Base]
      BY <1>1, <1>6, <3>1
    <3> HIDE DEF f, more
    <3> QED
      BY <3>2, <3>3
  <2> QED
    BY <2>1, <2>2
<1>8. f = Body(f)
  <2> HIDE DEF more
  <2>1. f = [k \in 0..n |-> f[k]]
    OBVIOUS
  <2> HIDE DEF f
  <2> QED
    BY <1>7, <2>1
<1> DEFINE D == CHOOSE x : x = Body(x)
<1>9. LengthPrefix(n) = D[n]
  BY DEF LengthPrefix
<1>a. D = Body(D)
  <2> HIDE DEF Body, f
  <2> QED
    BY <1>8
<1>b. ASSUME NEW x, x = Body(x)
      PROVE  \A k \in 0..n : x[k] = IF k < Base THEN <<k>> ELSE more(k, x[k \div Base])
  <2> HIDE DEF more
  <2> QED
    BY <1>b
<1>c. \A k \in 0..n : D[k] = IF k < Base THEN <<k>> ELSE more(k, D[k \div Base])
  <2> HIDE DEF more, Body, D
  <2> QED
    BY <1>a, <1>b
<1> HIDE DEF D, Body
<1> DEFINE S == {m \in 0..n : \A k \in 0..m : Spells(D[k], k)}
<1>d. 0 \in S
  <2>1. 0 < Base /\ 0 \in 0..n /\ \A k \in 0..0 : k = 0
    BY BaseIs
  <2>2. D[0] = <<0>>
    BY <1>c, <2>1
  <2>3. Spells(D[0], 0)
    BY <2>1, <2>2, SpellsOne
  <2> QED
    BY <2>1, <2>3
<1>e. ASSUME NEW m \in 1..n, m - 1 \in S PROVE m \in S
  <2>1. ASSUME NEW k \in 0..m PROVE Spells(D[k], k)
    <3>1. CASE k # m
      <4>1. k \in 0..m - 1
        BY <3>1
      <4> QED
        BY <1>e, <4>1
    <3>2. CASE k = m /\ k < Base
      <4>1. k \in 0..n /\ k \in Nat
        BY <3>2
      <4>2. D[k] = <<k>>
        BY <1>c, <3>2, <4>1
      <4> QED
        BY <3>2, <4>1, <4>2, SpellsOne
    <3>3. CASE k = m /\ ~(k < Base)
      <4>1. k \div Base \in 0..m - 1 /\ k >= Base /\ k \in Nat /\ k \in 0..n
        BY <1>1, <3>3
      <4>2. Spells(D[k \div Base], k \div Base)
        BY <1>e, <4>1
      <4>3. D[k] = <<Base + (k % Base)>> \o D[k \div Base]
        BY <1>c, <3>3, <4>1
      <4>4. Spells(<<Base + (k % Base)>> \o D[k \div Base], k)
        BY <4>1, <4>2, SpellsMore
      <4> QED
        BY <4>3, <4>4
    <3> QED
      BY <3>1, <3>2, <3>3
  <2>2. m \in 0..n
    OBVIOUS
  <2> QED
    BY <2>1, <2>2
<1>f. \A m \in 0..n : m \in S
  <2> HIDE DEF S
  <2> QED
    BY <1>d, <1>e, InductionUpTo
<1>g. Spells(D[n], n)
  <2>1. n \in 0..n
    OBVIOUS
  <2>2. n \in S
    BY <1>f, <2>1
  <2> QED
    BY <2>1, <2>2
<1> QED
  BY <1>9, <1>g DEF D, Body

LEMMA DigitsIs ==
  ASSUME NEW s \in Strings
  PROVE  /\ Digits(s) \in 0..Len(s)
         /\ Digits(s) # 0 => s[Digits(s)] < Base /\ \A i \in 1..Len(s) : s[i] < Base => Digits(s) <= i
         /\ Digits(s) = 0 => \A i \in 1..Len(s) : ~(s[i] < Base)
<1> DEFINE ends == {i \in DOMAIN s : s[i] < Base}
<1>1. Len(s) \in Nat /\ DOMAIN s = 1..Len(s)
  BY LenProperties DEF Strings
<1>2. ends \in SUBSET Nat
  BY <1>1
<1>3. Digits(s) = IF ends = {} THEN 0 ELSE Min(ends)
  BY DEF Digits
<1>4. CASE ends = {}
  BY <1>1, <1>3, <1>4
<1>5. CASE ends # {}
  <2>1. Min(ends) \in ends /\ \A y \in ends : Min(ends) <= y
    <3> HIDE DEF ends
    <3> QED
      BY <1>2, <1>5, Least
  <2> QED
    BY <1>1, <1>3, <1>5, <2>1
<1> QED
  BY <1>4, <1>5

(* loadSet() so far.                                                       *)
Loading == [rest : Strings, scratch : Strings, set : {x \in SUBSET Strings : IsFiniteSet(x)}]

LEMMA SliceIsString ==
  ASSUME NEW s \in Strings, NEW i \in 1..Len(s) + 1, NEW j \in 0..Len(s)
  PROVE  SubSeq(s, i, j) \in Strings
<1>1. Len(s) \in Nat /\ i \in Int /\ j \in Int
  BY LenProperties DEF Strings
<1>2. ASSUME NEW k \in i..j PROVE s[k] \in Nat
  <2>1. k \in 1..Len(s)
    BY <1>1
  <2> QED
    BY <2>1, ElementOfSeq DEF Strings
<1> QED
  BY <1>1, <1>2, SubSeqProperties DEF Strings

LEMMA LoadOneTyped == \A s \in Loading : LoadOne(s) \in Loading
<1> SUFFICES ASSUME NEW s \in Loading PROVE LoadOne(s) \in Loading
  OBVIOUS
<1> DEFINE digits == Digits(s.rest)
           size == Value(SubSeq(s.rest, 1, digits))
           text == SubSeq(s.rest, digits + 1, Len(s.rest))
           got == IF Len(text) < size THEN Len(text) ELSE size
           resized == Resized(s.scratch, size)
           string == SubSeq(text, 1, got) \o SubSeq(resized, got + 1, size)
           more == [rest |-> SubSeq(text, got + 1, Len(text)), scratch |-> string, set |-> s.set \union {string}]
<1>1. LoadOne(s) = IF digits = 0 THEN s ELSE more
  BY DEF LoadOne
<1>2. s.rest \in Strings /\ s.scratch \in Strings /\ s.set \subseteq Strings /\ IsFiniteSet(s.set)
  BY DEF Loading
<1>3. digits \in 0..Len(s.rest) /\ Len(s.rest) \in Nat
  BY <1>2, DigitsIs, LenProperties DEF Strings
<1>4. SubSeq(s.rest, 1, digits) \in Strings /\ text \in Strings
  BY <1>2, <1>3, SliceIsString
<1>5. size \in Nat /\ Len(text) \in Nat
  BY <1>4, ValueNat, LenProperties DEF Strings
<1> HIDE DEF digits, size, text
<1>6. got \in 0..Len(text) /\ got \in 0..size
  BY <1>5
<1>7. resized \in Strings /\ Len(resized) = size
  <2>1. ASSUME NEW k \in 1..size PROVE (IF k <= Len(s.scratch) THEN s.scratch[k] ELSE 0) \in Nat
    <3>1. Len(s.scratch) \in Nat
      BY <1>2, LenProperties DEF Strings
    <3>2. CASE k <= Len(s.scratch)
      <4>1. k \in 1..Len(s.scratch)
        BY <1>5, <3>1, <3>2
      <4> QED
        BY <1>2, <3>2, <4>1, ElementOfSeq DEF Strings
    <3> QED
      BY <3>2
  <2>2. resized \in [1..size -> Nat]
    BY <2>1 DEF Resized
  <2> HIDE DEF resized
  <2> QED
    BY <1>5, <2>2 DEF Strings
<1> HIDE DEF got, resized
<1>8. SubSeq(text, 1, got) \in Strings
  BY <1>4, <1>5, <1>6, SliceIsString
<1>9. SubSeq(resized, got + 1, size) \in Strings
  BY <1>5, <1>6, <1>7, SliceIsString
<1>a. SubSeq(text, got + 1, Len(text)) \in Strings
  BY <1>4, <1>5, <1>6, SliceIsString
<1>b. string \in Strings
  BY <1>8, <1>9, Joined
<1> HIDE DEF string
<1>c. s.set \union {string} \in {x \in SUBSET Strings : IsFiniteSet(x)}
  BY <1>2, <1>b, FS_AddElement
<1>d. more \in Loading
  BY <1>a, <1>b, <1>c DEF Loading
<1> QED
  BY <1>1, <1>d

(* The string in front is read, and nothing of those behind it.            *)
LEMMA LoadOneReads ==
  ASSUME NEW s \in Loading, NEW e \in Strings, NEW t \in Strings, s.rest = Record(e) \o t
  PROVE  LoadOne(s).rest = t /\ LoadOne(s).set = s.set \union {e} /\ Record(e) \in Strings /\ Len(Record(e)) \in Nat \ {0}
<1> DEFINE w == LengthPrefix(Len(e))
           x == e \o t
<1>1. Len(e) \in Nat /\ Spells(w, Len(e))
  BY LenProperties, PrefixSpells DEF Strings
<1> HIDE DEF w
<1>2. /\ w \in Strings /\ Len(w) \in Nat \ {0} /\ w[Len(w)] < Base /\ Value(w) = Len(e)
      /\ \A i \in 1..Len(w) - 1 : w[i] >= Base
  BY <1>1 DEF Spells
<1>3. Record(e) = w \o e /\ Record(e) \in Strings /\ Len(Record(e)) \in Nat \ {0}
  <2>1. w \o e \in Strings /\ Len(w \o e) = Len(w) + Len(e)
    BY <1>2, Joined
  <2>2. Record(e) = w \o e
    BY DEF Record, w
  <2>3. Len(w) + Len(e) \in Nat \ {0}
    BY <1>1, <1>2
  <2> QED
    BY <2>1, <2>2, <2>3
<1>4. s.rest = w \o x /\ x \in Strings /\ Len(x) = Len(e) + Len(t) /\ Len(t) \in Nat
  <2>1. x \in Strings /\ Len(x) = Len(e) + Len(t) /\ Len(t) \in Nat
    BY Joined
  <2>2. w \in Seq(Nat) /\ e \in Seq(Nat) /\ t \in Seq(Nat)
    BY <1>2 DEF Strings
  <2>3. (w \o e) \o t = w \o (e \o t)
    BY <2>2, Regrouped
  <2> QED
    BY <1>3, <2>1, <2>3
<1>5. SubSeq(x, 1, Len(e)) = e /\ SubSeq(x, Len(e) + 1, Len(x)) = t
  BY Parted
<1> HIDE DEF x
<1> DEFINE r == w \o x
<1>6. /\ r \in Strings /\ Len(r) = Len(w) + Len(x) /\ Len(x) \in Nat
      /\ \A j \in 1..Len(w) : r[j] = w[j]
  BY <1>2, <1>4, Joined
<1>7. SubSeq(r, 1, Len(w)) = w /\ SubSeq(r, Len(w) + 1, Len(r)) = x
  BY <1>2, <1>4, Parted
<1> HIDE DEF r
<1>8. Digits(r) = Len(w)
  <2> DEFINE d == Digits(r)
  <2>1. /\ d \in 0..Len(r)
        /\ d # 0 => r[d] < Base /\ \A i \in 1..Len(r) : r[i] < Base => d <= i
        /\ d = 0 => \A i \in 1..Len(r) : ~(r[i] < Base)
    BY <1>6, DigitsIs
  <2> HIDE DEF d
  <2>2. Len(w) \in 1..Len(w) /\ Len(w) \in 1..Len(r) /\ r[Len(w)] < Base
    BY <1>2, <1>6
  <2>3. d # 0 /\ d <= Len(w) /\ r[d] < Base
    BY <2>1, <2>2
  <2>4. ASSUME d < Len(w) PROVE FALSE
    <3>1. d \in 1..Len(w) - 1 /\ d \in 1..Len(w)
      BY <1>2, <2>1, <2>3, <2>4
    <3>2. w[d] >= Base /\ r[d] = w[d] /\ w[d] \in Nat
      BY <1>2, <1>6, <3>1, ElementOfSeq DEF Strings
    <3> QED
      BY <2>3, <3>2, BaseIs
  <2> QED
    BY <1>2, <2>1, <2>3, <2>4 DEF d
<1> DEFINE string == SubSeq(x, 1, Len(e)) \o SubSeq(Resized(s.scratch, Len(e)), Len(e) + 1, Len(e))
<1>9. string = e
  <2>1. SubSeq(Resized(s.scratch, Len(e)), Len(e) + 1, Len(e)) = <<>>
    BY <1>1, SubSeqEmpty
  <2>2. e \o <<>> = e
    BY ConcatEmptySeq DEF Strings
  <2> QED
    BY <1>5, <2>1, <2>2
<1> HIDE DEF string
<1>a. ~(Len(x) < Len(e))
  BY <1>1, <1>4
<1>b. s.rest = r
  BY <1>4 DEF r
<1>c. LoadOne(s) = [rest |-> SubSeq(x, Len(e) + 1, Len(x)), scratch |-> string, set |-> s.set \union {string}]
  <2> DEFINE digits == Digits(s.rest)
             size == Value(SubSeq(s.rest, 1, digits))
             text == SubSeq(s.rest, digits + 1, Len(s.rest))
             got == IF Len(text) < size THEN Len(text) ELSE size
             str == SubSeq(text, 1, got) \o SubSeq(Resized(s.scratch, size), got + 1, size)
  <2>1. LoadOne(s) = IF digits = 0 THEN s
                     ELSE [rest |-> SubSeq(text, got + 1, Len(text)), scratch |-> str, set |-> s.set \union {str}]
    BY DEF LoadOne
  <2>2. digits = Len(w)
    BY <1>8, <1>b
  <2>3. text = x /\ size = Len(e) /\ digits # 0
    BY <1>2, <1>7, <1>b, <2>2
  <2> HIDE DEF digits, size, text
  <2>4. got = Len(e)
    BY <1>a, <2>3
  <2>5. str = string
    <3> HIDE DEF got
    <3> QED
      BY <2>3, <2>4 DEF string
  <2> HIDE DEF got, str
  <2> QED
    BY <2>1, <2>3, <2>4, <2>5
<1> QED
  BY <1>3, <1>5, <1>9, <1>c

(* Nothing is left to be read.                                             *)
LEMMA LoadOneEnds ==
  ASSUME NEW s \in Loading, s.rest = <<>>
  PROVE  LoadOne(s) = s
<1>1. s.rest \in Strings /\ Len(s.rest) = 0
  BY DEF Loading
<1>2. Digits(s.rest) \in 0..Len(s.rest)
  BY <1>1, DigitsIs
<1>3. Digits(s.rest) = 0
  BY <1>1, <1>2
<1> QED
  BY <1>3 DEF LoadOne


LEMMA RecordIsString ==
  ASSUME NEW e \in Strings
  PROVE  Record(e) \in Strings /\ Len(Record(e)) \in Nat \ {0}
<1>1. Len(e) \in Nat
  BY LenProperties DEF Strings
<1>2. Spells(LengthPrefix(Len(e)), Len(e))
  BY <1>1, PrefixSpells
<1> DEFINE w == LengthPrefix(Len(e))
<1>3. w \in Strings /\ Len(w) \in Nat \ {0}
  BY <1>2 DEF Spells
<1> HIDE DEF w
<1>4. w \o e \in Strings /\ Len(w \o e) = Len(w) + Len(e)
  BY <1>3, Joined
<1>5. Len(w \o e) \in Nat \ {0}
  BY <1>1, <1>3, <1>4
<1> QED
  BY <1>4, <1>5 DEF Record, w

(* The last records of a list, and the first steps of reading a file.      *)
Recorded(q, last) ==
    /\ last \in [0..Len(q) -> Strings] /\ last[0] = <<>>
    /\ \A k \in 1..Len(q) : last[k] = Record(q[Len(q) - k + 1]) \o last[k - 1]

Unread(bytes) == [rest |-> bytes, scratch |-> <<>>, set |-> {}]

Loads(bytes, load) ==
    /\ load \in [0..Len(bytes) -> Loading] /\ load[0] = Unread(bytes)
    /\ \A k \in 1..Len(bytes) : load[k] = LoadOne(load[k - 1])

LEMMA WrittenIs ==
  ASSUME NEW q \in Seq(Strings)
  PROVE  \E last : Recorded(q, last) /\ Written(q) = last[Len(q)]
<1> DEFINE n == Len(q)
           r(k) == Record(q[n - k + 1])
           g == [k \in 1..n |-> [t \in Strings |-> r(k) \o t]]
           Body(x) == [k \in 0..n |-> IF k = 0 THEN <<>> ELSE r(k) \o x[k - 1]]
<1>1. n \in Nat
  BY LenProperties
<1>2. ASSUME NEW k \in 1..n PROVE r(k) \in Strings
  <2>1. n - k + 1 \in 1..n
    BY <1>1
  <2>2. q[n - k + 1] \in Strings
    BY <2>1, ElementOfSeq
  <2> QED
    BY <2>2, RecordIsString
<1>3. ASSUME NEW k \in 1..n, NEW t \in Strings PROVE r(k) \o t \in Strings
  BY <1>2, Joined
<1>4. <<>> \in Strings
  BY DEF Strings
<1>5. g \in [1..n -> [Strings -> Strings]]
  <2> HIDE DEF r
  <2> QED
    BY <1>3
<1>6. PICK f : f \in [0..n -> Strings] /\ f[0] = <<>> /\ \A k \in 1..n : f[k] = g[k][f[k - 1]]
  <2> HIDE DEF g, n
  <2>1. \E f : Recurses(f, n, Strings, <<>>, g)
    BY <1>1, <1>4, <1>5, Recursion
  <2> QED
    BY <2>1 DEF Recurses
<1>7. f = Body(f)
  <2>1. ASSUME NEW k \in 1..n PROVE f[k] = r(k) \o f[k - 1]
    <3>1. k - 1 \in 0..n
      BY <1>1
    <3>2. f[k - 1] \in Strings /\ f[k] = g[k][f[k - 1]]
      BY <1>6, <3>1
    <3> HIDE DEF r, n
    <3> QED
      BY <3>2
  <2>2. \A k \in 0..n : k # 0 => k \in 1..n
    BY <1>1
  <2>3. f = [k \in 0..n |-> f[k]]
    BY <1>6
  <2> HIDE DEF g, n, r
  <2>4. \A k \in 0..n : f[k] = IF k = 0 THEN <<>> ELSE r(k) \o f[k - 1]
    BY <1>6, <2>1, <2>2
  <2> QED
    BY <2>3, <2>4
<1> DEFINE u == CHOOSE x : x = Body(x)
<1>8. Written(q) = u[n]
  BY DEF Written
<1>9. u = Body(u)
  <2> HIDE DEF Body
  <2> QED
    BY <1>7
<1>a. ASSUME NEW x, x = Body(x)
      PROVE  /\ x[0] = <<>> /\ \A k \in 1..n : x[k] = r(k) \o x[k - 1]
             /\ x = [k \in 0..n |-> x[k]]
  <2>1. 0 \in 0..n /\ \A k \in 1..n : k \in 0..n /\ k # 0
    BY <1>1
  <2> HIDE DEF n, r
  <2> QED
    BY <1>a, <2>1
<1>b. u[0] = <<>> /\ (\A k \in 1..n : u[k] = r(k) \o u[k - 1]) /\ u = [k \in 0..n |-> u[k]]
  <2> HIDE DEF Body, n, r, u
  <2> QED
    BY <1>9, <1>a
<1>c. ASSUME NEW x, x[0] = <<>>, \A k \in 1..n : x[k] = r(k) \o x[k - 1]
      PROVE  \A k \in 0..n : x[k] \in Strings
  <2> DEFINE S == {k \in 0..n : x[k] \in Strings}
  <2>1. 0 \in S
    BY <1>1, <1>4, <1>c
  <2>2. ASSUME NEW k \in 1..n, k - 1 \in S PROVE k \in S
    <3>1. x[k - 1] \in Strings /\ x[k] = r(k) \o x[k - 1]
      BY <1>c, <2>2
    <3>2. r(k) \o x[k - 1] \in Strings
      <4> HIDE DEF r
      <4> QED
        BY <1>3, <3>1
    <3>3. x[k] \in Strings
      <4> HIDE DEF r
      <4> QED
        BY <3>1, <3>2
    <3> QED
      BY <1>1, <3>3
  <2> HIDE DEF S
  <2>3. \A k \in 0..n : k \in S
    BY <1>1, <2>1, <2>2, InductionUpTo
  <2> QED
    BY <2>3 DEF S
<1>d. \A k \in 0..n : u[k] \in Strings
  <2> HIDE DEF r, n, u
  <2> QED
    BY <1>b, <1>c
<1>e. u \in [0..n -> Strings]
  <2> HIDE DEF r, n, u
  <2> QED
    BY <1>b, <1>d
<1>f. Recorded(q, u)
  <2> HIDE DEF u
  <2> QED
    BY <1>b, <1>e DEF Recorded
<1> HIDE DEF u
<1> QED
  BY <1>8, <1>f

LEMMA LoadSetIs ==
  ASSUME NEW bytes \in Strings
  PROVE  \E load : Loads(bytes, load) /\ LoadSet(bytes) = load[Len(bytes)].set
<1> DEFINE n == Len(bytes)
           one == [s \in Loading |-> LoadOne(s)]
           g == [k \in 1..n |-> one]
           v == [rest |-> bytes, scratch |-> <<>>, set |-> {}]
           Body(x) == [k \in 0..n |-> IF k = 0 THEN v ELSE LoadOne(x[k - 1])]
<1>1. n \in Nat
  BY LenProperties DEF Strings
<1>2. v \in Loading /\ v = Unread(bytes)
  <2>1. <<>> \in Strings /\ {} \in {x \in SUBSET Strings : IsFiniteSet(x)}
    BY FS_EmptySet DEF Strings
  <2> QED
    BY <2>1 DEF Loading, Unread
<1>3. g \in [1..n -> [Loading -> Loading]]
  <2>1. one \in [Loading -> Loading]
    BY LoadOneTyped
  <2> HIDE DEF one
  <2> QED
    BY <2>1
<1> HIDE DEF v
<1>4. PICK f : f \in [0..n -> Loading] /\ f[0] = v /\ \A k \in 1..n : f[k] = g[k][f[k - 1]]
  <2> HIDE DEF g, n
  <2>1. \E f : Recurses(f, n, Loading, v, g)
    BY <1>1, <1>2, <1>3, Recursion
  <2> QED
    BY <2>1 DEF Recurses
<1>5. f = Body(f)
  <2>1. ASSUME NEW k \in 1..n PROVE f[k] = LoadOne(f[k - 1])
    <3>1. k - 1 \in 0..n
      BY <1>1
    <3>2. f[k - 1] \in Loading /\ f[k] = g[k][f[k - 1]]
      BY <1>4, <3>1
    <3> HIDE DEF n
    <3> QED
      BY <3>2
  <2>2. \A k \in 0..n : k # 0 => k \in 1..n
    BY <1>1
  <2>3. f = [k \in 0..n |-> f[k]]
    BY <1>4
  <2> HIDE DEF g, n
  <2>4. \A k \in 0..n : f[k] = IF k = 0 THEN v ELSE LoadOne(f[k - 1])
    BY <1>4, <2>1, <2>2
  <2> QED
    BY <2>3, <2>4
<1> DEFINE u == CHOOSE x : x = Body(x)
<1>6. LoadSet(bytes) = u[n].set
  BY DEF LoadSet, v
<1>7. u = Body(u)
  <2> HIDE DEF Body
  <2> QED
    BY <1>5
<1>8. ASSUME NEW x, x = Body(x)
      PROVE  /\ x[0] = v /\ \A k \in 1..n : x[k] = LoadOne(x[k - 1])
             /\ x = [k \in 0..n |-> x[k]]
  <2>1. 0 \in 0..n /\ \A k \in 1..n : k \in 0..n /\ k # 0
    BY <1>1
  <2> HIDE DEF n
  <2> QED
    BY <1>8, <2>1
<1>9. u[0] = v /\ (\A k \in 1..n : u[k] = LoadOne(u[k - 1])) /\ u = [k \in 0..n |-> u[k]]
  <2> HIDE DEF Body, n, u
  <2> QED
    BY <1>7, <1>8
<1>a. ASSUME NEW x, x[0] = v, \A k \in 1..n : x[k] = LoadOne(x[k - 1])
      PROVE  \A k \in 0..n : x[k] \in Loading
  <2> DEFINE S == {k \in 0..n : x[k] \in Loading}
  <2>1. 0 \in S
    BY <1>1, <1>2, <1>a
  <2>2. ASSUME NEW k \in 1..n, k - 1 \in S PROVE k \in S
    <3>1. x[k - 1] \in Loading /\ x[k] = LoadOne(x[k - 1])
      BY <1>a, <2>2
    <3>2. x[k] \in Loading
      BY <3>1, LoadOneTyped
    <3> QED
      BY <1>1, <3>2
  <2> HIDE DEF S
  <2>3. \A k \in 0..n : k \in S
    BY <1>1, <2>1, <2>2, InductionUpTo
  <2> QED
    BY <2>3 DEF S
<1>b. \A k \in 0..n : u[k] \in Loading
  <2> HIDE DEF n, u
  <2> QED
    BY <1>9, <1>a
<1>c. u \in [0..n -> Loading]
  <2> HIDE DEF n, u
  <2> QED
    BY <1>9, <1>b
<1>d. Loads(bytes, u)
  <2> HIDE DEF u
  <2> QED
    BY <1>2, <1>9, <1>c DEF Loads
<1> HIDE DEF u
<1> QED
  BY <1>6, <1>d

(* Whatever the file holds, finitely many strings are read.                *)
LEMMA LoadSetTyped ==
  ASSUME NEW bytes \in Strings
  PROVE  LoadSet(bytes) \subseteq Strings /\ IsFiniteSet(LoadSet(bytes))
<1>1. PICK load : Loads(bytes, load) /\ LoadSet(bytes) = load[Len(bytes)].set
  BY LoadSetIs
<1>2. Len(bytes) \in 0..Len(bytes)
  BY LenProperties DEF Strings
<1>3. load[Len(bytes)] \in Loading
  BY <1>1, <1>2 DEF Loads
<1> QED
  BY <1>1, <1>3 DEF Loading

(* A record has a byte at least.                                           *)
LEMMA RecordsTakeBytes ==
  ASSUME NEW q \in Seq(Strings), NEW last, Recorded(q, last)
  PROVE  \A k \in 0..Len(q) : Len(last[k]) \in Nat /\ Len(last[k]) >= k
<1> DEFINE n == Len(q)
           S == {k \in 0..n : Len(last[k]) \in Nat /\ Len(last[k]) >= k}
<1>1. n \in Nat
  BY LenProperties
<1>2. 0 \in S
  <2>1. last[0] = <<>> /\ Len(<<>>) = 0
    BY DEF Recorded
  <2> QED
    BY <1>1, <2>1
<1>3. ASSUME NEW k \in 1..n, k - 1 \in S PROVE k \in S
  <2> DEFINE r == Record(q[n - k + 1])
             l == last[k - 1]
  <2>1. n - k + 1 \in 1..n /\ k - 1 \in 0..n
    BY <1>1
  <2>2. r \in Strings /\ Len(r) \in Nat \ {0}
    <3>1. q[n - k + 1] \in Strings
      BY <2>1, ElementOfSeq
    <3> QED
      BY <3>1, RecordIsString
  <2>3. l \in Strings /\ last[k] = r \o l
    BY <2>1 DEF Recorded
  <2>4. Len(l) \in Nat /\ Len(l) >= k - 1
    BY <1>3
  <2> HIDE DEF r, l
  <2>5. Len(r \o l) = Len(r) + Len(l)
    BY <2>2, <2>3, Joined
  <2>6. Len(last[k]) \in Nat /\ Len(last[k]) >= k
    BY <1>1, <2>2, <2>3, <2>4, <2>5
  <2> QED
    BY <1>1, <2>6
<1>4. \A k \in 0..n : k \in S
  <2> HIDE DEF S
  <2> QED
    BY <1>1, <1>2, <1>3, InductionUpTo
<1> QED
  BY <1>4

(* After k steps the first k strings are read, and the others are left.    *)
LEMMA ReadSoFar ==
  ASSUME NEW q \in Seq(Strings), NEW last, Recorded(q, last),
         NEW load, Loads(Written(q), load), Written(q) = last[Len(q)], Written(q) \in Strings
  PROVE  \A k \in 0..Len(q) : k \in 0..Len(Written(q)) /\ load[k].rest = last[Len(q) - k]
                              /\ load[k].set = {q[i] : i \in 1..k}
<1> DEFINE n == Len(q)
           w == Written(q)
           S == {k \in 0..n : load[k].rest = last[n - k] /\ load[k].set = {q[i] : i \in 1..k}}
<1>1. n \in Nat /\ Len(w) \in Nat /\ Len(w) >= n
  <2>1. n \in Nat
    BY LenProperties
  <2>2. n \in 0..n
    BY <2>1
  <2> QED
    BY <2>1, <2>2, RecordsTakeBytes
<1>2. 0 \in S
  <2>1. load[0] = Unread(w) /\ n - 0 = n /\ 1..0 = {}
    BY <1>1 DEF Loads
  <2>2. load[0].rest = w /\ load[0].set = {}
    BY <2>1 DEF Unread
  <2> HIDE DEF w
  <2>3. {q[i] : i \in 1..0} = {}
    BY <2>1
  <2> QED
    BY <1>1, <2>1, <2>2, <2>3 DEF w
<1>3. ASSUME NEW k \in 1..n, k - 1 \in S PROVE k \in S
  <2> DEFINE m == n - k
             e == q[k]
             s == load[k - 1]
             t == last[m]
  <2>1. /\ k - 1 \in 0..Len(w) /\ k \in 1..Len(w) /\ m \in 0..n /\ n - (k - 1) = m + 1
        /\ m + 1 \in 1..n /\ n - (m + 1) + 1 = k /\ (m + 1) - 1 = m
    BY <1>1
  <2>2. s \in Loading /\ load[k] = LoadOne(s)
    BY <2>1 DEF Loads
  <2>3. e \in Strings /\ t \in Strings
    BY <2>1, ElementOfSeq DEF Recorded
  <2>4. s.rest = last[m + 1] /\ s.set = {q[i] : i \in 1..k - 1}
    BY <1>3, <2>1
  <2>5. last[m + 1] = Record(q[n - (m + 1) + 1]) \o last[(m + 1) - 1]
    <3> HIDE DEF m
    <3> QED
      BY <2>1 DEF Recorded
  <2>6. s.rest = Record(e) \o t
    BY <2>1, <2>4, <2>5
  <2> HIDE DEF s, t, e
  <2>7. LoadOne(s).rest = t /\ LoadOne(s).set = s.set \union {e}
    BY <2>2, <2>3, <2>6, LoadOneReads
  <2>8. {q[i] : i \in 1..k} = {q[i] : i \in 1..k - 1} \union {q[k]}
    <3>1. 1..k = (1..k - 1) \union {k}
      BY <1>1
    <3> QED
      BY <3>1
  <2>9. load[k].rest = last[n - k] /\ load[k].set = {q[i] : i \in 1..k}
    BY <2>2, <2>4, <2>7, <2>8 DEF t, e
  <2> QED
    BY <1>1, <2>9
<1>4. \A k \in 0..n : k \in S
  <2> HIDE DEF S
  <2> QED
    BY <1>1, <1>2, <1>3, InductionUpTo
<1>5. \A k \in 0..n : k \in 0..Len(w)
  BY <1>1
<1> QED
  BY <1>4, <1>5

(* When all are read, nothing is added to them.                            *)
LEMMA NothingMore ==
  ASSUME NEW bytes \in Strings, NEW load, Loads(bytes, load),
         NEW n \in 0..Len(bytes), load[n].rest = <<>>
  PROVE  load[Len(bytes)] = load[n]
<1> DEFINE m == Len(bytes)
           S == {k \in 0..m : k >= n => load[k] = load[n]}
<1>1. m \in Nat /\ n \in Nat
  BY LenProperties DEF Strings
<1>2. 0 \in S
  <2>1. 0 >= n => n = 0
    BY <1>1
  <2> QED
    BY <1>1, <2>1
<1>3. ASSUME NEW k \in 1..m, k - 1 \in S PROVE k \in S
  <2>1. ASSUME k >= n, k # n PROVE load[k] = load[n]
    <3>1. k - 1 >= n /\ k - 1 \in 0..m
      BY <1>1, <2>1
    <3>2. load[k - 1] = load[n]
      BY <1>3, <3>1
    <3>3. load[k] = LoadOne(load[k - 1]) /\ load[k - 1] \in Loading
      BY <3>1 DEF Loads
    <3> QED
      BY <3>2, <3>3, LoadOneEnds
  <2> QED
    BY <1>1, <2>1
<1>4. \A k \in 0..m : k \in S
  <2> HIDE DEF S
  <2> QED
    BY <1>1, <1>2, <1>3, InductionUpTo
<1>5. m \in 0..m /\ m >= n
  BY <1>1
<1> QED
  BY <1>4, <1>5

(* What saveSet() writes, loadSet() reads, whatever strings there are.     *)
LEMMA Decoded ==
  ASSUME NEW q \in Seq(Strings)
  PROVE  Written(q) \in Strings /\ LoadSet(Written(q)) = Range(q)
<1> DEFINE n == Len(q)
           w == Written(q)
<1>1. n \in Nat /\ n \in 0..n /\ n - n = 0
  BY LenProperties
<1>2. PICK last : Recorded(q, last) /\ w = last[n]
  BY WrittenIs
<1>3. w \in Strings
  BY <1>1, <1>2 DEF Recorded
<1>4. PICK load : Loads(w, load) /\ LoadSet(w) = load[Len(w)].set
  BY <1>3, LoadSetIs
<1>5. n \in 0..Len(w) /\ load[n].rest = last[n - n] /\ load[n].set = {q[i] : i \in 1..n}
  BY <1>1, <1>2, <1>3, <1>4, ReadSoFar
<1>6. load[n].rest = <<>>
  BY <1>1, <1>2, <1>5 DEF Recorded
<1> HIDE DEF w
<1>7. load[Len(w)] = load[n]
  BY <1>3, <1>4, <1>5, <1>6, NothingMore
<1>8. Range(q) = {q[i] : i \in 1..n}
  <2>1. DOMAIN q = 1..n
    BY LenProperties
  <2> QED
    BY <2>1 DEF Range
<1> QED
  BY <1>3, <1>4, <1>5, <1>7, <1>8 DEF w

-----------------------------------------------------------------------------
(* A program that has not loaded its states has none to save.              *)
LEMMA NothingToSave == Fresh /\ phase = "starting" => ~Changed
  BY DEF Fresh, Changed

(* ... and so it stays until loadStates() has run.                         *)
LEMMA FreshKept == Spec => []Fresh
<1>1. Init => Fresh
  BY DEF Init, Fresh
<1>2. Fresh /\ [Next]_vars => Fresh'
  <2> SUFFICES ASSUME Fresh, [Next]_vars PROVE Fresh'
    OBVIOUS
  <2>1. CASE Start
    <3>1. Entries(states') = {}
      BY <2>1 DEF Start, Entries, NoStates
    <3> QED
      BY <2>1, <3>1 DEF Start, Fresh, Entries
  <2>2. CASE LoadStates \/ SaveStates \/ Stop \/ CloseFile \/ Crash
    BY <2>2 DEF LoadStates, SaveStates, Stop, CloseFile, Crash, Fresh
  <2>3. CASE Update \/ Flush
    BY <2>3 DEF Update, Flush, Fresh
  <2>4. CASE UNCHANGED vars
    BY <2>4 DEF vars, Fresh, Entries
  <2> QED
    BY <2>1, <2>2, <2>3, <2>4 DEF Next
<1> QED
  BY <1>1, <1>2, PTL DEF Spec

(* Until it has loaded its states a program leaves the file as it is,      *)
(* however it ends.                                                        *)
THEOREM StartLeavesFile == Spec => StartKeepsFile
<1> DEFINE Kept == phase = "starting" => file' = file
<1>1. Fresh /\ [Next]_vars => [Kept]_vars
  <2> SUFFICES ASSUME Fresh, Next, phase = "starting" PROVE file' = file
    OBVIOUS
  <2>1. CASE Stop
    BY <2>1, NothingToSave DEF Stop, OpenFile
  <2>2. CASE Start \/ LoadStates \/ Update \/ SaveStates \/ Flush \/ CloseFile \/ Crash
    BY <2>2 DEF Start, LoadStates, Update, SaveStates, Flush, CloseFile, Crash
  <2> QED
    BY <2>1, <2>2 DEF Next
<1> QED
  BY <1>1, FreshKept, PTL DEF Spec, StartKeepsFile

-----------------------------------------------------------------------------
(* In an empty file there are no strings.                                  *)
LEMMA EmptyFile == LoadSet(<<>>) = {}
<1>1. <<>> \in Strings /\ Len(<<>>) = 0
  BY EmptySeq DEF Strings
<1>2. PICK load : Loads(<<>>, load) /\ LoadSet(<<>>) = load[Len(<<>>)].set
  BY <1>1, LoadSetIs
<1>3. load[0] = Unread(<<>>)
  BY <1>2 DEF Loads
<1> QED
  BY <1>1, <1>2, <1>3 DEF Unread

(* What a save writes is what the next start will find.                    *)
LEMMA SavedIsFound ==
    ASSUME Keyed, NEW q \in SetToSeqs(Entries(states))
    PROVE  Written(q) \in Strings /\ LoadSet(Written(q)) = Entries(states)
<1>1. q \in Seq(Strings) /\ Range(q) = Entries(states)
  BY EntriesAreStrings, ListsHaveAll
<1> QED
  BY <1>1, Decoded

(* A device that never ran has an empty file.                              *)
LEMMA InitInv == Init => Inv
<1> SUFFICES ASSUME Init PROVE Inv
  OBVIOUS
<1>1. Typed /\ Fresh /\ Midway /\ SnapshotIsFile
  BY EmptySeq DEF Init, Typed, Fresh, Midway, SnapshotIsFile, Strings
<1>2. Keyed
  BY FS_EmptySet DEF Init, Keyed, NoStates
<1>3. Durable
  BY EmptyFile DEF Init, Durable
<1> QED
  BY <1>1, <1>2, <1>3 DEF Inv

(* loadStates(): the states that a file holds have strings as ids and data.*)
LEMMA LoadStatesInv == Inv /\ LoadStates => Inv'
<1> SUFFICES ASSUME Inv, LoadStates PROVE Inv'
  OBVIOUS
<1> DEFINE set == LoadSet(file)
           ids == {Id(e) : e \in set}
<1>1. set \subseteq Strings /\ IsFiniteSet(set)
  BY LoadSetTyped DEF Inv, Typed
<1>2. states' \in [ids -> {DataOf(e) : e \in set}]
  BY DEF LoadStates
<1>3. IsFiniteSet(ids)
  <2> DEFINE f == [e \in set |-> Id(e)]
  <2>1. ids = {f[e] : e \in set} /\ DOMAIN f = set
    OBVIOUS
  <2> HIDE DEF f, ids, set
  <2> QED
    BY <1>1, <2>1, Image
<1>4. ids \subseteq Strings /\ {DataOf(e) : e \in set} \subseteq Strings
  BY <1>1, PartsAreStrings
<1>5. Keyed'
  <2> HIDE DEF ids, set
  <2> QED
    BY <1>2, <1>3, <1>4 DEF Keyed
<1>6. (Typed /\ Fresh /\ Midway /\ Durable)'
  BY DEF LoadStates, Inv, Typed, Fresh, Midway, Durable
<1>7. SnapshotIsFile'
  BY DEF LoadStates, SnapshotIsFile
<1> QED
  BY <1>5, <1>6, <1>7 DEF Inv

(* An id and data that the program is given are strings as well.           *)
LEMMA UpdateInv == Inv /\ Update => Inv'
<1> SUFFICES ASSUME Inv, Update PROVE Inv'
  OBVIOUS
<1>1. Keyed'
  <2>1. CASE \E i \in Ids, d \in Data :
               states' = [j \in DOMAIN states \union {i} |-> IF j = i THEN d ELSE states[j]]
    <3>1. PICK i \in Ids, d \in Data :
               states' = [j \in DOMAIN states \union {i} |-> IF j = i THEN d ELSE states[j]]
      BY <2>1
    <3>2. i \in Strings /\ d \in Strings
      BY FileAssumption DEF Strings
    <3>3. IsFiniteSet(DOMAIN states \union {i})
      BY FS_AddElement DEF Inv, Keyed
    <3> QED
      BY <3>1, <3>2, <3>3 DEF Inv, Keyed
  <2>2. CASE \E i \in DOMAIN states : states' = [j \in DOMAIN states \ {i} |-> states[j]]
    <3>1. PICK i \in DOMAIN states : states' = [j \in DOMAIN states \ {i} |-> states[j]]
      BY <2>2
    <3>2. IsFiniteSet(DOMAIN states \ {i})
      BY FS_RemoveElement DEF Inv, Keyed
    <3> QED
      BY <3>1, <3>2 DEF Inv, Keyed
  <2> QED
    BY <2>1, <2>2 DEF Update
<1>2. (Typed /\ Fresh /\ Midway /\ Durable /\ SnapshotIsFile)'
  BY DEF Update, Inv, Typed, Fresh, Midway, Durable, SnapshotIsFile
<1> QED
  BY <1>1, <1>2 DEF Inv

(* saveStates() and ~StateThingy truncate the file.                        *)
LEMMA OpenFileInv ==
    ASSUME Inv, OpenFile, phase' \in {"saving", "stopping"}
    PROVE  Inv'
<1>1. PICK q \in SetToSeqs(Entries(states)) : out' = Written(q)
  BY DEF OpenFile
<1>2. out' \in Strings
  BY <1>1, SavedIsFound DEF Inv
<1>3. file' = <<>> /\ <<>> \in Strings /\ torn' = TRUE
  BY EmptySeq DEF OpenFile, Strings
<1>4. Midway'
  <2>1. file' \o out' = out'
    BY <1>2, <1>3, ConcatEmptySeq DEF Strings
  <2>2. states' = states
    BY DEF OpenFile
  <2>3. Entries(states)' = Entries(states)
    BY <2>2 DEF Entries
  <2> QED
    BY <1>1, <1>3, <2>1, <2>3 DEF Midway
<1>5. Typed' /\ Fresh' /\ Durable' /\ SnapshotIsFile'
  BY <1>2, <1>3 DEF Typed, Fresh, Durable, SnapshotIsFile
<1>6. Keyed'
  BY DEF OpenFile, Inv, Keyed
<1> QED
  BY <1>4, <1>5, <1>6 DEF Inv

(* What is flushed is taken from the front of what is still to come.       *)
LEMMA FlushInv == Inv /\ Flush => Inv'
<1> SUFFICES ASSUME Inv, Flush PROVE Inv'
  OBVIOUS
<1>1. PICK n \in 1..Len(out) : /\ file' = file \o SubSeq(out, 1, n)
                               /\ out' = SubSeq(out, n + 1, Len(out))
  BY DEF Flush
<1> DEFINE a == SubSeq(out, 1, n)
           b == SubSeq(out, n + 1, Len(out))
<1>2. file \in Seq(Nat) /\ out \in Seq(Nat) /\ Len(out) \in Nat
  BY DEF Inv, Typed, Strings
<1>3. a \o b = out
  <2>1. a \o b = SubSeq(out, 1, Len(out))
    BY <1>2, ConcatAdjacentSubSeq
  <2> QED
    BY <1>2, <2>1, SubSeqFull
<1>4. a \in Seq(Nat) /\ b \in Seq(Nat)
  <2>1. (\A k \in 1..n : out[k] \in Nat) /\ (\A k \in n + 1..Len(out) : out[k] \in Nat)
    BY <1>2
  <2>2. 1 \in Int /\ n \in Int /\ n + 1 \in Int /\ Len(out) \in Int
    BY <1>2
  <2> QED
    BY <2>1, <2>2, SubSeqProperties
<1> HIDE DEF a, b
<1>5. file' = file \o a /\ out' = b
  BY <1>1 DEF a, b
<1>6. file' \o out' = file \o out
  <2>1. (file \o a) \o b = file \o (a \o b)
    <3>1. file \in Seq(Nat) /\ a \in Seq(Nat) /\ b \in Seq(Nat)
      BY <1>2, <1>4
    <3> QED
      BY <3>1, Regrouped
  <2> QED
    BY <1>3, <1>5, <2>1
<1>7. Typed'
  <2>1. file' \in Seq(Nat)
    BY <1>2, <1>4, <1>5, ConcatProperties
  <2> QED
    BY <1>4, <1>5, <2>1 DEF Flush, Inv, Typed, Strings
<1>8. Keyed' /\ Fresh'
  BY DEF Flush, Inv, Keyed, Fresh
<1>9. Midway'
  <2>1. Entries(states)' = Entries(states)
    BY DEF Flush, Entries
  <2> QED
    BY <1>6, <2>1 DEF Flush, Inv, Midway
<1>10. Durable' /\ SnapshotIsFile'
  BY DEF Flush, Inv, Midway, Durable, SnapshotIsFile
<1> QED
  BY <1>7, <1>8, <1>9, <1>10 DEF Inv

(* When all is written, the file is what a start finds.                    *)
LEMMA CloseFileInv == Inv /\ CloseFile => Inv'
<1> SUFFICES ASSUME Inv, CloseFile PROVE Inv'
  OBVIOUS
<1>1. PICK q \in SetToSeqs(Entries(states)) : file \o out = Written(q)
  BY DEF CloseFile, Inv, Midway
<1>2. file = Written(q)
  BY <1>1, ConcatEmptySeq DEF CloseFile, Inv, Typed, Strings
<1>3. LoadSet(file) = Entries(states)
  BY <1>2, SavedIsFound DEF Inv
<1>4. Durable' /\ SnapshotIsFile'
  BY <1>3 DEF CloseFile, Durable, SnapshotIsFile
<1>5. Typed' /\ Keyed' /\ Fresh' /\ Midway'
  BY DEF CloseFile, Inv, Typed, Keyed, Fresh, Midway
<1> QED
  BY <1>4, <1>5 DEF Inv

(* The rest leaves the file alone.                                         *)
LEMMA StartInv == Inv /\ Start => Inv'
<1> SUFFICES ASSUME Inv, Start PROVE Inv'
  OBVIOUS
<1>1. DOMAIN states' = {} /\ Entries(states') = {}
  BY DEF Start, NoStates, Entries
<1>2. Keyed'
  BY <1>1, FS_EmptySet DEF Keyed
<1>3. Fresh'
  BY <1>1 DEF Start, Fresh, Entries
<1>4. Typed' /\ Midway' /\ Durable' /\ SnapshotIsFile'
  BY DEF Start, Inv, Typed, Midway, Durable, SnapshotIsFile
<1> QED
  BY <1>2, <1>3, <1>4 DEF Inv

(* A save that is cut short leaves `torn` behind.                          *)
LEMMA CrashInv == Inv /\ Crash => Inv'
<1> SUFFICES ASSUME Inv, Crash PROVE Inv'
  OBVIOUS
<1>1. Typed'
  BY EmptySeq DEF Crash, Inv, Typed, Strings
<1> QED
  BY <1>1 DEF Crash, Inv, Keyed, Fresh, Midway, Durable, SnapshotIsFile

(* A stop without changes leaves all as it is.                             *)
LEMMA StopUnchangedInv ==
    ASSUME Inv, phase' = "down", UNCHANGED <<states, snapshot, file, out, saved, torn, crashes>>
    PROVE  Inv'
  BY DEF Inv, Typed, Keyed, Fresh, Midway, Durable, SnapshotIsFile

(* The inductive invariant holds, with the saves and crashes of any run.   *)
THEOREM Invariant == Spec => []Inv
<1>1. Init => Inv
  BY InitInv
<1>2. Inv /\ [Next]_vars => Inv'
  <2> SUFFICES ASSUME Inv, [Next]_vars PROVE Inv'
    OBVIOUS
  <2>1. CASE Start
    BY <2>1, StartInv
  <2>2. CASE LoadStates
    BY <2>2, LoadStatesInv
  <2>3. CASE Update
    BY <2>3, UpdateInv
  <2>4. CASE SaveStates
    BY <2>4, OpenFileInv DEF SaveStates
  <2>5. CASE Stop
    BY <2>5, OpenFileInv, StopUnchangedInv DEF Stop
  <2>6. CASE Flush
    BY <2>6, FlushInv
  <2>7. CASE CloseFile
    BY <2>7, CloseFileInv
  <2>8. CASE Crash
    BY <2>8, CrashInv
  <2>9. CASE UNCHANGED vars
    BY <2>9 DEF vars, Inv, Typed, Keyed, Fresh, Midway, Durable, SnapshotIsFile, Entries
  <2> QED
    BY <2>1, <2>2, <2>3, <2>4, <2>5, <2>6, <2>7, <2>8, <2>9 DEF Next
<1> QED
  BY <1>1, <1>2, PTL DEF Spec

(* What was saved is what a start finds, unless a save was interrupted     *)
(* since, however often the process was killed before.                     *)
THEOREM SavedStatesAreDurable == Spec => []Durable
<1>1. Inv => Durable
  BY DEF Inv
<1> QED
  BY <1>1, Invariant, PTL

(* What saveStates() compares with is what is in the file, torn or not.    *)
THEOREM SnapshotIsWhatIsStored == Spec => []SnapshotIsFile
<1>1. Inv => SnapshotIsFile
  BY DEF Inv
<1> QED
  BY <1>1, Invariant, PTL

-----------------------------------------------------------------------------
(* The panels.                                                             *)

(* What is on the panel is a picture, at a time and with a fraction of the *)
(* wave that there is.                                                     *)
Drawn == picture \in Pictures /\ elapsed \in Nat /\ fraction \in 0..MaxWave

LEMMA DrawnAlways == PanelSpec => []Drawn
<1>1. PanelInit => Drawn
  BY PanelAssumption DEF PanelAssumption, PanelInit, Drawn
<1>2. Drawn /\ [Frame]_panelVars => Drawn'
  <2>1. ASSUME Drawn, Frame PROVE Drawn'
    <3>1. MaxWave \in Nat \ {0} /\ FrameTime \in Nat
      BY PanelAssumption DEF PanelAssumption
    <3>2. elapsed' = elapsed + FrameTime /\ picture' = picture
      BY <2>1 DEF Frame
    <3>3. fraction' \in 0..MaxWave \/ fraction' = 0
      BY <2>1 DEF Frame
    <3>4. QED
      BY <2>1, <3>1, <3>2, <3>3 DEF Drawn
  <2>2. QED
    BY <2>1 DEF Drawn, panelVars
<1>3. QED
  BY <1>1, <1>2, PTL DEF PanelSpec

(* The quotient of C++ rounds towards 0, so that the remainder has the     *)
(* sign of what is divided.                                                *)
LEMMA RemainderSign ==
    ASSUME NEW n \in Nat, NEW d \in Nat \ {0}
    PROVE  Remainder(n, d) >= 0 /\ Remainder(-n, d) = -(n % d)
<1>1. /\ n \div d \in Int /\ n % d \in 0..(d - 1)
      /\ n = (d * (n \div d)) + (n % d)
  BY Division
<1>2. Quotient(n, d) = n \div d
  BY DEF Quotient
<1>3. Quotient(-n, d) = -(n \div d)
  <2>1. CASE n = 0
    <3>1. 0 \div d = 0
      BY DivisionUnique
    <3>2. QED
      BY <2>1, <3>1 DEF Quotient
  <2>2. CASE n > 0
    BY <2>2 DEF Quotient
  <2>3. QED
    BY <2>1, <2>2
<1> DEFINE q == n \div d  r == n % d
<1>4. q \in Int /\ r \in 0..(d - 1) /\ n = d * q + r /\ -n = d * (-q) - r
  BY <1>1
<1>5. Remainder(n, d) = n - d * q /\ Remainder(-n, d) = -n - d * (-q)
  BY <1>2, <1>3 DEF Remainder
<1> HIDE DEF q, r
<1>6. n - d * q = r /\ -n - d * (-q) = -r
  BY <1>4
<1>7. QED
  BY <1>4, <1>5, <1>6 DEF r

(* The larger of two numbers.                                              *)
LEMMA MaxOfTwo ==
    ASSUME NEW a \in Int, NEW b \in Int
    PROVE  Max({a, b}) = IF a >= b THEN a ELSE b
<1> DEFINE m == IF a >= b THEN a ELSE b
<1>1. m \in {a, b} /\ \A y \in {a, b} : m >= y
  OBVIOUS
<1>2. \A x \in {a, b} : (\A y \in {a, b} : x >= y) => x = m
  OBVIOUS
<1>3. QED
  BY <1>1, <1>2 DEF Max

(* A picture is as wide as the panel at least.                             *)
LEMMA WideOf ==
    ASSUME NEW p \in Pictures
    PROVE  Wide(p) \in Nat /\ Wide(p) >= 23
<1>1. p.width \in Nat
  BY PanelAssumption DEF PanelAssumption
<1>2. QED
  BY <1>1, MaxOfTwo DEF Wide

-----------------------------------------------------------------------------
(* What is n steps before c on a tape of d columns is at c after n steps.  *)
LEMMA AroundTheTape ==
    ASSUME NEW d \in Nat \ {0}, NEW n \in Int, NEW c \in 0..(d - 1)
    PROVE  (c - n) % d = 0 <=> n % d = c
<1>1. ASSUME n % d = c PROVE (c - n) % d = 0
  <2>1. PICK q \in Int : n = d * q + c
    BY <1>1, Division
  <2>2. c - n = d * (-q) + 0 /\ -q \in Int /\ 0 \in 0..(d - 1) /\ c - n \in Int
    BY <2>1
  <2>3. QED
    BY <2>2, DivisionUnique
<1>2. ASSUME (c - n) % d = 0 PROVE n % d = c
  <2> DEFINE m == c - n
  <2>0. m \in Int
    OBVIOUS
  <2> HIDE DEF m
  <2>1. PICK q \in Int : c - n = d * q
    <3>1. m \div d \in Int /\ m = (d * (m \div d)) + (m % d)
      BY <2>0, Division
    <3>2. m % d = 0
      BY <1>2 DEF m
    <3>3. m = d * (m \div d)
      BY <2>0, <3>1, <3>2
    <3>4. QED
      BY <3>1, <3>3 DEF m
  <2>2. n = d * (-q) + c /\ -q \in Int
    BY <2>1
  <2>3. QED
    BY <2>2, DivisionUnique
<1>3. QED
  BY <1>1, <1>2

(* A column of a picture that scrolls is in column x of the panel if it    *)
(* has come in and the tape has it there.                                  *)
LEMMA ColumnOnTape ==
    ASSUME NEW p \in Pictures, NEW ms \in Nat, NEW sx \in Nat, NEW x \in 0..22, p.xscroll # 0
    PROVE  Column(p, ms, sx) = x
              <=> /\ ~(x = 0 /\ Wide(p) = 23)
                  /\ sx < Shift(p, ms)
                  /\ (sx - (x + Shift(p, ms) - 23)) % Wide(p) = 0
<1> DEFINE t == Shift(p, ms)  w == Wide(p)
<1>1. w \in Nat \ {0} /\ w >= 23
  BY WideOf
<1>2. t \in Int
  <2>1. p.xscroll * ms \in Int
    BY PanelAssumption DEF PanelAssumption
  <2>2. \A n \in Int : n \div 1000 \in Int
    OBVIOUS
  <2>3. QED
    BY <2>1, <2>2 DEF Shift, Quotient
<1>3. Column(p, ms, sx) = 23 + Remainder(sx - t, w)
  BY DEF Column
<1> HIDE DEF t, w
<1>4. CASE sx >= t
  <2>1. Remainder(sx - t, w) >= 0
    BY <1>1, <1>2, <1>4, RemainderSign
  <2>2. Remainder(sx - t, w) \in Int
    <3>1. (sx - t) \div w \in Int /\ sx - t >= 0
      BY <1>1, <1>2, <1>4, Division
    <3>2. QED
      BY <1>1, <1>2, <3>1 DEF Remainder, Quotient
  <2>3. QED
    BY <1>2, <1>3, <1>4, <2>1, <2>2 DEF t
<1>5. CASE sx < t
  <2> DEFINE n == t - sx  c == 23 - x
  <2>1. n \in Nat /\ n > 0 /\ sx - t = -n /\ c \in 1..23
    BY <1>2, <1>5
  <2>2. sx - (x + t - 23) = c - n
    BY <1>2
  <2> HIDE DEF n, c
  <2>3. n % w \in 0..(w - 1)
    BY <1>1, <2>1, Division
  <2>4. Column(p, ms, sx) = 23 - (n % w)
    <3>1. Remainder(-n, w) = -(n % w)
      BY <1>1, <2>1, RemainderSign
    <3>2. QED
      BY <1>3, <2>1, <2>3, <3>1
  <2>5. Column(p, ms, sx) = x <=> n % w = c
    BY <2>3, <2>4 DEF c
  <2>6. CASE c \in 0..(w - 1)
    <3>1. (c - n) % w = 0 <=> n % w = c
      <4>1. w \in Nat \ {0} /\ n \in Int
        BY <1>1, <2>1
      <4>2. QED
        BY ONLY <2>6, <4>1, AroundTheTape
    <3>2. ~(x = 0 /\ w = 23)
      BY <2>6 DEF c
    <3>3. QED
      BY <1>5, <2>2, <2>5, <3>1, <3>2 DEF t, w
  <2>7. CASE x = 0 /\ w = 23
    <3>1. n % w # c
      BY <2>3, <2>7 DEF c
    <3>2. QED
      BY <2>5, <2>7, <3>1 DEF w
  <2>8. c \in 0..(w - 1) \/ (x = 0 /\ w = 23)
    BY <1>1 DEF c
  <2>9. QED
    BY <2>6, <2>7, <2>8
<1>6. QED
  BY <1>2, <1>4, <1>5

-----------------------------------------------------------------------------
(* A quotient is small if the dividend is ...                              *)
LEMMA QuotientBelow ==
    ASSUME NEW n \in Nat, NEW d \in Nat \ {0}, NEW b \in Nat, n < d * b
    PROVE  n \div d \in 0..(b - 1)
<1> DEFINE q == n \div d
<1>1. q \in Int /\ n % d \in 0..(d - 1) /\ n = (d * q) + (n % d)
  BY Division
<1> HIDE DEF q
<1>2. d * q <= n /\ n < d * q + d
  BY <1>1
<1>3. q >= b => d * q >= d * b
  BY <1>1
<1>4. q <= -1 => d * q + d <= 0
  BY <1>1
<1>5. QED
  BY <1>1, <1>2, <1>3, <1>4 DEF q

(* ... and grows by one at most if the dividend grows by the divisor.      *)
LEMMA QuotientGrows ==
    ASSUME NEW n \in Nat, NEW m \in Nat, NEW d \in Nat \ {0}, n <= m, m <= n + d
    PROVE  n \div d <= m \div d /\ m \div d <= n \div d + 1
<1> DEFINE q == n \div d  r == m \div d
<1>1. q \in Int /\ r \in Int
  BY Division
<1>2. n % d \in 0..(d - 1) /\ n = (d * q) + (n % d)
  BY Division
<1>3. m % d \in 0..(d - 1) /\ m = (d * r) + (m % d)
  BY Division
<1> HIDE DEF q, r
<1>4. d * q <= n /\ n < d * q + d /\ d * r <= m /\ m < d * r + d
  BY <1>1, <1>2, <1>3
<1>5. r <= q - 1 => d * r + d <= d * q
  BY <1>1
<1>6. r >= q + 2 => d * r >= d * q + d + d
  BY <1>1
<1>7. d * q \in Int /\ d * r \in Int
  BY <1>1
<1>8. QED
  BY <1>1, <1>4, <1>5, <1>6, <1>7 DEF q, r

(* How far row y is moved: towards the middle, never beyond it.            *)
Moved(y, k) == ((15 - 2 * y) * k) \div (2 * MaxWave)

LEMMA MovedSteps ==
    ASSUME NEW y \in 0..7, NEW k \in 0..MaxWave
    PROVE  /\ Moved(y, k) \in 0..(7 - y)
           /\ y > 0 => /\ Moved(y, k) <= Moved(y - 1, k)
                       /\ Moved(y - 1, k) <= Moved(y, k) + 1
<1> DEFINE d == 2 * MaxWave  n == (15 - 2 * y) * k  m == (17 - 2 * y) * k
<1>1. MaxWave \in Nat \ {0} /\ k \in Nat /\ k <= MaxWave
  BY PanelAssumption DEF PanelAssumption
<1>2. d \in Nat \ {0} /\ n \in Nat /\ m \in Nat
  BY <1>1
<1>3. m = n + 2 * k
  BY <1>1
<1>4. n < d * (8 - y)
  <2>1. (15 - 2 * y) * k <= (15 - 2 * y) * MaxWave
    BY <1>1
  <2>2. (15 - 2 * y) * MaxWave < (16 - 2 * y) * MaxWave
    BY <1>1
  <2>3. (16 - 2 * y) * MaxWave = d * (8 - y)
    BY <1>1
  <2>4. QED
    BY <1>1, <1>2, <2>1, <2>2, <2>3
<1>5. 2 * k <= d
  BY <1>1
<1>6. Moved(y, k) = n \div d /\ Moved(y - 1, k) = m \div d
  <2>1. 15 - 2 * (y - 1) = 17 - 2 * y
    OBVIOUS
  <2>2. QED
    BY <2>1 DEF Moved
<1> HIDE DEF d, n, m
<1>7. n \div d \in 0..(7 - y)
  <2>1. n \div d \in 0..((8 - y) - 1) /\ (8 - y) - 1 = 7 - y
    BY <1>2, <1>4, QuotientBelow
  <2>2. QED
    BY <2>1
<1>8. n \div d <= m \div d /\ m \div d <= n \div d + 1
  <2>1. n <= m /\ m <= n + d
    BY <1>1, <1>2, <1>3, <1>5
  <2>2. QED
    BY <1>2, <2>1, QuotientGrows
<1>9. QED
  BY <1>6, <1>7, <1>8

(* A row of the upper half goes down by that, its mirror image goes up.    *)
LEMMA RowMoved ==
    ASSUME NEW y \in 0..7, NEW k \in 0..MaxWave
    PROVE  Row(y, k) = y + Moved(y, k) /\ Row(15 - y, k) = 15 - y - Moved(y, k)
<1>1. MaxWave \in Nat \ {0} /\ k \in Nat
  BY PanelAssumption DEF PanelAssumption
<1> DEFINE n == (15 - 2 * y) * k
<1>2. n \in Nat /\ (15 - 2 * (15 - y)) * k = -n
  BY <1>1
<1>3. 2 * MaxWave \in Nat \ {0}
  BY <1>1
<1> HIDE DEF n
<1>4. Quotient(n, 2 * MaxWave) = n \div (2 * MaxWave)
  BY <1>2 DEF Quotient
<1>5. Quotient(-n, 2 * MaxWave) = -(n \div (2 * MaxWave))
  <2>1. CASE n = 0
    <3>1. 0 \div (2 * MaxWave) = 0
      BY <1>3, DivisionUnique
    <3>2. QED
      BY <2>1, <3>1 DEF Quotient
  <2>2. CASE n > 0
    BY <1>2, <2>2 DEF Quotient
  <2>3. QED
    BY <1>2, <2>1, <2>2
<1>6. n \div (2 * MaxWave) \in Int
  BY <1>2, <1>3, Division
<1>7. QED
  BY <1>2, <1>4, <1>5, <1>6 DEF Row, Moved, n

-----------------------------------------------------------------------------
(* In every frame each column of the panel shows what the tape has there.  *)
LEMMA DrawnScrolls == Drawn => ScrollsAsTape
<1> SUFFICES ASSUME Drawn, picture.xscroll # 0, NEW x \in 0..22
             PROVE  LET t == Shift(picture, elapsed)
                        columns == 0..((Len(picture.cells) \div High(picture)) - 1)
                    IN  {sx \in columns : Column(picture, elapsed, sx) = x} =
                            IF x = 0 /\ Wide(picture) = 23 THEN {}
                            ELSE {sx \in columns : sx < t /\ (sx - (x + t - 23)) % Wide(picture) = 0}
  BY DEF ScrollsAsTape
<1> DEFINE columns == 0..((Len(picture.cells) \div High(picture)) - 1)
           shown(sx) == sx < Shift(picture, elapsed)
                           /\ (sx - (x + Shift(picture, elapsed) - 23)) % Wide(picture) = 0
           never == x = 0 /\ Wide(picture) = 23
<1>1. columns \subseteq Nat
  OBVIOUS
<1>2. \A sx \in Nat : Column(picture, elapsed, sx) = x <=> ~never /\ shown(sx)
  BY ColumnOnTape DEF Drawn
<1> HIDE DEF columns, shown, never
<1>3. {sx \in columns : Column(picture, elapsed, sx) = x}
          = IF never THEN {} ELSE {sx \in columns : shown(sx)}
  BY <1>1, <1>2
<1>4. QED
  BY <1>3 DEF columns, shown, never

(* In every frame the rows are in order, and none leaves its half.         *)
LEMMA DrawnWaves == Drawn => WaveKeepsOrder
<1> SUFFICES ASSUME Drawn, NEW y \in 0..15
             PROVE  /\ y < 8 => Row(y, fraction) \in y..7
                    /\ y >= 8 => Row(y, fraction) \in 8..y
                    /\ y > 0 => Row(y - 1, fraction) <= Row(y, fraction)
  BY DEF WaveKeepsOrder
<1>1. fraction \in 0..MaxWave
  BY DEF Drawn
<1>2. \A z \in 0..7 : /\ Row(z, fraction) = z + Moved(z, fraction)
                      /\ Row(15 - z, fraction) = 15 - z - Moved(z, fraction)
  BY <1>1, RowMoved
<1>3. \A z \in 0..7 : Moved(z, fraction) \in 0..(7 - z)
  BY <1>1, MovedSteps
<1>4. \A z \in 1..7 : /\ Moved(z, fraction) <= Moved(z - 1, fraction)
                      /\ Moved(z - 1, fraction) <= Moved(z, fraction) + 1
  BY <1>1, MovedSteps
<1>5. CASE y \in 0..7
  <2>1. Row(y, fraction) \in y..7
    BY <1>2, <1>3, <1>5
  <2>2. y > 0 => Row(y - 1, fraction) <= Row(y, fraction)
    <3> SUFFICES ASSUME y > 0 PROVE Row(y - 1, fraction) <= Row(y, fraction)
      OBVIOUS
    <3>1. y \in 1..7 /\ y - 1 \in 0..7
      BY <1>5
    <3>2. Row(y, fraction) = y + Moved(y, fraction)
          /\ Row(y - 1, fraction) = y - 1 + Moved(y - 1, fraction)
      BY <1>2, <3>1
    <3>3. Moved(y, fraction) \in Int /\ Moved(y - 1, fraction) \in Int
      BY <1>3, <3>1
    <3>4. QED
      BY <1>4, <3>1, <3>2, <3>3
  <2>3. QED
    BY <1>5, <2>1, <2>2
<1>6. CASE y \in 8..15
  <2> DEFINE z == 15 - y
  <2>1. z \in 0..7 /\ 15 - z = y
    BY <1>6
  <2>2. Row(y, fraction) = y - Moved(z, fraction)
    <3>1. Row(15 - z, fraction) = 15 - z - Moved(z, fraction)
      BY <1>2, <2>1
    <3>2. QED
      BY <2>1, <3>1
  <2>3. Moved(z, fraction) \in 0..(y - 8)
    <3>1. Moved(z, fraction) \in 0..(7 - z) /\ 7 - z = y - 8
      BY <1>3, <2>1
    <3>2. QED
      BY <3>1
  <2>4. Row(y, fraction) \in 8..y
    BY <1>6, <2>2, <2>3
  <2>5. Row(y - 1, fraction) <= Row(y, fraction)
    <3>1. CASE y = 8
      <4>1. Row(7, fraction) = 7 + Moved(7, fraction) /\ Moved(7, fraction) \in 0..0
        BY <1>2, <1>3
      <4>2. QED
        BY <2>4, <3>1, <4>1
    <3>2. CASE y > 8
      <4>1. z + 1 \in 1..7 /\ z + 1 \in 0..7 /\ z + 1 - 1 = z /\ 15 - (z + 1) = y - 1
        BY <1>6, <3>2
      <4>2. Row(y - 1, fraction) = y - 1 - Moved(z + 1, fraction)
        <5>1. Row(15 - (z + 1), fraction) = 15 - (z + 1) - Moved(z + 1, fraction)
          BY <1>2, <4>1
        <5>2. QED
          BY <4>1, <5>1
      <4>3. Moved(z, fraction) <= Moved(z + 1, fraction) + 1
        BY <1>4, <4>1
      <4>4. Moved(z + 1, fraction) \in Int
        BY <1>3, <4>1
      <4>5. QED
        BY <2>2, <2>3, <4>2, <4>3, <4>4
    <3>3. QED
      BY <1>6, <3>1, <3>2
  <2>6. QED
    BY <1>6, <2>4, <2>5
<1>7. QED
  BY <1>5, <1>6

-----------------------------------------------------------------------------
(* The weights of the three channels add up to 1000.                       *)
Weight(r, g, b) == 299 * r + 587 * g + 114 * b

LEMMA Weighted ==
    ASSUME NEW r \in Channel, NEW g \in Channel, NEW b \in Channel
    PROVE  /\ Weight(r, g, b) \in Nat /\ Weight(r, g, b) \div 1000 \in Channel
           /\ Weight(r, g, b) = 0 <=> r = 0 /\ g = 0 /\ b = 0
<1>1. \A p \in Int : 0 <= p /\ p <= 255 * 1000 => p \div 1000 \in Channel
  BY SMT DEF Channel
<1>2. Weight(r, g, b) \in Int /\ 0 <= Weight(r, g, b) /\ Weight(r, g, b) <= 255 * 1000
  BY SMT DEF Weight, Channel
<1>3. Weight(r, g, b) = 0 <=> r = 0 /\ g = 0 /\ b = 0
  BY SMT DEF Weight, Channel
<1>4. QED
  BY <1>1, <1>2, <1>3, SMT

(* Only black has no luminance, and that of a colour fits eight bits.      *)
LEMMA LuminanceOf ==
    ASSUME NEW c \in Colors
    PROVE  /\ Luminance(c) \in 0..255
           /\ Luminance(c) = 0 <=> c = Black
<1>1. c[1] \in 0..255 /\ c[2] \in 0..255 /\ c[3] \in 0..255
  BY DEF Colors, Channel
<1> DEFINE r == c[1]  g == c[2]  b == c[3]  p == Weight(r, g, b)
<1>0. r \in Channel /\ g \in Channel /\ b \in Channel
  BY <1>1 DEF Channel
<1> HIDE DEF r, g, b
<1>2. p \in Nat /\ p \div 1000 \in Channel
  BY <1>0, Weighted
<1>3. p = 0 <=> r = 0 /\ g = 0 /\ b = 0
  BY <1>0, Weighted
<1>4. c = Black <=> r = 0 /\ g = 0 /\ b = 0
  <2>1. ASSUME r = 0, g = 0, b = 0 PROVE c = Black
    <3>1. c = [k \in 1..3 |-> c[k]]
      BY DEF Colors
    <3>2. \A k \in 1..3 : c[k] = <<0, 0, 0>>[k]
      BY <2>1 DEF r, g, b
    <3>3. <<0, 0, 0>> = [k \in 1..3 |-> <<0, 0, 0>>[k]]
      OBVIOUS
    <3>4. QED
      BY <3>1, <3>2, <3>3 DEF Black
  <2>2. QED
    BY <2>1 DEF Black, r, g, b
<1>5. Luminance(c) = (IF p = 0 THEN 0 ELSE Max({p \div 1000, 1})) % 256
  BY DEF Luminance, Weight, r, g, b
<1> HIDE DEF p
<1>6. CASE p = 0
  BY <1>3, <1>4, <1>5, <1>6
<1>7. CASE p # 0
  <2> DEFINE q == p \div 1000
  <2>1. q \in 0..255
    BY <1>2 DEF Channel
  <2> HIDE DEF q
  <2>2. Max({q, 1}) \in 1..255
    <3>1. Max({q, 1}) = IF q >= 1 THEN q ELSE 1
      BY <2>1, MaxOfTwo
    <3>2. QED
      BY <2>1, <3>1
  <2>3. Luminance(c) = Max({q, 1})
    BY <1>5, <1>7, <2>2 DEF q
  <2>4. QED
    BY <1>3, <1>4, <1>7, <2>2, <2>3
<1>8. QED
  BY <1>6, <1>7

(* An opaque colour on a dark LED is exact: what the scaling takes away it *)
(* gives back, whatever the luminance was rounded to.                      *)
LEMMA OpaqueIsExact ==
    ASSUME NEW c \in Colors
    PROVE  Blend(Black, c, 255) = c
<1>1. \A k \in 1..3 : c[k] \in 0..255
  BY DEF Colors, Channel
<1> DEFINE sum == [k \in 1..3 |-> 255 * Black[k] + 255 * c[k]]
           most == Max({Luminance(Black), Luminance(c)})
           all == Luminance([k \in 1..3 |-> sum[k] \div 255])
<1>2. \A k \in 1..3 : Black[k] = 0
  BY DEF Black
<1>3. Black \in Colors
  BY DEF Black, Colors, Channel
<1>4. \A k \in 1..3 : sum[k] = 255 * c[k]
  BY <1>1, <1>2
<1>5. all = Luminance(c)
  <2>1. [k \in 1..3 |-> sum[k] \div 255] = c
    <3> DEFINE f == [k \in 1..3 |-> sum[k] \div 255]
    <3>1. \A k \in 1..3 : f[k] = c[k]
      BY <1>1, <1>4
    <3>2. DOMAIN f = 1..3 /\ f = [k \in 1..3 |-> f[k]] /\ c = [k \in 1..3 |-> c[k]]
      BY DEF Colors
    <3> HIDE DEF f
    <3>3. f = c
      BY <3>1, <3>2
    <3>4. QED
      BY <3>3 DEF f
  <2>2. QED
    BY <2>1
<1>6. Luminance(Black) = 0 /\ Luminance(c) \in 0..255
  BY <1>3, LuminanceOf
<1>7. most = Luminance(c)
  <2>1. \A l \in 0..255 : Max({0, l}) = l
    <3> SUFFICES ASSUME NEW l \in 0..255 PROVE Max({0, l}) = l
      OBVIOUS
    <3>1. Max({0, l}) = IF 0 >= l THEN 0 ELSE l
      BY MaxOfTwo
    <3>2. QED
      BY <3>1
  <2>2. QED
    BY <1>6, <2>1
<1>8. Blend(Black, c, 255)
          = IF all = 0 THEN Black ELSE [k \in 1..3 |-> ((sum[k] * most) \div (255 * all)) % 256]
  BY DEF Blend
<1> HIDE DEF sum, most, all
<1>9. CASE Luminance(c) = 0
  BY <1>5, <1>8, <1>9, LuminanceOf
<1>10. CASE Luminance(c) # 0
  <2> DEFINE l == Luminance(c)  f == [k \in 1..3 |-> ((sum[k] * most) \div (255 * all)) % 256]
  <2>1. l \in 1..255
    BY <1>6, <1>10
  <2>2. ASSUME NEW k \in 1..3 PROVE f[k] = c[k]
    <3>1. f[k] = (((255 * c[k]) * l) \div (255 * l)) % 256
      BY <1>4, <1>5, <1>7
    <3> HIDE DEF l
    <3>2. (255 * c[k]) * l = (255 * l) * c[k] + 0
      BY <1>1, <2>1
    <3>3. 255 * l \in Nat \ {0} /\ 0 \in 0..(255 * l - 1) /\ (255 * c[k]) * l \in Int /\ c[k] \in Int
      BY <1>1, <2>1
    <3>4. ((255 * c[k]) * l) \div (255 * l) = c[k]
      BY <3>2, <3>3, DivisionUnique
    <3>5. c[k] % 256 = c[k]
      BY <1>1
    <3>6. QED
      BY <3>1, <3>4, <3>5
  <2>3. f = [k \in 1..3 |-> f[k]] /\ c = [k \in 1..3 |-> c[k]]
    BY DEF Colors
  <2>4. Blend(Black, c, 255) = f
    BY <1>5, <1>8, <1>10
  <2> HIDE DEF f
  <2>5. f = c
    BY <2>2, <2>3
  <2>6. QED
    BY <2>4, <2>5
<1>11. QED
  BY <1>9, <1>10

-----------------------------------------------------------------------------
Spotis == (0..22) \X (0..15)

Ikeas == (0..15) \X (0..15)

(* The place of row y in its block of four, and of column x in its half of *)
(* the panel, by the table of the shift registers.                         *)
Byte(h, c) == Wiring[c + 1][h + 1]

LEMMA ByteNumbers ==
    /\ Byte(0, 0) = 2 /\ Byte(1, 0) = 0 /\ Byte(0, 1) = 3 /\ Byte(1, 1) = 1
    /\ Byte(0, 2) = 4 /\ Byte(1, 2) = 6 /\ Byte(0, 3) = 5 /\ Byte(1, 3) = 7
BY DEF Byte, Wiring

(* A place taken apart.                                                    *)
LEMMA PlaceOf ==
    ASSUME NEW x \in 0..15, NEW y \in 0..15
    PROVE  /\ y \div 4 \in 0..3 /\ y % 4 \in 0..3 /\ y = 4 * (y \div 4) + (y % 4)
           /\ x \div 8 \in 0..1 /\ x % 8 \in 0..7 /\ x = 8 * (x \div 8) + (x % 8)
           /\ y % 2 = IF y % 4 \in {1, 3} THEN 1 ELSE 0
BY SMT

(* The formula of ikea.cpp is the table.                                   *)
LEMMA WiredAsTold == \A at \in Ikeas : IkeaOffset(at) = Wire(at) /\ IkeaOffset(at) # None
<1> SUFFICES ASSUME NEW at \in Ikeas PROVE Offset(at[1], at[2]) = Wire(at) /\ Offset(at[1], at[2]) # None
  BY DEF IkeaOffset, Ikeas
<1> DEFINE x == at[1]  y == at[2]  a == y \div 4  c == y % 4  h == x \div 8  m == x % 8
<1>1. x \in 0..15 /\ y \in 0..15
  BY DEF Ikeas
<1>2. /\ a \in 0..3 /\ c \in 0..3 /\ h \in 0..1 /\ m \in 0..7
      /\ y % 2 = IF c \in {1, 3} THEN 1 ELSE 0
  BY <1>1, PlaceOf
<1>3. Wire(at) = 64 * a + 8 * Byte(h, c) + (IF Byte(h, c) % 2 = 1 THEN m ELSE 7 - m)
  BY DEF Wire, Byte
<1> DEFINE lower == IF c >= 2 THEN 1 ELSE 0
           index == 2 + lower * 2 + (lower * 4 * h - h * 2) + (y % 2)
<1>4. Offset(x, y) = 64 * a + 8 * index + (IF index % 2 = 1 THEN m ELSE 7 - m)
  BY DEF Offset
<1> HIDE DEF x, y, a, c, h, m
<1>5. index = Byte(h, c) /\ index \in 0..7
  <2>1. c \in {0, 1, 2, 3} /\ h \in {0, 1}
    BY <1>2
  <2>2. CASE h = 0
    BY <1>2, <2>1, <2>2, ByteNumbers
  <2>3. CASE h = 1
    BY <1>2, <2>1, <2>3, ByteNumbers
  <2>4. QED
    BY <2>1, <2>2, <2>3
<1> HIDE DEF index
<1>6. Offset(x, y) = Wire(at)
  BY <1>3, <1>4, <1>5
<1>7. Offset(x, y) >= 0
  <2> DEFINE bit == IF index % 2 = 1 THEN m ELSE 7 - m
  <2>1. bit \in 0..7
    BY <1>2
  <2>2. Offset(x, y) = 64 * a + 8 * index + bit
    BY <1>4
  <2> HIDE DEF bit
  <2>3. a \in Nat /\ index \in Nat /\ bit \in Nat
    BY <1>2, <1>5, <2>1
  <2>4. 64 * a + 8 * index + bit >= 0
    BY <2>3
  <2>5. QED
    BY <2>2, <2>4
<1>8. QED
  BY <1>6, <1>7 DEF None, x, y

(* Different places have bits of their own.                                *)
LEMMA BitsApart ==
    ASSUME NEW p \in Ikeas, NEW q \in Ikeas, IkeaOffset(p) = IkeaOffset(q)
    PROVE  p = q
<1>1. \A h \in 0..1, c \in 0..3 : Byte(h, c) \in 0..7
  <2> SUFFICES ASSUME NEW h \in 0..1, NEW c \in 0..3 PROVE Byte(h, c) \in 0..7
    OBVIOUS
  <2>1. c \in {0, 1, 2, 3} /\ h \in {0, 1}
    OBVIOUS
  <2>2. QED
    BY <2>1, ByteNumbers
<1>2. \A h, i \in 0..1, c, d \in 0..3 : Byte(h, c) = Byte(i, d) => h = i /\ c = d
  <2> SUFFICES ASSUME NEW h \in 0..1, NEW i \in 0..1, NEW c \in 0..3, NEW d \in 0..3,
                      Byte(h, c) = Byte(i, d)
               PROVE  h = i /\ c = d
    OBVIOUS
  <2>1. c \in {0, 1, 2, 3} /\ d \in {0, 1, 2, 3} /\ h \in {0, 1} /\ i \in {0, 1}
    OBVIOUS
  <2>2. CASE h = 0 /\ i = 0
    BY <2>1, <2>2, ByteNumbers
  <2>3. CASE h = 0 /\ i = 1
    BY <2>1, <2>3, ByteNumbers
  <2>4. CASE h = 1 /\ i = 0
    BY <2>1, <2>4, ByteNumbers
  <2>5. CASE h = 1 /\ i = 1
    BY <2>1, <2>5, ByteNumbers
  <2>6. QED
    BY <2>1, <2>2, <2>3, <2>4, <2>5
<1> DEFINE a(z) == z[2] \div 4  c(z) == z[2] % 4  h(z) == z[1] \div 8  m(z) == z[1] % 8
           byte(z) == Byte(h(z), c(z))
           bit(z) == IF byte(z) % 2 = 1 THEN m(z) ELSE 7 - m(z)
<1>3. \A z \in Ikeas :
         /\ a(z) \in 0..3 /\ c(z) \in 0..3 /\ h(z) \in 0..1 /\ m(z) \in 0..7
         /\ z = <<8 * h(z) + m(z), 4 * a(z) + c(z)>>
  <2> SUFFICES ASSUME NEW z \in Ikeas
               PROVE  /\ a(z) \in 0..3 /\ c(z) \in 0..3 /\ h(z) \in 0..1 /\ m(z) \in 0..7
                      /\ z = <<8 * h(z) + m(z), 4 * a(z) + c(z)>>
    OBVIOUS
  <2>1. z[1] \in 0..15 /\ z[2] \in 0..15 /\ z = <<z[1], z[2]>>
    BY DEF Ikeas
  <2>2. /\ a(z) \in 0..3 /\ c(z) \in 0..3 /\ h(z) \in 0..1 /\ m(z) \in 0..7
        /\ z[1] = 8 * h(z) + m(z) /\ z[2] = 4 * a(z) + c(z)
    BY <2>1, PlaceOf
  <2>3. QED
    BY <2>1, <2>2
<1>4. \A z \in Ikeas : IkeaOffset(z) = 64 * a(z) + 8 * byte(z) + bit(z)
  BY WiredAsTold DEF Wire, Byte
<1> HIDE DEF a, c, h, m
<1>5. \A z \in Ikeas : byte(z) \in 0..7
  BY <1>1, <1>3
<1>6. \A z \in Ikeas : bit(z) \in 0..7
  <2> SUFFICES ASSUME NEW z \in Ikeas PROVE bit(z) \in 0..7
    OBVIOUS
  <2>1. m(z) \in 0..7
    BY <1>3
  <2>2. QED
    BY <2>1
<1>7. a(p) = a(q) /\ byte(p) = byte(q) /\ bit(p) = bit(q)
  <2> HIDE DEF byte, bit
  <2>1. 64 * a(p) + 8 * byte(p) + bit(p) = 64 * a(q) + 8 * byte(q) + bit(q)
    BY <1>4
  <2>2. /\ a(p) \in 0..3 /\ a(q) \in 0..3 /\ byte(p) \in 0..7 /\ byte(q) \in 0..7
        /\ bit(p) \in 0..7 /\ bit(q) \in 0..7
    BY <1>3, <1>5, <1>6
  <2>3. QED
    BY <2>1, <2>2
<1>8. h(p) = h(q) /\ c(p) = c(q)
  BY <1>2, <1>3, <1>7
<1>9. m(p) = m(q)
  <2>1. m(p) \in 0..7 /\ m(q) \in 0..7 /\ bit(p) = bit(q) /\ byte(p) = byte(q)
    BY <1>3, <1>7
  <2> HIDE DEF byte
  <2>2. QED
    BY <2>1
<1>10. QED
  BY <1>3, <1>7, <1>8, <1>9

(* Different places have LEDs of their own, none of which is of the logo.  *)
LEMMA LedsApart ==
    /\ \A at \in Spotis : SpotiOffset(at) = 19 + 16 * at[1] + (15 - at[2]) /\ SpotiOffset(at) \notin Logo
    /\ \A p, q \in Spotis : SpotiOffset(p) = SpotiOffset(q) => p = q
<1>1. \A at \in Spotis : /\ at[1] \in 0..22 /\ at[2] \in 0..15 /\ at = <<at[1], at[2]>>
                         /\ SpotiOffset(at) = 19 + 16 * at[1] + (15 - at[2])
  BY DEF Spotis, SpotiOffset
<1>2. \A at \in Spotis : SpotiOffset(at) \notin Logo
  BY <1>1 DEF Logo
<1>3. ASSUME NEW p \in Spotis, NEW q \in Spotis, SpotiOffset(p) = SpotiOffset(q)
      PROVE  p = q
  <2> DEFINE x == p[1]  y == p[2]  u == q[1]  v == q[2]
  <2>1. x \in 0..22 /\ y \in 0..15 /\ u \in 0..22 /\ v \in 0..15 /\ p = <<x, y>> /\ q = <<u, v>>
    BY <1>1
  <2>2. 19 + 16 * x + (15 - y) = 19 + 16 * u + (15 - v)
    <3>1. SpotiOffset(p) = 19 + 16 * x + (15 - y)
      BY <1>1
    <3>2. SpotiOffset(q) = 19 + 16 * u + (15 - v)
      BY <1>1
    <3>3. QED
      BY <1>3, <3>1, <3>2
  <2> HIDE DEF x, y, u, v
  <2>3. x = u /\ y = v
    BY <2>1, <2>2
  <2>4. QED
    BY <2>1, <2>3
<1>4. QED
  BY <1>1, <1>2, <1>3

(* What is in the two buffers is the frame.                                *)
Framed == leds = SpotiFrame(picture, elapsed, fraction) /\ bits = IkeaFrame(picture, elapsed, fraction)

LEMMA FramedAlways == PanelSpec => []Framed
<1>1. PanelInit => Framed
  BY Zenon DEF PanelInit, Framed
<1>2. Framed /\ [Frame]_panelVars => Framed'
  BY Zenon DEF Framed, Frame, panelVars
<1>3. QED
  BY <1>1, <1>2, PTL DEF PanelSpec

(* The part of ShownAsDrawn that does not depend on which pixel comes last. *)
NothingStray ==
    LET where == Where
    IN  /\ \A i \in Logo : leds[i] = picture.logo
        /\ \A i \in Leds \ Logo : leds[i] # Black =>
              \E n \in DOMAIN where : where[n] \in Spotis /\ i = 19 + 16 * where[n][1] + (15 - where[n][2])
        /\ \A i \in bits : \E n \in DOMAIN where : where[n] \in Ikeas /\ i = Wire(where[n])

LEMMA FrameStraysNot == Drawn /\ Framed => NothingStray
<1> SUFFICES ASSUME Drawn, Framed PROVE NothingStray
  OBVIOUS
<1> DEFINE where == Where
           spots == [n \in DOMAIN picture.cells |-> SpotiOffset(At(picture, elapsed, fraction, n))]
           ikeas == [n \in DOMAIN picture.cells |-> IkeaOffset(At(picture, elapsed, fraction, n))]
<1>1. /\ DOMAIN where = DOMAIN picture.cells /\ DOMAIN spots = DOMAIN picture.cells
      /\ DOMAIN ikeas = DOMAIN picture.cells
      /\ \A n \in DOMAIN where : spots[n] = SpotiOffset(where[n]) /\ ikeas[n] = IkeaOffset(where[n])
  BY DEF Where
<1>2. \A i \in Logo : leds[i] = picture.logo
  <2> SUFFICES ASSUME NEW i \in Logo PROVE leds[i] = picture.logo
    OBVIOUS
  <2>1. i \in Leds
    BY DEF Logo, Leds
  <2>2. leds[i] = Blend(Black, picture.logo, 255)
    BY <2>1 DEF Framed, SpotiFrame
  <2>3. picture.logo \in Colors
    BY PanelAssumption DEF PanelAssumption, Drawn
  <2>4. QED
    BY <2>2, <2>3, OpaqueIsExact
<1>3. ASSUME NEW i \in Leds \ Logo, leds[i] # Black
      PROVE  \E n \in DOMAIN where : where[n] \in Spotis /\ i = 19 + 16 * where[n][1] + (15 - where[n][2])
  <2>1. i \in ToSet(spots)
    BY <1>3 DEF Framed, SpotiFrame
  <2>2. PICK n \in DOMAIN where : i = SpotiOffset(where[n])
    BY <1>1, <2>1 DEF ToSet
  <2>3. i # None
    BY DEF Leds, None
  <2>4. where[n] \in Spotis
    BY <2>2, <2>3 DEF SpotiOffset, Spotis
  <2>5. QED
    BY <2>2, <2>4, LedsApart
<1>4. ASSUME NEW i \in bits PROVE \E n \in DOMAIN where : where[n] \in Ikeas /\ i = Wire(where[n])
  <2>1. i \in ToSet(ikeas) \ {None}
    BY <1>4 DEF Framed, IkeaFrame
  <2>2. PICK n \in DOMAIN where : i = IkeaOffset(where[n])
    BY <1>1, <2>1 DEF ToSet
  <2>3. where[n] \in Ikeas
    BY <2>1, <2>2 DEF IkeaOffset, Ikeas
  <2>4. QED
    BY <2>2, <2>3, WiredAsTold
<1>5. QED
  BY <1>2, <1>3, <1>4 DEF NothingStray

(* One pixel alone on an LED.                                              *)
LEMMA PaintedOnce ==
    ASSUME NEW p, NEW n \in Nat, p.cells[n].color \in Colors, p.cells[n].alpha = 255
    PROVE  Painted(p, {n}) = p.cells[n].color
<1> DEFINE dot(led, m) == Blend(led, p.cells[m].color, p.cells[m].alpha)
           Body(x) == [first \in SUBSET {n} |->
                          IF first = {} THEN Black ELSE dot(x[first \ {Max(first)}], Max(first))]
           f == [first \in SUBSET {n} |-> IF first = {} THEN Black ELSE dot(Black, n)]
<1>1. Max({n}) = n
  BY DEF Max
<1>2. f = Body(f)
  <2>1. \A first \in SUBSET {n} : first = {} \/ first = {n}
    OBVIOUS
  <2>2. f[{}] = Black /\ {n} \ {n} = {}
    OBVIOUS
  <2> HIDE DEF f, dot
  <2>3. \A first \in SUBSET {n} :
           f[first] = IF first = {} THEN Black ELSE dot(f[first \ {Max(first)}], Max(first))
    <3> SUFFICES ASSUME NEW first \in SUBSET {n}
                 PROVE  f[first] = IF first = {} THEN Black ELSE dot(f[first \ {Max(first)}], Max(first))
      OBVIOUS
    <3>1. CASE first = {}
      BY <2>2, <3>1
    <3>2. CASE first = {n}
      <4>1. f[{n}] = dot(Black, n) /\ {n} # {}
        BY DEF f
      <4>2. f[{n} \ {Max({n})}] = Black
        BY <1>1, <2>2
      <4> QED
        BY <1>1, <3>2, <4>1, <4>2
    <3> QED
      BY <2>1, <3>1, <3>2
  <2>4. f = [first \in SUBSET {n} |-> f[first]]
    BY DEF f
  <2> QED
    BY <2>3, <2>4
<1>3. Painted(p, {n}) = (CHOOSE x : x = Body(x))[{n}]
  BY DEF Painted
<1>4. ASSUME NEW x, x = Body(x) PROVE x[{n}] = dot(Black, n)
  <2> HIDE DEF dot
  <2>1. x[{}] = Black
    BY <1>4
  <2>2. x[{n}] = dot(x[{n} \ {Max({n})}], Max({n}))
    <3>1. {n} \in SUBSET {n} /\ {n} # {}
      OBVIOUS
    <3>2. Body(x)[{n}] = IF {n} = {} THEN Black ELSE dot(x[{n} \ {Max({n})}], Max({n}))
      BY <3>1
    <3> HIDE DEF Body
    <3> QED
      BY <1>4, <3>1, <3>2
  <2>3. {n} \ {n} = {}
    OBVIOUS
  <2> QED
    BY <1>1, <2>1, <2>2, <2>3
<1>5. Painted(p, {n}) = dot(Black, n)
  <2> DEFINE y == CHOOSE x : x = Body(x)
  <2>1. y = Body(y)
    <3> HIDE DEF Body
    <3> QED
      BY <1>2
  <2> HIDE DEF Body, dot, y
  <2>2. y[{n}] = dot(Black, n)
    BY <1>4, <2>1
  <2> QED
    BY <1>3, <2>2 DEF y
<1> QED
  BY <1>5, OpaqueIsExact

LEMMA FrameShowsLast == Drawn /\ Framed => IkeaShowsLast
<1> SUFFICES ASSUME Drawn, Framed PROVE IkeaShowsLast
  OBVIOUS
<1> DEFINE where == Where
           targets == [n \in DOMAIN picture.cells |-> IkeaOffset(At(picture, elapsed, fraction, n))]
           seen == ToSet(where) \intersect Ikeas
           lit(cells) == picture.cells[Max(cells)].color # Black
<1>1. /\ DOMAIN where = DOMAIN picture.cells /\ DOMAIN targets = DOMAIN picture.cells
      /\ \A n \in DOMAIN where : targets[n] = IkeaOffset(where[n])
  BY DEF Where
<1>2. bits = {i \in ToSet(targets) \ {None} : lit(Put(targets, i))}
  BY DEF Framed, IkeaFrame
<1>3. IkeaShowsLast <=> bits = {Wire(at) : at \in {q \in seen : lit(Cells(where, q))}}
  BY DEF IkeaShowsLast, Ikeas
<1> HIDE DEF where, targets
<1>4. ASSUME NEW q \in Ikeas PROVE Put(targets, Wire(q)) = Cells(where, q)
  <2>1. ASSUME NEW n \in DOMAIN where PROVE targets[n] = Wire(q) <=> where[n] = q
    <3>1. CASE where[n] \in Ikeas
      BY <1>1, <3>1, WiredAsTold, BitsApart
    <3>2. CASE where[n] \notin Ikeas
      <4>1. targets[n] = None
        BY <1>1, <3>2 DEF IkeaOffset, Ikeas
      <4>2. Wire(q) # None
        BY WiredAsTold
      <4> QED
        BY <3>2, <4>1, <4>2
    <3> QED
      BY <3>1, <3>2
  <2> QED
    BY <1>1, <2>1 DEF Put, Cells
<1>5. ASSUME NEW i \in ToSet(targets) \ {None}, lit(Put(targets, i))
      PROVE  \E q \in seen : lit(Cells(where, q)) /\ i = Wire(q)
  <2>1. PICK n \in DOMAIN where : i = IkeaOffset(where[n])
    BY <1>1 DEF ToSet
  <2>2. where[n] \in Ikeas
    BY <1>5, <2>1 DEF IkeaOffset, Ikeas
  <2>3. where[n] \in seen /\ i = Wire(where[n])
    BY <2>1, <2>2, WiredAsTold DEF ToSet
  <2>4. Put(targets, i) = Cells(where, where[n])
    BY <1>4, <2>2, <2>3
  <2> HIDE DEF seen
  <2> QED
    BY <1>5, <2>3, <2>4
<1>6. ASSUME NEW q \in seen, lit(Cells(where, q))
      PROVE  Wire(q) \in ToSet(targets) \ {None} /\ lit(Put(targets, Wire(q)))
  <2>1. PICK n \in DOMAIN where : q = where[n]
    BY DEF ToSet
  <2>2. q \in Ikeas
    OBVIOUS
  <2>3. targets[n] = Wire(q) /\ Wire(q) # None
    BY <1>1, <2>1, <2>2, WiredAsTold
  <2>4. Wire(q) \in ToSet(targets)
    BY <1>1, <2>1, <2>3 DEF ToSet
  <2>5. Put(targets, Wire(q)) = Cells(where, q)
    BY <1>4, <2>2
  <2> QED
    BY <1>6, <2>3, <2>4, <2>5
<1> HIDE DEF seen, lit
<1>7. bits = {Wire(at) : at \in {q \in seen : lit(Cells(where, q))}}
  BY <1>2, <1>5, <1>6
<1> QED
  BY <1>3, <1>7

LEMMA FrameIsExact == Drawn /\ Framed => ExactUnlessBlended
<1> SUFFICES ASSUME Drawn, Framed PROVE ExactUnlessBlended
  OBVIOUS
<1> DEFINE where == Where
           spots == [n \in DOMAIN picture.cells |-> SpotiOffset(At(picture, elapsed, fraction, n))]
           seen == ToSet(where) \intersect Spotis
           led(at) == 19 + 16 * at[1] + (15 - at[2])
<1>1. /\ DOMAIN where = DOMAIN picture.cells /\ DOMAIN spots = DOMAIN picture.cells
      /\ \A n \in DOMAIN where : spots[n] = SpotiOffset(where[n])
  BY DEF Where
<1>2. picture \in Pictures /\ picture.cells \in Seq([color : Colors, alpha : Channel])
  BY PanelAssumption DEF Drawn
<1>3. NothingStray
  BY FrameStraysNot
<1>4. \A i \in Logo : leds[i] = picture.logo
  BY <1>3 DEF NothingStray
<1>5. {i \in Leds : leds[i] # Black} \ Logo \subseteq {led(at) : at \in seen}
  <2> SUFFICES ASSUME NEW i \in Leds \ Logo, leds[i] # Black PROVE \E at \in seen : i = led(at)
    OBVIOUS
  <2>1. PICK n \in DOMAIN where : where[n] \in Spotis /\ i = 19 + 16 * where[n][1] + (15 - where[n][2])
    BY <1>3 DEF NothingStray
  <2>2. where[n] \in seen
    BY <2>1 DEF ToSet
  <2> HIDE DEF where, seen
  <2> QED
    BY <2>1, <2>2
<1>6. ASSUME NEW at \in seen,
             Cells(where, at) = {Max(Cells(where, at))},
             picture.cells[Max(Cells(where, at))].alpha = 255
      PROVE  leds[led(at)] = picture.cells[Max(Cells(where, at))].color
  <2> DEFINE cells == Cells(where, at)
             m == Max(cells)
             i == SpotiOffset(at)
  <2>1. at \in Spotis
    OBVIOUS
  <2>2. i = led(at) /\ i \notin Logo
    BY <2>1, LedsApart
  <2>3. i \in Leds
    <3>1. at[1] \in 0..22 /\ at[2] \in 0..15
      BY <2>1 DEF Spotis
    <3> HIDE DEF i
    <3> QED
      BY <2>2, <3>1 DEF Leds
  <2> HIDE DEF where, spots
  <2>4. Put(spots, i) = cells
    <3>1. ASSUME NEW n \in DOMAIN where PROVE spots[n] = i <=> where[n] = at
      <4>1. CASE where[n] \in Spotis
        BY <1>1, <2>1, <4>1, LedsApart
      <4>2. CASE where[n] \notin Spotis
        <5>1. spots[n] = None
          BY <1>1, <4>2 DEF SpotiOffset, Spotis
        <5>2. i # None
          BY <2>3 DEF Leds, None
        <5> QED
          BY <2>1, <4>2, <5>1, <5>2
      <4> QED
        BY <4>1, <4>2
    <3> HIDE DEF i
    <3> QED
      BY <1>1, <3>1 DEF Put, Cells
  <2>5. m \in DOMAIN where /\ cells = {m}
    <3>1. m \in cells
      BY <1>6
    <3> QED
      BY <1>6, <3>1 DEF Cells
  <2>6. m \in Nat /\ picture.cells[m] \in [color : Colors, alpha : Channel]
    <3> DEFINE q == picture.cells
    <3>1. q \in Seq([color : Colors, alpha : Channel]) /\ m \in DOMAIN q
      BY <1>1, <1>2, <2>5
    <3> HIDE DEF q, m
    <3>2. Len(q) \in Nat /\ DOMAIN q = 1..Len(q)
      BY <3>1, LenProperties
    <3>3. m \in 1..Len(q) /\ m \in Nat
      BY <3>1, <3>2
    <3>4. q[m] \in [color : Colors, alpha : Channel]
      BY <3>1, <3>3, ElementOfSeq
    <3> QED
      BY <3>3, <3>4 DEF q
  <2>7. i \in ToSet(spots)
    <3>1. m \in Put(spots, i)
      BY <2>4, <2>5
    <3> HIDE DEF m, i
    <3> QED
      BY <3>1 DEF Put, ToSet
  <2>8. leds[i] = Painted(picture, Put(spots, i))
    <3> HIDE DEF i
    <3> QED
      BY <2>2, <2>3, <2>7 DEF Framed, SpotiFrame, spots
  <2>9. Painted(picture, {m}) = picture.cells[m].color
    <3> HIDE DEF m
    <3> QED
      BY <1>6, <2>6, PaintedOnce DEF m
  <2> QED
    BY <2>2, <2>4, <2>5, <2>8, <2>9
<1>7. ExactUnlessBlended <=>
         /\ \A i \in Logo : leds[i] = picture.logo
         /\ {i \in Leds : leds[i] # Black} \ Logo \subseteq {led(at) : at \in seen}
         /\ \A at \in seen :
               Cells(where, at) = {Max(Cells(where, at))} /\ picture.cells[Max(Cells(where, at))].alpha = 255
                   => leds[led(at)] = picture.cells[Max(Cells(where, at))].color
  BY DEF ExactUnlessBlended, Spotis
<1> HIDE DEF where, seen, led
<1> QED
  BY <1>4, <1>5, <1>6, <1>7

(* The logo has its colour, as does whatever else is opaque and alone in   *)
(* its place; an LED that is lit, of either kind of panel, is one that a   *)
(* pixel of the picture was put on: it is wired to that place and to no    *)
(* other (LedsApart, BitsApart), and on the Ikea panel it tells the pixel  *)
(* that came last.                                                         *)
THEOREM PictureAsDrawn == PanelSpec => []ShownAsDrawn
<1>1. Drawn /\ Framed => ShownAsDrawn
  BY FrameShowsLast, FrameIsExact DEF ShownAsDrawn
<1>2. QED
  BY <1>1, DrawnAlways, FramedAlways, PTL

-----------------------------------------------------------------------------
(* A picture that scrolls or waves keeps its columns and rows in order, at *)
(* every time and for a picture of any width and speed: C++'s rounding     *)
(* towards 0 in onRenderPass() neither skips nor repeats a column of the   *)
(* tape, and no row is pushed past another or over the middle.             *)
THEOREM MotionInOrder == PanelSpec => []MotionKeepsOrder
<1>1. Drawn => MotionKeepsOrder
  BY DrawnScrolls, DrawnWaves DEF MotionKeepsOrder
<1>2. QED
  BY <1>1, DrawnAlways, PTL

-----------------------------------------------------------------------------
(* Base64: a quotient of a quotient, and of a remainder.                   *)
LEMMA Nested ==
  ASSUME NEW n \in Int, NEW a \in Nat \ {0}, NEW b \in Nat \ {0}
  PROVE  /\ (n \div a) \div b = n \div (a * b)
         /\ (n % (a * b)) \div a = (n \div a) % b /\ (n % (a * b)) % a = n % a
<1> DEFINE m == n \div a
           s == n % a
           q == m \div b
           r == m % b
           d == a * b
           e == a * r + s
<1>1. m \in Int /\ s \in 0..(a - 1) /\ n = (a * m) + s
  BY Division
<1> HIDE DEF m, s
<1>2. q \in Int /\ r \in 0..(b - 1) /\ m = (b * q) + r
  BY <1>1, Division
<1> HIDE DEF q, r
<1>3. n = d * q + e
  <2>1. a * ((b * q) + r) = (a * b) * q + a * r
    BY <1>2
  <2> QED
    BY <1>1, <1>2, <2>1
<1>4. e \in 0..(d - 1) /\ d \in Nat \ {0}
  <2>1. a * r <= a * (b - 1) /\ a * r >= 0
    BY <1>2
  <2>2. a * (b - 1) = a * b - a
    OBVIOUS
  <2>3. a * r \in Int /\ a * b \in Int /\ a * b >= 1
    BY <1>2
  <2> DEFINE x == a * r
             y == a * b
  <2> HIDE DEF x, y
  <2>4. x \in Int /\ y \in Int /\ y >= 1 /\ x >= 0 /\ x <= y - a
    BY <2>1, <2>2, <2>3 DEF x, y
  <2>5. x + s \in 0..(y - 1) /\ y \in Nat \ {0}
    BY <1>1, <2>4
  <2> QED
    BY <2>5 DEF x, y
<1>5. e \div a = r /\ e % a = s
  <2>1. e \in Int /\ r \in Int
    BY <1>1, <1>2
  <2> HIDE DEF e
  <2>2. e = a * r + s
    BY DEF e
  <2> QED
    BY <1>1, <2>1, <2>2, DivisionUnique
<1> HIDE DEF d, e
<1>6. n \div d = q /\ n % d = e
  BY <1>2, <1>3, <1>4, DivisionUnique
<1> QED
  BY <1>5, <1>6 DEF d, q, r, m, s

(* Three bytes make a number below 2^24.                                   *)
Triple == 16777216

LEMMA TripleIs == Triple = 64 * 262144 /\ Triple = 256 * 65536
BY DEF Triple

LEMMA TripleType == Triple \in Nat
BY DEF Triple

(* With the numbers that occur.                                            *)
LEMMA NestedBytes ==
  ASSUME NEW n \in Int
  PROVE  /\ (n % Triple) % 256 = n % 256
         /\ (n % Triple) \div 256 = (n \div 256) % 65536
         /\ (n % Triple) \div 65536 = (n \div 65536) % 256
         /\ (n \div 256) \div 256 = n \div 65536
         /\ (n % 65536) % 256 = n % 256
<1>1. (n % (256 * 65536)) % 256 = n % 256 /\ (n % (256 * 65536)) \div 256 = (n \div 256) % 65536
  BY Nested
<1>2. (n % (65536 * 256)) \div 65536 = (n \div 65536) % 256
  BY Nested
<1>3. (n \div 256) \div 256 = n \div (256 * 256) /\ (n % (256 * 256)) % 256 = n % 256
  BY Nested
<1>4. 256 * 65536 = Triple /\ 65536 * 256 = Triple /\ 256 * 256 = 65536
  BY DEF Triple
<1> QED
  BY <1>1, <1>2, <1>3, <1>4

(* A byte, a char that is negative or not, three chars in a number, and    *)
(* the three bytes of one.                                                 *)
Octets == 0..255
Sign == 0..1
Lowered(v, s) == v - 256 * s
Negative(v, s) == s = 1 => v >= 128
Summed(c1, c2, c3) == (c1 * 65536 + c2 * 256 + c3) % Triple
TopByte(t) == t \div 65536
MidByte(t) == (t \div 256) % 256
LowByte(t) == t % 256

LEMMA ByteTypes ==
  ASSUME NEW t \in Int
  PROVE  MidByte(t) \in Octets /\ LowByte(t) \in Octets
<1>1. t \div 256 \in Int /\ 256 \in Nat \ {0}
  BY Division
<1>2. MidByte(t) \in 0..(256 - 1)
  BY ONLY <1>1, Division DEF MidByte
<1>3. LowByte(t) \in 0..(256 - 1)
  BY ONLY <1>1, t \in Int, Division DEF LowByte
<1> QED
  BY ONLY <1>2, <1>3 DEF Octets

(* What a group of three bytes becomes when each has lost 256 where its    *)
(* char is negative.                                                       *)
LEMMA Borrowed ==
  ASSUME NEW v1 \in Octets, NEW v2 \in Octets, NEW v3 \in Octets,
         NEW s1 \in Sign, NEW s2 \in Sign, NEW s3 \in Sign, Negative(v2, s2)
  PROVE  LET t == Summed(Lowered(v1, s1), Lowered(v2, s2), Lowered(v3, s3))
         IN  /\ t \in 0..(Triple - 1) /\ TopByte(t) \in Octets /\ LowByte(t) = v3
             /\ (TopByte(t) = v1 /\ MidByte(t) = v2) <=> (s2 = 0 /\ s3 = 0)
<1> DEFINE t == Summed(Lowered(v1, s1), Lowered(v2, s2), Lowered(v3, s3))
           b1 == TopByte(t)
           b2 == MidByte(t)
           b3 == LowByte(t)
<1>0. /\ t = ((v1 - 256 * s1) * 65536 + (v2 - 256 * s2) * 256 + (v3 - 256 * s3)) % Triple
      /\ b1 = t \div 65536 /\ b2 = (t \div 256) % 256 /\ b3 = t % 256
  BY DEF Lowered, Summed, TopByte, MidByte, LowByte
<1>v. /\ v1 \in 0..255 /\ v2 \in 0..255 /\ v3 \in 0..255
      /\ s1 \in 0..1 /\ s2 \in 0..1 /\ s3 \in 0..1 /\ (s2 = 1 => v2 >= 128)
  BY DEF Octets, Sign, Negative
<1> HIDE DEF t, b1, b2, b3
<1> DEFINE K == 256
           L == 65536
           M == Triple
           a == v1 - 256 * s1
           b == v2 - 256 * s2
           T == a * 65536 + b * 256 + (v3 - 256 * s3)
<1>1. K \in Nat \ {0} /\ L \in Nat \ {0} /\ M \in Nat \ {0} /\ K * K = L /\ K * L = M /\ L * K = M
  BY DEF Triple
<1>2. a \in Int /\ b \in Int /\ T \in Int /\ T = 256 * (256 * a + (b - s3)) + v3
  BY <1>v
<1>3. t = T % Triple /\ T \in Int
  BY <1>0, <1>2
<1> DEFINE h == 256 * a + (b - s3)
<1>4. h \in Int /\ T = K * h + v3 /\ v3 \in 0..(K - 1)
  BY <1>2, <1>v
<1>h. h \in Int
  BY <1>4
<1> HIDE DEF T
<1>5. T \div K = h /\ T % K = v3
  BY ONLY <1>1, <1>2, <1>4, DivisionUnique
<1> DEFINE g == b - s3
           low == IF g < 0 THEN g + 256 ELSE g
           high == IF g < 0 THEN a - 1 ELSE a
<1>6. low \in 0..255 /\ high \in Int /\ h = K * high + low
  BY <1>2, <1>v
<1>7. h \div K = high /\ h % K = low
  <2> HIDE DEF h, low, high
  <2> QED
    BY ONLY <1>1, <1>4, <1>6, DivisionUnique
<1>8. high % K = IF g < 0 THEN (IF v1 = 0 THEN 255 ELSE v1 - 1) ELSE v1
  <2> DEFINE x == IF g < 0 THEN (IF v1 = 0 THEN 255 ELSE v1 - 1) ELSE v1
             c == IF g < 0 /\ v1 = 0 THEN -s1 - 1 ELSE -s1
  <2>1. x \in 0..(K - 1) /\ c \in Int /\ high = K * c + x
    BY <1>v
  <2> HIDE DEF x, c, high
  <2>2. high % K = x
    BY ONLY <1>1, <1>6, <2>1, DivisionUnique
  <2> QED
    BY <2>2 DEF x
<1> HIDE DEF a, b, h, g, low, high
<1> DEFINE top == high % 256
<1>9. b3 = v3 /\ b1 = top /\ b2 = low /\ t \in 0..(Triple - 1)
  <2>1. (T % Triple) % 256 = T % 256 /\ (T % Triple) \div 256 = (T \div 256) % 65536
        /\ (T % Triple) \div 65536 = (T \div 65536) % 256 /\ (T \div 256) \div 256 = T \div 65536
    BY ONLY <1>3, NestedBytes
  <2>2. T \div 256 = h /\ T % 256 = v3
    BY ONLY <1>5 DEF K
  <2>3. (h % 65536) % 256 = h % 256
    BY ONLY <1>h, NestedBytes
  <2>4. h \div 256 = high /\ h % 256 = low
    BY ONLY <1>7 DEF K
  <2>5. T % M \in 0..(M - 1)
    <3> HIDE DEF M
    <3> QED
      BY ONLY <1>1, <1>3, Division
  <2>6. t \in 0..(Triple - 1)
    <3>1. M = Triple
      BY ONLY DEF M
    <3> HIDE DEF M
    <3>2. t = T % M
      BY ONLY <1>3, <3>1
    <3> QED
      BY ONLY <2>5, <3>1, <3>2
  <2> DEFINE u == T % Triple
  <2>7. u = t /\ u % 256 = T % 256 /\ u \div 256 = (T \div 256) % 65536
        /\ u \div 65536 = (T \div 65536) % 256 /\ (T \div 256) \div 256 = T \div 65536
    BY ONLY <1>3, <2>1 DEF u
  <2> HIDE DEF u
  <2>8. b3 = v3
    <3>1. b3 = t % 256
      BY ONLY <1>0
    <3> QED
      BY ONLY <2>2, <2>7, <3>1
  <2>9. b2 = low
    <3>1. b2 = (t \div 256) % 256
      BY ONLY <1>0
    <3> QED
      BY ONLY <2>2, <2>3, <2>4, <2>7, <3>1
  <2>a. b1 = top
    <3>1. b1 = t \div 65536
      BY ONLY <1>0
    <3> QED
      BY ONLY <2>2, <2>4, <2>7, <3>1
  <2> QED
    BY ONLY <2>6, <2>8, <2>9, <2>a
<1>a. (top = v1 /\ low = v2) <=> (s2 = 0 /\ s3 = 0)
  <2>1. low = IF g < 0 THEN g + 256 ELSE g
    BY DEF low
  <2>2. g = v2 - 256 * s2 - s3
    BY DEF g, b
  <2> QED
    BY <1>8, <1>v, <2>1, <2>2
<1>b. top \in 0..255
  BY <1>8, <1>v
<1> HIDE DEF top
<1>c. (b1 = v1 /\ b2 = v2) <=> (s2 = 0 /\ s3 = 0)
  BY ONLY <1>9, <1>a
<1>d. b1 \in Octets
  BY ONLY <1>9, <1>b DEF Octets
<1> QED
  BY ONLY <1>9, <1>c, <1>d DEF t, b1, b2, b3

(* The four digits of a group, of which the first ones make the bytes.     *)
LEMMA Sextets ==
  ASSUME NEW t \in Int, 0 <= t, t < Triple
  PROVE  /\ t \div 262144 \in 0..63
         /\ (t \div 4096) % 64 \in 0..63 /\ (t \div 64) % 64 \in 0..63 /\ t % 64 \in 0..63
         /\ (t \div 262144) * 64 + ((t \div 4096) % 64) = t \div 4096
         /\ (t \div 4096) * 64 + ((t \div 64) % 64) = t \div 64
         /\ (t \div 64) * 64 + (t % 64) = t
         /\ (t \div 4096) \div 16 = t \div 65536 /\ (t \div 64) \div 1024 = t \div 65536
         /\ (t \div 64) \div 4 = t \div 256
<1> DEFINE K == 64
           x == t \div 64
           y == t \div 4096
           z == t \div 262144
<1>1. t \in Int /\ x \in Int /\ y \in Int /\ z \in Int
  BY Division
<1>2. x \div 64 = y /\ y \div 64 = z /\ y \div 16 = t \div 65536 /\ x \div 1024 = t \div 65536
      /\ x \div 4 = t \div 256
  <2>1. x \div 64 = t \div (64 * 64)
    BY <1>1, Nested
  <2>2. y \div 64 = t \div (4096 * 64)
    BY <1>1, Nested
  <2>3. y \div 16 = t \div (4096 * 16)
    BY <1>1, Nested
  <2>4. x \div 1024 = t \div (64 * 1024)
    BY <1>1, Nested
  <2>5. x \div 4 = t \div (64 * 4)
    BY <1>1, Nested
  <2>6. 64 * 64 = 4096 /\ 4096 * 64 = 262144 /\ 4096 * 16 = 65536 /\ 64 * 1024 = 65536 /\ 64 * 4 = 256
    OBVIOUS
  <2> QED
    BY <2>1, <2>2, <2>3, <2>4, <2>5, <2>6
<1>3. ASSUME NEW k \in Int PROVE k % 64 \in 0..63 /\ k = (64 * (k \div 64)) + (k % 64)
  BY Division
<1>4. z \in 0..63
  <2> DEFINE D == 262144
             r == t % D
  <2>1. D \in Nat \ {0} /\ z = t \div D /\ t \in Int
    BY ONLY <1>1
  <2> HIDE DEF z, D
  <2>2. r \in Int /\ 0 <= r /\ r < D /\ t = (D * z) + r
    BY ONLY <2>1, Division
  <2> HIDE DEF r
  <2>3. t \in Int /\ z \in Int /\ 0 <= t /\ t < Triple
    BY <1>1
  <2>4. Triple = 64 * D /\ D = 262144
    BY ONLY TripleIs DEF D
  <2>5. 0 <= z /\ z < 64
    BY ONLY <2>2, <2>3, <2>4
  <2> QED
    BY ONLY <2>3, <2>5
<1> HIDE DEF x, y, z
<1>5. t = (64 * x) + (t % 64)
  BY <1>1, <1>3 DEF x
<1>6. x = (64 * y) + (x % 64) /\ y = (64 * z) + (y % 64)
  BY <1>1, <1>2, <1>3
<1>7. t % 64 \in 0..63 /\ x % 64 \in 0..63 /\ y % 64 \in 0..63
  BY <1>1, <1>3
<1>8. z * 64 + (y % 64) = y /\ y * 64 + (x % 64) = x /\ x * 64 + (t % 64) = t
  BY <1>1, <1>5, <1>6, <1>7
<1>9. t \div 262144 \in 0..63
  BY ONLY <1>4 DEF z
<1>a. (t \div 4096) % 64 \in 0..63 /\ (t \div 64) % 64 \in 0..63 /\ t % 64 \in 0..63
  BY ONLY <1>7 DEF x, y
<1>b. (t \div 262144) * 64 + ((t \div 4096) % 64) = t \div 4096
  BY ONLY <1>8 DEF y, z
<1>c. (t \div 4096) * 64 + ((t \div 64) % 64) = t \div 64 /\ (t \div 64) * 64 + (t % 64) = t
  BY ONLY <1>8 DEF x, y
<1>d. (t \div 4096) \div 16 = t \div 65536 /\ (t \div 64) \div 1024 = t \div 65536
      /\ (t \div 64) \div 4 = t \div 256
  BY ONLY <1>2 DEF x, y
<1> QED
  BY ONLY <1>9, <1>a, <1>b, <1>c, <1>d

(* A digit is read as it was written.                                      *)
LEMMA DigitsAreRead ==
  /\ \A d \in 0..63 : DigitOf(CharOf(d)) = d /\ CharOf(d) \in Nat
  /\ DigitOf(Pad) = NoDigit /\ NoDigit \notin 0..63 /\ Pad \in Nat
<1>1. ASSUME NEW d \in 0..63 PROVE DigitOf(CharOf(d)) = d /\ CharOf(d) \in Nat
  <2>1. CASE d < 26
    <3>1. CharOf(d) = 65 + d
      BY <2>1 DEF CharOf
    <3>2. 65 + d \in 65..90 /\ (65 + d) - 65 = d
      BY <2>1
    <3> HIDE DEF CharOf
    <3> QED
      BY <3>1, <3>2 DEF DigitOf
  <2>2. CASE d \in 26..51
    <3>1. CharOf(d) = 97 + d - 26
      BY <2>2 DEF CharOf
    <3>2. 97 + d - 26 \in 97..122 /\ (97 + d - 26) - 71 = d
      BY <2>2
    <3> QED
      BY <3>1, <3>2 DEF DigitOf
  <2>3. CASE d \in 52..61
    <3>1. CharOf(d) = 48 + d - 52
      BY <2>3 DEF CharOf
    <3>2. 48 + d - 52 \in 48..57 /\ (48 + d - 52) + 4 = d
      BY <2>3
    <3> QED
      BY <3>1, <3>2 DEF DigitOf
  <2>4. CASE d = 62
    BY <2>4 DEF CharOf, DigitOf
  <2>5. CASE d = 63
    BY <2>5 DEF CharOf, DigitOf
  <2> QED
    BY <2>1, <2>2, <2>3, <2>4, <2>5
<1> QED
  BY <1>1 DEF DigitOf, Pad, NoDigit

(* The bytes that a group comes back as.                                   *)
Kept(group, t) ==
    [i \in 1..Len(group) |-> IF i = 1 THEN TopByte(t) ELSE IF i = 2 THEN MidByte(t) ELSE LowByte(t)]

(* A group is spoiled if a byte after its first one is a negative char.    *)
Spoiled(group, signed) == signed /\ \E i \in 2..Len(group) : group[i] >= 128

IsGroup(group) == group \in Seq(0..255) /\ Len(group) \in 1..3

LEMMA TempKeeps ==
  ASSUME NEW g, IsGroup(g), NEW signed \in BOOLEAN
  PROVE  /\ Temp(g, signed) \in 0..(Triple - 1)
         /\ Kept(g, Temp(g, signed)) \in Strings /\ Len(Kept(g, Temp(g, signed))) = Len(g)
         /\ Kept(g, Temp(g, signed)) = g <=> ~Spoiled(g, signed)
<1> DEFINE n == Len(g)
           v(i) == IF i > n THEN 0 ELSE g[i]
           s(i) == IF signed /\ v(i) >= 128 THEN 1 ELSE 0
           c(i) == IF i > n THEN 0 ELSE Char(g[i], signed)
           t == Temp(g, signed)
<1>1. n \in 1..3 /\ g \in [1..n -> 0..255]
  BY LenProperties DEF IsGroup
<1> HIDE DEF n
<1>2. ASSUME NEW i \in 1..3
      PROVE  /\ v(i) \in 0..255 /\ s(i) \in 0..1 /\ c(i) = v(i) - 256 * s(i)
             /\ (i <= n => v(i) = g[i]) /\ (i > n => v(i) = 0)
             /\ s(i) = 1 <=> signed /\ v(i) >= 128
  <2>1. CASE i > n
    <3>1. v(i) = 0 /\ s(i) = 0 /\ c(i) = 0
      BY <2>1
    <3> HIDE DEF v, s, c
    <3> QED
      BY <1>1, <2>1, <3>1
  <2>2. CASE ~(i > n)
    <3>1. i \in 1..n /\ i <= n
      BY ONLY <1>1, <2>2, i \in 1..3
    <3>2. g[i] \in 0..255
      BY ONLY <1>1, <3>1
    <3>3. v(i) = g[i] /\ c(i) = Char(g[i], signed)
      BY ONLY <2>2
    <3>4. CASE signed /\ g[i] >= 128
      <4>1. s(i) = 1 /\ c(i) = g[i] - 256
        BY <3>3, <3>4 DEF Char
      <4> HIDE DEF v, s, c
      <4> QED
        <5>1. v(i) \in 0..255 /\ s(i) \in 0..1 /\ c(i) = v(i) - 256 * s(i) /\ v(i) >= 128
          <6>1. v(i) = g[i]
            BY ONLY <3>3
          <6>2. g[i] >= 128
            BY ONLY <3>4
          <6> QED
            BY ONLY <3>2, <4>1, <6>1, <6>2
        <5>2. s(i) = 1 <=> signed /\ v(i) >= 128
          BY ONLY <3>4, <4>1, <5>1
        <5> QED
          BY ONLY <2>2, <3>3, <5>1, <5>2
    <3>5. CASE ~(signed /\ g[i] >= 128)
      <4>1. s(i) = 0 /\ c(i) = g[i]
        BY <3>3, <3>5 DEF Char
      <4> HIDE DEF v, s, c
      <4> QED
        BY ONLY <2>2, <3>2, <3>3, <3>5, <4>1
    <3> QED
      BY <3>4, <3>5
  <2> QED
    BY <2>1, <2>2
<1>3. t = (c(1) * 65536 + c(2) * 256 + c(3)) % Triple
  BY DEF Temp, Triple, n
<1> HIDE DEF v, s, c, t
<1> DEFINE v1 == v(1)  v2 == v(2)  v3 == v(3)
           s1 == s(1)  s2 == s(2)  s3 == s(3)
<1>4. /\ v1 \in 0..255 /\ v2 \in 0..255 /\ v3 \in 0..255 /\ s1 \in 0..1 /\ s2 \in 0..1 /\ s3 \in 0..1
      /\ c(1) = v1 - 256 * s1 /\ c(2) = v2 - 256 * s2 /\ c(3) = v3 - 256 * s3
      /\ s2 = 1 => v2 >= 128
  BY <1>2
<1> HIDE DEF v1, v2, v3, s1, s2, s3
<1> DEFINE c1 == c(1)  c2 == c(2)  c3 == c(3)
           b1 == TopByte(t)
           b2 == MidByte(t)
           b3 == LowByte(t)
<1>5. c1 = Lowered(v1, s1) /\ c2 = Lowered(v2, s2) /\ c3 = Lowered(v3, s3)
  BY ONLY <1>4 DEF Lowered
<1>u. t = Summed(c1, c2, c3)
  BY ONLY <1>3 DEF Summed
<1>w. v1 \in Octets /\ v2 \in Octets /\ v3 \in Octets
  BY ONLY <1>4 DEF Octets
<1>6. /\ t \in 0..(Triple - 1) /\ b1 \in Octets /\ b3 = v3
      /\ (b1 = v1 /\ b2 = v2) <=> (s2 = 0 /\ s3 = 0)
  <2>1. s1 \in Sign /\ s2 \in Sign /\ s3 \in Sign /\ Negative(v2, s2)
    BY ONLY <1>4 DEF Sign, Negative
  <2> HIDE DEF c1, c2, c3
  <2> DEFINE u == Summed(Lowered(v1, s1), Lowered(v2, s2), Lowered(v3, s3))
  <2>2. /\ u \in 0..(Triple - 1) /\ TopByte(u) \in Octets /\ LowByte(u) = v3
        /\ (TopByte(u) = v1 /\ MidByte(u) = v2) <=> (s2 = 0 /\ s3 = 0)
    BY ONLY <1>w, <2>1, Borrowed
  <2>3. t = u
    BY ONLY <1>5, <1>u
  <2> HIDE DEF u
  <2> QED
    BY ONLY <2>2, <2>3
<1> HIDE DEF c1, c2, c3
<1>7. b2 \in Octets
  <2>1. t \in Int
    BY ONLY <1>6, TripleType
  <2> QED
    BY ONLY <2>1, ByteTypes
<1> DEFINE k == Kept(g, t)
<1>8. b1 \in Octets /\ b2 \in Octets /\ b3 = v3 /\ ((b1 = v1 /\ b2 = v2) <=> (s2 = 0 /\ s3 = 0))
  BY ONLY <1>6, <1>7
<1>9. k = [i \in 1..n |-> IF i = 1 THEN b1 ELSE IF i = 2 THEN b2 ELSE b3]
  BY DEF Kept, n
<1> HIDE DEF b1, b2, b3, k, n
<1>a. k \in Strings /\ Len(k) = n
  <2>1. k \in [1..n -> Nat]
    BY ONLY <1>8, <1>9, <1>w DEF Octets
  <2> QED
    BY <1>1, <2>1 DEF Strings
<1>b. k = g <=> \A i \in 1..n : k[i] = g[i]
  BY <1>1, <1>9
<1>c. (\A i \in 1..n : k[i] = g[i]) <=> (b1 = v1 /\ b2 = v2)
  <2>1. \A i \in 1..n : g[i] = v(i)
    BY <1>1, <1>2
  <2>2. n < 2 => v2 = 0 /\ v3 = 0
    BY <1>1, <1>2 DEF v2, v3
  <2>3. n < 3 => v3 = 0
    BY <1>1, <1>2 DEF v3
  <2>4. n < 2 => s2 = 0 /\ s3 = 0
    BY <1>1, <1>2, <2>2 DEF s2, s3, v2, v3
  <2>5. n < 2 => (b1 = v1 => b2 = v2)
    <3>1. v(2) = 0 => s(2) # 1
      BY <1>2
    <3> QED
      BY <1>8, <2>2, <2>4
  <2>6. k[1] = b1 /\ (n >= 2 => k[2] = b2) /\ (n = 3 => k[3] = b3)
    BY <1>1, <1>9
  <2>7. g[1] = v1 /\ (n >= 2 => g[2] = v2) /\ (n = 3 => g[3] = v3)
    BY <1>1, <2>1 DEF v1, v2, v3
  <2>8. \A i \in 1..n : i = 1 \/ (i = 2 /\ n >= 2) \/ (i = 3 /\ n = 3)
    BY <1>1
  <2>9. 1 \in 1..n /\ (n >= 2 => 2 \in 1..n)
    BY <1>1
  <2>a. ASSUME \A i \in 1..n : k[i] = g[i] PROVE b1 = v1 /\ b2 = v2
    BY <2>a, <2>5, <2>6, <2>7, <2>9, <1>1
  <2>b. ASSUME b1 = v1, b2 = v2, NEW i \in 1..n PROVE k[i] = g[i]
    BY <2>b, <2>6, <2>7, <2>8, <1>8
  <2> QED
    BY <2>a, <2>b
<1>d. (s2 = 0 /\ s3 = 0) <=> ~Spoiled(g, signed)
  <2>1. (s2 = 1 <=> signed /\ v2 >= 128) /\ (s3 = 1 <=> signed /\ v3 >= 128)
    BY <1>2 DEF s2, s3, v2, v3
  <2>2. (n < 2 => v2 = 0) /\ (n < 3 => v3 = 0) /\ (n >= 2 => v2 = g[2]) /\ (n = 3 => v3 = g[3])
    BY <1>1, <1>2 DEF v2, v3
  <2>3. \A i \in 2..n : (i = 2 /\ n >= 2) \/ (i = 3 /\ n = 3)
    BY <1>1
  <2>4. (n >= 2 => 2 \in 2..n) /\ (n = 3 => 3 \in 2..n)
    BY <1>1
  <2>5. (\E i \in 2..n : g[i] >= 128) <=> (v2 >= 128 \/ v3 >= 128)
    BY <1>1, <2>2, <2>3, <2>4
  <2>6. Spoiled(g, signed) <=> signed /\ (v2 >= 128 \/ v3 >= 128)
    BY <2>5 DEF Spoiled, n
  <2> QED
    BY <1>4, <2>1, <2>6
<1>e. k = g <=> ~Spoiled(g, signed)
  BY ONLY <1>8, <1>b, <1>c, <1>d
<1>f. t \in 0..(Triple - 1)
  BY ONLY <1>6
<1> QED
  BY <1>a, <1>e, <1>f, Zenon DEF t, k, n

(* ... and what is read are these bytes; only the last group may be short. *)
LEMMA GroupReadsBack ==
  ASSUME NEW g, IsGroup(g), NEW signed \in BOOLEAN, NEW last \in BOOLEAN, Len(g) = 3 \/ last
  PROVE  /\ EncodeGroup(g, signed) \in Strings /\ Len(EncodeGroup(g, signed)) = 4
         /\ DecodeGroup(EncodeGroup(g, signed), last) = Kept(g, Temp(g, signed))
<1> DEFINE n == Len(g)
           t == Temp(g, signed)
           e1 == t \div 262144
           e2 == (t \div 4096) % 64
           e3 == (t \div 64) % 64
           e4 == t % 64
           x == EncodeGroup(g, signed)
           d == [i \in 1..4 |-> DigitOf(x[i])]
           stop == SelectInSeq(d, LAMBDA y : y = NoDigit)
<1>1. n \in 1..3
  BY DEF IsGroup
<1>l. n = 3 \/ last
  OBVIOUS
<1>2. t \in 0..(Triple - 1)
  BY TempKeeps
<1>3. x = [i \in 1..4 |-> IF i <= n + 1 THEN CharOf(<<e1, e2, e3, e4>>[i]) ELSE Pad]
  BY DEF EncodeGroup, x, n, e1, e2, e3, e4, t
<1> HIDE DEF t
<1>i. t \in Int /\ 0 <= t /\ t < Triple
  BY ONLY <1>2, TripleType
<1>4. e1 \in 0..63 /\ e2 \in 0..63 /\ e3 \in 0..63 /\ e4 \in 0..63
  BY ONLY <1>i, Sextets
<1>5. /\ e1 * 64 + e2 = t \div 4096 /\ (e1 * 64 + e2) * 64 + e3 = t \div 64
      /\ ((e1 * 64 + e2) * 64 + e3) * 64 + e4 = t
  BY ONLY <1>i, Sextets
<1> HIDE DEF e1, e2, e3, e4, n, x
<1>6. /\ x[1] = CharOf(e1) /\ x[2] = CharOf(e2)
      /\ x[3] = (IF n >= 2 THEN CharOf(e3) ELSE Pad) /\ x[4] = (IF n = 3 THEN CharOf(e4) ELSE Pad)
  <2> DEFINE es == <<e1, e2, e3, e4>>
  <2>1. es[1] = e1 /\ es[2] = e2 /\ es[3] = e3 /\ es[4] = e4
    OBVIOUS
  <2> HIDE DEF es
  <2>2. /\ x[1] = (IF 1 <= n + 1 THEN CharOf(es[1]) ELSE Pad)
        /\ x[2] = (IF 2 <= n + 1 THEN CharOf(es[2]) ELSE Pad)
        /\ x[3] = (IF 3 <= n + 1 THEN CharOf(es[3]) ELSE Pad)
        /\ x[4] = (IF 4 <= n + 1 THEN CharOf(es[4]) ELSE Pad)
    BY ONLY <1>3 DEF es
  <2> QED
    BY ONLY <1>1, <2>1, <2>2
<1>7. x \in Strings /\ Len(x) = 4
  <2> DEFINE m == 4
  <2>1. m \in Nat /\ \A i \in 1..m : i = 1 \/ i = 2 \/ i = 3 \/ i = 4
    OBVIOUS
  <2>2. x = [i \in 1..m |-> x[i]]
    BY ONLY <1>3
  <2> HIDE DEF m
  <2>3. \A i \in 1..m : x[i] \in Nat
    BY <1>4, <1>6, <2>1, DigitsAreRead
  <2>4. x \in [1..m -> Nat]
    BY ONLY <2>2, <2>3
  <2>5. x \in Seq(Nat) /\ Len(x) = m
    BY ONLY <2>1, <2>4
  <2> QED
    BY <2>5 DEF Strings, m
<1>8. /\ d[1] = e1 /\ d[2] = e2
      /\ d[3] = (IF n >= 2 THEN e3 ELSE NoDigit) /\ d[4] = (IF n = 3 THEN e4 ELSE NoDigit)
  <2>1. d[1] = DigitOf(x[1]) /\ d[2] = DigitOf(x[2]) /\ d[3] = DigitOf(x[3]) /\ d[4] = DigitOf(x[4])
    OBVIOUS
  <2> HIDE DEF d
  <2>2. DigitOf(CharOf(e1)) = e1 /\ DigitOf(CharOf(e2)) = e2
        /\ DigitOf(CharOf(e3)) = e3 /\ DigitOf(CharOf(e4)) = e4 /\ DigitOf(Pad) = NoDigit
    BY ONLY <1>4, DigitsAreRead
  <2> QED
    BY ONLY <1>6, <2>1, <2>2
<1>9. stop = IF n = 3 THEN 0 ELSE n + 2
  <2> DEFINE I == {i \in 1..4 : d[i] = NoDigit}
  <2>1. Len(d) = 4
    OBVIOUS
  <2>2. stop = IF I # {} THEN Min(I) ELSE 0
    <3> HIDE DEF d
    <3> QED
      BY <2>1 DEF SelectInSeq
  <2> HIDE DEF d
  <2>3. \A i \in 1..4 : i = 1 \/ i = 2 \/ i = 3 \/ i = 4
    OBVIOUS
  <2>4. \A i \in 1..4 : i \in I <=> i >= n + 2
    BY <1>1, <1>4, <1>8, <2>3, DigitsAreRead
  <2>5. I \in SUBSET Nat /\ I \subseteq 1..4
    OBVIOUS
  <2> HIDE DEF I
  <2>6. CASE n = 3
    <3>1. I = {}
      BY <2>4, <2>5, <2>6
    <3> QED
      BY <2>2, <2>6, <3>1
  <2>7. CASE n # 3
    <3>1. n + 2 \in 1..4 /\ n + 2 \in I
      BY <1>1, <2>4, <2>7
    <3>2. Min(I) \in I /\ \A y \in I : Min(I) <= y
      BY <2>5, <3>1, Least
    <3>3. Min(I) >= n + 2 /\ Min(I) <= n + 2 /\ Min(I) \in Nat
      BY <2>4, <2>5, <3>1, <3>2
    <3>4. Min(I) = n + 2
      BY <1>1, <3>3
    <3> QED
      BY <2>2, <2>7, <3>1, <3>4
  <2> QED
    BY <2>6, <2>7
<1>a. DecodeGroup(x, last) =
        CASE stop = 0                                   -> Bytes(d, 4)
          [] last /\ stop \in {3, 4} /\ x[stop] = Pad   -> Bytes(d, stop - 1)
          [] OTHER                                      -> Error
  BY DEF DecodeGroup
<1> HIDE DEF d, stop
<1>b. DecodeGroup(x, last) = Bytes(d, n + 1)
  <2>1. CASE n = 3
    BY <1>9, <1>a, <2>1
  <2>2. CASE n # 3
    <3>1. stop = n + 2 /\ stop # 0 /\ stop \in {3, 4} /\ stop - 1 = n + 1
      BY <1>1, <1>9, <2>2
    <3>2. x[stop] = Pad
      BY <1>1, <1>6, <2>2, <3>1
    <3> QED
      BY ONLY <1>a, <1>l, <2>2, <3>1, <3>2
  <2> QED
    BY <2>1, <2>2
<1> DEFINE k == Kept(g, t)
<1>c. k = [i \in 1..n |-> IF i = 1 THEN t \div 65536 ELSE IF i = 2 THEN (t \div 256) % 256 ELSE t % 256]
  BY DEF Kept, k, n, TopByte, MidByte, LowByte
<1>d. (t \div 4096) \div 16 = t \div 65536 /\ (t \div 64) \div 1024 = t \div 65536
      /\ (t \div 64) \div 4 = t \div 256
  BY ONLY <1>2, Sextets
<1> HIDE DEF k
<1>e. Bytes(d, n + 1) = k
  <2>1. CASE n = 1
    <3>1. Bytes(d, 2) = <<(d[1] * 64 + d[2]) \div 16>>
      BY DEF Bytes
    <3>2. Bytes(d, 2) = <<t \div 65536>>
      BY ONLY <1>5, <1>8, <1>d, <3>1
    <3>3. k = <<t \div 65536>>
      BY ONLY <1>c, <2>1
    <3> QED
      BY <2>1, <3>2, <3>3
  <2>2. CASE n = 2
    <3>1. Bytes(d, 3) = <<((d[1] * 64 + d[2]) * 64 + d[3]) \div 1024,
                          (((d[1] * 64 + d[2]) * 64 + d[3]) \div 4) % 256>>
      BY DEF Bytes
    <3>2. d[3] = e3
      BY ONLY <1>8, <2>2
    <3>3. Bytes(d, 3) = <<t \div 65536, (t \div 256) % 256>>
      BY ONLY <1>5, <1>8, <1>d, <3>1, <3>2
    <3>4. k = <<t \div 65536, (t \div 256) % 256>>
      BY ONLY <1>c, <2>2
    <3> QED
      BY <2>2, <3>3, <3>4
  <2>3. CASE n = 3
    <3>1. Bytes(d, 4) = <<((d[1] * 64 + d[2]) * 64 + d[3]) \div 1024,
                          (((d[1] * 64 + d[2]) * 64 + d[3]) \div 4) % 256,
                          (((d[1] * 64 + d[2]) * 64 + d[3]) * 64 + d[4]) % 256>>
      BY DEF Bytes
    <3>2. d[3] = e3 /\ d[4] = e4
      BY ONLY <1>8, <2>3
    <3>3. Bytes(d, 4) = <<t \div 65536, (t \div 256) % 256, t % 256>>
      BY ONLY <1>5, <1>8, <1>d, <3>1, <3>2
    <3>4. k = <<t \div 65536, (t \div 256) % 256, t % 256>>
      BY ONLY <1>c, <2>3
    <3> QED
      BY <2>3, <3>3, <3>4
  <2> QED
    BY <1>1, <2>1, <2>2, <2>3
<1> QED
  BY <1>7, <1>b, <1>e DEF x, k, t

(* A text is cut into groups of m, of which the last one may be shorter.   *)
Width(n, m, q, k) == IF k < q THEN m ELSE n - m * (q - 1)

LEMMA HowMany ==
  ASSUME NEW n \in Nat \ {0}, NEW m \in Nat \ {0}, NEW q \in Int, q = (n + m - 1) \div m
  PROVE  /\ q \in Nat \ {0} /\ n - m * (q - 1) \in 1..m
         /\ \A k \in 1..q : Width(n, m, q, k) \in 1..m
<1> DEFINE r == (n + m - 1) % m
<1>1. q \in Int /\ r \in 0..(m - 1) /\ n + m - 1 = (m * q) + r
  <2>1. n + m - 1 \in Int
    OBVIOUS
  <2> QED
    BY <2>1, Division
<1> HIDE DEF r
<1>2. q >= 1
  <2>1. SUFFICES ASSUME q <= 0 PROVE FALSE
    BY <1>1
  <2>2. m * q <= m * 0
    BY <1>1, <2>1
  <2>3. m * q \in Int /\ m * 0 = 0
    BY <1>1
  <2> DEFINE x == m * q
  <2>4. x \in Int /\ x <= 0 /\ n + m - 1 = x + r
    BY <1>1, <2>2, <2>3
  <2> HIDE DEF x
  <2> QED
    BY ONLY <1>1, <2>4, n \in Nat \ {0}, m \in Nat \ {0}
<1>3. m * (q - 1) = m * q - m /\ m * q \in Int
  BY <1>1
<1>4. n - m * (q - 1) = r + 1
  <2> DEFINE x == m * q
             y == m * (q - 1)
  <2>1. x \in Int /\ y = x - m /\ n + m - 1 = x + r
    BY <1>1, <1>3
  <2> HIDE DEF x, y
  <2>2. n - y = r + 1
    BY <1>1, <2>1
  <2> QED
    BY <2>2 DEF y
<1> QED
  BY <1>1, <1>2, <1>4 DEF Width

(* Where the i-th of the k-th group is in the text, ...                    *)
LEMMA PlaceInText ==
  ASSUME NEW n \in Nat \ {0}, NEW m \in Nat \ {0}, NEW q \in Nat \ {0}, n - m * (q - 1) \in 1..m,
         NEW k \in 1..q, NEW i \in 1..Width(n, m, q, k)
  PROVE  m * (k - 1) + i \in 1..n
<1> DEFINE x == m * (k - 1)
           y == m * (q - 1)
<1>1. x \in Nat /\ y \in Nat
  OBVIOUS
<1>2. n - y \in 1..m
  OBVIOUS
<1>3. k < q => m * (k - 1) + i \in 1..n
  <2> SUFFICES ASSUME k < q PROVE m * (k - 1) + i \in 1..n
    OBVIOUS
  <2>1. m * ((k - 1) + 1) <= m * (q - 1) /\ m * ((k - 1) + 1) = x + m
    OBVIOUS
  <2>2. i \in 1..m /\ x + m <= y
    BY <2>1 DEF Width
  <2> HIDE DEF x, y
  <2>3. x + i \in 1..n
    BY <1>1, <1>2, <2>2
  <2> QED
    BY <2>3 DEF x
<1>4. ~(k < q) => m * (k - 1) + i \in 1..n
  <2> SUFFICES ASSUME ~(k < q) PROVE m * (k - 1) + i \in 1..n
    OBVIOUS
  <2>1. k = q
    OBVIOUS
  <2>2. i \in 1..n - y /\ x = y
    BY <2>1 DEF Width
  <2> HIDE DEF x, y
  <2>3. x + i \in 1..n
    BY <1>1, <1>2, <2>2
  <2> QED
    BY <2>3 DEF x
<1> QED
  BY <1>3, <1>4

(* ... and which one a place of the text is.                               *)
Located(n, m, q, p) == \E k \in 1..q : \E i \in 1..Width(n, m, q, k) : p = m * (k - 1) + i /\ i \in 1..m

LEMMA PlacedIn ==
  ASSUME NEW n \in Nat \ {0}, NEW m \in Nat \ {0}, NEW q \in Nat \ {0}, n - m * (q - 1) \in 1..m,
         NEW p \in 1..n
  PROVE  Located(n, m, q, p)
<1> DEFINE z == (p - 1) \div m
           j == (p - 1) % m
<1>1. z \in Int /\ j \in 0..(m - 1) /\ p - 1 = (m * z) + j
  <2>1. p - 1 \in Int
    OBVIOUS
  <2> QED
    BY <2>1, Division
<1> HIDE DEF z, j
<1> DEFINE x == m * z
           y == m * (q - 1)
<1>2. x \in Int /\ y \in Nat /\ n - y \in 1..m /\ p = x + j + 1
  <2>1. x \in Int /\ y \in Nat /\ n - y \in 1..m
    BY <1>1
  <2>2. p - 1 = x + j
    BY <1>1
  <2> HIDE DEF x, y
  <2> QED
    BY <1>1, <2>1, <2>2
<1>3. z >= 0
  <2>1. SUFFICES ASSUME z <= -1 PROVE FALSE
    BY <1>1
  <2>2. x <= -m
    <3>1. m * z <= m * (-1)
      BY <1>1, <2>1
    <3> QED
      BY <3>1
  <2> HIDE DEF x
  <2> QED
    BY <1>1, <1>2, <2>2
<1>4. z <= q - 1
  <2>1. SUFFICES ASSUME z >= q PROVE FALSE
    BY <1>1
  <2>2. x >= y + m
    <3>1. m * z >= m * q /\ m * q = m * (q - 1) + m
      BY <1>1, <2>1
    <3> QED
      BY <3>1
  <2> HIDE DEF x, y
  <2> QED
    BY <1>1, <1>2, <2>2
<1> DEFINE k == z + 1
           i == j + 1
<1>5. k \in 1..q /\ i \in 1..m /\ k - 1 = z
  BY <1>1, <1>3, <1>4
<1>6. p = m * (k - 1) + i
  <2>1. m * (k - 1) = x
    BY <1>5
  <2> HIDE DEF x, k
  <2> QED
    BY <1>1, <1>2, <2>1
<1>7. i \in 1..Width(n, m, q, k)
  <2>1. CASE k < q
    BY <1>5, <2>1 DEF Width
  <2>2. CASE ~(k < q)
    <3>1. z = q - 1
      BY <1>1, <1>4, <2>2
    <3>2. x = y
      BY <3>1
    <3> HIDE DEF x, y
    <3>3. i \in 1..n - y
      BY <1>1, <1>2, <3>2
    <3> HIDE DEF i, k
    <3> QED
      BY <2>2, <3>3 DEF Width, y
  <2> QED
    BY <2>1, <2>2
<1> HIDE DEF k, i
<1> QED
  BY <1>5, <1>6, <1>7 DEF Located

LEMMA GroupsAre ==
  ASSUME NEW s \in Strings, Len(s) # 0, NEW m \in Nat \ {0}, NEW q \in Int, q = (Len(s) + m - 1) \div m
  PROVE  /\ Groups(s, m) \in Seq(Strings) /\ Len(Groups(s, m)) = q
         /\ \A k \in 1..q : /\ Len(Groups(s, m)[k]) = Width(Len(s), m, q, k)
                            /\ \A i \in 1..Width(Len(s), m, q, k) : Groups(s, m)[k][i] = s[m * (k - 1) + i]
<1> DEFINE n == Len(s)
           from(k) == m * (k - 1) + 1
           upto(k) == Min({m * k, n})
           G == [k \in 1..q |-> SubSeq(s, from(k), upto(k))]
<1>1. n \in Nat \ {0}
  BY LenProperties DEF Strings
<1>2. q \in Nat \ {0} /\ n - m * (q - 1) \in 1..m /\ \A k \in 1..q : Width(n, m, q, k) \in 1..m
  BY <1>1, HowMany
<1>3. Groups(s, m) = G
  BY DEF Groups
<1>4. ASSUME NEW k \in 1..q
      PROVE  from(k) \in Int /\ upto(k) \in Int /\ upto(k) = m * (k - 1) + Width(n, m, q, k)
  <2> DEFINE x == m * (k - 1)
             y == m * (q - 1)
             z == m * k
             w == Width(n, m, q, k)
  <2>1. x \in Nat /\ y \in Nat /\ z \in Nat /\ z = x + m
    OBVIOUS
  <2>2. n - y \in 1..m /\ w \in 1..m
    BY <1>2
  <2>3. k < q => z <= y /\ w = m
    <3>1. ASSUME k < q PROVE m * k <= m * (q - 1)
      <4>1. k \in Int /\ q - 1 \in Int /\ k <= q - 1
        BY <1>2, <3>1
      <4> DEFINE j == q - 1
      <4> HIDE DEF j
      <4> QED
        BY <4>1 DEF j
    <3> QED
      BY <3>1 DEF Width
  <2>4. k >= q => x = y /\ w = n - y
    <3>1. k >= q => k = q
      BY <1>2
    <3> QED
      BY <3>1 DEF Width
  <2> HIDE DEF x, y, z, w
  <2>5. upto(k) = x + w
    <3> DEFINE S == {z, n}
    <3>1. S \in SUBSET Nat /\ S # {} /\ z \in S /\ n \in S
      BY <1>1, <2>1
    <3>2. Min(S) \in S /\ \A y1 \in S : Min(S) <= y1
      <4> HIDE DEF S
      <4> QED
        BY <3>1, Least
    <3>3. Min(S) = z \/ Min(S) = n
      BY <3>2
    <3>4. Min(S) <= z /\ Min(S) <= n
      BY <3>1, <3>2
    <3>5. upto(k) = Min(S)
      BY DEF z
    <3> HIDE DEF S, upto
    <3>6. CASE k < q
      BY <1>1, <2>1, <2>2, <2>3, <3>3, <3>4, <3>5, <3>6
    <3>7. CASE k >= q
      BY <1>1, <2>1, <2>2, <2>4, <3>3, <3>4, <3>5, <3>7
    <3> QED
      BY <1>2, <3>6, <3>7
  <2>6. x + w \in Int /\ from(k) \in Int
    BY <2>1, <2>2
  <2> HIDE DEF upto
  <2>7. upto(k) \in Int
    BY <2>5, <2>6
  <2> QED
    BY <2>5, <2>6, <2>7 DEF x, w
<1>5. ASSUME NEW k \in 1..q
      PROVE  /\ SubSeq(s, from(k), upto(k)) \in Strings
             /\ Len(SubSeq(s, from(k), upto(k))) = Width(n, m, q, k)
             /\ \A i \in 1..Width(n, m, q, k) : SubSeq(s, from(k), upto(k))[i] = s[m * (k - 1) + i]
  <2> DEFINE x == m * (k - 1)
             w == Width(n, m, q, k)
             a == from(k)
             b == upto(k)
  <2>1. a \in Int /\ b \in Int /\ b = x + w /\ a = x + 1 /\ x \in Nat /\ w \in 1..m
    BY <1>2, <1>4
  <2>2. ASSUME NEW i \in 1..w PROVE x + i \in 1..n
    <3>1. i \in 1..Width(n, m, q, k)
      OBVIOUS
    <3> HIDE DEF n
    <3> QED
      BY <1>1, <1>2, <3>1, PlaceInText
  <2> HIDE DEF x, w, a, b
  <2>3. ASSUME NEW p \in a..b PROVE s[p] \in Nat
    <3>1. p - x \in 1..w /\ x + (p - x) = p
      BY <2>1
    <3>2. p \in 1..n
      BY <2>2, <3>1
    <3> QED
      BY <3>2, ElementOfSeq DEF Strings
  <2>4. /\ SubSeq(s, a, b) \in Seq(Nat)
        /\ Len(SubSeq(s, a, b)) = IF a <= b THEN b - a + 1 ELSE 0
        /\ \A i \in 1..b - a + 1 : SubSeq(s, a, b)[i] = s[a + i - 1]
    BY <2>1, <2>3, SubSeqProperties
  <2>5. b - a + 1 = w /\ a <= b
    BY <2>1
  <2>6. Len(SubSeq(s, a, b)) = w
    BY <2>4, <2>5
  <2>7. ASSUME NEW i \in 1..w PROVE SubSeq(s, a, b)[i] = s[x + i]
    <3>1. a + i - 1 = x + i
      BY <2>1
    <3> QED
      BY <2>4, <2>5, <3>1
  <2> QED
    BY <2>4, <2>6, <2>7 DEF Strings, x, w, a, b
<1> HIDE DEF from, upto
<1> DEFINE cut(k) == SubSeq(s, from(k), upto(k))
<1>6. /\ G = [k \in 1..q |-> cut(k)] /\ \A k \in 1..q : cut(k) \in Strings
  BY <1>5
<1> HIDE DEF G, cut
<1>7. G \in Seq(Strings) /\ Len(G) = q /\ \A k \in 1..q : G[k] = cut(k)
  BY <1>2, <1>6
<1>8. ASSUME NEW k \in 1..q
      PROVE  /\ Len(G[k]) = Width(n, m, q, k)
             /\ \A i \in 1..Width(n, m, q, k) : G[k][i] = s[m * (k - 1) + i]
  BY <1>5, <1>7 DEF cut
<1> QED
  BY <1>3, <1>7, <1>8

(* Groups, one after the other.                                            *)
Grouped(seqs, m) ==
    /\ seqs \in Seq(Strings) /\ Len(seqs) # 0
    /\ \A k \in 1..Len(seqs) : Len(seqs[k]) \in 1..m /\ (k < Len(seqs) => Len(seqs[k]) = m)

Chained(seqs, f) ==
    /\ f \in [1..Len(seqs) -> Strings] /\ f[1] = seqs[1]
    /\ \A k \in 2..Len(seqs) : f[k] = f[k - 1] \o seqs[k]

LEMMA FlattenIs ==
  ASSUME NEW seqs \in Seq(Strings), Len(seqs) # 0
  PROVE  \E f : Chained(seqs, f) /\ FlattenSeq(seqs) = f[Len(seqs)]
<1> DEFINE n == Len(seqs)
           g == [k \in 1..n - 1 |-> [t \in Strings |-> t \o seqs[k + 1]]]
           Body(x) == [k \in 1..n |-> IF k = 1 THEN seqs[k] ELSE x[k - 1] \o seqs[k]]
<1>1. n \in Nat \ {0} /\ n - 1 \in Nat /\ seqs[1] \in Strings
  BY LenProperties, ElementOfSeq
<1>2. ASSUME NEW k \in 1..n, NEW t \in Strings PROVE t \o seqs[k] \in Strings
  <2>1. seqs[k] \in Strings
    BY ElementOfSeq
  <2> QED
    BY <2>1, Joined
<1>3. g \in [1..n - 1 -> [Strings -> Strings]]
  <2>1. ASSUME NEW k \in 1..n - 1, NEW t \in Strings PROVE t \o seqs[k + 1] \in Strings
    <3>1. k + 1 \in 1..n
      BY <1>1
    <3> QED
      BY <1>2, <3>1
  <2> QED
    BY <2>1
<1>4. PICK h : h \in [0..n - 1 -> Strings] /\ h[0] = seqs[1] /\ \A k \in 1..n - 1 : h[k] = g[k][h[k - 1]]
  <2> HIDE DEF g, n
  <2>1. \E h : Recurses(h, n - 1, Strings, seqs[1], g)
    BY <1>1, <1>3, Recursion
  <2> QED
    BY <2>1 DEF Recurses
<1> DEFINE f == [k \in 1..n |-> h[k - 1]]
<1>5. f = Body(f)
  <2>1. ASSUME NEW k \in 1..n, k # 1 PROVE f[k] = f[k - 1] \o seqs[k]
    <3> DEFINE j == k - 1
    <3>1. j \in 1..n - 1 /\ j + 1 = k /\ j - 1 \in 0..n - 1 /\ j \in 1..n /\ f[k] = h[j] /\ f[j] = h[j - 1]
      BY <1>1, <2>1
    <3> HIDE DEF j, f
    <3>2. h[j - 1] \in Strings /\ h[j] = g[j][h[j - 1]]
      BY <1>4, <3>1
    <3>3. g[j][h[j - 1]] = h[j - 1] \o seqs[j + 1]
      BY <3>1, <3>2
    <3> HIDE DEF g
    <3> QED
      BY <3>1, <3>2, <3>3 DEF j
  <2>2. f[1] = seqs[1]
    BY <1>1, <1>4
  <2>3. f = [k \in 1..n |-> f[k]]
    OBVIOUS
  <2> HIDE DEF f, n
  <2>4. \A k \in 1..n : f[k] = IF k = 1 THEN seqs[k] ELSE f[k - 1] \o seqs[k]
    BY <2>1, <2>2
  <2> QED
    BY <2>3, <2>4
<1> DEFINE u == CHOOSE x : x = Body(x)
<1>6. FlattenSeq(seqs) = u[n]
  BY DEF FlattenSeq
<1>7. u = Body(u)
  <2> HIDE DEF Body
  <2> QED
    BY <1>5
<1>8. ASSUME NEW x, x = Body(x)
      PROVE  /\ x[1] = seqs[1] /\ \A k \in 2..n : x[k] = x[k - 1] \o seqs[k]
             /\ x = [k \in 1..n |-> x[k]]
  <2>1. 1 \in 1..n /\ \A k \in 2..n : k \in 1..n /\ k # 1
    BY <1>1
  <2> HIDE DEF n
  <2> QED
    BY <1>8, <2>1
<1>9. u[1] = seqs[1] /\ (\A k \in 2..n : u[k] = u[k - 1] \o seqs[k]) /\ u = [k \in 1..n |-> u[k]]
  <2> HIDE DEF Body, n, u
  <2> QED
    BY <1>7, <1>8
<1>a. ASSUME NEW x, x[1] = seqs[1], \A k \in 2..n : x[k] = x[k - 1] \o seqs[k]
      PROVE  \A k \in 1..n : x[k] \in Strings
  <2> DEFINE S == {k \in 0..n - 1 : x[k + 1] \in Strings}
  <2>1. 0 \in S
    BY <1>1, <1>a
  <2>2. ASSUME NEW k \in 1..n - 1, k - 1 \in S PROVE k \in S
    <3> DEFINE j == k + 1
    <3>1. j \in 2..n /\ j \in 1..n /\ (k - 1) + 1 = j - 1 /\ k \in 0..n - 1
      BY <1>1
    <3>2. x[j - 1] \in Strings
      BY <2>2, <3>1
    <3> HIDE DEF j
    <3>3. x[j] = x[j - 1] \o seqs[j]
      BY <1>a, <3>1
    <3>4. x[j] \in Strings
      BY <1>2, <3>1, <3>2, <3>3
    <3> QED
      BY <3>1, <3>4 DEF j
  <2> HIDE DEF S
  <2>3. \A k \in 0..n - 1 : k \in S
    BY <1>1, <2>1, <2>2, InductionUpTo
  <2>4. ASSUME NEW k \in 1..n PROVE x[k] \in Strings
    <3>1. k - 1 \in 0..n - 1 /\ (k - 1) + 1 = k
      BY <1>1
    <3> QED
      BY <2>3, <3>1 DEF S
  <2> QED
    BY <2>4
<1>b. \A k \in 1..n : u[k] \in Strings
  <2> HIDE DEF n, u
  <2> QED
    BY <1>9, <1>a
<1>c. Chained(seqs, u)
  <2>1. u \in [1..n -> Strings]
    <3> HIDE DEF n, u
    <3> QED
      BY <1>9, <1>b
  <2> HIDE DEF u
  <2> QED
    BY <1>9, <2>1 DEF Chained
<1> HIDE DEF u
<1> QED
  BY <1>6, <1>c

LEMMA Flattened ==
  ASSUME NEW m \in Nat \ {0}, NEW seqs \in Seq(Strings), Grouped(seqs, m)
  PROVE  /\ FlattenSeq(seqs) \in Strings
         /\ Len(FlattenSeq(seqs)) = m * (Len(seqs) - 1) + Len(seqs[Len(seqs)])
         /\ \A k \in 1..Len(seqs) : \A i \in 1..Len(seqs[k]) :
               FlattenSeq(seqs)[m * (k - 1) + i] = seqs[k][i]
<1> DEFINE n == Len(seqs)
           F == FlattenSeq(seqs)
<1>1. n \in Nat \ {0} /\ seqs \in Seq(Strings)
  BY LenProperties DEF Grouped
<1>2. ASSUME NEW k \in 1..n
      PROVE  seqs[k] \in Strings /\ Len(seqs[k]) \in 1..m /\ (k < n => Len(seqs[k]) = m)
  BY <1>1, ElementOfSeq DEF Grouped
<1>3. PICK f : Chained(seqs, f) /\ F = f[n]
  BY <1>1, FlattenIs
<1> HIDE DEF F
<1> DEFINE Reads(k) == /\ Len(f[k + 1]) = m * k + Len(seqs[k + 1])
                       /\ \A j \in 1..k + 1 : \A i \in 1..Len(seqs[j]) : f[k + 1][m * (j - 1) + i] = seqs[j][i]
           S == {k \in 0..n - 1 : Reads(k)}
<1>4. 0 \in S
  <2>1. f[1] = seqs[1] /\ 1 \in 1..n
    BY <1>1, <1>3 DEF Chained
  <2>2. Len(seqs[1]) \in Nat
    BY <1>2, <2>1
  <2>3. Len(f[0 + 1]) = m * 0 + Len(seqs[0 + 1])
    <3>1. 0 + 1 = 1 /\ m * 0 = 0
      OBVIOUS
    <3> DEFINE l == Len(seqs[1])
    <3>2. f[0 + 1] = seqs[1] /\ Len(seqs[0 + 1]) = l
      BY <2>1, <3>1
    <3>3. \A x \in Nat : m * 0 + x = x
      OBVIOUS
    <3> HIDE DEF l
    <3> QED
      BY <2>2, <3>2, <3>3 DEF l
  <2>4. ASSUME NEW j \in 1..0 + 1, NEW i \in 1..Len(seqs[j]) PROVE f[0 + 1][m * (j - 1) + i] = seqs[j][i]
    <3>1. j = 1
      OBVIOUS
    <3>2. m * (1 - 1) + i = i
      BY <2>2, <3>1
    <3> QED
      BY <2>1, <3>1, <3>2
  <2>5. Reads(0)
    BY <2>3, <2>4
  <2> HIDE DEF Reads
  <2> QED
    BY <1>1, <2>5
<1>5. ASSUME NEW k \in 1..n - 1, k - 1 \in S PROVE k \in S
  <2> DEFINE a == f[k]
             b == seqs[k + 1]
             x == m * k
  <2>1. k \in 1..n /\ k + 1 \in 1..n /\ k + 1 \in 2..n /\ (k + 1) - 1 = k /\ k < n /\ (k - 1) + 1 = k
    BY <1>1
  <2>2. a \in Strings /\ b \in Strings
    BY <1>2, <1>3, <2>1 DEF Chained
  <2>3. Reads(k - 1)
    BY <1>5
  <2>4. x \in Nat /\ m * (k - 1) + m = x
    OBVIOUS
  <2>5. Len(a) = m * (k - 1) + Len(seqs[k]) /\ Len(seqs[k]) = m
    BY <1>2, <2>1, <2>3
  <2>6. f[k + 1] = a \o b
    <3> DEFINE c == k + 1
    <3>1. c \in 2..n /\ c - 1 = k
      BY <2>1
    <3> HIDE DEF c
    <3>2. f[c] = f[c - 1] \o seqs[c]
      BY <1>3, <3>1 DEF Chained
    <3> QED
      BY <3>1, <3>2 DEF c
  <2>7. Len(a) = x
    BY <2>4, <2>5
  <2>8. \A j \in 1..k : \A i \in 1..Len(seqs[j]) : a[m * (j - 1) + i] = seqs[j][i]
    BY <2>1, <2>3
  <2> HIDE DEF a, b, x, Reads
  <2>9. /\ Len(a \o b) = x + Len(b)
        /\ \A p \in 1..x : (a \o b)[p] = a[p]
        /\ \A p \in 1..Len(b) : (a \o b)[x + p] = b[p]
    BY <2>2, <2>7, Joined
  <2>10. ASSUME NEW j \in 1..k + 1, NEW i \in 1..Len(seqs[j]) PROVE (a \o b)[m * (j - 1) + i] = seqs[j][i]
    <3>1. j = k + 1 => (a \o b)[m * (j - 1) + i] = seqs[j][i]
      <4> SUFFICES ASSUME j = k + 1 PROVE (a \o b)[m * (j - 1) + i] = seqs[j][i]
        OBVIOUS
      <4>1. j - 1 = k /\ seqs[j] = b
        BY <2>1 DEF b
      <4>2. m * (j - 1) = x
        BY <4>1 DEF x
      <4> DEFINE y == m * (j - 1)
      <4> HIDE DEF y
      <4>3. y = x /\ i \in 1..Len(b)
        BY <4>1, <4>2 DEF y
      <4>4. (a \o b)[y + i] = b[i]
        BY <2>9, <4>3
      <4> QED
        BY <4>1, <4>4 DEF y
    <3>2. j # k + 1 => (a \o b)[m * (j - 1) + i] = seqs[j][i]
      <4> SUFFICES ASSUME j # k + 1 PROVE (a \o b)[m * (j - 1) + i] = seqs[j][i]
        OBVIOUS
      <4>1. j \in 1..k /\ j \in 1..n /\ j <= k
        BY <2>1
      <4>2. i \in 1..m
        BY <1>2, <4>1
      <4> DEFINE y == m * (j - 1)
                 p == y + i
      <4>3. y \in Nat /\ y + m <= x
        <5>1. m * ((j - 1) + 1) <= m * k /\ m * ((j - 1) + 1) = m * (j - 1) + m
          BY <4>1
        <5> QED
          BY <5>1 DEF x
      <4> HIDE DEF y
      <4>4. p \in 1..x
        BY <2>4, <4>2, <4>3
      <4>5. a[p] = seqs[j][i]
        BY <2>8, <4>1 DEF y
      <4> HIDE DEF p
      <4>6. (a \o b)[p] = seqs[j][i]
        BY <2>9, <4>4, <4>5
      <4> QED
        BY <4>6 DEF p, y
    <3> QED
      BY <3>1, <3>2
  <2>11. Reads(k)
    BY <2>6, <2>9, <2>10 DEF Reads, b, x
  <2>12. k \in 0..n - 1
    OBVIOUS
  <2> QED
    BY <2>11, <2>12
<1>6. \A k \in 0..n - 1 : k \in S
  <2> HIDE DEF S
  <2>1. n - 1 \in Nat
    BY <1>1
  <2> QED
    BY <1>4, <1>5, <2>1, InductionUpTo
<1>7. Reads(n - 1) /\ (n - 1) + 1 = n /\ n \in 1..n
  <2>1. n - 1 \in 0..n - 1 /\ (n - 1) + 1 = n /\ n \in 1..n
    BY <1>1
  <2> HIDE DEF Reads
  <2> QED
    BY <1>6, <2>1
<1>8. F \in Strings
  BY <1>3, <1>7 DEF Chained
<1>9. Len(F) = m * (n - 1) + Len(seqs[n]) /\ \A j \in 1..n : \A i \in 1..Len(seqs[j]) : F[m * (j - 1) + i] = seqs[j][i]
  BY <1>3, <1>7
<1> QED
  BY <1>8, <1>9 DEF F

(* Groups of m that were put together are found again.                     *)
LEMMA GroupsFound ==
  ASSUME NEW m \in Nat \ {0}, NEW seqs \in Seq(Strings), Len(seqs) # 0,
         \A k \in 1..Len(seqs) : Len(seqs[k]) = m
  PROVE  Groups(FlattenSeq(seqs), m) = seqs /\ Len(FlattenSeq(seqs)) = m * Len(seqs)
<1> DEFINE n == Len(seqs)
           F == FlattenSeq(seqs)
           G == Groups(F, m)
<1>1. n \in Nat \ {0} /\ n \in 1..n
  BY LenProperties
<1>2. Grouped(seqs, m)
  BY DEF Grouped
<1>3. /\ F \in Strings /\ Len(F) = m * (n - 1) + Len(seqs[n])
      /\ \A k \in 1..n : \A i \in 1..Len(seqs[k]) : F[m * (k - 1) + i] = seqs[k][i]
  BY <1>2, Flattened
<1> HIDE DEF F
<1>4. Len(F) = m * n /\ m * n \in Nat /\ m * n # 0
  <2>1. m * (n - 1) + m = m * n /\ m * n \in Nat /\ m * n # 0
    BY <1>1
  <2>2. Len(seqs[n]) = m
    BY <1>1
  <2> QED
    BY <1>3, <2>1, <2>2
<1>5. n = (Len(F) + m - 1) \div m
  <2> DEFINE y == Len(F) + m - 1
             r == m - 1
  <2>1. y = m * n + r
    BY <1>1, <1>4
  <2>2. y \in Int /\ r \in 0..(m - 1) /\ n \in Int
    BY <1>1, <1>4
  <2> HIDE DEF y, r
  <2> QED
    BY <2>1, <2>2, DivisionUnique DEF y
<1>6. \A k \in 1..n : Width(Len(F), m, n, k) = m
  <2>1. m * n - m * (n - 1) = m
    BY <1>1
  <2> QED
    BY <1>4, <2>1 DEF Width
<1>7. /\ G \in Seq(Strings) /\ Len(G) = n
      /\ \A k \in 1..n : /\ Len(G[k]) = Width(Len(F), m, n, k)
                         /\ \A i \in 1..Width(Len(F), m, n, k) : G[k][i] = F[m * (k - 1) + i]
  <2>1. n \in Int
    BY <1>1
  <2> HIDE DEF n
  <2> QED
    BY <2>1, <1>3, <1>4, <1>5, GroupsAre
<1> HIDE DEF G
<1>8. ASSUME NEW k \in 1..n PROVE G[k] = seqs[k]
  <2>1. G[k] \in Strings /\ seqs[k] \in Strings /\ Len(G[k]) = m /\ Len(seqs[k]) = m
    BY <1>6, <1>7, ElementOfSeq
  <2>2. \A i \in 1..m : G[k][i] = seqs[k][i]
    BY <1>3, <1>6, <1>7, <2>1
  <2> QED
    BY <2>1, <2>2, SeqEqual DEF Strings
<1>9. G = seqs
  BY <1>7, <1>8, SeqEqual
<1> QED
  BY <1>4, <1>9 DEF G, F

(* What is encoded is read back, to the bytes that the groups have kept.   *)
LEMMA KeptGroups ==
  ASSUME NEW bytes \in Seq(0..255), Len(bytes) # 0, NEW signed \in BOOLEAN
  PROVE  LET groups == Groups(bytes, 3)
             parts == [k \in 1..Len(groups) |-> Kept(groups[k], Temp(groups[k], signed))]
         IN  /\ Len(groups) \in Nat \ {0}
             /\ \A k \in 1..Len(groups) : IsGroup(groups[k]) /\ (k < Len(groups) => Len(groups[k]) = 3)
             /\ parts \in Seq(Strings) /\ Len(parts) = Len(groups)
             /\ \A k \in 1..Len(groups) : Len(parts[k]) = Len(groups[k])
             /\ Decode(Encode(bytes, signed)) = FlattenSeq(parts)
<1> DEFINE groups == Groups(bytes, 3)
           n == Len(bytes)
           q == (n + 3 - 1) \div 3
           kept(k) == Kept(groups[k], Temp(groups[k], signed))
           parts == [k \in 1..Len(groups) |-> kept(k)]
           code(k) == EncodeGroup(groups[k], signed)
           E == [k \in DOMAIN groups |-> code(k)]
           X == Encode(bytes, signed)
<1>1. n \in Nat \ {0} /\ bytes \in Strings
  <2>1. bytes \in [1..n -> 0..255] /\ n \in Nat
    BY LenProperties
  <2>2. bytes \in [1..n -> Nat]
    <3>1. \A b \in 0..255 : b \in Nat
      OBVIOUS
    <3> HIDE DEF n
    <3> QED
      BY <2>1, <3>1
  <2> QED
    BY <2>1, <2>2 DEF Strings
<1>2. q \in Int
  <2>1. n + 3 - 1 \in Int
    BY <1>1
  <2> QED
    BY <2>1, Division
<1>3. q \in Nat \ {0} /\ \A k \in 1..q : Width(n, 3, q, k) \in 1..3
  <2>1. 3 \in Nat \ {0} /\ q = (n + 3 - 1) \div 3
    OBVIOUS
  <2> HIDE DEF q, n
  <2> QED
    BY <1>1, <1>2, <2>1, HowMany
<1>4. /\ groups \in Seq(Strings) /\ Len(groups) = q
      /\ \A k \in 1..q : /\ Len(groups[k]) = Width(n, 3, q, k)
                         /\ \A i \in 1..Width(n, 3, q, k) : groups[k][i] = bytes[3 * (k - 1) + i]
  <2>1. 3 \in Nat \ {0} /\ q = (n + 3 - 1) \div 3
    OBVIOUS
  <2> HIDE DEF q
  <2> QED
    BY <1>1, <1>2, <2>1, GroupsAre
<1>5. \A k \in 1..q : IsGroup(groups[k]) /\ (k < q => Len(groups[k]) = 3)
  <2> SUFFICES ASSUME NEW k \in 1..q PROVE IsGroup(groups[k]) /\ (k < q => Len(groups[k]) = 3)
    OBVIOUS
  <2> DEFINE g == groups[k]
  <2>1. g \in Strings /\ Len(g) = Width(n, 3, q, k) /\ Len(g) \in 1..3
    BY <1>3, <1>4, ElementOfSeq
  <2>2. k < q => Len(g) = 3
    BY <2>1 DEF Width
  <2>3. ASSUME NEW i \in 1..Len(g) PROVE g[i] \in 0..255
    <3>1. 3 * (k - 1) + i \in 1..n
      <4>1. n - 3 * (q - 1) \in 1..3
        <5>1. 3 \in Nat \ {0} /\ q = (n + 3 - 1) \div 3
          OBVIOUS
        <5> HIDE DEF q, n
        <5> QED
          BY <1>1, <1>2, <5>1, HowMany
      <4>2. i \in 1..Width(n, 3, q, k) /\ 3 \in Nat \ {0}
        BY <2>1
      <4> HIDE DEF n, q
      <4> QED
        BY <1>1, <1>3, <4>1, <4>2, PlaceInText
    <3>2. bytes[3 * (k - 1) + i] \in 0..255
      BY <3>1, ElementOfSeq
    <3>3. g[i] = bytes[3 * (k - 1) + i]
      BY <1>4, <2>1
    <3> QED
      BY <3>2, <3>3
  <2>4. g \in Seq(0..255)
    <3>1. g = [i \in 1..Len(g) |-> g[i]] /\ Len(g) \in Nat
      BY <2>1, LenProperties DEF Strings
    <3> DEFINE l == Len(g)
    <3> HIDE DEF g
    <3>2. \A i \in 1..l : g[i] \in 0..255
      BY <2>3
    <3>3. g = [i \in 1..l |-> g[i]] /\ l \in Nat
      BY <3>1
    <3> HIDE DEF l
    <3>4. g \in [1..l -> 0..255]
      BY <3>2, <3>3
    <3> QED
      BY <3>3, <3>4
  <2> QED
    BY <2>1, <2>2, <2>4 DEF IsGroup
<1> HIDE DEF groups, n, q
<1>6. ASSUME NEW k \in 1..q
      PROVE  /\ code(k) \in Strings /\ Len(code(k)) = 4
             /\ kept(k) \in Strings /\ Len(kept(k)) = Len(groups[k])
             /\ DecodeGroup(code(k), k = q) = kept(k)
  <2> DEFINE g == groups[k]
             l == k = q
  <2>1. IsGroup(g) /\ l \in BOOLEAN /\ (Len(g) = 3 \/ l)
    BY <1>3, <1>5
  <2> HIDE DEF g, l
  <2>2. EncodeGroup(g, signed) \in Strings /\ Len(EncodeGroup(g, signed)) = 4
        /\ DecodeGroup(EncodeGroup(g, signed), l) = Kept(g, Temp(g, signed))
    BY <2>1, GroupReadsBack
  <2>3. Kept(g, Temp(g, signed)) \in Strings /\ Len(Kept(g, Temp(g, signed))) = Len(g)
    BY <2>1, TempKeeps, Zenon
  <2> QED
    BY <2>2, <2>3 DEF g, l
<1>7. DOMAIN groups = 1..q
  BY <1>4, LenProperties
<1>8. E = [k \in 1..q |-> code(k)] /\ X = FlattenSeq(E) /\ parts = [k \in 1..q |-> kept(k)]
  BY <1>4, <1>7 DEF Encode, groups
<1> HIDE DEF E, X, parts, code, kept
<1>9. E \in Seq(Strings) /\ Len(E) = q /\ \A k \in 1..q : E[k] = code(k)
  BY <1>3, <1>6, <1>8
<1>a. parts \in Seq(Strings) /\ Len(parts) = q /\ \A k \in 1..q : parts[k] = kept(k)
  BY <1>3, <1>6, <1>8
<1>b. Groups(X, 4) = E /\ Len(X) = 4 * q
  <2>1. Len(E) # 0 /\ \A k \in 1..Len(E) : Len(E[k]) = 4
    BY <1>3, <1>6, <1>9
  <2>2. 4 \in Nat \ {0}
    OBVIOUS
  <2> QED
    BY <1>8, <1>9, <2>1, <2>2, GroupsFound
<1>c. Len(X) % 4 = 0
  <2>1. 4 * q = 4 * q + 0 /\ 4 * q \in Int /\ q \in Int /\ 0 \in 0..(4 - 1) /\ 4 \in Nat \ {0}
    BY <1>3
  <2> DEFINE x == 4 * q
  <2>2. x = 4 * q + 0 /\ x \in Int
    BY <2>1
  <2> HIDE DEF x
  <2>3. x % 4 = 0
    BY <2>1, <2>2, DivisionUnique
  <2> QED
    BY <1>b, <2>3 DEF x
<1> DEFINE D == [k \in DOMAIN E |-> DecodeGroup(E[k], k = Len(E))]
<1>d. D = parts
  <2>1. DOMAIN E = 1..q
    BY <1>9, LenProperties
  <2>2. \A k \in 1..q : DecodeGroup(E[k], k = Len(E)) = kept(k)
    BY <1>6, <1>9
  <2> QED
    BY <1>8, <2>1, <2>2
<1>e. Decode(X) = IF Len(X) % 4 # 0 \/ Error \in {D[k] : k \in DOMAIN D} THEN Error ELSE FlattenSeq(D)
  BY <1>b DEF Decode
<1> HIDE DEF D
<1>f. Error \notin {D[k] : k \in DOMAIN D}
  <2>1. DOMAIN parts = 1..q
    BY <1>a, LenProperties
  <2>2. \A k \in 1..q : parts[k] \in Strings
    BY <1>6, <1>a
  <2>3. Error \notin Strings
    <3>1. ASSUME Error \in Strings PROVE FALSE
      <4>1. Len(Error) = 1 /\ Error[1] = -1
        BY DEF Error
      <4>2. Error[1] \in Nat
        <5>1. 1 \in 1..Len(Error)
          BY <4>1
        <5> HIDE DEF Error
        <5> QED
          BY <3>1, <5>1, ElementOfSeq DEF Strings
      <4> QED
        BY <4>1, <4>2
    <3> QED
      BY <3>1
  <2> QED
    BY <1>d, <2>1, <2>2, <2>3
<1>g. Decode(X) = FlattenSeq(parts)
  BY <1>c, <1>d, <1>e, <1>f
<1>h. \A k \in 1..q : Len(parts[k]) = Len(groups[k])
  BY <1>6, <1>a
<1> QED
  BY <1>3, <1>4, <1>5, <1>a, <1>g, <1>h, Zenon DEF X, parts, kept, groups

(* The places of a byte that borrows from its neighbours.                  *)
LEMMA Neighbours ==
  ASSUME NEW k \in Nat \ {0}, NEW i \in 1..3
  PROVE  ((3 * (k - 1) + i) % 3 # 1) <=> i # 1
<1> DEFINE p == 3 * (k - 1) + i
           r == IF i = 3 THEN 0 ELSE i
           c == IF i = 3 THEN k ELSE k - 1
<1>1. p = 3 * c + r /\ p \in Int /\ c \in Int /\ r \in 0..(3 - 1) /\ 3 \in Nat \ {0}
  OBVIOUS
<1>2. r # 1 <=> i # 1
  OBVIOUS
<1> HIDE DEF p, r, c
<1>3. p % 3 = r
  BY <1>1, DivisionUnique
<1> QED
  BY <1>2, <1>3 DEF p

(* The empty text has no groups.                                           *)
LEMMA NoGroups == Groups(<<>>, 3) = <<>> /\ Groups(<<>>, 4) = <<>>
<1>1. \A m \in {3, 4} : (0 + m - 1) \div m = 0
  <2>1. ASSUME NEW m \in {3, 4} PROVE (0 + m - 1) \div m = 0
    <3> DEFINE x == 0 + m - 1
    <3>1. x = m * 0 + x /\ x \in 0..(m - 1) /\ x \in Int /\ m \in Nat \ {0}
      OBVIOUS
    <3> HIDE DEF x
    <3> QED
      BY <3>1, DivisionUnique DEF x
  <2> QED
    BY <2>1
<1>2. Len(<<>>) = 0
  OBVIOUS
<1> QED
  BY <1>1, <1>2 DEF Groups

LEMMA EmptyDecodes == Decode(<<>>) = <<>>
<1>1. DOMAIN <<>> = {}
  OBVIOUS
<1> DEFINE D == [k \in DOMAIN <<>> |-> DecodeGroup(<<>>[k], k = Len(<<>>))]
<1>2. D = <<>> /\ Len(<<>>) = 0 /\ DOMAIN D = {} /\ 0 % 4 = 0
  BY <1>1
<1>3. Decode(<<>>) = IF Len(<<>>) % 4 # 0 \/ Error \in {D[k] : k \in DOMAIN D} THEN Error ELSE FlattenSeq(D)
  BY NoGroups DEF Decode
<1> HIDE DEF D
<1>4. Decode(<<>>) = FlattenSeq(D)
  BY <1>2, <1>3
<1> QED
  BY <1>2, <1>4 DEF FlattenSeq

LEMMA RoundTrip ==
  ASSUME NEW bytes \in Seq(0..255), NEW signed \in BOOLEAN
  PROVE  Decode(Encode(bytes, signed)) = bytes <=> ~(signed /\ Borrows(bytes))
<1> DEFINE n == Len(bytes)
           X == Encode(bytes, signed)
<1>1. n \in Nat /\ DOMAIN bytes = 1..n
  BY LenProperties
<1>2. n = 0 => Decode(X) = bytes /\ ~Borrows(bytes)
  <2> SUFFICES ASSUME n = 0 PROVE Decode(X) = bytes /\ ~Borrows(bytes)
    OBVIOUS
  <2>1. bytes = <<>> /\ DOMAIN bytes = {}
    BY <1>1
  <2>4. X = <<>>
    <3>1. DOMAIN <<>> = {}
      OBVIOUS
    <3> DEFINE E == [k \in DOMAIN <<>> |-> EncodeGroup(<<>>[k], signed)]
    <3>2. E = <<>> /\ Len(<<>>) = 0
      BY <3>1
    <3>3. X = FlattenSeq(E)
      BY <2>1, NoGroups DEF Encode
    <3> HIDE DEF E
    <3> QED
      BY <3>2, <3>3 DEF FlattenSeq
  <2> QED
    BY <2>1, <2>4, EmptyDecodes DEF Borrows
<1> DEFINE groups == Groups(bytes, 3)
           kept(k) == Kept(groups[k], Temp(groups[k], signed))
           parts == [k \in 1..Len(groups) |-> kept(k)]
           F == FlattenSeq(parts)
<1>3. n # 0 => (F = bytes <=> ~(signed /\ Borrows(bytes))) /\ Decode(X) = F
  <2> SUFFICES ASSUME n # 0 PROVE (F = bytes <=> ~(signed /\ Borrows(bytes))) /\ Decode(X) = F
    OBVIOUS
  <2> DEFINE q == Len(groups)
  <2>1. /\ q \in Nat \ {0}
        /\ \A k \in 1..q : IsGroup(groups[k]) /\ (k < q => Len(groups[k]) = 3)
        /\ parts \in Seq(Strings) /\ Len(parts) = q
        /\ \A k \in 1..q : Len(parts[k]) = Len(groups[k])
        /\ Decode(X) = F
    BY KeptGroups
  <2>2. \A k \in 1..q : parts[k] = kept(k)
    OBVIOUS
  <2>3. bytes \in Strings /\ n \in Nat \ {0}
    <3> DEFINE O == 0..255
    <3>1. bytes \in Seq(O) /\ O \subseteq Nat
      OBVIOUS
    <3> HIDE DEF O
    <3>2. bytes \in Seq(Nat)
      <4>1. Len(bytes) \in Nat /\ bytes \in [1..Len(bytes) -> O]
        BY ONLY <3>1, LenProperties
      <4>2. bytes \in [1..Len(bytes) -> Nat]
        BY ONLY <3>1, <4>1
      <4> QED
        BY ONLY <4>1, <4>2
    <3> QED
      BY <1>1, <3>2 DEF Strings
  <2> DEFINE w(k) == Width(n, 3, q, k)
  <2>4. /\ q = (n + 3 - 1) \div 3 /\ n - 3 * (q - 1) \in 1..3
        /\ \A k \in 1..q : /\ Len(groups[k]) = w(k)
                           /\ \A i \in 1..w(k) : groups[k][i] = bytes[3 * (k - 1) + i]
    <3> DEFINE z == (n + 3 - 1) \div 3
    <3>1. z \in Int /\ 3 \in Nat \ {0}
      <4>1. n + 3 - 1 \in Int
        BY <1>1
      <4> QED
        BY <4>1, Division
    <3>2. z = (n + 3 - 1) \div 3
      OBVIOUS
    <3> HIDE DEF z
    <3>3. /\ Len(groups) = z
          /\ \A k \in 1..z : /\ Len(groups[k]) = Width(n, 3, z, k)
                             /\ \A i \in 1..Width(n, 3, z, k) : groups[k][i] = bytes[3 * (k - 1) + i]
      BY <2>3, <3>1, <3>2, GroupsAre
    <3>4. n - 3 * (z - 1) \in 1..3
      <4> HIDE DEF n
      <4> QED
        BY <2>3, <3>1, <3>2, HowMany
    <3> HIDE DEF groups
    <3> QED
      BY <3>2, <3>3, <3>4
  <2> HIDE DEF parts, kept, groups, n, X, q
  <2>5. /\ F \in Strings /\ Len(F) = 3 * (q - 1) + Len(parts[q])
        /\ \A k \in 1..q : \A i \in 1..Len(parts[k]) : F[3 * (k - 1) + i] = parts[k][i]
    <3>1. \A k \in 1..q : Len(parts[k]) \in 1..3 /\ (k < q => Len(parts[k]) = 3)
      BY <2>1 DEF IsGroup
    <3>2. Grouped(parts, 3)
      BY <2>1, <3>1 DEF Grouped
    <3>3. 3 \in Nat \ {0}
      OBVIOUS
    <3> QED
      BY <2>1, <3>2, <3>3, Flattened
  <2> HIDE DEF F
  <2>6. \A k \in 1..q : w(k) \in 1..3 /\ Len(parts[k]) = w(k)
    BY <2>1, <2>4 DEF IsGroup
  <2>7. Len(F) = n
    <3>1. q \in 1..q /\ w(q) = n - 3 * (q - 1)
      BY <2>1 DEF Width
    <3>2. Len(F) = 3 * (q - 1) + (n - 3 * (q - 1))
      BY <2>5, <2>6, <3>1
    <3> QED
      BY <2>1, <2>3, <3>2
  <2>8. ASSUME NEW k \in 1..q, NEW i \in 1..w(k) PROVE 3 * (k - 1) + i \in 1..n
    <3>1. 3 \in Nat \ {0} /\ i \in 1..Width(n, 3, q, k)
      OBVIOUS
    <3> QED
      BY <2>1, <2>3, <2>4, <3>1, PlaceInText
  <2>9. ASSUME NEW p \in 1..n PROVE \E k \in 1..q : \E i \in 1..w(k) : p = 3 * (k - 1) + i /\ i \in 1..3
    <3> DEFINE m == 3
    <3>1. m \in Nat \ {0} /\ q \in Nat \ {0} /\ n \in Nat \ {0} /\ n - m * (q - 1) \in 1..m
      BY <2>1, <2>3, <2>4
    <3> HIDE DEF m
    <3>2. Located(n, m, q, p)
      BY ONLY p \in 1..n, <3>1, PlacedIn
    <3>3. PICK k \in 1..q : \E i \in 1..w(k) : p = 3 * (k - 1) + i
      BY ONLY <3>2 DEF Located, m
    <3>6. PICK i \in 1..w(k) : p = 3 * (k - 1) + i
      BY ONLY <3>3
    <3>4. w(k) \in 1..3
      BY <2>6
    <3> HIDE DEF w
    <3>5. i \in 1..3
      BY <3>4, <3>6
    <3> QED
      BY <3>5, <3>6
  <2> HIDE DEF w
  <2>10. F = bytes <=> \A k \in 1..q : parts[k] = groups[k]
    <3>1. ASSUME F = bytes, NEW k \in 1..q PROVE parts[k] = groups[k]
      <4>1. parts[k] \in Strings /\ groups[k] \in Seq(0..255) /\ Len(parts[k]) = w(k) /\ Len(groups[k]) = w(k)
        BY <2>1, <2>4, <2>6, ElementOfSeq DEF IsGroup
      <4>2. \A i \in 1..w(k) : parts[k][i] = groups[k][i]
        BY <2>4, <2>5, <3>1, <4>1
      <4>3. parts[k] = [i \in 1..w(k) |-> parts[k][i]] /\ groups[k] = [i \in 1..w(k) |-> groups[k][i]]
        BY <4>1, LenProperties DEF Strings
      <4> QED
        BY <4>2, <4>3
    <3>2. ASSUME \A k \in 1..q : parts[k] = groups[k] PROVE F = bytes
      <4>1. ASSUME NEW p \in 1..n PROVE F[p] = bytes[p]
        <5>1. PICK k \in 1..q : \E i \in 1..w(k) : p = 3 * (k - 1) + i
          BY <2>9
        <5>2. PICK i \in 1..w(k) : p = 3 * (k - 1) + i
          BY <5>1
        <5>3. Len(parts[k]) = w(k) /\ parts[k][i] = groups[k][i]
          BY <2>6, <3>2
        <5> QED
          BY <2>4, <2>5, <5>2, <5>3
      <4> QED
        BY <2>3, <2>5, <2>7, <4>1, SeqEqual DEF Strings, n
    <3> QED
      BY <3>1, <3>2
  <2>11. ASSUME NEW k \in 1..q PROVE parts[k] = groups[k] <=> ~Spoiled(groups[k], signed)
    <3> DEFINE g == groups[k]
    <3>1. IsGroup(g) /\ parts[k] = Kept(g, Temp(g, signed))
      BY <2>1, <2>2 DEF kept
    <3> HIDE DEF g
    <3>2. Kept(g, Temp(g, signed)) = g <=> ~Spoiled(g, signed)
      BY <3>1, TempKeeps
    <3>3. parts[k] = g <=> ~Spoiled(g, signed)
      BY <3>1, <3>2
    <3> QED
      BY <3>3 DEF g
  <2>12. (signed /\ Borrows(bytes)) <=> \E k \in 1..q : Spoiled(groups[k], signed)
    <3>1. ASSUME signed, Borrows(bytes) PROVE \E k \in 1..q : Spoiled(groups[k], signed)
      <4>1. PICK p \in 1..n : bytes[p] >= 128 /\ p % 3 # 1
        BY <1>1, <3>1 DEF Borrows, n
      <4>2. PICK k \in 1..q : \E i \in 1..w(k) : p = 3 * (k - 1) + i /\ i \in 1..3
        BY <2>9
      <4>3. PICK i \in 1..w(k) : p = 3 * (k - 1) + i /\ i \in 1..3
        BY <4>2
      <4>4. i # 1
        <5>1. k \in Nat \ {0}
          BY <2>1
        <5> QED
          BY <4>1, <4>3, <5>1, Neighbours
      <4>5. Len(groups[k]) = w(k) /\ groups[k][i] = bytes[p] /\ i \in Int /\ 1 <= i /\ i <= w(k)
        BY <2>4, <4>3
      <4>6. i \in 2..Len(groups[k]) /\ groups[k][i] >= 128
        <5>1. w(k) \in Int
          BY <2>6
        <5> QED
          BY ONLY <4>1, <4>4, <4>5, <5>1
      <4> QED
        BY <3>1, <4>6 DEF Spoiled
    <3>2. ASSUME NEW k \in 1..q, Spoiled(groups[k], signed) PROVE signed /\ Borrows(bytes)
      <4>1. PICK i \in 2..Len(groups[k]) : groups[k][i] >= 128
        BY <3>2 DEF Spoiled
      <4> DEFINE p == 3 * (k - 1) + i
      <4>2. i \in 1..w(k) /\ i \in 1..3 /\ i # 1 /\ k \in Nat \ {0}
        <5>1. Len(groups[k]) = w(k) /\ w(k) \in 1..3 /\ k \in Nat \ {0}
          BY <2>1, <2>4, <2>6
        <5> QED
          BY ONLY <5>1, i \in 2..Len(groups[k])
      <4>3. p \in 1..n /\ bytes[p] = groups[k][i]
        BY <2>4, <2>8, <4>2
      <4>4. p % 3 # 1
        BY <4>2, Neighbours
      <4> HIDE DEF p
      <4>5. bytes[p] >= 128 /\ p \in DOMAIN bytes
        BY <1>1, <4>1, <4>3 DEF n
      <4> QED
        BY <3>2, <4>4, <4>5 DEF Spoiled, Borrows
    <3> QED
      BY <3>1, <3>2
  <2>13. F = bytes <=> ~(signed /\ Borrows(bytes))
    BY <2>10, <2>11, <2>12
  <2> QED
    BY <2>1, <2>13
<1> HIDE DEF n, F, X
<1>4. Decode(X) = bytes <=> ~(signed /\ Borrows(bytes))
  BY <1>2, <1>3
<1> QED
  BY <1>4 DEF X

(* encode() and decode() lose nothing of a text of any length, except that *)
(* where char is signed they spoil every text that has a byte of 0x80 or   *)
(* more in the second or third place of a group, and no other.             *)
THEOREM NothingLostInBase64 == CodecSpec => []EncodeRoundTrips
<1> DEFINE Grown == subject = "bytes" => input \in Seq(0..255)
<1>1. CodecInit => Grown
  BY EmptySeq DEF CodecInit
<1>2. Grown /\ [Grow]_codecVars => Grown'
  <2> SUFFICES ASSUME Grown, [Grow]_codecVars, subject' = "bytes" PROVE input' \in Seq(0..255)
    OBVIOUS
  <2>1. CASE Grow
    <3>1. PICK symbol \in Alphabet[subject] : input' = Append(input, symbol)
      BY <2>1 DEF Grow
    <3>2. subject = "bytes" /\ "bytes" \in DOMAIN Alphabet
      BY <2>1 DEF Grow
    <3>3. symbol \in 0..255 /\ input \in Seq(0..255)
      BY <3>1, <3>2, CodecAssumption DEF CodecAssumption
    <3> QED
      BY <3>1, <3>3, AppendProperties
  <2>2. CASE UNCHANGED codecVars
    BY <2>2 DEF codecVars
  <2> QED
    BY <2>1, <2>2
<1>3. Grown => EncodeRoundTrips
  BY RoundTrip DEF EncodeRoundTrips
<1> QED
  BY <1>1, <1>2, <1>3, PTL DEF CodecSpec

-----------------------------------------------------------------------------
(* Decoding: the bits of a digit.                                          *)
LEMMA BitsOfDigit ==
  ASSUME NEW d \in 0..63
  PROVE  LET b(w) == (d \div w) % 2 IN
         /\ d = 32 * b(32) + 16 * b(16) + 8 * b(8) + 4 * b(4) + 2 * b(2) + b(1)
         /\ d \div 16 = 2 * b(32) + b(16)
         /\ d % 16 = 8 * b(8) + 4 * b(4) + 2 * b(2) + b(1)
         /\ d \div 4 = 8 * b(32) + 4 * b(16) + 2 * b(8) + b(4)
         /\ d % 4 = 2 * b(2) + b(1)
         /\ \A w \in {1, 2, 4, 8, 16, 32} : b(w) \in 0..1
<1> DEFINE b(w) == (d \div w) % 2
<1>1. ASSUME NEW w \in {1, 2, 4, 8, 16, 32}
      PROVE  d \div w \in Int /\ b(w) \in 0..1 /\ d \div w = 2 * (d \div (2 * w)) + b(w)
  <2> DEFINE x == d \div w
  <2>1. x \in Int /\ 2 \in Nat \ {0} /\ w \in Nat \ {0} /\ d \in Int
    BY Division
  <2>2. x \div 2 = d \div (w * 2)
    BY ONLY <2>1, Nested
  <2>3. w * 2 = 2 * w
    BY <2>1
  <2> HIDE DEF x
  <2>4. x = 2 * (x \div 2) + (x % 2) /\ x % 2 \in 0..(2 - 1)
    BY <2>1, Division
  <2> QED
    BY <2>1, <2>2, <2>3, <2>4 DEF x
<1>2. d \div 1 = d /\ d \div 64 = 0
  <2>1. d = 1 * d + 0 /\ 0 \in 0..(1 - 1) /\ d \in Int /\ 1 \in Nat \ {0}
    OBVIOUS
  <2>2. d = 64 * 0 + d /\ d \in 0..(64 - 1) /\ d \in Int /\ 64 \in Nat \ {0} /\ 0 \in Int
    OBVIOUS
  <2>3. d \div 1 = d
    BY <2>1, DivisionUnique
  <2>4. d \div 64 = 0
    BY <2>2, DivisionUnique
  <2> QED
    BY <2>3, <2>4
<1>3. /\ d \div 1 = 2 * (d \div 2) + b(1) /\ d \div 2 = 2 * (d \div 4) + b(2)
      /\ d \div 4 = 2 * (d \div 8) + b(4) /\ d \div 8 = 2 * (d \div 16) + b(8)
      /\ d \div 16 = 2 * (d \div 32) + b(16) /\ d \div 32 = 2 * (d \div 64) + b(32)
  <2>1. 2 * 1 = 2 /\ 2 * 2 = 4 /\ 2 * 4 = 8 /\ 2 * 8 = 16 /\ 2 * 16 = 32 /\ 2 * 32 = 64
    OBVIOUS
  <2> HIDE DEF b
  <2> QED
    BY <1>1, <2>1
<1>4. d = 16 * (d \div 16) + (d % 16) /\ d = 4 * (d \div 4) + (d % 4) /\ d % 16 \in Int /\ d % 4 \in Int
  <2>1. 16 \in Nat \ {0} /\ 4 \in Nat \ {0} /\ d \in Int
    OBVIOUS
  <2> QED
    BY <2>1, Division
<1>5. \A w \in {1, 2, 4, 8, 16, 32} : b(w) \in 0..1 /\ d \div w \in Int
  BY <1>1
<1> DEFINE x2 == d \div 2
           x4 == d \div 4
           x8 == d \div 8
           x16 == d \div 16
           x32 == d \div 32
           r16 == d % 16
           r4 == d % 4
           b1 == b(1)
           b2 == b(2)
           b4 == b(4)
           b8 == b(8)
           b16 == b(16)
           b32 == b(32)
<1>6. /\ d = 2 * x2 + b1 /\ x2 = 2 * x4 + b2 /\ x4 = 2 * x8 + b4 /\ x8 = 2 * x16 + b8
      /\ x16 = 2 * x32 + b16 /\ x32 = b32
      /\ d = 16 * x16 + r16 /\ d = 4 * x4 + r4
      /\ x2 \in Int /\ x4 \in Int /\ x8 \in Int /\ x16 \in Int /\ x32 \in Int /\ r16 \in Int /\ r4 \in Int
      /\ b1 \in 0..1 /\ b2 \in 0..1 /\ b4 \in 0..1 /\ b8 \in 0..1 /\ b16 \in 0..1 /\ b32 \in 0..1
  <2> HIDE DEF b
  <2>1. /\ d = 2 * x2 + b1 /\ x2 = 2 * x4 + b2 /\ x4 = 2 * x8 + b4 /\ x8 = 2 * x16 + b8
        /\ x16 = 2 * x32 + b16
    BY <1>2, <1>3
  <2>2. x32 = b32
    BY <1>2, <1>3, <1>5
  <2> QED
    BY <1>4, <1>5, <2>1, <2>2
<1> HIDE DEF x2, x4, x8, x16, x32, r16, r4, b1, b2, b4, b8, b16, b32
<1>7. /\ d = 32 * b32 + 16 * b16 + 8 * b8 + 4 * b4 + 2 * b2 + b1
      /\ x16 = 2 * b32 + b16
      /\ r16 = 8 * b8 + 4 * b4 + 2 * b2 + b1
      /\ x4 = 8 * b32 + 4 * b16 + 2 * b8 + b4
      /\ r4 = 2 * b2 + b1
  BY <1>6
<1> QED
  BY <1>5, <1>7, Zenon DEF b1, b2, b4, b8, b16, b32, x16, x4, r16, r4, b

(* A bit of a text is one of the digits of a group.                        *)
LEMMA BitAt ==
  ASSUME NEW text, NEW q \in Nat, NEW a \in 0..3, NEW r \in 0..5
  PROVE  Bit(text, 24 * q + (6 * a + r)) = (DigitOf(text[4 * q + a + 1]) \div <<32, 16, 8, 4, 2, 1>>[r + 1]) % 2
<1> DEFINE k == 24 * q + (6 * a + r)
           p == 4 * q + a
<1>1. k = 6 * p + r /\ k \in Int /\ p \in Int /\ r \in 0..(6 - 1) /\ 6 \in Nat \ {0}
  OBVIOUS
<1> HIDE DEF k, p
<1>2. k \div 6 = p /\ k % 6 = r
  BY <1>1, DivisionUnique
<1>3. Bit(text, k) = (DigitOf(text[(k \div 6) + 1]) \div <<32, 16, 8, 4, 2, 1>>[(k % 6) + 1]) % 2
  BY DEF Bit
<1> QED
  BY <1>2, <1>3 DEF k, p

(* What the bits of a group's digits spell.                                *)
Octet(d, i) ==
    CASE i = 1 -> 4 * d[1] + (d[2] \div 16)
      [] i = 2 -> 16 * (d[2] % 16) + (d[3] \div 4)
      [] i = 3 -> 64 * (d[3] % 4) + d[4]

LEMMA ByteIsOctet ==
  ASSUME NEW text, NEW q \in Nat, NEW d,
         NEW i \in 1..3, \A j \in 1..i + 1 : d[j] = DigitOf(text[4 * q + j]) /\ d[j] \in 0..63
  PROVE  ByteAt(text, 3 * q + i - 1) = Octet(d, i)
<1> DEFINE w(j, v) == (d[j] \div v) % 2
           bit(k) == Bit(text, 8 * (3 * q + i - 1) + k)
           W == <<32, 16, 8, 4, 2, 1>>
<1>1. ByteAt(text, 3 * q + i - 1) = 128 * bit(0) + 64 * bit(1) + 32 * bit(2) + 16 * bit(3)
                                      + 8 * bit(4) + 4 * bit(5) + 2 * bit(6) + bit(7)
  BY DEF ByteAt
<1>2. ASSUME NEW k \in 0..7, NEW a \in 0..3, NEW r \in 0..5, 8 * (i - 1) + k = 6 * a + r, a <= i
      PROVE  bit(k) = w(a + 1, W[r + 1])
  <2>1. 8 * (3 * q + i - 1) + k = 24 * q + (6 * a + r)
    BY <1>2
  <2>2. d[a + 1] = DigitOf(text[4 * q + a + 1])
    <3>1. a + 1 \in 1..i + 1 /\ 4 * q + (a + 1) = 4 * q + a + 1
      BY <1>2
    <3> QED
      BY <3>1
  <2> QED
    BY <2>1, <2>2, BitAt
<1>3. ASSUME NEW j \in 1..i + 1
      PROVE  /\ d[j] \in 0..63
             /\ d[j] = 32 * w(j, 32) + 16 * w(j, 16) + 8 * w(j, 8) + 4 * w(j, 4) + 2 * w(j, 2) + w(j, 1)
             /\ d[j] \div 16 = 2 * w(j, 32) + w(j, 16)
             /\ d[j] % 16 = 8 * w(j, 8) + 4 * w(j, 4) + 2 * w(j, 2) + w(j, 1)
             /\ d[j] \div 4 = 8 * w(j, 32) + 4 * w(j, 16) + 2 * w(j, 8) + w(j, 4)
             /\ d[j] % 4 = 2 * w(j, 2) + w(j, 1)
             /\ \A v \in {1, 2, 4, 8, 16, 32} : w(j, v) \in 0..1
  <2>1. d[j] \in 0..63
    OBVIOUS
  <2> DEFINE e == d[j]
  <2> HIDE DEF e
  <2>2. LET b(v) == (e \div v) % 2 IN
         /\ e = 32 * b(32) + 16 * b(16) + 8 * b(8) + 4 * b(4) + 2 * b(2) + b(1)
         /\ e \div 16 = 2 * b(32) + b(16)
         /\ e % 16 = 8 * b(8) + 4 * b(4) + 2 * b(2) + b(1)
         /\ e \div 4 = 8 * b(32) + 4 * b(16) + 2 * b(8) + b(4)
         /\ e % 4 = 2 * b(2) + b(1)
         /\ \A v \in {1, 2, 4, 8, 16, 32} : b(v) \in 0..1
    <3>1. e \in 0..63
      BY <2>1 DEF e
    <3> QED
      BY ONLY <3>1, BitsOfDigit
  <2> QED
    BY <2>1, <2>2, Zenon DEF e
<1>4. W[1] = 32 /\ W[2] = 16 /\ W[3] = 8 /\ W[4] = 4 /\ W[5] = 2 /\ W[6] = 1
  OBVIOUS
<1> HIDE DEF W
<1>5. CASE i = 1
  <2>1. /\ bit(0) = w(1, 32) /\ bit(1) = w(1, 16) /\ bit(2) = w(1, 8) /\ bit(3) = w(1, 4)
        /\ bit(4) = w(1, 2) /\ bit(5) = w(1, 1) /\ bit(6) = w(2, 32) /\ bit(7) = w(2, 16)
    <3>1. bit(0) = w(0 + 1, W[0 + 1]) /\ bit(1) = w(0 + 1, W[1 + 1]) /\ bit(2) = w(0 + 1, W[2 + 1])
          /\ bit(3) = w(0 + 1, W[3 + 1]) /\ bit(4) = w(0 + 1, W[4 + 1]) /\ bit(5) = w(0 + 1, W[5 + 1])
          /\ bit(6) = w(1 + 1, W[0 + 1]) /\ bit(7) = w(1 + 1, W[1 + 1])
      <4> HIDE DEF bit, w
      <4> QED
        BY <1>2, <1>5
    <3> HIDE DEF bit, w
    <3> QED
      BY <1>4, <3>1
  <2>2. Octet(d, i) = 4 * d[1] + (d[2] \div 16)
    BY <1>5 DEF Octet
  <2>3. 1 \in 1..i + 1 /\ 2 \in 1..i + 1
    BY <1>5
  <2> HIDE DEF bit
  <2>4. /\ d[1] = 32 * w(1, 32) + 16 * w(1, 16) + 8 * w(1, 8) + 4 * w(1, 4) + 2 * w(1, 2) + w(1, 1)
        /\ d[2] \div 16 = 2 * w(2, 32) + w(2, 16)
        /\ w(1, 32) \in 0..1 /\ w(1, 16) \in 0..1 /\ w(1, 8) \in 0..1 /\ w(1, 4) \in 0..1
        /\ w(1, 2) \in 0..1 /\ w(1, 1) \in 0..1 /\ w(2, 32) \in 0..1 /\ w(2, 16) \in 0..1
    <3> HIDE DEF w
    <3> QED
      BY <1>3, <2>3
  <2> HIDE DEF w
  <2> QED
    BY ONLY <1>1, <2>1, <2>2, <2>4
<1>6. CASE i = 2
  <2>1. /\ bit(0) = w(2, 8) /\ bit(1) = w(2, 4) /\ bit(2) = w(2, 2) /\ bit(3) = w(2, 1)
        /\ bit(4) = w(3, 32) /\ bit(5) = w(3, 16) /\ bit(6) = w(3, 8) /\ bit(7) = w(3, 4)
    <3>1. bit(0) = w(1 + 1, W[2 + 1]) /\ bit(1) = w(1 + 1, W[3 + 1]) /\ bit(2) = w(1 + 1, W[4 + 1])
          /\ bit(3) = w(1 + 1, W[5 + 1]) /\ bit(4) = w(2 + 1, W[0 + 1]) /\ bit(5) = w(2 + 1, W[1 + 1])
          /\ bit(6) = w(2 + 1, W[2 + 1]) /\ bit(7) = w(2 + 1, W[3 + 1])
      <4> HIDE DEF bit, w
      <4> QED
        BY <1>2, <1>6
    <3> HIDE DEF bit, w
    <3> QED
      BY <1>4, <3>1
  <2>2. Octet(d, i) = 16 * (d[2] % 16) + (d[3] \div 4)
    BY <1>6 DEF Octet
  <2>3. 2 \in 1..i + 1 /\ 3 \in 1..i + 1
    BY <1>6
  <2> HIDE DEF bit
  <2>4. /\ d[2] % 16 = 8 * w(2, 8) + 4 * w(2, 4) + 2 * w(2, 2) + w(2, 1)
        /\ d[3] \div 4 = 8 * w(3, 32) + 4 * w(3, 16) + 2 * w(3, 8) + w(3, 4)
        /\ w(2, 8) \in 0..1 /\ w(2, 4) \in 0..1 /\ w(2, 2) \in 0..1 /\ w(2, 1) \in 0..1
        /\ w(3, 32) \in 0..1 /\ w(3, 16) \in 0..1 /\ w(3, 8) \in 0..1 /\ w(3, 4) \in 0..1
    <3> HIDE DEF w
    <3> QED
      BY <1>3, <2>3
  <2> HIDE DEF w
  <2> QED
    BY ONLY <1>1, <2>1, <2>2, <2>4
<1>7. CASE i = 3
  <2>1. /\ bit(0) = w(3, 2) /\ bit(1) = w(3, 1) /\ bit(2) = w(4, 32) /\ bit(3) = w(4, 16)
        /\ bit(4) = w(4, 8) /\ bit(5) = w(4, 4) /\ bit(6) = w(4, 2) /\ bit(7) = w(4, 1)
    <3>1. bit(0) = w(2 + 1, W[4 + 1]) /\ bit(1) = w(2 + 1, W[5 + 1]) /\ bit(2) = w(3 + 1, W[0 + 1])
          /\ bit(3) = w(3 + 1, W[1 + 1]) /\ bit(4) = w(3 + 1, W[2 + 1]) /\ bit(5) = w(3 + 1, W[3 + 1])
          /\ bit(6) = w(3 + 1, W[4 + 1]) /\ bit(7) = w(3 + 1, W[5 + 1])
      <4> HIDE DEF bit, w
      <4> QED
        BY <1>2, <1>7
    <3> HIDE DEF bit, w
    <3> QED
      BY <1>4, <3>1
  <2>2. Octet(d, i) = 64 * (d[3] % 4) + d[4]
    BY <1>7 DEF Octet
  <2>3. 3 \in 1..i + 1 /\ 4 \in 1..i + 1
    BY <1>7
  <2> HIDE DEF bit
  <2>4. /\ d[3] % 4 = 2 * w(3, 2) + w(3, 1)
        /\ d[4] = 32 * w(4, 32) + 16 * w(4, 16) + 8 * w(4, 8) + 4 * w(4, 4) + 2 * w(4, 2) + w(4, 1)
        /\ w(3, 2) \in 0..1 /\ w(3, 1) \in 0..1 /\ w(4, 32) \in 0..1 /\ w(4, 16) \in 0..1
        /\ w(4, 8) \in 0..1 /\ w(4, 4) \in 0..1 /\ w(4, 2) \in 0..1 /\ w(4, 1) \in 0..1
    <3> HIDE DEF w
    <3> QED
      BY <1>3, <2>3
  <2> HIDE DEF w
  <2> QED
    BY ONLY <1>1, <2>1, <2>2, <2>4
<1> QED
  BY <1>5, <1>6, <1>7


(* A group is decoded if all of it are digits, or if it is the last one    *)
(* and the first character that is none is a '=' in one of the last two    *)
(* places.                                                                 *)
DigitsIn(g) == [i \in 1..4 |-> DigitOf(g[i])]

Fits(g, p) ==
    /\ \A i \in 1..4 - p : DigitOf(g[i]) # NoDigit
    /\ p # 0 => g[5 - p] = Pad

LEMMA DigitRange == \A c \in Nat : DigitOf(c) \in 0..63 \/ DigitOf(c) = NoDigit
<1>1. ASSUME NEW c \in Nat PROVE DigitOf(c) \in 0..63 \/ DigitOf(c) = NoDigit
  <2>1. CASE c \in 65..90
    BY <2>1 DEF DigitOf
  <2>2. CASE c \in 97..122
    BY <2>2 DEF DigitOf
  <2>3. CASE c \in 48..57
    BY <2>3 DEF DigitOf
  <2>4. CASE c = 43 \/ c = 47
    BY <2>4 DEF DigitOf
  <2>5. CASE ~(c \in 65..90 \/ c \in 97..122 \/ c \in 48..57 \/ c = 43 \/ c = 47)
    BY <2>5 DEF DigitOf
  <2> QED
    BY <2>1, <2>2, <2>3, <2>4, <2>5
<1> QED
  BY <1>1

LEMMA GroupDecoded ==
  ASSUME NEW g, NEW last \in BOOLEAN
  PROVE  /\ \A p \in 0..2 : Fits(g, p) /\ (p # 0 => last) => DecodeGroup(g, last) = Bytes(DigitsIn(g), 4 - p)
         /\ (\A p \in 0..2 : ~(Fits(g, p) /\ (p # 0 => last))) => DecodeGroup(g, last) = Error
<1> DEFINE d == DigitsIn(g)
           stop == SelectInSeq(d, LAMBDA x : x = NoDigit)
           I == {i \in 1..4 : d[i] = NoDigit}
<1>1. stop = IF I # {} THEN Min(I) ELSE 0
  <2>1. Len(d) = 4
    BY DEF DigitsIn
  <2> HIDE DEF d
  <2> QED
    BY <2>1 DEF SelectInSeq
<1>2. DecodeGroup(g, last) =
        CASE stop = 0                                   -> Bytes(d, 4)
          [] last /\ stop \in {3, 4} /\ g[stop] = Pad   -> Bytes(d, stop - 1)
          [] OTHER                                      -> Error
  BY DEF DecodeGroup, DigitsIn
<1>3. \A i \in 1..4 : d[i] = DigitOf(g[i])
  BY DEF DigitsIn
<1> HIDE DEF stop, d
<1>4. I # {} => Min(I) \in I /\ \A i \in I : Min(I) <= i
  <2>1. I \in SUBSET Nat
    OBVIOUS
  <2> HIDE DEF I
  <2> QED
    BY <2>1, Least
<1>5. /\ stop \in 0..4
      /\ stop = 0 => \A i \in 1..4 : d[i] # NoDigit
      /\ stop # 0 => d[stop] = NoDigit /\ \A i \in 1..stop - 1 : d[i] # NoDigit
  <2>1. I = {} => stop = 0 /\ \A i \in 1..4 : d[i] # NoDigit
    BY <1>1
  <2>2. I # {} => stop = Min(I) /\ stop \in 1..4 /\ d[stop] = NoDigit
    BY <1>1, <1>4
  <2>3. ASSUME I # {}, NEW i \in 1..stop - 1 PROVE d[i] # NoDigit
    <3>1. i \in 1..4 /\ ~(stop <= i)
      BY <2>2, <2>3
    <3>2. i \notin I
      BY <1>4, <2>2, <2>3, <3>1
    <3> QED
      BY <3>1, <3>2
  <2> QED
    BY <2>1, <2>2, <2>3
<1>6. DigitOf(Pad) = NoDigit
  BY DigitsAreRead
<1>7. ASSUME NEW p \in 0..2, Fits(g, p), p # 0 => last PROVE DecodeGroup(g, last) = Bytes(d, 4 - p)
  <2>1. \A i \in 1..4 - p : d[i] # NoDigit
    BY <1>3, <1>7 DEF Fits
  <2>2. CASE p = 0
    <3>1. stop = 0
      BY <1>5, <2>1, <2>2
    <3> QED
      BY <1>2, <2>2, <3>1
  <2>3. CASE p # 0
    <3>1. d[5 - p] = NoDigit /\ g[5 - p] = Pad
      BY <1>3, <1>6, <1>7, <2>3 DEF Fits
    <3>2. stop # 0
      BY <1>5, <3>1, <2>3
    <3>3. ~(stop > 5 - p) /\ ~(stop < 5 - p)
      BY <1>5, <2>1, <2>3, <3>1, <3>2
    <3>4. stop = 5 - p /\ stop \in {3, 4} /\ stop - 1 = 4 - p
      BY <1>5, <2>3, <3>3
    <3> QED
      BY <1>2, <1>7, <2>3, <3>1, <3>2, <3>4
  <2> QED
    BY <2>2, <2>3
<1>8. ASSUME \A p \in 0..2 : ~(Fits(g, p) /\ (p # 0 => last)) PROVE DecodeGroup(g, last) = Error
  <2>1. stop # 0
    <3>1. ASSUME stop = 0 PROVE FALSE
      <4>1. Fits(g, 0)
        BY <1>3, <1>5, <3>1 DEF Fits
      <4> QED
        BY <1>8, <4>1
    <3> QED
      BY <3>1
  <2>2. ~(last /\ stop \in {3, 4} /\ g[stop] = Pad)
    <3>1. ASSUME last, stop \in {3, 4}, g[stop] = Pad PROVE FALSE
      <4> DEFINE p == 5 - stop
      <4>1. p \in 0..2 /\ 5 - p = stop /\ 4 - p = stop - 1
        BY <3>1
      <4>2. \A i \in 1..stop - 1 : d[i] # NoDigit /\ i \in 1..4
        BY <1>5, <2>1
      <4> HIDE DEF p
      <4>3. Fits(g, p)
        BY <1>3, <3>1, <4>1, <4>2 DEF Fits
      <4> QED
        BY <1>8, <3>1, <4>1, <4>3
    <3> QED
      BY <3>1
  <2> QED
    BY <1>2, <2>1, <2>2
<1> QED
  BY <1>7, <1>8 DEF d

(* The bytes of a group are those that its bits spell.                     *)
LEMMA BytesAreOctets ==
  ASSUME NEW d, NEW p \in 0..2, \A i \in 1..4 - p : d[i] \in 0..63
  PROVE  /\ Bytes(d, 4 - p) = [i \in 1..3 - p |-> Octet(d, i)]
         /\ \A i \in 1..3 - p : Octet(d, i) \in Nat
<1> DEFINE q(j, v) == d[j] \div v
           r(j, v) == d[j] % v
<1>1. ASSUME NEW j \in 1..4 - p, NEW v \in {4, 16}
      PROVE  q(j, v) \in Int /\ r(j, v) \in 0..(v - 1) /\ d[j] = v * q(j, v) + r(j, v) /\ q(j, v) >= 0
  <2>1. d[j] \in Int /\ v \in Nat \ {0} /\ d[j] \in 0..63
    OBVIOUS
  <2> DEFINE e == d[j]
  <2> HIDE DEF e
  <2>2. e \div v \in Int /\ e % v \in 0..(v - 1) /\ e = (v * (e \div v)) + (e % v)
    BY <2>1, Division DEF e
  <2> DEFINE x == e \div v
             y == e % v
  <2> HIDE DEF x, y
  <2>3. x \in Int /\ y \in 0..(v - 1) /\ e = v * x + y /\ e \in 0..63 /\ v \in {4, 16}
    BY <2>1, <2>2 DEF x, y, e
  <2>4. x >= 0
    BY ONLY <2>3
  <2> QED
    BY <2>3, <2>4 DEF x, y, e
<1>2. d[1] \in 0..63 /\ d[2] \in 0..63 /\ (p < 2 => d[3] \in 0..63) /\ (p < 1 => d[4] \in 0..63)
  OBVIOUS
<1>3. /\ q(2, 16) \in Nat /\ r(2, 16) \in 0..15 /\ d[2] = 16 * q(2, 16) + r(2, 16)
      /\ p < 2 => q(3, 4) \in Nat /\ r(3, 4) \in 0..3 /\ d[3] = 4 * q(3, 4) + r(3, 4)
  <2>1. 2 \in 1..4 - p /\ (p < 2 => 3 \in 1..4 - p) /\ 16 - 1 = 15 /\ 4 - 1 = 3
    OBVIOUS
  <2> HIDE DEF q, r
  <2> QED
    BY <1>1, <2>1
<1> DEFINE d1 == d[1]
           d2 == d[2]
           d3 == d[3]
           d4 == d[4]
           x2 == q(2, 16)
           y2 == r(2, 16)
           x3 == q(3, 4)
           y3 == r(3, 4)
           t == (d1 * 64 + d2) * 64 + d3
<1>4. Octet(d, 1) = 4 * d1 + x2 /\ Octet(d, 2) = 16 * y2 + x3 /\ Octet(d, 3) = 64 * y3 + d4
  BY DEF Octet
<1> HIDE DEF q, r
<1>5. /\ d1 \in 0..63 /\ d2 \in 0..63 /\ x2 \in Nat /\ y2 \in 0..15 /\ d2 = 16 * x2 + y2
      /\ p < 2 => d3 \in 0..63 /\ x3 \in Nat /\ y3 \in 0..3 /\ d3 = 4 * x3 + y3
      /\ p < 1 => d4 \in 0..63
  BY <1>2, <1>3
<1> HIDE DEF d1, d2, d3, d4, x2, y2, x3, y3
<1>c. \A i \in 1..3 - p : Octet(d, i) \in Nat
  <2>1. \A i \in 1..3 - p : i = 1 \/ (i = 2 /\ p < 2) \/ (i = 3 /\ p < 1)
    OBVIOUS
  <2>2. 4 * d1 + x2 \in Nat /\ (p < 2 => 16 * y2 + x3 \in Nat) /\ (p < 1 => 64 * y3 + d4 \in Nat)
    BY ONLY <1>5, p \in 0..2
  <2> QED
    BY <1>4, <2>1, <2>2
<1>6. (d1 * 64 + d2) \div 16 = 4 * d1 + x2
  <2> DEFINE x == d1 * 64 + d2
             y == 4 * d1 + x2
  <2>1. x = 16 * y + y2 /\ x \in Int /\ y \in Int /\ y2 \in 0..(16 - 1) /\ 16 \in Nat \ {0}
    BY ONLY <1>5
  <2> HIDE DEF x, y
  <2>2. x \div 16 = y
    BY <2>1, DivisionUnique
  <2> QED
    BY <2>2 DEF x, y
<1>7. ASSUME p < 2
      PROVE  t \in Nat /\ t \div 1024 = 4 * d1 + x2 /\ (t \div 4) % 256 = 16 * y2 + x3
  <2> DEFINE y == 4 * d1 + x2
             z == 64 * y2 + d3
             v == 16 * y2 + x3
             u == 256 * y + v
  <2>1. /\ d1 \in 0..63 /\ d2 \in 0..63 /\ x2 \in Nat /\ y2 \in 0..15 /\ d2 = 16 * x2 + y2
        /\ d3 \in 0..63 /\ x3 \in Nat /\ y3 \in 0..3 /\ d3 = 4 * x3 + y3
    BY <1>5, <1>7
  <2>2. t = 1024 * y + z /\ t \in Nat /\ y \in Int /\ z \in 0..(1024 - 1) /\ 1024 \in Nat \ {0} /\ t \in Int
    BY ONLY <2>1
  <2>3. t = 4 * u + y3 /\ u \in Int /\ y3 \in 0..(4 - 1) /\ 4 \in Nat \ {0}
    BY ONLY <2>1
  <2>4. u = 256 * y + v /\ v \in 0..(256 - 1) /\ 256 \in Nat \ {0}
    BY ONLY <2>1
  <2> HIDE DEF t, y, z, u, v
  <2>5. t \div 1024 = y
    BY <2>2, DivisionUnique
  <2>6. t \div 4 = u
    BY <2>2, <2>3, DivisionUnique
  <2>7. u % 256 = v
    BY <2>2, <2>3, <2>4, DivisionUnique
  <2> QED
    BY <2>2, <2>5, <2>6, <2>7 DEF y, v
<1>8. ASSUME p = 0 PROVE (t * 64 + d4) % 256 = 64 * y3 + d4
  <2> DEFINE x == t * 64 + d4
             y == 1024 * d1 + 16 * d2 + x3
             z == 64 * y3 + d4
  <2>1. /\ d1 \in 0..63 /\ d2 \in 0..63 /\ d3 \in 0..63 /\ d4 \in 0..63
        /\ x3 \in Nat /\ y3 \in 0..3 /\ d3 = 4 * x3 + y3
    BY <1>5, <1>8
  <2>2. x = 256 * y + z /\ x \in Int /\ y \in Int /\ z \in 0..(256 - 1) /\ 256 \in Nat \ {0}
    BY ONLY <2>1
  <2> HIDE DEF x, y, z
  <2>3. x % 256 = z
    BY <2>2, DivisionUnique
  <2> QED
    BY <2>3 DEF x, z
<1> DEFINE O == [i \in 1..3 - p |-> Octet(d, i)]
<1>9. CASE p = 2
  <2>1. Bytes(d, 2) = <<(d1 * 64 + d2) \div 16>>
    BY DEF Bytes, d1, d2
  <2>2. O = <<Octet(d, 1)>>
    BY ONLY <1>9
  <2>3. Bytes(d, 2) = <<Octet(d, 1)>>
    BY <1>4, <1>6, <2>1
  <2> HIDE DEF O
  <2>4. Bytes(d, 4 - p) = Bytes(d, 2)
    BY <1>9
  <2> QED
    BY <1>c, <2>2, <2>3, <2>4 DEF O
<1>a. CASE p = 1
  <2>1. Bytes(d, 3) = <<t \div 1024, (t \div 4) % 256>>
    BY DEF Bytes, d1, d2, d3
  <2>2. O = <<Octet(d, 1), Octet(d, 2)>>
    BY ONLY <1>a
  <2>3. t \div 1024 = Octet(d, 1) /\ (t \div 4) % 256 = Octet(d, 2)
    BY <1>4, <1>7, <1>a
  <2> HIDE DEF t, O
  <2>4. Bytes(d, 3) = <<Octet(d, 1), Octet(d, 2)>>
    BY <2>1, <2>3
  <2>5. Bytes(d, 4 - p) = Bytes(d, 3)
    BY <1>a
  <2> QED
    BY <1>c, <2>2, <2>4, <2>5 DEF O
<1>b. CASE p = 0
  <2>1. Bytes(d, 4) = <<t \div 1024, (t \div 4) % 256, (t * 64 + d4) % 256>>
    BY DEF Bytes, d1, d2, d3, d4
  <2>2. O = <<Octet(d, 1), Octet(d, 2), Octet(d, 3)>>
    BY ONLY <1>b
  <2>3. t \div 1024 = Octet(d, 1) /\ (t \div 4) % 256 = Octet(d, 2) /\ (t * 64 + d4) % 256 = Octet(d, 3)
    BY <1>4, <1>7, <1>8, <1>b
  <2> HIDE DEF t, O
  <2>4. Bytes(d, 4) = <<Octet(d, 1), Octet(d, 2), Octet(d, 3)>>
    BY <2>1, <2>3
  <2>5. Bytes(d, 4 - p) = Bytes(d, 4)
    BY <1>b
  <2> QED
    BY <1>c, <2>2, <2>4, <2>5 DEF O
<1> QED
  BY <1>9, <1>a, <1>b

(* The text is cut into groups of four.                                    *)
LEMMA FourGroups ==
  ASSUME NEW x \in Strings, NEW q \in Nat \ {0}, Len(x) = 4 * q
  PROVE  /\ Groups(x, 4) \in Seq(Strings) /\ Len(Groups(x, 4)) = q /\ DOMAIN Groups(x, 4) = 1..q
         /\ \A k \in 1..q : \A i \in 1..4 : Groups(x, 4)[k][i] = x[4 * (k - 1) + i]
<1> DEFINE n == Len(x)
           m == 4
           G == Groups(x, m)
<1>1. n \in Nat \ {0} /\ m \in Nat \ {0} /\ q \in Int
  OBVIOUS
<1>2. q = (n + m - 1) \div m
  <2> DEFINE y == n + m - 1
             r == m - 1
  <2>1. y = m * q + r /\ y \in Int /\ r \in 0..(m - 1)
    OBVIOUS
  <2> HIDE DEF y, r, m
  <2> QED
    BY <1>1, <2>1, DivisionUnique DEF y
<1>3. \A k \in 1..q : Width(n, m, q, k) = 4
  <2>1. n - m * (q - 1) = 4
    OBVIOUS
  <2> QED
    BY <2>1 DEF Width
<1>4. /\ G \in Seq(Strings) /\ Len(G) = q
      /\ \A k \in 1..q : /\ Len(G[k]) = Width(n, m, q, k)
                         /\ \A i \in 1..Width(n, m, q, k) : G[k][i] = x[m * (k - 1) + i]
  <2>1. n # 0
    BY <1>1
  <2> HIDE DEF m
  <2> QED
    BY <1>1, <1>2, <2>1, GroupsAre DEF n
<1> HIDE DEF n
<1>5. \A k \in 1..q : \A i \in 1..4 : G[k][i] = x[m * (k - 1) + i]
  BY <1>3, <1>4
<1>6. DOMAIN G = 1..q
  BY <1>4
<1> QED
  BY <1>4, <1>5, <1>6

(* What decode() looks at: that digits reach to the end or to a '=' in one *)
(* of the last two places.                                                 *)
Ends(x, p) ==
    /\ \A i \in 1..Len(x) - p : DigitOf(x[i]) # NoDigit
    /\ p # 0 => x[Len(x) - p + 1] = Pad

LEMMA GroupsEnd ==
  ASSUME NEW x \in Strings, NEW q \in Nat \ {0}, Len(x) = 4 * q, NEW p \in 0..2
  PROVE  Ends(x, p) <=> \A k \in 1..q : Fits(Groups(x, 4)[k], IF k = q THEN p ELSE 0)
<1> DEFINE g == Groups(x, 4)
           n == Len(x)
           e(k) == IF k = q THEN p ELSE 0
<1>1. \A k \in 1..q : \A i \in 1..4 : g[k][i] = x[4 * (k - 1) + i]
  BY FourGroups
<1>2. n = 4 * q
  OBVIOUS
<1> HIDE DEF g, n
<1>3. ASSUME Ends(x, p), NEW k \in 1..q PROVE Fits(g[k], e(k))
  <2>1. ASSUME NEW i \in 1..4 - e(k) PROVE DigitOf(g[k][i]) # NoDigit
    <3>1. i \in 1..4 /\ 4 * (k - 1) + i \in 1..n - p
      <4>1. CASE k = q
        BY <1>2, <4>1
      <4>2. CASE k # q
        <5>1. k \in Int /\ q \in Int /\ k <= q - 1 /\ k >= 1 /\ i \in 1..4
          BY <4>2
        <5> QED
          BY ONLY <1>2, <5>1, p \in 0..2
      <4> QED
        BY <4>1, <4>2
    <3> QED
      BY <1>1, <1>3, <3>1 DEF Ends, n
  <2>2. ASSUME e(k) # 0 PROVE g[k][5 - e(k)] = Pad
    <3>1. k = q /\ p # 0 /\ e(k) = p
      BY <2>2
    <3>2. 5 - p \in 1..4 /\ 4 * (k - 1) + (5 - p) = n - p + 1
      BY <1>2, <3>1
    <3>3. g[k][5 - p] = x[n - p + 1]
      BY <1>1, <3>2
    <3> QED
      BY <1>3, <3>1, <3>3 DEF Ends, n
  <2> HIDE DEF e
  <2> QED
    BY <2>1, <2>2 DEF Fits
<1>4. ASSUME \A k \in 1..q : Fits(g[k], e(k)) PROVE Ends(x, p)
  <2>1. ASSUME NEW j \in 1..n - p PROVE DigitOf(x[j]) # NoDigit
    <3> DEFINE m == 4
    <3>1. m \in Nat \ {0} /\ q \in Nat \ {0} /\ n \in Nat \ {0} /\ n - m * (q - 1) \in 1..m /\ j \in 1..n
      BY <1>2
    <3>a. n - m * (q - 1) = 4
      BY <1>2
    <3> HIDE DEF m
    <3>2. Located(n, m, q, j)
      BY ONLY <3>1, PlacedIn
    <3>3. PICK k \in 1..q : \E i \in 1..Width(n, m, q, k) : j = m * (k - 1) + i
      BY ONLY <3>2 DEF Located
    <3>4. PICK i \in 1..Width(n, m, q, k) : j = m * (k - 1) + i
      BY ONLY <3>3
    <3>5. Width(n, m, q, k) = 4
      BY <3>a DEF Width, m
    <3>6. i \in 1..4 /\ j = 4 * (k - 1) + i
      BY <3>4, <3>5 DEF m
    <3>7. i \in 1..4 - e(k)
      <4>1. CASE k = q
        BY <1>2, <3>6, <4>1
      <4>2. CASE k # q
        BY <3>6, <4>2
      <4> QED
        BY <4>1, <4>2
    <3> HIDE DEF e
    <3>8. DigitOf(g[k][i]) # NoDigit
      BY <1>4, <3>7 DEF Fits
    <3> QED
      BY <1>1, <3>6, <3>8
  <2>2. ASSUME p # 0 PROVE x[n - p + 1] = Pad
    <3>1. q \in 1..q /\ e(q) = p
      OBVIOUS
    <3>2. 5 - p \in 1..4 /\ 4 * (q - 1) + (5 - p) = n - p + 1
      BY <1>2, <2>2
    <3>3. g[q][5 - p] = x[n - p + 1]
      BY <1>1, <3>1, <3>2
    <3>4. g[q][5 - p] = Pad
      <4> HIDE DEF e
      <4> QED
        BY <1>4, <2>2, <3>1 DEF Fits
    <3> QED
      BY <3>3, <3>4
  <2> QED
    BY <2>1, <2>2 DEF Ends, n
<1> QED
  BY <1>3, <1>4 DEF g

LEMMA Refused ==
  ASSUME NEW x \in Strings, NEW q \in Nat \ {0}, Len(x) = 4 * q, \A p \in 0..2 : ~Ends(x, p)
  PROVE  Decode(x) = Error
<1> DEFINE g == Groups(x, 4)
           parts == [k \in DOMAIN g |-> DecodeGroup(g[k], k = Len(g))]
           fits(k, p) == Fits(g[k], p) /\ (p # 0 => k = q)
<1>1. Len(g) = q /\ DOMAIN g = 1..q
  BY FourGroups
<1>2. \E k \in 1..q : \A p \in 0..2 : ~fits(k, p)
  <2>1. SUFFICES ASSUME \A k \in 1..q : \E p \in 0..2 : fits(k, p) PROVE FALSE
    OBVIOUS
  <2>2. q \in 1..q
    OBVIOUS
  <2>3. PICK p \in 0..2 : fits(q, p)
    BY <2>1, <2>2
  <2>4. ASSUME NEW k \in 1..q PROVE Fits(g[k], IF k = q THEN p ELSE 0)
    <3>1. PICK r \in 0..2 : fits(k, r)
      BY <2>1
    <3> QED
      BY <2>3, <3>1
  <2>5. Ends(x, p)
    BY <2>4, GroupsEnd
  <2> QED
    BY <2>5
<1>3. PICK k \in 1..q : \A p \in 0..2 : ~fits(k, p)
  BY <1>2
<1>4. DecodeGroup(g[k], k = q) = Error
  <2> DEFINE h == g[k]
             last == k = q
  <2>1. last \in BOOLEAN /\ \A p \in 0..2 : ~(Fits(h, p) /\ (p # 0 => last))
    BY <1>3
  <2> HIDE DEF h, last
  <2>2. DecodeGroup(h, last) = Error
    BY ONLY <2>1, GroupDecoded
  <2> QED
    BY <2>2 DEF h, last
<1>5. Error \in {parts[j] : j \in DOMAIN parts}
  <2>1. k \in DOMAIN parts /\ parts[k] = DecodeGroup(g[k], k = q)
    BY <1>1
  <2> HIDE DEF parts, g
  <2> QED
    BY <1>4, <2>1
<1>6. Decode(x) = IF Len(x) % 4 # 0 \/ Error \in {parts[j] : j \in DOMAIN parts} THEN Error ELSE FlattenSeq(parts)
  BY DEF Decode
<1> HIDE DEF parts
<1> QED
  BY <1>5, <1>6

LEMMA PartDecoded ==
  ASSUME NEW g, NEW last \in BOOLEAN, NEW p \in 0..2, Fits(g, p), p # 0 => last,
         \A i \in 1..4 : g[i] \in Nat
  PROVE  /\ DecodeGroup(g, last) = [i \in 1..3 - p |-> Octet(DigitsIn(g), i)]
         /\ DecodeGroup(g, last) \in Strings /\ Len(DecodeGroup(g, last)) = 3 - p
         /\ \A i \in 1..4 - p : DigitsIn(g)[i] = DigitOf(g[i]) /\ DigitsIn(g)[i] \in 0..63
         /\ DecodeGroup(g, last) # Error
<1> DEFINE d == DigitsIn(g)
           D == DecodeGroup(g, last)
<1>1. D = Bytes(d, 4 - p)
  BY GroupDecoded
<1>2. ASSUME NEW i \in 1..4 - p PROVE d[i] = DigitOf(g[i]) /\ d[i] \in 0..63
  <2>1. i \in 1..4 /\ d[i] = DigitOf(g[i])
    BY DEF DigitsIn
  <2>2. DigitOf(g[i]) # NoDigit /\ g[i] \in Nat
    BY <2>1 DEF Fits
  <2> HIDE DEF d
  <2> QED
    BY <2>1, <2>2, DigitRange
<1> HIDE DEF d, D
<1>3. /\ D = [i \in 1..3 - p |-> Octet(d, i)]
      /\ \A i \in 1..3 - p : Octet(d, i) \in Nat
  BY <1>1, <1>2, BytesAreOctets
<1> DEFINE w == 3 - p
           o(i) == Octet(d, i)
<1>4. w \in Nat /\ 1 \in 1..w /\ D = [i \in 1..w |-> o(i)] /\ \A i \in 1..w : o(i) \in Nat
  BY <1>3
<1> HIDE DEF w, o
<1>5. D \in Seq(Nat) /\ Len(D) = w /\ D[1] \in Nat
  BY ONLY <1>4
<1>6. D # Error
  <2>1. Error[1] = -1 /\ ~(-1 \in Nat)
    BY DEF Error
  <2> QED
    BY <1>5, <2>1
<1> QED
  BY <1>2, <1>3, <1>5, <1>6 DEF Strings, w, d, D

LEMMA Accepted ==
  ASSUME NEW x \in Strings, NEW q \in Nat \ {0}, Len(x) = 4 * q, NEW p \in 0..2, Ends(x, p),
         NEW text, \A i \in 1..Len(x) - p : text[i] = x[i]
  PROVE  Decode(x) = [j \in 1..3 * q - p |-> ByteAt(text, j - 1)]
<1> DEFINE g == Groups(x, 4)
           part(k) == DecodeGroup(g[k], k = q)
           parts == [k \in 1..q |-> part(k)]
           e(k) == IF k = q THEN p ELSE 0
           n == 4 * q - p
<1>1. /\ g \in Seq(Strings) /\ Len(g) = q /\ DOMAIN g = 1..q
      /\ \A k \in 1..q : \A i \in 1..4 : g[k][i] = x[4 * (k - 1) + i]
  BY FourGroups
<1>2. \A k \in 1..q : Fits(g[k], e(k))
  BY GroupsEnd
<1>3. \A i \in 1..n : text[i] = x[i]
  OBVIOUS
<1>4. Decode(x) = IF Len(x) % 4 # 0 \/ Error \in {parts[k] : k \in DOMAIN parts} THEN Error ELSE FlattenSeq(parts)
  <2> DEFINE D == [k \in DOMAIN g |-> DecodeGroup(g[k], k = Len(g))]
  <2>1. D = parts
    <3>1. Len(g) = q /\ DOMAIN g = 1..q
      BY <1>1
    <3> QED
      BY ONLY <3>1
  <2>2. Decode(x) = IF Len(x) % 4 # 0 \/ Error \in {D[k] : k \in DOMAIN D} THEN Error ELSE FlattenSeq(D)
    BY DEF Decode
  <2> HIDE DEF D, parts
  <2> QED
    BY <2>1, <2>2
<1>5. Len(x) % 4 = 0
  <2> DEFINE y == Len(x)
  <2>1. y = 4 * q + 0 /\ y \in Int /\ q \in Int /\ 0 \in 0..(4 - 1) /\ 4 \in Nat \ {0}
    OBVIOUS
  <2> HIDE DEF y
  <2>2. y % 4 = 0
    BY <2>1, DivisionUnique
  <2> QED
    BY <2>2 DEF y
<1>6. ASSUME NEW k \in 1..q, NEW i \in 1..4 PROVE 4 * (k - 1) + i \in 1..Len(x) /\ g[k][i] \in Nat
  <2>1. k \in Int /\ 1 <= k /\ k <= q /\ Len(x) = 4 * q /\ q \in Int
    OBVIOUS
  <2>2. 4 * (k - 1) + i \in 1..Len(x)
    BY ONLY <2>1, i \in 1..4
  <2>3. x[4 * (k - 1) + i] \in Nat
    BY <2>2, ElementOfSeq DEF Strings
  <2> QED
    BY <1>1, <2>2, <2>3
<1> HIDE DEF g
<1>7. ASSUME NEW k \in 1..q
      PROVE  /\ e(k) \in 0..2 /\ part(k) = [i \in 1..3 - e(k) |-> Octet(DigitsIn(g[k]), i)]
             /\ part(k) \in Strings /\ Len(part(k)) = 3 - e(k) /\ part(k) # Error
             /\ \A i \in 1..4 - e(k) : DigitsIn(g[k])[i] = DigitOf(g[k][i]) /\ DigitsIn(g[k])[i] \in 0..63
  <2> DEFINE h == g[k]
             last == k = q
             r == e(k)
  <2>1. r \in 0..2 /\ last \in BOOLEAN /\ (r # 0 => last) /\ Fits(h, r) /\ \A i \in 1..4 : h[i] \in Nat
    BY <1>2, <1>6
  <2> HIDE DEF h, last, r
  <2>2. /\ DecodeGroup(h, last) = [i \in 1..3 - r |-> Octet(DigitsIn(h), i)]
        /\ DecodeGroup(h, last) \in Strings /\ Len(DecodeGroup(h, last)) = 3 - r
        /\ \A i \in 1..4 - r : DigitsIn(h)[i] = DigitOf(h[i]) /\ DigitsIn(h)[i] \in 0..63
        /\ DecodeGroup(h, last) # Error
    BY ONLY <2>1, PartDecoded
  <2> QED
    BY <2>1, <2>2, Zenon DEF h, last, r
<1> HIDE DEF e, part
<1>8. /\ parts \in Seq(Strings) /\ Len(parts) = q /\ DOMAIN parts = 1..q
      /\ \A k \in 1..q : parts[k] = part(k) /\ Len(parts[k]) = 3 - e(k) /\ parts[k] # Error
  BY <1>7
<1> HIDE DEF parts
<1>9. \A k \in 1..q : e(k) \in 0..2 /\ (k < q => e(k) = 0) /\ e(q) = p
  BY <1>7 DEF e
<1>10. Decode(x) = FlattenSeq(parts)
  BY <1>4, <1>5, <1>8
<1> DEFINE F == FlattenSeq(parts)
<1>11. /\ F \in Strings /\ Len(F) = 3 * (q - 1) + (3 - p)
       /\ \A k \in 1..q : \A i \in 1..3 - e(k) : F[3 * (k - 1) + i] = part(k)[i]
  <2>1. Grouped(parts, 3)
    <3>1. \A k \in 1..q : 3 - e(k) \in 1..3 /\ (k < q => 3 - e(k) = 3)
      BY <1>9
    <3> QED
      BY <1>8, <3>1 DEF Grouped
  <2>2. 3 \in Nat \ {0} /\ q \in 1..q
    OBVIOUS
  <2>3. /\ F \in Strings /\ Len(F) = 3 * (Len(parts) - 1) + Len(parts[Len(parts)])
        /\ \A k \in 1..Len(parts) : \A i \in 1..Len(parts[k]) : F[3 * (k - 1) + i] = parts[k][i]
    BY <1>8, <2>1, <2>2, Flattened
  <2> HIDE DEF F
  <2>4. Len(F) = 3 * (q - 1) + (3 - p)
    BY <1>8, <1>9, <2>2, <2>3
  <2>5. ASSUME NEW k \in 1..q, NEW i \in 1..3 - e(k) PROVE F[3 * (k - 1) + i] = part(k)[i]
    <3>1. Len(parts) = q /\ parts[k] = part(k) /\ Len(parts[k]) = 3 - e(k)
      BY <1>8
    <3> QED
      BY <2>3, <3>1
  <2> QED
    BY <2>3, <2>4, <2>5
<1> HIDE DEF F
<1> DEFINE l == 3 * q - p
<1>12. Len(F) = l /\ l \in Nat \ {0}
  BY <1>11
<1>13. ASSUME NEW j \in 1..l PROVE F[j] = ByteAt(text, j - 1)
  <2> DEFINE m == 3
  <2>1. m \in Nat \ {0} /\ l \in Nat \ {0} /\ q \in Nat \ {0} /\ l - m * (q - 1) \in 1..m
    OBVIOUS
  <2>a. l - m * (q - 1) = 3 - p
    OBVIOUS
  <2> HIDE DEF m, l
  <2>2. Located(l, m, q, j)
    BY ONLY <2>1, j \in 1..l, PlacedIn
  <2>3. PICK k \in 1..q : \E i \in 1..Width(l, m, q, k) : j = m * (k - 1) + i
    BY ONLY <2>2 DEF Located
  <2>4. PICK i \in 1..Width(l, m, q, k) : j = m * (k - 1) + i
    BY ONLY <2>3
  <2>5. Width(l, m, q, k) = 3 - e(k)
    <3>1. CASE k < q
      BY <1>9, <3>1 DEF Width, m
    <3>2. CASE ~(k < q)
      <4>1. k = q
        BY <3>2
      <4> QED
        BY <1>9, <2>a, <4>1 DEF Width
    <3> QED
      BY <3>1, <3>2
  <2>6. i \in 1..3 - e(k) /\ i \in 1..3 /\ j = 3 * (k - 1) + i
    <3>1. e(k) \in 0..2
      BY <1>9
    <3> QED
      BY ONLY <2>4, <2>5, <3>1 DEF m
  <2>7. F[j] = Octet(DigitsIn(g[k]), i)
    BY <1>7, <1>11, <2>6
  <2> DEFINE d == DigitsIn(g[k])
             c == k - 1
  <2>8. ASSUME NEW v \in 1..i + 1 PROVE d[v] = DigitOf(text[4 * c + v]) /\ d[v] \in 0..63
    <3>1. e(k) \in 0..2 /\ (k < q => e(k) = 0) /\ (k = q => e(k) = p)
      BY <1>9
    <3>2. v \in 1..4 - e(k) /\ v \in 1..4
      BY ONLY <2>6, <3>1, v \in 1..i + 1
    <3>3. 4 * c + v \in 1..n
      <4>1. k \in Int /\ q \in Int /\ 1 <= k /\ k <= q /\ p \in 0..2
        OBVIOUS
      <4> QED
        BY ONLY <3>1, <3>2, <4>1
    <3>4. d[v] = DigitOf(g[k][v]) /\ d[v] \in 0..63
      BY <1>7, <3>2
    <3>5. g[k][v] = x[4 * c + v]
      BY <1>1, <3>2
    <3>6. text[4 * c + v] = x[4 * c + v]
      BY <1>3, <3>3
    <3> QED
      BY <3>4, <3>5, <3>6
  <2>9. c \in Nat /\ 3 * c + i - 1 = j - 1
    BY <2>6
  <2> HIDE DEF d, c
  <2>10. ByteAt(text, 3 * c + i - 1) = Octet(d, i)
    BY ONLY <2>6, <2>8, <2>9, ByteIsOctet
  <2> QED
    BY <2>7, <2>9, <2>10 DEF d
<1>14. F = [j \in 1..l |-> F[j]]
  BY <1>11, <1>12 DEF Strings
<1> DEFINE b(j) == ByteAt(text, j - 1)
<1>15. F = [j \in 1..l |-> b(j)]
  <2> HIDE DEF l
  <2>1. \A j \in 1..l : F[j] = b(j)
    BY <1>13
  <2> HIDE DEF b
  <2> QED
    BY <1>14, <2>1
<1> QED
  BY <1>10, <1>15 DEF F

(* A text can be read as RFC 4648 has it, once what follows a '=' in the   *)
(* last place but one is overwritten, if and only if decode() reads it;    *)
(* and then both look at the same digits.                                  *)
AsRead(x) == IF Sloppy(x) THEN Overwritten(x) ELSE x

LEMMA ReadAlike ==
  ASSUME NEW x \in Strings, NEW n \in Nat, n = Len(x), n > 1, n % 4 = 0
  PROVE  /\ Len(AsRead(x)) = n
         /\ \A p \in 0..2 : Padded(AsRead(x), p) => Ends(x, p) /\ \A i \in 1..n - p : AsRead(x)[i] = x[i]
         /\ (\E p \in 0..2 : Ends(x, p)) => \E p \in 0..2 : Padded(AsRead(x), p)
<1> DEFINE y == Overwritten(x)
<1>1. DOMAIN x = 1..n /\ x \in [1..n -> Nat] /\ n \in 1..n /\ n - 1 \in 1..n
  BY LenProperties DEF Strings
<1>2. y \in Seq(Nat) /\ Len(y) = n /\ DOMAIN y = 1..n /\ y[n] = Pad /\ \A i \in 1..n - 1 : y[i] = x[i]
  <2>1. y = [x EXCEPT ![n] = Pad] /\ Pad \in Nat
    BY DEF Overwritten, Pad
  <2>2. y \in [1..n -> Nat] /\ y[n] = Pad /\ \A i \in 1..n - 1 : y[i] = x[i]
    BY ONLY <1>1, <2>1
  <2> HIDE DEF y
  <2> QED
    BY <2>2
<1>3. DigitOf(Pad) = NoDigit
  BY DigitsAreRead
<1> HIDE DEF y
<1>4. ASSUME NEW z, DOMAIN z = 1..n, Len(z) = n, NEW p \in 0..2
      PROVE  Padded(z, p) <=> /\ p <= n
                              /\ \A i \in 1..n - p : DigitOf(z[i]) # NoDigit
                              /\ \A i \in 1..n : i > n - p => z[i] = Pad
  <2>1. \A i \in 1..n - p : i \in 1..n /\ ~(i > n - p)
    OBVIOUS
  <2>2. \A i \in 1..n : ~(i > n - p) => i \in 1..n - p
    OBVIOUS
  <2>3. Padded(z, p) <=> /\ p <= n
                         /\ \A i \in 1..n : IF i > n - p THEN z[i] = Pad ELSE DigitOf(z[i]) # NoDigit
    <3> DEFINE l == n
    <3>1. l % 4 = 0 /\ Len(z) = l /\ DOMAIN z = 1..l
      BY <1>4
    <3> HIDE DEF l
    <3>2. Padded(z, p) <=> /\ p <= l
                           /\ \A i \in 1..l : IF i > l - p THEN z[i] = Pad ELSE DigitOf(z[i]) # NoDigit
      BY ONLY <3>1 DEF Padded
    <3> QED
      BY <3>2 DEF l
  <2>4. (\A i \in 1..n : IF i > n - p THEN z[i] = Pad ELSE DigitOf(z[i]) # NoDigit)
          <=> /\ \A i \in 1..n - p : DigitOf(z[i]) # NoDigit
              /\ \A i \in 1..n : i > n - p => z[i] = Pad
    BY ONLY <2>1, <2>2
  <2> QED
    BY <2>3, <2>4
<1>5. Sloppy(x) <=> x[n] # Pad /\ x[n - 1] = Pad /\ Padded(y, 2)
  BY DEF Sloppy, y
<1>6. CASE Sloppy(x)
  <2>1. AsRead(x) = y
    BY <1>6 DEF AsRead, y
  <2>2. y[n - 1] = Pad
    BY <1>2, <1>5, <1>6
  <2>3. ASSUME NEW p \in 0..2, Padded(y, p) PROVE Ends(x, p) /\ \A i \in 1..n - p : y[i] = x[i]
    <3>1. \A i \in 1..n - p : DigitOf(y[i]) # NoDigit
      BY <1>2, <1>4, <2>3
    <3>2. ~(n - 1 \in 1..n - p)
      BY <1>3, <2>2, <3>1
    <3>3. p = 2
      BY <1>1, <3>2
    <3>4. \A i \in 1..n - p : i \in 1..n - 1
      BY <3>3
    <3>5. \A i \in 1..n - p : y[i] = x[i]
      BY <1>2, <3>4
    <3>6. x[n - p + 1] = Pad
      <4>1. n - p + 1 = n - 1
        BY <3>3
      <4> QED
        BY <1>5, <1>6, <4>1
    <3> QED
      BY <3>1, <3>5, <3>6 DEF Ends
  <2>4. Padded(y, 2) /\ 2 \in 0..2
    BY <1>5, <1>6
  <2> QED
    BY <1>2, <2>1, <2>3, <2>4
<1>7. CASE ~Sloppy(x)
  <2>1. AsRead(x) = x
    BY <1>7 DEF AsRead
  <2>2. ASSUME NEW p \in 0..2, Padded(x, p) PROVE Ends(x, p)
    <3>1. /\ p <= n /\ \A i \in 1..n - p : DigitOf(x[i]) # NoDigit
          /\ \A i \in 1..n : i > n - p => x[i] = Pad
      BY <1>1, <1>4, <2>2
    <3>2. p # 0 => n - p + 1 \in 1..n /\ n - p + 1 > n - p
      BY <3>1
    <3> QED
      BY <3>1, <3>2 DEF Ends
  <2>3. ASSUME NEW p \in 0..2, Ends(x, p) PROVE \E r \in 0..2 : Padded(x, r)
    <3>1. (\A i \in 1..n - p : DigitOf(x[i]) # NoDigit) /\ (p # 0 => x[n - p + 1] = Pad)
      BY <2>3 DEF Ends
    <3>2. CASE p = 0
      <4>1. \A i \in 1..n : ~(i > n - 0)
        OBVIOUS
      <4>2. Padded(x, 0)
        BY <1>1, <1>4, <3>1, <3>2, <4>1
      <4> QED
        BY <4>2
    <3>3. CASE p = 1
      <4>1. \A i \in 1..n : i > n - 1 => i = n
        OBVIOUS
      <4>2. x[n] = Pad
        <5>1. n - p + 1 = n
          BY <3>3
        <5> QED
          BY <3>1, <3>3, <5>1
      <4>3. Padded(x, 1)
        BY <1>1, <1>4, <3>1, <3>3, <4>1, <4>2
      <4> QED
        BY <4>3
    <3>4. CASE p = 2
      <4>1. \A i \in 1..n : i > n - 2 => i = n \/ i = n - 1
        OBVIOUS
      <4>2. x[n - 1] = Pad
        <5>1. n - p + 1 = n - 1
          BY <3>4
        <5> QED
          BY <3>1, <3>4, <5>1
      <4>3. x[n] = Pad
        <5>1. SUFFICES ASSUME x[n] # Pad PROVE Padded(y, 2)
          BY <1>5, <1>7, <4>2
        <5>2. \A i \in 1..n - 2 : i \in 1..n - 1
          OBVIOUS
        <5>3. \A i \in 1..n - 2 : DigitOf(y[i]) # NoDigit
          BY <1>2, <3>1, <3>4, <5>2
        <5>4. y[n - 1] = Pad
          BY <1>1, <1>2, <4>2
        <5>5. \A i \in 1..n : i > n - 2 => y[i] = Pad
          BY <1>2, <4>1, <5>4
        <5>6. 2 <= n /\ 2 \in 0..2
          OBVIOUS
        <5> QED
          BY <1>2, <1>4, <5>3, <5>5, <5>6
      <4>4. Padded(x, 2)
        <5>1. \A i \in 1..n - 2 : DigitOf(x[i]) # NoDigit
          BY <3>1, <3>4
        <5>2. \A i \in 1..n : i > n - 2 => x[i] = Pad
          BY <4>1, <4>2, <4>3
        <5>3. 2 <= n /\ 2 \in 0..2 /\ DOMAIN x = 1..n /\ Len(x) = n
          BY <1>1
        <5> QED
          BY <1>4, <5>1, <5>2, <5>3
      <4> QED
        BY <4>4
    <3> QED
      BY <3>2, <3>3, <3>4
  <2> QED
    BY <2>1, <2>2, <2>3
<1> QED
  BY <1>6, <1>7

LEMMA DecodedAsSpelled ==
  ASSUME NEW x \in Strings
  PROVE  /\ (\A p \in 0..2 : ~Padded(AsRead(x), p)) => Decode(x) = Error
         /\ \A p \in 0..2 : Padded(AsRead(x), p) => Decode(x) = Spelled(AsRead(x), p)
<1> DEFINE n == Len(x)
           text == AsRead(x)
<1>1. n \in Nat /\ 4 \in Nat \ {0}
  BY LenProperties DEF Strings
<1>2. n % 4 \in 0..(4 - 1) /\ n = 4 * (n \div 4) + (n % 4) /\ n \div 4 \in Int
  <2>1. n \in Int
    BY <1>1
  <2> HIDE DEF n
  <2> QED
    BY <1>1, <2>1, Division
<1>3. CASE n % 4 # 0
  <2>1. Decode(x) = Error
    BY <1>3 DEF Decode
  <2>2. Len(text) = n
    BY DEF AsRead, Overwritten
  <2>3. \A p \in 0..2 : ~Padded(text, p)
    <3> HIDE DEF text
    <3> QED
      BY <1>3, <2>2 DEF Padded
  <2> QED
    BY <2>1, <2>3
<1>4. CASE n = 0
  <2>1. x = <<>> /\ Decode(x) = <<>>
    <3>1. x = <<>>
      BY <1>4 DEF Strings
    <3> QED
      BY <3>1, EmptyDecodes
  <2>2. text = <<>>
    BY <2>1 DEF AsRead, Sloppy
  <2>3. Len(<<>>) = 0 /\ DOMAIN <<>> = {} /\ 0 % 4 = 0
    OBVIOUS
  <2>4. Padded(<<>>, 0) /\ \A p \in 0..2 : Padded(<<>>, p) => p = 0
    BY <2>3 DEF Padded
  <2>5. Spelled(<<>>, 0) = <<>>
    <3> DEFINE z == 6 * (0 - 0)
    <3>1. z = 8 * 0 + 0 /\ z \in Int /\ 0 \in 0..(8 - 1) /\ 8 \in Nat \ {0}
      OBVIOUS
    <3>2. Spelled(<<>>, 0) = [j \in 1..(z \div 8) |-> ByteAt(<<>>, j - 1)]
      BY <2>3 DEF Spelled
    <3> HIDE DEF z
    <3>3. z \div 8 = 0
      BY <3>1, DivisionUnique
    <3>4. 1..0 = {}
      OBVIOUS
    <3> QED
      BY <3>2, <3>3, <3>4
  <2>6. \A p \in 0..2 : Padded(text, p) => Decode(x) = Spelled(text, p)
    BY <2>1, <2>2, <2>4, <2>5
  <2>7. Padded(text, 0) /\ 0 \in 0..2
    BY <2>2, <2>4
  <2> QED
    BY <2>6, <2>7, Zenon DEF text
<1>5. CASE n % 4 = 0 /\ n # 0
  <2> DEFINE q == n \div 4
  <2>1. n = 4 * q /\ q \in Nat \ {0} /\ n > 1
    <3>1. n = 4 * q + 0 /\ q \in Int /\ n \in Nat /\ n # 0
      BY <1>1, <1>2, <1>5
    <3> HIDE DEF q, n
    <3> QED
      BY ONLY <3>1
  <2>2. /\ Len(text) = n
        /\ \A p \in 0..2 : Padded(text, p) => Ends(x, p) /\ \A i \in 1..n - p : text[i] = x[i]
        /\ (\E p \in 0..2 : Ends(x, p)) => \E p \in 0..2 : Padded(text, p)
    <3> DEFINE m == n
    <3>1. m \in Nat /\ m = Len(x) /\ m > 1 /\ m % 4 = 0
      BY <1>1, <1>5, <2>1
    <3> HIDE DEF m
    <3>2. /\ Len(AsRead(x)) = m
          /\ \A p \in 0..2 : Padded(AsRead(x), p) => Ends(x, p) /\ \A i \in 1..m - p : AsRead(x)[i] = x[i]
          /\ (\E p \in 0..2 : Ends(x, p)) => \E p \in 0..2 : Padded(AsRead(x), p)
      BY <3>1, ReadAlike
    <3> QED
      BY <3>2 DEF m
  <2> HIDE DEF text, q
  <2>3. ASSUME \A p \in 0..2 : ~Padded(text, p) PROVE Decode(x) = Error
    BY <2>1, <2>2, <2>3, Refused
  <2>4. ASSUME NEW p \in 0..2, Padded(text, p) PROVE Decode(x) = Spelled(text, p)
    <3>1. Decode(x) = [j \in 1..3 * q - p |-> ByteAt(text, j - 1)]
      BY <2>1, <2>2, <2>4, Accepted
    <3>2. (6 * (n - p)) \div 8 = 3 * q - p
      <4> DEFINE z == 6 * (n - p)
                 l == 3 * q - p
                 r == 2 * p
      <4>1. z = 8 * l + r /\ z \in Int /\ l \in Int /\ r \in 0..(8 - 1) /\ 8 \in Nat \ {0}
        BY <2>1
      <4> HIDE DEF z, l, r
      <4>2. z \div 8 = l
        BY <4>1, DivisionUnique
      <4> QED
        BY <4>2 DEF z, l
    <3>3. Spelled(text, p) = [j \in 1..((6 * (n - p)) \div 8) |-> ByteAt(text, j - 1)]
      BY <2>2 DEF Spelled
    <3> QED
      BY <3>1, <3>2, <3>3
  <2> QED
    BY <2>3, <2>4 DEF text
<1> QED
  BY <1>3, <1>4, <1>5

(* decode() yields the bytes that the digits of a text spell, and throws   *)
(* exactly if its length, a character or its padding is wrong, whatever    *)
(* the length of the text.                                                 *)
THEOREM DecodesWhatIsSpelled == CodecSpec => []DecodesAsWritten
<1> DEFINE Grown == subject = "text" => input \in Seq(0..255)
<1>1. CodecInit => Grown
  BY EmptySeq DEF CodecInit
<1>2. Grown /\ [Grow]_codecVars => Grown'
  <2> SUFFICES ASSUME Grown, [Grow]_codecVars, subject' = "text" PROVE input' \in Seq(0..255)
    OBVIOUS
  <2>1. CASE Grow
    <3>1. PICK symbol \in Alphabet[subject] : input' = Append(input, symbol)
      BY <2>1 DEF Grow
    <3>2. subject = "text" /\ "text" \in DOMAIN Alphabet
      BY <2>1 DEF Grow
    <3>3. symbol \in 0..255 /\ input \in Seq(0..255)
      BY <3>1, <3>2, CodecAssumption DEF CodecAssumption
    <3> QED
      BY <3>1, <3>3, AppendProperties
  <2>2. CASE UNCHANGED codecVars
    BY <2>2 DEF codecVars
  <2> QED
    BY <2>1, <2>2
<1>3. Grown => DecodesAsWritten
  <2> SUFFICES ASSUME Grown, subject = "text" PROVE DecodesAsWritten
    BY DEF DecodesAsWritten
  <2>1. input \in Strings
    <3> DEFINE O == 0..255
    <3>1. input \in Seq(O) /\ O \subseteq Nat
      OBVIOUS
    <3> HIDE DEF O
    <3>2. Len(input) \in Nat /\ input \in [1..Len(input) -> O]
      BY ONLY <3>1, LenProperties
    <3>3. input \in [1..Len(input) -> Nat]
      BY ONLY <3>1, <3>2
    <3>4. input \in Seq(Nat)
      BY ONLY <3>2, <3>3
    <3> QED
      BY <3>4 DEF Strings
  <2> DEFINE text == IF Sloppy(input) THEN Overwritten(input) ELSE input
             fits == {pads \in 0..2 : Padded(text, pads)}
  <2>2. text = AsRead(input)
    BY DEF AsRead
  <2>3. /\ fits = {} => Decode(input) = Error
        /\ \A p \in fits : Decode(input) = Spelled(text, p)
    <3> HIDE DEF text
    <3> QED
      BY <2>1, <2>2, DecodedAsSpelled
  <2>4. IF fits = {} THEN Decode(input) = Error ELSE \A p \in fits : Decode(input) = Spelled(text, p)
    <3> HIDE DEF fits, text
    <3> QED
      BY <2>3
  <2> QED
    BY <2>4 DEF DecodesAsWritten
<1> QED
  BY <1>1, <1>2, <1>3, PTL DEF CodecSpec


-----------------------------------------------------------------------------
(* Texts of any characters, and their parts.                               *)
LEMMA Slice ==
  ASSUME NEW C, NEW t \in Seq(C), NEW a \in Nat \ {0}, NEW b \in Int, a - 1 <= b, b <= Len(t)
  PROVE  /\ SubSeq(t, a, b) \in Seq(C) /\ Len(SubSeq(t, a, b)) = b - a + 1
         /\ \A i \in 1..b - a + 1 : SubSeq(t, a, b)[i] = t[a + i - 1] /\ a + i - 1 \in 1..Len(t)
<1>1. Len(t) \in Nat
  BY LenProperties
<1>2. ASSUME NEW k \in a..b PROVE t[k] \in C
  <2>1. k \in 1..Len(t)
    BY <1>1
  <2> QED
    BY <2>1, ElementOfSeq
<1>3. /\ SubSeq(t, a, b) \in Seq(C)
      /\ Len(SubSeq(t, a, b)) = IF a <= b THEN b - a + 1 ELSE 0
      /\ \A i \in 1..b - a + 1 : SubSeq(t, a, b)[i] = t[a + i - 1]
  BY <1>2, SubSeqProperties
<1>4. \A i \in 1..b - a + 1 : a + i - 1 \in 1..Len(t)
  BY <1>1
<1>5. Len(SubSeq(t, a, b)) = b - a + 1
  BY <1>3
<1> QED
  BY <1>3, <1>4, <1>5

LEMMA SliceOfSlice ==
  ASSUME NEW C, NEW t \in Seq(C), NEW a \in Nat \ {0}, a <= Len(t) + 1,
         NEW i \in Nat \ {0}, NEW j \in Int, i - 1 <= j, a + j - 1 <= Len(t)
  PROVE  SubSeq(From(t, a), i, j) = SubSeq(t, a + i - 1, a + j - 1)
<1> DEFINE s == From(t, a)
           x == SubSeq(s, i, j)
           l == a + i - 1
           r == a + j - 1
           y == SubSeq(t, l, r)
<1>1. Len(t) \in Nat
  BY LenProperties
<1>2. /\ s \in Seq(C) /\ Len(s) = Len(t) - a + 1
      /\ \A k \in 1..Len(t) - a + 1 : s[k] = t[a + k - 1]
  BY <1>1, Slice DEF From
<1> HIDE DEF s
<1>3. x \in Seq(C) /\ Len(x) = j - i + 1 /\ \A k \in 1..j - i + 1 : x[k] = s[i + k - 1] /\ i + k - 1 \in 1..Len(s)
  BY <1>1, <1>2, Slice
<1>4. y \in Seq(C) /\ Len(y) = r - l + 1 /\ \A k \in 1..r - l + 1 : y[k] = t[l + k - 1]
  <2>1. l \in Nat \ {0} /\ r \in Int /\ l - 1 <= r /\ r <= Len(t)
    OBVIOUS
  <2> HIDE DEF l, r
  <2> QED
    BY <2>1, Slice
<1>5. r - l + 1 = j - i + 1
  OBVIOUS
<1> HIDE DEF x, y
<1>6. ASSUME NEW k \in 1..j - i + 1 PROVE x[k] = y[k]
  <2>1. i + k - 1 \in 1..Len(t) - a + 1 /\ a + (i + k - 1) - 1 = l + k - 1
    BY <1>2, <1>3
  <2> HIDE DEF l, r
  <2>2. x[k] = t[l + k - 1]
    BY <1>2, <1>3, <2>1
  <2>3. y[k] = t[l + k - 1]
    BY <1>4, <1>5
  <2> QED
    BY <2>2, <2>3
<1> HIDE DEF l, r
<1>7. x = y
  BY <1>3, <1>4, <1>5, <1>6, SeqEqual
<1> QED
  BY <1>7 DEF x, y, s, l, r

LEMMA Tails ==
  ASSUME NEW C, NEW t \in Seq(C), NEW a \in 1..Len(t) + 1, NEW i \in 1..Len(t) - a + 2
  PROVE  From(From(t, a), i) = From(t, a + i - 1)
<1>1. Len(t) \in Nat
  BY LenProperties
<1>2. Len(From(t, a)) = Len(t) - a + 1
  BY <1>1, Slice DEF From
<1> DEFINE j == Len(t) - a + 1
<1>3. a + j - 1 = Len(t) /\ j \in Int /\ i - 1 <= j
  BY <1>1
<1>4. SubSeq(From(t, a), i, j) = SubSeq(t, a + i - 1, a + j - 1)
  <2> HIDE DEF j
  <2> QED
    BY <1>1, <1>3, SliceOfSlice
<1> QED
  BY <1>2, <1>3, <1>4 DEF From

LEMMA Whole == ASSUME NEW C, NEW t \in Seq(C) PROVE From(t, 1) = t
<1>1. Len(t) \in Nat
  BY LenProperties
<1>2. From(t, 1) \in Seq(C) /\ Len(From(t, 1)) = Len(t) /\ \A i \in 1..Len(t) : From(t, 1)[i] = t[i]
  BY <1>1, Slice DEF From
<1> QED
  BY <1>2, SeqEqual

LEMMA Two ==
  ASSUME NEW C, NEW u \in Seq(C), NEW v \in Seq(C)
  PROVE  /\ u \o v \in Seq(C) /\ Len(u \o v) = Len(u) + Len(v) /\ Len(u) \in Nat /\ Len(v) \in Nat
         /\ \A i \in 1..Len(u) : (u \o v)[i] = u[i]
         /\ \A i \in 1..Len(v) : (u \o v)[Len(u) + i] = v[i]
         /\ SubSeq(u \o v, 1, Len(u)) = u
         /\ \A i \in 1..Len(v) + 1 : From(u \o v, Len(u) + i) = From(v, i)
<1> DEFINE w == u \o v
<1>1. Len(u) \in Nat /\ Len(v) \in Nat
  BY LenProperties
<1>2. /\ w \in Seq(C) /\ Len(w) = Len(u) + Len(v)
      /\ \A j \in 1..Len(u) + Len(v) : w[j] = IF j <= Len(u) THEN u[j] ELSE v[j - Len(u)]
  BY <1>1, ConcatProperties
<1>3. ASSUME NEW j \in 1..Len(v) PROVE w[Len(u) + j] = v[j]
  <2>1. Len(u) + j \in 1..Len(u) + Len(v) /\ ~(Len(u) + j <= Len(u)) /\ (Len(u) + j) - Len(u) = j
    BY <1>1
  <2> QED
    BY <1>2, <2>1
<1>4. ASSUME NEW j \in 1..Len(u) PROVE w[j] = u[j]
  <2>1. j \in 1..Len(u) + Len(v) /\ j <= Len(u)
    BY <1>1
  <2> QED
    BY <1>2, <2>1
<1> HIDE DEF w
<1>5. SubSeq(w, 1, Len(u)) = u
  <2> DEFINE x == SubSeq(w, 1, Len(u))
  <2>1. x \in Seq(C) /\ Len(x) = Len(u) /\ \A i \in 1..Len(u) : x[i] = w[i]
    BY <1>1, <1>2, Slice
  <2> HIDE DEF x
  <2>2. x = u
    BY <1>4, <2>1, SeqEqual
  <2> QED
    BY <2>2 DEF x
<1>6. ASSUME NEW i \in 1..Len(v) + 1 PROVE From(w, Len(u) + i) = From(v, i)
  <2> DEFINE x == From(w, Len(u) + i)
             y == From(v, i)
             n == Len(v) - i + 1
  <2>1. y \in Seq(C) /\ Len(y) = n /\ \A k \in 1..n : y[k] = v[i + k - 1] /\ i + k - 1 \in 1..Len(v)
    BY <1>1, Slice DEF From
  <2>2. x \in Seq(C) /\ Len(x) = n /\ \A k \in 1..n : x[k] = w[Len(u) + i + k - 1]
    <3> DEFINE a == Len(u) + i
    <3>1. a \in Nat \ {0} /\ a - 1 <= Len(w) /\ Len(w) \in Int /\ Len(w) - a + 1 = n
      BY <1>1, <1>2
    <3> HIDE DEF a, n
    <3>2. From(w, a) \in Seq(C) /\ Len(From(w, a)) = n /\ \A k \in 1..n : From(w, a)[k] = w[a + k - 1]
      BY <1>2, <3>1, Slice DEF From
    <3> QED
      BY <3>2 DEF a
  <2> HIDE DEF x, y, n
  <2>3. ASSUME NEW k \in 1..n PROVE x[k] = y[k]
    <3> DEFINE m == i + k - 1
    <3>1. m \in 1..Len(v) /\ y[k] = v[m]
      BY <2>1
    <3>2. Len(u) + i + k - 1 = Len(u) + m
      BY <1>1
    <3> HIDE DEF m
    <3> QED
      BY <1>3, <2>2, <3>1, <3>2
  <2>4. x = y
    BY <2>1, <2>2, <2>3, SeqEqual
  <2> QED
    BY <2>4 DEF x, y
<1> QED
  BY <1>1, <1>2, <1>3, <1>4, <1>5, <1>6 DEF w

(* find_first_of().                                                        *)
LEMMA FirstOfIs ==
  ASSUME NEW C, NEW t \in Seq(C), NEW chars
  PROVE  /\ FirstOf(t, chars) \in 0..Len(t)
         /\ FirstOf(t, chars) = 0 => \A i \in 1..Len(t) : t[i] \notin chars
         /\ FirstOf(t, chars) # 0 => /\ t[FirstOf(t, chars)] \in chars
                                     /\ \A i \in 1..Len(t) : t[i] \in chars => FirstOf(t, chars) <= i
<1> DEFINE I == {i \in 1..Len(t) : t[i] \in chars}
           p == FirstOf(t, chars)
<1>1. Len(t) \in Nat /\ I \in SUBSET Nat
  BY LenProperties
<1>2. p = IF I # {} THEN Min(I) ELSE 0
  BY DEF FirstOf, SelectInSeq
<1> HIDE DEF p
<1>3. CASE I = {}
  BY <1>1, <1>2, <1>3 DEF p
<1>4. CASE I # {}
  <2>1. Min(I) \in I /\ \A i \in I : Min(I) <= i
    <3> HIDE DEF I
    <3> QED
      BY <1>1, <1>4, Least
  <2>2. p \in I /\ \A i \in I : p <= i
    BY <1>2, <1>4, <2>1
  <2>3. p # 0
    BY <2>2
  <2> QED
    BY <2>2, <2>3 DEF p
<1> QED
  BY <1>3, <1>4

LEMMA FoundAt ==
  ASSUME NEW C, NEW t \in Seq(C), NEW chars, NEW p \in 1..Len(t), t[p] \in chars,
         \A i \in 1..p - 1 : t[i] \notin chars
  PROVE  FirstOf(t, chars) = p
<1> DEFINE f == FirstOf(t, chars)
<1>1. /\ f \in 0..Len(t)
      /\ f # 0 => t[f] \in chars
      /\ f # 0 => \A i \in 1..Len(t) : t[i] \in chars => f <= i
      /\ f = 0 => \A i \in 1..Len(t) : t[i] \notin chars
  BY FirstOfIs
<1>a. Len(t) \in Nat
  BY LenProperties
<1> HIDE DEF f
<1>2. f # 0 /\ f <= p
  BY <1>1
<1>3. ~(f \in 1..p - 1)
  BY <1>1, <1>2
<1>4. f = p
  BY <1>1, <1>2, <1>3, <1>a
<1> QED
  BY <1>4 DEF f

(* split() and rsplit() of two parts, where the second one begins with the *)
(* first separator or is empty.                                            *)
Meets(u, v, chars) ==
    /\ \A i \in 1..Len(u) : u[i] \notin chars
    /\ v # <<>> => v[1] \in chars

LEMMA SplitsWhereTheyMeet ==
  ASSUME NEW C, NEW u \in Seq(C), NEW v \in Seq(C), NEW chars, Meets(u, v, chars), NEW start \in 0..1
  PROVE  /\ v # <<>> => /\ Split(u \o v, chars, start) = <<u, From(v, start + 1)>>
                        /\ RSplit(u \o v, chars, start) = <<u, From(v, start + 1)>>
         /\ v = <<>> => /\ Split(u \o v, chars, start) = <<<<>>, u>>
                        /\ RSplit(u \o v, chars, start) = <<u, <<>>>>
<1> DEFINE w == u \o v
           n == Len(u)
<1>1. /\ w \in Seq(C) /\ Len(w) = n + Len(v) /\ n \in Nat /\ Len(v) \in Nat
      /\ \A i \in 1..n : w[i] = u[i]
      /\ \A i \in 1..Len(v) : w[n + i] = v[i]
      /\ SubSeq(w, 1, n) = u
      /\ \A i \in 1..Len(v) + 1 : From(w, n + i) = From(v, i)
  BY Two
<1> HIDE DEF w
<1>2. CASE v # <<>>
  <2>1. Len(v) >= 1
    BY <1>1, <1>2
  <2>2. n + 1 \in 1..Len(w) /\ w[n + 1] = v[1] /\ v[1] \in chars
    BY <1>1, <1>2, <2>1 DEF Meets
  <2>3. \A i \in 1..(n + 1) - 1 : i \in 1..n
    BY <1>1
  <2>4. \A i \in 1..(n + 1) - 1 : w[i] \notin chars
    BY <1>1, <2>3 DEF Meets
  <2>5. FirstOf(w, chars) = n + 1
    <3> DEFINE p == n + 1
    <3>1. p \in 1..Len(w) /\ w[p] \in chars /\ \A i \in 1..p - 1 : w[i] \notin chars
      BY <2>2, <2>4
    <3> HIDE DEF p
    <3>2. FirstOf(w, chars) = p
      BY <1>1, <3>1, FoundAt
    <3> QED
      BY <3>2 DEF p
  <2>6. (n + 1) + 0 - 1 = n /\ n + 1 # 0 /\ (n + 1) + start = n + (start + 1) /\ start + 1 \in 1..Len(v) + 1
    BY <1>1, <2>1
  <2>7. SplitAt(w, n + 1, start, 0) = <<u, From(v, start + 1)>>
    BY <1>1, <2>6 DEF SplitAt
  <2>8. Split(w, chars, start) = SplitAt(w, n + 1, start, 0) /\ RSplit(w, chars, start) = SplitAt(w, n + 1, start, 0)
    BY <2>5, <2>6 DEF Split, RSplit
  <2> QED
    BY <1>2, <2>7, <2>8 DEF w
<1>3. CASE v = <<>>
  <2>1. w = u
    BY <1>3 DEF w
  <2>2. FirstOf(u, chars) = 0
    <3>1. /\ FirstOf(u, chars) \in 0..n
          /\ FirstOf(u, chars) # 0 => u[FirstOf(u, chars)] \in chars
      BY FirstOfIs
    <3> QED
      BY <1>1, <3>1 DEF Meets
  <2> QED
    BY <1>3, <2>1, <2>2 DEF Split, RSplit, w
<1> QED
  BY <1>2, <1>3

-----------------------------------------------------------------------------
(* A URI is taken apart as it was composed.                                *)
Characters == STRING \union {":", "/", "?", "#", "@", "[", "]"}

Texts == Seq(Characters)

LEMMA Letters ==
  \A x \in {":", "/", "?", "#", "@", "[", "]"} : <<x>> \in Texts /\ Len(<<x>>) = 1 /\ <<x>>[1] = x
<1> SUFFICES ASSUME NEW x \in {":", "/", "?", "#", "@", "[", "]"}
             PROVE  <<x>> \in Texts /\ Len(<<x>>) = 1 /\ <<x>>[1] = x
  OBVIOUS
<1>1. x \in Characters
  BY DEF Characters
<1> QED
  BY ONLY <1>1 DEF Texts

(* A part with what stands before it.                                      *)
LEMMA PartIs ==
  ASSUME NEW part \in Seq(Seq(Characters)), Len(part) <= 1, NEW x \in {":", "/", "?", "#", "@", "[", "]"}
  PROVE  /\ Given(part) \in Texts
         /\ part = <<>> => Given(part) = <<>> /\ Part(<<x>>, part, <<>>) = <<>> /\ Part(<<>>, part, <<x>>) = <<>>
         /\ part # <<>> => /\ Part(<<x>>, part, <<>>) = <<x>> \o Given(part)
                           /\ Part(<<>>, part, <<x>>) = Given(part) \o <<x>>
         /\ Part(<<x>>, part, <<>>) \in Texts /\ Part(<<>>, part, <<x>>) \in Texts
<1>1. CASE part = <<>>
  <2>1. <<>> \in Texts
    BY EmptySeq DEF Texts
  <2> QED
    BY <1>1, <2>1 DEF Part, Given
<1>2. CASE part # <<>>
  <2> DEFINE p == part[1]
             y == <<x>>
  <2>1. p \in Texts /\ y \in Texts
    <3>1. Len(part) \in Nat /\ Len(part) # 0
      BY <1>2, LenProperties
    <3>2. 1 \in 1..Len(part)
      BY <3>1
    <3> QED
      BY <3>2, ElementOfSeq, Letters DEF Texts
  <2>2. Given(part) = <<>> \o p \o <<>> /\ Part(y, part, <<>>) = y \o p \o <<>> /\ Part(<<>>, part, y) = <<>> \o p \o y
    BY <1>2 DEF Part, Given
  <2> HIDE DEF p, y
  <2>3. <<>> \o p = p /\ p \o <<>> = p
    BY <2>1, ConcatEmptySeq DEF Texts
  <2>4. y \o p \in Texts /\ p \o y \in Texts
    BY <2>1, ConcatProperties DEF Texts
  <2>5. (y \o p) \o <<>> = y \o p
    BY <2>4, ConcatEmptySeq DEF Texts
  <2>6. Given(part) = p /\ Part(y, part, <<>>) = y \o p /\ Part(<<>>, part, y) = p \o y
    BY <2>2, <2>3, <2>5
  <2> QED
    BY <1>2, <2>1, <2>4, <2>6 DEF y
<1> QED
  BY <1>1, <1>2

LEMMA Begins ==
  ASSUME NEW x \in {":", "/", "?", "#", "@", "[", "]"}, NEW t \in Texts
  PROVE  /\ <<x>> \o t \in Texts /\ <<x>> \o t # <<>> /\ (<<x>> \o t)[1] = x /\ Len(<<x>> \o t) = Len(t) + 1
         /\ \A i \in 1..Len(t) : (<<x>> \o t)[i + 1] = t[i]
         /\ From(<<x>> \o t, 2) = t
<1> DEFINE y == <<x>>
           w == y \o t
<1>1. y \in Seq(Characters) /\ t \in Seq(Characters) /\ Len(y) = 1 /\ y[1] = x
  BY Letters DEF Texts
<1> HIDE DEF y
<1>2. /\ w \in Seq(Characters) /\ Len(w) = 1 + Len(t) /\ Len(t) \in Nat
      /\ \A i \in 1..1 : w[i] = y[i]
      /\ \A i \in 1..Len(t) : w[1 + i] = t[i]
      /\ \A i \in 1..Len(t) + 1 : From(w, 1 + i) = From(t, i)
  BY <1>1, Two
<1>3. From(t, 1) = t
  BY <1>1, Whole
<1> HIDE DEF w
<1>4. w[1] = x /\ From(w, 2) = t /\ w # <<>> /\ Len(w) = Len(t) + 1
  <2>1. 1 \in 1..1 /\ 1 \in 1..Len(t) + 1 /\ 1 + 1 = 2 /\ Len(w) # 0
    BY <1>2
  <2> QED
    BY <1>1, <1>2, <1>3, <2>1
<1>5. \A i \in 1..Len(t) : w[i + 1] = t[i]
  BY <1>2
<1> QED
  BY <1>2, <1>4, <1>5 DEF w, y, Texts

(* split() before a character that stays with the second part, and at one  *)
(* that is left out.                                                       *)
LEMMA SplitsBefore ==
  ASSUME NEW u \in Texts, NEW v \in Texts, NEW chars, Meets(u, v, chars)
  PROVE  RSplit(u \o v, chars, 0) = <<u, v>>
<1>1. u \in Seq(Characters) /\ v \in Seq(Characters)
  BY DEF Texts
<1>2. /\ v # <<>> => RSplit(u \o v, chars, 0) = <<u, From(v, 0 + 1)>>
      /\ v = <<>> => RSplit(u \o v, chars, 0) = <<u, <<>>>>
  BY <1>1, SplitsWhereTheyMeet
<1>3. From(v, 1) = v /\ 0 + 1 = 1
  BY <1>1, Whole
<1> QED
  BY <1>2, <1>3

LEMMA SplitsAround ==
  ASSUME NEW u \in Texts, NEW t \in Texts, NEW x \in {":", "/", "?", "#", "@", "[", "]"}, Without(u, {x})
  PROVE  /\ Split(u \o (<<x>> \o t), {x}, 1) = <<u, t>> /\ RSplit(u \o (<<x>> \o t), {x}, 1) = <<u, t>>
         /\ Split(u, {x}, 1) = <<<<>>, u>> /\ RSplit(u, {x}, 1) = <<u, <<>>>>
<1> DEFINE v == <<x>> \o t
<1>1. v \in Seq(Characters) /\ v # <<>> /\ v[1] = x /\ From(v, 2) = t
  <2>1. v \in Texts /\ v # <<>> /\ v[1] = x /\ From(v, 2) = t
    BY Begins
  <2> HIDE DEF v
  <2> QED
    BY <2>1 DEF Texts
<1> HIDE DEF v
<1>2. Meets(u, v, {x}) /\ Meets(u, <<>>, {x})
  BY <1>1 DEF Meets, Without
<1>3. u \in Seq(Characters) /\ <<>> \in Seq(Characters)
  BY EmptySeq DEF Texts
<1>4. u \o <<>> = u
  BY <1>3, ConcatEmptySeq
<1>5. Split(u \o v, {x}, 1) = <<u, From(v, 1 + 1)>> /\ RSplit(u \o v, {x}, 1) = <<u, From(v, 1 + 1)>>
  BY <1>1, <1>2, <1>3, SplitsWhereTheyMeet
<1>6. Split(u \o <<>>, {x}, 1) = <<<<>>, u>> /\ RSplit(u \o <<>>, {x}, 1) = <<u, <<>>>>
  <2> DEFINE e == <<>>
             chars == {x}
  <2>1. Meets(u, e, chars) /\ e \in Seq(Characters) /\ e = <<>> /\ 1 \in 0..1
    BY <1>2, <1>3
  <2> HIDE DEF e, chars
  <2>2. Split(u \o e, chars, 1) = <<<<>>, u>> /\ RSplit(u \o e, chars, 1) = <<u, <<>>>>
    BY <1>3, <2>1, SplitsWhereTheyMeet
  <2> QED
    BY <2>2 DEF e, chars
<1>7. 1 + 1 = 2
  OBVIOUS
<1> QED
  BY <1>1, <1>4, <1>5, <1>6, <1>7 DEF v

(* Host and port.                                                          *)
LEMMA HostAndPortIs ==
  ASSUME NEW host \in Texts, IsHost(host), NEW port \in Seq(Seq(Characters)), Len(port) <= 1,
         Without(Given(port), {"]"})
  PROVE  HostAndPort(host \o Part(<<":">>, port, <<>>)) = <<host, Given(port)>>
<1> DEFINE P == Part(<<":">>, port, <<>>)
           p == Given(port)
           t == host \o P
           n == Len(host)
<1>1. /\ p \in Texts /\ P \in Texts
      /\ port = <<>> => P = <<>> /\ p = <<>>
      /\ port # <<>> => P = <<":">> \o p
  BY PartIs
<1>2. /\ t \in Texts /\ Len(t) = n + Len(P) /\ n \in Nat /\ Len(P) \in Nat
      /\ \A i \in 1..n : t[i] = host[i]
      /\ \A i \in 1..Len(P) : t[n + i] = P[i]
      /\ SubSeq(t, 1, n) = host
      /\ \A i \in 1..Len(P) + 1 : From(t, n + i) = From(P, i)
  <2>1. host \in Seq(Characters) /\ P \in Seq(Characters)
    BY <1>1 DEF Texts
  <2> HIDE DEF P
  <2> QED
    BY <2>1, Two DEF Texts
<1>3. /\ port # <<>> => P[1] = ":" /\ Len(P) = Len(p) + 1 /\ From(P, 2) = p /\ \A i \in 1..Len(p) : P[i + 1] = p[i]
      /\ port = <<>> => t = host
  <2>1. port # <<>> => P[1] = ":" /\ Len(P) = Len(p) + 1 /\ From(P, 2) = p /\ \A i \in 1..Len(p) : P[i + 1] = p[i]
    <3> DEFINE w == <<":">> \o p
    <3>1. w[1] = ":" /\ Len(w) = Len(p) + 1 /\ From(w, 2) = p /\ \A i \in 1..Len(p) : w[i + 1] = p[i]
      <4> HIDE DEF p
      <4> QED
        BY <1>1, Begins
    <3> HIDE DEF p, P
    <3> QED
      BY <1>1, <3>1
  <2>2. host \o <<>> = host
    BY ConcatEmptySeq DEF Texts
  <2> QED
    BY <1>1, <2>1, <2>2
<1>4. Len(p) \in Nat /\ \A i \in 1..Len(p) : p[i] # "]"
  <2>1. Len(p) \in Nat
    BY <1>1, LenProperties DEF Texts
  <2>2. \A i \in 1..Len(p) : p[i] \notin {"]"}
    BY DEF Without
  <2> QED
    BY <2>1, <2>2
<1>5. CASE ~StartsWith(host, "[")
  <2>1. Without(host, {":"})
    BY <1>5 DEF IsHost
  <2>2. ~StartsWith(t, "[")
    <3>1. CASE host = <<>>
      <4>1. n = 0
        BY <3>1
      <4>2. P # <<>> => t[1] = ":"
        <5>1. P # <<>> => 1 \in 1..Len(P) /\ n + 1 = 1 /\ P[1] = ":"
          BY <1>1, <1>3, <4>1
        <5> QED
          BY <1>2, <5>1
      <4>3. P = <<>> => t = <<>>
        BY <1>3, <1>1, <3>1, <1>2
      <4> QED
        BY <4>2, <4>3 DEF StartsWith
    <3>2. CASE host # <<>>
      <4>1. 1 \in 1..n
        BY <1>2, <3>2 DEF Texts
      <4> QED
        BY <1>2, <1>5, <3>2, <4>1 DEF StartsWith
    <3> QED
      BY <3>1, <3>2
  <2>3. HostAndPort(t) = RSplit(t, {":"}, 1)
    BY <2>2 DEF HostAndPort
  <2> HIDE DEF p
  <2>4. port # <<>> => RSplit(t, {":"}, 1) = <<host, p>>
    BY <1>1, <2>1, SplitsAround
  <2>5. port = <<>> => RSplit(host, {":"}, 1) = <<host, <<>>>>
    BY <2>1, SplitsAround
  <2> QED
    BY <1>1, <1>3, <2>3, <2>4, <2>5 DEF p
<1>6. CASE StartsWith(host, "[")
  <2> DEFINE ends == {i \in 1..(Len(t) - 1) : t[i] = "]" /\ t[i + 1] = ":"}
  <2>1. n >= 1 /\ host[n] = "]" /\ host[1] = "[" /\ \A i \in 1..n - 1 : host[i] # "]"
    <3>1. host # <<>> /\ host[1] = "[" /\ Last(host) = "]" /\ Without(Front(host), {"]"})
      BY <1>6 DEF IsHost, StartsWith
    <3>2. n >= 1 /\ host[n] = "]"
      BY <1>2, <3>1 DEF Last, Texts
    <3>3. Len(Front(host)) = n - 1 /\ \A i \in 1..n - 1 : Front(host)[i] = host[i]
      <4> DEFINE b == n - 1
      <4>1. host \in Seq(Characters) /\ 1 \in Nat \ {0} /\ b \in Int /\ 1 - 1 <= b /\ b <= Len(host)
        BY <1>2, <3>2 DEF Texts
      <4> HIDE DEF b
      <4>2. Len(SubSeq(host, 1, b)) = b - 1 + 1 /\ \A i \in 1..b - 1 + 1 : SubSeq(host, 1, b)[i] = host[1 + i - 1]
        BY <4>1, Slice
      <4>3. Len(SubSeq(host, 1, b)) = b /\ \A i \in 1..b : SubSeq(host, 1, b)[i] = host[i]
        BY <4>1, <4>2
      <4> QED
        BY <4>3 DEF Front, b
    <3>4. \A i \in 1..n - 1 : Front(host)[i] \notin {"]"}
      BY <3>1, <3>3 DEF Without
    <3> QED
      BY <3>1, <3>2, <3>3, <3>4
  <2>2. StartsWith(t, "[")
    <3>1. 1 \in 1..n /\ t # <<>>
      BY <1>2, <2>1
    <3> QED
      BY <1>2, <2>1, <3>1 DEF StartsWith
  <2>3. port = <<>> => ends = {}
    <3> SUFFICES ASSUME port = <<>> PROVE ends = {}
      OBVIOUS
    <3>1. ASSUME NEW i \in 1..(Len(t) - 1) PROVE t[i] # "]"
      <4>1. Len(t) = n /\ t = host
        BY <1>3
      <4> QED
        BY <2>1, <4>1
    <3> QED
      BY <3>1
  <2>4. port # <<>> => ends = {n}
    <3> SUFFICES ASSUME port # <<>> PROVE ends = {n}
      OBVIOUS
    <3>1. Len(t) = n + Len(p) + 1 /\ P[1] = ":" /\ Len(P) = Len(p) + 1
      <4>1. P[1] = ":" /\ Len(P) = Len(p) + 1
        BY <1>3
      <4>2. Len(t) = n + Len(P) /\ n \in Nat /\ Len(p) \in Nat
        BY <1>2, <1>4
      <4> HIDE DEF t, P, p, n
      <4> QED
        BY <4>1, <4>2
    <3>2. n \in ends
      <4>1. n \in 1..(Len(t) - 1) /\ n \in 1..n /\ 1 \in 1..Len(P)
        BY <1>2, <1>4, <2>1, <3>1
      <4> HIDE DEF t, P, p
      <4>2. t[n] = "]" /\ t[n + 1] = ":"
        BY <1>2, <2>1, <3>1, <4>1
      <4> QED
        BY <4>1, <4>2
    <3>3. ASSUME NEW i \in ends PROVE i = n
      <4>1. i \in 1..(Len(t) - 1) /\ t[i] = "]" /\ t[i + 1] = ":"
        OBVIOUS
      <4> HIDE DEF t, P, p, ends
      <4>2. CASE i < n
        <5>1. i \in 1..n - 1 /\ i \in 1..n
          BY <1>2, <4>1, <4>2
        <5> QED
          BY <1>2, <2>1, <4>1, <5>1
      <4>3. CASE i > n
        <5> DEFINE j == i - n
        <5>1. j \in 1..Len(P) /\ n + j = i
          BY <1>2, <1>4, <3>1, <4>1, <4>3
        <5>2. t[i] = P[j]
          BY <1>2, <5>1
        <5>3. j # 1
          BY <3>1, <4>1, <5>2
        <5> DEFINE k == j - 1
        <5>4. k \in 1..Len(p) /\ k + 1 = j
          BY <1>4, <3>1, <5>1, <5>3
        <5> HIDE DEF j, k
        <5>5. P[j] = p[k] /\ p[k] # "]"
          BY <1>3, <1>4, <5>4
        <5> QED
          BY <4>1, <5>2, <5>5
      <4>4. i \in Int /\ n \in Int
        BY <1>2, <4>1
      <4> QED
        BY <4>2, <4>3, <4>4
    <3> HIDE DEF ends
    <3> QED
      BY <3>2, <3>3
  <2>5. HostAndPort(t) = IF ends = {} THEN <<t, <<>>>>
                         ELSE SplitAt(t, CHOOSE i \in ends : \A j \in ends : i <= j, 2, 1)
    BY <2>2 DEF HostAndPort
  <2>6. CASE port = <<>>
    BY <1>1, <1>3, <2>3, <2>5, <2>6
  <2>7. CASE port # <<>>
    <3>1. ends = {n} /\ n <= n
      BY <1>2, <2>4, <2>7
    <3> HIDE DEF ends, P, p, t, n
    <3>2. (CHOOSE i \in ends : \A j \in ends : i <= j) = n
      BY <3>1
    <3>3. HostAndPort(t) = SplitAt(t, n, 2, 1)
      BY <2>5, <3>1, <3>2
    <3>4. SplitAt(t, n, 2, 1) = <<host, p>>
      <4>1. n + 1 - 1 = n /\ 2 \in 1..Len(P) + 1
        BY <1>2, <1>3, <1>4, <2>7
      <4>2. From(t, n + 2) = From(P, 2)
        BY <1>2, <4>1
      <4> QED
        BY <1>2, <1>3, <2>7, <4>1, <4>2 DEF SplitAt
    <3> QED
      BY <3>3, <3>4 DEF p, t, P
  <2> QED
    BY <2>6, <2>7
<1> QED
  BY <1>5, <1>6

LEMMA TextsJoin ==
  /\ \A s, t, u \in Texts : (s \o t) \o u = s \o (t \o u)
  /\ \A s, t \in Texts : s \o t \in Texts
  /\ \A s \in Texts : s \o <<>> = s /\ <<>> \o s = s
  /\ <<>> \in Texts
<1>1. \A s, t, u \in Texts : (s \o t) \o u = s \o (t \o u)
  BY ConcatAssociative DEF Texts
<1>2. \A s, t \in Texts : s \o t \in Texts
  BY ConcatProperties DEF Texts
<1>3. \A s \in Texts : s \o <<>> = s /\ <<>> \o s = s
  BY ConcatEmptySeq DEF Texts
<1>4. <<>> \in Texts
  BY EmptySeq DEF Texts
<1> QED
  BY <1>1, <1>2, <1>3, <1>4

LEMMA WithoutIn ==
  ASSUME NEW u \in Texts, NEW v \in Texts, NEW chars, Without(u, chars), Without(v, chars)
  PROVE  Without(u \o v, chars)
<1> DEFINE w == u \o v
<1>1. /\ Len(w) = Len(u) + Len(v) /\ Len(u) \in Nat /\ Len(v) \in Nat
      /\ \A i \in 1..Len(u) : w[i] = u[i]
      /\ \A i \in 1..Len(v) : w[Len(u) + i] = v[i]
  BY Two DEF Texts
<1> HIDE DEF w
<1>2. ASSUME NEW i \in 1..Len(w) PROVE w[i] \notin chars
  <2>1. CASE i <= Len(u)
    <3>1. i \in 1..Len(u)
      BY <1>1, <2>1
    <3> QED
      BY <1>1, <3>1 DEF Without
  <2>2. CASE i > Len(u)
    <3> DEFINE j == i - Len(u)
    <3>1. j \in 1..Len(v) /\ Len(u) + j = i
      BY <1>1, <2>2
    <3> HIDE DEF j
    <3>2. w[i] = v[j]
      BY <1>1, <3>1
    <3> QED
      BY <3>1, <3>2 DEF Without
  <2> QED
    BY <1>1, <2>1, <2>2
<1> QED
  BY <1>2 DEF Without, w

LEMMA PartsAreTexts ==
  ASSUME NEW c, Composable(c)
  PROVE  /\ \A part \in {c.userinfo, c.host, c.port, c.query, c.fragment} :
               part \in Seq(Seq(Characters)) /\ Len(part) <= 1
         /\ c.scheme \in Texts /\ c.path \in Texts
<1>1. /\ \A part \in {c.userinfo, c.host, c.port, c.query, c.fragment} :
            part \in Seq(Seq(STRING)) /\ Len(part) <= 1
      /\ c.scheme \in Seq(STRING) /\ c.path \in Seq(STRING)
  BY DEF Composable
<1>2. Seq(STRING) \subseteq Seq(Characters)
  <2>1. STRING \subseteq Characters
    BY DEF Characters
  <2> QED
    BY <2>1, SeqMonotonic
<1> DEFINE S == Seq(STRING)
           T == Seq(Characters)
<1>3. S \subseteq T
  BY <1>2
<1> HIDE DEF S, T
<1>4. Seq(S) \subseteq Seq(T)
  BY <1>3, SeqMonotonic
<1> QED
  BY <1>1, <1>2, <1>4 DEF S, T, Texts

LEMMA AuthorityIs ==
  ASSUME NEW c, Composable(c), c.host # <<>>
  PROVE  /\ Authority(FullAuthority(c)) = Meant(c).authority
         /\ FullAuthority(c) \in Texts /\ Without(FullAuthority(c), {"/", "?", "#"})
<1> DEFINE U == Part(<<>>, c.userinfo, <<"@">>)
           u == Given(c.userinfo)
           h == Given(c.host)
           P == Part(<<":">>, c.port, <<>>)
           p == Given(c.port)
           H == h \o P
           X == {"/", "?", "#"}
           Y == {"/", "?", "#", "@"}
<1>1. /\ c.userinfo \in Seq(Seq(Characters)) /\ Len(c.userinfo) <= 1
      /\ c.host \in Seq(Seq(Characters)) /\ Len(c.host) <= 1
      /\ c.port \in Seq(Seq(Characters)) /\ Len(c.port) <= 1
  BY PartsAreTexts
<1>2. /\ u \in Texts /\ U \in Texts /\ h \in Texts /\ p \in Texts /\ P \in Texts
      /\ c.userinfo = <<>> => u = <<>> /\ U = <<>>
      /\ c.userinfo # <<>> => U = u \o <<"@">>
      /\ c.port = <<>> => P = <<>>
      /\ c.port # <<>> => P = <<":">> \o p
  BY <1>1, PartIs
<1>3. Without(u, Y) /\ Without(h, Y) /\ IsHost(h) /\ Without(p, {"/", "?", "#", "@", ":", "]"})
  BY DEF Composable
<1>4. FullAuthority(c) = (U \o h) \o P
  BY DEF FullAuthority, Given
<1>5. HostAndPort(H) = <<h, p>>
  <2>1. Without(p, {"]"})
    BY <1>3 DEF Without
  <2> HIDE DEF h
  <2> QED
    BY <1>1, <1>2, <1>3, <2>1, HostAndPortIs
<1> HIDE DEF U, u, h, P, p
<1>6. /\ H \in Texts /\ (U \o h) \o P = U \o H
      /\ <<"@">> \in Texts /\ <<":">> \in Texts
      /\ (u \o <<"@">>) \o H = u \o (<<"@">> \o H) /\ u \o <<"@">> \in Texts
      /\ <<>> \o H = H /\ U \o H \in Texts
  <2>1. <<"@">> \in Texts /\ <<":">> \in Texts
    BY Letters
  <2>2. H \in Texts /\ (U \o h) \o P = U \o H
    <3>1. U \in Texts /\ h \in Texts /\ P \in Texts
      BY <1>2
    <3> QED
      BY ONLY <3>1, TextsJoin
  <2> HIDE DEF H
  <2>3. (u \o <<"@">>) \o H = u \o (<<"@">> \o H) /\ u \o <<"@">> \in Texts
    <3> DEFINE y == <<"@">>
    <3>1. u \in Texts /\ y \in Texts /\ H \in Texts
      BY <1>2, <2>1, <2>2
    <3> HIDE DEF y
    <3>2. (u \o y) \o H = u \o (y \o H) /\ u \o y \in Texts
      BY ONLY <3>1, TextsJoin
    <3> QED
      BY <3>2 DEF y
  <2>4. <<>> \o H = H /\ U \o H \in Texts
    <3>1. U \in Texts /\ H \in Texts
      BY <1>2, <2>2
    <3> QED
      BY ONLY <3>1, TextsJoin
  <2> QED
    BY <2>1, <2>2, <2>3, <2>4
<1>7. Without(P, Y) /\ Without(H, Y)
  <2>1. Without(p, Y)
    BY <1>3 DEF Without
  <2>2. Without(<<":">>, Y) /\ Without(<<>>, Y)
    BY DEF Without
  <2> HIDE DEF Y
  <2>3. c.port # <<>> => Without(<<":">> \o p, Y)
    BY <1>2, <1>6, <2>1, <2>2, WithoutIn
  <2>4. Without(P, Y)
    BY <1>2, <2>2, <2>3
  <2> QED
    BY <1>2, <1>3, <2>4, WithoutIn
<1>8. Without(U \o H, X)
  <2>1. Without(u, X) /\ Without(H, X) /\ Without(<<"@">>, X) /\ Without(<<>>, X)
    <3>1. X \subseteq Y
      OBVIOUS
    <3>2. Without(<<"@">>, X) /\ Without(<<>>, X)
      BY DEF Without
    <3> HIDE DEF X, Y, H
    <3> QED
      BY <1>3, <1>7, <3>1, <3>2 DEF Without
  <2> HIDE DEF X, H
  <2>2. c.userinfo # <<>> => Without(u \o <<"@">>, X)
    BY <1>2, <1>6, <2>1, WithoutIn
  <2>3. Without(U, X)
    BY <1>2, <2>1, <2>2
  <2> QED
    BY <1>2, <1>6, <2>1, <2>3, WithoutIn
<1>9. Split(U \o H, {"@"}, 1) = <<u, H>>
  <2>1. Without(u, {"@"}) /\ Without(H, {"@"})
    BY <1>3, <1>7 DEF Without
  <2> HIDE DEF H
  <2>2. c.userinfo = <<>> => Split(H, {"@"}, 1) = <<<<>>, H>>
    BY <1>6, <2>1, SplitsAround
  <2>3. c.userinfo # <<>> => Split(u \o (<<"@">> \o H), {"@"}, 1) = <<u, H>>
    BY <1>2, <1>6, <2>1, SplitsAround
  <2> QED
    BY <1>2, <1>6, <2>2, <2>3
<1> HIDE DEF H
<1> DEFINE full == U \o H
<1>10. full = FullAuthority(c)
  BY <1>4, <1>6
<1>11. Authority(full) = [full |-> full, userinfo |-> u, host |-> h, port |-> Port(p)]
  <2> HIDE DEF full
  <2>1. Split(full, {"@"}, 1) = <<u, H>>
    BY <1>9 DEF full
  <2>2. Split(full, {"@"}, 1)[1] = u /\ Split(full, {"@"}, 1)[2] = H /\ <<h, p>>[1] = h /\ <<h, p>>[2] = p
    BY <2>1
  <2> QED
    BY <1>5, <2>2 DEF Authority
<1>12. Meant(c).authority = [full |-> FullAuthority(c), userinfo |-> u, host |-> h, port |-> Port(p)]
  BY DEF Meant, u, h, p
<1> QED
  BY <1>6, <1>8, <1>10, <1>11, <1>12

(* What follows the scheme.                                                *)
Rest(c) ==
    (IF c.host = <<>> THEN <<>> ELSE <<"/", "/">> \o FullAuthority(c))
        \o (c.path \o (Part(<<"?">>, c.query, <<>>) \o Part(<<"#">>, c.fragment, <<>>)))

LEMMA NumberOfNothing == Number(<<>>) = 0
<1>1. SelectInSeq(<<>>, LAMBDA c : c \notin DOMAIN Decimals) = 0
  <2>1. Len(<<>>) = 0 /\ 1..0 = {}
    OBVIOUS
  <2> QED
    BY <2>1 DEF SelectInSeq
<1>2. Number(<<>>) = FoldLeft(LAMBDA n, c : 10 * n + Decimals[c], 0, <<>>)
  BY <1>1 DEF Number
<1>3. DOMAIN <<>> = {}
  OBVIOUS
<1> DEFINE iter == CHOOSE iter : iter = [s \in SUBSET {} |-> IF s = {} THEN 0 ELSE 10 * iter[s \ {Max(s)}] + Decimals[<<>>[Max(s)]]]
<1>4. FoldLeft(LAMBDA n, c : 10 * n + Decimals[c], 0, <<>>) = iter[{}]
  BY <1>3 DEF FoldLeft, MapThenFoldSet, Max
<1>5. iter[{}] = 0
  <2> DEFINE g == [s \in SUBSET {} |-> 0]
  <2>1. g = [s \in SUBSET {} |-> IF s = {} THEN 0 ELSE 10 * g[s \ {Max(s)}] + Decimals[<<>>[Max(s)]]]
    OBVIOUS
  <2>2. iter = [s \in SUBSET {} |-> IF s = {} THEN 0 ELSE 10 * iter[s \ {Max(s)}] + Decimals[<<>>[Max(s)]]]
    <3> HIDE DEF g
    <3> QED
      BY <2>1
  <2> QED
    BY <2>2
<1> QED
  BY <1>2, <1>4, <1>5

LEMMA PortOfNothing == Port(<<>>) = 0
<1>1. ~StartsWith(<<>>, "-")
  BY DEF StartsWith
<1> QED
  BY <1>1, NumberOfNothing DEF Port

LEMMA RestIs ==
  ASSUME NEW c, Composable(c)
  PROVE  LET Q == Part(<<"?">>, c.query, <<>>)
             F == Part(<<"#">>, c.fragment, <<>>)
             QF == Q \o F
             PQF == c.path \o QF
             R == Rest(c)
         IN  /\ R \in Texts /\ QF \in Texts /\ F \in Texts /\ PQF \in Texts
             /\ HasAuthority(R) <=> c.host # <<>>
             /\ c.host # <<>> => RSplit(From(R, 3), {"/", "?", "#"}, 0) = <<FullAuthority(c), PQF>> /\ R[1] = "/"
             /\ c.host = <<>> => R = PQF
             /\ c.scheme = <<>> => ~StartsWith(R, ":")
             /\ RSplit(PQF, {"?", "#"}, 0) = <<c.path, QF>>
             /\ c.query # <<>> => StartsWith(QF, "?") /\ RSplit(From(QF, 2), {"#"}, 0) = <<Given(c.query), F>>
             /\ c.query = <<>> => ~StartsWith(QF, "?") /\ QF = F /\ Given(c.query) = <<>>
             /\ From(F, 2) = Given(c.fragment)
<1> DEFINE q == Given(c.query)
           f == Given(c.fragment)
           Q == Part(<<"?">>, c.query, <<>>)
           F == Part(<<"#">>, c.fragment, <<>>)
           QF == Q \o F
           PQF == c.path \o QF
           R == Rest(c)
           full == FullAuthority(c)
<1>1. /\ c.query \in Seq(Seq(Characters)) /\ Len(c.query) <= 1
      /\ c.fragment \in Seq(Seq(Characters)) /\ Len(c.fragment) <= 1
      /\ c.path \in Texts
  BY PartsAreTexts
<1>2. /\ q \in Texts /\ f \in Texts /\ Q \in Texts /\ F \in Texts
      /\ c.query = <<>> => q = <<>> /\ Q = <<>>
      /\ c.query # <<>> => Q = <<"?">> \o q
      /\ c.fragment = <<>> => f = <<>> /\ F = <<>>
      /\ c.fragment # <<>> => F = <<"#">> \o f
  BY <1>1, PartIs
<1>3. /\ Without(q, {"#"}) /\ Without(c.path, {"?", "#"})
      /\ c.host = <<>> => ~IsPrefix(<<"/", "/">>, c.path) /\ (c.scheme = <<>> => ~StartsWith(c.path, ":"))
      /\ c.host # <<>> => c.path = <<>> \/ StartsWith(c.path, "/")
  BY DEF Composable
<1>4. R = (IF c.host = <<>> THEN <<>> ELSE <<"/", "/">> \o full) \o PQF
  BY DEF Rest
<1> DEFINE full0 == full
<1> HIDE DEF q, f, Q, F, R, full0
<1>5. QF \in Texts /\ PQF \in Texts
  BY <1>1, <1>2, TextsJoin
<1>6. (F # <<>> => F[1] = "#") /\ From(F, 2) = f
  <2>1. c.fragment # <<>> => (<<"#">> \o f)[1] = "#" /\ From(<<"#">> \o f, 2) = f
    BY <1>2, Begins
  <2>2. From(<<>>, 2) = <<>>
    BY DEF From
  <2> QED
    BY <1>2, <2>1, <2>2
<1>7. /\ c.query # <<>> => QF = <<"?">> \o (q \o F) /\ q \o F \in Texts
      /\ c.query = <<>> => QF = F
  <2>1. <<"?">> \in Texts
    BY Letters
  <2>2. c.query # <<>> => (<<"?">> \o q) \o F = <<"?">> \o (q \o F) /\ q \o F \in Texts
    <3> DEFINE y == <<"?">>
    <3>1. q \in Texts /\ y \in Texts /\ F \in Texts
      BY <1>2, <2>1
    <3> HIDE DEF y
    <3>2. (y \o q) \o F = y \o (q \o F) /\ q \o F \in Texts
      BY ONLY <3>1, TextsJoin
    <3> QED
      BY <3>2 DEF y
  <2>3. <<>> \o F = F
    BY <1>2, TextsJoin
  <2> QED
    BY <1>2, <2>2, <2>3
<1> DEFINE qF == q \o F
           QqF == <<"?">> \o qF
<1>8. c.query # <<>> => QF # <<>> /\ QF[1] = "?" /\ From(QF, 2) = q \o F
  <2> SUFFICES ASSUME c.query # <<>> PROVE QF # <<>> /\ QF[1] = "?" /\ From(QF, 2) = q \o F
    OBVIOUS
  <2>1. qF \in Texts /\ QF = QqF
    BY <1>7
  <2> HIDE DEF qF
  <2>2. QqF # <<>> /\ QqF[1] = "?" /\ From(QqF, 2) = qF
    BY <2>1, Begins
  <2> HIDE DEF QqF, QF
  <2> QED
    BY <2>1, <2>2 DEF qF
<1> HIDE DEF qF, QqF
<1>9. QF # <<>> => QF[1] \in {"?", "#"}
  <2> HIDE DEF QF
  <2> QED
    BY <1>6, <1>7, <1>8
<1>10. c.query # <<>> => StartsWith(QF, "?") /\ RSplit(From(QF, 2), {"#"}, 0) = <<q, F>>
  <2>1. Meets(q, F, {"#"})
    BY <1>3, <1>6 DEF Meets, Without
  <2>2. RSplit(q \o F, {"#"}, 0) = <<q, F>>
    BY <1>2, <2>1, SplitsBefore
  <2> HIDE DEF QF
  <2> QED
    BY <1>8, <2>2 DEF StartsWith
<1>11. c.query = <<>> => ~StartsWith(QF, "?") /\ QF = F /\ q = <<>>
  <2> HIDE DEF QF
  <2> QED
    BY <1>2, <1>6, <1>7 DEF StartsWith
<1> HIDE DEF QF
<1>12. RSplit(PQF, {"?", "#"}, 0) = <<c.path, QF>>
  <2>1. Meets(c.path, QF, {"?", "#"})
    BY <1>3, <1>9 DEF Meets, Without
  <2> QED
    BY <1>1, <1>5, <2>1, SplitsBefore
<1> DEFINE path == c.path
           n == Len(path)
<1>13. /\ Len(PQF) = n + Len(QF) /\ n \in Nat /\ Len(QF) \in Nat
       /\ \A i \in 1..n : PQF[i] = path[i]
       /\ \A i \in 1..Len(QF) : PQF[n + i] = QF[i]
       /\ (path = <<>> <=> n = 0) /\ (QF = <<>> <=> Len(QF) = 0) /\ (PQF = <<>> <=> Len(PQF) = 0)
  <2>1. path \in Seq(Characters) /\ QF \in Seq(Characters) /\ PQF \in Seq(Characters)
    BY <1>1, <1>5 DEF Texts
  <2>2. /\ Len(PQF) = n + Len(QF) /\ n \in Nat /\ Len(QF) \in Nat
        /\ \A i \in 1..n : PQF[i] = path[i]
        /\ \A i \in 1..Len(QF) : PQF[n + i] = QF[i]
    BY <2>1, Two
  <2>3. \A s \in Seq(Characters) : s = <<>> <=> Len(s) = 0
    OBVIOUS
  <2> HIDE DEF PQF, path
  <2> QED
    BY <2>1, <2>2, <2>3
<1> HIDE DEF PQF, path
<1>14. /\ path = <<>> => PQF = <<>> \/ PQF[1] \in {"?", "#"}
       /\ path # <<>> => PQF # <<>> /\ PQF[1] = path[1]
       /\ n = 1 => Len(PQF) = 1 \/ PQF[2] \in {"?", "#"}
       /\ n >= 2 => PQF[2] = path[2]
  <2>1. QF # <<>> => 1 \in 1..Len(QF)
    BY <1>13
  <2>2. path = <<>> => PQF = <<>> \/ PQF[1] \in {"?", "#"}
    <3>1. ASSUME path = <<>>, QF # <<>> PROVE PQF[1] \in {"?", "#"}
      <4>1. n + 1 = 1
        BY <1>13, <3>1
      <4>2. PQF[n + 1] = QF[1]
        BY <1>13, <2>1, <3>1
      <4> QED
        BY <1>9, <3>1, <4>1, <4>2
    <3> QED
      BY <1>13, <3>1
  <2>3. path # <<>> => PQF # <<>> /\ PQF[1] = path[1]
    <3>1. path # <<>> => 1 \in 1..n /\ Len(PQF) # 0
      BY <1>13
    <3> QED
      BY <1>13, <3>1
  <2>4. n = 1 => Len(PQF) = 1 \/ PQF[2] \in {"?", "#"}
    <3>1. ASSUME n = 1, QF # <<>> PROVE PQF[2] \in {"?", "#"}
      <4>1. n + 1 = 2
        BY <3>1
      <4>2. PQF[n + 1] = QF[1]
        BY <1>13, <2>1, <3>1
      <4> QED
        BY <1>9, <3>1, <4>1, <4>2
    <3> QED
      BY <1>13, <3>1
  <2>5. n >= 2 => PQF[2] = path[2]
    <3>1. n >= 2 => 2 \in 1..n
      BY <1>13
    <3> QED
      BY <1>13, <3>1
  <2> QED
    BY <2>2, <2>3, <2>4, <2>5
<1>15. CASE c.host = <<>>
  <2>1. R = PQF
    BY <1>4, <1>5, <1>15, TextsJoin
  <2>2. ~HasAuthority(PQF)
    <3> SUFFICES ASSUME Len(PQF) >= 2, PQF[1] = "/", PQF[2] = "/" PROVE FALSE
      BY DEF HasAuthority
    <3>1. path # <<>> /\ path[1] = "/"
      <4>1. PQF # <<>>
        BY <1>13
      <4> QED
        BY <1>14, <4>1
    <3>2. n >= 2 /\ path[2] = "/"
      <4>1. n # 1
        BY <1>13, <1>14
      <4>2. n # 0
        BY <1>13, <3>1
      <4>3. n >= 2
        BY <1>13, <4>1, <4>2
      <4> QED
        BY <1>14, <4>3
    <3>3. IsPrefix(<<"/", "/">>, path)
      <4> DEFINE s == <<"/", "/">>
                 x == SubSeq(path, 1, 2)
                 y == SubSeq(s, 1, 2)
      <4>1. s \in Seq(Characters) /\ Len(s) = 2 /\ s[1] = "/" /\ s[2] = "/"
        <5>1. "/" \in Characters
          BY DEF Characters
        <5> QED
          BY ONLY <5>1
      <4>2. path \in Seq(Characters)
        BY <1>1 DEF Texts, path
      <4> HIDE DEF s
      <4> DEFINE b == 2
      <4>3. b \in Int /\ 1 \in Nat \ {0} /\ 1 - 1 <= b /\ b <= Len(s) /\ b <= Len(path) /\ b - 1 + 1 = b
        BY <3>2, <4>1
      <4> HIDE DEF b
      <4>4. /\ SubSeq(path, 1, b) \in Seq(Characters) /\ Len(SubSeq(path, 1, b)) = b
            /\ \A i \in 1..b : SubSeq(path, 1, b)[i] = path[1 + i - 1]
        BY <4>2, <4>3, Slice
      <4>5. /\ SubSeq(s, 1, b) \in Seq(Characters) /\ Len(SubSeq(s, 1, b)) = b
            /\ \A i \in 1..b : SubSeq(s, 1, b)[i] = s[1 + i - 1]
        <5>1. s \in Seq(Characters)
          BY <4>1
        <5> QED
          BY ONLY <4>3, <5>1, Slice
      <4>6. \A i \in 1..b : path[1 + i - 1] = s[1 + i - 1]
        <5>1. \A i \in 1..2 : 1 + i - 1 \in {1, 2}
          OBVIOUS
        <5> QED
          BY <3>1, <3>2, <4>1, <5>1 DEF b
      <4>7. SubSeq(path, 1, b) = SubSeq(s, 1, b)
        BY <4>4, <4>5, <4>6, SeqEqual
      <4>8. IsPrefix(s, path)
        BY <3>2, <4>1, <4>7 DEF IsPrefix, b
      <4> QED
        BY <4>8 DEF s
    <3> QED
      BY <1>3, <1>15, <3>3 DEF path
  <2>3. c.scheme = <<>> => ~StartsWith(PQF, ":")
    <3> SUFFICES ASSUME c.scheme = <<>>, PQF # <<>>, PQF[1] = ":" PROVE FALSE
      BY DEF StartsWith
    <3>1. path # <<>> /\ path[1] = ":"
      BY <1>14
    <3>2. StartsWith(path, ":")
      BY <3>1 DEF StartsWith
    <3> QED
      BY <1>3, <1>15, <3>2 DEF path
  <2> HIDE DEF full
  <2> QED
    BY <1>2, <1>5, <1>6, <1>10, <1>11, <1>12, <1>15, <2>1, <2>2, <2>3 DEF R, PQF, QF, F, Q, q, f
<1>16. CASE c.host # <<>>
  <2>1. full \in Texts /\ Without(full, {"/", "?", "#"})
    BY <1>16, AuthorityIs
  <2> HIDE DEF full
  <2> DEFINE s == <<"/">>
             t == full \o PQF
  <2>2. R = s \o (s \o t) /\ t \in Texts
    <3>1. s \in Texts /\ <<"/", "/">> = s \o s
      BY Letters
    <3>2. R = (<<"/", "/">> \o full) \o PQF
      BY <1>4, <1>16
    <3> HIDE DEF s
    <3>3. ((s \o s) \o full) \o PQF = s \o (s \o (full \o PQF)) /\ full \o PQF \in Texts
      <4>0. s \in Texts /\ full \in Texts /\ PQF \in Texts
        BY <1>5, <2>1, <3>1
      <4>1. s \o s \in Texts /\ full \o PQF \in Texts
        BY ONLY <4>0, TextsJoin
      <4> DEFINE x == s \o s
                 y == full \o PQF
      <4>a. x \in Texts /\ y \in Texts
        BY <4>1
      <4>3. x \o y = s \o (s \o y)
        <5> HIDE DEF y
        <5> QED
          BY ONLY <4>0, <4>a, TextsJoin
      <4> HIDE DEF x
      <4>2. (x \o full) \o PQF = x \o (full \o PQF)
        BY ONLY <4>0, <4>a, TextsJoin
      <4> QED
        BY <4>1, <4>2, <4>3 DEF x
    <3> QED
      BY <3>1, <3>2, <3>3
  <2> HIDE DEF t
  <2> DEFINE w == s \o t
  <2>3. w \in Texts /\ w[1] = "/" /\ Len(w) = Len(t) + 1 /\ From(w, 2) = t /\ Len(t) \in Nat
    <3>1. Len(t) \in Nat
      BY <2>2, LenProperties DEF Texts
    <3> QED
      BY <2>2, <3>1, Begins
  <2> HIDE DEF w
  <2>4. R \in Texts /\ R[1] = "/" /\ Len(R) = Len(w) + 1 /\ From(R, 2) = w /\ \A i \in 1..Len(w) : R[i + 1] = w[i]
    <3> DEFINE z == s \o w
    <3>1. z \in Texts /\ z[1] = "/" /\ Len(z) = Len(w) + 1 /\ From(z, 2) = w /\ \A i \in 1..Len(w) : z[i + 1] = w[i]
      BY <2>3, Begins
    <3>2. R = z
      BY <2>2 DEF w
    <3> QED
      BY <3>1, <3>2
  <2>5. R[2] = "/" /\ Len(R) >= 2
    <3>1. 1 \in 1..Len(w) /\ 1 + 1 = 2
      BY <2>3
    <3> QED
      BY <2>3, <2>4, <3>1
  <2>6. HasAuthority(R)
    BY <2>4, <2>5 DEF HasAuthority
  <2>7. From(R, 3) = t
    <3>1. R \in Seq(Characters) /\ 2 \in 1..Len(R) + 1 /\ 2 \in 1..Len(R) - 2 + 2 /\ 2 + 2 - 1 = 3
      BY <2>3, <2>4 DEF Texts
    <3>2. From(From(R, 2), 2) = From(R, 2 + 2 - 1)
      BY <3>1, Tails
    <3> QED
      BY <2>3, <2>4, <3>1, <3>2
  <2>8. RSplit(t, {"/", "?", "#"}, 0) = <<full, PQF>>
    <3>1. PQF # <<>> => PQF[1] \in {"/", "?", "#"}
      <4>1. path # <<>> => path[1] = "/"
        BY <1>3, <1>16 DEF StartsWith, path
      <4> QED
        BY <1>14, <4>1
    <3>2. Meets(full, PQF, {"/", "?", "#"})
      BY <2>1, <3>1 DEF Meets, Without
    <3> QED
      BY <1>5, <2>1, <3>2, SplitsBefore DEF t
  <2>9. ~StartsWith(R, ":")
    BY <2>4 DEF StartsWith
  <2> QED
    BY <1>2, <1>5, <1>6, <1>10, <1>11, <1>12, <1>16, <2>4, <2>6, <2>7, <2>8, <2>9
       DEF R, PQF, QF, F, Q, q, f, full
<1> QED
  BY <1>15, <1>16


LEMMA ParsedAsMeant ==
  ASSUME NEW c, Composable(c), NEW url, NEW s, Split(url, {":"}, 1) = <<s, Rest(c)>>
  PROVE  Parse(url) = [Meant(c) EXCEPT !.scheme = s]
<1> DEFINE q == Given(c.query)
           f == Given(c.fragment)
           Q == Part(<<"?">>, c.query, <<>>)
           F == Part(<<"#">>, c.fragment, <<>>)
           QF == Q \o F
           PQF == c.path \o QF
           R == Rest(c)
           full == FullAuthority(c)
<1>1. /\ HasAuthority(R) <=> c.host # <<>>
      /\ c.host # <<>> => RSplit(From(R, 3), {"/", "?", "#"}, 0) = <<full, PQF>>
      /\ c.host = <<>> => R = PQF
      /\ RSplit(PQF, {"?", "#"}, 0) = <<c.path, QF>>
      /\ c.query # <<>> => StartsWith(QF, "?") /\ RSplit(From(QF, 2), {"#"}, 0) = <<q, F>>
      /\ c.query = <<>> => ~StartsWith(QF, "?") /\ QF = F /\ q = <<>>
      /\ From(F, 2) = f
  BY RestIs
<1>2. c.host # <<>> => Authority(full) = Meant(c).authority
  BY AuthorityIs
<1>3. c.host = <<>> => NoAuthority = Meant(c).authority
  <2> SUFFICES ASSUME c.host = <<>> PROVE NoAuthority = Meant(c).authority
    OBVIOUS
  <2>1. c.userinfo = <<>> /\ c.port = <<>>
    BY DEF Composable
  <2>2. Given(<<>>) = <<>> /\ Part(<<>>, <<>>, <<"@">>) = <<>> /\ Part(<<>>, <<>>, <<>>) = <<>> /\ Part(<<":">>, <<>>, <<>>) = <<>>
    BY DEF Given, Part
  <2>3. <<>> \o <<>> = <<>>
    OBVIOUS
  <2>4. full = <<>>
    BY <2>1, <2>2, <2>3 DEF FullAuthority
  <2>5. Port(<<>>) = 0
    BY PortOfNothing
  <2>6. Meant(c).authority = [full |-> full, userinfo |-> Given(c.userinfo), host |-> Given(c.host), port |-> Port(Given(c.port))]
    BY DEF Meant
  <2> HIDE DEF full
  <2> QED
    BY <2>1, <2>2, <2>4, <2>5, <2>6 DEF NoAuthority
<1> DEFINE scheme == Split(url, {":"}, 1)
           parts == IF HasAuthority(scheme[2]) THEN RSplit(From(scheme[2], 3), {"/", "?", "#"}, 0) ELSE <<<<>>, scheme[2]>>
           path == RSplit(parts[2], {"?", "#"}, 0)
           query == IF StartsWith(path[2], "?") THEN RSplit(From(path[2], 2), {"#"}, 0) ELSE <<<<>>, path[2]>>
           authority == IF HasAuthority(scheme[2]) THEN Authority(parts[1]) ELSE NoAuthority
<1>4. Parse(url) = [scheme |-> scheme[1], authority |-> authority, path |-> path[1], query |-> query[1],
                    fragment |-> From(query[2], 2)]
  BY DEF Parse
<1> HIDE DEF q, f, F, QF, PQF, R, full
<1>5. scheme[1] = s /\ scheme[2] = R
  <2>1. scheme = <<s, R>>
    BY DEF R
  <2> HIDE DEF scheme
  <2> QED
    BY <2>1
<1> HIDE DEF scheme
<1>6. parts[2] = PQF /\ (c.host # <<>> => parts[1] = full)
  BY <1>1, <1>5
<1>7. authority = Meant(c).authority
  <2> HIDE DEF parts
  <2> QED
    BY <1>1, <1>2, <1>3, <1>5, <1>6
<1> HIDE DEF parts, authority
<1>8. path[1] = c.path /\ path[2] = QF
  <2>1. path = <<c.path, QF>>
    BY <1>1, <1>6
  <2> HIDE DEF path
  <2> QED
    BY <2>1
<1> HIDE DEF path
<1>9. query[1] = q /\ query[2] = F
  BY <1>1, <1>8
<1> HIDE DEF query
<1>10. Parse(url) = [scheme |-> s, authority |-> Meant(c).authority, path |-> c.path, query |-> q, fragment |-> f]
  BY <1>1, <1>4, <1>5, <1>7, <1>8, <1>9
<1>11. [Meant(c) EXCEPT !.scheme = s] =
         [scheme |-> s, authority |-> Meant(c).authority, path |-> c.path, query |-> q, fragment |-> f]
  BY DEF Meant, q, f
<1> QED
  BY <1>10, <1>11

LEMMA RegroupTexts ==
  ASSUME NEW s \in Texts, NEW t \in Texts, NEW u \in Texts
  PROVE  (s \o t) \o u = s \o (t \o u)
<1>1. s \in Seq(Characters) /\ t \in Seq(Characters) /\ u \in Seq(Characters)
  BY DEF Texts
<1> QED
  BY ONLY <1>1, ConcatAssociative

Then(s, t) == s \o t

LEMMA ThenIs ==
  \A s, t \in Texts : Then(s, t) \in Texts /\ \A u \in Texts : Then(Then(s, t), u) = Then(s, Then(t, u))
<1>1. ASSUME NEW s \in Texts, NEW t \in Texts PROVE Then(s, t) \in Texts
  BY TextsJoin DEF Then
<1>2. ASSUME NEW s \in Texts, NEW t \in Texts, NEW u \in Texts PROVE Then(Then(s, t), u) = Then(s, Then(t, u))
  BY RegroupTexts DEF Then
<1> QED
  BY ONLY <1>1, <1>2

LEMMA FiveParts ==
  ASSUME NEW a \in Texts, NEW b \in Texts, NEW c \in Texts, NEW d \in Texts, NEW e \in Texts
  PROVE  (((a \o b) \o c) \o d) \o e = a \o (b \o (c \o (d \o e))) /\ b \o (c \o (d \o e)) \in Texts
<1>1. Then(a, b) \in Texts /\ Then(d, e) \in Texts
  BY ThenIs
<1>2. Then(Then(a, b), c) \in Texts /\ Then(c, Then(d, e)) \in Texts
  BY <1>1, ThenIs
<1>3. Then(b, Then(c, Then(d, e))) \in Texts
  BY <1>2, ThenIs
<1>4. Then(Then(Then(Then(a, b), c), d), e) = Then(Then(Then(a, b), c), Then(d, e))
  BY <1>2, ThenIs
<1>5. Then(Then(Then(a, b), c), Then(d, e)) = Then(Then(a, b), Then(c, Then(d, e)))
  BY <1>1, ThenIs
<1>6. Then(Then(a, b), Then(c, Then(d, e))) = Then(a, Then(b, Then(c, Then(d, e))))
  BY <1>2, ThenIs
<1>7. Then(Then(Then(Then(a, b), c), d), e) = Then(a, Then(b, Then(c, Then(d, e))))
  BY <1>4, <1>5, <1>6
<1> QED
  BY ONLY <1>3, <1>7 DEF Then

(* A text is the scheme, if there is one, and the rest.                    *)
LEMMA TextIs ==
  ASSUME NEW c, Composable(c)
  PROVE  /\ c.scheme = <<>> => Text(c) = Rest(c)
         /\ c.scheme # <<>> => Text(c) = c.scheme \o (<<":">> \o Rest(c))
<1> DEFINE Q == Part(<<"?">>, c.query, <<>>)
           F == Part(<<"#">>, c.fragment, <<>>)
           A == IF c.host = <<>> THEN <<>> ELSE <<"/", "/">> \o FullAuthority(c)
           S == IF c.scheme = <<>> THEN <<>> ELSE Append(c.scheme, ":")
           P == c.path
           s == c.scheme
           y == <<":">>
<1>1. Text(c) = (((S \o A) \o P) \o Q) \o F /\ Rest(c) = A \o (P \o (Q \o F))
  BY DEF Text, Rest
<1>2. P \in Texts /\ Q \in Texts /\ F \in Texts /\ s \in Texts /\ y \in Texts
  BY PartsAreTexts, PartIs, Letters
<1>3. A \in Texts
  <2>1. c.host # <<>> => FullAuthority(c) \in Texts
    BY AuthorityIs
  <2>2. <<"/", "/">> \in Texts
    <3>1. "/" \in Characters
      BY DEF Characters
    <3> QED
      BY ONLY <3>1 DEF Texts
  <2> DEFINE z == <<"/", "/">>
             full == FullAuthority(c)
  <2> HIDE DEF z, full
  <2>3. c.host # <<>> => z \o full \in Texts
    BY <2>1, <2>2, TextsJoin DEF z, full
  <2>4. <<>> \in Texts
    BY TextsJoin
  <2> QED
    BY <2>3, <2>4 DEF z, full
<1>4. /\ s = <<>> => S = <<>>
      /\ s # <<>> => S = s \o y
  <2>1. ":" \in Characters
    BY DEF Characters
  <2>2. s \in Seq(Characters)
    BY <1>2 DEF Texts
  <2>3. Append(s, ":") = s \o <<":">>
    <3> DEFINE x == ":"
    <3>1. x \in Characters
      BY <2>1
    <3> HIDE DEF x, s
    <3>2. Append(s, x) = s \o <<x>>
      BY ONLY <2>2, <3>1, AppendIsConcat
    <3> QED
      BY <3>2 DEF x
  <2> QED
    BY <2>3
<1> HIDE DEF A, S, P, Q, F, s, y
<1>5. S \in Texts
  <2>1. s \o y \in Texts
    BY <1>2, TextsJoin
  <2>2. <<>> \in Texts
    BY TextsJoin
  <2> QED
    BY <1>4, <2>1, <2>2
<1> DEFINE R == A \o (P \o (Q \o F))
<1>6. (((S \o A) \o P) \o Q) \o F = S \o R /\ R \in Texts
  BY <1>2, <1>3, <1>5, FiveParts
<1>8. Text(c) = S \o R /\ Rest(c) = R
  BY <1>1, <1>6
<1> HIDE DEF R
<1>9. s = <<>> => S \o R = R
  <2>1. <<>> \o R = R
    BY <1>6, TextsJoin
  <2> QED
    BY <1>4, <2>1
<1>10. s # <<>> => S \o R = s \o (y \o R)
  <2>1. (s \o y) \o R = s \o (y \o R)
    BY <1>2, <1>6, RegroupTexts
  <2> QED
    BY <1>4, <2>1
<1> QED
  BY <1>8, <1>9, <1>10 DEF s, y

LEMMA TakenApartAsComposed ==
  ASSUME NEW c, Composable(c)
  PROVE  Parse(Text(c)) = Meant(c) <=> (c.scheme # <<>> \/ ~Contains(Text(c), ":"))
<1> DEFINE R == Rest(c)
           t == Text(c)
<1>1. R \in Texts /\ (c.scheme = <<>> => ~StartsWith(R, ":")) /\ c.scheme \in Texts
  BY RestIs, PartsAreTexts
<1>2. [Meant(c) EXCEPT !.scheme = c.scheme] = Meant(c) /\ Meant(c).scheme = c.scheme
  BY DEF Meant
<1>3. CASE c.scheme # <<>>
  <2>1. t = c.scheme \o (<<":">> \o R)
    BY <1>3, TextIs
  <2>2. Without(c.scheme, {":"})
    BY DEF Composable
  <2> HIDE DEF R, t
  <2>3. Split(c.scheme \o (<<":">> \o R), {":"}, 1) = <<c.scheme, R>>
    BY <1>1, <2>2, SplitsAround
  <2>4. Split(t, {":"}, 1) = <<c.scheme, Rest(c)>>
    BY <2>1, <2>3 DEF R
  <2>5. Parse(t) = Meant(c)
    BY <1>2, <2>4, ParsedAsMeant
  <2> QED
    BY <1>3, <2>5 DEF t
<1>4. CASE c.scheme = <<>> /\ ~Contains(t, ":")
  <2>1. t = R
    BY <1>4, TextIs
  <2>2. Without(R, {":"})
    BY <1>4, <2>1 DEF Contains, Without
  <2> HIDE DEF R, t
  <2>3. Split(R, {":"}, 1) = <<<<>>, R>>
    BY <1>1, <2>2, SplitsAround
  <2>4. Split(t, {":"}, 1) = <<c.scheme, Rest(c)>>
    BY <1>4, <2>1, <2>3 DEF R
  <2>5. Parse(t) = Meant(c)
    BY <1>2, <2>4, ParsedAsMeant
  <2> QED
    BY <1>4, <2>5 DEF t
<1>5. CASE c.scheme = <<>> /\ Contains(t, ":")
  <2>1. t = R
    BY <1>5, TextIs
  <2> DEFINE p == FirstOf(t, {":"})
  <2>2. t \in Seq(Characters) /\ Len(t) \in Nat
    BY <1>1, <2>1, LenProperties DEF Texts
  <2> HIDE DEF R, t
  <2>3. p \in 0..Len(t) /\ (p = 0 => \A i \in 1..Len(t) : t[i] \notin {":"}) /\ (p # 0 => t[p] \in {":"})
    BY <2>2, FirstOfIs
  <2> HIDE DEF p
  <2>4. p # 0
    BY <1>5, <2>3 DEF Contains
  <2>5. p # 1
    <3>1. t # <<>>
      BY <2>2, <2>3, <2>4
    <3>2. ~StartsWith(t, ":")
      BY <1>1, <1>5, <2>1
    <3> QED
      BY <2>3, <3>1, <3>2 DEF StartsWith
  <2>6. Split(t, {":"}, 1)[1] = SubSeq(t, 1, p - 1)
    <3>1. Split(t, {":"}, 1) = SplitAt(t, p, 1, 0)
      BY <2>4 DEF Split, p
    <3>2. p + 0 - 1 = p - 1
      BY <2>3
    <3> QED
      BY <3>1, <3>2 DEF SplitAt
  <2>7. SubSeq(t, 1, p - 1) # <<>>
    <3> DEFINE b == p - 1
    <3>1. b \in Int /\ 1 - 1 <= b /\ b <= Len(t) /\ 1 \in Nat \ {0} /\ b > 0
      BY <2>2, <2>3, <2>4, <2>5
    <3> HIDE DEF b
    <3>2. Len(SubSeq(t, 1, b)) = b - 1 + 1
      BY ONLY <2>2, <3>1, Slice
    <3>3. Len(<<>>) = 0
      OBVIOUS
    <3> QED
      BY <3>1, <3>2, <3>3 DEF b
  <2>8. Parse(t).scheme = Split(t, {":"}, 1)[1]
    BY DEF Parse
  <2>9. Parse(t).scheme # <<>>
    BY <2>6, <2>7, <2>8
  <2>10. Parse(t) # Meant(c)
    BY <1>2, <1>5, <2>9
  <2> QED
    BY <1>5, <2>10 DEF t
<1> QED
  BY <1>3, <1>4, <1>5

-----------------------------------------------------------------------------
(* The pieces of a text. Each step of the loop goes on with a shorter text. *)
Descends(f, n, V, E, b, g, r) ==
    f \in [0..n -> V] /\ \A k \in 0..n : f[k] = IF k \in E THEN b[k] ELSE g[k][f[r[k]]]

LEMMA Descent ==
  ASSUME NEW n \in Nat, NEW V, NEW E, NEW b \in [0..n -> V], NEW g \in [0..n -> [V -> V]],
         NEW r \in [0..n -> 0..n], \A k \in 0..n : k \notin E => r[k] < k
  PROVE  \E f : Descends(f, n, V, E, b, g, r)
<1> DEFINE value(k, f) == IF k \in E THEN b[k] ELSE g[k][f[r[k]]]
           Upto(m, f) == f \in [0..m -> V] /\ \A k \in 0..m : f[k] = value(k, f)
           S == {m \in 0..n : \E f : Upto(m, f)}
<1>1. 0 \in S
  <2> DEFINE f == [k \in 0..0 |-> b[0]]
  <2>1. 0 \in 0..n /\ \A k \in 0..0 : k = 0
    OBVIOUS
  <2>2. 0 \in E
    <3>1. r[0] \in 0..n
      BY <2>1
    <3>2. ~(r[0] < 0)
      BY <3>1
    <3> QED
      BY <2>1, <3>2
  <2>3. b[0] \in V
    BY <2>1
  <2>4. Upto(0, f)
    BY <2>1, <2>2, <2>3
  <2> HIDE DEF f, Upto
  <2> QED
    BY <2>1, <2>4
<1>2. ASSUME NEW m \in 1..n, m - 1 \in S PROVE m \in S
  <2> DEFINE l == m - 1
  <2>1. l \in 0..n /\ m \in 0..n /\ 0..m = (0..l) \union {m} /\ m \notin 0..l /\ \A k \in 0..m : k \in 0..n /\ k <= m
    <3>1. l \in 0..n
      OBVIOUS
    <3>4. m \in 0..n
      OBVIOUS
    <3>5. m \notin 0..l
      OBVIOUS
    <3>2. 0..m = (0..l) \union {m}
      <4>1. l \in Nat /\ m = l + 1
        BY <3>1
      <4> HIDE DEF l
      <4>2. /\ \A k \in 0..l + 1 : k \in 0..l \/ k = l + 1
            /\ \A k \in 0..l : k \in 0..l + 1
            /\ l + 1 \in 0..l + 1
        BY ONLY <4>1
      <4>3. 0..m \subseteq (0..l) \union {m} /\ (0..l) \union {m} \subseteq 0..m
        BY <4>1, <4>2
      <4> QED
        BY ONLY <4>3
    <3>3. \A k \in 0..m : k \in 0..n /\ k <= m
      OBVIOUS
    <3> QED
      BY <3>1, <3>2, <3>3, <3>4, <3>5
  <2>2. PICK f : Upto(l, f)
    <3> HIDE DEF Upto
    <3> QED
      BY <1>2 DEF S
  <2>3. \A k \in 0..m : k \notin E => r[k] \in 0..l
    <3>1. ASSUME NEW k \in 0..m, k \notin E PROVE r[k] \in 0..l
      <4>1. k \in 0..n /\ k <= m /\ l = m - 1
        BY <2>1
      <4>2. r[k] \in 0..n /\ r[k] < k
        BY <3>1, <4>1
      <4> HIDE DEF l
      <4> QED
        BY <4>1, <4>2
    <3> QED
      BY <3>1
  <2> HIDE DEF l
  <2> DEFINE v == value(m, f)
             h == [k \in 0..m |-> IF k = m THEN v ELSE f[k]]
  <2>4. v \in V
    <3>1. CASE m \in E
      BY <2>1, <3>1
    <3>2. CASE m \notin E
      <4>1. m \in 0..m
        BY <2>1
      <4>2. f[r[m]] \in V
        BY <2>2, <2>3, <3>2, <4>1
      <4> HIDE DEF l
      <4>3. g[m] \in [V -> V]
        BY <2>1
      <4> QED
        BY <3>2, <4>2, <4>3
    <3> QED
      BY <3>1, <3>2
  <2> HIDE DEF v
  <2>5. h \in [0..m -> V]
    BY <2>1, <2>2, <2>4
  <2>6. \A k \in 0..l : h[k] = f[k]
    BY <2>1
  <2>7. h[m] = v
    BY <2>1
  <2>8. ASSUME NEW k \in 0..m PROVE value(k, h) = value(k, f)
    <3>1. k \notin E => r[k] \in 0..l
      BY <2>3
    <3> HIDE DEF h
    <3> QED
      BY <2>6, <3>1
  <2>9. ASSUME NEW k \in 0..m PROVE h[k] = value(k, f)
    <3>1. CASE k = m
      BY <2>7, <3>1 DEF v
    <3>2. CASE k # m
      <4>1. k \in 0..l
        BY <2>1, <3>2
      <4>2. h[k] = f[k]
        BY <2>6, <4>1
      <4>3. f[k] = value(k, f)
        BY <2>2, <4>1
      <4> HIDE DEF h, value
      <4> QED
        BY <4>2, <4>3
    <3> QED
      BY <3>1, <3>2
  <2> HIDE DEF h, value
  <2>10. Upto(m, h)
    BY <2>5, <2>8, <2>9
  <2> HIDE DEF Upto
  <2> QED
    BY <2>1, <2>10
<1>3. \A k \in 0..n : k \in S
  <2> HIDE DEF S
  <2> QED
    BY <1>1, <1>2, InductionUpTo
<1>4. n \in S
  <2> HIDE DEF S
  <2> QED
    BY <1>3
<1> HIDE DEF value
<1>5. PICK f : Upto(n, f)
  <2> HIDE DEF Upto
  <2> QED
    BY <1>4 DEF S
<1>6. Descends(f, n, V, E, b, g, r)
  BY <1>5 DEF Descends, value
<1> QED
  BY <1>6

(* The end of the piece that begins at a: the next separator, or the end.  *)
EndsAt(t, a, chars, e) ==
    /\ e \in a..Len(t) + 1
    /\ \A i \in a..e - 1 : t[i] \notin chars
    /\ e <= Len(t) => t[e] \in chars

LEMMA PieceEnds ==
  ASSUME NEW C, NEW t \in Seq(C), NEW a \in 1..Len(t) + 1, NEW chars, NEW e, EndsAt(t, a, chars, e)
  PROVE  PieceAt(t, a, chars) = SubSeq(t, a, e - 1)
<1> DEFINE I == {i \in a..Len(t) : t[i] \in chars}
           p == IF I # {} THEN Min(I) ELSE 0
<1>1. Len(t) \in Nat /\ I \in SUBSET Nat /\ 0 \notin I
  BY LenProperties
<1>2. PieceAt(t, a, chars) = SubSeq(t, a, IF p = 0 THEN Len(t) ELSE p - 1)
  BY DEF PieceAt, SelectInSubSeq
<1>3. CASE I = {}
  <2>1. ~(e <= Len(t))
    <3>1. e <= Len(t) => e \in I
      BY DEF EndsAt
    <3> QED
      BY <1>3, <3>1
  <2>2. e - 1 = Len(t)
    BY <1>1, <2>1 DEF EndsAt
  <2> QED
    BY <1>2, <1>3, <2>2
<1>4. CASE I # {}
  <2>1. Min(I) \in I /\ \A i \in I : Min(I) <= i
    <3> HIDE DEF I
    <3> QED
      BY <1>1, <1>4, Least
  <2>2. p = Min(I) /\ p # 0
    BY <1>1, <1>4, <2>1
  <2>3. \A i \in a..e - 1 : i \notin I
    BY DEF EndsAt
  <2>4. p \in I /\ p >= e /\ p <= Len(t)
    BY <1>1, <2>1, <2>2, <2>3 DEF EndsAt
  <2>5. e \in I
    BY <1>1, <2>4 DEF EndsAt
  <2>6. p <= e
    BY <2>1, <2>2, <2>5
  <2> HIDE DEF I, p
  <2>7. p = e
    BY <2>4, <2>6, <1>1 DEF EndsAt, I
  <2> QED
    BY <1>2, <2>2, <2>7
<1> QED
  BY <1>3, <1>4

(* What the iterator does with a text from a on.                           *)
LEMMA CutsAtEnd ==
  ASSUME NEW C, NEW t \in Seq(C), NEW a \in 1..Len(t) + 1, NEW chars
  PROVE  \E e : /\ EndsAt(t, a, chars, e)
                /\ RSplit(From(t, a), chars, 1) =
                     <<SubSeq(t, a, e - 1), IF e < Len(t) THEN From(t, e + 1) ELSE <<>>>>
<1> DEFINE s == From(t, a)
           p == FirstOf(s, chars)
           n == Len(t) - a + 1
<1>1. /\ s \in Seq(C) /\ Len(s) = n /\ Len(t) \in Nat /\ n \in Nat
      /\ \A k \in 1..n : s[k] = t[a + k - 1]
  <2>1. Len(t) \in Nat
    BY LenProperties
  <2> QED
    BY <2>1, Slice DEF From
<1> HIDE DEF s
<1>2. /\ p \in 0..n
      /\ p = 0 => \A k \in 1..n : s[k] \notin chars
      /\ p # 0 => s[p] \in chars /\ \A k \in 1..n : s[k] \in chars => p <= k
  BY <1>1, FirstOfIs
<1> HIDE DEF p
<1>3. CASE p = 0
  <2> DEFINE e == Len(t) + 1
  <2>1. ASSUME NEW i \in a..e - 1 PROVE t[i] \notin chars
    <3> DEFINE k == i - a + 1
    <3>1. k \in 1..n /\ a + k - 1 = i
      BY <1>1
    <3> HIDE DEF k, n
    <3> QED
      BY <1>1, <1>2, <1>3, <3>1
  <2>2. EndsAt(t, a, chars, e)
    BY <1>1, <2>1 DEF EndsAt
  <2>3. RSplit(s, chars, 1) = <<s, <<>>>>
    BY <1>3 DEF RSplit, p
  <2>4. e - 1 = Len(t) /\ ~(e < Len(t))
    BY <1>1
  <2>5. s = SubSeq(t, a, e - 1)
    BY <2>4 DEF s, From
  <2> HIDE DEF e
  <2> QED
    BY <2>2, <2>3, <2>4, <2>5 DEF s
<1>4. CASE p # 0
  <2> DEFINE e == a + p - 1
  <2>1. p \in 1..n /\ e \in a..Len(t) /\ t[e] \in chars
    BY <1>1, <1>2, <1>4
  <2>2. ASSUME NEW i \in a..e - 1 PROVE t[i] \notin chars
    <3> DEFINE k == i - a + 1
    <3>1. k \in 1..n /\ a + k - 1 = i /\ ~(p <= k)
      BY <1>1, <2>1
    <3> HIDE DEF k, n
    <3> QED
      BY <1>1, <1>2, <1>4, <3>1
  <2>3. EndsAt(t, a, chars, e)
    <3>1. e \in a..Len(t) + 1
      BY <1>1, <2>1
    <3> HIDE DEF e
    <3> QED
      BY <2>1, <2>2, <3>1 DEF EndsAt
  <2>4. RSplit(s, chars, 1) = <<SubSeq(s, 1, p + 0 - 1), From(s, p + 1)>>
    BY <1>4 DEF RSplit, SplitAt, p
  <2>5. p + 0 - 1 = p - 1
    BY <2>1
  <2>6. SubSeq(s, 1, p - 1) = SubSeq(t, a, e - 1)
    <3> DEFINE j == p - 1
    <3>1. 1 \in Nat \ {0} /\ j \in Int /\ 1 - 1 <= j /\ a + j - 1 <= Len(t) /\ a + 1 - 1 = a /\ a + j - 1 = e - 1
      BY <1>1, <2>1
    <3> HIDE DEF j
    <3>2. a \in Nat \ {0} /\ a <= Len(t) + 1
      BY <1>1
    <3> HIDE DEF e, n
    <3>3. SubSeq(From(t, a), 1, j) = SubSeq(t, a + 1 - 1, a + j - 1)
      BY ONLY t \in Seq(C), <3>1, <3>2, SliceOfSlice
    <3> QED
      BY <3>1, <3>3 DEF s, j
  <2>7. From(s, p + 1) = From(t, e + 1)
    <3> DEFINE j == p + 1
    <3>1. j \in 1..Len(t) - a + 2 /\ a + j - 1 = e + 1
      BY <1>1, <2>1
    <3> HIDE DEF j, e, n
    <3>2. From(From(t, a), j) = From(t, a + j - 1)
      BY <3>1, Tails
    <3> QED
      BY <3>1, <3>2 DEF s, j
  <2>8. CASE e < Len(t)
    BY <2>3, <2>4, <2>5, <2>6, <2>7, <2>8 DEF s
  <2>9. CASE ~(e < Len(t))
    <3>1. e = Len(t)
      <4>1. e \in a..Len(t) /\ Len(t) \in Nat
        BY <1>1, <2>1
      <4> HIDE DEF e
      <4> QED
        BY <2>9, <4>1
    <3>2. From(t, Len(t) + 1) = <<>>
      <4> DEFINE l == Len(t) + 1
      <4>1. l \in Nat \ {0} /\ l - 1 <= Len(t) /\ Len(t) \in Int /\ Len(t) <= Len(t) /\ Len(t) - l + 1 = 0
        BY <1>1
      <4> HIDE DEF l
      <4>2. SubSeq(t, l, Len(t)) \in Seq(C) /\ Len(SubSeq(t, l, Len(t))) = 0
        BY ONLY t \in Seq(C), <4>1, Slice
      <4>3. SubSeq(t, l, Len(t)) = <<>>
        BY <4>2, EmptySeq
      <4> QED
        BY <4>3 DEF From, l
    <3> HIDE DEF e
    <3> QED
      BY <2>3, <2>4, <2>5, <2>6, <2>7, <2>9, <3>1, <3>2 DEF s
  <2> QED
    BY <2>8, <2>9
<1> QED
  BY <1>3, <1>4

(* The pieces of a text from a on, and where each of them begins.          *)
Cuts(t, chars, a, f, at, D) ==
    /\ f \in Seq(D) /\ Len(f) # 0
    /\ at \in [1..Len(f) -> a..Len(t) + 1] /\ at[1] = a
    /\ \A k \in 1..Len(f) : f[k] = PieceAt(t, at[k], chars)
    /\ \A k \in 2..Len(f) : at[k] \in Starts(t, chars) /\ at[k - 1] < at[k]
    /\ \A i \in Starts(t, chars) : i >= a => \E k \in 1..Len(f) : at[k] = i

LEMMA LastPiece ==
  ASSUME NEW C, NEW t \in Seq(C), NEW a \in 1..Len(t) + 1, NEW chars, NEW e, EndsAt(t, a, chars, e), ~(e < Len(t)),
         NEW D, SubSeq(t, a, e - 1) \in D
  PROVE  \E at : Cuts(t, chars, a, <<SubSeq(t, a, e - 1)>>, at, D)
<1> DEFINE s == SubSeq(t, a, e - 1)
           f == <<s>>
           at == [k \in 1..1 |-> a]
<1>1. f \in Seq(D) /\ Len(f) = 1 /\ f[1] = s /\ 1..1 = {1} /\ 2..1 = {} /\ Len(t) \in Nat
  <2>1. Len(t) \in Nat /\ s \in D
    BY LenProperties
  <2> HIDE DEF s
  <2> QED
    BY <2>1
<1>2. s = PieceAt(t, a, chars)
  BY PieceEnds
<1>3. ASSUME NEW i \in Starts(t, chars), i >= a PROVE i = a
  <2>1. i \in 1..Len(t) /\ (i = 1 \/ t[i - 1] \in chars)
    BY DEF Starts
  <2>2. CASE i # a
    <3>1. i - 1 \in a..e - 1 /\ i # 1
      BY <1>1, <1>3, <2>1, <2>2 DEF EndsAt
    <3> QED
      BY <2>1, <3>1 DEF EndsAt
  <2> QED
    BY <2>2
<1> HIDE DEF s, f
<1>4. Cuts(t, chars, a, f, at, D)
  <2>1. at \in [1..1 -> a..Len(t) + 1] /\ at[1] = a
    BY <1>1
  <2> HIDE DEF at
  <2> QED
    BY <1>1, <1>2, <1>3, <2>1 DEF Cuts
<1> QED
  BY <1>4 DEF f, s

LEMMA OnePieceMore ==
  ASSUME NEW C, NEW t \in Seq(C), NEW a \in 1..Len(t) + 1, NEW chars, NEW e, EndsAt(t, a, chars, e), e < Len(t),
         NEW D, SubSeq(t, a, e - 1) \in D, NEW g, NEW next, Cuts(t, chars, e + 1, g, next, D)
  PROVE  \E at : Cuts(t, chars, a, <<SubSeq(t, a, e - 1)>> \o g, at, D)
<1> DEFINE s == SubSeq(t, a, e - 1)
           f == <<s>> \o g
           m == Len(g)
           n == m + 1
           at == [k \in 1..n |-> IF k = 1 THEN a ELSE next[k - 1]]
<1>1. Len(t) \in Nat /\ g \in Seq(D) /\ m \in Nat \ {0} /\ e \in a..Len(t) + 1
  BY LenProperties DEF Cuts, EndsAt
<1>2. f \in Seq(D) /\ Len(f) = n /\ f[1] = s /\ \A k \in 2..n : f[k] = g[k - 1]
  <2>1. <<s>> \in Seq(D) /\ Len(<<s>>) = 1 /\ <<s>>[1] = s
    <3>1. s \in D
      OBVIOUS
    <3> HIDE DEF s
    <3> QED
      BY ONLY <3>1
  <2> DEFINE y == <<s>>
  <2> HIDE DEF y, s
  <2>2. y \in Seq(D) /\ Len(y) = 1 /\ y[1] = s
    BY <2>1 DEF y
  <2>3. y \o g \in Seq(D) /\ Len(y \o g) = 1 + m /\ \A k \in 1..1 + m : (y \o g)[k] = IF k <= 1 THEN y[k] ELSE g[k - 1]
    <3>1. /\ y \o g \in Seq(D) /\ Len(y \o g) = Len(y) + Len(g)
          /\ \A k \in 1..Len(y) + Len(g) : (y \o g)[k] = IF k <= Len(y) THEN y[k] ELSE g[k - Len(y)]
      BY <1>1, <2>2, ConcatProperties
    <3> QED
      BY <2>2, <3>1
  <2>4. f = y \o g
    BY DEF y
  <2> HIDE DEF f, m
  <2>5. Len(f) = n /\ 1 \in 1..1 + m /\ \A k \in 2..n : k \in 1..1 + m /\ ~(k <= 1)
    BY <1>1, <2>3, <2>4
  <2> QED
    BY <2>2, <2>3, <2>4, <2>5
<1>3. s = PieceAt(t, a, chars)
  BY PieceEnds
<1>4. /\ next \in [1..m -> e + 1..Len(t) + 1] /\ next[1] = e + 1
      /\ \A k \in 1..m : g[k] = PieceAt(t, next[k], chars)
      /\ \A k \in 2..m : next[k] \in Starts(t, chars) /\ next[k - 1] < next[k]
      /\ \A i \in Starts(t, chars) : i >= e + 1 => \E k \in 1..m : next[k] = i
  BY DEF Cuts
<1>5. e + 1 \in Starts(t, chars)
  <2>1. e + 1 \in 1..Len(t) /\ (e + 1) - 1 = e /\ t[e] \in chars
    BY <1>1 DEF EndsAt
  <2> QED
    BY <2>1 DEF Starts
<1>6. ASSUME NEW i \in Starts(t, chars), i >= a PROVE i = a \/ i >= e + 1
  <2>1. i \in 1..Len(t) /\ (i = 1 \/ t[i - 1] \in chars)
    BY DEF Starts
  <2>2. CASE i # a /\ ~(i >= e + 1)
    <3>1. i - 1 \in a..e - 1 /\ i # 1
      BY <1>1, <1>6, <2>1, <2>2
    <3> QED
      BY <2>1, <3>1 DEF EndsAt
  <2> QED
    BY <2>2
<1> HIDE DEF s, f, m
<1>7. \A k \in 2..n : k \in 1..n /\ k # 1 /\ k - 1 \in 1..m
  BY <1>1
<1>8. at[1] = a /\ \A k \in 2..n : at[k] = next[k - 1]
  <2>1. 1 \in 1..n
    BY <1>1
  <2> HIDE DEF n
  <2> QED
    BY <1>7, <2>1
<1>9. ASSUME NEW k \in 1..n PROVE at[k] \in a..Len(t) + 1 /\ f[k] = PieceAt(t, at[k], chars)
  <2>1. CASE k = 1
    BY <1>1, <1>2, <1>3, <1>8, <2>1
  <2>2. CASE k # 1
    <3>1. k \in 2..n
      BY <1>1, <2>2
    <3> DEFINE j == k - 1
    <3>2. j \in 1..m /\ at[k] = next[j] /\ f[k] = g[j]
      BY <1>2, <1>7, <1>8, <3>1
    <3> HIDE DEF j, at, n
    <3>3. next[j] \in e + 1..Len(t) + 1 /\ g[j] = PieceAt(t, next[j], chars)
      BY <1>4, <3>2
    <3>4. next[j] \in a..Len(t) + 1
      BY <1>1, <3>3
    <3> QED
      BY <3>2, <3>3, <3>4
  <2> QED
    BY <2>1, <2>2
<1>10. ASSUME NEW k \in 2..n PROVE at[k] \in Starts(t, chars) /\ at[k - 1] < at[k]
  <2> DEFINE j == k - 1
  <2>1. j \in 1..m /\ at[k] = next[j]
    BY <1>7, <1>8
  <2>2. CASE k = 2
    <3>1. j = 1 /\ k - 1 = 1
      BY <2>2
    <3> HIDE DEF j, at, n
    <3>2. at[k] = e + 1 /\ at[k - 1] = a
      BY <1>4, <1>8, <2>1, <3>1
    <3>3. a < e + 1
      BY <1>1
    <3> QED
      BY <1>5, <3>2, <3>3
  <2>3. CASE k # 2
    <3>1. j \in 2..m /\ j \in 2..n /\ k - 1 = j
      BY <1>1, <2>1, <2>3
    <3> HIDE DEF j, at, n
    <3>2. at[k - 1] = next[j - 1]
      BY <1>8, <3>1
    <3> QED
      BY <1>4, <2>1, <3>1, <3>2
  <2> QED
    BY <2>2, <2>3
<1>11. ASSUME NEW i \in Starts(t, chars), i >= a PROVE \E k \in 1..n : at[k] = i
  <2>1. CASE i = a
    <3>1. 1 \in 1..n
      BY <1>1
    <3> HIDE DEF at, n
    <3> QED
      BY <1>8, <2>1, <3>1
  <2>2. CASE i >= e + 1
    <3>1. PICK j \in 1..m : next[j] = i
      BY <1>4, <2>2
    <3>2. j + 1 \in 2..n /\ j + 1 \in 1..n /\ (j + 1) - 1 = j
      BY <1>1
    <3> HIDE DEF at, n
    <3>3. at[j + 1] = i
      BY <1>8, <3>1, <3>2
    <3> QED
      BY <3>2, <3>3
  <2> QED
    BY <1>6, <1>11, <2>1, <2>2
<1>12. at \in [1..n -> a..Len(t) + 1]
  <2>1. at = [k \in 1..n |-> at[k]]
    OBVIOUS
  <2> HIDE DEF at, n
  <2> QED
    BY <1>9, <2>1
<1>13. Len(f) # 0
  BY <1>1, <1>2
<1> HIDE DEF at
<1>14. Cuts(t, chars, a, f, at, D)
  <2> HIDE DEF n
  <2> QED
    BY <1>2, <1>8, <1>9, <1>10, <1>11, <1>12, <1>13 DEF Cuts
<1> QED
  BY <1>14 DEF f, s

(* One step of the loop, of the last k characters.                         *)
PieceStep(t, chars, k) == RSplit(From(t, Len(t) - k + 1), chars, 1)

LEMMA PieceStepIs ==
  ASSUME NEW C, NEW t \in Seq(C), NEW chars, NEW k \in 0..Len(t)
  PROVE  \E e : /\ EndsAt(t, Len(t) - k + 1, chars, e)
                /\ PieceStep(t, chars, k)[1] = SubSeq(t, Len(t) - k + 1, e - 1)
                /\ PieceStep(t, chars, k)[1] \in Seq(C)
                /\ PieceStep(t, chars, k)[2] = <<>> <=> ~(e < Len(t))
                /\ e < Len(t) => /\ Len(PieceStep(t, chars, k)[2]) \in 0..k - 1
                                 /\ Len(t) - Len(PieceStep(t, chars, k)[2]) + 1 = e + 1
<1> DEFINE a == Len(t) - k + 1
           s == PieceStep(t, chars, k)
<1>1. Len(t) \in Nat /\ a \in 1..Len(t) + 1
  <2>1. Len(t) \in Nat
    BY LenProperties
  <2> QED
    BY <2>1
<1>k. k = Len(t) - a + 1
  BY <1>1
<1>2. s = RSplit(From(t, a), chars, 1)
  BY DEF PieceStep
<1> HIDE DEF a, s
<1>3. PICK e : /\ EndsAt(t, a, chars, e)
               /\ s = <<SubSeq(t, a, e - 1), IF e < Len(t) THEN From(t, e + 1) ELSE <<>>>>
  BY <1>1, <1>2, CutsAtEnd
<1>4. e \in a..Len(t) + 1
  BY <1>3 DEF EndsAt
<1>5. s[1] = SubSeq(t, a, e - 1) /\ s[2] = IF e < Len(t) THEN From(t, e + 1) ELSE <<>>
  BY <1>3
<1>6. SubSeq(t, a, e - 1) \in Seq(C)
  <2> DEFINE b == e - 1
  <2>1. a \in Nat \ {0} /\ b \in Int /\ a - 1 <= b /\ b <= Len(t)
    <3>1. e \in Int /\ a \in Int /\ 1 <= a /\ a <= e /\ e <= Len(t) + 1
      BY <1>1, <1>4
    <3> QED
      BY <1>1, <3>1
  <2> HIDE DEF b
  <2>2. SubSeq(t, a, b) \in Seq(C)
    BY <2>1, Slice
  <2> QED
    BY <2>2 DEF b
<1>7. ASSUME e < Len(t)
      PROVE  s[2] # <<>> /\ Len(s[2]) \in 0..k - 1 /\ Len(t) - Len(s[2]) + 1 = e + 1
  <2> DEFINE l == e + 1
  <2>1. l \in Nat \ {0} /\ l - 1 <= Len(t) /\ Len(t) \in Int /\ Len(t) <= Len(t) /\ Len(t) - l + 1 = Len(t) - e
    <3>1. e \in Int /\ a \in Int /\ 1 <= a /\ a <= e /\ e < Len(t)
      BY <1>1, <1>4, <1>7
    <3> QED
      BY <1>1, <3>1
  <2> HIDE DEF l
  <2>2. Len(From(t, l)) = Len(t) - l + 1
    BY <2>1, Slice DEF From
  <2>3. Len(s[2]) = Len(t) - e
    BY <1>5, <1>7, <2>1, <2>2 DEF l
  <2>4. Len(t) - e \in 0..k - 1 /\ Len(t) - e # 0 /\ Len(t) - (Len(t) - e) + 1 = e + 1
    BY <1>1, <1>4, <1>7, <1>k
  <2> QED
    BY <2>3, <2>4
<1> QED
  BY <1>3, <1>5, <1>6, <1>7 DEF a, s

LEMMA PiecesAre ==
  ASSUME NEW C, NEW t \in Seq(C), NEW chars
  PROVE  \E at : Cuts(t, chars, 1, Pieces(t, chars), at, Seq(C))
<1> DEFINE D == Seq(C)
           V == Seq(D)
           N == Len(t)
           s(k) == PieceStep(t, chars, k)
           E == {k \in 0..N : s(k)[2] = <<>>}
           b == [k \in 0..N |-> <<s(k)[1]>>]
           g == [k \in 0..N |-> [x \in V |-> <<s(k)[1]>> \o x]]
           r == [k \in 0..N |-> IF k \in E THEN k ELSE Len(s(k)[2])]
           Body(x) == [k \in 0..N |-> IF s(k)[2] = <<>> THEN <<s(k)[1]>> ELSE <<s(k)[1]>> \o x[Len(s(k)[2])]]
<1>1. N \in Nat
  BY LenProperties
<1>2. ASSUME NEW k \in 0..N
      PROVE  \E e : /\ EndsAt(t, N - k + 1, chars, e)
                    /\ s(k)[1] = SubSeq(t, N - k + 1, e - 1) /\ s(k)[1] \in D
                    /\ s(k)[2] = <<>> <=> ~(e < N)
                    /\ e < N => Len(s(k)[2]) \in 0..k - 1 /\ N - Len(s(k)[2]) + 1 = e + 1
  BY PieceStepIs
<1> HIDE DEF s, D
<1>3. \A k \in 0..N : s(k)[1] \in D /\ (s(k)[2] # <<>> => Len(s(k)[2]) \in 0..k - 1)
  BY <1>2
<1> HIDE DEF N
<1>4. ASSUME NEW k \in 0..N PROVE <<s(k)[1]>> \in V /\ \A x \in V : <<s(k)[1]>> \o x \in V
  <2> DEFINE p == s(k)[1]
             y == <<p>>
  <2>1. p \in D
    BY <1>3
  <2> HIDE DEF p
  <2>2. y \in Seq(D)
    BY <2>1
  <2> HIDE DEF y
  <2>3. \A x \in Seq(D) : y \o x \in Seq(D)
    BY <2>2, ConcatProperties
  <2> QED
    BY <2>2, <2>3 DEF y, p
<1>5. b \in [0..N -> V] /\ g \in [0..N -> [V -> V]]
  <2> HIDE DEF V
  <2>1. b \in [0..N -> V]
    BY <1>4
  <2>2. g \in [0..N -> [V -> V]]
    BY <1>4
  <2> QED
    BY <2>1, <2>2
<1>6. r \in [0..N -> 0..N] /\ \A k \in 0..N : k \notin E => r[k] < k
  <2>1. ASSUME NEW k \in 0..N PROVE r[k] \in 0..N /\ (k \notin E => r[k] < k)
    <3>1. CASE k \in E
      BY <3>1
    <3>2. CASE k \notin E
      <4>1. r[k] = Len(s(k)[2]) /\ s(k)[2] # <<>>
        BY <3>2
      <4>2. Len(s(k)[2]) \in 0..k - 1
        BY <1>3, <4>1
      <4> QED
        BY <1>1, <4>1, <4>2
    <3> QED
      BY <3>1, <3>2
  <2>2. r = [k \in 0..N |-> r[k]]
    OBVIOUS
  <2> HIDE DEF r, E
  <2> QED
    BY <2>1, <2>2
<1>7. PICK f : f \in [0..N -> V] /\ \A k \in 0..N : f[k] = IF k \in E THEN b[k] ELSE g[k][f[r[k]]]
  <2> HIDE DEF V, E, b, g, r
  <2>1. \E f : Descends(f, N, V, E, b, g, r)
    BY <1>1, <1>5, <1>6, Descent
  <2> QED
    BY <2>1 DEF Descends
<1>8. f = Body(f)
  <2>1. ASSUME NEW k \in 0..N
        PROVE  f[k] = IF s(k)[2] = <<>> THEN <<s(k)[1]>> ELSE <<s(k)[1]>> \o f[Len(s(k)[2])]
    <3>1. CASE s(k)[2] = <<>>
      <4>1. k \in E /\ b[k] = <<s(k)[1]>>
        BY <3>1
      <4> HIDE DEF E, b
      <4> QED
        BY <1>7, <3>1, <4>1
    <3>2. CASE s(k)[2] # <<>>
      <4>1. k \notin E
        BY <3>2
      <4>2. r[k] = Len(s(k)[2]) /\ r[k] \in 0..N
        BY <1>6, <4>1
      <4> HIDE DEF E, r
      <4>3. f[r[k]] \in V
        BY <1>7, <4>2
      <4>4. g[k][f[r[k]]] = <<s(k)[1]>> \o f[r[k]]
        BY <4>3
      <4>5. f[k] = g[k][f[r[k]]]
        BY <1>7, <4>1
      <4> HIDE DEF g
      <4> QED
        BY <3>2, <4>2, <4>4, <4>5
    <3> QED
      BY <3>1, <3>2
  <2>2. f = [k \in 0..N |-> f[k]]
    BY <1>7
  <2> QED
    BY <2>1, <2>2
<1> DEFINE u == CHOOSE x : x = Body(x)
<1>9. Pieces(t, chars) = u[N]
  BY DEF Pieces, PieceStep, s, N
<1>10. u = Body(u)
  <2> HIDE DEF Body
  <2> QED
    BY <1>8
<1>11. \A k \in 0..N : u[k] = IF s(k)[2] = <<>> THEN <<s(k)[1]>> ELSE <<s(k)[1]>> \o u[Len(s(k)[2])]
  <2>1. ASSUME NEW x, x = Body(x)
        PROVE  \A k \in 0..N : x[k] = IF s(k)[2] = <<>> THEN <<s(k)[1]>> ELSE <<s(k)[1]>> \o x[Len(s(k)[2])]
    BY <2>1
  <2> HIDE DEF u, Body
  <2> QED
    BY <1>10, <2>1
<1> HIDE DEF u, E, b, g, r, V
<1> DEFINE Q(k) == \E at : Cuts(t, chars, N - k + 1, u[k], at, D)
           S == {m \in 0..N : \A k \in 0..m : Q(k)}
<1>12. ASSUME NEW k \in 0..N, \A j \in 0..k - 1 : Q(j) PROVE Q(k)
  <2> DEFINE a == N - k + 1
  <2>1. a \in 1..N + 1
    BY <1>1
  <2>2. PICK e : /\ EndsAt(t, a, chars, e)
                 /\ s(k)[1] = SubSeq(t, a, e - 1) /\ s(k)[1] \in D
                 /\ s(k)[2] = <<>> <=> ~(e < N)
                 /\ e < N => Len(s(k)[2]) \in 0..k - 1 /\ N - Len(s(k)[2]) + 1 = e + 1
    BY <1>2
  <2> HIDE DEF a
  <2>3. CASE ~(e < N)
    <3>1. u[k] = <<SubSeq(t, a, e - 1)>>
      BY <1>11, <2>2, <2>3
    <3>2. \E at : Cuts(t, chars, a, <<SubSeq(t, a, e - 1)>>, at, D)
      BY <2>1, <2>2, <2>3, LastPiece DEF N
    <3> QED
      BY <3>1, <3>2 DEF a
  <2>4. CASE e < N
    <3> DEFINE j == Len(s(k)[2])
    <3>1. j \in 0..k - 1 /\ N - j + 1 = e + 1
      BY <2>2, <2>4
    <3>2. u[k] = <<SubSeq(t, a, e - 1)>> \o u[j]
      BY <1>11, <2>2, <2>4
    <3> HIDE DEF j
    <3>3. Q(j)
      BY <1>12, <3>1
    <3>4. PICK next : Cuts(t, chars, e + 1, u[j], next, D)
      BY <3>1, <3>3
    <3>5. \E at : Cuts(t, chars, a, <<SubSeq(t, a, e - 1)>> \o u[j], at, D)
      BY <2>1, <2>2, <2>4, <3>4, OnePieceMore DEF N
    <3> QED
      BY <3>2, <3>5 DEF a
  <2> QED
    BY <2>3, <2>4
<1> HIDE DEF Q
<1>13. 0 \in S
  <2>1. 0 \in 0..N /\ (\A k \in 0..0 : k = 0) /\ 0..0 - 1 = {}
    BY <1>1
  <2>2. Q(0)
    BY <1>12, <2>1
  <2> QED
    BY <2>1, <2>2
<1>14. ASSUME NEW m \in 1..N, m - 1 \in S PROVE m \in S
  <2>1. \A j \in 0..m - 1 : Q(j)
    BY <1>14
  <2>2. m \in 0..N /\ \A k \in 0..m : k \in 0..m - 1 \/ k = m
    BY <1>1
  <2>3. Q(m)
    BY <1>12, <2>1, <2>2
  <2> QED
    BY <2>1, <2>2, <2>3
<1>15. \A m \in 0..N : m \in S
  <2> HIDE DEF S
  <2> QED
    BY <1>1, <1>13, <1>14, InductionUpTo
<1>16. Q(N)
  <2>1. N \in 0..N /\ N \in S
    <3> HIDE DEF S
    <3> QED
      BY <1>1, <1>15
  <2> QED
    BY <2>1
<1>17. N - N + 1 = 1
  BY <1>1
<1> QED
  BY <1>9, <1>16, <1>17 DEF Q, D

(* The pieces of a text come in its order.                                 *)
LEMMA PiecesInOrder ==
  ASSUME NEW C, NEW t \in Seq(C), NEW chars, NEW f, NEW at, NEW D, Cuts(t, chars, 1, f, at, D)
  PROVE  /\ Len(f) \in Nat \ {0} /\ \A k \in 1..Len(f) : at[k] \in Nat
         /\ \A k, m \in 1..Len(f) : k < m => at[k] < at[m]
         /\ \A k \in 1..Len(f) : t # <<>> => at[k] \in Starts(t, chars)
<1> DEFINE n == Len(f)
           S == {m \in 0..n : \A k \in 1..n : k < m => m \in 1..n /\ at[k] < at[m]}
<1>1. n \in Nat \ {0} /\ Len(t) \in Nat /\ at \in [1..n -> 1..Len(t) + 1] /\ at[1] = 1
  BY LenProperties DEF Cuts
<1>2. \A k \in 2..n : at[k] \in Starts(t, chars) /\ at[k - 1] < at[k]
  BY DEF Cuts
<1> HIDE DEF n
<1>3. \A k \in 1..n : at[k] \in Nat
  BY <1>1
<1>4. 0 \in S
  BY <1>1
<1>5. ASSUME NEW m \in 1..n, m - 1 \in S PROVE m \in S
  <2>1. ASSUME NEW k \in 1..n, k < m PROVE at[k] < at[m]
    <3> DEFINE l == m - 1
    <3>1. m \in 2..n /\ l \in 1..n
      BY <1>1, <2>1
    <3>2. at[l] < at[m]
      BY <1>2, <3>1
    <3>3. k = l \/ k < l
      BY <1>1, <2>1
    <3>4. k < l => at[k] < at[l]
      BY <1>5
    <3> HIDE DEF l
    <3> QED
      BY <1>3, <3>1, <3>2, <3>3, <3>4
  <2>2. m \in 0..n
    BY <1>1
  <2> QED
    BY <2>1, <2>2
<1> HIDE DEF S
<1>6. \A m \in 0..n : m \in S
  BY <1>1, <1>4, <1>5, InductionUpTo
<1>7. \A k, m \in 1..n : k < m => at[k] < at[m]
  <2>1. \A m \in 1..n : m \in 0..n
    BY <1>1
  <2> QED
    BY <1>6, <2>1 DEF S
<1>8. ASSUME NEW k \in 1..n, t # <<>> PROVE at[k] \in Starts(t, chars)
  <2>1. CASE k = 1
    <3>1. Len(t) # 0
      BY <1>8, EmptySeq
    <3>2. 1 \in 1..Len(t)
      BY <1>1, <3>1
    <3> QED
      BY <1>1, <2>1, <3>2 DEF Starts
  <2>2. CASE k # 1
    <3>1. k \in 2..n
      BY <1>1, <2>2
    <3> QED
      BY <1>2, <3>1
  <2> QED
    BY <2>1, <2>2
<1> QED
  BY <1>1, <1>3, <1>7, <1>8 DEF n

(* The k-th piece begins at the k-th start.                                *)
LEMMA PiecesByRank ==
  ASSUME NEW C, NEW t \in Seq(C), t # <<>>, NEW chars, NEW f, NEW at, NEW D, Cuts(t, chars, 1, f, at, D)
  PROVE  /\ Len(f) = Cardinality(Starts(t, chars))
         /\ \A i \in Starts(t, chars) :
               f[Cardinality({j \in Starts(t, chars) : j <= i})] = PieceAt(t, i, chars)
<1> DEFINE n == Len(f)
           starts == Starts(t, chars)
           U(k) == {at[m] : m \in 1..k}
           S == {k \in 0..n : IsFiniteSet(U(k)) /\ Cardinality(U(k)) = k}
<1>1. /\ n \in Nat \ {0} /\ \A k \in 1..n : at[k] \in Nat
      /\ \A k, m \in 1..n : k < m => at[k] < at[m]
      /\ \A k \in 1..n : at[k] \in starts
  BY PiecesInOrder
<1>2. /\ \A k \in 1..n : f[k] = PieceAt(t, at[k], chars)
      /\ \A i \in starts : i >= 1 => \E k \in 1..n : at[k] = i
  BY DEF Cuts
<1>3. \A i \in starts : i \in Nat /\ i >= 1
  <2>1. Len(t) \in Nat
    BY LenProperties
  <2> QED
    BY <2>1 DEF Starts
<1> HIDE DEF n, starts
<1>4. 0 \in S
  <2>1. U(0) = {} /\ 0 \in 0..n
    BY <1>1
  <2> HIDE DEF U
  <2> QED
    BY <2>1, FS_EmptySet
<1>5. ASSUME NEW k \in 1..n, k - 1 \in S PROVE k \in S
  <2> DEFINE l == k - 1
  <2>1. IsFiniteSet(U(l)) /\ Cardinality(U(l)) = l /\ l \in 0..n
    BY <1>5
  <2>2. U(k) = U(l) \union {at[k]}
    <3>1. \A m \in 1..k : m \in 1..l \/ m = k
      BY <1>1
    <3>2. (\A m \in 1..l : m \in 1..k) /\ k \in 1..k
      BY <1>1
    <3> HIDE DEF l
    <3>3. U(k) \subseteq U(l) \union {at[k]}
      BY <3>1
    <3>4. U(l) \subseteq U(k) /\ at[k] \in U(k)
      BY <3>2
    <3> HIDE DEF U
    <3> QED
      BY <3>3, <3>4
  <2>3. at[k] \notin U(l)
    <3>1. \A m \in 1..l : m \in 1..n /\ m < k
      BY <1>1
    <3>2. \A m \in 1..l : at[m] \in Nat /\ at[k] \in Nat /\ at[m] < at[k]
      BY <1>1, <3>1
    <3> HIDE DEF l
    <3>3. \A m \in 1..l : at[m] # at[k]
      BY <3>2
    <3> QED
      BY <3>3
  <2>4. l + 1 = k /\ k \in 0..n
    BY <1>1
  <2> HIDE DEF U, l
  <2>5. IsFiniteSet(U(l) \union {at[k]}) /\ Cardinality(U(l) \union {at[k]}) = Cardinality(U(l)) + 1
    BY <2>1, <2>3, FS_AddElement
  <2>6. IsFiniteSet(U(k)) /\ Cardinality(U(k)) = k
    BY <2>1, <2>2, <2>4, <2>5
  <2> QED
    BY <2>4, <2>6
<1>6. \A k \in 0..n : Cardinality(U(k)) = k
  <2>1. \A k \in 0..n : k \in S
    <3> HIDE DEF S
    <3> QED
      BY <1>1, <1>4, <1>5, InductionUpTo
  <2> HIDE DEF U
  <2> QED
    BY <2>1
<1>7. U(n) = starts
  <2>1. U(n) \subseteq starts
    BY <1>1
  <2>2. starts \subseteq U(n)
    BY <1>2, <1>3
  <2> QED
    BY <2>1, <2>2
<1>8. n = Cardinality(starts)
  <2>1. n \in 0..n
    BY <1>1
  <2> HIDE DEF U
  <2> QED
    BY <1>6, <1>7, <2>1
<1>9. ASSUME NEW i \in starts PROVE f[Cardinality({j \in starts : j <= i})] = PieceAt(t, i, chars)
  <2>1. PICK k \in 1..n : at[k] = i
    BY <1>2, <1>3
  <2> DEFINE T == {j \in starts : j <= i}
  <2>2. T \subseteq U(k)
    <3> SUFFICES ASSUME NEW j \in starts, j <= i PROVE j \in U(k)
      OBVIOUS
    <3>1. PICK m \in 1..n : at[m] = j
      BY <1>2, <1>3
    <3>2. ~(k < m)
      <4>1. k < m => i < j
        BY <1>1, <2>1, <3>1
      <4>2. i \in Nat /\ j \in Nat
        BY <1>3
      <4> QED
        BY <4>1, <4>2
    <3>3. m \in 1..k
      BY <1>1, <3>2
    <3> QED
      BY <3>1, <3>3
  <2>3. U(k) \subseteq T
    <3> SUFFICES ASSUME NEW m \in 1..k PROVE at[m] \in T
      OBVIOUS
    <3>1. m \in 1..n /\ (m < k \/ m = k)
      BY <1>1
    <3>2. at[m] \in starts /\ at[m] \in Nat /\ at[k] \in Nat /\ (m < k => at[m] < at[k])
      BY <1>1, <3>1
    <3>3. at[m] <= i
      BY <2>1, <3>1, <3>2
    <3> QED
      BY <3>2, <3>3
  <2> HIDE DEF U, T
  <2>4. T = U(k) /\ k \in 0..n
    <3>1. k \in 0..n
      BY <1>1
    <3>2. T = U(k)
      BY ONLY <2>2, <2>3
    <3> QED
      BY <3>1, <3>2
  <2>5. Cardinality(T) = k
    BY <1>6, <2>4
  <2>6. f[Cardinality(T)] = PieceAt(t, i, chars)
    BY <1>2, <2>1, <2>5
  <2> QED
    BY <2>6 DEF T
<1> QED
  BY <1>8, <1>9 DEF n, starts

(* A text without characters has one piece, an empty one.                  *)
LEMMA PiecesOfNothing ==
  ASSUME NEW C, NEW t \in Seq(C), t = <<>>, NEW chars, NEW f, NEW at, NEW D, Cuts(t, chars, 1, f, at, D)
  PROVE  Len(f) = 1 /\ f[1] = <<>> /\ f = <<<<>>>>
<1>1. Len(t) = 0
  OBVIOUS
<1>2. Starts(t, chars) = {}
  BY <1>1 DEF Starts
<1>3. Len(f) \in Nat \ {0} /\ f \in Seq(D)
  BY LenProperties DEF Cuts
<1>4. ~(2 \in 2..Len(f))
  BY <1>2 DEF Cuts
<1>5. Len(f) = 1
  <2> DEFINE n == Len(f)
  <2>1. n \in Nat \ {0} /\ ~(2 \in 2..n)
    BY <1>3, <1>4
  <2> HIDE DEF n
  <2>2. n = 1
    BY ONLY <2>1
  <2> QED
    BY <2>2 DEF n
<1>6. f[1] = PieceAt(t, 1, chars)
  <2>1. 1 \in 1..Len(f)
    BY <1>5
  <2> QED
    BY <2>1 DEF Cuts
<1>7. PieceAt(t, 1, chars) = SubSeq(t, 1, 1 - 1)
  <2>1. 1 \in 1..Len(t) + 1 /\ EndsAt(t, 1, chars, 1)
    BY <1>1 DEF EndsAt
  <2> QED
    BY <2>1, PieceEnds
<1>8. SubSeq(t, 1, 0) = <<>>
  <2>1. SubSeq(t, 1, 0) \in Seq(C) /\ Len(SubSeq(t, 1, 0)) = 0 - 1 + 1
    BY <1>1, Slice
  <2> QED
    BY <2>1, EmptySeq
<1>9. f[1] = <<>>
  BY <1>6, <1>7, <1>8
<1>10. f = <<<<>>>>
  BY <1>3, <1>5, <1>9
<1> QED
  BY <1>5, <1>9, <1>10

-----------------------------------------------------------------------------
(* A path and a query are taken apart where their separators stand.        *)
LEMMA SplitAsSlashed ==
  ASSUME NEW C, NEW t \in Seq(C)
  PROVE  LET path == Trimmed(t)
             starts == Starts(path, {"/"})
             segments == PathSegments(t)
         IN  IF path = <<>> THEN segments = <<<<>>>>
             ELSE /\ Len(segments) = Cardinality(starts)
                  /\ \A i \in starts :
                        segments[Cardinality({j \in starts : j <= i})] = PieceAt(path, i, {"/"})
<1> DEFINE path == Trimmed(t)
           segments == PathSegments(t)
<1>1. path \in Seq(C)
  <2>1. CASE StartsWith(t, "/")
    <3>1. t # <<>>
      BY <2>1 DEF StartsWith
    <3> QED
      BY <2>1, <3>1, HeadTailProperties DEF Trimmed
  <2> QED
    BY <2>1 DEF Trimmed
<1>2. segments = Pieces(path, {"/"})
  BY DEF PathSegments, Trimmed
<1> HIDE DEF path, segments
<1>3. PICK at : Cuts(path, {"/"}, 1, segments, at, Seq(C))
  BY <1>1, <1>2, PiecesAre
<1>4. path = <<>> => segments = <<<<>>>>
  BY <1>1, <1>3, PiecesOfNothing
<1>5. path # <<>> => /\ Len(segments) = Cardinality(Starts(path, {"/"}))
                     /\ \A i \in Starts(path, {"/"}) :
                           segments[Cardinality({j \in Starts(path, {"/"}) : j <= i})] = PieceAt(path, i, {"/"})
  BY <1>1, <1>3, PiecesByRank
<1> QED
  BY <1>4, <1>5 DEF path, segments

(* A pair has the key exactly if what stands before its '=' is the key.    *)
LEMMA KeyIs ==
  ASSUME NEW C, NEW seg \in Seq(C), NEW key \in Seq(C), "=" \in C, Without(key, {"="})
  PROVE  /\ RSplit(seg, {"="}, 1)[1] = key <=> HasKey(seg, key)
         /\ HasKey(seg, key) => RSplit(seg, {"="}, 1)[2] = From(seg, Len(key) + 2)
<1> DEFINE p == FirstOf(seg, {"="})
           n == Len(key)
           w == Append(key, "=")
           N == Len(seg)
           o == n + 1
<1>1. N \in Nat /\ n \in Nat /\ \A i \in 1..n : key[i] # "="
  BY LenProperties DEF Without
<1>2. /\ p \in 0..N
      /\ p = 0 => \A i \in 1..N : seg[i] # "="
      /\ p # 0 => seg[p] = "=" /\ \A i \in 1..N : seg[i] = "=" => p <= i
  <2>1. /\ p \in 0..N
        /\ p = 0 => \A i \in 1..N : seg[i] \notin {"="}
        /\ p # 0 => seg[p] \in {"="} /\ \A i \in 1..N : seg[i] \in {"="} => p <= i
    BY FirstOfIs
  <2> HIDE DEF p, N
  <2> QED
    BY <2>1
<1>3. /\ p = 0 => RSplit(seg, {"="}, 1) = <<seg, <<>>>>
      /\ p # 0 => RSplit(seg, {"="}, 1) = <<SubSeq(seg, 1, p + 0 - 1), From(seg, p + 1)>>
  BY DEF RSplit, SplitAt
<1>4. /\ w \in Seq(C) /\ Len(w) = o /\ w[o] = "=" /\ \A i \in 1..n : w[i] = key[i]
  BY AppendProperties
<1>5. HasKey(seg, key) <=> seg = key \/ (Len(w) <= N /\ SubSeq(w, 1, Len(w)) = SubSeq(seg, 1, Len(w)))
  BY DEF HasKey, IsPrefix
<1>6. SubSeq(w, 1, o) = w
  <2> DEFINE x == SubSeq(w, 1, o)
  <2>1. x \in Seq(C) /\ Len(x) = o - 1 + 1 /\ \A i \in 1..o - 1 + 1 : x[i] = w[1 + i - 1]
    <3>1. o \in Nat /\ 1 - 1 <= o /\ o <= Len(w) /\ 1 \in Nat \ {0} /\ o \in Int
      BY <1>1, <1>4
    <3> HIDE DEF o, w
    <3> QED
      BY <1>4, <3>1, Slice
  <2>2. o - 1 + 1 = o /\ \A i \in 1..o : 1 + i - 1 = i
    BY <1>1
  <2> HIDE DEF x, w, o
  <2>3. Len(x) = Len(w) /\ \A i \in 1..Len(x) : x[i] = w[i]
    BY <1>4, <2>1, <2>2
  <2>4. x = w
    BY <1>4, <2>1, <2>3, SeqEqual
  <2> QED
    BY <2>4 DEF x
<1> HIDE DEF w
(* The key and its '=' stand at the beginning exactly if the first '='     *)
(* follows the key.                                                        *)
<1>7. ASSUME o <= N
      PROVE  /\ w = SubSeq(seg, 1, o) <=> seg[o] = "=" /\ \A i \in 1..n : seg[i] = key[i]
             /\ key = SubSeq(seg, 1, n) <=> \A i \in 1..n : seg[i] = key[i]
  <2> DEFINE x == SubSeq(seg, 1, o)
             y == SubSeq(seg, 1, n)
  <2>1. o \in Nat /\ 1 - 1 <= o /\ 1 \in Nat \ {0} /\ o \in Int /\ n \in Int /\ 1 - 1 <= n /\ n <= N /\ o <= N
    BY <1>1, <1>7
  <2>2. x \in Seq(C) /\ Len(x) = o /\ \A i \in 1..o : x[i] = seg[i]
    <3> HIDE DEF o
    <3>1. x \in Seq(C) /\ Len(x) = o - 1 + 1 /\ \A i \in 1..o - 1 + 1 : x[i] = seg[1 + i - 1]
      BY <2>1, Slice
    <3>2. o - 1 + 1 = o /\ \A i \in 1..o : 1 + i - 1 = i
      BY <2>1
    <3> HIDE DEF x
    <3> QED
      BY <3>1, <3>2
  <2>3. y \in Seq(C) /\ Len(y) = n /\ \A i \in 1..n : y[i] = seg[i]
    <3> HIDE DEF n
    <3>1. y \in Seq(C) /\ Len(y) = n - 1 + 1 /\ \A i \in 1..n - 1 + 1 : y[i] = seg[1 + i - 1]
      BY <2>1, Slice
    <3>2. n - 1 + 1 = n /\ \A i \in 1..n : 1 + i - 1 = i
      BY <2>1
    <3> HIDE DEF y
    <3> QED
      BY <3>1, <3>2
  <2>4. (\A i \in 1..n : i \in 1..o) /\ o \in 1..o /\ \A i \in 1..o : i \in 1..n \/ i = o
    BY <1>1
  <2> HIDE DEF x, y, o
  <2>5. w = x <=> \A i \in 1..o : x[i] = w[i]
    BY <1>4, <2>2, SeqEqual
  <2>6. (\A i \in 1..o : x[i] = w[i]) <=> seg[o] = "=" /\ \A i \in 1..n : seg[i] = key[i]
    BY <1>4, <2>2, <2>4
  <2>7. key = y <=> \A i \in 1..n : y[i] = key[i]
    <3> HIDE DEF n
    <3>1. Len(key) = n
      BY DEF n
    <3> QED
      BY <2>3, <3>1, SeqEqual
  <2>8. (\A i \in 1..n : y[i] = key[i]) <=> \A i \in 1..n : seg[i] = key[i]
    BY <2>3
  <2> QED
    BY <2>5, <2>6, <2>7, <2>8 DEF x, y
<1>8. HasKey(seg, key) <=> seg = key \/ (o <= N /\ w = SubSeq(seg, 1, o))
  BY <1>4, <1>5, <1>6
<1>9. CASE p = 0
  <2>1. ~(o <= N /\ w = SubSeq(seg, 1, o))
    <3> SUFFICES ASSUME o <= N, w = SubSeq(seg, 1, o) PROVE FALSE
      OBVIOUS
    <3>1. seg[o] = "="
      BY <1>7
    <3>2. o \in 1..N
      BY <1>1
    <3> HIDE DEF o
    <3> QED
      BY <1>2, <1>9, <3>1, <3>2
  <2>2. HasKey(seg, key) <=> seg = key
    BY <1>8, <2>1
  <2>3. RSplit(seg, {"="}, 1)[1] = seg /\ RSplit(seg, {"="}, 1)[2] = <<>>
    BY <1>3, <1>9
  <2>4. seg = key => From(seg, n + 2) = <<>>
    <3> SUFFICES ASSUME seg = key PROVE From(seg, n + 2) = <<>>
      OBVIOUS
    <3> DEFINE a == n + 2
    <3>1. Len(seg) = n
      OBVIOUS
    <3>2. a \in Int /\ n \in Int /\ ~(a <= n) /\ a..n = {}
      BY <1>1
    <3> HIDE DEF a, n
    <3>3. SubSeq(seg, a, n) \in Seq(C) /\ Len(SubSeq(seg, a, n)) = 0
      <4>1. \A i \in a..n : seg[i] \in C
        BY <3>2
      <4> QED
        BY <3>2, <4>1, SubSeqProperties
    <3>4. SubSeq(seg, a, n) = <<>>
      BY <3>3, EmptySeq
    <3> QED
      BY <3>1, <3>4 DEF From, a
  <2> QED
    BY <2>2, <2>3, <2>4 DEF n
<1>10. CASE p # 0
  <2>1. seg # key
    <3> SUFFICES ASSUME seg = key PROVE FALSE
      OBVIOUS
    <3>1. p \in 1..n
      BY <1>2, <1>10
    <3> HIDE DEF p, n
    <3> QED
      BY <1>1, <1>2, <1>10, <3>1
  <2>2. RSplit(seg, {"="}, 1)[1] = SubSeq(seg, 1, p - 1) /\ RSplit(seg, {"="}, 1)[2] = From(seg, p + 1)
    <3>1. p + 0 - 1 = p - 1
      BY <1>2
    <3> HIDE DEF p
    <3> QED
      BY <1>3, <1>10, <3>1
  <2>3. ASSUME HasKey(seg, key) PROVE p = o /\ SubSeq(seg, 1, p - 1) = key
    <3>1. o <= N /\ w = SubSeq(seg, 1, o)
      BY <1>8, <2>1, <2>3
    <3>2. seg[o] = "=" /\ (\A i \in 1..n : seg[i] = key[i]) /\ key = SubSeq(seg, 1, n)
      BY <1>7, <3>1
    <3>3. o \in 1..N /\ p \in 1..N
      BY <1>1, <1>2, <1>10, <3>1
    <3>4. p <= o
      <4> HIDE DEF o, p
      <4> QED
        BY <1>2, <1>10, <3>2, <3>3
    <3>5. p \notin 1..n
      <4> HIDE DEF p, n
      <4> QED
        BY <1>1, <1>2, <1>10, <3>2
    <3>6. p = o /\ p - 1 = n
      <4> HIDE DEF p
      <4> QED
        BY <1>1, <3>3, <3>4, <3>5
    <3> HIDE DEF p, o
    <3> QED
      BY <3>2, <3>6
  <2>4. ASSUME SubSeq(seg, 1, p - 1) = key PROVE HasKey(seg, key)
    <3> DEFINE b == p - 1
    <3>1. b \in Int /\ 1 - 1 <= b /\ b <= Len(seg) /\ 1 \in Nat \ {0} /\ b - 1 + 1 = b
      BY <1>1, <1>2, <1>10
    <3>2. SubSeq(seg, 1, b) = key
      BY <2>4
    <3> HIDE DEF b
    <3>3. Len(key) = b
      BY <3>1, <3>2, Slice
    <3>4. p = o
      BY <1>1, <1>2, <3>3 DEF b
    <3>5. o <= N /\ seg[o] = "="
      <4> HIDE DEF o
      <4> QED
        BY <1>1, <1>2, <1>10, <3>4
    <3>6. key = SubSeq(seg, 1, n)
      BY <3>2, <3>3
    <3>7. w = SubSeq(seg, 1, o)
      BY <1>7, <3>5, <3>6
    <3> QED
      BY <1>8, <3>5, <3>7
  <2>5. o + 1 = n + 2
    BY <1>1
  <2> HIDE DEF p, o
  <2> QED
    BY <2>2, <2>3, <2>4, <2>5 DEF n
<1> QED
  BY <1>9, <1>10

(* The pair that find() and has() stop at is the first one with the key.   *)
LEMMA FindIs ==
  ASSUME NEW C, NEW t \in Seq(C), NEW key \in Seq(C), key # <<>>, "=" \in C, Without(key, {"="})
  PROVE  LET pair(i) == PieceAt(t, i, {"&", "?"})
             found == {i \in Starts(t, {"&", "?"}) : HasKey(pair(i), key)}
             first == CHOOSE i \in found : \A j \in found : i <= j
         IN  /\ QueryHas(t, key) <=> found # {}
             /\ QueryFind(t, key) = IF found = {} THEN <<>> ELSE From(pair(first), Len(key) + 2)
<1> DEFINE chars == {"&", "?"}
           pair(i) == PieceAt(t, i, chars)
           found == {i \in Starts(t, chars) : HasKey(pair(i), key)}
           first == CHOOSE i \in found : \A j \in found : i <= j
           f == Pieces(t, chars)
           n == Len(f)
           pairs == QueryPairs(t)
           I == {k \in 1..n : HasKey(f[k], key)}
<1>1. PICK at : Cuts(t, chars, 1, f, at, Seq(C))
  BY PiecesAre
<1>2. pairs = [k \in DOMAIN f |-> RSplit(f[k], {"="}, 1)]
  BY DEF QueryPairs
<1> HIDE DEF chars, f, pairs
<1>3. f \in Seq(Seq(C)) /\ \A k \in 1..n : f[k] = pair(at[k])
  BY <1>1 DEF Cuts
<1>4. /\ n \in Nat \ {0} /\ \A k \in 1..n : at[k] \in Nat
      /\ \A k, m \in 1..n : k < m => at[k] < at[m]
      /\ \A k \in 1..n : t # <<>> => at[k] \in Starts(t, chars)
  BY <1>1, PiecesInOrder
<1>5. DOMAIN f = 1..n /\ DOMAIN pairs = 1..n /\ Len(pairs) = n
  <2>1. DOMAIN f = 1..n
    BY <1>3, LenProperties
  <2>2. pairs = [k \in 1..n |-> RSplit(f[k], {"="}, 1)]
    BY <1>2, <2>1
  <2> HIDE DEF n
  <2>3. Len(pairs) = n
    BY <1>4, <2>2
  <2> QED
    BY <2>1, <2>2, <2>3 DEF n
<1>6. ASSUME NEW k \in 1..n
      PROVE  /\ pairs[k][1] = key <=> HasKey(f[k], key)
             /\ HasKey(f[k], key) => pairs[k][2] = From(f[k], Len(key) + 2)
  <2>1. f[k] \in Seq(C)
    BY <1>3, ElementOfSeq
  <2>2. pairs[k] = RSplit(f[k], {"="}, 1)
    BY <1>2, <1>5
  <2> DEFINE seg == f[k]
  <2> HIDE DEF seg, n
  <2>3. seg \in Seq(C)
    BY <2>1 DEF seg
  <2>4. /\ RSplit(seg, {"="}, 1)[1] = key <=> HasKey(seg, key)
        /\ HasKey(seg, key) => RSplit(seg, {"="}, 1)[2] = From(seg, Len(key) + 2)
    BY <2>3, KeyIs
  <2> QED
    BY <2>2, <2>4 DEF seg
<1>7. ASSUME NEW k \in I PROVE at[k] \in found
  <2>1. k \in 1..n /\ HasKey(pair(at[k]), key)
    BY <1>3
  <2>2. t # <<>>
    <3> SUFFICES ASSUME t = <<>> PROVE FALSE
      OBVIOUS
    <3>1. n = 1 /\ f[1] = <<>>
      BY <1>1, PiecesOfNothing
    <3>2. HasKey(<<>>, key)
      BY <2>1, <3>1
    <3>3. Len(<<>>) = 0 /\ Len(key) \in Nat /\ Len(Append(key, "=")) = Len(key) + 1
      BY LenProperties, AppendProperties
    <3> QED
      BY <3>2, <3>3 DEF HasKey, IsPrefix
  <2>3. at[k] \in Starts(t, chars)
    BY <1>4, <2>1, <2>2
  <2> QED
    BY <2>1, <2>3
<1>8. ASSUME NEW i \in found PROVE \E k \in I : at[k] = i
  <2>1. i \in Starts(t, chars) /\ HasKey(pair(i), key)
    OBVIOUS
  <2>2. i >= 1
    <3>1. Len(t) \in Nat
      BY LenProperties
    <3> QED
      BY <2>1, <3>1 DEF Starts
  <2>3. PICK k \in 1..n : at[k] = i
    BY <1>1, <2>1, <2>2 DEF Cuts
  <2>4. HasKey(f[k], key)
    BY <1>3, <2>1, <2>3
  <2> QED
    BY <2>3, <2>4
<1>9. found # {} <=> I # {}
  <2> HIDE DEF found, I
  <2> QED
    BY <1>7, <1>8
<1>10. QueryHas(t, key) <=> I # {}
  <2>1. QueryHas(t, key) <=> \E k \in 1..n : pairs[k][1] = key
    <3>1. QueryHas(t, key) <=> \E k \in DOMAIN pairs : pairs[k][1] = key
      BY DEF QueryHas, pairs
    <3> HIDE DEF n
    <3> QED
      BY <1>5, <3>1
  <2>2. (\E k \in 1..n : pairs[k][1] = key) <=> I # {}
    <3> HIDE DEF n
    <3> QED
      BY <1>6 DEF n
  <2> QED
    BY <2>1, <2>2
<1> DEFINE J == {k \in 1..Len(pairs) : pairs[k][1] = key}
           p == IF J # {} THEN Min(J) ELSE 0
<1>11. QueryFind(t, key) = IF p = 0 THEN <<>> ELSE pairs[p][2]
  BY DEF QueryFind, SelectInSeq, pairs
<1>12. J = I
  <2>1. J = {k \in 1..n : pairs[k][1] = key}
    <3> HIDE DEF n
    <3> QED
      BY <1>5
  <2> HIDE DEF J, n
  <2>2. \A k \in 1..n : pairs[k][1] = key <=> HasKey(f[k], key)
    BY <1>6 DEF n
  <2> QED
    BY <2>1, <2>2
<1> HIDE DEF J
<1>13. CASE I = {}
  <2>1. p = 0
    BY <1>12, <1>13
  <2>2. found = {}
    BY <1>9, <1>13
  <2> HIDE DEF p, found, I
  <2>3. QueryFind(t, key) = <<>>
    BY <1>11, <2>1
  <2>4. ~QueryHas(t, key)
    BY <1>10, <1>13
  <2> QED
    BY <2>2, <2>3, <2>4 DEF found, chars
<1>14. CASE I # {}
  <2>1. p \in I /\ \A k \in I : p <= k
    <3>1. I \in SUBSET Nat
      BY <1>4
    <3>2. p = Min(I)
      BY <1>12, <1>14
    <3> HIDE DEF I, p
    <3> QED
      BY <1>14, <3>1, <3>2, Least
  <2> HIDE DEF p
  <2>2. p \in 1..n /\ HasKey(f[p], key) /\ p # 0
    <3>1. p \in 1..n /\ HasKey(f[p], key)
      BY <2>1
    <3> QED
      BY <1>4, <3>1
  <2>3. at[p] \in found
    BY <1>7, <2>1
  <2>4. ASSUME NEW j \in found PROVE at[p] <= j
    <3>1. PICK k \in I : at[k] = j
      BY <1>8
    <3>2. k \in 1..n /\ p <= k
      BY <2>1
    <3>3. p = k \/ p < k
      BY <1>4, <2>2, <3>2
    <3>4. at[p] \in Nat /\ at[k] \in Nat /\ (p < k => at[p] < at[k])
      BY <1>4, <2>2, <3>2
    <3> QED
      BY <3>1, <3>3, <3>4
  <2>5. \A j \in found : j \in Nat
    <3>1. Len(t) \in Nat
      BY LenProperties
    <3> QED
      BY <3>1 DEF Starts
  <2>6. found # {}
    BY <2>3
  <2>7. first = at[p]
    <3> HIDE DEF found
    <3>1. first \in found /\ \A j \in found : first <= j
      BY <2>3, <2>4
    <3> HIDE DEF first
    <3>2. first <= at[p] /\ at[p] <= first /\ first \in Nat /\ at[p] \in Nat
      BY <2>3, <2>4, <2>5, <3>1
    <3> QED
      BY <3>2
  <2>8. QueryFind(t, key) = From(f[p], Len(key) + 2)
    BY <1>6, <1>11, <2>2
  <2>9. f[p] = pair(first)
    <3> HIDE DEF first
    <3> QED
      BY <1>3, <2>2, <2>7
  <2>10. QueryHas(t, key)
    BY <1>10, <1>14
  <2> HIDE DEF first, found
  <2>11. QueryFind(t, key) = From(pair(first), Len(key) + 2)
    BY <2>8, <2>9
  <2> QED
    BY <2>6, <2>10, <2>11 DEF first, found, chars
<1> QED
  BY <1>13, <1>14

LEMMA MoreCharacters ==
  ASSUME NEW C, NEW D, NEW t \in Seq(C)
  PROVE  t \in Seq(C \union D)
<1> DEFINE E == C \union D
<1>1. Len(t) \in Nat /\ t \in [1..Len(t) -> C]
  BY LenProperties
<1>2. t \in [1..Len(t) -> E]
  BY <1>1
<1> HIDE DEF E
<1>3. t \in Seq(E)
  BY ONLY <1>1, <1>2
<1> QED
  BY <1>3 DEF E

LEMMA KeysAre ==
  ASSUME NEW C, NEW key \in {<<"a">>, <<"a", "a">>}
  PROVE  key \in Seq(C \union {"a", "="}) /\ key # <<>> /\ Without(key, {"="}) /\ "=" \in C \union {"a", "="}
<1> DEFINE D == C \union {"a", "="}
<1>1. "a" \in D /\ "=" \in D
  OBVIOUS
<1> HIDE DEF D
<1>2. <<"a">> \in Seq(D) /\ <<"a", "a">> \in Seq(D)
  BY ONLY <1>1
<1>3. Without(<<"a">>, {"="}) /\ Without(<<"a", "a">>, {"="})
  BY DEF Without
<1>4. <<"a">> # <<>> /\ <<"a", "a">> # <<>>
  OBVIOUS
<1>5. key = <<"a">> \/ key = <<"a", "a">>
  OBVIOUS
<1>6. key \in Seq(D) /\ key # <<>> /\ Without(key, {"="})
  BY ONLY <1>2, <1>3, <1>4, <1>5
<1> QED
  BY <1>1, <1>6 DEF D

(* A URI is taken apart as it was composed, its path into the segments     *)
(* between its slashes and its query into pairs of which find() returns    *)
(* the first one with the key, for parts and texts of any length           *)
(* (uri.cpp:33, :71, :86).                                                 *)
THEOREM TakesUrisApart == CodecSpec => []UriTakenApart
<1> DEFINE Grown == /\ subject = "uri" => input \in Composed
                    /\ subject \in {"path", "query"} => input \in Seq(Alphabet[subject])
<1>1. CodecInit => Grown
  <2> SUFFICES ASSUME CodecInit PROVE Grown
    OBVIOUS
  <2>1. CASE subject \in DOMAIN Alphabet /\ input = <<>>
    <3>1. subject # "uri"
      BY <2>1, CodecAssumption DEF CodecAssumption
    <3>2. input \in Seq(Alphabet[subject])
      BY <2>1, EmptySeq
    <3> QED
      BY <3>1, <3>2
  <2>2. CASE subject = "uri" /\ input \in Composed
    BY <2>2
  <2> QED
    BY <2>1, <2>2 DEF CodecInit
<1>2. Grown /\ [Grow]_codecVars => Grown'
  <2> SUFFICES ASSUME Grown, [Grow]_codecVars PROVE Grown'
    OBVIOUS
  <2>1. CASE Grow
    <3>1. PICK symbol \in Alphabet[subject] : input' = Append(input, symbol)
      BY <2>1 DEF Grow
    <3>2. subject \in DOMAIN Alphabet /\ subject' = subject
      BY <2>1 DEF Grow
    <3>3. subject # "uri"
      BY <3>2, CodecAssumption DEF CodecAssumption
    <3>4. ASSUME subject \in {"path", "query"} PROVE input' \in Seq(Alphabet[subject])
      <4> DEFINE C == Alphabet[subject]
      <4>1. input \in Seq(C) /\ symbol \in C
        BY <3>4
      <4> HIDE DEF C
      <4>2. Append(input, symbol) \in Seq(C)
        BY <4>1, AppendProperties
      <4> QED
        BY <3>1, <4>2 DEF C
    <3> QED
      BY <3>2, <3>3, <3>4
  <2>2. CASE UNCHANGED codecVars
    BY <2>2 DEF codecVars
  <2> QED
    BY <2>1, <2>2
<1>3. Grown => UriAsComposed
  <2> SUFFICES ASSUME Grown, subject = "uri"
               PROVE  Parse(Text(input)) = Meant(input) <=> (input.scheme # <<>> \/ ~Contains(Text(input), ":"))
    BY DEF UriAsComposed
  <2>1. Composable(input)
    BY ComposedAssumption DEF ComposedAssumption
  <2> QED
    BY ONLY <2>1, TakenApartAsComposed
<1>4. Grown => PathAsSplit
  <2> SUFFICES ASSUME Grown, subject = "path" PROVE PathAsSplit
    BY DEF PathAsSplit
  <2> DEFINE C == Alphabet["path"]
  <2>1. input \in Seq(C)
    OBVIOUS
  <2> HIDE DEF C
  <2> QED
    BY <2>1, SplitAsSlashed DEF PathAsSplit
<1>5. Grown => QueryFindsFirst
  <2> SUFFICES ASSUME Grown, subject = "query" PROVE QueryFindsFirst
    BY DEF QueryFindsFirst
  <2> DEFINE C == Alphabet["query"]
             D == C \union {"a", "="}
  <2>1. input \in Seq(C)
    OBVIOUS
  <2> HIDE DEF C
  <2>2. input \in Seq(D)
    BY <2>1, MoreCharacters
  <2>3. \A key \in {<<"a">>, <<"a", "a">>} : key \in Seq(D) /\ key # <<>> /\ Without(key, {"="}) /\ "=" \in D
    BY KeysAre
  <2> HIDE DEF D
  <2> QED
    BY <2>2, <2>3, FindIs DEF QueryFindsFirst
<1>6. Grown => UriTakenApart
  BY <1>3, <1>4, <1>5 DEF UriTakenApart
<1> QED
  BY <1>1, <1>2, <1>6, PTL DEF CodecSpec


=============================================================================
