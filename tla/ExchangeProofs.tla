--------------------------- MODULE ExchangeProofs ---------------------------
(***************************************************************************)
(* Theorems about Exchange for URLs, headers and bodies of any length and  *)
(* any sizes of the reads.                                                 *)
(***************************************************************************)
EXTENDS Exchange, ConnectionProofs, FiniteSetTheorems, WellFoundedInduction

-----------------------------------------------------------------------------
(* Induction over the naturals, for sets of them.                          *)
LEMMA Induction ==
  ASSUME NEW S \in SUBSET Nat, 0 \in S, \A n \in S : n + 1 \in S
  PROVE  S = Nat
<1> DEFINE T == Nat \ S
           Less == OpToRel(<, Nat)
<1>1. SUFFICES ASSUME T # {} PROVE FALSE
  OBVIOUS
<1>2. IsWellFoundedOn(Less, Nat) /\ \A m, n \in Nat : m < n => <<m, n>> \in Less
  BY NatLessThanWellFounded DEF OpToRel
<1>3. T \subseteq Nat
  OBVIOUS
<1> HIDE DEF Less, T
<1>4. PICK n \in T : \A m \in T : ~(<<m, n>> \in Less)
  <2>1. IsWellFoundedOn(Less, Nat) /\ T \subseteq Nat /\ T # {}
    BY <1>1, <1>2, <1>3
  <2>2. \E n \in T : \A m \in T : ~(<<m, n>> \in Less)
    BY <2>1, WFMin
  <2> QED
    BY <2>2
<1>5. n \in Nat /\ n \notin S /\ n # 0
  BY <1>4 DEF T
<1>6. n - 1 \in Nat /\ n - 1 < n /\ (n - 1) + 1 = n
  BY <1>5
<1>7. n - 1 \in S
  BY <1>2, <1>4, <1>5, <1>6 DEF T
<1> QED
  BY <1>5, <1>6, <1>7

(* A function that is defined by recursion on the naturals up to n.        *)
Recurses(f, n, V, v, g) ==
    f \in [0..n -> V] /\ f[0] = v /\ \A k \in 1..n : f[k] = g[k][f[k - 1]]

LEMMA Recursion ==
  ASSUME NEW n \in Nat, NEW V, NEW v \in V, NEW g \in [1..n -> [V -> V]]
  PROVE  \E f : Recurses(f, n, V, v, g)
<1> DEFINE Upto(m, f) == Recurses(f, m, V, v, g)
           S == {m \in Nat : m <= n => \E f : Upto(m, f)}
<1>1. 0 \in S
  <2> DEFINE f == [k \in 0..0 |-> v]
  <2>1. Upto(0, f)
    BY DEF Recurses
  <2> HIDE DEF Upto, f
  <2> QED
    BY <2>1
<1>2. ASSUME NEW m \in S PROVE m + 1 \in S
  <2>1. m \in Nat /\ m + 1 \in Nat
    OBVIOUS
  <2>2. ASSUME m + 1 <= n PROVE \E h : Upto(m + 1, h)
    <3>1. PICK f : f \in [0..m -> V] /\ f[0] = v /\ \A k \in 1..m : f[k] = g[k][f[k - 1]]
      <4>1. m <= n
        BY <2>1, <2>2
      <4> QED
        BY <4>1 DEF S, Recurses
    <3>2. m + 1 \in 1..n /\ 0..m + 1 = (0..m) \union {m + 1} /\ m + 1 \notin 0..m /\ m \in 0..m
      BY <2>1, <2>2
    <3> DEFINE h == [k \in 0..m + 1 |-> IF k = m + 1 THEN g[m + 1][f[m]] ELSE f[k]]
    <3>3. h \in [0..m + 1 -> V] /\ h[0] = v
      BY <2>1, <3>1, <3>2
    <3>4. ASSUME NEW k \in 1..m + 1 PROVE h[k] = g[k][h[k - 1]]
      <4>1. k - 1 \in 0..m /\ k - 1 # m + 1 /\ k - 1 \in 0..m + 1 /\ k \in 0..m + 1
        BY <2>1
      <4>2. h[k - 1] = f[k - 1]
        BY <4>1
      <4>3. CASE k = m + 1
        BY <4>1, <4>2, <4>3
      <4>4. CASE k # m + 1
        <5>1. k \in 1..m
          BY <2>1, <4>4
        <5> QED
          BY <3>1, <4>1, <4>2, <4>4, <5>1
      <4> QED
        BY <4>3, <4>4
    <3>5. Upto(m + 1, h)
      <4> HIDE DEF h
      <4> QED
        BY <3>3, <3>4 DEF Recurses
    <3> HIDE DEF h, Upto
    <3> QED
      BY <3>5
  <2> HIDE DEF Upto
  <2> QED
    BY <2>1, <2>2
<1>3. S = Nat
  <2> HIDE DEF S
  <2>1. S \subseteq Nat
    BY DEF S
  <2> QED
    BY <1>1, <1>2, <2>1, Induction
<1>4. n \in S
  BY <1>3
<1> QED
  BY <1>4

-----------------------------------------------------------------------------
LEMMA Separators == <<"eol">> \in Seq(Unit) /\ <<"sp">> \in Seq(Unit) /\ <<>> \in Seq(Unit)
  <1>1. "eol" \in Unit /\ "sp" \in Unit
    BY DEF Unit
  <1> QED
    BY <1>1

(* The text of the last lines, line by line.                               *)
LEMMA LastLinesStep ==
  ASSUME NEW lines \in Seq(Seq(Unit))
  PROVE  /\ LastLines(lines)[0] = <<>>
         /\ \A k \in 1..Len(lines) :
               LastLines(lines)[k] = lines[Len(lines) - k + 1] \o <<"eol">> \o LastLines(lines)[k - 1]
         /\ \A k \in 0..Len(lines) : LastLines(lines)[k] \in Seq(Unit)
<1> DEFINE n == Len(lines)
           V == Seq(Unit)
           L(k) == lines[n - k + 1] \o <<"eol">>
           g == [k \in 1..n |-> [t \in V |-> L(k) \o t]]
           Body(x) == [k \in 0..n |-> IF k = 0 THEN <<>> ELSE L(k) \o x[k - 1]]
<1>1. n \in Nat /\ <<>> \in V /\ <<"eol">> \in V
  BY Separators, LenProperties
<1>2. ASSUME NEW k \in 1..n PROVE L(k) \in V
  <2>1. n - k + 1 \in 1..n
    BY <1>1
  <2>2. lines[n - k + 1] \in V
    BY <2>1, ElementOfSeq
  <2> QED
    BY <1>1, <2>2, ConcatProperties
<1>3. g \in [1..n -> [V -> V]]
  <2>1. ASSUME NEW k \in 1..n, NEW t \in V PROVE L(k) \o t \in V
    BY <1>2, ConcatProperties
  <2> HIDE DEF L, V
  <2> QED
    BY <2>1
<1>4. PICK f : f \in [0..n -> V] /\ f[0] = <<>> /\ \A k \in 1..n : f[k] = g[k][f[k - 1]]
  <2> HIDE DEF g, n, V
  <2>1. \E f : Recurses(f, n, V, <<>>, g)
    BY <1>1, <1>3, Recursion
  <2> QED
    BY <2>1 DEF Recurses
<1>5. f = Body(f)
  <2>1. ASSUME NEW k \in 1..n PROVE f[k] = L(k) \o f[k - 1]
    <3>1. k - 1 \in 0..n
      BY <1>1
    <3>2. f[k - 1] \in V /\ f[k] = g[k][f[k - 1]]
      BY <1>4, <3>1
    <3> HIDE DEF L, V, n
    <3> QED
      BY <3>2
  <2>2. \A k \in 0..n : k # 0 => k \in 1..n
    BY <1>1
  <2>3. f = [k \in 0..n |-> f[k]]
    BY <1>4
  <2> HIDE DEF g, n, L
  <2>4. \A k \in 0..n : f[k] = IF k = 0 THEN <<>> ELSE L(k) \o f[k - 1]
    BY <1>4, <2>1, <2>2
  <2> QED
    BY <2>3, <2>4
<1>6. LastLines(lines) = CHOOSE x : x = Body(x)
  BY DEF LastLines
<1>7. LastLines(lines) = Body(LastLines(lines))
  <2> HIDE DEF Body
  <2> QED
    BY <1>5, <1>6
<1>8. ASSUME NEW x, x = Body(x)
      PROVE  x[0] = <<>> /\ \A k \in 1..n : x[k] = L(k) \o x[k - 1]
  <2>1. 0 \in 0..n /\ \A k \in 1..n : k \in 0..n /\ k # 0
    BY <1>1
  <2> HIDE DEF n, L
  <2> QED
    BY <1>8, <2>1
<1>9. LastLines(lines)[0] = <<>> /\ \A k \in 1..n : LastLines(lines)[k] = L(k) \o LastLines(lines)[k - 1]
  <2> HIDE DEF Body, n, L
  <2> QED
    BY <1>7, <1>8
<1>a. ASSUME NEW x, x[0] = <<>>, \A k \in 1..n : x[k] = L(k) \o x[k - 1]
      PROVE  \A k \in 0..n : x[k] \in V
  <2> DEFINE S == {k \in Nat : k <= n => x[k] \in V}
  <2>1. 0 \in S
    BY <1>1, <1>a
  <2>2. ASSUME NEW k \in S PROVE k + 1 \in S
    <3>1. CASE k + 1 <= n
      <4>1. k + 1 \in 1..n /\ (k + 1) - 1 = k /\ x[k] \in V
        BY <1>1, <3>1
      <4>2. x[k + 1] = L(k + 1) \o x[k]
        BY <1>a, <4>1
      <4>3. L(k + 1) \in V
        BY <1>2, <4>1
      <4>4. x[k + 1] \in V
        BY <4>1, <4>2, <4>3, ConcatProperties
      <4> QED
        BY <4>1, <4>4
    <3>2. CASE ~(k + 1 <= n)
      BY <3>2
    <3> QED
      BY <3>1, <3>2
  <2>3. S = Nat
    <3> HIDE DEF S
    <3>1. S \subseteq Nat
      BY DEF S
    <3> QED
      BY <2>1, <2>2, <3>1, Induction
  <2>4. ASSUME NEW k \in 0..n PROVE x[k] \in V
    <3>1. k \in Nat /\ k <= n
      BY <1>1
    <3>2. k \in S
      <4> HIDE DEF S
      <4> QED
        BY <2>3, <3>1
    <3> HIDE DEF V, n
    <3> QED
      BY <3>1, <3>2
  <2> QED
    BY <2>4
<1>b. \A k \in 0..n : LastLines(lines)[k] \in V
  <2> HIDE DEF L, n, V
  <2> QED
    BY <1>9, <1>a
<1> QED
  BY <1>9, <1>b

-----------------------------------------------------------------------------
(* A set of naturals has a least one.                                      *)
LEMMA Least ==
  ASSUME NEW S \in SUBSET Nat, S # {}
  PROVE  Min(S) \in S /\ \A y \in S : Min(S) <= y
<1> DEFINE Below == {n \in Nat : \A y \in S : n <= y}
<1>1. PICK x \in S : \A y \in S : x <= y
  <2>1. SUFFICES ASSUME \A x \in S : \E y \in S : ~(x <= y) PROVE FALSE
    OBVIOUS
  <2>2. 0 \in Below
    OBVIOUS
  <2>3. ASSUME NEW n \in Below PROVE n + 1 \in Below
    <3>1. n \notin S
      BY <2>1
    <3>2. ASSUME NEW y \in S PROVE n + 1 <= y
      BY <3>1
    <3> QED
      BY <3>2
  <2>4. Below = Nat
    <3> HIDE DEF Below
    <3>1. Below \subseteq Nat
      BY DEF Below
    <3> QED
      BY <2>2, <2>3, <3>1, Induction
  <2>5. PICK y \in S : TRUE
    OBVIOUS
  <2>6. y + 1 \in Nat /\ ~(y + 1 <= y)
    OBVIOUS
  <2> QED
    BY <2>4, <2>5, <2>6
<1> QED
  BY <1>1 DEF Min

(* Where find() finds a unit.                                              *)
LEMMA FindIs ==
  ASSUME NEW s \in Seq(Unit), NEW u
  PROVE  /\ Find(u, s) \in 0..Len(s)
         /\ Find(u, s) # 0 => s[Find(u, s)] = u /\ \A i \in 1..Len(s) : s[i] = u => Find(u, s) <= i
         /\ Find(u, s) = 0 => \A i \in 1..Len(s) : s[i] # u
<1> DEFINE places == {i \in DOMAIN s : s[i] = u}
<1>1. Len(s) \in Nat /\ DOMAIN s = 1..Len(s)
  BY LenProperties
<1>2. places \in SUBSET Nat
  BY <1>1
<1>3. Find(u, s) = IF places = {} THEN 0 ELSE Min(places)
  BY DEF Find
<1>4. CASE places = {}
  BY <1>1, <1>3, <1>4
<1>5. CASE places # {}
  <2>1. Min(places) \in places /\ \A y \in places : Min(places) <= y
    <3> HIDE DEF places
    <3> QED
      BY <1>2, <1>5, Least
  <2> QED
    BY <1>1, <1>3, <1>5, <2>1
<1> QED
  BY <1>4, <1>5

(* Two texts one behind the other.                                         *)
LEMMA Parts ==
  ASSUME NEW s \in Seq(Unit), NEW t \in Seq(Unit)
  PROVE  /\ s \o t \in Seq(Unit) /\ Len(s \o t) = Len(s) + Len(t)
         /\ \A j \in 1..Len(s) : (s \o t)[j] = s[j]
         /\ \A j \in 1..Len(t) : (s \o t)[Len(s) + j] = t[j]
<1>1. Len(s) \in Nat /\ Len(t) \in Nat
  BY LenProperties
<1>2. /\ s \o t \in Seq(Unit) /\ Len(s \o t) = Len(s) + Len(t)
      /\ \A j \in 1..Len(s) + Len(t) : (s \o t)[j] = IF j <= Len(s) THEN s[j] ELSE t[j - Len(s)]
  BY ConcatProperties
<1>3. ASSUME NEW j \in 1..Len(t) PROVE (s \o t)[Len(s) + j] = t[j]
  <2>1. Len(s) + j \in 1..Len(s) + Len(t) /\ ~(Len(s) + j <= Len(s)) /\ (Len(s) + j) - Len(s) = j
    BY <1>1
  <2> QED
    BY <1>2, <2>1
<1>4. ASSUME NEW j \in 1..Len(s) PROVE (s \o t)[j] = s[j]
  <2>1. j \in 1..Len(s) + Len(t) /\ j <= Len(s)
    BY <1>1
  <2> QED
    BY <1>2, <2>1
<1> QED
  BY <1>2, <1>3, <1>4

Without(a, u) == \A j \in DOMAIN a : a[j] # u

Split(b, i, u, a, c) ==
    /\ Find(u, b) = Len(a) + 1 /\ Find(u, b) <= Len(b)
    /\ Before(Find(u, b), b) = a
    /\ After(Find(u, b), b) \in Seq(Unit)
    /\ After(Find(u, b), b) \o i = c

(* What is parsed up to a separator that was found, when the text so far   *)
(* and the text to come begin with a, the separator u, and c.              *)
LEMMA Taken ==
  ASSUME NEW b \in Seq(Unit), NEW i \in Seq(Unit), NEW a \in Seq(Unit), NEW c \in Seq(Unit),
         NEW u \in Unit, b \o i = (a \o <<u>>) \o c, Without(a, u), Find(u, b) # 0
  PROVE  Split(b, i, u, a, c)
<1> DEFINE x == b \o i
           e == Find(u, b)
           t == After(e, b)
<1>1. /\ Len(a) \in Nat /\ Len(b) \in Nat /\ Len(c) \in Nat /\ Len(i) \in Nat
      /\ DOMAIN a = 1..Len(a) /\ \A j \in DOMAIN a : a[j] # u
  BY LenProperties DEF Without
<1>2. /\ Len(x) = Len(b) + Len(i) /\ \A j \in 1..Len(b) : x[j] = b[j]
      /\ \A j \in 1..Len(i) : x[Len(b) + j] = i[j]
  BY Parts
<1>3. /\ Len(x) = Len(a) + 1 + Len(c) /\ \A j \in 1..Len(a) : x[j] = a[j]
      /\ x[Len(a) + 1] = u
      /\ \A j \in 1..Len(c) : x[Len(a) + 1 + j] = c[j]
  <2>1. a \o <<u>> \in Seq(Unit) /\ Len(a \o <<u>>) = Len(a) + 1
    OBVIOUS
  <2>2. \A j \in 1..Len(a) : (a \o <<u>>)[j] = a[j]
    OBVIOUS
  <2>3. (a \o <<u>>)[Len(a) + 1] = u
    OBVIOUS
  <2> HIDE DEF x
  <2>4. x = (a \o <<u>>) \o c
    BY DEF x
  <2> QED
    BY <1>1, <2>1, <2>2, <2>3, <2>4
<1>4. e \in 1..Len(b) /\ b[e] = u /\ \A j \in 1..Len(b) : b[j] = u => e <= j
  BY <1>1, FindIs
<1> HIDE DEF x, e
<1>5. e = Len(a) + 1
  <2>1. ASSUME e < Len(a) + 1 PROVE FALSE
    <3>1. e \in 1..Len(a) /\ e \in DOMAIN a
      BY <1>1, <1>4, <2>1
    <3>2. x[e] = b[e] /\ x[e] = a[e]
      BY <1>2, <1>3, <1>4, <3>1
    <3> QED
      BY <1>1, <1>4, <3>1, <3>2
  <2>2. ASSUME e > Len(a) + 1 PROVE FALSE
    <3>1. Len(a) + 1 \in 1..Len(b) /\ ~(e <= Len(a) + 1)
      BY <1>1, <1>4, <2>2
    <3>2. b[Len(a) + 1] = u
      BY <1>2, <1>3, <3>1
    <3> QED
      BY <1>4, <3>1, <3>2
  <2> QED
    BY <1>1, <1>4, <2>1, <2>2
<1>6. Before(e, b) = a
  <2>1. Before(e, b) = SubSeq(b, 1, Len(a))
    BY <1>1, <1>5 DEF Before
  <2>2. SubSeq(b, 1, Len(a)) \in Seq(Unit) /\ Len(SubSeq(b, 1, Len(a))) = Len(a)
    BY <1>1, <1>4, <1>5
  <2>3. ASSUME NEW j \in 1..Len(a) PROVE SubSeq(b, 1, Len(a))[j] = a[j]
    <3>1. j \in 1..Len(b) /\ SubSeq(b, 1, Len(a))[j] = b[j]
      BY <1>1, <1>4, <1>5
    <3> QED
      BY <1>2, <1>3, <3>1
  <2> QED
    BY <2>1, <2>2, <2>3, SeqEqual
<1>7. t \in Seq(Unit) /\ Len(t) = Len(b) - e /\ \A j \in 1..(Len(b) - e) : t[j] = b[e + j]
  BY <1>1, <1>4 DEF After
<1> HIDE DEF t
<1>8. t \o i = c
  <2>1. /\ t \o i \in Seq(Unit) /\ Len(t \o i) = Len(t) + Len(i)
        /\ \A j \in 1..Len(t) : (t \o i)[j] = t[j]
        /\ \A j \in 1..Len(i) : (t \o i)[Len(t) + j] = i[j]
    BY <1>7, Parts
  <2> DEFINE y == t \o i
  <2> HIDE DEF y
  <2>2. Len(y) = Len(c) /\ y \in Seq(Unit)
    BY <1>1, <1>2, <1>3, <1>4, <1>5, <1>7, <2>1 DEF y
  <2>3. ASSUME NEW j \in 1..Len(c) PROVE y[j] = c[j]
    <3>1. c[j] = x[e + j] /\ e + j \in Nat /\ Len(t) = Len(b) - e
      BY <1>1, <1>3, <1>4, <1>5, <1>7
    <3>2. CASE j <= Len(t)
      <4>1. j \in 1..Len(t) /\ e + j \in 1..Len(b)
        BY <1>1, <1>4, <3>1, <3>2
      <4>2. y[j] = t[j] /\ t[j] = b[e + j] /\ x[e + j] = b[e + j]
        BY <1>2, <1>7, <2>1, <3>1, <4>1 DEF y
      <4> QED
        BY <3>1, <4>2
    <3>3. CASE j > Len(t)
      <4> DEFINE k == j - Len(t)
      <4>1. k \in 1..Len(i) /\ Len(t) + k = j /\ Len(b) + k = e + j
        BY <1>1, <1>2, <1>3, <1>4, <1>5, <1>7, <3>1, <3>3
      <4> HIDE DEF k
      <4>2. y[Len(t) + k] = i[k] /\ x[Len(b) + k] = i[k]
        BY <1>2, <2>1, <4>1 DEF y
      <4> QED
        BY <3>1, <4>1, <4>2
    <3> QED
      BY <1>1, <1>4, <3>1, <3>2, <3>3
  <2>4. y = c
    BY <2>2, <2>3, SeqEqual
  <2> QED
    BY <2>4 DEF y
<1> QED
  BY <1>4, <1>5, <1>6, <1>7, <1>8 DEF Split, e, t

-----------------------------------------------------------------------------
(* What there is still to be parsed: of the headers, behind the URL's end, *)
(* behind the method's end; and in each phase.                             *)
HeadersLeft(k) == LastLines(Lines(message))[k] \o (<<"eol">> \o message.body)

AfterUrl == HeadersLeft(Len(Lines(message)))

AfterMethod == (message.url \o <<"sp", "version">>) \o (<<"eol">> \o AfterUrl)

Rest(d) ==
    CASE phase = "method" -> Text(message)
      [] phase = "url"    -> AfterMethod
      [] phase = "header" -> HeadersLeft(Len(Lines(message)) - d)
      [] OTHER            -> message.body

(* The map h of what the first d lines of l say: FieldsOf() for d = Len(l). *)
Fields(h, l, d) ==
    /\ DOMAIN h = {Key(l[i]) : i \in 1..d}
    /\ \A k \in DOMAIN h :
          \E i \in 1..d :
             /\ Key(l[i]) = k /\ h[k] = Value(l[i])
             /\ \A j \in 1..d : j > i => Key(l[j]) # k

Ended == phase \in {"done", "crashed"}

(* What was parsed so far, but for the fields while they are parsed.       *)
SoFar ==
    /\ phase # "method" => req.method = message.method
    /\ phase \notin {"method", "url"} => req.url = message.url
    /\ phase \in {"method", "url"} => req.headers = <<>>
    /\ phase \in {"body", "done"} => FieldsOf(req.headers, Lines(message))
    /\ phase = "done" => req.body = message.body
    /\ phase = "crashed" => \E i \in DOMAIN Lines(message) : ~WellFormed(Lines(message)[i])
    /\ Ended => want = 0

(* The text in the buffer and the text to come are what is left of the     *)
(* message behind d of its lines; behind it, but only when all of it was   *)
(* read, is padding.                                                       *)
TextAt(d) == \E p \in Seq(Unit) : buffer \o incoming = Rest(d) \o p /\ (incoming # <<>> => p = <<>>)

CarriedAt(d) == TextAt(d) /\ (phase = "header" => Fields(req.headers, Lines(message), d))

Carried == ~Ended => \E d \in 0..Len(Lines(message)) : CarriedAt(d)

IsRequest(r) == r = [method |-> r.method, url |-> r.url, headers |-> r.headers, body |-> r.body]

TextTyped ==
    /\ message \in Messages
    /\ incoming \in Seq(Unit) /\ buffer \in Seq(Unit)
    /\ phase \in {"method", "url", "header", "body", "done", "crashed"}
    /\ IsRequest(req)
    /\ want \in Nat

ParserInv == TextTyped /\ SoFar /\ Carried

-----------------------------------------------------------------------------
LEMMA Associative ==
  ASSUME NEW r \in Seq(Unit), NEW s \in Seq(Unit), NEW t \in Seq(Unit)
  PROVE  (r \o s) \o t = r \o (s \o t)
<1> DEFINE x == (r \o s) \o t
           y == r \o (s \o t)
<1>1. Len(r) \in Nat /\ Len(s) \in Nat /\ Len(t) \in Nat
  BY LenProperties
<1>2. r \o s \in Seq(Unit) /\ s \o t \in Seq(Unit)
  BY Parts
<1>3. /\ x \in Seq(Unit) /\ Len(x) = Len(r) + Len(s) + Len(t)
      /\ \A j \in 1..Len(r) : x[j] = r[j]
      /\ \A j \in 1..Len(s) : x[Len(r) + j] = s[j]
      /\ \A j \in 1..Len(t) : x[Len(r) + Len(s) + j] = t[j]
  <2>1. /\ Len(r \o s) = Len(r) + Len(s) /\ \A j \in 1..Len(r) : (r \o s)[j] = r[j]
        /\ \A j \in 1..Len(s) : (r \o s)[Len(r) + j] = s[j]
    BY Parts
  <2>2. /\ x \in Seq(Unit) /\ Len(x) = Len(r \o s) + Len(t)
        /\ \A j \in 1..Len(r \o s) : x[j] = (r \o s)[j]
        /\ \A j \in 1..Len(t) : x[Len(r \o s) + j] = t[j]
    BY <1>2, Parts
  <2>3. ASSUME NEW j \in 1..Len(s) PROVE x[Len(r) + j] = s[j]
    <3>1. Len(r) + j \in 1..Len(r \o s)
      BY <1>1, <2>1
    <3> HIDE DEF x
    <3> QED
      BY <2>1, <2>2, <3>1
  <2>4. ASSUME NEW j \in 1..Len(r) PROVE x[j] = r[j]
    <3>1. j \in 1..Len(r \o s)
      BY <1>1, <2>1
    <3> HIDE DEF x
    <3> QED
      BY <2>1, <2>2, <3>1
  <2> HIDE DEF x
  <2> QED
    BY <1>1, <2>1, <2>2, <2>3, <2>4
<1>4. /\ y \in Seq(Unit) /\ Len(y) = Len(r) + (Len(s) + Len(t))
      /\ \A j \in 1..Len(r) : y[j] = r[j]
      /\ \A j \in 1..Len(s) : y[Len(r) + j] = s[j]
      /\ \A j \in 1..Len(t) : y[Len(r) + Len(s) + j] = t[j]
  <2>1. /\ Len(s \o t) = Len(s) + Len(t) /\ \A j \in 1..Len(s) : (s \o t)[j] = s[j]
        /\ \A j \in 1..Len(t) : (s \o t)[Len(s) + j] = t[j]
    BY Parts
  <2>2. /\ y \in Seq(Unit) /\ Len(y) = Len(r) + Len(s \o t)
        /\ \A j \in 1..Len(r) : y[j] = r[j]
        /\ \A j \in 1..Len(s \o t) : y[Len(r) + j] = (s \o t)[j]
    BY <1>2, Parts
  <2>3. ASSUME NEW j \in 1..Len(t) PROVE y[Len(r) + Len(s) + j] = t[j]
    <3>1. Len(s) + j \in 1..Len(s \o t) /\ Len(r) + (Len(s) + j) = Len(r) + Len(s) + j
      BY <1>1, <2>1
    <3> HIDE DEF y
    <3> QED
      BY <2>1, <2>2, <3>1
  <2> HIDE DEF y
  <2> QED
    BY <1>1, <2>1, <2>2, <2>3
<1> HIDE DEF x, y
<1>5. ASSUME NEW j \in 1..Len(x) PROVE x[j] = y[j]
  <2>1. j \in 1..Len(r) + Len(s) + Len(t)
    BY <1>3
  <2>2. CASE j <= Len(r)
    <3>1. j \in 1..Len(r)
      BY <1>1, <2>1, <2>2
    <3> QED
      BY <1>3, <1>4, <3>1
  <2>3. CASE Len(r) < j /\ j <= Len(r) + Len(s)
    <3>1. j - Len(r) \in 1..Len(s) /\ Len(r) + (j - Len(r)) = j
      BY <1>1, <2>1, <2>3
    <3> QED
      BY <1>3, <1>4, <3>1
  <2>4. CASE Len(r) + Len(s) < j
    <3>1. j - (Len(r) + Len(s)) \in 1..Len(t) /\ Len(r) + Len(s) + (j - (Len(r) + Len(s))) = j
      BY <1>1, <2>1, <2>4
    <3> QED
      BY <1>3, <1>4, <3>1
  <2> QED
    BY <1>1, <2>1, <2>2, <2>3, <2>4
<1>6. x = y
  <2>1. Len(x) = Len(y)
    BY <1>1, <1>3, <1>4
  <2> QED
    BY <1>3, <1>4, <1>5, <2>1, SeqEqual
<1> QED
  BY <1>6 DEF x, y

(* The header that tells a body's length.                                  *)
LEMMA Told ==
  ASSUME NEW b \in Bodies
  PROVE  LengthField(Len(b)) \in DOMAIN Lengths /\ Lengths[LengthField(Len(b))] = Len(b)
<1>1. \E f \in DOMAIN Lengths : Lengths[f] = Len(b)
  BY ParserAssumption
<1> QED
  BY <1>1 DEF LengthField

LEMMA LengthLineIs ==
  ASSUME NEW b \in Bodies
  PROVE  /\ LengthLine(Len(b)) \in Seq(Unit) /\ LengthLine(Len(b)) # <<>>
         /\ Without(LengthLine(Len(b)), "eol")
         /\ Key(LengthLine(Len(b))) = ContentLengthKey
         /\ Value(LengthLine(Len(b))) = <<LengthField(Len(b))>>
<1> DEFINE g == LengthField(Len(b))
           l == <<"content-length", ":", g>>
<1>1. g \in DOMAIN Lengths
  BY Told
<1> HIDE DEF g
<1>2. g \in Unit /\ g # "eol" /\ g # "sp" /\ g # ":"
  BY <1>1, ParserAssumption DEF Unit
<1>3. /\ l \in Seq(Unit) /\ Len(l) = 3 /\ l # <<>>
      /\ l[1] = "content-length" /\ l[2] = ":" /\ l[3] = g
  <2>1. "content-length" \in Unit /\ ":" \in Unit
    BY DEF Unit
  <2> QED
    BY <1>2, <2>1
<1> HIDE DEF l
<1>4. DOMAIN l = 1..3
  BY <1>3, LenProperties
<1>5. Without(l, "eol")
  <2>1. ASSUME NEW j \in 1..3 PROVE l[j] # "eol"
    <3>1. j = 1 \/ j = 2 \/ j = 3
      OBVIOUS
    <3> QED
      BY <1>2, <1>3, <3>1
  <2> QED
    BY <1>4, <2>1 DEF Without
<1>6. Find(":", l) = 2
  <2>1. /\ Find(":", l) \in 0..3
        /\ Find(":", l) # 0 => l[Find(":", l)] = ":" /\ \A i \in 1..3 : l[i] = ":" => Find(":", l) <= i
        /\ Find(":", l) = 0 => \A i \in 1..3 : l[i] # ":"
    BY <1>3, FindIs
  <2> DEFINE e == Find(":", l)
  <2> HIDE DEF e
  <2>2. e # 0 /\ e <= 2
    BY <1>3, <2>1 DEF e
  <2>3. e # 1
    BY <1>3, <2>1 DEF e
  <2> QED
    BY <2>1, <2>2, <2>3 DEF e
<1>7. Key(l) = ContentLengthKey
  <2>1. Lowered(l[1]) = "content-length"
    BY <1>3, ParserAssumption DEF Lowered
  <2> DEFINE k == [i \in 1..1 |-> Lowered(l[i])]
  <2>2. Key(l) = k
    BY <1>6 DEF Key
  <2>3. k \in Seq({"content-length"}) /\ Len(k) = 1 /\ k[1] = "content-length"
    BY <2>1
  <2> HIDE DEF k
  <2>4. k = <<"content-length">>
    BY <2>3
  <2> QED
    BY <2>2, <2>4 DEF ContentLengthKey
<1>8. Value(l) = <<g>>
  <2> DEFINE t == After(2, l)
             rest == {i \in DOMAIN t : t[i] # "sp"}
  <2>1. t = <<g>>
    <3>1. t = SubSeq(l, 3, 3)
      BY <1>3 DEF After
    <3>2. t \in Seq(Unit) /\ Len(t) = 1 /\ t[1] = l[3]
      <4>1. \A i \in 3..3 : l[i] \in Unit
        BY <1>2, <1>3
      <4>2. /\ SubSeq(l, 3, 3) \in Seq(Unit)
            /\ Len(SubSeq(l, 3, 3)) = IF 3 <= 3 THEN 3 - 3 + 1 ELSE 0
            /\ \A i \in 1..(3 - 3 + 1) : SubSeq(l, 3, 3)[i] = l[3 + i - 1]
        BY ONLY <4>1, SubSeqProperties
      <4> HIDE DEF t
      <4> QED
        BY <3>1, <4>2
    <3> HIDE DEF t
    <3> QED
      BY <1>3, <3>2
  <2>2. rest = {1}
    BY <1>2, <2>1
  <2> HIDE DEF rest, t
  <2>3. Min(rest) = 1
    BY <2>2, Least
  <2>4. Trimmed(t) = After(Min(rest) - 1, t)
    BY <2>2 DEF Trimmed, rest
  <2>5. After(0, <<g>>) = <<g>>
    <3> DEFINE s == <<g>>
    <3>1. s \in Seq(Unit) /\ Len(s) = 1
      BY <1>2
    <3> HIDE DEF s
    <3>2. SubSeq(s, 1, 1) = s
      BY ONLY <3>1
    <3>3. After(0, s) = s
      BY <3>1, <3>2 DEF After
    <3> QED
      BY <3>3 DEF s
  <2> QED
    BY <1>6, <2>1, <2>3, <2>4, <2>5 DEF Value, t
<1> QED
  BY <1>3, <1>5, <1>7, <1>8 DEF LengthLine, l, g

(* A message's lines are not empty, and no part of it but its body has a   *)
(* line break.                                                             *)
LEMMA MessageIs ==
  ASSUME NEW m \in Messages
  PROVE  /\ m.method = <<"post">> /\ m.url \in Seq(Unit) /\ m.body \in Seq(Unit) /\ m.body \in Bodies
         /\ \A j \in DOMAIN m.url : m.url[j] # "sp" /\ m.url[j] # "eol"
         /\ Lines(m) \in Seq(Seq(Unit))
         /\ \A i \in 1..Len(Lines(m)) :
               Lines(m)[i] # <<>> /\ \A j \in DOMAIN Lines(m)[i] : Lines(m)[i][j] # "eol"
<1>1. m.method = <<"post">> /\ m.url \in Urls /\ m.body \in Bodies /\ m.headers \in Headers
  BY DEF Messages
<1>2. m.url \in Seq(Unit) /\ \A j \in DOMAIN m.url : m.url[j] # "sp" /\ m.url[j] # "eol"
  BY <1>1, ParserAssumption
<1>3. m.body \in Seq(Unit)
  BY <1>1, ParserAssumption
<1>4. /\ m.headers \in Seq(Seq(Unit))
      /\ \A i \in DOMAIN m.headers : m.headers[i] # <<>> /\ \A j \in DOMAIN m.headers[i] : m.headers[i][j] # "eol"
  BY <1>1, ParserAssumption
<1> DEFINE h == m.headers
           f == LengthLine(Len(m.body))
<1>5. f \in Seq(Unit) /\ f # <<>> /\ \A j \in DOMAIN f : f[j] # "eol"
  BY <1>1, LengthLineIs DEF Without
<1> HIDE DEF f, h
<1>6. CASE m.body = <<>>
  <2>1. Lines(m) = m.headers
    BY <1>6 DEF Lines
  <2>2. DOMAIN m.headers = 1..Len(m.headers)
    BY <1>4, LenProperties
  <2> QED
    BY <1>1, <1>2, <1>3, <1>4, <2>1, <2>2
<1>7. CASE m.body # <<>>
  <2>1. Lines(m) = Append(h, f)
    BY <1>7 DEF Lines, f, h
  <2> DEFINE l == Append(h, f)
  <2>2. h \in Seq(Seq(Unit)) /\ Len(h) \in Nat /\ DOMAIN h = 1..Len(h)
    BY <1>4, LenProperties DEF h
  <2>3. l \in Seq(Seq(Unit)) /\ Len(l) = Len(h) + 1 /\ l[Len(h) + 1] = f
        /\ \A i \in 1..Len(h) : l[i] = h[i]
    BY <1>5, <2>2, AppendProperties
  <2> HIDE DEF l
  <2>4. ASSUME NEW i \in 1..Len(l)
        PROVE  l[i] # <<>> /\ \A j \in DOMAIN l[i] : l[i][j] # "eol"
    <3>1. CASE i = Len(h) + 1
      BY <1>5, <2>3, <3>1
    <3>2. CASE i # Len(h) + 1
      <4>1. i \in 1..Len(h)
        BY <2>2, <2>3, <3>2
      <4>2. h[i] # <<>> /\ \A j \in DOMAIN h[i] : h[i][j] # "eol"
        BY <1>4, <2>2, <4>1 DEF h
      <4> QED
        BY <2>3, <4>1, <4>2
    <3> QED
      BY <3>1, <3>2
  <2>5. Lines(m) = l
    BY <2>1 DEF l
  <2> QED
    BY <1>1, <1>2, <1>3, <2>3, <2>4, <2>5
<1> QED
  BY <1>6, <1>7

(* Once all headers were parsed, the length told is the body's, unless a   *)
(* field that tells none takes its place.                                  *)
LEMMA LengthRight ==
  ASSUME message \in Messages, FieldsOf(req.headers, Lines(message))
  PROVE  /\ Len(message.body) \in Nat
         /\ HasLength /\ ~IsNumber(LengthTold) => \E i \in DOMAIN Lines(message) : ~WellFormed(Lines(message)[i])
         /\ ~(HasLength /\ ~IsNumber(LengthTold)) => ContentLength = Len(message.body)
<1> DEFINE m == message
           l == Lines(m)
           K == ContentLengthKey
<1>1. m.body \in Bodies /\ m.headers \in Headers /\ m.body \in Seq(Unit) /\ Len(m.body) \in Nat
  BY MessageIs, LenProperties DEF Messages
<1>2. ASSUME HasLength
      PROVE  \E i \in DOMAIN l : /\ Key(l[i]) = K /\ LengthTold = Value(l[i])
                                 /\ \A j \in DOMAIN l : j > i => Key(l[j]) # K
  BY <1>2 DEF FieldsOf, HasLength, LengthTold
<1>3. CASE m.body = <<>>
  <2>1. l = m.headers
    BY <1>3 DEF Lines
  <2>2. \A i \in DOMAIN l : Key(l[i]) = K => ~IsNumber(Value(l[i]))
    BY <1>1, <2>1, ParserAssumption
  <2> HIDE DEF l, K
  <2>3. CASE HasLength
    <3>1. PICK i \in DOMAIN l : Key(l[i]) = K /\ LengthTold = Value(l[i])
      BY <1>2, <2>3
    <3>2. ~IsNumber(LengthTold) /\ ~WellFormed(l[i])
      BY <2>2, <3>1 DEF WellFormed, K
    <3> QED
      BY <1>1, <2>3, <3>2 DEF l
  <2>4. CASE ~HasLength
    <3>1. ContentLength = 0 /\ Len(m.body) = 0
      BY <1>3, <2>4 DEF ContentLength
    <3> QED
      BY <1>1, <2>4, <3>1
  <2> QED
    BY <2>3, <2>4
<1>4. CASE m.body # <<>>
  <2> DEFINE h == m.headers
             g == LengthField(Len(m.body))
             x == LengthLine(Len(m.body))
  <2>1. l = Append(h, x)
    BY <1>4 DEF Lines
  <2>2. g \in DOMAIN Lengths /\ Lengths[g] = Len(m.body)
    BY <1>1, Told
  <2>3. x \in Seq(Unit) /\ Key(x) = K /\ Value(x) = <<g>>
    BY <1>1, LengthLineIs
  <2>4. h \in Seq(Seq(Unit)) /\ Len(h) \in Nat
    BY <1>1, ParserAssumption, LenProperties
  <2> HIDE DEF h, g, x, l
  <2>5. l \in Seq(Seq(Unit)) /\ Len(l) = Len(h) + 1 /\ l[Len(h) + 1] = x
    BY <2>1, <2>3, <2>4, AppendProperties
  <2> DEFINE n == Len(h) + 1
  <2>6. DOMAIN l = 1..n /\ n \in 1..n /\ n \in Nat
    BY <2>4, <2>5, LenProperties
  <2>7. l[n] = x
    BY <2>5
  <2> HIDE DEF n
  <2>8. HasLength
    <3>1. K \in {Key(l[i]) : i \in DOMAIN l}
      BY <2>3, <2>6, <2>7
    <3> QED
      BY <3>1 DEF FieldsOf, HasLength, l
  <2>9. PICK i \in DOMAIN l : /\ LengthTold = Value(l[i])
                             /\ \A j \in DOMAIN l : j > i => Key(l[j]) # K
    BY <1>2, <2>8
  <2>a. i = n
    <3>1. ~(n > i)
      BY <2>3, <2>6, <2>7, <2>9
    <3> QED
      BY <2>6, <3>1
  <2>b. LengthTold = <<g>>
    BY <2>3, <2>7, <2>9, <2>a
  <2>c. IsNumber(LengthTold) /\ LengthTold[1] = g
    BY <2>2, <2>b DEF IsNumber
  <2>d. ContentLength = Lengths[g]
    BY <2>8, <2>c DEF ContentLength
  <2> QED
    BY <1>1, <2>2, <2>c, <2>d
<1> QED
  BY <1>3, <1>4

(* What the map holds when one more line is put into it.                   *)
LEMMA OneMore ==
  ASSUME NEW h, NEW l, NEW d \in Nat, Fields(h, l, d)
  PROVE  Fields(Stored(h, l[d + 1]), l, d + 1)
<1> DEFINE x == l[d + 1]
           g == Stored(h, x)
<1>1. DOMAIN g = DOMAIN h \union {Key(x)} /\ g[Key(x)] = Value(x)
      /\ \A k \in DOMAIN h : k # Key(x) => g[k] = h[k]
  BY DEF Stored
<1>2. d + 1 \in 1..d + 1 /\ \A i \in 1..d + 1 : i \in 1..d \/ i = d + 1
  OBVIOUS
<1>3. 1..d \subseteq 1..d + 1 /\ \A j \in 1..d + 1 : ~(j > d + 1)
  OBVIOUS
<1> HIDE DEF g
<1>4. DOMAIN g = {Key(l[i]) : i \in 1..d + 1}
  <2>1. DOMAIN h = {Key(l[i]) : i \in 1..d}
    BY DEF Fields
  <2>2. \A k : k \in DOMAIN g <=> (k = Key(l[d + 1]) \/ \E i \in 1..d : k = Key(l[i]))
    BY <1>1, <2>1
  <2>3. \A k : k \in {Key(l[i]) : i \in 1..d + 1} <=> (k = Key(l[d + 1]) \/ \E i \in 1..d : k = Key(l[i]))
    BY <1>2, <1>3
  <2> QED
    BY <2>2, <2>3
<1>5. ASSUME NEW k \in DOMAIN g
      PROVE  \E i \in 1..d + 1 : /\ Key(l[i]) = k /\ g[k] = Value(l[i])
                                  /\ \A j \in 1..d + 1 : j > i => Key(l[j]) # k
  <2>1. CASE k = Key(x)
    <3>1. Key(l[d + 1]) = k /\ g[k] = Value(l[d + 1])
      BY <1>1, <2>1
    <3> QED
      BY <1>2, <1>3, <3>1
  <2>2. CASE k # Key(x)
    <3>1. k \in DOMAIN h /\ g[k] = h[k]
      BY <1>1, <1>5, <2>2
    <3>2. PICK i \in 1..d : /\ Key(l[i]) = k /\ h[k] = Value(l[i])
                            /\ \A j \in 1..d : j > i => Key(l[j]) # k
      BY <3>1 DEF Fields
    <3>3. \A j \in 1..d + 1 : j > i => Key(l[j]) # k
      BY <1>2, <2>2, <3>2
    <3> QED
      BY <1>3, <3>1, <3>2, <3>3
  <2> QED
    BY <2>1, <2>2
<1> QED
  BY <1>4, <1>5 DEF Fields, g

(* Up to a separator of the rest, whatever comes behind the rest.          *)
LEMMA TakenOf ==
  ASSUME NEW b \in Seq(Unit), NEW i \in Seq(Unit), NEW a \in Seq(Unit), NEW c \in Seq(Unit),
         NEW u \in Unit, NEW p \in Seq(Unit), b \o i = ((a \o <<u>>) \o c) \o p,
         Without(a, u), Find(u, b) # 0
  PROVE  Split(b, i, u, a, c \o p)
<1> DEFINE x == a \o <<u>>
           y == c \o p
<1>1. x \in Seq(Unit) /\ y \in Seq(Unit)
  <2>1. <<u>> \in Seq(Unit)
    OBVIOUS
  <2> QED
    BY <2>1, Parts
<1>2. (x \o c) \o p = x \o y
  <2> HIDE DEF x
  <2>1. ASSUME NEW r \in Seq(Unit) PROVE (r \o c) \o p = r \o (c \o p)
    BY Associative
  <2>2. (x \o c) \o p = x \o (c \o p)
    BY ONLY <1>1, <2>1
  <2> QED
    BY <2>2
<1>3. b \o i = x \o y
  BY <1>2
<1>4. y \in Seq(Unit)
  BY <1>1
<1> HIDE DEF y
<1>5. b \o i = (a \o <<u>>) \o y
  BY <1>3
<1>6. Split(b, i, u, a, y)
  BY <1>4, <1>5, Taken
<1> QED
  BY <1>6 DEF y

(* The parts of a message's text.                                          *)
LEMMA Rests ==
  ASSUME message \in Messages
  PROVE  /\ Len(Lines(message)) \in Nat
         /\ \A k \in 0..Len(Lines(message)) : HeadersLeft(k) \in Seq(Unit)
         /\ HeadersLeft(0) = (<<>> \o <<"eol">>) \o message.body
         /\ \A k \in 1..Len(Lines(message)) :
               HeadersLeft(k) = (Lines(message)[Len(Lines(message)) - k + 1] \o <<"eol">>) \o HeadersLeft(k - 1)
         /\ AfterUrl \in Seq(Unit) /\ AfterMethod \in Seq(Unit)
         /\ Text(message) \in Seq(Unit)
         /\ Text(message) = (message.method \o <<"sp">>) \o AfterMethod
<1> DEFINE m == message
           l == Lines(message)
           n == Len(l)
           T(k) == LastLines(l)[k]
           E == <<"eol">>
           B == E \o m.body
<1>1. /\ l \in Seq(Seq(Unit)) /\ n \in Nat /\ m.url \in Seq(Unit) /\ m.body \in Seq(Unit)
      /\ m.method = <<"post">>
  <2>1. l \in Seq(Seq(Unit))
    BY MessageIs
  <2> QED
    BY <2>1, MessageIs, LenProperties
<1>2. /\ T(0) = <<>> /\ \A k \in 1..n : T(k) = l[n - k + 1] \o E \o T(k - 1)
      /\ \A k \in 0..n : T(k) \in Seq(Unit)
  BY <1>1, LastLinesStep
<1>3. E \in Seq(Unit) /\ B \in Seq(Unit) /\ <<"sp">> \in Seq(Unit)
  BY <1>1, Separators, Parts
<1>4. \A k : HeadersLeft(k) = T(k) \o B
  BY DEF HeadersLeft
<1>5. \A k \in 0..n : HeadersLeft(k) \in Seq(Unit)
  <2> HIDE DEF T, n, B
  <2> QED
    BY <1>2, <1>3, <1>4, Parts
<1>6. HeadersLeft(0) = (<<>> \o E) \o m.body
  <2>1. HeadersLeft(0) = <<>> \o B
    BY <1>2, <1>4
  <2> QED
    BY <1>1, <1>3, <2>1, Separators, Associative
<1>7. ASSUME NEW k \in 1..n PROVE HeadersLeft(k) = (l[n - k + 1] \o E) \o HeadersLeft(k - 1)
  <2>1. n - k + 1 \in 1..n /\ k - 1 \in 0..n
    BY <1>1
  <2>2. l[n - k + 1] \in Seq(Unit)
    BY <1>1, <2>1, ElementOfSeq
  <2>3. l[n - k + 1] \o E \in Seq(Unit) /\ T(k - 1) \in Seq(Unit)
    BY <1>2, <1>3, <2>1, <2>2, Parts
  <2>4. HeadersLeft(k) = ((l[n - k + 1] \o E) \o T(k - 1)) \o B
    BY <1>2, <1>4
  <2> HIDE DEF E, T, B, l, n
  <2> QED
    BY <1>3, <1>4, <2>3, <2>4, Associative
<1>8. AfterUrl = T(n) \o B /\ AfterUrl \in Seq(Unit)
  <2>1. n \in 0..n
    BY <1>1
  <2> QED
    BY <1>4, <1>5, <2>1 DEF AfterUrl
<1> DEFINE SV == <<"sp", "version">>
           SVE == <<"sp", "version", "eol">>
           A == m.method \o <<"sp">>
<1>9. SV \in Seq(Unit) /\ SVE \in Seq(Unit) /\ SVE = SV \o E /\ A \in Seq(Unit)
  <2>1. "sp" \in Unit /\ "version" \in Unit /\ "eol" \in Unit /\ "post" \in Unit
    BY DEF Unit
  <2>2. SV \in Seq(Unit) /\ SVE \in Seq(Unit) /\ m.method \in Seq(Unit)
    BY <1>1, <2>1
  <2>3. SVE = SV \o E
    OBVIOUS
  <2> QED
    BY <1>3, <2>2, <2>3, Parts
<1>a. AfterMethod = (m.url \o SV) \o (E \o AfterUrl)
  BY DEF AfterMethod
<1>b. Text(message) = (((((A \o m.url) \o SVE) \o T(n)) \o E) \o m.body)
  BY DEF Text
<1> DEFINE u == m.url
           R == T(n) \o B
<1>c. T(n) \in Seq(Unit) /\ R \in Seq(Unit) /\ u \in Seq(Unit)
  <2>1. n \in 0..n
    BY <1>1
  <2> QED
    BY <1>1, <1>2, <1>8, <2>1
<1>d. m.body \in Seq(Unit) /\ B = E \o m.body
  BY <1>1
<1>e. R = AfterUrl /\ R = T(n) \o B
  BY <1>8
<1> HIDE DEF A, SV, SVE, B, E, T, n, R, l, u
<1> DEFINE X == (A \o u) \o SVE
           Y == u \o SVE
           Z == u \o SV
           W == E \o R
<1>f. /\ A \o u \in Seq(Unit) /\ Y \in Seq(Unit) /\ Z \in Seq(Unit) /\ W \in Seq(Unit)
  BY <1>3, <1>9, <1>c, Parts
<1>g. X \in Seq(Unit) /\ Z \o W \in Seq(Unit)
  BY <1>9, <1>f, Parts
<1>h. X \o T(n) \in Seq(Unit)
  BY <1>c, <1>g, Parts
<1> DEFINE V == X \o T(n)
<1>n. (V \o E) \o m.body = X \o R
  <2>1. (V \o E) \o m.body = V \o (E \o m.body)
    <3> HIDE DEF V
    <3>1. V \in Seq(Unit) /\ E \in Seq(Unit) /\ m.body \in Seq(Unit)
      BY <1>3, <1>d, <1>h DEF V
    <3> QED
      BY <3>1, Associative
  <2>2. V \o B = X \o (T(n) \o B)
    <3> HIDE DEF X
    <3>1. X \in Seq(Unit) /\ T(n) \in Seq(Unit) /\ B \in Seq(Unit)
      BY <1>3, <1>c, <1>g
    <3> QED
      BY <3>1, Associative
  <2> HIDE DEF X, V
  <2> QED
    BY <1>d, <1>e, <2>1, <2>2
<1>i. ((((A \o u) \o SVE) \o T(n)) \o E) \o m.body = X \o R
  BY <1>n
<1>j. X \o R = A \o (Z \o W)
  <2>1. X = A \o Y
    BY <1>9, <1>c, Associative
  <2>2. (A \o Y) \o R = A \o (Y \o R)
    <3> HIDE DEF Y
    <3>1. A \in Seq(Unit) /\ Y \in Seq(Unit) /\ R \in Seq(Unit)
      BY <1>9, <1>c, <1>f
    <3> QED
      BY <3>1, Associative
  <2>3. Y = Z \o E
    <3>1. (u \o SV) \o E = u \o (SV \o E)
      <4>1. u \in Seq(Unit) /\ SV \in Seq(Unit) /\ E \in Seq(Unit)
        BY <1>3, <1>9, <1>c
      <4> QED
        BY ONLY <4>1, Associative
    <3> QED
      BY <1>9, <3>1
  <2>4. (Z \o E) \o R = Z \o (E \o R)
    <3> HIDE DEF Z
    <3>1. Z \in Seq(Unit) /\ E \in Seq(Unit) /\ R \in Seq(Unit)
      BY <1>3, <1>c, <1>f
    <3> QED
      BY <3>1, Associative
  <2> HIDE DEF X, Y, Z
  <2> QED
    BY <2>1, <2>2, <2>3, <2>4
<1>k. AfterMethod = (u \o SV) \o (E \o R)
  BY <1>a, <1>e DEF u
<1>l. Text(message) = A \o AfterMethod
  BY <1>b, <1>i, <1>j, <1>k DEF u
<1>m. AfterMethod \in Seq(Unit) /\ Text(message) \in Seq(Unit)
  BY <1>9, <1>g, <1>k, <1>l, Parts
<1> QED
  BY <1>1, <1>5, <1>6, <1>7, <1>8, <1>l, <1>m DEF A, E, n, l

LEMMA Empty ==
  ASSUME NEW s \in Seq(Unit)
  PROVE  <<>> \o s = s /\ s \o <<>> = s
<1>1. <<>> \in Seq(Unit) /\ Len(<<>>) = 0 /\ Len(s) \in Nat
  BY LenProperties
<1> DEFINE e == <<>>
           x == e \o s
           y == s \o e
<1>2. e \in Seq(Unit) /\ Len(e) = 0
  BY <1>1
<1> HIDE DEF e
<1>3. /\ x \in Seq(Unit) /\ Len(x) = Len(e) + Len(s) /\ \A j \in 1..Len(s) : x[Len(e) + j] = s[j]
  BY <1>2, Parts
<1>4. /\ y \in Seq(Unit) /\ Len(y) = Len(s) + Len(e) /\ \A j \in 1..Len(s) : y[j] = s[j]
  BY <1>2, Parts
<1> HIDE DEF x, y
<1>5. x = s
  <2>1. Len(x) = Len(s) /\ \A j \in 1..Len(s) : x[j] = s[j]
    BY <1>1, <1>2, <1>3
  <2> QED
    BY <1>3, <2>1, SeqEqual
<1>6. y = s
  <2>1. Len(y) = Len(s) /\ \A j \in 1..Len(s) : y[j] = s[j]
    BY <1>1, <1>2, <1>4
  <2> QED
    BY <1>4, <2>1, SeqEqual
<1> QED
  BY <1>5, <1>6 DEF x, y, e

(* A separator that the buffer reaches is found.                           *)
LEMMA Reached ==
  ASSUME NEW b \in Seq(Unit), NEW i \in Seq(Unit), NEW a \in Seq(Unit), NEW c \in Seq(Unit),
         NEW u \in Unit, NEW p \in Seq(Unit), b \o i = ((a \o <<u>>) \o c) \o p,
         Len(a) + 1 <= Len(b)
  PROVE  Find(u, b) # 0
<1> DEFINE x == a \o <<u>>
           y == x \o c
           z == y \o p
           k == Len(a) + 1
<1>1. Len(a) \in Nat /\ Len(b) \in Nat /\ Len(c) \in Nat /\ Len(p) \in Nat /\ k \in 1..Len(b)
  BY LenProperties
<1>2. x \in Seq(Unit) /\ Len(x) = k /\ x[k] = u
  <2>1. <<u>> \in Seq(Unit) /\ Len(<<u>>) = 1 /\ <<u>>[1] = u
    OBVIOUS
  <2>2. /\ x \in Seq(Unit) /\ Len(x) = Len(a) + Len(<<u>>)
        /\ \A j \in 1..Len(<<u>>) : x[Len(a) + j] = <<u>>[j]
    BY <2>1, Parts
  <2> HIDE DEF x
  <2> QED
    BY <2>1, <2>2
<1>3. y \in Seq(Unit) /\ Len(y) = k + Len(c) /\ y[k] = u
  <2> HIDE DEF x
  <2>1. y \in Seq(Unit) /\ Len(y) = Len(x) + Len(c) /\ \A j \in 1..Len(x) : y[j] = x[j]
    BY <1>2, Parts
  <2>2. k \in 1..Len(x)
    BY <1>1, <1>2
  <2> QED
    BY <1>1, <1>2, <2>1, <2>2
<1>4. z[k] = u
  <2> HIDE DEF y
  <2>1. \A j \in 1..Len(y) : z[j] = y[j]
    BY <1>3, Parts
  <2>2. k \in 1..Len(y)
    BY <1>1, <1>3
  <2> QED
    BY <1>3, <2>1, <2>2
<1>5. b \o i = z /\ \A j \in 1..Len(b) : (b \o i)[j] = b[j]
  BY Parts
<1>6. b[k] = u
  <2> HIDE DEF z, k
  <2> QED
    BY <1>1, <1>4, <1>5
<1> HIDE DEF k
<1> QED
  BY <1>1, <1>6, FindIs

-----------------------------------------------------------------------------
(* ParserInv, action by action.                                            *)
LEMMA ParserStarts == ParserInit => ParserInv
<1> SUFFICES ASSUME ParserInit PROVE ParserInv
  OBVIOUS
<1>1. /\ message \in Messages /\ incoming = Text(message) /\ phase = "method" /\ buffer = <<>>
      /\ req = [method |-> <<>>, url |-> <<>>, headers |-> <<>>, body |-> <<>>] /\ want = 0
  BY DEF ParserInit
<1>2. incoming \in Seq(Unit) /\ 0 \in 0..Len(Lines(message))
  BY <1>1, Rests
<1>3. TextTyped
  BY <1>1, <1>2 DEF TextTyped, IsRequest
<1>4. SoFar
  BY <1>1 DEF SoFar, Ended
<1>5. buffer \o incoming = Rest(0) \o <<>>
  <2>1. Rest(0) = incoming
    BY <1>1 DEF Rest
  <2>2. <<>> \o incoming = incoming /\ incoming \o <<>> = incoming
    BY <1>2, Empty
  <2> QED
    BY <1>1, <2>1, <2>2
<1>6. CarriedAt(0)
  BY <1>1, <1>5, Separators DEF CarriedAt, TextAt
<1>7. Carried
  BY <1>2, <1>6 DEF Carried
<1> QED
  BY <1>3, <1>4, <1>7 DEF ParserInv

LEMMA Asks ==
  ASSUME ParserInv, NEW h \in Nat, NeedInput(h), UNCHANGED <<message, incoming>>, ~Ended
  PROVE  ParserInv'
<1>1. Clamp(2 * Len(buffer)) \in Nat
  <2>1. Len(buffer) \in Nat
    BY LenProperties DEF ParserInv, TextTyped
  <2> QED
    BY <2>1, ParserAssumption DEF Clamp
<1>2. UNCHANGED <<message, incoming, phase, buffer, req>> /\ want' \in Nat
  BY <1>1 DEF NeedInput
<1>3. TextTyped'
  BY <1>2 DEF ParserInv, TextTyped, IsRequest
<1>4. SoFar'
  BY <1>2 DEF ParserInv, SoFar, Ended
<1>5. Carried'
  BY <1>2 DEF ParserInv, Carried, CarriedAt, TextAt, Ended, Rest, HeadersLeft, AfterMethod, AfterUrl
<1> QED
  BY <1>3, <1>4, <1>5 DEF ParserInv

(* What Carried takes from one step to the next, from d lines parsed to e. *)
LEMMA CarriedOn ==
  ASSUME NEW d, NEW e \in 0..Len(Lines(message)), CarriedAt(d), message' = message, incoming' = incoming,
         NEW r,
         \A p \in Seq(Unit) : buffer \o incoming = Rest(d) \o p => buffer' \o incoming = r \o p,
         Rest(e)' = r,
         phase' = "header" => Fields(req'.headers, Lines(message), e)
  PROVE  Carried'
<1>1. PICK p \in Seq(Unit) : buffer \o incoming = Rest(d) \o p /\ (incoming # <<>> => p = <<>>)
  BY DEF CarriedAt, TextAt
<1>2. buffer' \o incoming' = Rest(e)' \o p /\ (incoming' # <<>> => p = <<>>)
  BY <1>1
<1>3. TextAt(e)'
  BY <1>2 DEF TextAt
<1>4. CarriedAt(e)'
  BY <1>3 DEF CarriedAt
<1> QED
  BY <1>4 DEF Carried

LEMMA MethodParsed == ParserInv /\ ParseMethod => ParserInv'
<1> SUFFICES ASSUME ParserInv, ParseMethod PROVE ParserInv'
  OBVIOUS
<1> DEFINE end == Find("sp", buffer)
<1>1. CASE end = 0
  <2>1. NeedInput(0) /\ UNCHANGED <<message, incoming>> /\ ~Ended
    BY <1>1 DEF ParseMethod, Ended
  <2> QED
    BY <2>1, Asks
<1>2. CASE end # 0
  <2>1. /\ phase = "method" /\ phase' = "url" /\ req' = [req EXCEPT !.method = Before(end, buffer)]
        /\ buffer' = After(end, buffer) /\ UNCHANGED <<message, incoming, want>>
    BY <1>2 DEF ParseMethod
  <2>2. /\ message \in Messages /\ buffer \in Seq(Unit) /\ incoming \in Seq(Unit) /\ want \in Nat
        /\ IsRequest(req)
    BY DEF ParserInv, TextTyped
  <2>3. /\ message.method = <<"post">> /\ message.method \in Seq(Unit) /\ "sp" \in Unit
        /\ Without(message.method, "sp")
    <3>1. message.method = <<"post">> /\ "post" \in Unit /\ "sp" \in Unit
      BY <2>2, MessageIs DEF Unit
    <3> QED
      BY <3>1 DEF Without
  <2>4. AfterMethod \in Seq(Unit) /\ Text(message) = (message.method \o <<"sp">>) \o AfterMethod
    BY <2>2, Rests
  <2>b. PICK d \in 0..Len(Lines(message)) : CarriedAt(d)
    BY <2>1 DEF ParserInv, Carried, Ended
  <2>5. Rest(d) = (message.method \o <<"sp">>) \o AfterMethod
    BY <2>1, <2>4 DEF Rest
  <2>6. ASSUME NEW p \in Seq(Unit), buffer \o incoming = Rest(d) \o p
        PROVE  Split(buffer, incoming, "sp", message.method, AfterMethod \o p)
    BY <1>2, <2>2, <2>3, <2>4, <2>5, <2>6, TakenOf
  <2>7. Before(end, buffer) = message.method /\ buffer' \in Seq(Unit)
    BY <2>1, <2>6, <2>b DEF CarriedAt, TextAt, Split
  <2>8. Carried'
    <3>1. \A p \in Seq(Unit) : buffer \o incoming = Rest(d) \o p => buffer' \o incoming = AfterMethod \o p
      BY <2>1, <2>6 DEF Split
    <3>2. Rest(d)' = AfterMethod
      BY <2>1 DEF Rest, AfterMethod, AfterUrl, HeadersLeft, Lines
    <3>3. message' = message /\ incoming' = incoming /\ phase' # "header"
      BY <2>1
    <3> HIDE DEF end
    <3> QED
      BY ONLY <2>b, <3>1, <3>2, <3>3, CarriedOn
  <2>9. TextTyped'
    BY <2>1, <2>2, <2>3, <2>7 DEF TextTyped, IsRequest
  <2>a. SoFar'
    <3>1. req'.method = message.method /\ req'.headers = req.headers
      BY <2>1, <2>2, <2>7 DEF IsRequest
    <3> QED
      BY <2>1, <3>1 DEF ParserInv, SoFar, Ended
  <2> QED
    BY <2>8, <2>9, <2>a DEF ParserInv
<1> QED
  BY <1>1, <1>2

(* The two ways to see what is behind the method's end: up to the line's   *)
(* break, and up to the URL's end.                                         *)
LEMMA UrlLine ==
  ASSUME message \in Messages
  PROVE  /\ message.url \in Seq(Unit) /\ message.url \o <<"sp", "version">> \in Seq(Unit)
         /\ Len(message.url \o <<"sp", "version">>) = Len(message.url) + 2 /\ Len(message.url) \in Nat
         /\ Without(message.url, "sp") /\ Without(message.url \o <<"sp", "version">>, "eol")
         /\ <<"version">> \o (<<"eol">> \o AfterUrl) \in Seq(Unit)
         /\ AfterMethod = ((message.url \o <<"sp", "version">>) \o <<"eol">>) \o AfterUrl
         /\ AfterMethod = (message.url \o <<"sp">>) \o (<<"version">> \o (<<"eol">> \o AfterUrl))
<1> DEFINE u == message.url
           SV == <<"sp", "version">>
           S == <<"sp">>
           V == <<"version">>
           E == <<"eol">>
           R == AfterUrl
<1>1. /\ u \in Seq(Unit) /\ R \in Seq(Unit)
      /\ \A j \in DOMAIN u : u[j] # "sp" /\ u[j] # "eol"
  BY MessageIs, Rests
<1>2. SV \in Seq(Unit) /\ S \in Seq(Unit) /\ V \in Seq(Unit) /\ E \in Seq(Unit) /\ SV = S \o V
  <2>1. "sp" \in Unit /\ "version" \in Unit /\ "eol" \in Unit
    BY DEF Unit
  <2> QED
    BY <2>1
<1>3. Len(SV) = 2 /\ Len(u) \in Nat /\ DOMAIN u = 1..Len(u) /\ SV[1] = "sp" /\ SV[2] = "version"
  BY <1>1, LenProperties
<1>4. AfterMethod = (u \o SV) \o (E \o R)
  BY DEF AfterMethod
<1> HIDE DEF u, SV, S, V, E, R
<1>5. u \o SV \in Seq(Unit) /\ u \o S \in Seq(Unit) /\ E \o R \in Seq(Unit) /\ Len(u \o SV) = Len(u) + 2
  <2>1. u \in Seq(Unit) /\ SV \in Seq(Unit) /\ S \in Seq(Unit) /\ E \in Seq(Unit) /\ R \in Seq(Unit)
    BY <1>1, <1>2
  <2>2. u \o SV \in Seq(Unit) /\ Len(u \o SV) = Len(u) + Len(SV)
    BY ONLY <2>1, Parts
  <2>3. u \o S \in Seq(Unit)
    BY ONLY <2>1, Parts
  <2>4. E \o R \in Seq(Unit)
    BY ONLY <2>1, Parts
  <2> QED
    BY <1>3, <2>2, <2>3, <2>4
<1>6. V \o (E \o R) \in Seq(Unit)
  BY <1>2, <1>5, Parts
<1>7. (u \o SV) \o (E \o R) = ((u \o SV) \o E) \o R
  <2> DEFINE x == u \o SV
  <2>1. x \in Seq(Unit) /\ E \in Seq(Unit) /\ R \in Seq(Unit)
    BY <1>1, <1>2, <1>5
  <2>2. (x \o E) \o R = x \o (E \o R)
    <3> HIDE DEF x
    <3> QED
      BY ONLY <2>1, Associative
  <2> HIDE DEF x
  <2>3. x \o (E \o R) = (x \o E) \o R
    BY <2>2
  <2> QED
    BY <2>3 DEF x
<1>8. (u \o SV) \o (E \o R) = (u \o S) \o (V \o (E \o R))
  <2> DEFINE w == E \o R
             x == u \o S
  <2>1. (u \o S) \o V = u \o (S \o V)
    BY ONLY <1>1, <1>2, Associative
  <2>2. w \in Seq(Unit) /\ x \in Seq(Unit) /\ V \in Seq(Unit)
    BY <1>2, <1>5
  <2>3. (x \o V) \o w = x \o (V \o w)
    <3> HIDE DEF w, x
    <3> QED
      BY ONLY <2>2, Associative
  <2> QED
    BY <1>2, <2>1, <2>3
<1>9. Without(u, "sp")
  BY <1>1 DEF Without
<1>a. Without(u \o SV, "eol")
  <2>1. /\ \A j \in 1..Len(u) : (u \o SV)[j] = u[j]
        /\ \A j \in 1..Len(SV) : (u \o SV)[Len(u) + j] = SV[j]
    BY <1>1, <1>2, Parts
  <2> DEFINE x == u \o SV
  <2>2. DOMAIN x = 1..Len(u) + 2
    BY <1>5, LenProperties
  <2> HIDE DEF x
  <2>3. ASSUME NEW j \in 1..Len(u) + 2 PROVE x[j] # "eol"
    <3>1. CASE j \in 1..Len(u)
      BY <1>1, <1>3, <2>1, <3>1 DEF x
    <3>2. CASE j = Len(u) + 1
      <4>1. x[Len(u) + 1] = SV[1]
        BY <1>3, <2>1 DEF x
      <4> QED
        BY <1>3, <3>2, <4>1
    <3>3. CASE j = Len(u) + 2
      <4>1. x[Len(u) + 2] = SV[2]
        BY <1>3, <2>1 DEF x
      <4> QED
        BY <1>3, <3>3, <4>1
    <3> QED
      BY <1>3, <3>1, <3>2, <3>3
  <2>4. Without(x, "eol")
    BY <2>2, <2>3 DEF Without
  <2> QED
    BY <2>4 DEF x
<1> QED
  BY <1>1, <1>3, <1>4, <1>5, <1>6, <1>7, <1>8, <1>9, <1>a DEF u, SV, S, V, E, R

LEMMA UrlParsed == ParserInv /\ ParseUrl => ParserInv'
<1> SUFFICES ASSUME ParserInv, ParseUrl PROVE ParserInv'
  OBVIOUS
<1> DEFINE end == Find("eol", buffer)
           space == Find("sp", buffer)
           line == message.url \o <<"sp", "version">>
           behind == <<"version">> \o (<<"eol">> \o AfterUrl)
<1>1. CASE end = 0
  <2>1. NeedInput(0) /\ UNCHANGED <<message, incoming>> /\ ~Ended
    BY <1>1 DEF ParseUrl, Ended
  <2> QED
    BY <2>1, Asks
<1>2. CASE end # 0
  <2>1. /\ phase = "url" /\ phase' = "header" /\ req' = [req EXCEPT !.url = Before(space, buffer)]
        /\ buffer' = After(end, buffer) /\ UNCHANGED <<message, incoming, want>>
    BY <1>2 DEF ParseUrl, UrlEnd
  <2>2. /\ message \in Messages /\ buffer \in Seq(Unit) /\ incoming \in Seq(Unit) /\ want \in Nat
        /\ IsRequest(req)
        /\ req.method = message.method /\ req.headers = <<>>
    BY <2>1 DEF ParserInv, TextTyped, SoFar
  <2>3. /\ message.url \in Seq(Unit) /\ line \in Seq(Unit) /\ behind \in Seq(Unit) /\ AfterUrl \in Seq(Unit)
        /\ Len(line) = Len(message.url) + 2 /\ Len(message.url) \in Nat
        /\ Without(message.url, "sp") /\ Without(line, "eol")
        /\ AfterMethod = (line \o <<"eol">>) \o AfterUrl
        /\ AfterMethod = (message.url \o <<"sp">>) \o behind
        /\ "sp" \in Unit /\ "eol" \in Unit
    BY <2>2, UrlLine, Rests DEF Unit
  <2>b. PICK d \in 0..Len(Lines(message)) : CarriedAt(d)
    BY <2>1 DEF ParserInv, Carried, Ended
  <2>4. Rest(d) = AfterMethod
    BY <2>1 DEF Rest
  <2> HIDE DEF end, space, line, behind
  <2>5. ASSUME NEW p \in Seq(Unit), buffer \o incoming = Rest(d) \o p
        PROVE  /\ Split(buffer, incoming, "eol", line, AfterUrl \o p)
               /\ Split(buffer, incoming, "sp", message.url, behind \o p)
    <3>1. buffer \o incoming = ((line \o <<"eol">>) \o AfterUrl) \o p
      BY <2>3, <2>4, <2>5
    <3>2. buffer \o incoming = ((message.url \o <<"sp">>) \o behind) \o p
      BY <2>3, <2>4, <2>5
    <3>3. Split(buffer, incoming, "eol", line, AfterUrl \o p)
      BY <1>2, <2>2, <2>3, <3>1, TakenOf DEF end
    <3>4. Len(message.url) + 1 <= Len(buffer)
      BY <2>2, <2>3, <3>3, LenProperties DEF Split
    <3>5. Find("sp", buffer) # 0
      BY <2>2, <2>3, <3>2, <3>4, Reached
    <3>6. Split(buffer, incoming, "sp", message.url, behind \o p)
      BY <2>2, <2>3, <3>2, <3>5, TakenOf
    <3> QED
      BY <3>3, <3>6
  <2>6. Before(space, buffer) = message.url /\ buffer' \in Seq(Unit)
    BY <2>1, <2>5, <2>b DEF CarriedAt, TextAt, Split, end, space
  <2>7. Rest(0)' = AfterUrl /\ 0 \in 0..Len(Lines(message))
    <3>1. Lines(message') = Lines(message) /\ phase' = "header"
      BY <2>1
    <3>2. Rest(0)' = HeadersLeft(Len(Lines(message)))
      <4>1. Len(Lines(message)) - 0 = Len(Lines(message))
        BY <2>2, Rests
      <4> QED
        BY <2>1, <3>1, <4>1 DEF Rest, HeadersLeft
    <3> QED
      BY <2>2, <3>2, Rests DEF AfterUrl
  <2>c. req' = [req EXCEPT !.url = message.url]
    BY <2>1, <2>6
  <2>d. req'.method = message.method /\ req'.url = message.url /\ req'.headers = <<>> /\ IsRequest(req')
    BY <2>2, <2>c DEF IsRequest
  <2>8. Carried'
    <3>1. \A p \in Seq(Unit) : buffer \o incoming = Rest(d) \o p => buffer' \o incoming = AfterUrl \o p
      BY <2>1, <2>5 DEF Split, end
    <3>2. message' = message /\ incoming' = incoming
      BY <2>1
    <3>3. Fields(req'.headers, Lines(message), 0)
      <4>1. DOMAIN req'.headers = {} /\ 1..0 = {}
        BY <2>d
      <4> QED
        BY <4>1 DEF Fields
    <3> QED
      BY ONLY <2>7, <2>b, <3>1, <3>2, <3>3, CarriedOn
  <2>9. TextTyped'
    BY <2>1, <2>2, <2>3, <2>6, <2>d DEF TextTyped
  <2>a. SoFar'
    BY <2>1, <2>d DEF SoFar, Ended
  <2> QED
    BY <2>8, <2>9, <2>a DEF ParserInv
<1> QED
  BY <1>1, <1>2

LEMMA HeaderParsed == ParserInv /\ ParseHeader => ParserInv'
<1> SUFFICES ASSUME ParserInv, ParseHeader PROVE ParserInv'
  OBVIOUS
<1> DEFINE end == Find("eol", buffer)
           l == Lines(message)
           n == Len(l)
<1>1. CASE end = 0
  <2>1. NeedInput(0) /\ UNCHANGED <<message, incoming>> /\ ~Ended
    BY <1>1 DEF ParseHeader, Ended
  <2> QED
    BY <2>1, Asks
<1>2. ASSUME end # 0 PROVE ParserInv'
  <2>1. /\ phase = "header" /\ want = 0 /\ UNCHANGED <<message, incoming, want>>
        /\ end = 1 => phase' = "body" /\ req' = req /\ buffer' = After(end, buffer)
        /\ end # 1 /\ ~(end > 1 /\ Find(":", Before(end, buffer)) = 0) =>
              /\ phase' = phase /\ req' = [req EXCEPT !.headers = Stored(req.headers, Before(end, buffer))]
              /\ buffer' = After(end, buffer)
        /\ end > 1 /\ Find(":", Before(end, buffer)) = 0 =>
              phase' = "crashed" /\ req' = req /\ buffer' = buffer
    <3>1. phase = "header" /\ want = 0 /\ UNCHANGED <<message, incoming>>
      BY DEF ParseHeader
    <3> DEFINE lost == end > 1 /\ Find(":", Before(end, buffer)) = 0
    <3>2. CASE end = 1
      BY <1>2, <3>1, <3>2 DEF ParseHeader
    <3>3. CASE end # 1 /\ lost
      BY <1>2, <3>1, <3>3 DEF ParseHeader, Crash
    <3>4. CASE end # 1 /\ ~lost
      BY <1>2, <3>1, <3>4 DEF ParseHeader
    <3> QED
      BY <3>1, <3>2, <3>3, <3>4
  <2>2. /\ message \in Messages /\ buffer \in Seq(Unit) /\ incoming \in Seq(Unit) /\ want \in Nat
        /\ IsRequest(req)
        /\ req.method = message.method /\ req.url = message.url
    BY <2>1 DEF ParserInv, TextTyped, SoFar
  <2>3. l \in Seq(Seq(Unit)) /\ message.body \in Seq(Unit) /\ "eol" \in Unit
        /\ \A i \in 1..n : l[i] # <<>> /\ Without(l[i], "eol")
    BY <2>2, MessageIs DEF Unit, Without
  <2>b. PICK d \in 0..n : CarriedAt(d)
    BY <2>1 DEF ParserInv, Carried, Ended
  <2> DEFINE k == n - d
  <2>4. n \in Nat /\ d \in Nat /\ d <= n /\ k \in 0..n /\ DOMAIN l = 1..n
    BY <2>3, LenProperties
  <2>5. Rest(d) = HeadersLeft(k)
    BY <2>1 DEF Rest
  <2>6. /\ HeadersLeft(0) = (<<>> \o <<"eol">>) \o message.body
        /\ \A j \in 1..n : HeadersLeft(j) = (l[n - j + 1] \o <<"eol">>) \o HeadersLeft(j - 1)
        /\ \A j \in 0..n : HeadersLeft(j) \in Seq(Unit)
    BY <2>2, Rests
  <2>7. message' = message /\ incoming' = incoming /\ Lines(message') = l
    BY <2>1 DEF Lines
  <2>8. Fields(req.headers, l, d)
    BY <2>1, <2>b DEF CarriedAt
  <2>9. PICK q \in Seq(Unit) : buffer \o incoming = Rest(d) \o q
    BY <2>b DEF CarriedAt, TextAt
  <2> HIDE DEF end, l, n, k
  <2>a. CASE k = 0
    <3>1. Without(<<>>, "eol") /\ <<>> \in Seq(Unit) /\ Len(<<>>) = 0
      BY Separators DEF Without
    <3> DEFINE e == <<>>
    <3>2. Rest(d) = (e \o <<"eol">>) \o message.body
      BY <2>5, <2>6, <2>a
    <3>3. e \in Seq(Unit) /\ Without(e, "eol") /\ Len(e) = 0
      BY <3>1
    <3> HIDE DEF e
    <3>4. ASSUME NEW p \in Seq(Unit), buffer \o incoming = Rest(d) \o p
          PROVE  Split(buffer, incoming, "eol", e, message.body \o p)
      <4>1. buffer \o incoming = ((e \o <<"eol">>) \o message.body) \o p
        BY <3>2, <3>4
      <4>2. Find("eol", buffer) # 0
        BY <1>2 DEF end
      <4> QED
        BY <2>2, <2>3, <3>3, <4>1, <4>2, TakenOf
    <3>5. end = 1 /\ After(end, buffer) \in Seq(Unit)
      BY <2>9, <3>3, <3>4 DEF Split, end
    <3>6. phase' = "body" /\ req' = req /\ buffer' = After(end, buffer)
      BY <2>1, <3>5
    <3>7. Carried'
      <4>1. \A p \in Seq(Unit) : buffer \o incoming = Rest(d) \o p => buffer' \o incoming = message.body \o p
        BY <3>4, <3>6 DEF Split, end
      <4>2. Rest(d)' = message.body
        BY <2>7, <3>6 DEF Rest
      <4>3. d \in 0..Len(Lines(message)) /\ phase' # "header"
        BY <2>b, <3>6 DEF n, l
      <4> QED
        BY ONLY <2>7, <2>b, <4>1, <4>2, <4>3, CarriedOn
    <3>8. TextTyped'
      BY <2>1, <2>2, <3>5, <3>6 DEF TextTyped
    <3>9. FieldsOf(req.headers, l)
      <4>1. n = d
        BY <2>4, <2>a DEF k
      <4> QED
        BY <2>4, <2>8, <4>1 DEF Fields, FieldsOf
    <3>a. SoFar'
      BY <2>2, <2>7, <3>6, <3>9 DEF SoFar, Ended
    <3> QED
      BY <3>7, <3>8, <3>a DEF ParserInv
  <2>c. CASE k # 0
    <3> DEFINE a == l[d + 1]
    <3>1. k \in 1..n /\ n - k + 1 = d + 1 /\ d + 1 \in 1..n /\ k - 1 \in 0..n /\ d + 1 \in 0..n /\ n - (d + 1) = k - 1
      BY <2>4, <2>c DEF k
    <3>2. a \in Seq(Unit) /\ a # <<>> /\ Without(a, "eol") /\ Len(a) \in Nat /\ Len(a) # 0
      <4>1. a \in Seq(Unit)
        BY <2>3, <3>1, ElementOfSeq DEF n
      <4>2. a # <<>> /\ Without(a, "eol")
        BY <2>3, <3>1
      <4> HIDE DEF a
      <4> QED
        BY <4>1, <4>2, EmptySeq, LenProperties
    <3>3. Rest(d) = (a \o <<"eol">>) \o HeadersLeft(k - 1) /\ HeadersLeft(k - 1) \in Seq(Unit)
      BY <2>5, <2>6, <3>1
    <3> HIDE DEF a
    <3> DEFINE c == HeadersLeft(k - 1)
    <3>4. ASSUME NEW p \in Seq(Unit), buffer \o incoming = Rest(d) \o p
          PROVE  Split(buffer, incoming, "eol", a, c \o p)
      <4>1. buffer \o incoming = ((a \o <<"eol">>) \o c) \o p /\ c \in Seq(Unit)
        BY <3>3, <3>4
      <4>2. Find("eol", buffer) # 0
        BY <1>2 DEF end
      <4> HIDE DEF c
      <4> QED
        BY <2>2, <2>3, <3>2, <4>1, <4>2, TakenOf
    <3>5. end = Len(a) + 1 /\ end # 1 /\ end > 1 /\ After(end, buffer) \in Seq(Unit) /\ Before(end, buffer) = a
      <4>1. end = Len(a) + 1 /\ After(end, buffer) \in Seq(Unit) /\ Before(end, buffer) = a
        <5> HIDE DEF c
        <5> QED
          BY <2>9, <3>4 DEF Split, end
      <4> QED
        BY <3>2, <4>1
    <3>6. CASE Find(":", a) = 0
      <4>1. phase' = "crashed" /\ req' = req /\ buffer' = buffer
        BY <2>1, <3>5, <3>6
      <4>2. d + 1 \in DOMAIN l /\ ~WellFormed(l[d + 1])
        BY <2>4, <3>1, <3>6 DEF WellFormed, a
      <4>3. TextTyped'
        BY <2>1, <2>2, <4>1 DEF TextTyped
      <4>4. SoFar'
        BY <2>1, <2>2, <2>7, <4>1, <4>2 DEF SoFar, Ended
      <4>5. Carried'
        BY <4>1 DEF Carried, Ended
      <4> QED
        BY <4>3, <4>4, <4>5 DEF ParserInv
    <3>7. CASE Find(":", a) # 0
      <4> DEFINE h == Stored(req.headers, a)
      <4>1. phase' = "header" /\ req' = [req EXCEPT !.headers = h] /\ buffer' = After(end, buffer)
        BY <2>1, <3>5, <3>7
      <4>2. Fields(h, l, d + 1)
        BY <2>4, <2>8, OneMore DEF a
      <4> HIDE DEF h
      <4>3. req'.headers = h /\ req'.method = req.method /\ req'.url = req.url /\ IsRequest(req')
        BY <2>2, <4>1 DEF IsRequest
      <4>4. Carried'
        <5>1. \A p \in Seq(Unit) : buffer \o incoming = Rest(d) \o p => buffer' \o incoming = c \o p
          <6> HIDE DEF c
          <6> QED
            BY <3>4, <4>1 DEF Split, end
        <5>2. Rest(d + 1)' = c
          <6>1. Rest(d + 1)' = HeadersLeft(n - (d + 1))
            BY <2>7, <4>1 DEF Rest, HeadersLeft, n, l
          <6> QED
            BY <3>1, <6>1
        <5>3. d + 1 \in 0..Len(Lines(message)) /\ Fields(req'.headers, Lines(message), d + 1)
          BY <3>1, <4>2, <4>3 DEF n, l
        <5> QED
          BY ONLY <2>7, <2>b, <5>1, <5>2, <5>3, CarriedOn
      <4>5. TextTyped'
        BY <2>1, <2>2, <3>5, <4>1, <4>3 DEF TextTyped
      <4>6. SoFar'
        BY <2>2, <2>7, <4>1, <4>3 DEF SoFar, Ended
      <4> QED
        BY <4>4, <4>5, <4>6 DEF ParserInv
    <3> QED
      BY <3>6, <3>7
  <2> QED
    BY <2>a, <2>c
<1> QED
  BY <1>1, <1>2

LEMMA BodyParsed == ParserInv /\ ParseBody => ParserInv'
<1> SUFFICES ASSUME ParserInv, ParseBody PROVE ParserInv'
  OBVIOUS
<1> DEFINE b == message.body
<1>0. phase = "body" /\ want = 0 /\ UNCHANGED <<message, incoming>>
  BY DEF ParseBody
<1>2. /\ message \in Messages /\ buffer \in Seq(Unit) /\ incoming \in Seq(Unit) /\ want \in Nat
      /\ IsRequest(req)
      /\ req.method = message.method /\ req.url = message.url /\ FieldsOf(req.headers, Lines(message))
  BY <1>0 DEF ParserInv, TextTyped, SoFar
<1>7. CASE HasLength /\ ~IsNumber(LengthTold)
  <2>1. phase' = "crashed" /\ UNCHANGED <<buffer, req, want>>
    BY <1>7 DEF ParseBody, Crash
  <2>2. \E i \in DOMAIN Lines(message) : ~WellFormed(Lines(message)[i])
    BY <1>2, <1>7, LengthRight
  <2>3. TextTyped'
    BY <1>0, <1>2, <2>1 DEF TextTyped
  <2>4. SoFar'
    BY <1>0, <1>2, <2>1, <2>2 DEF SoFar, Ended
  <2>5. Carried'
    BY <2>1 DEF Carried, Ended
  <2> QED
    BY <2>3, <2>4, <2>5 DEF ParserInv
<1>8. SUFFICES ASSUME ~(HasLength /\ ~IsNumber(LengthTold)) PROVE ParserInv'
  BY <1>7
<1>1. IF Missing > 0
      THEN NeedInput(Missing)
      ELSE /\ phase' = "done" /\ req' = [req EXCEPT !.body = SubSeq(buffer, 1, ContentLength)]
           /\ UNCHANGED <<buffer, want>>
  BY <1>8 DEF ParseBody
<1>3. ContentLength = Len(b) /\ Len(b) \in Nat /\ b \in Seq(Unit) /\ Len(buffer) \in Nat
  BY <1>2, <1>8, LengthRight, MessageIs, LenProperties
<1>4. Missing = Len(b) - Len(buffer)
  BY <1>3 DEF Missing
<1>5. CASE Missing > 0
  <2>1. Missing \in Nat
    BY <1>3, <1>4, <1>5
  <2> QED
    BY <1>0, <1>1, <1>5, <2>1, Asks DEF Ended
<1>6. ASSUME ~(Missing > 0) PROVE ParserInv'
  <2>1. phase' = "done" /\ req' = [req EXCEPT !.body = SubSeq(buffer, 1, Len(b))] /\ UNCHANGED <<buffer, want>>
    BY <1>1, <1>3, <1>6
  <2>2. Len(b) <= Len(buffer)
    BY <1>3, <1>4, <1>6
  <2>3. PICK p \in Seq(Unit) : buffer \o incoming = b \o p
    BY <1>0 DEF ParserInv, Carried, CarriedAt, TextAt, Ended, Rest
  <2> DEFINE x == SubSeq(buffer, 1, Len(b))
  <2>4. x \in Seq(Unit) /\ Len(x) = Len(b) /\ \A j \in 1..Len(b) : x[j] = buffer[j]
    BY <1>2, <1>3, <2>2
  <2>5. ASSUME NEW j \in 1..Len(b) PROVE buffer[j] = b[j]
    <3>1. j \in 1..Len(buffer)
      BY <1>3, <2>2
    <3>2. (buffer \o incoming)[j] = buffer[j]
      BY <1>2, <3>1, Parts
    <3>3. (b \o p)[j] = b[j]
      <4> HIDE DEF b
      <4> QED
        BY <1>3, Parts
    <3> QED
      BY <2>3, <3>2, <3>3
  <2>6. x = b
    <3> HIDE DEF x, b
    <3> QED
      BY <1>3, <2>4, <2>5, SeqEqual
  <2>7. req' = [req EXCEPT !.body = b] /\ message' = message
    BY <1>0, <2>1, <2>6
  <2>b. /\ IsRequest(req') /\ req'.method = req.method /\ req'.url = req.url
        /\ req'.headers = req.headers /\ req'.body = b
    BY <1>2, <2>7 DEF IsRequest
  <2>8. TextTyped'
    BY <1>0, <1>2, <2>1, <2>7, <2>b DEF TextTyped
  <2>9. SoFar'
    BY <1>0, <1>2, <2>1, <2>7, <2>b DEF SoFar, Ended
  <2>a. Carried'
    BY <2>1 DEF Carried, Ended
  <2> QED
    BY <2>8, <2>9, <2>a DEF ParserInv
<1> QED
  BY <1>5, <1>6

(* A read gets all that there is room for, so that padding comes only      *)
(* behind the text.                                                        *)
LEMMA ReadOn == Bulk /\ ParserInv /\ Read => ParserInv'
<1> SUFFICES ASSUME Bulk, ParserInv, Read PROVE ParserInv'
  OBVIOUS
<1>0. ~Ended
  <2>1. want > 0 /\ ~(0 > 0)
    BY DEF Read
  <2> QED
    BY <2>1 DEF ParserInv, SoFar
<1> DEFINE n == IF want < Len(incoming) THEN want ELSE Len(incoming)
           w == Padding(want - n)
           t == SubSeq(incoming, 1, n)
           c == After(n, incoming)
<1>1. /\ incoming # <<>> /\ buffer' = buffer \o t \o w
      /\ incoming' = c /\ want' = 0 /\ UNCHANGED <<message, phase, req>>
  BY DEF Read
<1>2. /\ message \in Messages /\ buffer \in Seq(Unit) /\ incoming \in Seq(Unit) /\ want \in Nat
      /\ IsRequest(req)
      /\ phase \in {"method", "url", "header", "body", "done", "crashed"}
  BY DEF ParserInv, TextTyped
<1>e. PICK d \in 0..Len(Lines(message)) : CarriedAt(d)
  BY <1>0 DEF ParserInv, Carried
<1> DEFINE rest == Rest(d)
<1>3. PICK p \in Seq(Unit) : buffer \o incoming = rest \o p /\ (incoming # <<>> => p = <<>>)
  BY <1>e DEF CarriedAt, TextAt
<1>4. p = <<>> /\ rest \in Seq(Unit) /\ buffer \o incoming = rest
  <2>1. ASSUME phase \in {"method", "url", "body"} PROVE rest \in Seq(Unit)
    BY <1>2, <2>1, Rests, MessageIs DEF Rest
  <2>2. ASSUME phase = "header" PROVE rest \in Seq(Unit)
    <3>1. Len(Lines(message)) - d \in 0..Len(Lines(message))
      BY <1>2, Rests
    <3> QED
      BY <1>2, <2>2, <3>1, Rests DEF Rest
  <2>3. rest \in Seq(Unit)
    BY <1>0, <1>2, <2>1, <2>2 DEF Ended
  <2>4. p = <<>>
    BY <1>1, <1>3
  <2> HIDE DEF rest
  <2>5. rest \o <<>> = rest
    BY <2>3, Empty
  <2> QED
    BY <1>3, <2>3, <2>4, <2>5
<1>5. Len(incoming) \in Nat /\ n \in 0..Len(incoming) /\ n <= want /\ want - n \in Nat
  BY <1>2, LenProperties
<1>6. n = want \/ n = Len(incoming)
  OBVIOUS
<1> HIDE DEF n
<1>7. /\ t \in Seq(Unit) /\ c \in Seq(Unit) /\ Len(t) = n /\ Len(c) = Len(incoming) - n
      /\ \A j \in 1..n : t[j] = incoming[j]
      /\ \A j \in 1..(Len(incoming) - n) : c[j] = incoming[n + j]
  BY <1>2, <1>5 DEF After
<1>8. w \in Seq(Unit) /\ (n = want => w = <<>>)
  <2>1. "nul" \in Unit
    BY DEF Unit
  <2>2. \A k \in Nat : Padding(k) \in Seq(Unit)
    BY <2>1 DEF Padding
  <2>3. Padding(0) = <<>>
    BY DEF Padding
  <2>4. n = want => want - n = 0
    BY <1>2
  <2> QED
    BY <1>5, <2>2, <2>3, <2>4
<1> HIDE DEF t, c, w
<1>9. t \o c = incoming
  <2> DEFINE x == t \o c
  <2>1. /\ x \in Seq(Unit) /\ Len(x) = Len(t) + Len(c)
        /\ \A j \in 1..Len(t) : x[j] = t[j]
        /\ \A j \in 1..Len(c) : x[Len(t) + j] = c[j]
    BY <1>7, Parts
  <2> HIDE DEF x
  <2>2. Len(x) = Len(incoming)
    BY <1>5, <1>7, <2>1
  <2>3. ASSUME NEW j \in 1..Len(incoming) PROVE x[j] = incoming[j]
    <3>1. CASE j <= n
      <4>1. j \in 1..n
        BY <1>5, <3>1
      <4> QED
        BY <1>7, <2>1, <4>1
    <3>2. CASE j > n
      <4> DEFINE k == j - n
      <4>1. k \in 1..(Len(incoming) - n) /\ n + k = j
        BY <1>5, <3>2
      <4> HIDE DEF k
      <4>2. x[n + k] = c[k] /\ c[k] = incoming[n + k]
        BY <1>7, <2>1, <4>1
      <4> QED
        BY <4>1, <4>2
    <3> QED
      BY <1>5, <3>1, <3>2
  <2>4. x = incoming
    BY <1>2, <2>1, <2>2, <2>3, SeqEqual
  <2> QED
    BY <2>4 DEF x
<1>a. buffer \o t \in Seq(Unit) /\ (buffer \o t) \o w \in Seq(Unit)
  <2>1. buffer \o t \in Seq(Unit)
    BY <1>2, <1>7, Parts
  <2> DEFINE x == buffer \o t
  <2> HIDE DEF x
  <2>2. x \in Seq(Unit)
    BY <2>1 DEF x
  <2>3. x \o w \in Seq(Unit)
    BY <1>8, <2>2, Parts
  <2> QED
    BY <2>1, <2>3 DEF x
<1>b. Rest(d)' = rest
  BY <1>1 DEF Rest, HeadersLeft, AfterMethod, AfterUrl, Lines, Text
<1>f. ASSUME TextAt(d)' PROVE Carried'
  BY <1>1, <1>e, <1>f DEF Carried, CarriedAt
<1> HIDE DEF rest
<1>c. CASE n = want
  <2>1. buffer' \o incoming' = (buffer \o t) \o c
    <3>1. w = <<>>
      BY <1>8, <1>c
    <3> DEFINE x == buffer \o t
    <3>2. x \in Seq(Unit)
      BY <1>a
    <3> HIDE DEF x
    <3>3. x \o <<>> = x
      BY <3>2, Empty
    <3>4. buffer' = x \o w
      BY <1>1 DEF x
    <3>5. buffer' = x
      BY <3>1, <3>3, <3>4
    <3> QED
      BY <1>1, <3>5 DEF x
  <2>2. (buffer \o t) \o c = buffer \o (t \o c)
    <3>1. buffer \in Seq(Unit) /\ t \in Seq(Unit) /\ c \in Seq(Unit)
      BY <1>2, <1>7
    <3> QED
      BY ONLY <3>1, Associative
  <2>3. buffer' \o incoming' = rest
    BY <1>4, <1>9, <2>1, <2>2
  <2>4. rest = rest \o <<>>
    BY <1>3, <1>4
  <2>5. buffer' \o incoming' = Rest(d)' \o <<>>
    BY <1>b, <2>3, <2>4
  <2>6. TextAt(d)'
    BY <2>5, Separators DEF TextAt
  <2>7. TextTyped'
    BY <1>1, <1>2, <1>7, <1>a DEF TextTyped
  <2>8. SoFar'
    BY <1>0, <1>1 DEF ParserInv, SoFar, Lines, Ended
  <2> QED
    BY <1>f, <2>6, <2>7, <2>8 DEF ParserInv
<1>d. CASE n = Len(incoming)
  <2>1. incoming' = <<>> /\ c = <<>>
    <3>1. Len(c) = 0
      BY <1>5, <1>7, <1>d
    <3> QED
      BY <1>1, <1>7, <3>1, EmptySeq
  <2>2. buffer \o t = rest
    <3>1. t \o <<>> = t
      BY <1>7, Empty
    <3> QED
      BY <1>4, <1>9, <2>1, <3>1
  <2>3. buffer' = rest \o w
    BY <1>1, <2>2
  <2>4. buffer' \o incoming' = Rest(d)' \o w
    <3>1. buffer' \in Seq(Unit)
      BY <1>1, <1>a
    <3> DEFINE x == buffer'
    <3> HIDE DEF x
    <3>2. x \o <<>> = x
      BY <3>1, Empty DEF x
    <3> QED
      BY <1>b, <2>1, <2>3, <3>2 DEF x
  <2>5. TextAt(d)'
    BY <1>8, <2>1, <2>4 DEF TextAt
  <2>6. TextTyped'
    BY <1>1, <1>2, <1>7, <1>a DEF TextTyped
  <2>7. SoFar'
    BY <1>0, <1>1 DEF ParserInv, SoFar, Lines, Ended
  <2> QED
    BY <1>f, <2>5, <2>6, <2>7 DEF ParserInv
<1> QED
  BY <1>6, <1>c, <1>d

LEMMA ParserStutters == ParserInv /\ UNCHANGED textVars => ParserInv'
<1> SUFFICES ASSUME ParserInv, UNCHANGED <<message, incoming, phase, buffer, req, want>> PROVE ParserInv'
  BY DEF textVars
<1>1. TextTyped' /\ SoFar'
  BY DEF ParserInv, TextTyped, SoFar, Lines, Ended
<1>2. \A d : Rest(d)' = Rest(d)
  BY DEF Rest, HeadersLeft, AfterMethod, AfterUrl, Lines, Text
<1>3. Carried'
  BY <1>2 DEF ParserInv, Carried, CarriedAt, TextAt, Ended
<1> QED
  BY <1>1, <1>3 DEF ParserInv

-----------------------------------------------------------------------------
(* What the callback of HandleRequest is given is the request the client   *)
(* has sent, with the last of the fields that repeat each other, as long   *)
(* as every read gets all that the buffer has room for or that the client  *)
(* still sends; and the parser ends the program only over a field that has *)
(* no colon or is a content-length without a number: for requests of any   *)
(* length, with any number of headers, and any sizes of the reads.         *)
THEOREM RequestAsSent == Bulk => (ExchangeSpec => []ParsedAsSent)
<1> SUFFICES ASSUME Bulk PROVE ExchangeSpec => []ParsedAsSent
  OBVIOUS
<1> USE DEF ExchangeNext, Talk
<1>1. ExchangeInit => ParserInv
  BY ParserStarts DEF ExchangeInit
<1>2. ParserInv /\ [ExchangeNext]_exchangeVars => ParserInv'
  <2> SUFFICES ASSUME ParserInv, [ExchangeNext]_exchangeVars PROVE ParserInv'
    OBVIOUS
  <2>1. CASE ParseSome
    BY <2>1, MethodParsed, UrlParsed, HeaderParsed, BodyParsed DEF ParseSome
  <2>2. CASE ReadSome
    BY <2>2, ReadOn DEF ReadSome
  <2>3. CASE Handle
    BY <2>3, BodyParsed DEF Handle
  <2>4. CASE UNCHANGED textVars
    BY <2>4, ParserStutters
  <2>5. Fail => UNCHANGED textVars
    BY DEF Fail
  <2>6. UNCHANGED exchangeVars => UNCHANGED textVars
    BY DEF exchangeVars
  <2> QED
    BY <2>1, <2>2, <2>3, <2>4, <2>5, <2>6
<1>3. ParserInv => ParsedAsSent
  BY DEF ParserInv, SoFar, ParsedAsSent
<1> QED
  BY <1>1, <1>2, <1>3, PTL DEF ExchangeSpec

-----------------------------------------------------------------------------
(* The reads and the parser are in nobody's way: an exchange is one of     *)
(* Connection's behaviours, which knows nothing of the request's text.     *)
THEOREM ExchangeIsConnection == ExchangeSpec => Spec
<1>1. ExchangeInit => Init
  BY DEF ExchangeInit
<1>2. [ExchangeNext]_exchangeVars => [Next]_vars
  <2>1. Handle => Next
    BY DEF Handle, Next, Asio
  <2>2. Fail => Next
    BY DEF Fail, Next, Asio
  <2>3. Asio \/ Main \/ ServiceBreaks \/ HangUp => Next
    BY DEF Next
  <2>4. ParseSome \/ ReadSome => UNCHANGED vars
    BY DEF ParseSome, ReadSome
  <2>5. UNCHANGED exchangeVars => UNCHANGED vars
    BY DEF exchangeVars
  <2> QED
    BY <2>1, <2>2, <2>3, <2>4, <2>5 DEF ExchangeNext, Talk
<1> QED
  BY <1>1, <1>2, PTL DEF ExchangeSpec, Spec

(* So a client that gets its whole answer got it in order, and what waits  *)
(* to be sent is not overwritten.                                          *)
THEOREM ExchangeInOrder == ExchangeSpec => []WireIntact /\ []ClosedWhenComplete /\ PendingKept
  BY ExchangeIsConnection, WireInOrder, ClosedComplete, NothingOverwritten

=============================================================================
