-------------------------- MODULE LifecycleProofs ---------------------------
(***************************************************************************)
(* No change of a state is lost when a program ends, for any number of     *)
(* signals, on any threads, and of requests and presses of the button.     *)
(***************************************************************************)
EXTENDS Lifecycle, SequenceTheorems, WellFoundedInduction, TLAPS

Threads == {"waiter", "worker", "asio", "http", "button"}
Kinds == {"INT", "TERM"}
Progress == {"default", "caught", "posted", "done"}
Tasks == {"start", "press", "request", "answer"}
Places ==
    Tasks \union
    {"ready", "looked", "asleep", "done", "get", "stop main", "join main", "reset http",
     "stop http", "join http", "returned", "interrupt", "raise", "untrapped", "close",
     "stop asio", "join asio", "button", "save", "promise", "run", "accept", "post", "again",
     "unmade", "idle", "assign", "freed"}

SignalRecord == [kind : Kinds, on : Threads, at : Progress]
AnyEntry == {Signal(n) : n \in Nat} \union {Entry(e) : e \in Tasks}

Queued == Range(queue) \union Range(batch)

Worker_at == pc["worker"]
Waiting == pc["waiter"] = "get"

-----------------------------------------------------------------------------
(* The inductive invariant.                                                *)
Typed ==
    /\ pc \in [Threads -> Places]
    /\ signals \in Seq(SignalRecord) /\ Len(signals) <= MaxSignals
    /\ lifetime \in 0..Len(signals)
    /\ trapped \subseteq Kinds
    /\ queue \in Seq(AnyEntry) /\ batch \in Seq(AnyEntry)
    /\ \A n \in Nat : Signal(n) \in Queued => n \in 1..Len(signals)
    /\ stop \subseteq {"worker", "asio", "http"}
    /\ alive \subseteq Objects
    /\ httpTask \in BOOLEAN /\ proxied \in BOOLEAN /\ pressed \in BOOLEAN /\ unsaved \in BOOLEAN
    /\ inputs \in 0..MaxInputs
    /\ exit \in {"no", "status 0", "killed"} \union Objects

(* The entry of a signal is there once, and not before it is posted.       *)
Once(s) == \A i, j \in 1..Len(s) : s[i] = s[j] /\ s[i][1] = "signal" => i = j

PostedOnce ==
    /\ Once(queue) /\ Once(batch)
    /\ \A n \in 1..Len(signals) :
          /\ ~(Signal(n) \in Range(queue) /\ Signal(n) \in Range(batch))
          /\ Signal(n) \in Queued => signals[n].at \in {"posted", "done"}

OnlyTheLast ==
    \A n \in 1..Len(signals) :
        Signal(n) \in Queued =>
            n = lifetime \/ signals[n].at = "posted" \/ "handler" \notin alive

(* The parts of the stack are made by the first task, once.                *)
Early ==
    Entry("start") \in Queued \/ Worker_at = "start" =>
        /\ Waiting /\ alive = {"scheduler", "thread"} /\ trapped = {}
        /\ pc["asio"] = "run" /\ pc["http"] = "ready" /\ pc["button"] = "unmade"
        /\ ~proxied /\ ~unsaved
        /\ \A n \in 1..Len(signals) : ~Catching(n)
        /\ <<Worker_at, queue, batch>> \in
              {<<"ready", <<Entry("start")>>, <<>>>>, <<"ready", <<>>, <<Entry("start")>>>>,
               <<"start", <<>>, <<>>>>}

(* The worker is in the callback of main(), ...                            *)
Closing == {"close", "stop asio", "join asio"}
Saving == {"button", "save"}
Stopping == {"interrupt", "untrapped", "promise"} \union Closing \union Saving

InCallback ==
    /\ Worker_at \in Stopping => signals # <<>> /\ Waiting
    /\ Worker_at \in {"interrupt", "untrapped"} => "handler" \in alive
    /\ Worker_at \in Closing \union Saving \union {"promise"} => "handler" \notin alive
    /\ Worker_at \in Saving \union {"promise"} => "context" \notin alive
    /\ Worker_at = "raise" => \E n \in 1..Len(signals) : signals[n].kind = "TERM"

(* ... which destroys what can change a state before it saves them, and    *)
(* ends the wait of main() after that.                                     *)
Destroyed ==
    /\ "handler" \notin alive /\ "context" \in alive => Worker_at \in Closing
    /\ "context" \notin alive /\ unsaved => Worker_at \in Saving
    /\ ~Waiting => alive \intersect {"handler", "context"} = {}
    /\ Waiting => {"scheduler", "thread"} \subseteq alive

(* Signals are caught as long as there is a handler.                       *)
Caught ==
    /\ trapped # {} => "handler" \in alive
    /\ "INT" \notin trapped /\ (unsaved \/ "context" \in alive) => signals # <<>>
    /\ \A n \in 1..Len(signals) :
          Catching(n) /\ signals[n].on = "worker" => "handler" \in alive

Inv ==
    /\ Typed /\ PostedOnce /\ OnlyTheLast /\ Early /\ InCallback /\ Destroyed /\ Caught
    /\ StatesOutlive

-----------------------------------------------------------------------------
(* The entries of a scheduler.                                             *)
LEMMA Kind ==
    /\ \A n \in Nat : Signal(n) \in AnyEntry /\ Signal(n)[1] = "signal"
    /\ \A e \in Tasks : Entry(e) \in AnyEntry /\ Entry(e)[1] = e /\ e # "signal"
    /\ \A m, n \in Nat : Signal(m) = Signal(n) => m = n
    /\ \A e \in Tasks, n \in Nat : Entry(e) # Signal(n)
<1>1. \A n \in Nat : Signal(n) \in AnyEntry /\ Signal(n)[1] = "signal"
  BY DEF Signal, AnyEntry
<1>2. \A e \in Tasks : Entry(e) \in AnyEntry /\ Entry(e)[1] = e
  BY DEF Entry, AnyEntry
<1>3. \A e \in Tasks : e # "signal"
  BY DEF Tasks
<1>4. \A m, n \in Nat : Signal(m) = Signal(n) => m = n
  <2>1. \A n \in Nat : Signal(n)[2] = n
    BY DEF Signal
  <2> TAKE m, n \in Nat
  <2>2. Signal(m)[2] = m /\ Signal(n)[2] = n
    BY <2>1
  <2> QED
    BY <2>2
<1>5. \A e \in Tasks, n \in Nat : Entry(e) # Signal(n)
  <2> TAKE e \in Tasks, n \in Nat
  <2>1. Entry(e)[1] = e /\ Signal(n)[1] = "signal" /\ e # "signal"
    BY <1>1, <1>2, <1>3
  <2> QED
    BY <2>1
<1> QED
  BY <1>1, <1>2, <1>3, <1>4, <1>5

(* The entries of a sequence.                                              *)
LEMMA Members ==
    ASSUME NEW S, NEW s \in Seq(S)
    PROVE  Range(s) = {s[i] : i \in 1..Len(s)} /\ Len(s) \in Nat /\ Range(s) \subseteq S
  BY LenProperties, ElementOfSeq DEF Range

(* An entry is added at the end, ...                                       *)
LEMMA Appended ==
    ASSUME NEW s \in Seq(AnyEntry), NEW e \in AnyEntry
    PROVE  /\ Append(s, e) \in Seq(AnyEntry)
           /\ Range(Append(s, e)) = Range(s) \union {e}
           /\ Once(s) /\ e \notin Range(s) => Once(Append(s, e))
           /\ Once(s) /\ e[1] # "signal" => Once(Append(s, e))
<1> DEFINE t == Append(s, e)
<1>1. /\ t \in Seq(AnyEntry) /\ Len(t) = Len(s) + 1 /\ t[Len(s) + 1] = e
      /\ \A i \in 1..Len(s) : t[i] = s[i]
  BY AppendProperties
<1>2. Len(s) \in Nat
  BY LenProperties
<1>3. 1..Len(t) = 1..Len(s) \union {Len(s) + 1}
  BY <1>1, <1>2
<1> HIDE DEF t
<1>4. Range(t) = Range(s) \union {e}
  BY <1>1, <1>3, Members
<1>5. ASSUME Once(s), e \notin Range(s) \/ e[1] # "signal" PROVE Once(t)
  <2>1. \A i \in 1..Len(s) : s[i] \in Range(s)
    BY Members
  <2>2. \A i \in 1..Len(s) : ~(t[i] = e /\ e[1] = "signal")
    BY <1>1, <1>5, <2>1
  <2> QED
    BY <1>1, <1>3, <1>5, <2>2 DEF Once
<1> QED
  BY <1>1, <1>4, <1>5 DEF t

(* ... taken from the front, ...                                           *)
LEMMA Taken ==
    ASSUME NEW s \in Seq(AnyEntry), s # <<>>
    PROVE  /\ Tail(s) \in Seq(AnyEntry) /\ Head(s) \in Range(s)
           /\ Range(Tail(s)) \subseteq Range(s)
           /\ Once(s) => Once(Tail(s))
<1>1. /\ Tail(s) \in Seq(AnyEntry) /\ Len(Tail(s)) = Len(s) - 1
      /\ \A i \in 1..Len(Tail(s)) : Tail(s)[i] = s[i + 1]
  BY HeadTailProperties
<1>2. Len(s) \in Nat \ {0} /\ Head(s) = s[1]
  BY EmptySeq
<1>3. \A i \in 1..Len(Tail(s)) : i + 1 \in 1..Len(s)
  BY <1>1, <1>2
<1>4. Head(s) \in Range(s) /\ Range(Tail(s)) \subseteq Range(s)
  <2>1. Range(s) = {s[i] : i \in 1..Len(s)}
    BY Members
  <2>2. Range(Tail(s)) = {Tail(s)[i] : i \in 1..Len(Tail(s))}
    BY <1>1, Members
  <2>3. 1 \in 1..Len(s)
    BY <1>2
  <2>4. Head(s) \in Range(s)
    BY <1>2, <2>1, <2>3
  <2> QED
    BY <1>1, <1>3, <2>1, <2>2, <2>4
<1>5. ASSUME Once(s) PROVE Once(Tail(s))
  <2> SUFFICES ASSUME NEW i \in 1..Len(Tail(s)), NEW j \in 1..Len(Tail(s)),
                      Tail(s)[i] = Tail(s)[j], Tail(s)[i][1] = "signal"
               PROVE  i = j
    BY DEF Once
  <2>1. Tail(s)[i] = s[i + 1] /\ Tail(s)[j] = s[j + 1] /\ i + 1 \in 1..Len(s) /\ j + 1 \in 1..Len(s)
    BY <1>1, <1>3
  <2>2. s[i + 1] = s[j + 1] /\ s[i + 1][1] = "signal" => i + 1 = j + 1
    BY <1>5, <2>1 DEF Once
  <2> QED
    BY <2>1, <2>2
<1> QED
  BY <1>1, <1>4, <1>5

(* ... or taken out, the first that is equal.                              *)
LEMMA Place ==
    ASSUME NEW s \in Seq(AnyEntry), NEW e, e \in Range(s)
    PROVE  \E k \in 1..Len(s) : s[k] = e /\ RemoveFirst(s, e) = RemoveAt(s, k)
<1> DEFINE I == {i \in 1..Len(s) : s[i] = e}
<1>1. I # {} /\ I \subseteq Nat /\ Len(s) \in Nat
  BY Members
<1>2. PICK n \in I : \A m \in I : n <= m
  <2> DEFINE Less == OpToRel(<, Nat)
  <2>1. IsWellFoundedOn(Less, Nat) /\ \A m, n \in Nat : m < n => <<m, n>> \in Less
    BY NatLessThanWellFounded DEF OpToRel
  <2> HIDE DEF Less, I
  <2>2. IsWellFoundedOn(Less, Nat) /\ I \subseteq Nat /\ I # {}
    BY <1>1, <2>1
  <2>3. PICK n \in I : \A m \in I : ~(<<m, n>> \in Less)
    BY <2>2, WFMin
  <2>4. \A m \in I : ~(m < n)
    BY <2>1, <2>2, <2>3
  <2> QED
    BY <2>2, <2>3, <2>4
<1>3. Min(I) \in I
  BY <1>2 DEF Min
<1>4. SelectInSeq(s, LAMBDA v : v = e) = Min(I)
  BY <1>1 DEF SelectInSeq
<1>5. RemoveFirst(s, e) = RemoveAt(s, Min(I))
  BY <1>1, <1>4 DEF RemoveFirst, SelectInSeq
<1> QED
  BY <1>3, <1>5

(* What is left when an entry is taken out.                                *)
LEMMA Removed ==
    ASSUME NEW s \in Seq(AnyEntry), NEW e
    PROVE  /\ RemoveFirst(s, e) \in Seq(AnyEntry)
           /\ Range(RemoveFirst(s, e)) \subseteq Range(s)
           /\ Once(s) => Once(RemoveFirst(s, e))
           /\ Once(s) /\ e[1] = "signal" => e \notin Range(RemoveFirst(s, e))
<1>1. CASE e \notin Range(s)
  <2>1. RemoveFirst(s, e) = s
    BY <1>1, Members DEF RemoveFirst
  <2> QED
    BY <1>1, <2>1
<1>2. CASE e \in Range(s)
  <2>1. PICK k \in 1..Len(s) : s[k] = e /\ RemoveFirst(s, e) = RemoveAt(s, k)
    BY <1>2, Place
  <2> DEFINE a == SubSeq(s, 1, k - 1)
             b == SubSeq(s, k + 1, Len(s))
             t == RemoveFirst(s, e)
             from == [i \in 1..Len(s) - 1 |-> IF i < k THEN i ELSE i + 1]
  <2>2. Len(s) \in Nat /\ k \in Int /\ k - 1 \in Int /\ k + 1 \in Int /\ Len(s) \in Int
    BY Members
  <2>3. (\A i \in 1..k - 1 : s[i] \in AnyEntry) /\ (\A i \in k + 1..Len(s) : s[i] \in AnyEntry)
    BY <2>2, ElementOfSeq
  <2>4. /\ a \in Seq(AnyEntry) /\ Len(a) = IF 1 <= k - 1 THEN k - 1 - 1 + 1 ELSE 0
        /\ \A i \in 1..k - 1 - 1 + 1 : a[i] = s[1 + i - 1]
    BY <2>2, <2>3, SubSeqProperties
  <2>5. /\ b \in Seq(AnyEntry) /\ Len(b) = IF k + 1 <= Len(s) THEN Len(s) - (k + 1) + 1 ELSE 0
        /\ \A i \in 1..Len(s) - (k + 1) + 1 : b[i] = s[k + 1 + i - 1]
    BY <2>2, <2>3, SubSeqProperties
  <2>6. t = a \o b
    BY <2>1 DEF RemoveAt
  <2> HIDE DEF a, b, t
  <2>7. Len(a) = k - 1 /\ Len(b) = Len(s) - k
    BY <2>2, <2>4, <2>5
  <2>8. /\ t \in Seq(AnyEntry) /\ Len(t) = Len(a) + Len(b)
        /\ \A i \in 1..Len(a) + Len(b) : t[i] = IF i <= Len(a) THEN a[i] ELSE b[i - Len(a)]
    BY <2>4, <2>5, <2>6, ConcatProperties
  <2>9. Len(t) = Len(s) - 1
    BY <2>2, <2>7, <2>8
  <2>10. \A i \in 1..Len(s) - 1 : from[i] \in 1..Len(s) /\ from[i] # k
    BY <2>2
  <2>11. \A i, j \in 1..Len(s) - 1 : from[i] = from[j] => i = j
    BY <2>2
  <2>12. \A i \in 1..Len(s) - 1 : t[i] = s[from[i]]
    <3> SUFFICES ASSUME NEW i \in 1..Len(s) - 1 PROVE t[i] = s[from[i]]
      OBVIOUS
    <3>1. i \in 1..Len(a) + Len(b) /\ i \in Nat
      BY <2>2, <2>7
    <3>2. CASE i < k
      <4>1. t[i] = a[i] /\ i \in 1..k - 1 - 1 + 1
        BY <2>2, <2>7, <2>8, <3>1, <3>2
      <4>2. a[i] = s[1 + i - 1] /\ 1 + i - 1 = i
        BY <2>4, <3>1, <4>1
      <4> QED
        BY <3>2, <4>1, <4>2
    <3>3. CASE ~(i < k)
      <4>1. t[i] = b[i - Len(a)] /\ i - Len(a) \in 1..Len(s) - (k + 1) + 1
        BY <2>2, <2>7, <2>8, <3>1, <3>3
      <4>2. b[i - Len(a)] = s[k + 1 + (i - Len(a)) - 1]
        BY <2>5, <4>1
      <4>3. k + 1 + (i - Len(a)) - 1 = i + 1
        BY <2>2, <2>7, <3>1
      <4> QED
        BY <3>3, <4>1, <4>2, <4>3
    <3> QED
      BY <3>2, <3>3
  <2> HIDE DEF from
  <2>13. Range(t) \subseteq Range(s)
    <3>1. Range(s) = {s[i] : i \in 1..Len(s)}
      BY Members
    <3>2. Range(t) = {t[i] : i \in 1..Len(s) - 1}
      BY <2>8, <2>9, Members
    <3> QED
      BY <2>10, <2>12, <3>1, <3>2
  <2>14. ASSUME Once(s) PROVE Once(t)
    <3> SUFFICES ASSUME NEW i \in 1..Len(s) - 1, NEW j \in 1..Len(s) - 1,
                        t[i] = t[j], t[i][1] = "signal"
                 PROVE  i = j
      BY <2>9 DEF Once
    <3>1. from[i] \in 1..Len(s) /\ from[j] \in 1..Len(s)
      BY <2>10
    <3>2. s[from[i]] = s[from[j]] /\ s[from[i]][1] = "signal"
      BY <2>12
    <3>3. from[i] = from[j]
      BY <2>14, <3>1, <3>2 DEF Once
    <3> QED
      BY <2>11, <3>3
  <2>15. ASSUME Once(s), e[1] = "signal" PROVE e \notin Range(t)
    <3> SUFFICES ASSUME NEW i \in 1..Len(s) - 1, t[i] = e PROVE FALSE
      BY <2>8, <2>9, Members
    <3>1. s[from[i]] = s[k] /\ from[i] \in 1..Len(s)
      BY <2>1, <2>10, <2>12
    <3> QED
      BY <2>1, <2>10, <2>15, <3>1 DEF Once
  <2> QED
    BY <2>8, <2>13, <2>14, <2>15 DEF t
<1> QED
  BY <1>1, <1>2

-----------------------------------------------------------------------------
(* No entry of a signal is left that is not the last, when nothing happens *)
(* to the entries and the signals.                                         *)
LEMMA EntriesKept ==
    ASSUME PostedOnce, OnlyTheLast, UNCHANGED <<sigVars, entries>>,
           "handler" \in alive' => "handler" \in alive
    PROVE  PostedOnce' /\ OnlyTheLast'
  BY DEF PostedOnce, OnlyTheLast, Once, Queued, sigVars, entries

(* A step that ends nothing, or at least not what may be lost.             *)
LEMMA NothingEnds == exit' = "no" => StatesOutlive'
  BY DEF StatesOutlive

NotStarted == Entry("start") \in Queued \/ Worker_at = "start"

(* After the first task has been taken, Early says nothing.                *)
LEMMA NotEarly == ~NotStarted' => Early'
  BY DEF NotStarted, Early

(* The invariant holds when main() waits and nothing has run.              *)
LEMMA InitInv == Init => Inv
<1> SUFFICES ASSUME Init PROVE Inv
  OBVIOUS
<1>1. queue = <<Entry("start")>> /\ batch = <<>> /\ signals = <<>>
  BY DEF Init
<1>2. Entry("start") \in AnyEntry
  BY Kind DEF Tasks
<1>3. /\ queue \in Seq(AnyEntry) /\ batch \in Seq(AnyEntry) /\ signals \in Seq(SignalRecord)
      /\ Len(queue) = 1 /\ Len(batch) = 0 /\ Len(signals) = 0 /\ queue[1] = Entry("start")
  BY <1>1, <1>2
<1>4. Range(queue) = {Entry("start")} /\ Range(batch) = {}
  <2>1. Range(queue) = {queue[i] : i \in 1..Len(queue)}
    BY <1>3, Members
  <2>2. Range(batch) = {batch[i] : i \in 1..Len(batch)}
    BY <1>3, Members
  <2> QED
    BY <1>3, <2>1, <2>2
<1>5. \A n \in Nat : Signal(n) \notin Queued
  <2>1. "start" \in Tasks
    BY DEF Tasks
  <2> QED
    BY <1>4, <2>1, Kind DEF Queued
<1>6. Typed
  <2>1. pc = [t \in Threads |-> CASE t = "waiter" -> "get" [] t = "worker" -> "ready"
                                  [] t = "asio" -> "run" [] t = "http" -> "ready"
                                  [] t = "button" -> "unmade"]
    BY DEF Init, Threads
  <2>2. pc \in [Threads -> Places]
    BY <2>1 DEF Threads, Places
  <2>3. /\ MaxSignals \in Nat /\ MaxInputs \in Nat /\ lifetime = 0 /\ inputs = 0
        /\ Len(signals) <= MaxSignals
    BY <1>3, LifecycleAssumption DEF Init
  <2>4. /\ trapped = {} /\ stop = {} /\ alive = {"scheduler", "thread"} /\ exit = "no"
        /\ ~httpTask /\ ~proxied /\ ~pressed /\ ~unsaved
        /\ httpTask \in BOOLEAN /\ proxied \in BOOLEAN /\ pressed \in BOOLEAN /\ unsaved \in BOOLEAN
    BY DEF Init
  <2>5. lifetime \in 0..Len(signals) /\ inputs \in 0..MaxInputs
    BY <1>3, <2>3
  <2> QED
    BY <1>3, <1>5, <2>2, <2>3, <2>4, <2>5 DEF Typed, Objects
<1>7. PostedOnce
  BY <1>3, <1>5 DEF PostedOnce, Once
<1>8. OnlyTheLast
  BY <1>3, <1>5 DEF OnlyTheLast
<1>9. Early
  BY <1>1, <1>3 DEF Init, Early, Worker_at, Waiting
<1>10. InCallback /\ Destroyed /\ Caught
  BY <1>3 DEF Init, InCallback, Destroyed, Caught, Stopping, Closing, Saving, Worker_at, Waiting
<1>11. StatesOutlive
  BY DEF Init, StatesOutlive
<1> QED
  BY <1>6, <1>7, <1>8, <1>9, <1>10, <1>11 DEF Inv

-----------------------------------------------------------------------------
(* What every step starts from.                                            *)
Before == Inv /\ exit = "no" /\ inputs' \in 0..MaxInputs

(* One thread goes on.                                                     *)
LEMMA Gone ==
    ASSUME Typed, NEW t \in Threads, NEW from, NEW to \in Places, Go(t, from, to)
    PROVE  /\ pc' \in [Threads -> Places] /\ pc[t] = from /\ pc'[t] = to
           /\ \A u \in Threads \ {t} : pc'[u] = pc[u]
  BY DEF Typed, Go

(* notify_all() only moves a thread that is asleep.                        *)
LEMMA Woken == \A p \in Places : Awake(p) \in Places /\ (p # "asleep" => Awake(p) = p)
<1>1. "ready" \in Places
  BY DEF Places
<1> QED
  BY <1>1 DEF Awake

(* The worker was in no place of interest, and still is in none, or stays. *)
Aside == Stopping \union {"start", "raise"}

Calm == Worker_at' = Worker_at \/ (Worker_at \notin Aside /\ Worker_at' \notin Aside)

(* Such a step keeps what is said of the callback and of the destroyed     *)
(* objects.                                                                *)
LEMMA CalmKeeps ==
    ASSUME Inv, Calm, pc'["waiter"] = pc["waiter"], UNCHANGED <<signals, trapped, alive, unsaved>>
    PROVE  InCallback' /\ Destroyed' /\ Caught'
<1>1. \A n \in 1..Len(signals) : Catching(n)' <=> Catching(n)
  BY DEF Catching
<1>2. InCallback'
  <2>1. Worker_at' \in Aside => Worker_at' = Worker_at
    BY DEF Calm
  <2> QED
    BY <2>1 DEF Inv, Aside, InCallback, Stopping, Closing, Saving, Waiting
<1>3. Destroyed'
  BY DEF Inv, Calm, Aside, Destroyed, Stopping, Closing, Saving, Worker_at, Waiting
<1>4. Caught'
  BY <1>1 DEF Inv, Caught
<1> QED
  BY <1>2, <1>3, <1>4

(* A step of another thread that touches neither entries nor signals.      *)
LEMMA ElsewhereInv ==
    ASSUME Before, ~NotStarted, pc' \in [Threads -> Places],
           Worker_at' = Worker_at, pc'["waiter"] = pc["waiter"],
           UNCHANGED <<sigVars, entries, alive, unsaved, pressed>>,
           stop' \subseteq {"worker", "asio", "http"},
           httpTask' \in BOOLEAN, proxied' \in BOOLEAN,
           exit' \in {"no", "killed"} \union Objects, StatesOutlive'
    PROVE  Inv'
<1>1. /\ signals' = signals /\ trapped' = trapped /\ lifetime' = lifetime
      /\ queue' = queue /\ batch' = batch /\ alive' = alive /\ unsaved' = unsaved
      /\ pressed' = pressed
  BY DEF sigVars, entries
<1>2. Typed'
  BY <1>1 DEF Before, Inv, Typed, Queued
<1>3. PostedOnce' /\ OnlyTheLast'
  BY <1>1, EntriesKept DEF Before, Inv
<1>4. Early'
  <2>1. ~NotStarted'
    BY <1>1 DEF NotStarted, Queued
  <2> QED
    BY <2>1, NotEarly
<1>5. InCallback' /\ Destroyed' /\ Caught'
  BY <1>1, CalmKeeps DEF Before, Calm
<1> QED
  BY <1>2, <1>3, <1>4, <1>5 DEF Inv

(* The asio thread: Handle, Accept, LeaveContext.                          *)
LEMMA HandleInv == Before /\ Handle => Inv'
<1> SUFFICES ASSUME Before, Handle PROVE Inv'
  OBVIOUS
<1>1. Go("asio", "run", "accept") \/ Go("asio", "run", "post")
  BY DEF Handle
<1>2. /\ pc' \in [Threads -> Places] /\ pc'["worker"] = pc["worker"] /\ pc'["waiter"] = pc["waiter"]
  BY <1>1, Gone DEF Before, Inv, Threads, Places
<1>3. ~NotStarted
  BY DEF Before, Inv, Early, NotStarted, Handle
<1> QED
  BY <1>2, <1>3, ElsewhereInv, NothingEnds DEF Handle, data, httpVars, Before, Inv, Typed, Worker_at

(* A handler of the io_context may find the server gone.                   *)
LEMMA AcceptInv == Before /\ Accept => Inv'
<1> SUFFICES ASSUME Before, Accept PROVE Inv'
  OBVIOUS
<1>1. Go("asio", "accept", "run")
  BY DEF Accept
<1>2. /\ pc' \in [Threads -> Places] /\ pc'["worker"] = pc["worker"] /\ pc'["waiter"] = pc["waiter"]
      /\ pc["asio"] = "accept"
  BY <1>1, Gone DEF Before, Inv, Threads, Places
<1>3. ~NotStarted
  BY <1>2 DEF Before, Inv, Early, NotStarted
<1>4. exit' \in {"no", "server"}
  BY DEF Accept, Use, Before
<1>5. StatesOutlive'
  BY <1>4 DEF StatesOutlive
<1> QED
  BY <1>2, <1>3, <1>4, <1>5, ElsewhereInv DEF Accept, httpVars, Before, Inv, Typed, Worker_at, Objects

(* run() returns when the server is gone.                                  *)
LEMMA LeaveContextInv == Before /\ LeaveContext => Inv'
<1> SUFFICES ASSUME Before, LeaveContext PROVE Inv'
  OBVIOUS
<1>1. Go("asio", "run", "ready")
  BY DEF LeaveContext
<1>2. /\ pc' \in [Threads -> Places] /\ pc'["worker"] = pc["worker"] /\ pc'["waiter"] = pc["waiter"]
  BY <1>1, Gone DEF Before, Inv, Threads, Places
<1>3. ~NotStarted
  BY DEF Before, Inv, Early, NotStarted, LeaveContext
<1> QED
  BY <1>2, <1>3, ElsewhereInv, NothingEnds
     DEF LeaveContext, data, httpVars, Before, Inv, Typed, Worker_at

(* A thread of a scheduler looks and falls asleep.                         *)
LEMMA SleepInv ==
    ASSUME Before, NEW t \in {"asio", "http"}, Sleep(t), t = "http" => "thread" \notin alive
    PROVE  Inv'
<1>1. \/ Go(t, "ready", "done") \/ Go(t, "ready", "looked") \/ Go(t, "looked", "asleep")
  BY DEF Sleep
<1>2. /\ pc' \in [Threads -> Places] /\ pc'["worker"] = pc["worker"] /\ pc'["waiter"] = pc["waiter"]
      /\ pc[t] \in {"ready", "looked"}
  <2>1. /\ t \in Threads /\ "worker" \in Threads \ {t} /\ "waiter" \in Threads \ {t}
        /\ "done" \in Places /\ "looked" \in Places /\ "asleep" \in Places
    BY DEF Threads, Places
  <2>2. Typed
    BY DEF Before, Inv
  <2>3. CASE Go(t, "ready", "done")
    BY <2>1, <2>2, <2>3, Gone
  <2>4. CASE Go(t, "ready", "looked")
    BY <2>1, <2>2, <2>4, Gone
  <2>5. CASE Go(t, "looked", "asleep")
    BY <2>1, <2>2, <2>5, Gone
  <2> QED
    BY <1>1, <2>3, <2>4, <2>5
<1>3. ~NotStarted
  BY <1>2 DEF Before, Inv, Early, NotStarted
<1> QED
  BY <1>2, <1>3, ElsewhereInv, NothingEnds DEF Sleep, data, httpVars, Before, Inv, Typed, Worker_at

(* process() of the HTTP client, once main() has come to it.               *)
LEMMA ProcessInv == Before /\ Process => Inv'
<1> SUFFICES ASSUME Before, Process PROVE Inv'
  OBVIOUS
<1>1. Go("http", "ready", "ready") \/ Go("http", "ready", "again")
  BY DEF Process
<1>2. /\ pc' \in [Threads -> Places] /\ pc'["worker"] = pc["worker"] /\ pc'["waiter"] = pc["waiter"]
  BY <1>1, Gone DEF Before, Inv, Threads, Places
<1>3. ~NotStarted
  BY DEF Before, Inv, Early, NotStarted, Process
<1> QED
  BY <1>2, <1>3, ElsewhereInv, NothingEnds DEF Process, httpVars, Before, Inv, Typed, Worker_at

(* The second look at _thread may find it null.                            *)
LEMMA ProcessAgainInv == Before /\ ProcessAgain => Inv'
<1> SUFFICES ASSUME Before, ProcessAgain PROVE Inv'
  OBVIOUS
<1>1. Go("http", "again", "ready")
  BY DEF ProcessAgain
<1>2. /\ pc' \in [Threads -> Places] /\ pc'["worker"] = pc["worker"] /\ pc'["waiter"] = pc["waiter"]
      /\ pc["http"] = "again"
  BY <1>1, Gone DEF Before, Inv, Threads, Places
<1>3. exit' = "no" \/ (exit' = "thread" /\ "thread" \notin alive)
  <2>1. Use("thread") /\ exit = "no"
    BY DEF ProcessAgain, Before
  <2> QED
    BY <2>1 DEF Use
<1>4. "thread" \notin alive => ~unsaved
  <2>1. "thread" \notin alive => ~Waiting
    BY DEF Before, Inv, Destroyed
  <2>2. ~Waiting => "context" \notin alive /\ Worker_at \notin Saving
    BY DEF Before, Inv, Destroyed, InCallback, Stopping
  <2> QED
    BY <2>1, <2>2 DEF Before, Inv, Destroyed
<1>5. StatesOutlive'
  <2>1. unsaved' = unsaved
    BY DEF ProcessAgain
  <2> QED
    BY <1>3, <1>4, <2>1 DEF StatesOutlive
<1>6. ~NotStarted
  BY <1>2 DEF Before, Inv, Early, NotStarted
<1>7. httpTask' \in BOOLEAN /\ exit' \in {"no"} \union Objects
  BY <1>3 DEF ProcessAgain, Objects
<1> QED
  BY <1>2, <1>5, <1>6, <1>7, ElsewhereInv DEF ProcessAgain, httpVars, Before, Inv, Typed, Worker_at

-----------------------------------------------------------------------------
(* A task is posted by another thread, ...                                 *)
LEMMA PostInv ==
    ASSUME Before, ~NotStarted, NEW e \in Tasks \ {"start"},
           NEW p \in [Threads -> Places], p["worker"] = pc["worker"], p["waiter"] = pc["waiter"],
           Post(Entry(e), p), UNCHANGED <<sigVars, batch, stop, alive, unsaved>>,
           httpTask' \in BOOLEAN, proxied' \in BOOLEAN, pressed' \in BOOLEAN,
           exit' \in {"no"} \union Objects, StatesOutlive'
    PROVE  Inv'
<1>1. /\ signals' = signals /\ trapped' = trapped /\ lifetime' = lifetime
      /\ batch' = batch /\ alive' = alive /\ unsaved' = unsaved /\ stop' = stop
  BY DEF sigVars
<1>2. queue' = Append(queue, Entry(e)) /\ pc' = [p EXCEPT !["worker"] = Awake(@)]
  BY DEF Post
<1>3. Entry(e) \in AnyEntry /\ Entry(e)[1] # "signal" /\ Entry(e) # Entry("start")
  <2>1. e \in Tasks /\ "start" \in Tasks /\ e # "start"
    BY DEF Tasks
  <2>2. Entry(e) \in AnyEntry /\ Entry(e)[1] = e /\ e # "signal" /\ Entry("start")[1] = "start"
    BY <2>1, Kind
  <2> QED
    BY <2>1, <2>2
<1>4. queue \in Seq(AnyEntry) /\ Once(queue)
  BY DEF Before, Inv, Typed, PostedOnce
<1>5. queue' \in Seq(AnyEntry) /\ Range(queue') = Range(queue) \union {Entry(e)} /\ Once(queue')
  BY <1>2, <1>3, <1>4, Appended
<1>6. \A n \in Nat : Signal(n) # Entry(e)
  BY Kind
<1>7. /\ Queued' = Queued \union {Entry(e)}
      /\ \A n \in Nat : Signal(n) \in Queued' <=> Signal(n) \in Queued
      /\ \A n \in Nat : Signal(n) \in Range(queue') <=> Signal(n) \in Range(queue)
  BY <1>1, <1>5, <1>6 DEF Queued
<1>8. Len(signals) \in Nat /\ 1..Len(signals) \subseteq Nat
  BY LenProperties DEF Before, Inv, Typed
<1>9. /\ pc' \in [Threads -> Places] /\ pc'["waiter"] = pc["waiter"]
      /\ pc'["worker"] = Awake(pc["worker"])
  BY <1>2, Woken DEF Threads
<1>10. Typed'
  BY <1>1, <1>5, <1>7, <1>9 DEF Before, Inv, Typed
<1>11. PostedOnce'
  BY <1>1, <1>5, <1>7, <1>8 DEF Before, Inv, PostedOnce, Once
<1>12. OnlyTheLast'
  BY <1>1, <1>7, <1>8 DEF Before, Inv, OnlyTheLast
<1>13. Calm
  BY <1>9 DEF Calm, Worker_at, Awake, Aside, Stopping, Closing, Saving
<1>14. Early'
  <2>1. ~NotStarted'
    BY <1>3, <1>7, <1>13 DEF NotStarted, Calm, Aside
  <2> QED
    BY <2>1, NotEarly
<1>15. InCallback' /\ Destroyed' /\ Caught'
  BY <1>1, <1>9, <1>13, CalmKeeps DEF Before
<1> QED
  BY <1>10, <1>11, <1>12, <1>14, <1>15 DEF Inv

(* ... the asio thread, ...                                                *)
LEMMA PostRequestInv == Before /\ PostRequest => Inv'
<1> SUFFICES ASSUME Before, PostRequest PROVE Inv'
  OBVIOUS
<1> DEFINE p == [pc EXCEPT !["asio"] = "run"]
<1>1. pc["asio"] = "post" /\ Post(Entry("request"), p)
  BY DEF PostRequest, At
<1>2. ~NotStarted
  BY <1>1 DEF Before, Inv, Early, NotStarted
<1>3. p \in [Threads -> Places] /\ p["worker"] = pc["worker"] /\ p["waiter"] = pc["waiter"]
  BY DEF Before, Inv, Typed, Threads, Places
<1>4. "request" \in Tasks \ {"start"}
  BY DEF Tasks
<1>5. /\ UNCHANGED <<sigVars, batch, stop, alive, unsaved>> /\ exit' = "no"
      /\ httpTask' \in BOOLEAN /\ proxied' \in BOOLEAN /\ pressed' \in BOOLEAN
  BY DEF PostRequest, Before, Inv, Typed, httpVars
<1> HIDE DEF p
<1> QED
  BY <1>1, <1>2, <1>3, <1>4, <1>5, PostInv, NothingEnds

(* ... the button, ...                                                     *)
LEMMA PushInv == Before /\ Push => Inv'
<1> SUFFICES ASSUME Before, Push PROVE Inv'
  OBVIOUS
<1> DEFINE p == [pc EXCEPT !["button"] = "assign"]
<1>1. pc["button"] = "idle" /\ Post(Entry("press"), p)
  BY DEF Push, At
<1>2. ~NotStarted
  BY <1>1 DEF Before, Inv, Early, NotStarted
<1>3. p \in [Threads -> Places] /\ p["worker"] = pc["worker"] /\ p["waiter"] = pc["waiter"]
  BY DEF Before, Inv, Typed, Threads, Places
<1>4. "press" \in Tasks \ {"start"}
  BY DEF Tasks
<1>5. /\ UNCHANGED <<sigVars, batch, stop, alive, unsaved>> /\ exit' = "no"
      /\ httpTask' \in BOOLEAN /\ proxied' \in BOOLEAN /\ pressed' \in BOOLEAN
  BY DEF Push, Before, Inv, Typed, httpVars
<1> HIDE DEF p
<1> QED
  BY <1>1, <1>2, <1>3, <1>4, <1>5, PostInv, NothingEnds

(* When the scheduler is gone, the states are saved.                       *)
LEMMA SavedByThen ==
    ASSUME Before, ~Waiting
    PROVE  ~unsaved /\ ~NotStarted
<1>1. "context" \notin alive /\ Worker_at \notin Saving
  BY DEF Before, Inv, Destroyed, InCallback, Stopping
<1> QED
  BY <1>1 DEF Before, Inv, Destroyed, Early, NotStarted

(* ... or the http thread, which may find the main scheduler gone.         *)
LEMMA FinishTransferInv == Before /\ FinishTransfer => Inv'
<1> SUFFICES ASSUME Before, FinishTransfer PROVE Inv'
  OBVIOUS
<1>1. ~NotStarted
  BY DEF Before, Inv, Early, NotStarted, FinishTransfer
<1>2. /\ UNCHANGED <<sigVars, batch, stop, alive, unsaved, pressed>>
      /\ httpTask' \in BOOLEAN /\ proxied' \in BOOLEAN /\ pressed' \in BOOLEAN
      /\ Use("scheduler") /\ exit = "no"
  BY DEF FinishTransfer, Before, Inv, Typed
<1>3. CASE "scheduler" \in alive
  <2>1. exit' = "no" /\ Post(Entry("answer"), pc)
    BY <1>2, <1>3 DEF FinishTransfer, Use
  <2>2. pc \in [Threads -> Places] /\ "answer" \in Tasks \ {"start"}
    BY DEF Before, Inv, Typed, Tasks
  <2> QED
    BY <1>1, <1>2, <2>1, <2>2, PostInv, NothingEnds
<1>4. CASE "scheduler" \notin alive
  <2>1. exit' \in {"no", "scheduler"} /\ UNCHANGED <<pc, queue>>
    BY <1>2, <1>4 DEF FinishTransfer, Use
  <2>2. ~Waiting
    BY <1>4 DEF Before, Inv, Destroyed
  <2>3. StatesOutlive'
    BY <1>2, <2>2, SavedByThen DEF StatesOutlive
  <2>4. exit' \in {"no"} \union Objects
    BY <2>1 DEF Objects
  <2>5. pc' \in [Threads -> Places] /\ stop' \subseteq {"worker", "asio", "http"}
    BY <1>2, <2>1 DEF Before, Inv, Typed
  <2> QED
    BY <1>1, <1>2, <2>1, <2>3, <2>4, <2>5, ElsewhereInv DEF entries, Worker_at
<1> QED
  BY <1>3, <1>4

-----------------------------------------------------------------------------
(* Entries that are revoked are gone, the others are as they were.         *)
LEMMA Shrunk ==
    ASSUME Before, NEW e, queue' \in {queue, RemoveFirst(queue, e)},
           batch' \in {batch, RemoveFirst(batch, e)}, UNCHANGED signals
    PROVE  /\ queue' \in Seq(AnyEntry) /\ batch' \in Seq(AnyEntry)
           /\ Range(queue') \subseteq Range(queue) /\ Range(batch') \subseteq Range(batch)
           /\ Queued' \subseteq Queued
           /\ \A n \in Nat : Signal(n) \in Queued' => n \in 1..Len(signals)
           /\ PostedOnce'
<1>1. /\ queue \in Seq(AnyEntry) /\ batch \in Seq(AnyEntry) /\ Once(queue) /\ Once(batch)
      /\ \A n \in Nat : Signal(n) \in Queued => n \in 1..Len(signals)
  BY DEF Before, Inv, Typed, PostedOnce
<1>2. queue' \in Seq(AnyEntry) /\ Range(queue') \subseteq Range(queue) /\ Once(queue')
  <2>1. CASE queue' = queue
    BY <1>1, <2>1
  <2>2. CASE queue' = RemoveFirst(queue, e)
    BY <1>1, <2>2, Removed
  <2> QED
    BY <2>1, <2>2
<1>3. batch' \in Seq(AnyEntry) /\ Range(batch') \subseteq Range(batch) /\ Once(batch')
  <2>1. CASE batch' = batch
    BY <1>1, <2>1
  <2>2. CASE batch' = RemoveFirst(batch, e)
    BY <1>1, <2>2, Removed
  <2> QED
    BY <2>1, <2>2
<1>4. Queued' \subseteq Queued
  BY <1>2, <1>3 DEF Queued
<1>5. PostedOnce'
  BY <1>2, <1>3, <1>4 DEF Before, Inv, PostedOnce, Once
<1> QED
  BY <1>1, <1>2, <1>3, <1>4, <1>5

(* The press before is dropped, or stays.                                  *)
LEMMA AssignPressInv == Before /\ AssignPress => Inv'
<1> SUFFICES ASSUME Before, AssignPress PROVE Inv'
  OBVIOUS
<1> DEFINE e == Entry("press")
<1>1. Go("button", "assign", "idle")
  BY DEF AssignPress
<1>2. /\ pc' \in [Threads -> Places] /\ pc'["worker"] = pc["worker"] /\ pc'["waiter"] = pc["waiter"]
      /\ pc["button"] = "assign"
  BY <1>1, Gone DEF Before, Inv, Threads, Places
<1>3. ~NotStarted
  BY <1>2 DEF Before, Inv, Early, NotStarted
<1>4. queue' \in {queue, RemoveFirst(queue, e)} /\ batch' \in {batch, RemoveFirst(batch, e)}
  BY DEF AssignPress, entries
<1>5. /\ signals' = signals /\ trapped' = trapped /\ lifetime' = lifetime /\ alive' = alive
      /\ unsaved' = unsaved /\ stop' = stop /\ httpTask' = httpTask /\ proxied' = proxied
      /\ pressed' = pressed /\ exit' = exit
  BY DEF AssignPress, sigVars, httpVars
<1> HIDE DEF e
<1>6. /\ queue' \in Seq(AnyEntry) /\ batch' \in Seq(AnyEntry) /\ Queued' \subseteq Queued
      /\ \A n \in Nat : Signal(n) \in Queued' => n \in 1..Len(signals)
      /\ PostedOnce'
  BY <1>4, <1>5, Shrunk
<1>7. Typed'
  BY <1>2, <1>5, <1>6 DEF Before, Inv, Typed
<1>8. OnlyTheLast'
  BY <1>5, <1>6 DEF Before, Inv, OnlyTheLast
<1>9. Early'
  <2>1. ~NotStarted'
    BY <1>2, <1>3, <1>6 DEF NotStarted, Worker_at
  <2> QED
    BY <2>1, NotEarly
<1>10. InCallback' /\ Destroyed' /\ Caught'
  BY <1>2, <1>5, CalmKeeps DEF Before, Calm, Worker_at
<1>11. StatesOutlive'
  BY <1>5, NothingEnds DEF Before
<1> QED
  BY <1>6, <1>7, <1>8, <1>9, <1>10, <1>11 DEF Inv

-----------------------------------------------------------------------------
(* main() after get(): the states are saved.                               *)
LEMMA WaiterInv ==
    ASSUME Before, ~Waiting, pc' \in [Threads -> Places], Calm, pc'["waiter"] # "get",
           UNCHANGED <<sigVars, entries, httpVars, pressed, unsaved>>,
           stop' \subseteq {"worker", "asio", "http"}, alive' \subseteq alive,
           exit' \in {"no", "status 0"}
    PROVE  Inv'
<1>1. /\ signals' = signals /\ trapped' = trapped /\ lifetime' = lifetime
      /\ queue' = queue /\ batch' = batch /\ unsaved' = unsaved /\ pressed' = pressed
      /\ httpTask' = httpTask /\ proxied' = proxied
  BY DEF sigVars, entries, httpVars
<1>2. ~unsaved' /\ ~NotStarted /\ ~Waiting'
  <2>1. ~unsaved /\ ~NotStarted
    BY SavedByThen
  <2>2. unsaved \in BOOLEAN /\ unsaved' = unsaved
    BY <1>1 DEF Before, Inv, Typed
  <2>3. unsaved' = FALSE
    BY <2>1, <2>2
  <2> QED
    BY <2>1, <2>3 DEF Waiting
<1>3. Typed'
  BY <1>1 DEF Before, Inv, Typed, Queued
<1>4. PostedOnce' /\ OnlyTheLast'
  BY <1>1, EntriesKept DEF Before, Inv
<1>5. Early'
  <2>1. ~NotStarted'
    BY <1>1, <1>2 DEF NotStarted, Queued, Calm, Aside
  <2> QED
    BY <2>1, NotEarly
<1>6. Worker_at \notin Stopping /\ Worker_at' \notin Stopping
  <2>1. Worker_at \notin Stopping
    BY DEF Before, Inv, InCallback
  <2> QED
    BY <2>1 DEF Calm, Aside
<1>7. InCallback'
  <2>1. Worker_at' = "raise" => Worker_at = "raise"
    BY DEF Calm, Aside
  <2> QED
    BY <1>1, <1>6, <2>1 DEF Before, Inv, InCallback, Stopping
<1>8. "handler" \notin alive /\ "context" \notin alive /\ "handler" \notin alive' /\ "context" \notin alive'
  BY DEF Before, Inv, Destroyed
<1>9. Destroyed'
  <2>1. alive' \intersect {"handler", "context"} = {}
    BY <1>8
  <2> QED
    BY <1>2, <1>8, <2>1 DEF Destroyed
<1>10. Caught'
  <2>1. \A n \in 1..Len(signals) : Catching(n)' <=> Catching(n)
    BY <1>1 DEF Catching
  <2>2. trapped = {} /\ \A n \in 1..Len(signals) : ~(Catching(n) /\ signals[n].on = "worker")
    BY <1>8 DEF Before, Inv, Caught
  <2> QED
    BY <1>1, <1>2, <1>8, <2>1, <2>2 DEF Caught
<1>11. StatesOutlive'
  BY <1>1, <1>2 DEF StatesOutlive
<1> QED
  BY <1>3, <1>4, <1>5, <1>7, <1>9, <1>10, <1>11 DEF Inv

(* Each of the steps of main() after get().                                *)
LEMMA WaiterStepInv == Before /\ Waiter => Inv'
<1> SUFFICES ASSUME Before, Waiter PROVE Inv'
  OBVIOUS
<1>1. Typed /\ exit = "no" /\ stop \subseteq {"worker", "asio", "http"}
  BY DEF Before, Inv, Typed
<1>2. "waiter" \in Threads /\ "worker" \in Threads \ {"waiter"} /\ "http" \in Threads \ {"waiter"}
  BY DEF Threads
<1>3. {"get", "stop main", "join main", "reset http", "stop http", "join http", "returned"} \subseteq Places
  BY DEF Places
<1>4. CASE StopThread("worker", "waiter", "stop main", "join main")
  <2>1. /\ pc["waiter"] = "stop main" /\ stop' = stop \union {"worker"}
        /\ pc' = [pc EXCEPT !["worker"] = Awake(@), !["waiter"] = "join main"]
        /\ UNCHANGED <<sigVars, entries, alive, httpVars, pressed, unsaved, exit>>
    BY <1>4 DEF StopThread, At
  <2>2. /\ pc' \in [Threads -> Places] /\ pc'["worker"] = Awake(pc["worker"])
        /\ pc'["waiter"] = "join main"
    BY <1>1, <1>2, <1>3, <2>1, Woken DEF Typed
  <2>3. Calm
    BY <2>2 DEF Calm, Worker_at, Awake, Aside, Stopping, Closing, Saving
  <2> QED
    BY <1>1, <2>1, <2>2, <2>3, WaiterInv DEF Waiting
<1>5. CASE StopThread("http", "waiter", "stop http", "join http")
  <2>1. /\ pc["waiter"] = "stop http" /\ stop' = stop \union {"http"}
        /\ pc' = [pc EXCEPT !["http"] = Awake(@), !["waiter"] = "join http"]
        /\ UNCHANGED <<sigVars, entries, alive, httpVars, pressed, unsaved, exit>>
    BY <1>5 DEF StopThread, At
  <2>2. /\ pc' \in [Threads -> Places] /\ pc'["worker"] = pc["worker"]
        /\ pc'["waiter"] = "join http"
    BY <1>1, <1>2, <1>3, <2>1, Woken DEF Typed
  <2> QED
    BY <1>1, <2>1, <2>2, WaiterInv DEF Waiting, Calm, Worker_at
<1>6. CASE JoinMain
  <2>1. Go("waiter", "join main", "reset http")
    BY <1>6 DEF JoinMain
  <2>2. /\ pc' \in [Threads -> Places] /\ pc'["worker"] = pc["worker"]
        /\ pc["waiter"] = "join main" /\ pc'["waiter"] = "reset http"
    BY <1>1, <1>2, <1>3, <2>1, Gone
  <2> QED
    BY <1>1, <1>6, <2>2, WaiterInv DEF JoinMain, Waiting, Calm, Worker_at
<1>7. CASE ResetThread
  <2>1. Go("waiter", "reset http", "stop http")
    BY <1>7 DEF ResetThread
  <2>2. /\ pc' \in [Threads -> Places] /\ pc'["worker"] = pc["worker"]
        /\ pc["waiter"] = "reset http" /\ pc'["waiter"] = "stop http"
    BY <1>1, <1>2, <1>3, <2>1, Gone
  <2> QED
    BY <1>1, <1>7, <2>2, WaiterInv DEF ResetThread, Waiting, Calm, Worker_at
<1>8. CASE Return
  <2>1. Go("waiter", "join http", "returned")
    BY <1>8 DEF Return
  <2>2. /\ pc' \in [Threads -> Places] /\ pc'["worker"] = pc["worker"]
        /\ pc["waiter"] = "join http" /\ pc'["waiter"] = "returned"
    BY <1>1, <1>2, <1>3, <2>1, Gone
  <2> QED
    BY <1>1, <1>8, <2>2, WaiterInv DEF Return, Waiting, Calm, Worker_at
<1> QED
  BY <1>4, <1>5, <1>6, <1>7, <1>8 DEF Waiter

-----------------------------------------------------------------------------
(* A signal is caught, or ends the program.                                *)
LEMMA SendInv ==
    ASSUME Before, NEW kind \in Kinds, NEW t \in Receivers, Send(kind, t)
    PROVE  Inv'
<1> DEFINE r == [kind |-> kind, on |-> t, at |-> IF kind \in trapped THEN "caught" ELSE "default"]
<1>1. /\ signals \in Seq(SignalRecord) /\ Len(signals) \in Nat /\ Len(signals) < MaxSignals
      /\ MaxSignals \in Nat
  BY LenProperties, LifecycleAssumption DEF Before, Inv, Typed, Send
<1>2. r \in SignalRecord
  <2>1. t \in Threads
    BY LifecycleAssumption DEF Threads
  <2> QED
    BY <2>1 DEF SignalRecord, Progress
<1>3. /\ pc' = pc /\ trapped' = trapped /\ lifetime' = lifetime /\ queue' = queue /\ batch' = batch
      /\ stop' = stop /\ alive' = alive /\ httpTask' = httpTask /\ proxied' = proxied
      /\ pressed' = pressed /\ unsaved' = unsaved
      /\ signals' = Append(signals, r) /\ exit' = IF kind \in trapped THEN "no" ELSE "killed"
  BY DEF Send, entries, httpVars
<1>4. /\ r.kind = kind /\ r.on = t /\ (r.at = "caught" => kind \in trapped)
      /\ r.at \in {"caught", "default"}
  OBVIOUS
<1> HIDE DEF r
<1> DEFINE k == Len(signals)
<1>5. /\ signals' \in Seq(SignalRecord) /\ Len(signals') = k + 1 /\ signals'[k + 1] = r
      /\ \A n \in 1..k : signals'[n] = signals[n]
      /\ 1..k + 1 = 1..k \union {k + 1} /\ signals' # <<>> /\ k + 1 \notin 1..k
  BY <1>1, <1>2, <1>3, AppendProperties
<1>6. Queued' = Queued /\ Worker_at' = Worker_at /\ (Waiting' <=> Waiting)
  BY <1>3 DEF Queued, Worker_at, Waiting
<1>7. Signal(k + 1) \notin Queued
  BY <1>1, <1>5 DEF Before, Inv, Typed
<1>8. \A n \in 1..k : Catching(n)' => Catching(n)
  BY <1>5 DEF Catching
<1>9. \A n \in 1..Len(signals') : Catching(n)' /\ n \notin 1..k => kind \in trapped
  BY <1>4, <1>5 DEF Catching
<1>10. Typed'
  <2>1. k + 1 <= MaxSignals /\ 0..k \subseteq 0..k + 1
    BY <1>1
  <2>2. exit' \in {"no", "killed"}
    BY <1>3
  <2> QED
    BY <1>3, <1>5, <1>6, <2>1, <2>2 DEF Before, Inv, Typed
<1>11. PostedOnce'
  BY <1>3, <1>5, <1>6, <1>7 DEF Before, Inv, PostedOnce, Once, Queued
<1>12. OnlyTheLast'
  BY <1>3, <1>5, <1>6, <1>7 DEF Before, Inv, OnlyTheLast
<1>13. Early'
  <2> SUFFICES ASSUME NotStarted' PROVE Early'
    BY NotEarly
  <2>1. NotStarted
    BY <1>6 DEF NotStarted
  <2>2. kind \notin trapped /\ \A n \in 1..k : ~Catching(n)
    BY <2>1 DEF Before, Inv, Early, NotStarted
  <2>3. \A n \in 1..Len(signals') : ~Catching(n)'
    BY <1>8, <1>9, <2>2
  <2> QED
    BY <1>3, <1>6, <2>1, <2>3 DEF Before, Inv, Early, NotStarted
<1>14. InCallback'
  <2>1. Worker_at = "raise" => \E n \in 1..Len(signals') : signals'[n].kind = "TERM"
    BY <1>5 DEF Before, Inv, InCallback
  <2> QED
    BY <1>3, <1>5, <1>6, <2>1 DEF Before, Inv, InCallback
<1>15. Destroyed'
  BY <1>3, <1>6 DEF Before, Inv, Destroyed
<1>16. Caught'
  <2>1. kind \in trapped => "handler" \in alive
    BY DEF Before, Inv, Caught
  <2>2. \A n \in 1..Len(signals') : Catching(n)' /\ signals'[n].on = "worker" => "handler" \in alive
    <3> SUFFICES ASSUME NEW n \in 1..Len(signals'), Catching(n)', signals'[n].on = "worker"
                 PROVE  "handler" \in alive
      OBVIOUS
    <3>1. CASE n \in 1..k
      BY <1>5, <1>8, <3>1 DEF Before, Inv, Caught
    <3>2. CASE n \notin 1..k
      BY <1>9, <2>1, <3>2
    <3> QED
      BY <3>1, <3>2
  <2> QED
    BY <1>3, <1>5, <2>2 DEF Before, Inv, Caught
<1>17. StatesOutlive'
  <2> SUFFICES ASSUME exit' # "no", unsaved'
               PROVE  exit' = "killed" /\ (Len(signals') > 1 \/ signals'[1].kind = "TERM")
    BY DEF StatesOutlive
  <2>1. exit' = "killed" /\ kind \notin trapped
    BY <1>3
  <2>2. CASE kind = "TERM"
    <3>1. k = 0 => signals'[1].kind = "TERM"
      BY <1>4, <1>5, <2>2
    <3>2. k # 0 => k + 1 > 1
      BY <1>1
    <3> QED
      BY <1>5, <2>1, <3>1, <3>2
  <2>3. CASE kind = "INT"
    <3>1. signals # <<>>
      BY <1>3, <2>1, <2>3 DEF Before, Inv, Caught
    <3>2. k # 0
      BY <1>1, <3>1, EmptySeq
    <3>3. k + 1 > 1
      BY <1>1, <3>2
    <3> QED
      BY <1>5, <2>1, <3>3
  <2> QED
    BY <2>2, <2>3 DEF Kinds
<1> QED
  BY <1>10, <1>11, <1>12, <1>13, <1>14, <1>15, <1>16, <1>17 DEF Inv

(* A catcher goes on.                                                      *)
LEMMA Progressed ==
    ASSUME Before, NEW n \in DOMAIN signals, NEW from, NEW to \in Progress, CatchStep(n, from, to)
    PROVE  /\ n \in 1..Len(signals) /\ 1..Len(signals) \subseteq Nat
           /\ signals' \in Seq(SignalRecord) /\ Len(signals') = Len(signals)
           /\ \A m \in 1..Len(signals) \ {n} : signals'[m] = signals[m]
           /\ signals'[n].kind = signals[n].kind /\ signals'[n].on = signals[n].on
           /\ signals[n].at = from /\ signals'[n].at = to
           /\ \A m \in 1..Len(signals) : signals'[m].kind = signals[m].kind /\ signals'[m].on = signals[m].on
           /\ signals' # <<>>
<1>1. /\ signals \in Seq(SignalRecord) /\ Len(signals) \in Nat /\ n \in 1..Len(signals)
  BY LenProperties DEF Before, Inv, Typed
<1>2. signals[n] \in SignalRecord
  BY <1>1, ElementOfSeq
<1> DEFINE v == [signals[n] EXCEPT !.at = to]
<1>3. v \in SignalRecord /\ v.kind = signals[n].kind /\ v.on = signals[n].on /\ v.at = to
  BY <1>2 DEF SignalRecord
<1>4. signals' = [signals EXCEPT ![n] = v]
  BY DEF CatchStep
<1> HIDE DEF v
<1>5. /\ signals' \in Seq(SignalRecord) /\ Len(signals') = Len(signals)
      /\ \A m \in 1..Len(signals) : signals'[m] = IF m = n THEN v ELSE signals[m]
  BY <1>1, <1>3, <1>4, ExceptSeq
<1>6. signals' # <<>>
  BY <1>1, <1>5, EmptySeq
<1> QED
  BY <1>1, <1>3, <1>5, <1>6 DEF CatchStep

(* A catcher only runs once the program was started, and what its progress *)
(* leaves as it was.                                                       *)
LEMMA CatchKeeps ==
    ASSUME Before, NEW n \in DOMAIN signals, NEW from \in {"caught", "posted"}, NEW to \in {"posted", "done"},
           CatchStep(n, from, to), UNCHANGED <<trapped, alive, unsaved>>,
           pc' = pc \/ pc' = [pc EXCEPT !["worker"] = Awake(@)]
    PROVE  /\ ~NotStarted /\ Worker_at' # "start"
           /\ pc' \in [Threads -> Places]
           /\ InCallback' /\ Destroyed' /\ Caught'
           /\ signals[n].on = "worker" => "handler" \in alive
<1>1. to \in Progress
  BY DEF Progress
<1>2. /\ n \in 1..Len(signals) /\ Len(signals') = Len(signals)
      /\ \A m \in 1..Len(signals) \ {n} : signals'[m] = signals[m]
      /\ signals[n].at = from /\ signals'[n].at = to
      /\ \A m \in 1..Len(signals) : signals'[m].kind = signals[m].kind /\ signals'[m].on = signals[m].on
      /\ signals' # <<>>
  BY <1>1, Progressed
<1>3. Catching(n)
  BY <1>2 DEF Catching
<1>4. ~NotStarted
  BY <1>2, <1>3 DEF Before, Inv, Early, NotStarted
<1>5. pc \in [Threads -> Places] /\ pc["worker"] \in Places
  BY DEF Before, Inv, Typed, Threads
<1>6. /\ pc' \in [Threads -> Places] /\ pc'["waiter"] = pc["waiter"]
      /\ pc'["worker"] \in {pc["worker"], Awake(pc["worker"])}
  BY <1>5, Woken DEF Threads
<1>7. Calm
  BY <1>6 DEF Calm, Worker_at, Awake, Aside, Stopping, Closing, Saving
<1>8. Worker_at' # "start"
  BY <1>4, <1>7 DEF NotStarted, Calm, Aside
<1>9. InCallback'
  <2>1. Worker_at' \in Aside => Worker_at' = Worker_at
    BY <1>7 DEF Calm
  <2>2. Worker_at = "raise" => \E m \in 1..Len(signals') : signals'[m].kind = "TERM"
    BY <1>2 DEF Before, Inv, InCallback
  <2> QED
    BY <1>2, <1>6, <2>1, <2>2 DEF Before, Inv, Aside, InCallback, Stopping, Closing, Saving, Waiting
<1>10. Destroyed'
  BY <1>6, <1>7 DEF Before, Inv, Calm, Aside, Destroyed, Stopping, Closing, Saving, Waiting
<1>11. \A m \in 1..Len(signals) : Catching(m)' => Catching(m)
  BY <1>2, <1>3 DEF Catching
<1>12. Caught'
  BY <1>2, <1>11 DEF Before, Inv, Caught
<1>13. signals[n].on = "worker" => "handler" \in alive
  BY <1>2, <1>3 DEF Before, Inv, Caught
<1> QED
  BY <1>4, <1>6, <1>8, <1>9, <1>10, <1>12, <1>13

(* When the handler is gone: what a catcher on another thread meets.       *)
LEMMA CatcherWithoutHandler ==
    ASSUME Before, NEW n \in DOMAIN signals, NEW from \in {"caught", "posted"}, CatchStep(n, from, "done"),
           "handler" \notin alive, Use("handler"),
           UNCHANGED <<pc, trapped, lifetime, entries, stop, alive, httpVars, pressed, unsaved>>
    PROVE  Inv'
<1>1. "done" \in Progress /\ "done" \in {"posted", "done"}
  BY DEF Progress
<1>2. /\ n \in 1..Len(signals) /\ Len(signals') = Len(signals) /\ signals' \in Seq(SignalRecord)
      /\ \A m \in 1..Len(signals) \ {n} : signals'[m] = signals[m]
      /\ \A m \in 1..Len(signals) : signals'[m].on = signals[m].on
      /\ signals'[n].at = "done" /\ 1..Len(signals) \subseteq Nat
  BY <1>1, Progressed
<1>3. /\ pc' = pc /\ trapped' = trapped /\ lifetime' = lifetime /\ queue' = queue /\ batch' = batch
      /\ stop' = stop /\ alive' = alive /\ httpTask' = httpTask /\ proxied' = proxied
      /\ pressed' = pressed /\ unsaved' = unsaved
  BY DEF entries, httpVars
<1>4. /\ ~NotStarted /\ Worker_at' # "start" /\ pc' \in [Threads -> Places]
      /\ InCallback' /\ Destroyed' /\ Caught'
      /\ signals[n].on # "worker"
  BY <1>1, <1>3, CatchKeeps
<1>5. exit' \in {"no", "handler"}
  BY DEF Use
<1>6. Queued' = Queued
  BY <1>3 DEF Queued
<1>7. Typed'
  BY <1>2, <1>3, <1>4, <1>5, <1>6 DEF Before, Inv, Typed, Objects
<1>8. PostedOnce'
  BY <1>2, <1>3, <1>6 DEF Before, Inv, PostedOnce, Once
<1>9. OnlyTheLast'
  BY <1>3 DEF OnlyTheLast
<1>10. Early'
  <2>1. ~NotStarted'
    BY <1>4, <1>6 DEF NotStarted
  <2> QED
    BY <2>1, NotEarly
<1>11. StatesOutlive'
  <2>1. n \in DOMAIN signals' /\ signals'[n].on # "worker"
    BY <1>2, <1>4, LenProperties
  <2> QED
    BY <1>5, <2>1 DEF StatesOutlive
<1> QED
  BY <1>4, <1>7, <1>8, <1>9, <1>10, <1>11 DEF Inv

(* s_handler->schedule(sig) posts the task.                                *)
LEMMA CatchPostInv ==
    ASSUME Before, NEW n \in DOMAIN signals, CatchPost(n)
    PROVE  Inv'
<1>1. CASE "handler" \notin alive
  <2>1. CatchStep(n, "caught", "done") /\ Use("handler")
    BY <1>1 DEF CatchPost
  <2>2. UNCHANGED <<pc, trapped, lifetime, entries, stop, alive, httpVars, pressed, unsaved>>
    BY <1>1 DEF CatchPost, entries
  <2> QED
    BY <1>1, <2>1, <2>2, CatcherWithoutHandler
<1>2. CASE "handler" \in alive
  <2>1. CatchStep(n, "caught", "posted") /\ Post(Signal(n), pc) /\ exit' = "no"
    BY <1>2 DEF CatchPost, Use, Before
  <2>2. /\ trapped' = trapped /\ lifetime' = lifetime /\ batch' = batch
        /\ stop' = stop /\ alive' = alive /\ httpTask' = httpTask /\ proxied' = proxied
        /\ pressed' = pressed /\ unsaved' = unsaved
    BY DEF CatchPost, httpVars
  <2>3. "posted" \in Progress
    BY DEF Progress
  <2>4. /\ n \in 1..Len(signals) /\ Len(signals') = Len(signals) /\ signals' \in Seq(SignalRecord)
        /\ \A m \in 1..Len(signals) \ {n} : signals'[m] = signals[m]
        /\ signals[n].at = "caught" /\ signals'[n].at = "posted" /\ 1..Len(signals) \subseteq Nat
    BY <2>1, <2>3, Progressed
  <2>5. pc' = [pc EXCEPT !["worker"] = Awake(@)] /\ queue' = Append(queue, Signal(n))
    BY <2>1 DEF Post
  <2>6. /\ ~NotStarted /\ Worker_at' # "start" /\ pc' \in [Threads -> Places]
        /\ InCallback' /\ Destroyed' /\ Caught'
    BY <2>1, <2>2, <2>5, CatchKeeps
  <2>7. Signal(n) \notin Queued
    BY <2>4 DEF Before, Inv, PostedOnce
  <2>8. Signal(n) \in AnyEntry /\ n \in Nat /\ Entry("start") # Signal(n)
    BY <2>4, Kind DEF Tasks
  <2>9. queue \in Seq(AnyEntry) /\ Once(queue)
    BY DEF Before, Inv, Typed, PostedOnce
  <2>10. queue' \in Seq(AnyEntry) /\ Range(queue') = Range(queue) \union {Signal(n)} /\ Once(queue')
    BY <2>5, <2>7, <2>8, <2>9, Appended DEF Queued
  <2>11. Queued' = Queued \union {Signal(n)}
    BY <2>2, <2>10 DEF Queued
  <2>12. \A m \in Nat : m # n => Signal(m) # Signal(n)
    BY <2>8, Kind
  <2>13. Typed'
    BY <2>1, <2>2, <2>4, <2>6, <2>8, <2>10, <2>11, <2>12 DEF Before, Inv, Typed
  <2>14. PostedOnce'
    BY <2>2, <2>4, <2>7, <2>10, <2>11, <2>12 DEF Before, Inv, PostedOnce, Once, Queued
  <2>15. OnlyTheLast'
    BY <2>2, <2>4, <2>11, <2>12 DEF Before, Inv, OnlyTheLast
  <2>16. Early'
    <3>1. ~NotStarted'
      BY <2>6, <2>8, <2>11 DEF NotStarted
    <3> QED
      BY <3>1, NotEarly
  <2> QED
    BY <2>1, <2>6, <2>13, <2>14, <2>15, <2>16, NothingEnds DEF Inv
<1> QED
  BY <1>1, <1>2

(* What it returns is kept instead of what an earlier signal has posted.   *)
LEMMA CatchAssignInv ==
    ASSUME Before, NEW n \in DOMAIN signals, CatchAssign(n)
    PROVE  Inv'
<1>1. CASE "handler" \notin alive
  <2>1. CatchStep(n, "posted", "done") /\ Use("handler")
    BY DEF CatchAssign
  <2>2. UNCHANGED <<pc, trapped, lifetime, entries, stop, alive, httpVars, pressed, unsaved>>
    BY <1>1 DEF CatchAssign
  <2> QED
    BY <1>1, <2>1, <2>2, CatcherWithoutHandler
<1>2. CASE "handler" \in alive
  <2> DEFINE e == Signal(lifetime)
  <2>1. CatchStep(n, "posted", "done") /\ lifetime' = n /\ exit' = "no"
    BY <1>2 DEF CatchAssign, Use, Before
  <2>2. queue' = RemoveFirst(queue, e) /\ batch' = RemoveFirst(batch, e)
    BY <1>2 DEF CatchAssign, Revoke
  <2>3. /\ pc' = pc /\ trapped' = trapped
        /\ stop' = stop /\ alive' = alive /\ httpTask' = httpTask /\ proxied' = proxied
        /\ pressed' = pressed /\ unsaved' = unsaved
    BY DEF CatchAssign, httpVars
  <2>4. "done" \in Progress
    BY DEF Progress
  <2>5. /\ n \in 1..Len(signals) /\ Len(signals') = Len(signals) /\ signals' \in Seq(SignalRecord)
        /\ \A m \in 1..Len(signals) \ {n} : signals'[m] = signals[m]
        /\ signals'[n].at = "done" /\ 1..Len(signals) \subseteq Nat
    BY <2>1, <2>4, Progressed
  <2>6. /\ ~NotStarted /\ Worker_at' # "start" /\ pc' \in [Threads -> Places]
        /\ InCallback' /\ Destroyed' /\ Caught'
    BY <2>1, <2>3, CatchKeeps
  <2>7. lifetime \in Nat /\ e[1] = "signal"
    <3>1. lifetime \in Nat
      BY DEF Before, Inv, Typed
    <3> QED
      BY <3>1, Kind
  <2>8. /\ queue \in Seq(AnyEntry) /\ batch \in Seq(AnyEntry) /\ Once(queue) /\ Once(batch)
        /\ \A m \in Nat : Signal(m) \in Queued => m \in 1..Len(signals)
    BY DEF Before, Inv, Typed, PostedOnce
  <2>9. /\ queue' \in Seq(AnyEntry) /\ Range(queue') \subseteq Range(queue) /\ Once(queue')
        /\ e \notin Range(queue')
    BY <2>2, <2>7, <2>8, Removed
  <2>10. /\ batch' \in Seq(AnyEntry) /\ Range(batch') \subseteq Range(batch) /\ Once(batch')
         /\ e \notin Range(batch')
    BY <2>2, <2>7, <2>8, Removed
  <2>11. Queued' \subseteq Queued /\ Signal(lifetime) \notin Queued'
    BY <2>9, <2>10 DEF Queued
  <2> HIDE DEF e
  <2>12. Typed'
    <3>1. lifetime' \in 0..Len(signals')
      BY <2>1, <2>5
    <3> QED
      BY <2>1, <2>3, <2>5, <2>6, <2>8, <2>9, <2>10, <2>11, <3>1 DEF Before, Inv, Typed
  <2>13. PostedOnce'
    <3>1. \A m \in 1..Len(signals) : ~(Signal(m) \in Range(queue') /\ Signal(m) \in Range(batch'))
      BY <2>9, <2>10 DEF Before, Inv, PostedOnce
    <3>2. \A m \in 1..Len(signals) : Signal(m) \in Queued' => signals'[m].at \in {"posted", "done"}
      BY <2>5, <2>11 DEF Before, Inv, PostedOnce
    <3> QED
      BY <2>5, <2>9, <2>10, <3>1, <3>2 DEF PostedOnce, Once
  <2>14. OnlyTheLast'
    BY <2>1, <2>3, <2>5, <2>11, <1>2 DEF Before, Inv, OnlyTheLast
  <2>15. Early'
    <3>1. ~NotStarted'
      BY <2>6, <2>11 DEF NotStarted
    <3> QED
      BY <3>1, NotEarly
  <2> QED
    BY <2>1, <2>6, <2>12, <2>13, <2>14, <2>15, NothingEnds DEF Inv
<1> QED
  BY <1>1, <1>2

-----------------------------------------------------------------------------
(* The worker: it looks at the entries, ...                                *)
LEMMA WorkerSleepInv == Before /\ Sleep("worker") => Inv'
<1> SUFFICES ASSUME Before, Sleep("worker") PROVE Inv'
  OBVIOUS
<1>1. \/ Go("worker", "ready", "done") /\ Idle("worker")
      \/ Go("worker", "ready", "looked") /\ Idle("worker")
      \/ Go("worker", "looked", "asleep")
  BY DEF Sleep
<1>2. Typed /\ "worker" \in Threads /\ "waiter" \in Threads \ {"worker"} /\ {"done", "looked", "asleep"} \subseteq Places
  BY DEF Before, Inv, Threads, Places
<1>3. /\ pc' \in [Threads -> Places] /\ pc'["waiter"] = pc["waiter"]
      /\ Worker_at \in {"ready", "looked"} /\ Worker_at' \in {"done", "looked", "asleep"}
      /\ Worker_at = "ready" => queue = <<>> /\ batch = <<>>
  BY <1>1, <1>2, Gone DEF Worker_at, Idle
<1>4. /\ signals' = signals /\ trapped' = trapped /\ lifetime' = lifetime
      /\ queue' = queue /\ batch' = batch /\ stop' = stop /\ alive' = alive
      /\ httpTask' = httpTask /\ proxied' = proxied /\ pressed' = pressed
      /\ unsaved' = unsaved /\ exit' = "no"
  BY DEF Sleep, data, sigVars, entries, httpVars, Before
<1>5. ~NotStarted
  <2> SUFFICES ASSUME NotStarted PROVE FALSE
    OBVIOUS
  <2>1. Worker_at \in {"ready", "start"} /\ (Worker_at = "ready" => <<queue, batch>> # <<<<>>, <<>>>>)
    BY DEF Before, Inv, Early, NotStarted
  <2> QED
    BY <1>3, <2>1
<1>6. Calm
  BY <1>3 DEF Calm, Aside, Stopping, Closing, Saving
<1>7. Typed'
  BY <1>3, <1>4 DEF Before, Inv, Typed, Queued
<1>8. PostedOnce' /\ OnlyTheLast'
  BY <1>4, EntriesKept DEF Before, Inv, sigVars, entries
<1>9. Early'
  <2>1. ~NotStarted'
    BY <1>3, <1>4, <1>5 DEF NotStarted, Queued
  <2> QED
    BY <2>1, NotEarly
<1>10. InCallback' /\ Destroyed' /\ Caught'
  BY <1>3, <1>4, <1>6, CalmKeeps DEF Before
<1> QED
  BY <1>4, <1>7, <1>8, <1>9, <1>10, NothingEnds DEF Inv

(* ... swaps them, ...                                                     *)
LEMMA SwapInv == Before /\ Swap => Inv'
<1> SUFFICES ASSUME Before, Swap PROVE Inv'
  OBVIOUS
<1>1. /\ batch = <<>> /\ batch' = queue /\ queue' = <<>>
      /\ pc' = pc /\ signals' = signals /\ trapped' = trapped /\ lifetime' = lifetime
      /\ stop' = stop /\ alive' = alive
      /\ httpTask' = httpTask /\ proxied' = proxied /\ pressed' = pressed
      /\ unsaved' = unsaved /\ exit' = "no" /\ pc["worker"] = "ready"
  BY DEF Swap, sigVars, httpVars, Before, At
<1>2. <<>> \in Seq(AnyEntry) /\ Len(<<>>) = 0 /\ Range(<<>>) = {}
  <2>1. <<>> \in Seq(AnyEntry) /\ Len(<<>>) = 0
    BY EmptySeq
  <2>2. DOMAIN <<>> = {}
    BY <2>1, LenProperties
  <2> QED
    BY <2>1, <2>2 DEF Range
<1>3. Queued' = Queued /\ Queued = Range(queue)
  BY <1>1, <1>2 DEF Queued
<1>4. Typed'
  BY <1>1, <1>2, <1>3 DEF Before, Inv, Typed
<1>5. PostedOnce'
  BY <1>1, <1>2, <1>3 DEF Before, Inv, PostedOnce, Once
<1>6. OnlyTheLast'
  BY <1>1, <1>3 DEF Before, Inv, OnlyTheLast
<1>7. Early'
  <2> SUFFICES ASSUME NotStarted' PROVE Early'
    BY NotEarly
  <2>1. NotStarted
    BY <1>1, <1>3 DEF NotStarted, Worker_at
  <2>2. queue = <<Entry("start")>> /\ Worker_at' = "ready"
    BY <1>1, <2>1 DEF Swap, Before, Inv, Early, NotStarted, Worker_at
  <2>3. \A n \in 1..Len(signals) : Catching(n)' <=> Catching(n)
    BY <1>1 DEF Catching
  <2> QED
    BY <1>1, <2>1, <2>2, <2>3 DEF Before, Inv, Early, NotStarted, Waiting
<1>8. InCallback' /\ Destroyed' /\ Caught'
  BY <1>1, CalmKeeps DEF Before, Calm, Worker_at
<1> QED
  BY <1>1, <1>4, <1>5, <1>6, <1>7, <1>8, NothingEnds DEF Inv

(* ... and takes the next.                                                 *)
LEMMA TakeKeeps ==
    ASSUME Before, batch # <<>>, batch' = Tail(batch),
           UNCHANGED <<sigVars, queue, stop, alive, httpVars, pressed, unsaved>>,
           exit' \in {"no", "handler"}, pc' \in [Threads -> Places]
    PROVE  /\ Typed' /\ PostedOnce' /\ OnlyTheLast' /\ Queued' \subseteq Queued
           /\ Head(batch) \in Queued
<1>1. /\ signals' = signals /\ trapped' = trapped /\ lifetime' = lifetime
      /\ queue' = queue /\ stop' = stop /\ alive' = alive
      /\ httpTask' = httpTask /\ proxied' = proxied /\ pressed' = pressed
      /\ unsaved' = unsaved
  BY DEF sigVars, httpVars
<1>2. batch \in Seq(AnyEntry) /\ Once(batch)
  BY DEF Before, Inv, Typed, PostedOnce
<1>3. /\ batch' \in Seq(AnyEntry) /\ Range(batch') \subseteq Range(batch) /\ Once(batch')
      /\ Head(batch) \in Range(batch)
  BY <1>2, Taken
<1>4. Queued' \subseteq Queued /\ Head(batch) \in Queued
  BY <1>1, <1>3 DEF Queued
<1>5. Typed'
  BY <1>1, <1>3, <1>4 DEF Before, Inv, Typed, Objects
<1>6. PostedOnce'
  BY <1>1, <1>3, <1>4 DEF Before, Inv, PostedOnce, Once
<1>7. OnlyTheLast'
  BY <1>1, <1>4 DEF Before, Inv, OnlyTheLast
<1> QED
  BY <1>4, <1>5, <1>6, <1>7

(* The task of the entry begins, or the callback of the signal handler.    *)
LEMMA TakeInv == Before /\ Take => Inv'
<1> SUFFICES ASSUME Before, Take PROVE Inv'
  OBVIOUS
<1> DEFINE entry == Head(batch)
           task == IF entry[1] # "signal" THEN entry[1]
                   ELSE IF "handler" \notin alive THEN "ready"
                   ELSE IF Handled(signals[entry[2]].kind) THEN "interrupt" ELSE "raise"
<1>1. /\ batch # <<>> /\ batch' = Tail(batch) /\ Go("worker", "ready", task)
      /\ IF entry[1] = "signal" THEN Use("handler") ELSE UNCHANGED exit
      /\ UNCHANGED <<sigVars, queue, stop, alive, httpVars, pressed, unsaved>>
  BY DEF Take
<1>2. /\ signals' = signals /\ trapped' = trapped /\ queue' = queue /\ alive' = alive
      /\ unsaved' = unsaved /\ proxied' = proxied /\ exit = "no"
  BY <1>1 DEF sigVars, httpVars, Before
<1>3. batch \in Seq(AnyEntry) /\ Typed
  BY DEF Before, Inv, Typed
<1>4. entry \in Range(batch) /\ entry \in AnyEntry /\ entry \in Queued
  BY <1>1, <1>3, Taken, Members DEF Queued
<1>5. CASE \E e \in Tasks : entry = Entry(e)
  <2>1. PICK e \in Tasks : entry = Entry(e)
    BY <1>5
  <2>2. entry[1] = e /\ e # "signal" /\ e \in Places
    BY <2>1, Kind DEF Places
  <2>3. task = e
    BY <2>2
  <2> HIDE DEF task
  <2>4. exit' = "no"
    BY <1>1, <1>2, <2>2
  <2>5. Go("worker", "ready", e)
    BY <1>1, <2>3
  <2> HIDE DEF entry
  <2>6. /\ pc' \in [Threads -> Places] /\ Worker_at = "ready" /\ Worker_at' = e
        /\ \A u \in Threads \ {"worker"} : pc'[u] = pc[u]
    BY <1>3, <2>2, <2>4, <2>5, Gone DEF Threads, Worker_at
  <2>7. Typed' /\ PostedOnce' /\ OnlyTheLast' /\ Queued' \subseteq Queued
    BY <1>1, <2>4, <2>5, <2>6, TakeKeeps
  <2>8. pc'["waiter"] = pc["waiter"] /\ pc'["asio"] = pc["asio"] /\ pc'["http"] = pc["http"] /\ pc'["button"] = pc["button"]
    BY <2>6 DEF Threads
  <2>9. \A n \in 1..Len(signals) : Catching(n)' <=> Catching(n)
    BY <1>2 DEF Catching
  <2>10. Early' /\ InCallback' /\ Destroyed' /\ Caught'
    <3>1. CASE e = "start"
      <4>1. NotStarted
        BY <1>4, <2>1, <3>1 DEF NotStarted
      <4>2. queue = <<>> /\ batch = <<Entry("start")>>
        BY <1>1, <2>6, <4>1 DEF Before, Inv, Early, NotStarted
      <4>3. queue' = <<>> /\ batch' = <<>>
        BY <1>1, <1>2, <4>2
      <4>4. Early'
        BY <1>2, <2>6, <2>8, <2>9, <3>1, <4>1, <4>3 DEF Before, Inv, Early, NotStarted, Waiting
      <4>5. InCallback' /\ Destroyed'
        BY <1>2, <2>6, <2>8, <3>1, <4>1
           DEF Before, Inv, Early, NotStarted, InCallback, Destroyed, Stopping, Closing, Saving, Waiting
      <4>6. Caught'
        BY <1>2, <2>9 DEF Before, Inv, Caught
      <4> QED
        BY <4>4, <4>5, <4>6
    <3>2. CASE e # "start"
      <4>1. Entry(e) # Entry("start")
        <5>1. Entry(e)[1] = e /\ Entry("start")[1] = "start"
          BY Kind DEF Tasks
        <5> QED
          BY <3>2, <5>1
      <4>2. ~NotStarted
        <5> SUFFICES ASSUME NotStarted PROVE FALSE
          OBVIOUS
        <5>1. batch = <<Entry("start")>>
          BY <1>1, <2>6 DEF Before, Inv, Early, NotStarted
        <5>2. entry = Entry("start")
          BY <5>1 DEF entry
        <5> QED
          BY <2>1, <4>1, <5>2
      <4>3. Calm
        BY <2>6, <3>2 DEF Calm, Aside, Stopping, Closing, Saving, Tasks
      <4>4. ~NotStarted'
        BY <2>6, <2>7, <3>2, <4>2 DEF NotStarted
      <4>5. InCallback' /\ Destroyed' /\ Caught'
        BY <1>2, <2>8, <4>3, CalmKeeps DEF Before
      <4> QED
        BY <4>4, <4>5, NotEarly
    <3> QED
      BY <3>1, <3>2
  <2> QED
    BY <2>4, <2>5, <2>7, <2>10, NothingEnds DEF Inv
<1>6. CASE \E n \in Nat : entry = Signal(n)
  <2>1. PICK n \in Nat : entry = Signal(n)
    BY <1>6
  <2>2. entry[1] = "signal" /\ entry[2] = n
    BY <2>1 DEF Signal
  <2>3. n \in 1..Len(signals)
    BY <1>4, <2>1 DEF Before, Inv, Typed
  <2>4. task = IF "handler" \notin alive THEN "ready" ELSE IF signals[n].kind = "INT" THEN "interrupt" ELSE "raise"
    <3> HIDE DEF entry
    <3> QED
      BY <2>2 DEF Handled
  <2>5. Use("handler")
    BY <1>1, <2>2
  <2> HIDE DEF task
  <2>6. task \in {"ready", "interrupt", "raise"} /\ task \in Places
    BY <2>4 DEF Places
  <2>7. /\ pc' \in [Threads -> Places] /\ Worker_at = "ready" /\ Worker_at' = task
        /\ pc'["waiter"] = pc["waiter"]
    BY <1>1, <1>3, <2>6, Gone DEF Threads, Worker_at
  <2>8. exit' = "no" \/ (exit' = "handler" /\ "handler" \notin alive)
    BY <1>2, <2>5 DEF Use
  <2>9. Typed' /\ PostedOnce' /\ OnlyTheLast' /\ Queued' \subseteq Queued
    <3>1. exit' \in {"no", "handler"}
      BY <2>8
    <3> QED
      BY <1>1, <2>7, <3>1, TakeKeeps
  <2>10. ~NotStarted
    <3> SUFFICES ASSUME NotStarted PROVE FALSE
      OBVIOUS
    <3>1. batch = <<Entry("start")>>
      BY <1>1, <2>7 DEF Before, Inv, Early, NotStarted
    <3>2. entry = Entry("start")
      BY <3>1
    <3> QED
      BY <2>1, <3>2, Kind DEF Tasks
  <2>11. Early'
    <3>1. ~NotStarted'
      BY <2>6, <2>7, <2>9, <2>10 DEF NotStarted
    <3> QED
      BY <3>1, NotEarly
  <2>12. InCallback'
    <3>1. signals # <<>>
      BY <2>3, EmptySeq
    <3>2. task = "interrupt" => "handler" \in alive /\ Waiting
      BY <2>4 DEF Before, Inv, Destroyed
    <3>3. task = "raise" => signals[n].kind = "TERM"
      <4>1. signals[n] \in SignalRecord
        BY <1>3, <2>3, ElementOfSeq DEF Typed
      <4>2. signals[n].kind \in Kinds
        BY <4>1 DEF SignalRecord
      <4> QED
        BY <2>4, <4>2 DEF Kinds
    <3> QED
      BY <1>2, <2>3, <2>6, <2>7, <3>1, <3>2, <3>3 DEF InCallback, Stopping, Closing, Saving, Waiting
  <2>13. Destroyed'
    BY <1>2, <2>7 DEF Before, Inv, Destroyed, Closing, Saving, Waiting
  <2>14. Caught'
    <3>1. \A m \in 1..Len(signals) : Catching(m)' <=> Catching(m)
      BY <1>2 DEF Catching
    <3> QED
      BY <1>2, <3>1 DEF Before, Inv, Caught
  <2>15. StatesOutlive'
    <3>1. "handler" \notin alive => ~unsaved
      BY <2>7 DEF Before, Inv, Destroyed, Closing, Saving
    <3> QED
      BY <1>2, <2>8, <3>1 DEF StatesOutlive
  <2> QED
    BY <2>9, <2>11, <2>12, <2>13, <2>14, <2>15 DEF Inv
<1> QED
  BY <1>4, <1>5, <1>6 DEF AnyEntry

-----------------------------------------------------------------------------
(* The first task of main() makes the parts of the stack.                  *)
LEMMA StartInv == Before /\ Start => Inv'
<1> SUFFICES ASSUME Before, Start PROVE Inv'
  OBVIOUS
<1>1. /\ pc' = [pc EXCEPT !["worker"] = "ready", !["http"] = Awake(@), !["button"] = "idle"]
      /\ alive' = alive \union {"handler", "closure", "server", "context"}
      /\ trapped' = {"INT", "TERM"} /\ httpTask' = TRUE
      /\ signals' = signals /\ lifetime' = lifetime /\ queue' = queue /\ batch' = batch
      /\ stop' = stop /\ proxied' = proxied /\ pressed' = pressed /\ unsaved' = unsaved
      /\ exit' = "no" /\ Worker_at = "start"
  BY DEF Start, entries, Before, At, Worker_at
<1>2. Waiting /\ alive = {"scheduler", "thread"} /\ queue = <<>> /\ batch = <<>>
  BY <1>1 DEF Before, Inv, Early
<1>3. {"ready", "idle"} \subseteq Places /\ {"worker", "http", "button", "waiter"} \subseteq Threads
  BY DEF Places, Threads
<1>4. pc' \in [Threads -> Places] /\ Worker_at' = "ready" /\ Waiting'
  BY <1>1, <1>2, <1>3, Woken DEF Before, Inv, Typed, Worker_at, Waiting
<1>5. Len(<<>>) = 0 /\ Range(<<>>) = {}
  <2>1. <<>> \in Seq(AnyEntry) /\ Len(<<>>) = 0
    BY EmptySeq
  <2>2. DOMAIN <<>> = {}
    BY <2>1, LenProperties
  <2> QED
    BY <2>1, <2>2 DEF Range
<1>6. Queued' = {}
  BY <1>1, <1>2, <1>5 DEF Queued
<1>7. Typed'
  BY <1>1, <1>2, <1>4, <1>6 DEF Before, Inv, Typed, Kinds, Objects
<1>8. PostedOnce' /\ OnlyTheLast'
  BY <1>1, <1>2, <1>5, <1>6 DEF PostedOnce, OnlyTheLast, Once, Queued
<1>9. Early'
  BY <1>4, <1>6 DEF Early
<1>10. InCallback' /\ Destroyed' /\ Caught'
  BY <1>1, <1>2, <1>4 DEF InCallback, Destroyed, Caught, Stopping, Closing, Saving
<1> QED
  BY <1>1, <1>7, <1>8, <1>9, <1>10, NothingEnds DEF Inv

(* A task of the stack ends.                                               *)
LEMMA TaskInv ==
    ASSUME Before, Worker_at \in {"press", "answer", "request"},
           pc' \in [Threads -> Places], Worker_at' = "ready", pc'["waiter"] = pc["waiter"],
           UNCHANGED <<sigVars, entries, stop, alive>>,
           httpTask' \in BOOLEAN, proxied' \in BOOLEAN, pressed' \in BOOLEAN,
           unsaved' \in BOOLEAN, unsaved' => unsaved \/ "context" \in alive,
           exit' \in {"no"} \union Objects, StatesOutlive'
    PROVE  Inv'
<1>1. /\ signals' = signals /\ trapped' = trapped /\ lifetime' = lifetime
      /\ queue' = queue /\ batch' = batch /\ stop' = stop /\ alive' = alive
  BY DEF sigVars, entries
<1>2. Typed'
  BY <1>1 DEF Before, Inv, Typed, Queued
<1>3. PostedOnce' /\ OnlyTheLast'
  BY <1>1, EntriesKept DEF Before, Inv
<1>4. Early'
  <2>1. ~NotStarted
    BY DEF Before, Inv, Early, NotStarted
  <2>2. ~NotStarted'
    BY <1>1, <2>1 DEF NotStarted, Queued
  <2> QED
    BY <2>2, NotEarly
<1>5. InCallback'
  BY DEF InCallback, Stopping, Closing, Saving
<1>6. Destroyed'
  BY <1>1 DEF Before, Inv, Destroyed, Closing, Saving, Waiting
<1>7. Caught'
  <2>1. \A n \in 1..Len(signals) : Catching(n)' <=> Catching(n)
    BY <1>1 DEF Catching
  <2> QED
    BY <1>1, <2>1 DEF Before, Inv, Caught
<1> QED
  BY <1>2, <1>3, <1>4, <1>5, <1>6, <1>7 DEF Inv

(* When the server's context is gone, there is nothing left to lose, or it *)
(* is about to be saved.                                                   *)
LEMMA ContextOutlives ==
    ASSUME Before, "context" \notin alive, Worker_at \notin Saving
    PROVE  ~unsaved
  BY DEF Before, Inv, Destroyed

(* updateState("/button").                                                 *)
LEMMA PressInv == Before /\ Press => Inv'
<1> SUFFICES ASSUME Before, Press PROVE Inv'
  OBVIOUS
<1>1. /\ Worker_at = "press" /\ pc' = [pc EXCEPT !["worker"] = "ready", !["http"] = Awake(@)]
      /\ pressed' = FALSE /\ httpTask' = TRUE /\ exit' = "no" /\ unsaved' = unsaved
      /\ UNCHANGED <<sigVars, entries, stop, alive, proxied>>
  BY DEF Press, At, Before, Worker_at
<1>2. {"worker", "http", "waiter"} \subseteq Threads /\ "ready" \in Places
  BY DEF Threads, Places
<1>3. pc' \in [Threads -> Places] /\ Worker_at' = "ready" /\ pc'["waiter"] = pc["waiter"]
  BY <1>1, <1>2, Woken DEF Before, Inv, Typed, Worker_at
<1>4. proxied' \in BOOLEAN /\ unsaved' \in BOOLEAN
  BY <1>1 DEF Before, Inv, Typed
<1> QED
  BY <1>1, <1>3, <1>4, TaskInv, NothingEnds

(* The answer of the service, for a context that may be gone.              *)
LEMMA AnswerInv == Before /\ Answer => Inv'
<1> SUFFICES ASSUME Before, Answer PROVE Inv'
  OBVIOUS
<1>1. /\ Go("worker", "answer", "ready") /\ Use("context") /\ exit = "no"
      /\ UNCHANGED <<sigVars, entries, stop, alive>>
      /\ httpTask' = httpTask /\ proxied' = proxied /\ pressed' = pressed /\ unsaved' = unsaved
  BY DEF Answer, Before, httpVars
<1>2. {"worker", "waiter"} \subseteq Threads /\ "ready" \in Places /\ Typed
  BY DEF Threads, Places, Before, Inv
<1>3. /\ pc' \in [Threads -> Places] /\ Worker_at = "answer" /\ Worker_at' = "ready"
      /\ pc'["waiter"] = pc["waiter"]
  BY <1>1, <1>2, Gone DEF Worker_at
<1>4. exit' = "no" \/ (exit' = "context" /\ "context" \notin alive)
  BY <1>1 DEF Use
<1>5. StatesOutlive'
  <2>1. "context" \notin alive => ~unsaved
    BY <1>3, ContextOutlives DEF Saving
  <2> QED
    BY <1>1, <1>4, <2>1 DEF StatesOutlive
<1>6. /\ httpTask' \in BOOLEAN /\ proxied' \in BOOLEAN /\ pressed' \in BOOLEAN
      /\ unsaved' \in BOOLEAN
  BY <1>1, <1>2 DEF Typed
<1>7. exit' \in {"no"} \union Objects
  BY <1>4 DEF Objects
<1> QED
  BY <1>1, <1>3, <1>5, <1>6, <1>7, TaskInv

(* A request, which changes a state only if its context is there.          *)
LEMMA RequestInv == Before /\ Request => Inv'
<1> SUFFICES ASSUME Before, Request PROVE Inv'
  OBVIOUS
<1>1. /\ Use("context") /\ exit = "no" /\ pc["worker"] = "request" /\ pressed' = pressed
      /\ UNCHANGED <<sigVars, entries, stop, alive>>
  BY DEF Request, Before, At
<1>2. /\ {"worker", "waiter", "http"} \subseteq Threads /\ "ready" \in Places /\ Typed
      /\ Worker_at = "request"
  BY <1>1 DEF Threads, Places, Before, Inv, Worker_at
<1>3. exit' = "no" \/ (exit' = "context" /\ "context" \notin alive)
  BY <1>1 DEF Use
<1>4. /\ pc' \in [Threads -> Places] /\ Worker_at' = "ready" /\ pc'["waiter"] = pc["waiter"]
      /\ httpTask' \in BOOLEAN /\ proxied' \in BOOLEAN
      /\ unsaved' = unsaved \/ unsaved' = ("context" \in alive \/ unsaved)
  <2>1. CASE /\ Go("worker", "request", "ready") /\ UNCHANGED httpVars
             /\ unsaved' = ("context" \in alive \/ unsaved)
    <3>1. pc' \in [Threads -> Places] /\ Worker_at' = "ready" /\ pc'["waiter"] = pc["waiter"]
      BY <1>2, <2>1, Gone DEF Worker_at
    <3>2. httpTask' = httpTask /\ proxied' = proxied
      BY <2>1 DEF httpVars
    <3> QED
      BY <1>2, <2>1, <3>1, <3>2 DEF Typed
  <2>2. CASE /\ pc' = [pc EXCEPT !["worker"] = "ready", !["http"] = Awake(@)]
             /\ httpTask' = TRUE /\ proxied' = TRUE /\ unsaved' = unsaved
    BY <1>2, <2>2, Woken DEF Typed, Worker_at
  <2> QED
    BY <2>1, <2>2 DEF Request
<1>5. unsaved' \in BOOLEAN /\ (unsaved' => unsaved \/ "context" \in alive)
  <2> DEFINE there == "context" \in alive
  <2>1. unsaved \in BOOLEAN
    BY <1>2 DEF Typed
  <2>2. unsaved' = unsaved \/ unsaved' = (there \/ unsaved)
    BY <1>4
  <2> HIDE DEF there
  <2>3. unsaved' \in BOOLEAN
    BY <2>1, <2>2
  <2>4. unsaved' => unsaved \/ there
    BY <2>2
  <2> QED
    BY <2>3, <2>4 DEF there
<1>6. StatesOutlive'
  <2>1. "context" \notin alive => ~unsaved
    BY <1>2, ContextOutlives DEF Saving
  <2> QED
    BY <1>3, <1>5, <2>1 DEF StatesOutlive
<1>7. pressed' \in BOOLEAN /\ exit' \in {"no"} \union Objects
  BY <1>1, <1>2, <1>3 DEF Typed, Objects
<1> QED
  BY <1>1, <1>2, <1>4, <1>5, <1>6, <1>7, TaskInv

(* A SIGTERM ends the program, ...                                         *)
LEMMA RaiseInv == Before /\ Raise => Inv'
<1> SUFFICES ASSUME Before, Raise PROVE Inv'
  OBVIOUS
<1>1. /\ Worker_at = "raise" /\ exit' = "killed" /\ pc' = pc /\ stop' = stop /\ httpTask' = httpTask
      /\ proxied' = proxied /\ UNCHANGED <<sigVars, entries, alive, unsaved, pressed>>
      /\ signals' = signals
  BY DEF Raise, At, Worker_at, httpVars, sigVars
<1>2. Typed /\ ~NotStarted
  BY <1>1 DEF Before, Inv, Early, NotStarted
<1>3. StatesOutlive'
  <2>1. PICK n \in 1..Len(signals) : signals[n].kind = "TERM"
    BY <1>1 DEF Before, Inv, InCallback
  <2>2. Len(signals) \in Nat
    BY <1>2, LenProperties DEF Typed
  <2>3. n = 1 \/ Len(signals) > 1
    BY <2>2
  <2> QED
    BY <1>1, <2>1, <2>3 DEF StatesOutlive
<1> QED
  BY <1>1, <1>2, <1>3, ElsewhereInv DEF Typed, Worker_at

(* ... a SIGINT in the callback of main().                                 *)
LEMMA CallbackInv ==
    ASSUME Before, Worker_at \in Stopping, pc' \in [Threads -> Places],
           Worker_at' \in Stopping \union {"ready"},
           NEW e, queue' \in {queue, RemoveFirst(queue, e)}, batch' \in {batch, RemoveFirst(batch, e)},
           UNCHANGED signals, trapped' \subseteq trapped, alive' \subseteq alive,
           lifetime' = lifetime \/ (lifetime' = 0 /\ "handler" \notin alive'),
           stop' \subseteq {"worker", "asio", "http"},
           httpTask' \in BOOLEAN, proxied' \in BOOLEAN, pressed' \in BOOLEAN,
           unsaved' \in BOOLEAN, exit' \in {"no"} \union Objects,
           InCallback', Destroyed', Caught', StatesOutlive'
    PROVE  Inv'
<1>1. /\ queue' \in Seq(AnyEntry) /\ batch' \in Seq(AnyEntry) /\ Queued' \subseteq Queued
      /\ \A n \in Nat : Signal(n) \in Queued' => n \in 1..Len(signals)
      /\ PostedOnce'
  BY Shrunk
<1>2. Typed /\ signals' = signals
  BY DEF Before, Inv
<1>3. lifetime' \in 0..Len(signals')
  <2>1. Len(signals) \in Nat
    BY <1>2, LenProperties DEF Typed
  <2> QED
    <3>1. lifetime \in 0..Len(signals)
      BY <1>2 DEF Typed
    <3>2. 0 \in 0..Len(signals)
      BY <2>1
    <3> QED
      BY <1>2, <3>1, <3>2
<1>4. Typed'
  BY <1>1, <1>2, <1>3 DEF Before, Typed
<1>5. OnlyTheLast'
  BY <1>1, <1>2 DEF Before, Inv, OnlyTheLast
<1>6. Early'
  <2>1. ~NotStarted
    BY DEF Before, Inv, Early, NotStarted, Stopping, Closing, Saving
  <2>2. ~NotStarted'
    BY <1>1, <2>1 DEF NotStarted, Stopping, Closing, Saving
  <2> QED
    BY <2>2, NotEarly
<1> QED
  BY <1>1, <1>4, <1>5, <1>6 DEF Inv

(* In the callback there has been a signal, and main() waits.              *)
LEMMA SignalsKept ==
    ASSUME Before, Worker_at \in Stopping, UNCHANGED signals
    PROVE  /\ Waiting /\ {"scheduler", "thread"} \subseteq alive
           /\ signals # <<>> /\ signals' # <<>> /\ signals' = signals
           /\ \A n \in 1..Len(signals) : Catching(n)' <=> Catching(n)
  BY DEF Before, Inv, InCallback, Destroyed, Catching

(* The worker goes on to another place in the callback, and what it        *)
(* destroys is no longer there.                                            *)
LEMMA GoneOn ==
    ASSUME Before, NEW from \in Places, NEW to \in Places, Go("worker", from, to)
    PROVE  /\ pc' \in [Threads -> Places] /\ Worker_at = from /\ Worker_at' = to
           /\ Waiting' <=> Waiting
<1>1. "worker" \in Threads /\ "waiter" \in Threads \ {"worker"} /\ Typed
  BY DEF Before, Inv, Threads
<1> QED
  BY <1>1, Gone DEF Worker_at, Waiting

(* ~SignalHandler, up to its second std::signal(), ...                     *)
LEMMA UntrapInv == Before /\ Untrap => Inv'
<1> SUFFICES ASSUME Before, Untrap PROVE Inv'
  OBVIOUS
<1>1. /\ Go("worker", "interrupt", "untrapped") /\ trapped' = trapped \ {"TERM"}
      /\ signals' = signals /\ lifetime' = lifetime /\ queue' = queue /\ batch' = batch
      /\ stop' = stop /\ alive' = alive /\ httpTask' = httpTask /\ proxied' = proxied
      /\ pressed' = pressed /\ unsaved' = unsaved /\ exit' = "no"
  BY DEF Untrap, entries, httpVars, Before
<1>2. /\ pc' \in [Threads -> Places] /\ Worker_at = "interrupt" /\ Worker_at' = "untrapped"
      /\ Waiting' <=> Waiting
  BY <1>1, GoneOn DEF Places
<1>3. /\ Waiting /\ signals # <<>> /\ "handler" \in alive
      /\ \A n \in 1..Len(signals) : Catching(n)' <=> Catching(n)
  BY <1>1, <1>2, SignalsKept DEF Before, Inv, InCallback, Stopping
<1>4. InCallback'
  BY <1>1, <1>2, <1>3 DEF InCallback, Stopping, Closing, Saving
<1>5. Destroyed'
  BY <1>1, <1>2, <1>3 DEF Before, Inv, Destroyed, Closing, Saving
<1>6. Caught'
  BY <1>1, <1>3 DEF Before, Inv, Caught
<1> QED
  BY <1>1, <1>2, <1>4, <1>5, <1>6, CallbackInv, NothingEnds
     DEF Before, Inv, Typed, Stopping

(* ... and the rest: the worker is not in a catcher then.                  *)
LEMMA FreeHandlerInv == Before /\ FreeHandler /\ ~Interrupted("worker") => Inv'
<1> SUFFICES ASSUME Before, FreeHandler, ~Interrupted("worker") PROVE Inv'
  OBVIOUS
<1> DEFINE e == Signal(lifetime)
<1>1. /\ Go("worker", "untrapped", "close") /\ trapped' = {} /\ lifetime' = 0
      /\ queue' = RemoveFirst(queue, e) /\ batch' = RemoveFirst(batch, e)
      /\ alive' = alive \ {"handler", "closure"}
      /\ signals' = signals
      /\ stop' = stop /\ httpTask' = httpTask /\ proxied' = proxied
      /\ pressed' = pressed /\ unsaved' = unsaved /\ exit' = "no"
  BY DEF FreeHandler, Revoke, httpVars, Before
<1> HIDE DEF e
<1>2. /\ pc' \in [Threads -> Places] /\ Worker_at = "untrapped" /\ Worker_at' = "close"
      /\ Waiting' <=> Waiting
  BY <1>1, GoneOn DEF Places
<1>3. /\ Waiting /\ signals # <<>> /\ {"scheduler", "thread"} \subseteq alive
      /\ \A n \in 1..Len(signals) : Catching(n)' <=> Catching(n)
  BY <1>1, <1>2, SignalsKept DEF Stopping
<1>4. InCallback'
  BY <1>1, <1>2, <1>3 DEF InCallback, Stopping, Closing, Saving
<1>5. Destroyed'
  <2>1. "context" \notin alive' => ~unsaved'
    BY <1>1, <1>2 DEF Before, Inv, Destroyed, Saving
  <2> QED
    BY <1>1, <1>2, <1>3, <2>1 DEF Destroyed, Closing
<1>6. Caught'
  <2>1. \A n \in 1..Len(signals) : ~(Catching(n) /\ signals[n].on = "worker")
    <3>1. DOMAIN signals = 1..Len(signals)
      BY LenProperties DEF Before, Inv, Typed
    <3> QED
      BY <3>1 DEF Interrupted
  <2> QED
    BY <1>1, <1>3, <2>1 DEF Caught
<1> QED
  BY <1>1, <1>2, <1>4, <1>5, <1>6, CallbackInv, NothingEnds
     DEF Before, Inv, Typed, Stopping, Closing

(* ~ServerImpl, up to the end of its io_context, ...                       *)
LEMMA CloseServerInv == Before /\ CloseServer => Inv'
<1> SUFFICES ASSUME Before, CloseServer PROVE Inv'
  OBVIOUS
<1>1. /\ Go("worker", "close", "stop asio") /\ alive' = alive \ {"server"}
      /\ signals' = signals /\ trapped' = trapped /\ lifetime' = lifetime
      /\ queue' = queue /\ batch' = batch
      /\ stop' = stop /\ httpTask' = httpTask /\ proxied' = proxied
      /\ pressed' = pressed /\ unsaved' = unsaved /\ exit' = "no"
  BY DEF CloseServer, sigVars, entries, httpVars, Before
<1>2. /\ pc' \in [Threads -> Places] /\ Worker_at = "close" /\ Worker_at' = "stop asio"
      /\ Waiting' <=> Waiting
  BY <1>1, GoneOn DEF Places
<1>3. /\ Waiting /\ signals # <<>> /\ {"scheduler", "thread"} \subseteq alive
      /\ \A n \in 1..Len(signals) : Catching(n)' <=> Catching(n) /\ "handler" \notin alive
  BY <1>1, <1>2, SignalsKept DEF Before, Inv, InCallback, Stopping, Closing
<1>4. InCallback'
  BY <1>1, <1>2, <1>3 DEF Before, Inv, InCallback, Stopping, Closing, Saving
<1>5. Destroyed'
  BY <1>1, <1>2, <1>3 DEF Before, Inv, Destroyed, Closing, Saving
<1>6. Caught'
  BY <1>1, <1>3 DEF Before, Inv, Caught
<1> QED
  BY <1>1, <1>2, <1>4, <1>5, <1>6, CallbackInv, NothingEnds
     DEF Before, Inv, Typed, Stopping, Closing

(* ... the stop of its thread, ...                                         *)
LEMMA StopAsioInv == Before /\ StopThread("asio", "worker", "stop asio", "join asio") => Inv'
<1> SUFFICES ASSUME Before, StopThread("asio", "worker", "stop asio", "join asio") PROVE Inv'
  OBVIOUS
<1>1. /\ Worker_at = "stop asio" /\ stop' = stop \union {"asio"}
      /\ pc' = [pc EXCEPT !["asio"] = Awake(@), !["worker"] = "join asio"]
      /\ signals' = signals /\ trapped' = trapped /\ lifetime' = lifetime
      /\ queue' = queue /\ batch' = batch /\ alive' = alive
      /\ httpTask' = httpTask /\ proxied' = proxied
      /\ pressed' = pressed /\ unsaved' = unsaved /\ exit' = "no"
  BY DEF StopThread, sigVars, entries, httpVars, Before, At, Worker_at
<1>2. /\ pc' \in [Threads -> Places] /\ Worker_at' = "join asio" /\ (Waiting' <=> Waiting)
  <2>1. {"worker", "asio", "waiter"} \subseteq Threads /\ "join asio" \in Places
    BY DEF Threads, Places
  <2> QED
    BY <1>1, <2>1, Woken DEF Before, Inv, Typed, Worker_at, Waiting
<1>3. /\ Waiting /\ signals # <<>> /\ {"scheduler", "thread"} \subseteq alive
      /\ (\A n \in 1..Len(signals) : Catching(n)' <=> Catching(n)) /\ "handler" \notin alive
  BY <1>1, <1>2, SignalsKept DEF Before, Inv, InCallback, Stopping, Closing
<1>4. InCallback'
  BY <1>1, <1>2, <1>3 DEF InCallback, Stopping, Closing, Saving
<1>5. Destroyed'
  BY <1>1, <1>2, <1>3 DEF Before, Inv, Destroyed, Closing, Saving
<1>6. Caught'
  BY <1>1, <1>3 DEF Before, Inv, Caught
<1> QED
  BY <1>1, <1>2, <1>4, <1>5, <1>6, CallbackInv, NothingEnds
     DEF Before, Inv, Typed, Stopping, Closing

(* ... and the join: no request changes a state from here on.              *)
LEMMA JoinAsioInv == Before /\ JoinAsio => Inv'
<1> SUFFICES ASSUME Before, JoinAsio PROVE Inv'
  OBVIOUS
<1>1. /\ Go("worker", "join asio", "button") /\ alive' = alive \ {"context"}
      /\ signals' = signals /\ trapped' = trapped /\ lifetime' = lifetime
      /\ queue' = queue /\ batch' = batch
      /\ stop' = stop /\ httpTask' = httpTask /\ proxied' = proxied
      /\ pressed' = pressed /\ unsaved' = unsaved /\ exit' = "no"
  BY DEF JoinAsio, sigVars, entries, httpVars, Before
<1>2. /\ pc' \in [Threads -> Places] /\ Worker_at = "join asio" /\ Worker_at' = "button"
      /\ (Waiting' <=> Waiting)
  BY <1>1, GoneOn DEF Places
<1>3. /\ Waiting /\ signals # <<>> /\ {"scheduler", "thread"} \subseteq alive
      /\ (\A n \in 1..Len(signals) : Catching(n)' <=> Catching(n)) /\ "handler" \notin alive
  BY <1>1, <1>2, SignalsKept DEF Before, Inv, InCallback, Stopping, Closing
<1>4. InCallback'
  BY <1>1, <1>2, <1>3 DEF InCallback, Stopping, Closing, Saving
<1>5. Destroyed'
  BY <1>1, <1>2, <1>3 DEF Destroyed, Closing, Saving
<1>6. Caught'
  BY <1>1, <1>3 DEF Before, Inv, Caught
<1> QED
  BY <1>1, <1>2, <1>4, <1>5, <1>6, CallbackInv, NothingEnds
     DEF Before, Inv, Typed, Stopping, Closing, Saving

(* ~ButtonReader.                                                          *)
LEMMA FreeButtonInv == Before /\ FreeButton => Inv'
<1> SUFFICES ASSUME Before, FreeButton PROVE Inv'
  OBVIOUS
<1> DEFINE e == Entry("press")
<1>1. /\ Worker_at = "button" /\ pressed' = FALSE
      /\ pc' = [pc EXCEPT !["worker"] = "save", !["button"] = "freed"]
      /\ queue' = RemoveFirst(queue, e) /\ batch' = RemoveFirst(batch, e)
      /\ signals' = signals /\ trapped' = trapped /\ lifetime' = lifetime /\ alive' = alive
      /\ stop' = stop /\ httpTask' = httpTask /\ proxied' = proxied
      /\ unsaved' = unsaved /\ exit' = "no"
  BY DEF FreeButton, Revoke, sigVars, httpVars, Before, At, Worker_at
<1> HIDE DEF e
<1>2. /\ pc' \in [Threads -> Places] /\ Worker_at' = "save" /\ (Waiting' <=> Waiting)
  <2>1. {"worker", "button", "waiter"} \subseteq Threads /\ {"save", "freed"} \subseteq Places
    BY DEF Threads, Places
  <2> QED
    BY <1>1, <2>1 DEF Before, Inv, Typed, Worker_at, Waiting
<1>3. /\ Waiting /\ signals # <<>> /\ {"scheduler", "thread"} \subseteq alive
      /\ (\A n \in 1..Len(signals) : Catching(n)' <=> Catching(n))
      /\ "handler" \notin alive /\ "context" \notin alive
  BY <1>1, SignalsKept DEF Before, Inv, InCallback, Stopping, Saving
<1>4. InCallback'
  BY <1>1, <1>2, <1>3 DEF InCallback, Stopping, Closing, Saving
<1>5. Destroyed'
  BY <1>1, <1>2, <1>3 DEF Destroyed, Closing, Saving
<1>6. Caught'
  BY <1>1, <1>3 DEF Before, Inv, Caught
<1>7. /\ stop' \subseteq {"worker", "asio", "http"} /\ httpTask' \in BOOLEAN
      /\ proxied' \in BOOLEAN /\ pressed' \in BOOLEAN /\ unsaved' \in BOOLEAN
  BY <1>1 DEF Before, Inv, Typed
<1>8. Worker_at \in Stopping /\ Worker_at' \in Stopping
  BY <1>1, <1>2 DEF Stopping, Saving
<1> QED
  BY <1>1, <1>2, <1>4, <1>5, <1>6, <1>7, <1>8, CallbackInv, NothingEnds

(* ~StateThingy: now nothing is unsaved, and ...                           *)
LEMMA SaveStatesInv == Before /\ SaveStates => Inv'
<1> SUFFICES ASSUME Before, SaveStates PROVE Inv'
  OBVIOUS
<1>1. /\ Go("worker", "save", "promise") /\ unsaved' = FALSE
      /\ signals' = signals /\ trapped' = trapped /\ lifetime' = lifetime /\ alive' = alive
      /\ queue' = queue /\ batch' = batch
      /\ stop' = stop /\ httpTask' = httpTask /\ proxied' = proxied
      /\ pressed' = pressed /\ exit' = "no"
  BY DEF SaveStates, sigVars, entries, httpVars, Before
<1>2. /\ pc' \in [Threads -> Places] /\ Worker_at = "save" /\ Worker_at' = "promise"
      /\ (Waiting' <=> Waiting)
  BY <1>1, GoneOn DEF Places
<1>3. /\ Waiting /\ signals # <<>> /\ {"scheduler", "thread"} \subseteq alive
      /\ (\A n \in 1..Len(signals) : Catching(n)' <=> Catching(n))
      /\ "handler" \notin alive /\ "context" \notin alive
  BY <1>1, <1>2, SignalsKept DEF Before, Inv, InCallback, Stopping, Saving
<1>4. InCallback'
  BY <1>1, <1>2, <1>3 DEF InCallback, Stopping, Closing, Saving
<1>5. Destroyed'
  BY <1>1, <1>2, <1>3 DEF Destroyed, Closing, Saving
<1>6. Caught'
  BY <1>1, <1>3 DEF Before, Inv, Caught
<1> QED
  BY <1>1, <1>2, <1>4, <1>5, <1>6, CallbackInv, NothingEnds
     DEF Before, Inv, Typed, Stopping, Saving

(* ... only now main() may go on.                                          *)
LEMMA SetValueInv == Before /\ SetValue => Inv'
<1> SUFFICES ASSUME Before, SetValue PROVE Inv'
  OBVIOUS
<1>1. /\ Worker_at = "promise" /\ Use("closure") /\ exit = "no"
      /\ pc' = [pc EXCEPT !["worker"] = "ready", !["waiter"] = "stop main"]
      /\ signals' = signals /\ trapped' = trapped /\ lifetime' = lifetime /\ alive' = alive
      /\ queue' = queue /\ batch' = batch
      /\ stop' = stop /\ httpTask' = httpTask /\ proxied' = proxied
      /\ pressed' = pressed /\ unsaved' = unsaved
  BY DEF SetValue, sigVars, entries, httpVars, Before, At, Worker_at
<1>2. /\ pc' \in [Threads -> Places] /\ Worker_at' = "ready" /\ ~Waiting'
  <2>1. {"worker", "waiter"} \subseteq Threads /\ {"ready", "stop main"} \subseteq Places
    BY DEF Threads, Places
  <2> QED
    BY <1>1, <2>1 DEF Before, Inv, Typed, Worker_at, Waiting
<1>3. /\ signals # <<>> /\ (\A n \in 1..Len(signals) : Catching(n)' <=> Catching(n))
      /\ "handler" \notin alive /\ "context" \notin alive
  BY <1>1, SignalsKept DEF Before, Inv, InCallback, Stopping
<1>4. unsaved' = FALSE
  <2>1. ~unsaved /\ unsaved \in BOOLEAN
    BY <1>1, <1>3, ContextOutlives DEF Saving, Before, Inv, Typed
  <2> QED
    BY <1>1, <2>1
<1>5. exit' \in {"no", "closure"}
  BY <1>1 DEF Use
<1>6. InCallback'
  BY <1>1, <1>2, <1>3 DEF InCallback, Stopping, Closing, Saving
<1>7. Destroyed'
  BY <1>1, <1>2, <1>3, <1>4 DEF Destroyed, Closing, Saving
<1>8. Caught'
  BY <1>1, <1>3 DEF Before, Inv, Caught
<1>9. StatesOutlive'
  BY <1>4 DEF StatesOutlive
<1> QED
  BY <1>1, <1>2, <1>4, <1>5, <1>6, <1>7, <1>8, <1>9, CallbackInv
     DEF Before, Inv, Typed, Stopping, Objects

-----------------------------------------------------------------------------
(* The steps of each thread.                                               *)
LEMMA WorkerInv == Before /\ Worker => Inv'
<1> SUFFICES ASSUME Before, Worker PROVE Inv'
  OBVIOUS
<1>1. CASE Sleep("worker") \/ Swap \/ Take
  BY <1>1, WorkerSleepInv, SwapInv, TakeInv
<1>2. CASE Start \/ Press \/ Request \/ Answer \/ Raise
  BY <1>2, StartInv, PressInv, RequestInv, AnswerInv, RaiseInv
<1>3. CASE Untrap \/ (FreeHandler /\ ~Interrupted("worker")) \/ CloseServer
  BY <1>3, UntrapInv, FreeHandlerInv, CloseServerInv
<1>4. CASE \/ StopThread("asio", "worker", "stop asio", "join asio") \/ JoinAsio
           \/ FreeButton \/ SaveStates \/ SetValue
  BY <1>4, StopAsioInv, JoinAsioInv, FreeButtonInv, SaveStatesInv, SetValueInv
<1> QED
  BY <1>1, <1>2, <1>3, <1>4 DEF Worker

(* The asio thread.                                                        *)
LEMMA AsioInv == Before /\ Asio => Inv'
  BY AcceptInv, PostRequestInv, LeaveContextInv, SleepInv DEF Asio

(* The http thread.                                                        *)
LEMMA HttpInv == Before /\ Http => Inv'
  BY FinishTransferInv, ProcessInv, ProcessAgainInv, SleepInv DEF Http

(* The program has ended, or nothing happens.                              *)
LEMMA StutterInv == Inv /\ UNCHANGED vars => Inv'
<1> SUFFICES ASSUME Inv, UNCHANGED vars PROVE Inv'
  OBVIOUS
<1>1. /\ pc' = pc /\ signals' = signals /\ trapped' = trapped /\ lifetime' = lifetime
      /\ queue' = queue /\ batch' = batch /\ stop' = stop /\ alive' = alive
      /\ httpTask' = httpTask /\ proxied' = proxied /\ pressed' = pressed /\ unsaved' = unsaved
      /\ inputs' = inputs /\ exit' = exit
  BY DEF vars, data, sigVars, entries, httpVars
<1>2. Typed' /\ PostedOnce' /\ OnlyTheLast'
  <2>1. Typed'
    BY <1>1 DEF Inv, Typed, Queued
  <2> QED
    BY <1>1, <2>1, EntriesKept DEF Inv, sigVars, entries
<1>3. Early'
  BY <1>1 DEF Inv, Early, Queued, Waiting, Worker_at, Catching
<1>4. InCallback' /\ Destroyed' /\ Caught' /\ StatesOutlive'
  BY <1>1 DEF Inv, InCallback, Destroyed, Caught, StatesOutlive, Waiting, Worker_at, Catching
<1> QED
  BY <1>2, <1>3, <1>4 DEF Inv

(* The invariant is inductive.                                             *)
THEOREM Invariant == Spec => []Inv
<1>1. Inv /\ [Next]_vars => Inv'
  <2> SUFFICES ASSUME Inv, [Next]_vars PROVE Inv'
    OBVIOUS
  <2>1. CASE exit = "no" /\ Input
    <3>1. Before
      BY <2>1, LifecycleAssumption DEF Input, Before, Inv, Typed
    <3> QED
      BY <2>1, <3>1, HandleInv, PushInv DEF Input
  <2>3. ASSUME exit = "no", UNCHANGED inputs PROVE Before
    BY <2>3 DEF Before, Inv, Typed
  <2>4. CASE \E kind \in {"INT", "TERM"}, t \in Receivers : Running(Send(kind, t))
    BY <2>3, <2>4, SendInv DEF Running, Kinds
  <2>5. CASE \E n \in 1..MaxSignals : Running(Catch(n))
    <3>1. PICK n \in 1..MaxSignals : Running(Catch(n))
      BY <2>5
    <3>2. Before /\ n \in DOMAIN signals /\ (CatchPost(n) \/ CatchAssign(n))
      BY <2>3, <3>1 DEF Running, Catch
    <3> QED
      BY <3>2, CatchPostInv, CatchAssignInv
  <2>6. CASE Running(Worker)
    BY <2>3, <2>6, WorkerInv DEF Running
  <2>7. CASE Running(Asio)
    BY <2>3, <2>7, AsioInv DEF Running
  <2>8. CASE Running(Button)
    BY <2>3, <2>8, AssignPressInv DEF Running, Button
  <2>9. CASE Running(Http)
    BY <2>3, <2>9, HttpInv DEF Running
  <2>10. CASE Running(Waiter)
    BY <2>3, <2>10, WaiterStepInv DEF Running
  <2>11. CASE UNCHANGED vars
    BY <2>11, StutterInv
  <2> QED
    BY <2>1, <2>4, <2>5, <2>6, <2>7, <2>8, <2>9, <2>10, <2>11 DEF Next
<1> QED
  BY <1>1, InitInv, PTL DEF Spec

(* The variables have their types, and of the tasks of signals only the    *)
(* one that SignalHandler::_lifetime keeps remains, or one that is not     *)
(* there yet, as long as there is a handler.                               *)
THEOREM TypeCorrect == Spec => []TypeOK
<1>1. Inv => TypeOK
  <2> SUFFICES ASSUME Inv PROVE TypeOK
    OBVIOUS
  <2>1. DOMAIN pc = Threads /\ DOMAIN signals = 1..Len(signals) /\ Len(signals) \in Nat
    BY LenProperties DEF Inv, Typed
  <2>2. Queued \subseteq {Signal(n) : n \in DOMAIN signals} \union {Entry(e) : e \in Tasks}
    <3>1. Range(queue) \subseteq AnyEntry /\ Range(batch) \subseteq AnyEntry
      BY Members DEF Inv, Typed
    <3>2. \A n \in Nat : Signal(n) \in Queued => n \in DOMAIN signals
      BY <2>1 DEF Inv, Typed
    <3> QED
      BY <3>1, <3>2 DEF Queued, AnyEntry
  <2>3. \A n \in DOMAIN signals :
           Signal(n) \in Range(queue \o batch) =>
               n = lifetime \/ signals[n].at = "posted" \/ "handler" \notin alive
    <3>1. Range(queue \o batch) \subseteq Queued
      BY RangeConcatenation DEF Inv, Typed, Queued
    <3> QED
      BY <2>1, <3>1 DEF Inv, OnlyTheLast
  <2> QED
    BY <2>1, <2>2, <2>3 DEF Inv, Typed, TypeOK, Threads, Kinds, Tasks, Queued
<1> QED
  BY <1>1, Invariant, PTL

(* However the program ends, it has saved the states that have changed,    *)
(* with the exceptions of StatesOutlive: the order of the destructors that *)
(* SIGINT starts in main(), stack.reset() before interrupt.set_value().    *)
THEOREM NoChangeIsLost == Spec => []StatesOutlive
<1>1. Inv => StatesOutlive
  BY DEF Inv
<1> QED
  BY <1>1, Invariant, PTL
=============================================================================
