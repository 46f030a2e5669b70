-------------------------- MODULE HttpClientProofs --------------------------
(***************************************************************************)
(* Theorems about HttpClient for any number of requests, bodies, buffers   *)
(* and chunks of any size, and transfers that fail.                        *)
(***************************************************************************)
EXTENDS HttpClient, SequenceTheorems, TLAPS

(* The n bytes of a body after its first o.                                *)
Run(o, n) == [i \in 1..n |-> o + i]

Types ==
    /\ request \in [Requests -> {"unmade", "held", "aborted"}]
    /\ body \in [Requests -> [size : Nat, streamed : BOOLEAN]]
    /\ http \in {"idle", "perform"} /\ loop \in BOOLEAN
    /\ httpWork \in [Requests -> {"none", "new", "continue"}]
    /\ mainWork \in [Requests -> {"none", "refuse", "chunk", "final"}]
    /\ transfer \in [Requests -> Transfer]
    /\ buffer \in [Requests -> Buffer]
    /\ lease \in [Requests -> SUBSET {"chunk", "final"}]
    /\ answered \subseteq Requests
    /\ received \in [Requests -> Seq(Nat)]

(* Before a transfer begins, or if it never does.                          *)
Blank(r) ==
    /\ ~transfer[r].live /\ transfer[r].taken = 0 /\ transfer[r].held = 0
    /\ ~transfer[r].broken
    /\ buffer[r].offset = 0 /\ buffer[r].data = <<>> /\ buffer[r].skip = 0
    /\ ~buffer[r].processing
    /\ lease[r] = {}
    /\ received[r] = <<>>

Begins(r) ==
    /\ request[r] = "unmade" => Blank(r) /\ httpWork[r] = "none" /\ mainWork[r] = "none"
    /\ httpWork[r] = "new" => Blank(r) /\ mainWork[r] = "none"
    /\ mainWork[r] = "refuse" => Blank(r) /\ httpWork[r] = "none"

(* The buffer goes on where curl is, or as far into the chunk curl keeps   *)
(* as `skip` says.                                                         *)
Intact(r, b, t) ==
    /\ b.data = Run(b.offset, Len(b.data))
    /\ b.offset + Len(b.data) = t.taken + b.skip
    /\ body[r].streamed => Len(b.data) <= MaxBufferSize
    /\ t.taken <= body[r].size
    /\ t.held = 0 => b.skip = 0
    /\ t.held > 0 =>
          /\ body[r].streamed /\ ~t.broken
          /\ b.skip < t.held
          /\ Len(b.data) = MaxBufferSize
          /\ t.taken < body[r].size

Paused(r) == transfer[r].held > 0 /\ request[r] = "held" => transfer[r].live

(* A piece is in one place at a time: on its way to the main thread, with  *)
(* the receiver, or on its way back.                                       *)
OnePiece(r) ==
    /\ mainWork[r] = "chunk" => "chunk" \notin lease[r] /\ httpWork[r] # "continue"
    /\ "chunk" \in lease[r] => httpWork[r] # "continue"
    /\ mainWork[r] = "chunk" \/ "chunk" \in lease[r] \/ httpWork[r] = "continue" =>
          buffer[r].processing
    /\ mainWork[r] = "chunk" /\ request[r] = "held" => transfer[r].live
    /\ buffer[r].processing => body[r].streamed
    /\ buffer[r].processing /\ ~transfer[r].broken =>
          /\ transfer[r].taken < body[r].size
          /\ Len(buffer[r].data) = MaxBufferSize
          /\ request[r] = "held" => transfer[r].live

(* The last piece comes after all others, unless the transfer failed.      *)
Ends(r) ==
    mainWork[r] = "final" \/ "final" \in lease[r] =>
        ~transfer[r].live /\ (transfer[r].broken \/ ~buffer[r].processing)

(* The receiver has got what is in the buffer.                             *)
Delivered(r) ==
    \/ "chunk" \in lease[r] \/ httpWork[r] = "continue"
    \/ ~transfer[r].live /\ mainWork[r] = "none"

Reached(r) == buffer[r].offset + (IF Delivered(r) THEN Len(buffer[r].data) ELSE 0)

Got(r) ==
    /\ request[r] = "held" => Range(received[r]) = 1..Reached(r)
    /\ ~transfer[r].broken => received[r] = UpTo(Len(received[r]))

Sound(r) ==
    /\ Begins(r)
    /\ Intact(r, buffer[r], transfer[r])
    /\ Paused(r) /\ OnePiece(r) /\ Ends(r) /\ Got(r)

AllSound == \A r \in Requests : Sound(r)

-----------------------------------------------------------------------------
(* Sequences of consecutive bytes.                                         *)

(* A run is a sequence.                                                    *)
LEMMA RunIsSeq ==
    ASSUME NEW o \in Nat, NEW n \in Nat
    PROVE  /\ Run(o, n) \in Seq(Nat)
           /\ Len(Run(o, n)) = n
           /\ \A i \in 1..n : Run(o, n)[i] = o + i
<1>1. \A i \in 1..n : o + i \in Nat
  OBVIOUS
<1>2. Run(o, n) \in [1..n -> Nat]
  BY <1>1 DEF Run
<1>3. Run(o, n) \in Seq(Nat)
  BY <1>2, SeqDef
<1>4. DOMAIN Run(o, n) = 1..n
  BY DEF Run
<1>5. Len(Run(o, n)) = n
  BY <1>3, <1>4, LenProperties
<1>6. QED
  BY <1>3, <1>5 DEF Run

(* No bytes.                                                               *)
LEMMA RunEmpty == ASSUME NEW o \in Nat PROVE Run(o, 0) = <<>>
<1>1. Run(o, 0) \in Seq(Nat) /\ Len(Run(o, 0)) = 0
  BY RunIsSeq
<1>2. QED
  BY <1>1, EmptySeq

(* Nothing, in the ways it is written below.                               *)
LEMMA NoBytes ==
    /\ Len(<<>>) = 0 /\ Run(0, 0) = <<>> /\ UpTo(0) = <<>>
    /\ Range(<<>>) = {} /\ 1..0 = {}
<1>1. UpTo(0) = Run(0, 0)
  BY DEF UpTo, Run
<1>2. DOMAIN <<>> = {}
  OBVIOUS
<1>3. Range(<<>>) = {}
  BY <1>2 DEF Range
<1>4. QED
  BY <1>1, <1>3, RunEmpty

(* What follows a run goes on with it.                                     *)
LEMMA RunConcat ==
    ASSUME NEW o \in Nat, NEW n \in Nat, NEW m \in Nat
    PROVE  Run(o, n) \o Run(o + n, m) = Run(o, n + m)
<1> DEFINE a == Run(o, n)
           b == Run(o + n, m)
           c == Run(o, n + m)
           ab == a \o b
<1>1. a \in Seq(Nat) /\ Len(a) = n /\ \A i \in 1..n : a[i] = o + i
  BY RunIsSeq
<1>2. b \in Seq(Nat) /\ Len(b) = m /\ \A i \in 1..m : b[i] = o + n + i
  <2>1. o + n \in Nat
    OBVIOUS
  <2>2. QED
    BY <2>1, RunIsSeq
<1>3. c \in Seq(Nat) /\ Len(c) = n + m /\ \A i \in 1..n + m : c[i] = o + i
  BY RunIsSeq
<1> HIDE DEF a, b, c
<1>4. /\ a \o b \in Seq(Nat) /\ Len(a \o b) = n + m
      /\ \A i \in 1..n + m : (a \o b)[i] = IF i <= n THEN a[i] ELSE b[i - n]
  BY <1>1, <1>2, ConcatProperties
<1>5. ASSUME NEW i \in 1..n + m PROVE (a \o b)[i] = c[i]
  <2>1. CASE i <= n
    BY <2>1, <1>1, <1>3, <1>4
  <2>2. CASE i > n
    <3>1. i - n \in 1..m
      BY <2>2
    <3>2. b[i - n] = o + n + (i - n)
      BY <3>1, <1>2
    <3>3. (a \o b)[i] = b[i - n]
      BY <2>2, <1>4
    <3>4. c[i] = o + i
      BY <1>3
    <3>5. QED
      BY <3>2, <3>3, <3>4
  <2>3. i <= n \/ i > n
    OBVIOUS
  <2>4. QED
    BY <2>1, <2>2, <2>3
<1>6. a \o b = c
  <2>1. /\ ab \in Seq(Nat) /\ Len(ab) = Len(c)
        /\ \A i \in 1..Len(ab) : ab[i] = c[i]
    BY <1>3, <1>4, <1>5
  <2> HIDE DEF ab
  <2>2. ab = c
    BY <1>3, <2>1, SeqEqual
  <2>3. QED
    BY <2>2 DEF ab
<1>7. QED
  BY <1>6 DEF a, b, c

(* A part of a run.                                                        *)
LEMMA RunPart ==
    ASSUME NEW o \in Nat, NEW n \in Nat, NEW m \in 0..n, NEW k \in m..n
    PROVE  SubSeq(Run(o, n), m + 1, k) = Run(o + m, k - m)
<1> DEFINE a == Run(o, n)
           c == Run(o + m, k - m)
           s == SubSeq(a, m + 1, k)
<1>1. m \in Nat /\ k \in Nat /\ k - m \in Nat /\ m + 1 \in Int
  OBVIOUS
<1>2. a \in Seq(Nat) /\ Len(a) = n /\ \A i \in 1..n : a[i] = o + i
  BY RunIsSeq
<1>3. c \in Seq(Nat) /\ Len(c) = k - m /\ \A i \in 1..k - m : c[i] = o + m + i
  <2>1. o + m \in Nat
    BY <1>1
  <2>2. QED
    BY <1>1, <2>1, RunIsSeq
<1> HIDE DEF a, c
<1>4. \A i \in m + 1..k : a[i] \in Nat
  BY <1>1, <1>2
<1>5. /\ s \in Seq(Nat)
      /\ Len(s) = IF m + 1 <= k THEN k - (m + 1) + 1 ELSE 0
      /\ \A i \in 1..k - (m + 1) + 1 : s[i] = a[m + 1 + i - 1]
  BY <1>1, <1>4, SubSeqProperties
<1>6. Len(s) = k - m
  BY <1>5
<1>7. ASSUME NEW i \in 1..k - m PROVE s[i] = c[i]
  <2>1. i \in 1..k - (m + 1) + 1 /\ m + 1 + i - 1 = m + i /\ m + i \in 1..n
    BY <1>1
  <2>2. s[i] = a[m + i]
    BY <1>5, <2>1
  <2>3. QED
    BY <2>1, <2>2, <1>2, <1>3
<1> HIDE DEF s
<1>8. s = c
  BY <1>3, <1>5, <1>6, <1>7, SeqEqual
<1>9. QED
  BY <1>8 DEF a, c, s

(* The bytes in a run.                                                     *)
LEMMA RunRange ==
    ASSUME NEW o \in Nat, NEW n \in Nat
    PROVE  Range(Run(o, n)) = o + 1..o + n
<1>1. Range(Run(o, n)) = {o + i : i \in 1..n}
  BY DEF Run, Range
<1>2. \A x \in o + 1..o + n : x - o \in 1..n /\ x = o + (x - o)
  OBVIOUS
<1>3. \A i \in 1..n : o + i \in o + 1..o + n
  OBVIOUS
<1>4. QED
  BY <1>1, <1>2, <1>3

-----------------------------------------------------------------------------
(* onBytes() leaves an intact buffer intact, a full one as it is, and      *)
(* knows how far into the chunk it was.                                    *)
LEMMA StoredKeeps ==
    ASSUME NEW r \in Requests, body[r].size \in Nat,
           NEW b \in Buffer, NEW t \in Transfer,
           NEW k \in 1..ChunkMax, t.taken + k <= body[r].size,
           b.data = Run(b.offset, Len(b.data)),
           b.offset + Len(b.data) = t.taken + b.skip,
           b.skip = 0 \/ (b.data = <<>> /\ b.skip < k),
           body[r].streamed => Len(b.data) <= MaxBufferSize,
           ~t.broken,
           NEW s, s = Stored(r, b, t, k)
    PROVE  /\ s[1] \in Buffer /\ s[2] \in Transfer
           /\ Intact(r, s[1], s[2])
           /\ s[1].offset = b.offset /\ s[1].processing = b.processing
           /\ s[2].live = t.live /\ s[2].broken = t.broken
           /\ body[r].streamed /\ Len(b.data) = MaxBufferSize =>
                 s[1].data = b.data /\ s[2].taken = t.taken
<1> DEFINE n == Len(b.data)
           room == MaxBufferSize - n
           chunk == [i \in 1..k |-> t.taken + i]
<1>1. /\ MaxBufferSize \in Nat /\ MaxBufferSize > 0
      /\ ChunkMax \in Nat /\ ChunkMax <= MaxBufferSize
  BY HttpAssumption
<1>2. /\ b.offset \in Nat /\ b.data \in Seq(Nat) /\ b.skip \in Nat /\ b.processing \in BOOLEAN
      /\ b = [offset |-> b.offset, data |-> b.data, skip |-> b.skip,
              processing |-> b.processing]
  BY DEF Buffer
<1>3. /\ t.live \in BOOLEAN /\ t.taken \in Nat /\ t.held \in Nat /\ t.broken \in BOOLEAN
      /\ t = [live |-> t.live, taken |-> t.taken, held |-> t.held, broken |-> t.broken]
  BY DEF Transfer
<1>4. n \in Nat
  BY <1>2, LenProperties
<1>5. k \in Nat /\ k > 0 /\ k <= ChunkMax
  BY <1>1
<1>6. chunk = Run(t.taken, k)
  BY DEF Run
<1>7. CASE body[r].streamed /\ k > room
  <2>1. n <= MaxBufferSize /\ room \in Nat /\ room < k
    BY <1>1, <1>4, <1>7
  <2>2. b.skip = 0
    <3>1. CASE b.data = <<>>
      <4>1. n = 0
        BY <3>1
      <4>2. room = MaxBufferSize
        BY <4>1, <1>1
      <4>3. FALSE
        BY <4>2, <1>1, <1>5, <1>7
      <4>4. QED
        BY <4>3
    <3>2. QED
      BY <3>1
  <2>3. t.taken = b.offset + n
    BY <1>2, <1>3, <1>4, <2>2
  <2>4. SubSeq(chunk, 1, room) = Run(t.taken, room)
    <3>1. 0 \in 0..k /\ room \in 0..k
      BY <1>5, <2>1
    <3>2. SubSeq(Run(t.taken, k), 0 + 1, room) = Run(t.taken + 0, room - 0)
      BY <3>1, <1>3, <1>5, RunPart
    <3>3. 0 + 1 = 1 /\ t.taken + 0 = t.taken /\ room - 0 = room
      BY <1>3, <2>1
    <3>4. QED
      BY <3>2, <3>3, <1>6
  <2>5. b.data \o SubSeq(chunk, 1, room) = Run(b.offset, MaxBufferSize)
    <3>1. Run(b.offset, n) \o Run(b.offset + n, room) = Run(b.offset, n + room)
      BY <1>2, <1>4, <2>1, RunConcat
    <3>2. n + room = MaxBufferSize
      BY <1>1, <1>4
    <3>3. QED
      BY <3>1, <3>2, <2>3, <2>4
  <2>6. /\ s[1] = [offset |-> b.offset, data |-> Run(b.offset, MaxBufferSize), skip |-> room,
                   processing |-> b.processing]
        /\ s[2] = [live |-> t.live, taken |-> t.taken, held |-> k, broken |-> t.broken]
    BY <1>2, <1>3, <1>7, <2>5 DEF Stored
  <2>7. /\ Run(b.offset, MaxBufferSize) \in Seq(Nat)
        /\ Len(Run(b.offset, MaxBufferSize)) = MaxBufferSize
    BY <1>1, <1>2, RunIsSeq
  <2>8. s[1] \in Buffer /\ s[2] \in Transfer
    BY <2>1, <2>6, <2>7, <1>2, <1>3, <1>5 DEF Buffer, Transfer
  <2>9. Intact(r, s[1], s[2])
    <3>1. b.offset + MaxBufferSize = t.taken + room
      BY <1>1, <1>2, <1>4, <2>3
    <3>2. t.taken < body[r].size
      BY <1>3, <1>5
    <3>3. t.taken <= body[r].size /\ k > 0 /\ k # 0
      BY <1>3, <1>5, <3>2
    <3>4. MaxBufferSize <= MaxBufferSize
      BY <1>1
    <3>5. QED
      BY <2>6, <2>7, <2>1, <1>7, <3>1, <3>2, <3>3, <3>4 DEF Intact
  <2>10. n = MaxBufferSize => s[1].data = b.data
    BY <2>6
  <2>11. QED
    BY <2>6, <2>8, <2>9, <2>10
<1>8. CASE ~(body[r].streamed /\ k > room)
  <2>1. b.skip \in 0..k
    BY <1>2, <1>5
  <2>2. SubSeq(chunk, b.skip + 1, k) = Run(t.taken + b.skip, k - b.skip)
    <3>1. k \in b.skip..k
      BY <2>1, <1>5
    <3>2. SubSeq(Run(t.taken, k), b.skip + 1, k) = Run(t.taken + b.skip, k - b.skip)
      BY <2>1, <3>1, <1>3, <1>5, RunPart
    <3>3. QED
      BY <3>2, <1>6
  <2> DEFINE m == n + (k - b.skip)
  <2>3. k - b.skip \in Nat /\ m \in Nat
    BY <2>1, <1>4, <1>5
  <2>4. b.data \o SubSeq(chunk, b.skip + 1, k) = Run(b.offset, m)
    <3>1. Run(b.offset, n) \o Run(b.offset + n, k - b.skip) = Run(b.offset, m)
      BY <1>2, <1>4, <2>3, RunConcat
    <3>2. QED
      BY <3>1, <2>2
  <2> HIDE DEF m
  <2>5. /\ s[1] = [offset |-> b.offset, data |-> Run(b.offset, m), skip |-> 0,
                   processing |-> b.processing]
        /\ s[2] = [live |-> t.live, taken |-> t.taken + k, held |-> 0, broken |-> t.broken]
    BY <1>2, <1>3, <1>8, <2>4 DEF Stored
  <2>6. Run(b.offset, m) \in Seq(Nat) /\ Len(Run(b.offset, m)) = m
    BY <2>3, <1>2, RunIsSeq
  <2>7. t.taken + k \in Nat
    BY <1>3, <1>5
  <2>8. s[1] \in Buffer /\ s[2] \in Transfer
    BY <2>5, <2>6, <2>7, <1>2, <1>3 DEF Buffer, Transfer
  <2>9. b.offset + m = t.taken + k + 0
    BY <1>2, <1>3, <1>4, <1>5 DEF m
  <2>10. body[r].streamed => m <= MaxBufferSize
    <3>1. body[r].streamed => k <= room
      BY <1>8, <1>1, <1>4, <1>5
    <3>2. k <= room => n + k <= MaxBufferSize
      BY <1>1, <1>4, <1>5
    <3>3. m <= n + k
      BY <1>2, <1>4, <1>5 DEF m
    <3>4. QED
      BY <3>1, <3>2, <3>3, <1>1, <1>4, <1>5, <2>3
  <2>11. Intact(r, s[1], s[2])
    BY <2>5, <2>6, <2>9, <2>10 DEF Intact
  <2>12. ~(body[r].streamed /\ n = MaxBufferSize)
    <3>1. n = MaxBufferSize => room = 0
      BY <1>1
    <3>2. room = 0 => k > room
      BY <1>5
    <3>3. QED
      BY <3>1, <3>2, <1>8
  <2>13. QED
    BY <2>5, <2>8, <2>11, <2>12
<1>9. QED
  BY <1>7, <1>8

-----------------------------------------------------------------------------
(* The buffer after a piece was given back.                                *)
LEMMA EmptiedBuffer ==
    ASSUME NEW b \in Buffer, NEW e, e = Emptied(b)
    PROVE  e = [offset |-> b.offset + Len(b.data), data |-> <<>>, skip |-> b.skip,
                processing |-> FALSE]
BY DEF Emptied, Buffer

(* What continueRequest() makes of the buffer and the transfer.            *)
LEMMA ResumedKeeps ==
    ASSUME Types, NEW r \in Requests, Sound(r),
           request[r] = "held", httpWork[r] = "continue",
           NEW s \in Resumed(r)
    PROVE  /\ s[1] \in Buffer /\ s[2] \in Transfer
           /\ Intact(r, s[1], s[2])
           /\ s[1].offset = buffer[r].offset + Len(buffer[r].data)
           /\ ~s[1].processing
           /\ s[2].live = transfer[r].live /\ s[2].broken = transfer[r].broken
           /\ s[2].held = 0 \/ s[2].live
           /\ ~s[2].live => s[1].data = <<>>
<1> DEFINE b == buffer[r]
           t == transfer[r]
           e == Emptied(b)
<1>1. /\ b \in Buffer /\ b.offset \in Nat /\ b.data \in Seq(Nat) /\ b.skip \in Nat
      /\ Len(b.data) \in Nat
  BY LenProperties DEF Types, Buffer
<1>2. /\ t \in Transfer /\ t.live \in BOOLEAN /\ t.taken \in Nat /\ t.held \in Nat
      /\ t.broken \in BOOLEAN
  BY DEF Types, Transfer
<1>3. body[r].size \in Nat /\ body[r].streamed \in BOOLEAN
  BY DEF Types
<1>4. b.offset + Len(b.data) \in Nat
  BY <1>1
<1>5. e = [offset |-> b.offset + Len(b.data), data |-> <<>>, skip |-> b.skip,
           processing |-> FALSE]
  <2> HIDE DEF b, e
  <2>1. e = Emptied(b)
    BY DEF e
  <2>2. QED
    BY <1>1, <2>1, EmptiedBuffer
<1>6. e \in Buffer
  BY <1>1, <1>4, <1>5, EmptySeq DEF Buffer
<1>7. Intact(r, b, t) /\ Paused(r)
  BY DEF Sound
<1>8. /\ e.data = Run(e.offset, Len(e.data)) /\ Len(e.data) = 0
      /\ e.offset + Len(e.data) = t.taken + e.skip
      /\ Len(e.data) <= MaxBufferSize
  <2>1. Len(<<>>) = 0
    OBVIOUS
  <2>2. Run(b.offset + Len(b.data), 0) = <<>>
    BY <1>4, RunEmpty
  <2>3. MaxBufferSize \in Nat
    BY HttpAssumption
  <2>4. b.offset + Len(b.data) = t.taken + b.skip
    BY <1>7 DEF Intact
  <2>5. e.data = <<>> /\ e.skip = b.skip /\ e.offset = b.offset + Len(b.data)
    BY <1>5
  <2>6. e.offset + 0 = e.offset
    BY <1>4, <2>5
  <2>7. 0 <= MaxBufferSize
    BY <2>3
  <2> HIDE DEF e
  <2>8. QED
    BY <2>1, <2>2, <2>4, <2>5, <2>6, <2>7
<1>9. CASE t.live /\ t.held > 0
  <2>1. PICK k \in t.held..Least(ChunkMax, Rest(r)) : s = Stored(r, e, t, k)
    BY <1>9 DEF Resumed
  <2>2. body[r].size - t.taken \in Int /\ ChunkMax \in Nat
    BY <1>2, <1>3, HttpAssumption
  <2>3. k \in 1..ChunkMax /\ t.taken + k <= body[r].size
    BY <2>1, <2>2, <1>2, <1>3, <1>9 DEF Least, Rest
  <2>4. ~t.broken /\ b.skip < t.held
    BY <1>7, <1>9 DEF Intact
  <2>5. e.skip < k /\ e.data = <<>>
    BY <2>1, <2>2, <2>4, <1>1, <1>2, <1>5 DEF Least, Rest
  <2> HIDE DEF e
  <2>6. /\ s[1] \in Buffer /\ s[2] \in Transfer
        /\ Intact(r, s[1], s[2])
        /\ s[1].offset = e.offset /\ s[1].processing = e.processing
        /\ s[2].live = t.live /\ s[2].broken = t.broken
    BY <2>1, <2>3, <2>4, <2>5, <1>2, <1>3, <1>6, <1>8, StoredKeeps
  <2>7. QED
    BY <2>6, <1>5, <1>9
<1>10. CASE ~(t.live /\ t.held > 0)
  <2>1. s[1] = e /\ s[2] = t
    BY <1>10 DEF Resumed
  <2>2. t.held = 0
    BY <1>2, <1>7, <1>10 DEF Paused
  <2>3. b.skip = 0
    BY <1>7, <2>2 DEF Intact
  <2>4. Intact(r, e, t)
    BY <1>5, <1>7, <1>8, <2>2, <2>3 DEF Intact
  <2>5. QED
    BY <1>2, <1>5, <1>6, <2>1, <2>2, <2>4
<1>11. QED
  BY <1>9, <1>10

(* What curl's write callback makes of them when bytes arrive.             *)
LEMMA ReceivedKeeps ==
    ASSUME Types, NEW r \in Requests, Sound(r),
           transfer[r].live, ~transfer[r].broken, transfer[r].held = 0,
           NEW k \in 1..Least(ChunkMax, Rest(r)),
           NEW s, s = Stored(r, buffer[r], transfer[r], k)
    PROVE  /\ s[1] \in Buffer /\ s[2] \in Transfer
           /\ Intact(r, s[1], s[2])
           /\ s[1].offset = buffer[r].offset /\ s[1].processing = buffer[r].processing
           /\ s[2].live = transfer[r].live /\ s[2].broken = transfer[r].broken
           /\ body[r].streamed /\ Len(buffer[r].data) = MaxBufferSize =>
                 s[1].data = buffer[r].data /\ s[2].taken = transfer[r].taken
<1>1. buffer[r] \in Buffer /\ transfer[r] \in Transfer
  BY DEF Types
<1>2. transfer[r].taken \in Nat /\ body[r].size \in Nat
  BY DEF Types, Transfer
<1>3. Intact(r, buffer[r], transfer[r])
  BY DEF Sound
<1>4. body[r].size - transfer[r].taken \in Int /\ ChunkMax \in Nat
  BY <1>2, HttpAssumption
<1>5. k \in 1..ChunkMax /\ transfer[r].taken + k <= body[r].size
  BY <1>2, <1>4 DEF Least, Rest
<1>6. /\ buffer[r].data = Run(buffer[r].offset, Len(buffer[r].data))
      /\ buffer[r].offset + Len(buffer[r].data) = transfer[r].taken + buffer[r].skip
      /\ body[r].streamed => Len(buffer[r].data) <= MaxBufferSize
      /\ buffer[r].skip = 0
  BY <1>3 DEF Intact
<1> DEFINE b == buffer[r]
           t == transfer[r]
<1>7. /\ b \in Buffer /\ t \in Transfer /\ t.taken + k <= body[r].size
      /\ b.data = Run(b.offset, Len(b.data))
      /\ b.offset + Len(b.data) = t.taken + b.skip
      /\ b.skip = 0
      /\ body[r].streamed => Len(b.data) <= MaxBufferSize
      /\ ~t.broken
      /\ s = Stored(r, b, t, k)
  BY <1>1, <1>5, <1>6
<1> HIDE DEF b, t
<1>8. /\ s[1] \in Buffer /\ s[2] \in Transfer
      /\ Intact(r, s[1], s[2])
      /\ s[1].offset = b.offset /\ s[1].processing = b.processing
      /\ s[2].live = t.live /\ s[2].broken = t.broken
      /\ body[r].streamed /\ Len(b.data) = MaxBufferSize =>
            s[1].data = b.data /\ s[2].taken = t.taken
  BY <1>2, <1>5, <1>7, StoredKeeps
<1>9. QED
  BY <1>8 DEF b, t

-----------------------------------------------------------------------------
(* The types of the fields of one request.                                 *)
LEMMA Fields ==
    ASSUME Types, NEW r \in Requests
    PROVE  /\ request[r] \in {"unmade", "held", "aborted"}
           /\ httpWork[r] \in {"none", "new", "continue"}
           /\ mainWork[r] \in {"none", "refuse", "chunk", "final"}
           /\ body[r].size \in Nat /\ body[r].streamed \in BOOLEAN
           /\ transfer[r] \in Transfer /\ buffer[r] \in Buffer
           /\ transfer[r].live \in BOOLEAN /\ transfer[r].taken \in Nat
           /\ transfer[r].held \in Nat /\ transfer[r].broken \in BOOLEAN
           /\ buffer[r].offset \in Nat /\ buffer[r].data \in Seq(Nat)
           /\ Len(buffer[r].data) \in Nat
           /\ buffer[r].skip \in Nat /\ buffer[r].processing \in BOOLEAN
           /\ lease[r] \in SUBSET {"chunk", "final"}
           /\ received[r] \in Seq(Nat) /\ Len(received[r]) \in Nat
<1>1. transfer[r] \in Transfer /\ buffer[r] \in Buffer
  BY DEF Types
<1>2. /\ transfer[r].live \in BOOLEAN /\ transfer[r].taken \in Nat
      /\ transfer[r].held \in Nat /\ transfer[r].broken \in BOOLEAN
  BY <1>1 DEF Transfer
<1>3. /\ buffer[r].offset \in Nat /\ buffer[r].data \in Seq(Nat)
      /\ buffer[r].skip \in Nat /\ buffer[r].processing \in BOOLEAN
  BY <1>1 DEF Buffer
<1>4. received[r] \in Seq(Nat)
  BY DEF Types
<1>5. Len(buffer[r].data) \in Nat /\ Len(received[r]) \in Nat
  BY <1>3, <1>4, LenProperties
<1>6. QED
  BY <1>1, <1>2, <1>3, <1>4, <1>5 DEF Types

(* process() drops the transfers of requests that were dropped.            *)
LEMMA Entered ==
    ASSUME NEW t \in [Requests -> Transfer], EnterProcess(t)
    PROVE  /\ http' = "perform" /\ transfer' \in [Requests -> Transfer]
           /\ \A r \in Requests :
                 /\ transfer'[r].live = (t[r].live /\ ~Aborted(r))
                 /\ transfer'[r].taken = t[r].taken
                 /\ transfer'[r].held = t[r].held
                 /\ transfer'[r].broken = t[r].broken
<1>1. http' = "perform"
  BY DEF EnterProcess
<1>2. ASSUME NEW r \in Requests
      PROVE  /\ transfer'[r] \in Transfer
             /\ transfer'[r].live = (t[r].live /\ ~Aborted(r))
             /\ transfer'[r].taken = t[r].taken
             /\ transfer'[r].held = t[r].held
             /\ transfer'[r].broken = t[r].broken
  <2>1. transfer'[r] = [t[r] EXCEPT !.live = @ /\ ~Aborted(r)]
    BY DEF EnterProcess
  <2>2. t[r] \in Transfer
    OBVIOUS
  <2> DEFINE v == t[r]
             a == ~Aborted(r)
             w == transfer'[r]
  <2>3. a \in BOOLEAN
    BY DEF Aborted
  <2>4. v \in Transfer /\ w = [v EXCEPT !.live = @ /\ a]
    BY <2>1, <2>2
  <2> HIDE DEF v, w, a
  <2>5. w \in Transfer /\ w.live = (v.live /\ a) /\ w.taken = v.taken /\ w.held = v.held
        /\ w.broken = v.broken
    BY <2>3, <2>4 DEF Transfer
  <2>6. QED
    BY <2>5 DEF v, w, a
<1>3. \E f : transfer' = [r \in Requests |-> f[r]]
  <2>1. transfer' = [r \in Requests |-> transfer'[r]]
    BY DEF EnterProcess
  <2>2. QED
    BY <2>1
<1>4. transfer' \in [Requests -> Transfer]
  BY <1>2, <1>3
<1>5. QED
  BY <1>1, <1>2, <1>4

(* What the end of process() does to a request.                            *)
LEMMA Left ==
    ASSUME Types, NEW full, Leave(full)
    PROVE  /\ http' = "idle"
           /\ transfer' \in [Requests -> Transfer] /\ buffer' \in [Requests -> Buffer]
           /\ mainWork' \in [Requests -> {"none", "refuse", "chunk", "final"}]
           /\ \A r \in Requests :
                 /\ transfer'[r].live = (transfer[r].live /\ ~Over(r))
                 /\ transfer'[r].taken = transfer[r].taken
                 /\ transfer'[r].held = transfer[r].held
                 /\ transfer'[r].broken = transfer[r].broken
                 /\ buffer'[r].offset = buffer[r].offset
                 /\ buffer'[r].data = buffer[r].data
                 /\ buffer'[r].skip = buffer[r].skip
                 /\ buffer'[r].processing = (buffer[r].processing \/ r \in full)
                 /\ mainWork'[r] = IF Over(r) THEN "final"
                                   ELSE IF r \in full THEN "chunk" ELSE mainWork[r]
<1>1. ASSUME NEW r \in Requests
      PROVE  /\ transfer'[r] \in Transfer
             /\ transfer'[r].live = (transfer[r].live /\ ~Over(r))
             /\ transfer'[r].taken = transfer[r].taken
             /\ transfer'[r].held = transfer[r].held
             /\ transfer'[r].broken = transfer[r].broken
  <2> DEFINE v == transfer[r]
             a == ~Over(r)
             w == transfer'[r]
  <2>1. v \in Transfer /\ a \in BOOLEAN
    BY DEF Types, Over
  <2>2. w = [v EXCEPT !.live = @ /\ a]
    BY DEF Leave
  <2> HIDE DEF v, w, a
  <2>3. /\ w \in Transfer /\ w.live = (v.live /\ a) /\ w.taken = v.taken /\ w.held = v.held
        /\ w.broken = v.broken
    BY <2>1, <2>2 DEF Transfer
  <2>4. QED
    BY <2>3 DEF v, w, a
<1>2. ASSUME NEW r \in Requests
      PROVE  /\ buffer'[r] \in Buffer
             /\ buffer'[r].offset = buffer[r].offset
             /\ buffer'[r].data = buffer[r].data
             /\ buffer'[r].skip = buffer[r].skip
             /\ buffer'[r].processing = (buffer[r].processing \/ r \in full)
  <2> DEFINE v == buffer[r]
             a == r \in full
             w == buffer'[r]
  <2>1. v \in Buffer /\ a \in BOOLEAN
    BY DEF Types
  <2>2. w = [v EXCEPT !.processing = @ \/ a]
    BY DEF Leave
  <2> HIDE DEF v, w, a
  <2>3. /\ w \in Buffer /\ w.processing = (v.processing \/ a) /\ w.offset = v.offset
        /\ w.data = v.data /\ w.skip = v.skip
    BY <2>1, <2>2 DEF Buffer
  <2>4. QED
    BY <2>3 DEF v, w, a
<1>3. ASSUME NEW r \in Requests
      PROVE  /\ mainWork'[r] = IF Over(r) THEN "final"
                               ELSE IF r \in full THEN "chunk" ELSE mainWork[r]
             /\ mainWork'[r] \in {"none", "refuse", "chunk", "final"}
  BY DEF Leave, Types
<1>4. /\ transfer' = [r \in Requests |-> transfer'[r]]
      /\ buffer' = [r \in Requests |-> buffer'[r]]
      /\ mainWork' = [r \in Requests |-> mainWork'[r]]
  BY DEF Leave
<1>5. /\ transfer' \in [Requests -> Transfer] /\ buffer' \in [Requests -> Buffer]
      /\ mainWork' \in [Requests -> {"none", "refuse", "chunk", "final"}]
  BY <1>1, <1>2, <1>3, <1>4
<1>6. QED
  BY <1>1, <1>2, <1>3, <1>5 DEF Leave

-----------------------------------------------------------------------------
(* A request of which nothing changes, but that its transfer is dropped if *)
(* the request was.                                                        *)
Same(r) ==
    /\ request'[r] = request[r] /\ body'[r] = body[r]
    /\ httpWork'[r] = httpWork[r] /\ mainWork'[r] = mainWork[r]
    /\ buffer'[r] = buffer[r] /\ lease'[r] = lease[r] /\ received'[r] = received[r]
    /\ transfer'[r].taken = transfer[r].taken
    /\ transfer'[r].held = transfer[r].held
    /\ transfer'[r].broken = transfer[r].broken
    /\ \/ transfer'[r].live = transfer[r].live
       \/ request[r] # "held" /\ ~transfer'[r].live

(* Such a request stays as it should be.                                   *)
LEMMA Unmoved ==
    ASSUME Types, NEW r \in Requests, Sound(r), Same(r), transfer'[r].live \in BOOLEAN
    PROVE  Sound(r)'
<1> USE Fields DEF Same
<1>1. Begins(r)'
  BY DEF Sound, Begins, Blank
<1>2. Intact(r, buffer[r], transfer[r])'
  BY DEF Sound, Intact
<1>3. Paused(r)'
  BY DEF Sound, Paused
<1>4. OnePiece(r)'
  BY DEF Sound, OnePiece
<1>5. Ends(r)'
  BY DEF Sound, Ends
<1>6. Got(r)'
  <2>1. Got(r)
    BY DEF Sound
  <2>2. request[r] = "held" => Reached(r)' = Reached(r)
    BY DEF Reached, Delivered
  <2>3. QED
    BY <2>1, <2>2 DEF Got
<1>7. QED
  BY <1>1, <1>2, <1>3, <1>4, <1>5, <1>6 DEF Sound

-----------------------------------------------------------------------------
(* Http::Http()                                                            *)
LEMMA InitSound == Init => Types /\ AllSound
<1> SUFFICES ASSUME Init PROVE Types /\ AllSound
  OBVIOUS
<1>1. Types
  <2>1. <<>> \in Seq(Nat)
    BY EmptySeq
  <2>2. transfer \in [Requests -> Transfer]
    BY DEF Init, Transfer
  <2>3. buffer \in [Requests -> Buffer]
    BY <2>1 DEF Init, Buffer
  <2>4. received \in [Requests -> Seq(Nat)]
    BY <2>1 DEF Init
  <2>5. QED
    BY <2>2, <2>3, <2>4 DEF Init, Types
<1>2. ASSUME NEW r \in Requests PROVE Sound(r)
  <2>1. Blank(r) /\ body[r].size = 0 /\ body[r].streamed = FALSE
    BY DEF Init, Blank
  <2>2. mainWork[r] = "none" /\ httpWork[r] = "none" /\ lease[r] = {}
    BY DEF Init
  <2>3. Begins(r) /\ Paused(r) /\ OnePiece(r) /\ Ends(r)
    BY <2>1, <2>2 DEF Begins, Paused, OnePiece, Ends, Blank
  <2>4. Intact(r, buffer[r], transfer[r])
    BY <2>1, NoBytes DEF Intact, Blank
  <2>5. Reached(r) = 0
    BY <2>1, NoBytes DEF Reached, Blank
  <2>6. Got(r)
    BY <2>1, <2>5, NoBytes DEF Got, Blank
  <2>7. QED
    BY <2>3, <2>4, <2>6 DEF Sound
<1>3. QED
  BY <1>1, <1>2 DEF AllSound

(* Http::request()                                                         *)
LEMMA RequestSound ==
    ASSUME Types, AllSound, NEW r \in Requests, Request(r)
    PROVE  Types' /\ AllSound'
<1>1. PICK n \in Sizes, s \in BOOLEAN :
         /\ s => n >= MaxBufferSize
         /\ body' = [body EXCEPT ![r] = [size |-> n, streamed |-> s]]
  BY DEF Request
<1>2. n \in Nat
  BY HttpAssumption
<1>3. Types'
  <2>1. body' \in [Requests -> [size : Nat, streamed : BOOLEAN]]
    BY <1>1, <1>2 DEF Types
  <2>2. QED
    BY <2>1 DEF Request, Types
<1>4. ASSUME NEW q \in Requests PROVE Sound(q)'
  <2>1. Sound(q)
    BY DEF AllSound
  <2>2. CASE q # r
    <3>1. Same(q) /\ transfer'[q].live \in BOOLEAN
      BY <1>1, <2>2, Fields DEF Request, Types, Same
    <3>2. QED
      BY <2>1, <3>1, Unmoved
  <2>3. CASE q = r
    <3>1. Blank(q) /\ httpWork[q] = "none" /\ mainWork[q] = "none"
      BY <2>1, <2>3 DEF Request, Sound, Begins
    <3>2. /\ request'[q] = "held" /\ httpWork'[q] = "new" /\ mainWork'[q] = "none"
          /\ transfer' = transfer /\ buffer' = buffer /\ lease' = lease
          /\ received' = received
          /\ body'[q].size = n
      BY <1>1, <2>3, <3>1 DEF Request, Types
    <3>3. Blank(q)'
      BY <3>1, <3>2 DEF Blank
    <3>4. Begins(q)' /\ Paused(q)' /\ OnePiece(q)' /\ Ends(q)'
      BY <3>2, <3>3, Fields DEF Begins, Paused, OnePiece, Ends, Blank
    <3>5. Intact(q, buffer[q], transfer[q])'
      <4>1. Len(<<>>) = 0 /\ 0 <= MaxBufferSize /\ 0 <= n
        BY <1>2, HttpAssumption
      <4>2. Intact(q, buffer[q], transfer[q])
        BY <2>1 DEF Sound
      <4>3. QED
        BY <3>1, <3>2, <4>1, <4>2 DEF Blank, Intact
    <3>6. Got(q)'
      <4>1. Reached(q)' = 0
        BY <3>3, NoBytes DEF Reached, Blank
      <4>2. QED
        BY <3>3, <4>1, NoBytes DEF Got, Blank
    <3>7. QED
      BY <3>4, <3>5, <3>6 DEF Sound
  <2>4. QED
    BY <2>2, <2>3
<1>5. QED
  BY <1>3, <1>4 DEF AllSound

(* ~RequestHandle()                                                        *)
LEMMA AbortSound ==
    ASSUME Types, AllSound, NEW r \in Requests, Abort(r)
    PROVE  Types' /\ AllSound'
<1>1. Types'
  BY DEF Abort, Types
<1>2. ASSUME NEW q \in Requests PROVE Sound(q)'
  <2>1. Sound(q)
    BY DEF AllSound
  <2>2. CASE q # r
    <3>1. Same(q) /\ transfer'[q].live \in BOOLEAN
      BY <2>2, Fields DEF Abort, Types, Same
    <3>2. QED
      BY <2>1, <3>1, Unmoved
  <2>3. CASE q = r
    <3>1. request[q] = "held" /\ request'[q] = "aborted"
      BY <2>3 DEF Abort, Types
    <3>2. /\ Begins(q)' /\ Paused(q)' /\ OnePiece(q)' /\ Ends(q)'
          /\ Intact(q, buffer[q], transfer[q])' /\ Got(q)'
      BY <2>1, <3>1
         DEF Abort, Sound, Begins, Blank, Paused, OnePiece, Ends, Intact, Got
    <3>3. QED
      BY <3>2 DEF Sound
  <2>4. QED
    BY <2>2, <2>3
<1>3. QED
  BY <1>1, <1>2 DEF AllSound

(* ~BufferHandle() of a piece that is not the last.                        *)
LEMMA ReleaseChunkSound ==
    ASSUME Types, AllSound, NEW r \in Requests, ReleaseChunk(r)
    PROVE  Types' /\ AllSound'
<1>1. Types'
  BY DEF ReleaseChunk, Types
<1>2. ASSUME NEW q \in Requests PROVE Sound(q)'
  <2>1. Sound(q)
    BY DEF AllSound
  <2>2. CASE q # r
    <3>1. Same(q) /\ transfer'[q].live \in BOOLEAN
      BY <2>2, Fields DEF ReleaseChunk, Types, Same
    <3>2. QED
      BY <2>1, <3>1, Unmoved
  <2>3. CASE q = r
    <3>1. /\ "chunk" \in lease[q] /\ lease'[q] = lease[q] \ {"chunk"}
          /\ httpWork'[q] = "continue"
          /\ UNCHANGED <<request, body, mainWork, transfer, buffer, received>>
      BY <2>3 DEF ReleaseChunk, Types
    <3>2. Begins(q)'
      BY <2>1, <3>1 DEF Sound, Begins, Blank
    <3>3. Paused(q)' /\ OnePiece(q)' /\ Ends(q)' /\ Intact(q, buffer[q], transfer[q])'
      BY <2>1, <3>1 DEF Sound, Paused, OnePiece, Ends, Intact
    <3>4. Got(q)'
      <4>1. Reached(q)' = Reached(q)
        BY <3>1 DEF Reached, Delivered
      <4>2. QED
        BY <2>1, <3>1, <4>1 DEF Sound, Got
    <3>5. QED
      BY <3>2, <3>3, <3>4 DEF Sound
  <2>4. QED
    BY <2>2, <2>3
<1>3. QED
  BY <1>1, <1>2 DEF AllSound

(* ~BufferHandle() of the last one.                                        *)
LEMMA ReleaseFinalSound ==
    ASSUME Types, AllSound, NEW r \in Requests, ReleaseFinal(r)
    PROVE  Types' /\ AllSound'
<1>1. Types'
  BY DEF ReleaseFinal, Types
<1>2. ASSUME NEW q \in Requests PROVE Sound(q)'
  <2>1. Sound(q)
    BY DEF AllSound
  <2>2. CASE q # r
    <3>1. Same(q) /\ transfer'[q].live \in BOOLEAN
      BY <2>2, Fields DEF ReleaseFinal, Types, Same
    <3>2. QED
      BY <2>1, <3>1, Unmoved
  <2>3. CASE q = r
    <3>1. /\ "final" \in lease[q] /\ lease'[q] = lease[q] \ {"final"}
          /\ UNCHANGED <<request, body, httpWork, mainWork, transfer, buffer, received>>
      BY <2>3 DEF ReleaseFinal, Types
    <3>2. Begins(q)'
      BY <2>1, <3>1 DEF Sound, Begins, Blank
    <3>3. Paused(q)' /\ OnePiece(q)' /\ Ends(q)' /\ Intact(q, buffer[q], transfer[q])'
      BY <2>1, <3>1 DEF Sound, Paused, OnePiece, Ends, Intact
    <3>4. Got(q)'
      <4>1. Reached(q)' = Reached(q)
        BY <3>1 DEF Reached, Delivered
      <4>2. QED
        BY <2>1, <3>1, <4>1 DEF Sound, Got
    <3>5. QED
      BY <3>2, <3>3, <3>4 DEF Sound
  <2>4. QED
    BY <2>2, <2>3
<1>3. QED
  BY <1>1, <1>2 DEF AllSound

(* A transfer fails.                                                       *)
LEMMA BreakSound ==
    ASSUME Types, AllSound, NEW r \in Requests, Break(r)
    PROVE  Types' /\ AllSound'
<1>1. /\ transfer' = [transfer EXCEPT ![r].broken = TRUE]
      /\ transfer[r].live /\ transfer[r].held = 0
      /\ UNCHANGED <<request, body, http, loop, httpWork, mainWork, buffer, lease, answered,
                     received>>
  BY DEF Break
<1>2. /\ transfer'[r] \in Transfer /\ transfer'[r].live = transfer[r].live
      /\ transfer'[r].taken = transfer[r].taken /\ transfer'[r].held = transfer[r].held
      /\ transfer'[r].broken
  <2> DEFINE v == transfer[r]
             w == transfer'[r]
  <2>1. v \in Transfer /\ w = [v EXCEPT !.broken = TRUE]
    BY <1>1 DEF Types
  <2> HIDE DEF v, w
  <2>2. /\ w \in Transfer /\ w.live = v.live /\ w.taken = v.taken /\ w.held = v.held
        /\ w.broken
    BY <2>1 DEF Transfer
  <2>3. QED
    BY <2>2 DEF v, w
<1>3. \A q \in Requests \ {r} : transfer'[q] = transfer[q]
  BY <1>1 DEF Types
<1>4. Types'
  <2>1. transfer' \in [Requests -> Transfer]
    BY <1>1, <1>2, <1>3 DEF Types
  <2>2. QED
    BY <2>1, <1>1 DEF Types
<1>5. ASSUME NEW q \in Requests PROVE Sound(q)'
  <2>1. Sound(q)
    BY DEF AllSound
  <2>2. CASE q # r
    <3>1. Same(q) /\ transfer'[q].live \in BOOLEAN
      BY <1>1, <1>3, <2>2, Fields DEF Same
    <3>2. QED
      BY <2>1, <3>1, Unmoved
  <2>3. CASE q = r
    <3>1. Begins(q)' /\ Paused(q)' /\ OnePiece(q)' /\ Ends(q)'
      BY <1>1, <1>2, <2>1, <2>3 DEF Sound, Begins, Blank, Paused, OnePiece, Ends
    <3>2. Intact(q, buffer[q], transfer[q])'
      <4>1. ~(transfer'[q].held > 0)
        BY <1>1, <1>2, <2>3
      <4>2. QED
        BY <1>1, <1>2, <2>1, <2>3, <4>1 DEF Sound, Intact
    <3>3. Got(q)'
      <4>1. Reached(q)' = Reached(q)
        BY <1>1, <1>2, <2>3 DEF Reached, Delivered
      <4>2. QED
        BY <1>1, <1>2, <2>1, <2>3, <4>1 DEF Sound, Got
    <3>4. QED
      BY <3>1, <3>2, <3>3 DEF Sound
  <2>4. QED
    BY <2>2, <2>3
<1>6. QED
  BY <1>4, <1>5 DEF AllSound

-----------------------------------------------------------------------------
(* A receiver that has got the bytes before a piece, and the piece.        *)
LEMMA PieceReceived ==
    ASSUME NEW o \in Nat, NEW n \in Nat, NEW s \in Seq(Nat),
           Range(s) = 1..o \/ Range(s) = 1..o + n
    PROVE  /\ Range(s \o Run(o, n)) = 1..o + n
           /\ Range(s) = 1..o /\ s = UpTo(Len(s)) =>
                 s \o Run(o, n) = UpTo(Len(s \o Run(o, n)))
<1> DEFINE d == Run(o, n)
<1>1. d \in Seq(Nat) /\ Len(d) = n /\ Range(d) = o + 1..o + n
  BY RunIsSeq, RunRange
<1>2. s \o d \in Seq(Nat) /\ Len(s \o d) = Len(s) + n
  BY <1>1, ConcatProperties
<1>3. Range(s \o d) = Range(s) \union (o + 1..o + n)
  BY <1>1, RangeConcatenation
<1>4. (1..o) \union (o + 1..o + n) = 1..o + n
  OBVIOUS
<1>5. (1..o + n) \union (o + 1..o + n) = 1..o + n
  OBVIOUS
<1>6. Range(s \o d) = 1..o + n
  BY <1>3, <1>4, <1>5
<1>7. ASSUME Range(s) = 1..o, s = UpTo(Len(s)) PROVE s \o d = UpTo(Len(s \o d))
  <2>1. Len(s) \in Nat
    BY LenProperties
  <2>2. \A m \in Nat : UpTo(m) = Run(0, m)
    BY DEF UpTo, Run
  <2>3. Range(s) = 0 + 1..0 + Len(s)
    BY <1>7, <2>1, <2>2, RunRange
  <2>4. 1..Len(s) = 1..o
    BY <1>7, <2>1, <2>3
  <2>5. Len(s) = o
    <3>1. CASE Len(s) > o
      BY <2>1, <2>4, <3>1
    <3>2. CASE Len(s) < o
      BY <2>1, <2>4, <3>2
    <3>3. QED
      BY <2>1, <3>1, <3>2
  <2>6. s = Run(0, o) /\ d = Run(0 + o, n)
    BY <1>7, <2>2, <2>5
  <2>7. Run(0, o) \o Run(0 + o, n) = Run(0, o + n)
    BY RunConcat
  <2>8. QED
    BY <1>2, <2>2, <2>5, <2>6, <2>7
<1>8. QED
  BY <1>2, <1>6, <1>7

(* triggerCallbacks()                                                      *)
LEMMA TriggerCallbacksSound ==
    ASSUME Types, AllSound, NEW r \in Requests, TriggerCallbacks(r)
    PROVE  Types' /\ AllSound'
<1> DEFINE o == buffer[r].offset
           d == buffer[r].data
           n == Len(d)
<1>1. /\ mainWork[r] # "none"
      /\ mainWork' = [mainWork EXCEPT ![r] = "none"]
      /\ UNCHANGED <<body, http, loop, httpWork, transfer, buffer>>
  BY DEF TriggerCallbacks
<1>2. Sound(r)
  BY DEF AllSound
<1>3. /\ o \in Nat /\ d \in Seq(Nat) /\ n \in Nat /\ d = Run(o, n)
      /\ received[r] \in Seq(Nat)
  BY <1>2, Fields DEF Sound, Intact
<1>4. \/ request' = request
      \/ request' = [request EXCEPT ![r] = "aborted"]
  BY DEF TriggerCallbacks
<1>5. answered' \subseteq Requests
  BY DEF TriggerCallbacks, Types
<1>6. \/ received' = received
      \/ received' = [received EXCEPT ![r] = @ \o d]
  BY DEF TriggerCallbacks
<1>7. \/ lease' = lease
      \/ /\ lease' = [lease EXCEPT ![r] = @ \union {mainWork[r]}]
         /\ HasBytes(r)
  BY DEF TriggerCallbacks
<1>8. HasBytes(r) => mainWork[r] \in {"chunk", "final"}
  BY DEF HasBytes
<1>9. Types'
  <2>1. received[r] \o d \in Seq(Nat)
    BY <1>3, ConcatProperties
  <2>2. received' \in [Requests -> Seq(Nat)]
    BY <1>6, <2>1 DEF Types
  <2>3. lease' \in [Requests -> SUBSET {"chunk", "final"}]
    <3>1. CASE lease' = lease
      BY <3>1 DEF Types
    <3>2. CASE lease' # lease
      <4>1. lease[r] \union {mainWork[r]} \in SUBSET {"chunk", "final"}
        BY <1>7, <1>8, <3>2 DEF Types
      <4>2. QED
        BY <1>7, <3>2, <4>1 DEF Types
    <3>3. QED
      BY <3>1, <3>2
  <2>4. request' \in [Requests -> {"unmade", "held", "aborted"}]
    BY <1>4 DEF Types
  <2>5. QED
    BY <1>1, <1>5, <2>2, <2>3, <2>4 DEF Types
<1>10. ASSUME NEW q \in Requests, q # r PROVE Sound(q)'
  <2>1. /\ request'[q] = request[q] /\ received'[q] = received[q]
        /\ lease'[q] = lease[q] /\ mainWork'[q] = mainWork[q]
    <3>1. request'[q] = request[q]
      BY <1>4, <1>10 DEF Types
    <3>2. received'[q] = received[q]
      BY <1>6, <1>10 DEF Types
    <3>3. lease'[q] = lease[q]
      BY <1>7, <1>10 DEF Types
    <3>4. mainWork'[q] = mainWork[q]
      BY <1>1, <1>10 DEF Types
    <3>5. QED
      BY <3>1, <3>2, <3>3, <3>4
  <2>2. Same(q) /\ transfer'[q].live \in BOOLEAN
    BY <1>1, <2>1, Fields DEF Same
  <2>3. Sound(q)
    BY DEF AllSound
  <2>4. QED
    BY <2>2, <2>3, Unmoved
<1>11. mainWork'[r] = "none"
  BY <1>1 DEF Types
<1>12. Begins(r)'
  BY <1>1, <1>2, <1>4, <1>6, <1>7, <1>11 DEF Sound, Begins, Types
<1>13. Intact(r, buffer[r], transfer[r])'
  BY <1>1, <1>2 DEF Sound, Intact
<1>14. request'[r] = "held" => request[r] = "held"
  BY <1>4 DEF Types
<1>15. Paused(r)'
  BY <1>1, <1>2, <1>14 DEF Sound, Paused
<1>16. lease'[r] = lease[r] \/ lease'[r] = lease[r] \union {mainWork[r]}
  BY <1>7 DEF Types
<1>17. OnePiece(r)'
  BY <1>1, <1>2, <1>11, <1>14, <1>16 DEF Sound, OnePiece
<1>18. Ends(r)'
  BY <1>1, <1>2, <1>11, <1>16 DEF Sound, Ends
<1>19. /\ received[r] \o d = received[r] => d = <<>>
       /\ Range(received[r]) = 1..o \/ Range(received[r]) = 1..o + n =>
             Range(received[r] \o d) = 1..o + n
       /\ Range(received[r]) = 1..o /\ received[r] = UpTo(Len(received[r])) =>
             received[r] \o d = UpTo(Len(received[r] \o d))
  <2> DEFINE v == received[r]
  <2>1. v \in Seq(Nat)
    BY <1>3
  <2> HIDE DEF v, o, d, n
  <2>2. v \o d = v => d = <<>>
    BY <1>3, <2>1, ConcatEqualIffEmpty
  <2>3. Range(v) = 1..o \/ Range(v) = 1..o + n =>
           /\ Range(v \o d) = 1..o + n
           /\ Range(v) = 1..o /\ v = UpTo(Len(v)) => v \o d = UpTo(Len(v \o d))
    <3> SUFFICES ASSUME Range(v) = 1..o \/ Range(v) = 1..o + n
                 PROVE  /\ Range(v \o d) = 1..o + n
                        /\ Range(v) = 1..o /\ v = UpTo(Len(v)) =>
                              v \o d = UpTo(Len(v \o d))
      OBVIOUS
    <3>1. o \in Nat /\ n \in Nat /\ d = Run(o, n)
      BY <1>3
    <3>2. /\ Range(v \o Run(o, n)) = 1..o + n
          /\ Range(v) = 1..o /\ v = UpTo(Len(v)) =>
                v \o Run(o, n) = UpTo(Len(v \o Run(o, n)))
      BY <2>1, <3>1, PieceReceived
    <3>3. QED
      BY <3>1, <3>2
  <2>4. QED
    BY <2>2, <2>3 DEF v
<1>20. Got(r)'
  <2>1. ASSUME request[r] # "aborted", mainWork[r] = "chunk" PROVE Got(r)'
    <3>1. /\ "chunk" \notin lease[r] /\ httpWork[r] # "continue"
          /\ body[r].streamed
          /\ request[r] = "held" /\ transfer[r].live
      BY <1>2, <2>1, Fields DEF Sound, Begins, OnePiece
    <3>2. Reached(r) = o
      BY <1>3, <2>1, <3>1 DEF Reached, Delivered
    <3>3. Range(received[r]) = 1..o
      BY <1>2, <3>1, <3>2 DEF Sound, Got
    <3>4. CASE request'[r] = "held"
      <4>1. received'[r] = received[r] \o d /\ "chunk" \in lease'[r]
        BY <2>1, <3>1, <3>4
           DEF TriggerCallbacks, HasBytes, StillHeld, Aborted, Types
      <4>2. Reached(r)' = o + n
        BY <1>1, <4>1 DEF Reached, Delivered
      <4>3. QED
        BY <1>1, <1>2, <1>19, <3>3, <4>1, <4>2 DEF Sound, Got
    <3>5. CASE request'[r] # "held"
      <4>1. received'[r] = received[r]
        BY <2>1, <3>1, <3>5
           DEF TriggerCallbacks, HasBytes, HasBody, StillHeld, Aborted, Types
      <4>2. QED
        BY <1>1, <1>2, <3>5, <4>1 DEF Sound, Got
    <3>6. QED
      BY <3>4, <3>5
  <2>2. ASSUME request[r] # "aborted", mainWork[r] = "refuse" PROVE Got(r)'
    <3>1. Blank(r)
      BY <1>2, <2>2 DEF Sound, Begins
    <3>2. received'[r] = received[r]
      BY <2>2 DEF TriggerCallbacks, HasBytes, HasBody, Types
    <3>3. Reached(r)' = 0
      BY <1>1, <3>1, NoBytes DEF Reached, Blank
    <3>4. QED
      BY <3>1, <3>2, <3>3, NoBytes DEF Got, Blank
  <2>3. ASSUME request[r] # "aborted", mainWork[r] = "final" PROVE Got(r)'
    <3>1. /\ request[r] = "held" /\ ~transfer[r].live
          /\ transfer[r].broken \/ ~buffer[r].processing
      BY <1>2, <2>3, Fields DEF Sound, Begins, Ends
    <3>2. Reached(r)' = o + n
      BY <1>1, <1>11, <3>1 DEF Reached, Delivered
    <3>3. Reached(r) = o \/ Reached(r) = o + n
      BY <1>3 DEF Reached
    <3>4. Range(received[r]) = 1..o \/ Range(received[r]) = 1..o + n
      BY <1>2, <3>1, <3>3 DEF Sound, Got
    <3>5. ~transfer[r].broken => Range(received[r]) = 1..o
      <4>1. ~transfer[r].broken => ~Delivered(r)
        BY <1>2, <2>3, <3>1 DEF Delivered, Sound, OnePiece
      <4>2. ~transfer[r].broken => Reached(r) = o
        BY <1>3, <4>1 DEF Reached
      <4>3. QED
        BY <1>2, <3>1, <4>2 DEF Sound, Got
    <3>6. CASE received'[r] = received[r] \o d
      BY <1>1, <1>2, <1>19, <3>2, <3>4, <3>5, <3>6 DEF Sound, Got
    <3>7. CASE received'[r] = received[r]
      <4>1. request'[r] # "held" \/ d = <<>>
        <5>1. CASE body[r].streamed /\ d # <<>> /\ request'[r] = "held"
          <6>1. received'[r] = received[r] \o d
            BY <2>3, <3>1, <5>1
               DEF TriggerCallbacks, HasBytes, StillHeld, Aborted, Types
          <6>2. d = <<>>
            BY <1>19, <3>7, <6>1
          <6>3. QED
            BY <6>2
        <5>2. CASE ~body[r].streamed
          <6>1. received'[r] = received[r] \o d
            BY <2>3, <3>1, <5>2 DEF TriggerCallbacks, HasBody, Aborted, Types
          <6>2. d = <<>>
            BY <1>19, <3>7, <6>1
          <6>3. QED
            BY <6>2
        <5>3. QED
          BY <5>1, <5>2
      <4>2. d = <<>> => o + n = o
        BY <1>3, NoBytes
      <4>3. request'[r] = "held" => Range(received'[r]) = 1..Reached(r)'
        BY <3>2, <3>4, <3>7, <4>1, <4>2
      <4>4. QED
        BY <1>1, <1>2, <3>7, <4>3 DEF Sound, Got
    <3>8. QED
      BY <1>6, <3>6, <3>7 DEF Types
  <2>4. ASSUME request[r] = "aborted" PROVE Got(r)'
    <3>1. request'[r] # "held" /\ received'[r] = received[r]
      BY <2>4 DEF TriggerCallbacks, Aborted
    <3>2. QED
      BY <1>1, <1>2, <3>1 DEF Sound, Got
  <2>5. QED
    BY <1>1, <2>1, <2>2, <2>3, <2>4, Fields
<1>21. Sound(r)'
  BY <1>12, <1>13, <1>15, <1>17, <1>18, <1>20 DEF Sound
<1>22. QED
  BY <1>9, <1>10, <1>21 DEF AllSound

-----------------------------------------------------------------------------
(* Entering process() leaves the other requests as they should be.         *)
LEMMA EnteredElsewhere ==
    ASSUME Types, NEW t \in [Requests -> Transfer], EnterProcess(t),
           NEW q \in Requests, Sound(q), t[q] = transfer[q],
           request'[q] = request[q], body'[q] = body[q],
           httpWork'[q] = httpWork[q], mainWork'[q] = mainWork[q],
           buffer'[q] = buffer[q], lease'[q] = lease[q], received'[q] = received[q]
    PROVE  Sound(q)'
<1>1. /\ transfer'[q].live = (t[q].live /\ ~Aborted(q))
      /\ transfer'[q].taken = t[q].taken
      /\ transfer'[q].held = t[q].held
      /\ transfer'[q].broken = t[q].broken
  BY Entered
<1>2. transfer[q].live \in BOOLEAN /\ Aborted(q) \in BOOLEAN
  BY Fields DEF Aborted
<1>3. \/ transfer'[q].live = transfer[q].live
      \/ request[q] # "held" /\ ~transfer'[q].live
  BY <1>1, <1>2 DEF Aborted
<1>4. Same(q) /\ transfer'[q].live \in BOOLEAN
  BY <1>1, <1>2, <1>3 DEF Same
<1>5. QED
  BY <1>4, Unmoved

(* processNewRequest() and setupRequest()                                  *)
LEMMA ProcessNewRequestSound ==
    ASSUME Types, AllSound, NEW r \in Requests, ProcessNewRequest(r)
    PROVE  Types' /\ AllSound'
<1>1. /\ httpWork[r] = "new" /\ httpWork' = [httpWork EXCEPT ![r] = "none"]
      /\ UNCHANGED <<request, body, loop, buffer, lease, answered, received>>
  BY DEF ProcessNewRequest
<1>2. Blank(r) /\ mainWork[r] = "none" /\ request[r] # "unmade" /\ Sound(r)
  BY <1>1 DEF AllSound, Sound, Begins
<1>3. httpWork'[r] = "none" /\ httpWork' \in [Requests -> {"none", "new", "continue"}]
  BY <1>1 DEF Types
<1>4. ASSUME NEW q \in Requests, q # r
      PROVE  Sound(q) /\ httpWork'[q] = httpWork[q]
  BY <1>1, <1>4 DEF Types, AllSound
<1> DEFINE BlankButLive ==
              /\ transfer'[r].taken = 0 /\ transfer'[r].held = 0 /\ ~transfer'[r].broken
              /\ transfer'[r].live \in BOOLEAN
              /\ mainWork'[r] \in {"none", "refuse"}
              /\ mainWork'[r] = "refuse" => ~transfer'[r].live
<1>5. ASSUME BlankButLive PROVE Sound(r)'
  <2>1. Begins(r)'
    BY <1>1, <1>2, <1>3, <1>5 DEF Begins, Blank
  <2>2. Intact(r, buffer[r], transfer[r])'
    BY <1>1, <1>2, <1>5 DEF Sound, Intact, Blank
  <2>3. Paused(r)' /\ OnePiece(r)' /\ Ends(r)'
    BY <1>1, <1>2, <1>3, <1>5 DEF Paused, OnePiece, Ends, Blank
  <2>4. Reached(r)' = 0
    BY <1>1, <1>2, NoBytes DEF Reached, Blank
  <2>5. Got(r)'
    BY <1>1, <1>2, <2>4, NoBytes DEF Got, Blank
  <2>6. QED
    BY <2>1, <2>2, <2>3, <2>5 DEF Sound
<1>6. CASE Aborted(r) /\ UNCHANGED <<http, transfer, mainWork>>
  <2>1. Types'
    BY <1>1, <1>3, <1>6 DEF Types
  <2>2. BlankButLive
    BY <1>2, <1>6, Fields DEF Blank
  <2>3. Sound(r)'
    BY <1>5, <2>2
  <2>4. ASSUME NEW q \in Requests, q # r PROVE Sound(q)'
    <3>1. Same(q) /\ transfer'[q].live \in BOOLEAN
      BY <1>1, <1>4, <1>6, <2>4, Fields DEF Same
    <3>2. QED
      BY <1>4, <2>4, <3>1, Unmoved
  <2>5. QED
    BY <2>1, <2>3, <2>4 DEF AllSound
<1>7. CASE /\ ~Aborted(r)
           /\ EnterProcess([transfer EXCEPT ![r].live = TRUE])
           /\ UNCHANGED mainWork
  <2> DEFINE t == [transfer EXCEPT ![r].live = TRUE]
  <2>1. /\ t \in [Requests -> Transfer] /\ EnterProcess(t)
        /\ t[r].taken = 0 /\ t[r].held = 0 /\ ~t[r].broken /\ t[r].live \in BOOLEAN
        /\ \A q \in Requests \ {r} : t[q] = transfer[q]
    <3>1. /\ transfer[r] \in Transfer /\ t[r] = [transfer[r] EXCEPT !.live = TRUE]
          /\ \A q \in Requests \ {r} : t[q] = transfer[q]
          /\ t = [q \in Requests |-> t[q]]
      BY DEF Types
    <3> DEFINE v == transfer[r]
               w == t[r]
    <3>2. v \in Transfer /\ w = [v EXCEPT !.live = TRUE]
      BY <3>1
    <3> HIDE DEF v, w
    <3>3. /\ w \in Transfer /\ w.taken = v.taken /\ w.held = v.held
          /\ w.broken = v.broken /\ w.live = TRUE
      BY <3>2 DEF Transfer
    <3>4. /\ t[r] \in Transfer /\ t[r].taken = 0 /\ t[r].held = 0 /\ ~t[r].broken
          /\ t[r].live \in BOOLEAN
      BY <3>2, <3>3, <1>2 DEF v, w, Blank, Transfer
    <3> HIDE DEF t
    <3>5. t \in [Requests -> Transfer]
      <4>1. \A q \in Requests : t[q] \in Transfer
        BY <3>1, <3>4 DEF Types
      <4>2. QED
        BY <3>1, <4>1
    <3>6. QED
      BY <3>1, <3>4, <3>5, <1>7 DEF t
  <2> HIDE DEF t
  <2>2. /\ http' = "perform" /\ transfer' \in [Requests -> Transfer]
        /\ transfer'[r].live = (t[r].live /\ ~Aborted(r))
        /\ transfer'[r].taken = t[r].taken
        /\ transfer'[r].held = t[r].held
        /\ transfer'[r].broken = t[r].broken
    BY <2>1, Entered
  <2>3. Types'
    BY <1>1, <1>3, <1>7, <2>2 DEF Types
  <2>4. Sound(r)'
    <3>1. mainWork'[r] = "none"
      BY <1>2, <1>7
    <3>2. BlankButLive
      BY <2>1, <2>2, <3>1, <1>7
    <3>3. QED
      BY <1>5, <3>2
  <2>5. ASSUME NEW q \in Requests, q # r PROVE Sound(q)'
    BY <1>1, <1>4, <1>7, <2>1, <2>5, EnteredElsewhere
  <2>6. QED
    BY <2>3, <2>4, <2>5 DEF AllSound
<1>8. CASE /\ ~Aborted(r)
           /\ EnterProcess(transfer)
           /\ mainWork' = [mainWork EXCEPT ![r] = "refuse"]
  <2>1. transfer \in [Requests -> Transfer]
    BY DEF Types
  <2>2. /\ http' = "perform" /\ transfer' \in [Requests -> Transfer]
        /\ transfer'[r].live = (transfer[r].live /\ ~Aborted(r))
        /\ transfer'[r].taken = transfer[r].taken
        /\ transfer'[r].held = transfer[r].held
        /\ transfer'[r].broken = transfer[r].broken
    BY <1>8, <2>1, Entered
  <2>3. /\ mainWork' \in [Requests -> {"none", "refuse", "chunk", "final"}]
        /\ mainWork'[r] = "refuse" /\ \A q \in Requests \ {r} : mainWork'[q] = mainWork[q]
    BY <1>8 DEF Types
  <2>4. Types'
    BY <1>1, <1>3, <2>2, <2>3 DEF Types
  <2>5. Sound(r)'
    BY <1>2, <1>5, <2>2, <2>3 DEF Blank
  <2>6. ASSUME NEW q \in Requests, q # r PROVE Sound(q)'
    BY <1>1, <1>4, <1>8, <2>1, <2>3, <2>6, EnteredElsewhere
  <2>7. QED
    BY <2>4, <2>5, <2>6 DEF AllSound
<1>9. QED
  BY <1>6, <1>7, <1>8 DEF ProcessNewRequest

(* process() runs again.                                                   *)
LEMMA ProcessAgainSound ==
    ASSUME Types, AllSound, ProcessAgain
    PROVE  Types' /\ AllSound'
<1>1. transfer \in [Requests -> Transfer] /\ EnterProcess(transfer)
  BY DEF ProcessAgain, Types
<1>2. http' = "perform" /\ transfer' \in [Requests -> Transfer]
  BY <1>1, Entered
<1>3. Types'
  BY <1>2 DEF ProcessAgain, Types
<1>4. ASSUME NEW q \in Requests PROVE Sound(q)'
  <2>1. Sound(q)
    BY DEF AllSound
  <2>2. QED
    BY <1>1, <2>1, EnteredElsewhere DEF ProcessAgain
<1>5. QED
  BY <1>3, <1>4 DEF AllSound

(* continueRequest()                                                       *)
LEMMA ContinueRequestSound ==
    ASSUME Types, AllSound, NEW r \in Requests, ContinueRequest(r)
    PROVE  Types' /\ AllSound'
<1>1. /\ httpWork[r] = "continue" /\ httpWork' = [httpWork EXCEPT ![r] = "none"]
      /\ UNCHANGED <<request, body, loop, mainWork, lease, answered, received>>
  BY DEF ContinueRequest
<1>2. /\ httpWork'[r] = "none" /\ httpWork' \in [Requests -> {"none", "new", "continue"}]
      /\ \A q \in Requests \ {r} : httpWork'[q] = httpWork[q]
  BY <1>1 DEF Types
<1>3. Sound(r)
  BY DEF AllSound
<1>4. /\ mainWork[r] \notin {"chunk", "refuse"} /\ "chunk" \notin lease[r]
      /\ request[r] # "unmade" /\ buffer[r].processing
  BY <1>1, <1>3 DEF Sound, Begins, OnePiece
<1>5. CASE Aborted(r) /\ UNCHANGED <<http, transfer, buffer>>
  <2>1. Types'
    BY <1>1, <1>2, <1>5 DEF Types
  <2>2. Sound(r)'
    <3>1. /\ Begins(r)' /\ Paused(r)' /\ OnePiece(r)' /\ Ends(r)'
          /\ Intact(r, buffer[r], transfer[r])'
      BY <1>1, <1>2, <1>3, <1>4, <1>5 DEF Sound, Begins, Paused, OnePiece, Ends, Intact
    <3>2. Got(r)'
      BY <1>1, <1>3, <1>5 DEF Aborted, Sound, Got
    <3>3. QED
      BY <3>1, <3>2 DEF Sound
  <2>3. ASSUME NEW q \in Requests, q # r PROVE Sound(q)'
    <3>1. Same(q) /\ transfer'[q].live \in BOOLEAN /\ Sound(q)
      BY <1>1, <1>2, <1>5, <2>3, Fields DEF Same, AllSound
    <3>2. QED
      BY <2>3, <3>1, Unmoved
  <2>4. QED
    BY <2>1, <2>2, <2>3 DEF AllSound
<1>6. CASE ~Aborted(r) /\ Continue(r)
  <2>1. request[r] = "held"
    BY <1>4, <1>6, Fields DEF Aborted
  <2>2. PICK s \in Resumed(r) :
           /\ buffer' = [buffer EXCEPT ![r] = s[1]]
           /\ EnterProcess([transfer EXCEPT ![r] = s[2]])
    BY <1>6 DEF Continue
  <2>3. /\ s[1] \in Buffer /\ s[2] \in Transfer
        /\ Intact(r, s[1], s[2])
        /\ s[1].offset = buffer[r].offset + Len(buffer[r].data)
        /\ ~s[1].processing
        /\ s[2].live = transfer[r].live /\ s[2].broken = transfer[r].broken
        /\ s[2].held = 0 \/ s[2].live
        /\ ~s[2].live => s[1].data = <<>>
    BY <1>1, <1>3, <2>1, ResumedKeeps
  <2> DEFINE t == [transfer EXCEPT ![r] = s[2]]
  <2>4. /\ t \in [Requests -> Transfer] /\ t[r] = s[2] /\ EnterProcess(t)
        /\ \A q \in Requests \ {r} : t[q] = transfer[q]
    BY <2>2, <2>3 DEF Types
  <2> HIDE DEF t
  <2>5. /\ http' = "perform" /\ transfer' \in [Requests -> Transfer]
        /\ transfer'[r].live = (s[2].live /\ ~Aborted(r))
        /\ transfer'[r].taken = s[2].taken
        /\ transfer'[r].held = s[2].held
        /\ transfer'[r].broken = s[2].broken
    BY <2>4, Entered
  <2>6. transfer'[r].live = s[2].live
    <3>1. s[2].live \in BOOLEAN
      BY <2>3 DEF Transfer
    <3>2. QED
      BY <1>6, <2>5, <3>1
  <2>7. /\ buffer' \in [Requests -> Buffer] /\ buffer'[r] = s[1]
        /\ \A q \in Requests \ {r} : buffer'[q] = buffer[q]
    BY <2>2, <2>3 DEF Types
  <2>8. Types'
    BY <1>1, <1>2, <2>5, <2>7 DEF Types
  <2>9. Sound(r)'
    <3>1. Begins(r)'
      BY <1>1, <1>2, <1>4 DEF Begins
    <3>2. Intact(r, buffer[r], transfer[r])'
      BY <1>1, <2>3, <2>5, <2>7 DEF Intact
    <3>3. Paused(r)'
      <4>1. s[2].held \in Nat
        BY <2>3 DEF Transfer
      <4>2. QED
        BY <2>3, <2>5, <2>6, <4>1 DEF Paused
    <3>4. OnePiece(r)'
      BY <1>1, <1>2, <1>4, <2>3, <2>7 DEF OnePiece
    <3>5. Ends(r)'
      BY <1>1, <1>3, <2>3, <2>6, <2>7 DEF Sound, Ends
    <3>6. Got(r)'
      <4>1. Reached(r) = s[1].offset
        BY <1>1, <2>3 DEF Reached, Delivered
      <4>2. Delivered(r)' => s[1].data = <<>>
        BY <1>1, <1>2, <1>4, <2>3, <2>6 DEF Delivered
      <4>3. s[1].offset \in Nat /\ s[1].offset + 0 = s[1].offset
        BY <2>3 DEF Buffer
      <4>4. Reached(r)' = s[1].offset
        BY <2>7, <4>2, <4>3, NoBytes DEF Reached
      <4>5. QED
        BY <1>1, <1>3, <2>3, <2>5, <4>1, <4>4 DEF Sound, Got
    <3>7. QED
      BY <3>1, <3>2, <3>3, <3>4, <3>5, <3>6 DEF Sound
  <2>10. ASSUME NEW q \in Requests, q # r PROVE Sound(q)'
    <3>1. Sound(q)
      BY DEF AllSound
    <3>2. QED
      BY <1>1, <1>2, <2>4, <2>7, <2>10, <3>1, EnteredElsewhere
  <2>11. QED
    BY <2>8, <2>9, <2>10 DEF AllSound
<1>7. QED
  BY <1>5, <1>6 DEF ContinueRequest

(* Bytes arrive.                                                           *)
LEMMA ReceiveSound ==
    ASSUME Types, AllSound, NEW r \in Requests, Receive(r)
    PROVE  Types' /\ AllSound'
<1>1. /\ transfer[r].live /\ ~transfer[r].broken /\ transfer[r].held = 0
      /\ UNCHANGED <<request, body, http, loop, httpWork, mainWork, lease, answered, received>>
  BY DEF Receive
<1>2. PICK k \in 1..Least(ChunkMax, Rest(r)) :
         LET s == Stored(r, buffer[r], transfer[r], k) IN
         /\ buffer' = [buffer EXCEPT ![r] = s[1]]
         /\ transfer' = [transfer EXCEPT ![r] = s[2]]
  BY DEF Receive
<1> DEFINE s == Stored(r, buffer[r], transfer[r], k)
<1>3. Sound(r)
  BY DEF AllSound
<1>4. /\ buffer' = [buffer EXCEPT ![r] = s[1]]
      /\ transfer' = [transfer EXCEPT ![r] = s[2]]
  BY <1>2
<1>5. /\ s[1] \in Buffer /\ s[2] \in Transfer
      /\ Intact(r, s[1], s[2])
      /\ s[1].offset = buffer[r].offset /\ s[1].processing = buffer[r].processing
      /\ s[2].live = transfer[r].live /\ s[2].broken = transfer[r].broken
      /\ body[r].streamed /\ Len(buffer[r].data) = MaxBufferSize =>
            s[1].data = buffer[r].data /\ s[2].taken = transfer[r].taken
  BY <1>1, <1>3, ReceivedKeeps
<1> HIDE DEF s
<1>6. /\ buffer' \in [Requests -> Buffer] /\ buffer'[r] = s[1]
      /\ transfer' \in [Requests -> Transfer] /\ transfer'[r] = s[2]
      /\ \A q \in Requests \ {r} : buffer'[q] = buffer[q] /\ transfer'[q] = transfer[q]
  BY <1>4, <1>5 DEF Types
<1>7. Types'
  BY <1>1, <1>6 DEF Types
<1>8. Sound(r)'
  <2>1. /\ request[r] # "unmade" /\ httpWork[r] # "new"
        /\ mainWork[r] \in {"none", "chunk"} /\ "final" \notin lease[r]
    BY <1>1, <1>3, Fields DEF Sound, Begins, Blank, Ends
  <2>2. Begins(r)' /\ Ends(r)'
    BY <1>1, <2>1 DEF Begins, Ends
  <2>3. Intact(r, buffer[r], transfer[r])'
    BY <1>1, <1>5, <1>6 DEF Intact
  <2>4. Paused(r)' /\ OnePiece(r)'
    BY <1>1, <1>3, <1>5, <1>6 DEF Sound, Paused, OnePiece
  <2>5. Got(r)'
    <3>1. Delivered(r)' = Delivered(r)
      BY <1>1, <1>5, <1>6 DEF Delivered
    <3>2. Delivered(r) => body[r].streamed /\ Len(buffer[r].data) = MaxBufferSize
      BY <1>1, <1>3 DEF Sound, OnePiece, Delivered
    <3>3. Reached(r)' = Reached(r)
      BY <1>5, <1>6, <3>1, <3>2 DEF Reached
    <3>4. QED
      BY <1>1, <1>3, <1>5, <1>6, <3>3 DEF Sound, Got
  <2>6. QED
    BY <2>2, <2>3, <2>4, <2>5 DEF Sound
<1>9. ASSUME NEW q \in Requests, q # r PROVE Sound(q)'
  <2>1. Same(q) /\ transfer'[q].live \in BOOLEAN /\ Sound(q)
    BY <1>1, <1>6, <1>9, Fields DEF Same, AllSound
  <2>2. QED
    BY <1>9, <2>1, Unmoved
<1>10. QED
  BY <1>7, <1>8, <1>9 DEF AllSound

(* The end of process(), early or not.                                     *)
LEMMA LeaveSound ==
    ASSUME Types, AllSound, NEW full, \A r \in full : Full(r), Leave(full), loop' \in BOOLEAN
    PROVE  Types' /\ AllSound'
<1>1. UNCHANGED <<request, body, httpWork, lease, answered, received>>
  BY DEF Leave
<1>2. /\ http' = "idle"
      /\ transfer' \in [Requests -> Transfer] /\ buffer' \in [Requests -> Buffer]
      /\ mainWork' \in [Requests -> {"none", "refuse", "chunk", "final"}]
  BY Left
<1>3. Types'
  BY <1>1, <1>2 DEF Types
<1>4. ASSUME NEW q \in Requests PROVE Sound(q)'
  <2>1. Sound(q)
    BY DEF AllSound
  <2>2. /\ transfer'[q].live = (transfer[q].live /\ ~Over(q))
        /\ transfer'[q].taken = transfer[q].taken
        /\ transfer'[q].held = transfer[q].held
        /\ transfer'[q].broken = transfer[q].broken
        /\ buffer'[q].offset = buffer[q].offset
        /\ buffer'[q].data = buffer[q].data
        /\ buffer'[q].skip = buffer[q].skip
        /\ buffer'[q].processing = (buffer[q].processing \/ q \in full)
        /\ mainWork'[q] = IF Over(q) THEN "final"
                          ELSE IF q \in full THEN "chunk" ELSE mainWork[q]
    BY Left
  <2>3. Over(q) => transfer[q].live
    BY DEF Over
  <2>4. Over(q) => transfer[q].broken \/ transfer[q].taken = body[q].size
    BY Fields DEF Over, Rest
  <2>5. ~Over(q) /\ transfer[q].live => ~transfer[q].broken /\ transfer[q].taken < body[q].size
    <3>1. transfer[q].taken <= body[q].size
      BY <2>1 DEF Sound, Intact
    <3>2. QED
      BY <3>1, Fields DEF Over, Rest
  <2>6. q \in full =>
           /\ transfer[q].live /\ ~Over(q) /\ body[q].streamed /\ ~buffer[q].processing
           /\ Len(buffer[q].data) = MaxBufferSize
    <3>1. body[q].streamed => Len(buffer[q].data) <= MaxBufferSize
      BY <2>1 DEF Sound, Intact
    <3>2. MaxBufferSize \in Nat
      BY HttpAssumption
    <3>3. QED
      BY <3>1, <3>2, Fields DEF Full
  <2>7. Begins(q)'
    <3>1. CASE transfer[q].live
      <4>1. /\ request[q] # "unmade" /\ httpWork[q] # "new" /\ mainWork[q] # "refuse"
        BY <2>1, <3>1 DEF Sound, Begins, Blank
      <4>2. QED
        BY <1>1, <2>2, <4>1 DEF Begins
    <3>2. CASE ~transfer[q].live
      <4>1. ~Over(q) /\ q \notin full
        BY <2>3, <2>6, <3>2
      <4>2. QED
        BY <1>1, <2>1, <2>2, <4>1, Fields DEF Sound, Begins, Blank
    <3>3. QED
      BY <3>1, <3>2
  <2>8. Intact(q, buffer[q], transfer[q])'
    BY <1>1, <2>1, <2>2 DEF Sound, Intact
  <2>9. Paused(q)'
    <3>1. transfer[q].held > 0 => ~Over(q)
      <4>1. transfer[q].held > 0 => ~transfer[q].broken /\ transfer[q].taken < body[q].size
        BY <2>1 DEF Sound, Intact
      <4>2. QED
        BY <2>4, <4>1, Fields
    <3>2. QED
      BY <1>1, <2>1, <2>2, <3>1 DEF Sound, Paused
  <2>10. OnePiece(q)'
    <3>1. CASE Over(q)
      <4>1. /\ mainWork'[q] = "final" /\ buffer'[q].processing = buffer[q].processing
            /\ q \notin full
        BY <2>2, <2>6, <3>1, Fields
      <4>2. ~buffer[q].processing \/ transfer[q].broken
        BY <2>1, <2>4, <3>1, Fields DEF Sound, OnePiece
      <4>3. QED
        BY <1>1, <2>1, <2>2, <4>1, <4>2 DEF Sound, OnePiece
    <3>2. CASE ~Over(q) /\ q \in full
      <4>1. /\ mainWork'[q] = "chunk" /\ buffer'[q].processing /\ transfer'[q].live
            /\ "chunk" \notin lease[q] /\ httpWork[q] # "continue"
        BY <2>1, <2>2, <2>6, <3>2 DEF Sound, OnePiece
      <4>2. QED
        BY <1>1, <2>2, <2>5, <2>6, <3>2, <4>1 DEF OnePiece
    <3>3. CASE ~Over(q) /\ q \notin full
      <4>1. /\ mainWork'[q] = mainWork[q] /\ buffer'[q].processing = buffer[q].processing
            /\ transfer'[q].live = transfer[q].live
        BY <2>2, <3>3, Fields
      <4>2. QED
        BY <1>1, <2>1, <2>2, <4>1 DEF Sound, OnePiece
    <3>4. QED
      BY <3>1, <3>2, <3>3
  <2>11. Ends(q)'
    <3>1. CASE Over(q)
      <4>1. buffer'[q].processing = buffer[q].processing /\ ~transfer'[q].live
        BY <2>2, <2>6, <3>1, Fields
      <4>2. ~buffer[q].processing \/ transfer[q].broken
        BY <2>1, <2>4, <3>1, Fields DEF Sound, OnePiece
      <4>3. QED
        BY <2>2, <4>1, <4>2 DEF Ends
    <3>2. CASE ~Over(q) /\ q \in full
      BY <1>1, <2>1, <2>2, <2>6, <3>2 DEF Sound, Ends
    <3>3. CASE ~Over(q) /\ q \notin full
      BY <1>1, <2>1, <2>2, <3>3, Fields DEF Sound, Ends
    <3>4. QED
      BY <3>1, <3>2, <3>3
  <2>12. Got(q)'
    <3>1. Delivered(q)' = Delivered(q)
      BY <1>1, <2>2, <2>3, <2>6, Fields DEF Delivered
    <3>2. Reached(q)' = Reached(q)
      BY <2>2, <3>1 DEF Reached
    <3>3. QED
      BY <1>1, <2>1, <2>2, <3>2 DEF Sound, Got
  <2>13. QED
    BY <2>7, <2>8, <2>9, <2>10, <2>11, <2>12 DEF Sound
<1>5. QED
  BY <1>3, <1>4 DEF AllSound

-----------------------------------------------------------------------------
(* Every step keeps all of it.                                             *)
LEMMA StepSound ==
    ASSUME Types, AllSound, [Next]_vars
    PROVE  Types' /\ AllSound'
<1>1. CASE UNCHANGED vars
  <2>1. Types'
    BY <1>1 DEF vars, Types
  <2>2. ASSUME NEW q \in Requests PROVE Sound(q)'
    <3>1. Same(q) /\ transfer'[q].live \in BOOLEAN /\ Sound(q)
      BY <1>1, Fields DEF vars, Same, AllSound
    <3>2. QED
      BY <3>1, Unmoved
  <2>3. QED
    BY <2>1, <2>2 DEF AllSound
<1>2. CASE ProcessAgain
  BY <1>2, ProcessAgainSound
<1>3. CASE LeaveProcess
  <2>1. Leave({r \in Live : Full(r)}) /\ loop' \in BOOLEAN
    BY <1>3 DEF LeaveProcess, StillRunning
  <2>2. QED
    BY <2>1, LeaveSound
<1>4. CASE GiveUp
  <2>1. loop' \in BOOLEAN
    BY <1>4 DEF GiveUp, Types
  <2>2. CASE Leave({})
    BY <2>1, <2>2, LeaveSound
  <2>3. CASE Leave({r \in Live : Full(r)})
    BY <2>1, <2>3, LeaveSound
  <2>4. QED
    BY <1>4, <2>2, <2>3 DEF GiveUp
<1>5. ASSUME NEW r \in Requests, Step(r) PROVE Types' /\ AllSound'
  BY <1>5, RequestSound, AbortSound, TriggerCallbacksSound, ReleaseChunkSound,
     ReleaseFinalSound, ProcessNewRequestSound, ContinueRequestSound, ReceiveSound, BreakSound
     DEF Step
<1>6. QED
  BY <1>1, <1>2, <1>3, <1>4, <1>5 DEF Next

(* The inductive invariant.                                                *)
THEOREM Invariant == Spec => [](Types /\ AllSound)
<1>1. Init => Types /\ AllSound
  BY InitSound
<1>2. Types /\ AllSound /\ [Next]_vars => (Types /\ AllSound)'
  BY StepSound
<1>3. QED
  BY <1>1, <1>2, PTL DEF Spec

(* Types, and the buffer of a streamed body never holds more than          *)
(* kMaxBufferSize, whatever the sizes of the chunks.                       *)
THEOREM TypeCorrect == Spec => []TypeOK
<1>1. Types /\ AllSound => TypeOK
  <2> SUFFICES ASSUME Types, AllSound PROVE TypeOK
    OBVIOUS
  <2>1. ASSUME NEW r \in Requests
        PROVE  /\ transfer[r].taken <= body[r].size
               /\ body[r].streamed => Len(buffer[r].data) <= MaxBufferSize
    BY DEF AllSound, Sound, Intact
  <2>2. ASSUME NEW r \in Requests, NEW i \in DOMAIN buffer[r].data
        PROVE  buffer[r].data[i] \in Nat
    <3>1. buffer[r].data \in Seq(Nat)
      BY Fields
    <3>2. i \in 1..Len(buffer[r].data)
      BY <2>2, <3>1, LenProperties
    <3>3. QED
      BY <3>1, <3>2, ElementOfSeq
  <2>3. QED
    BY <2>1, <2>2, Fields DEF Types, TypeOK
<1>2. QED
  BY <1>1, Invariant, PTL

(* What the receiver has got is the beginning of the body, each byte once  *)
(* and in its place, unless the transfer failed.                           *)
THEOREM ReceivesTheBody == Spec => []StreamIntact
<1>1. Types /\ AllSound => StreamIntact
  BY DEF AllSound, Sound, Got, StreamIntact
<1>2. QED
  BY <1>1, Invariant, PTL

(* When all is settled the receiver has got every byte that curl was done  *)
(* with, although tasks for the main thread replace one another.           *)
THEOREM NothingLost == Spec => []NothingTakenIsLost
<1>1. Types /\ AllSound => NothingTakenIsLost
  <2> SUFFICES ASSUME Types, AllSound, NEW r \in Requests, Settled(r)
               PROVE  {received[r][i] : i \in DOMAIN received[r]} = 1..transfer[r].taken
    BY DEF NothingTakenIsLost
  <2>1. /\ Sound(r) /\ request[r] = "held" /\ ~transfer[r].live /\ mainWork[r] = "none"
    BY DEF AllSound, Settled
  <2>2. transfer[r].held = 0 /\ buffer[r].skip = 0
    BY <2>1, Fields DEF Sound, Paused, Intact
  <2>3. Reached(r) = transfer[r].taken
    BY <2>1, <2>2, Fields DEF Sound, Intact, Reached, Delivered
  <2>4. Range(received[r]) = 1..transfer[r].taken
    BY <2>1, <2>3 DEF Sound, Got
  <2>5. QED
    BY <2>4 DEF Range
<1>2. QED
  BY <1>1, Invariant, PTL

-----------------------------------------------------------------------------
(* A buffer that is lent does not change, unless the transfer failed.      *)
THEOREM LentIsStable == Spec => LeaseStable
<1> DEFINE Stable == \A r \in Requests :
              lease[r] # {} => buffer'[r].data = buffer[r].data \/ transfer[r].broken
<1>1. Types /\ AllSound /\ [Next]_vars => Stable
  <2> SUFFICES ASSUME Types, AllSound, [Next]_vars, NEW r \in Requests, lease[r] # {},
                      ~transfer[r].broken
               PROVE  buffer'[r].data = buffer[r].data
    OBVIOUS
  <2>1. Sound(r)
    BY DEF AllSound
  <2>2. "chunk" \in lease[r] \/ "final" \in lease[r]
    BY Fields
  <2>3. CASE buffer' = buffer
    BY <2>3
  <2>4. ASSUME NEW full, Leave(full) PROVE buffer'[r].data = buffer[r].data
    BY <2>4, Left
  <2>5. ASSUME NEW q \in Requests, ContinueRequest(q) PROVE buffer'[r].data = buffer[r].data
    <3>1. q # r
      BY <2>1, <2>2, <2>5 DEF ContinueRequest, Sound, OnePiece, Ends
    <3>2. buffer'[r] = buffer[r]
      BY <2>5, <3>1 DEF ContinueRequest, Continue, Types
    <3>3. QED
      BY <3>2
  <2>6. ASSUME NEW q \in Requests, Receive(q) PROVE buffer'[r].data = buffer[r].data
    <3>1. PICK k \in 1..Least(ChunkMax, Rest(q)) :
             buffer' = [buffer EXCEPT ![q] = Stored(q, buffer[q], transfer[q], k)[1]]
      BY <2>6 DEF Receive
    <3>2. CASE q # r
      BY <3>1, <3>2 DEF Types
    <3>3. CASE q = r
      <4>1. /\ transfer[r].live /\ transfer[r].held = 0
        BY <2>6, <3>3 DEF Receive
      <4>2. body[r].streamed /\ Len(buffer[r].data) = MaxBufferSize
        BY <2>1, <2>2, <4>1 DEF Sound, OnePiece, Ends
      <4> DEFINE s == Stored(r, buffer[r], transfer[r], k)
      <4>3. buffer'[r] = s[1]
        BY <3>1, <3>3 DEF Types
      <4>4. s[1].data = buffer[r].data
        BY <2>1, <3>1, <3>3, <4>1, <4>2, ReceivedKeeps
      <4>5. QED
        BY <4>3, <4>4
    <3>4. QED
      BY <3>2, <3>3
  <2>7. QED
    BY <2>3, <2>4, <2>5, <2>6
       DEF Next, vars, Step, ProcessAgain, LeaveProcess, GiveUp, Request, Abort,
           TriggerCallbacks, ReleaseChunk, ReleaseFinal, ProcessNewRequest, Break
<1>2. QED
  BY <1>1, Invariant, PTL DEF Spec, LeaseStable

(* continueRequest() finds the transfer it is for, unless that has failed. *)
THEOREM NeverStale == Spec => StaleOnlyIfBroken
<1> DEFINE Fresh == \A r \in Requests : Resumes(r) => transfer[r].live \/ transfer[r].broken
<1>1. Types /\ AllSound /\ [Next]_vars => Fresh
  <2> SUFFICES ASSUME Types, AllSound, NEW r \in Requests, Resumes(r), [Next]_vars
               PROVE  transfer[r].live \/ transfer[r].broken
    OBVIOUS
  <2>1. httpWork[r] = "continue" /\ httpWork'[r] = "none" /\ buffer'[r].offset # buffer[r].offset
    BY DEF Resumes
  <2>2. httpWork' # httpWork
    BY <2>1
  <2>3. ContinueRequest(r)
    <3>1. ASSUME NEW q \in Requests, Step(q) PROVE ContinueRequest(r)
      <4>1. CASE Request(q)
        BY <2>1, <4>1 DEF Request, Types
      <4>2. CASE ReleaseChunk(q)
        BY <2>1, <4>2 DEF ReleaseChunk, Types
      <4>3. CASE ProcessNewRequest(q)
        BY <2>1, <4>3 DEF ProcessNewRequest, Types
      <4>4. CASE ContinueRequest(q)
        <5>1. q = r
          BY <2>1, <4>4 DEF ContinueRequest, Types
        <5>2. QED
          BY <4>4, <5>1
      <4>5. QED
        BY <2>2, <3>1, <4>1, <4>2, <4>3, <4>4
           DEF Step, Abort, TriggerCallbacks, ReleaseFinal, Receive, Break
    <3>2. QED
      BY <2>2, <3>1 DEF Next, vars, ProcessAgain, LeaveProcess, GiveUp, Leave
  <2>4. request[r] # "aborted"
    BY <2>1, <2>3 DEF ContinueRequest, Aborted
  <2>5. Sound(r)
    BY DEF AllSound
  <2>6. request[r] = "held" /\ buffer[r].processing
    BY <2>1, <2>4, <2>5, Fields DEF Sound, Begins, OnePiece
  <2>7. QED
    BY <2>5, <2>6 DEF Sound, OnePiece
<1>2. QED
  BY <1>1, Invariant, PTL DEF Spec, StaleOnlyIfBroken

(* A receiver that has dropped its request is not called any more, and     *)
(* on_response that drops it is not followed by on_bytes.                  *)
THEOREM SilentOnceAborted == Spec => SilentAfterAbort
<1> DEFINE Silent == \A r \in Requests :
              /\ Aborted(r) => received'[r] = received[r] /\ (r \in answered' => r \in answered)
              /\ request'[r] = "aborted" /\ body[r].streamed => received'[r] = received[r]
<1>1. Types /\ AllSound /\ [Next]_vars => Silent
  <2> SUFFICES ASSUME Types, AllSound, [Next]_vars, NEW r \in Requests
               PROVE  /\ Aborted(r) => /\ received'[r] = received[r]
                                       /\ r \in answered' => r \in answered
                      /\ request'[r] = "aborted" /\ body[r].streamed =>
                            received'[r] = received[r]
    OBVIOUS
  <2>1. CASE UNCHANGED <<answered, received>>
    BY <2>1
  <2>2. ASSUME NEW q \in Requests, TriggerCallbacks(q), q # r
        PROVE  received'[r] = received[r] /\ (r \in answered' => r \in answered)
    BY <2>2 DEF TriggerCallbacks, Types
  <2>3. ASSUME TriggerCallbacks(r), Aborted(r)
        PROVE  received'[r] = received[r] /\ (r \in answered' => r \in answered)
    BY <2>3 DEF TriggerCallbacks
  <2>4. ASSUME TriggerCallbacks(r), request'[r] = "aborted", body[r].streamed
        PROVE  received'[r] = received[r]
    BY <2>4 DEF TriggerCallbacks, HasBody, StillHeld
  <2>5. QED
    BY <2>1, <2>2, <2>3, <2>4
       DEF Next, vars, Step, ProcessAgain, LeaveProcess, GiveUp, Leave, Request, Abort,
           ReleaseChunk, ReleaseFinal, ProcessNewRequest, ContinueRequest, Receive, Break
<1>2. QED
  BY <1>1, Invariant, PTL DEF Spec, SilentAfterAbort
=============================================================================
