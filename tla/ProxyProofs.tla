---------------------------- MODULE ProxyProofs ----------------------------
(***************************************************************************)
(* A proxied request is answered as Connection assumes, and its body is    *)
(* relayed, for bodies, buffers and chunks of any size, any number of      *)
(* other requests, and transfers that fail.                                *)
(***************************************************************************)
EXTENDS ProxyStream, ConnectionProofs

Client == INSTANCE HttpClientProofs WITH
              Requests <- {Proxied} \union Others, MultiErrors <- FALSE,
              mainWork <- task, lease <- lent

ClientInv == Client!Types /\ Client!AllSound

(* A piece is with the connection, or on its way back to the http thread.  *)
Away == "chunk" \in lent[Proxied] \/ httpWork[Proxied] = "continue"

(* The content-length, in pieces.                                          *)
AllPieces ==
    IF body[Proxied].streamed THEN CeilDiv(body[Proxied].size, MaxBufferSize) ELSE 0

-----------------------------------------------------------------------------
(* The inductive invariant: what the client's side of the request and the  *)
(* connection know of each other.                                          *)

(* The connection holds the request as long as it is not dropped, and was  *)
(* given an answer when on_response was called.                            *)
Owned ==
    /\ mainWork = "proxy" <=> request[Proxied] = "held"
    /\ given = None <=> Proxied \notin answered
    /\ request[Proxied] = "unmade" \/ httpWork[Proxied] = "new" => given = None
    /\ handlerWork = "reset" \/ request[Proxied] = "aborted" => client # "there"
    /\ given = None =>
          lent[Proxied] = {} /\ httpWork[Proxied] # "continue" /\ buffer[Proxied].offset = 0

(* What a response is like, and what is true of it when it ends.           *)
Arrived ==
    /\ request[Proxied] # "unmade" =>
          /\ body[Proxied].size \in Sizes
          /\ body[Proxied].streamed <=> body[Proxied].size >= MaxBufferSize
    /\ transfer[Proxied].held <= ChunkMax
    /\ transfer[Proxied].taken + transfer[Proxied].held <= body[Proxied].size
    /\ transfer[Proxied].broken => Breaks /\ transfer[Proxied].taken < body[Proxied].size
    /\ buffer[Proxied].processing => Len(buffer[Proxied].data) = MaxBufferSize
    /\ task[Proxied] # "refuse"
    /\ task[Proxied] = "final" \/ "final" \in lent[Proxied] =>
          transfer[Proxied].broken \/ transfer[Proxied].taken = body[Proxied].size

(* The last callback is the last, and the connection knows of a failure    *)
(* when it was called.                                                     *)
Ended ==
    /\ "final" \in lent[Proxied] =>
          task[Proxied] = "none" /\ (transfer[Proxied].broken => broken)
    /\ broken => transfer[Proxied].broken
    /\ broken \/ (~body[Proxied].streamed /\ given # None) =>
          task[Proxied] = "none" /\ ~transfer[Proxied].live

(* The connection holds the lifetimes of the pieces that are lent.         *)
Lent ==
    /\ Away => given >= 1
    /\ lent[Proxied] = {} => lease = {}
    /\ lent[Proxied] = {"chunk"} => lease = {given}
    /\ lent[Proxied] = {"final"} => \E p \in {given, Part, Again} : lease = {p}
    /\ lent[Proxied] = {"chunk", "final"} => lease = {given, Again}

(* The number of the piece in the buffer, from its place in the body.      *)
Placed ==
    given # None /\ ~broken =>
        /\ total = AllPieces
        /\ /\ request[Proxied] = "held" /\ body[Proxied].streamed
           /\ transfer[Proxied].live \/ task[Proxied] # "none" \/ lent[Proxied] # {}
           => buffer[Proxied].offset =
                 MaxBufferSize * (IF Away \/ "final" \in lent[Proxied] THEN given - 1 ELSE given)

Link == Owned /\ Arrived /\ Ended /\ Lent /\ Placed

-----------------------------------------------------------------------------
(* Division, from the remainder.                                           *)
LEMMA Division ==
    ASSUME NEW a \in Nat, NEW b \in Nat \ {0}, NEW q \in Nat,
           b * q <= a, a < b * q + b
    PROVE  a \div b = q
OBVIOUS

(* What a quotient is.                                                     *)
LEMMA Quotient ==
    ASSUME NEW a \in Nat, NEW b \in Nat \ {0}
    PROVE  a \div b \in Nat /\ b * (a \div b) <= a /\ a < b * (a \div b) + b
OBVIOUS

(* The next multiple.                                                      *)
LEMMA NextMultiple == ASSUME NEW b \in Nat \ {0}, NEW p \in Nat, NEW q \in Nat, p < q
  PROVE b * p + b <= b * q
OBVIOUS

(* So many whole pieces.                                                   *)
LEMMA CeilOfMultiple ==
    ASSUME NEW b \in Nat \ {0}, NEW q \in Nat
    PROVE  CeilDiv(b * q, b) = q
<1>1. b * q \in Nat /\ b * q + b - 1 \in Nat
  OBVIOUS
<1>2. QED
  BY <1>1, Division DEF CeilDiv

(* More than q whole pieces are more than q pieces.                        *)
LEMMA CeilAbove ==
    ASSUME NEW b \in Nat \ {0}, NEW q \in Nat, NEW n \in Nat, b * q < n
    PROVE  CeilDiv(n, b) \in Nat /\ q < CeilDiv(n, b)
<1>1. n + b - 1 \in Nat
  OBVIOUS
<1> DEFINE c == (n + b - 1) \div b
<1>2. c \in Nat /\ n + b - 1 < b * c + b
  BY <1>1, Quotient
<1> HIDE DEF c
<1>3. c <= q => b * c <= b * q
  BY <1>2
<1>4. QED
  BY <1>2, <1>3 DEF CeilDiv, c

(* With a whole piece more, and something left, they are more than q + 1.  *)
LEMMA CeilNext ==
    ASSUME NEW b \in Nat \ {0}, NEW q \in Nat, NEW n \in Nat, NEW l \in Nat,
           b * q + l < n, b <= l
    PROVE  q + 1 < CeilDiv(n, b)
<1>1. b * (q + 1) = b * q + b
  OBVIOUS
<1>2. b * (q + 1) < n
  BY <1>1
<1>3. QED
  BY <1>2, CeilAbove

(* A piece that is not the last one fills the buffer.                      *)
LEMMA CeilBelow ==
    ASSUME NEW b \in Nat \ {0}, NEW n \in Nat, NEW q \in Nat, q < CeilDiv(n, b)
    PROVE  b * q < n
<1>1. n + b - 1 \in Nat
  OBVIOUS
<1> DEFINE c == (n + b - 1) \div b
<1>2. c \in Nat /\ b * c <= n + b - 1 /\ q < c
  BY <1>1, Quotient DEF CeilDiv
<1> HIDE DEF c
<1>3. b * q + b <= b * c
  BY <1>2, NextMultiple
<1>4. b * q \in Nat /\ b * c \in Nat
  BY <1>2
<1>5. QED
  BY <1>2, <1>3, <1>4

(* Nothing of the body is left out.                                        *)
LEMMA CeilCovers ==
    ASSUME NEW b \in Nat \ {0}, NEW n \in Nat
    PROVE  CeilDiv(n, b) \in Nat /\ n <= b * CeilDiv(n, b)
<1>1. n + b - 1 \in Nat
  OBVIOUS
<1> DEFINE c == (n + b - 1) \div b
<1>2. c \in Nat /\ n + b - 1 < b * c + b
  BY <1>1, Quotient
<1> HIDE DEF c
<1>3. n <= b * c
  <2>1. b * c \in Nat
    BY <1>2
  <2>2. QED
    BY <1>2, <2>1
<1>4. QED
  BY <1>2, <1>3 DEF CeilDiv, c

-----------------------------------------------------------------------------
(* What HttpClient assumes of its constants holds here.                    *)
LEMMA ClientAssumption == Client!HttpAssumption
BY ProxyAssumption, ConnectionAssumption DEF Client!HttpAssumption

(* The steps are those of the same module.                                 *)
LEMMA SameInit == Http!Init => Client!Init
BY DEF Http!Init, Client!Init

(* Those of one request.                                                   *)
LEMMA SameSteps ==
    ASSUME NEW r \in {Proxied} \union Others
    PROVE  /\ Http!Request(r) => Client!Request(r)
           /\ Http!Abort(r) => Client!Abort(r)
           /\ Http!TriggerCallbacks(r) => Client!TriggerCallbacks(r)
           /\ Http!ReleaseChunk(r) => Client!ReleaseChunk(r)
           /\ Http!ReleaseFinal(r) => Client!ReleaseFinal(r)
           /\ Http!ProcessNewRequest(r) => Client!ProcessNewRequest(r)
           /\ Http!ContinueRequest(r) => Client!ContinueRequest(r)
           /\ Http!Receive(r) => Client!Receive(r)
           /\ Http!Break(r) => Client!Break(r)
<1>1. Http!Request(r) => Client!Request(r)
  BY DEF Http!Request, Client!Request
<1>2. Http!Abort(r) => Client!Abort(r)
  BY DEF Http!Abort, Client!Abort
<1>3. Http!TriggerCallbacks(r) => Client!TriggerCallbacks(r)
  BY DEF Http!TriggerCallbacks, Client!TriggerCallbacks, Http!Aborted, Client!Aborted,
         Http!HasBody, Client!HasBody, Http!HasBytes, Client!HasBytes,
         Http!StillHeld, Client!StillHeld
<1>4. Http!ReleaseChunk(r) => Client!ReleaseChunk(r)
  BY DEF Http!ReleaseChunk, Client!ReleaseChunk
<1>5. Http!ReleaseFinal(r) => Client!ReleaseFinal(r)
  BY DEF Http!ReleaseFinal, Client!ReleaseFinal
<1>6. Http!ProcessNewRequest(r) => Client!ProcessNewRequest(r)
  BY DEF Http!ProcessNewRequest, Client!ProcessNewRequest, Http!Aborted, Client!Aborted,
         Http!EnterProcess, Client!EnterProcess
<1>7. Http!ContinueRequest(r) => Client!ContinueRequest(r)
  BY DEF Http!ContinueRequest, Client!ContinueRequest, Http!Aborted, Client!Aborted,
         Http!EnterProcess, Client!EnterProcess, Http!Continue, Client!Continue,
         Http!Resumed, Client!Resumed, Http!Emptied, Client!Emptied, Http!Stored, Client!Stored,
         Http!Rest, Client!Rest, Http!Least, Client!Least
<1>8. Http!Receive(r) => Client!Receive(r)
  BY DEF Http!Receive, Client!Receive, Http!Stored, Client!Stored,
         Http!Rest, Client!Rest, Http!Least, Client!Least
<1>9. Http!Break(r) => Client!Break(r)
  BY DEF Http!Break, Client!Break, Http!Rest, Client!Rest
<1>10. QED
  BY <1>1, <1>2, <1>3, <1>4, <1>5, <1>6, <1>7, <1>8, <1>9

(* Those of process(), for all of them.                                    *)
LEMMA SameLoop ==
    /\ Http!ProcessAgain => Client!ProcessAgain
    /\ Http!LeaveProcess => Client!LeaveProcess
<1>1. Http!ProcessAgain => Client!ProcessAgain
  BY DEF Http!ProcessAgain, Client!ProcessAgain, Http!EnterProcess, Client!EnterProcess,
         Http!Aborted, Client!Aborted
<1>2. Http!LeaveProcess => Client!LeaveProcess
  BY DEF Http!LeaveProcess, Client!LeaveProcess, Http!Leave, Client!Leave,
         Http!Live, Client!Live, Http!Full, Client!Full, Http!Over, Client!Over,
         Http!Rest, Client!Rest, Http!StillRunning, Client!StillRunning
<1>3. QED
  BY <1>1, <1>2

(* The client's side of the connection begins as HttpClientProofs says.    *)
LEMMA ClientInit == Http!Init => ClientInv
BY SameInit, ClientAssumption, Client!InitSound DEF ClientInv

(* Each step is a step of the client or leaves it alone.                   *)
LEMMA ClientMoves == ProxyNext => Client!Next \/ UNCHANGED clientVars
<1> SUFFICES ASSUME ProxyNext PROVE Client!Next \/ UNCHANGED clientVars
  OBVIOUS
<1>1. ASSUME NEW r \in {Proxied} \union Others, Client!Step(r) PROVE Client!Next
  BY <1>1 DEF Client!Next
<1>2. CASE AsioStep
  <2>1. ASSUME NEW p, Release(p) PROVE Client!Next
    BY <1>1, <2>1, SameSteps DEF Release, Client!Step
  <2>2. QED
    BY <1>2, <2>1 DEF AsioStep
<1>3. CASE MainStep
  BY <1>1, <1>3, SameSteps DEF MainStep, PassOn, LetGo, Deliver, Client!Step
<1>4. CASE HttpLoop
  BY <1>4, SameLoop DEF HttpLoop, Client!Next
<1>5. ASSUME NEW r \in {Proxied} \union Others, HttpTask(r) \/ Http!Break(r)
      PROVE  Client!Next
  BY <1>1, <1>5, SameSteps DEF HttpTask, Client!Step
<1>6. ASSUME NEW r \in Others, Elsewhere(r) PROVE Client!Next
  BY <1>1, <1>6, SameSteps DEF Elsewhere, UpdateState, Client!Step
<1>7. QED
  BY <1>2, <1>3, <1>4, <1>5, <1>6 DEF ProxyNext

(* Its invariant holds throughout.                                         *)
LEMMA ClientStep == ClientInv /\ [ProxyNext]_proxyVars => ClientInv'
<1> SUFFICES ASSUME ClientInv, Client!Next \/ UNCHANGED clientVars PROVE ClientInv'
  BY ClientMoves DEF proxyVars
<1> QED
  BY ClientAssumption, Client!StepSound DEF ClientInv, clientVars, Client!vars
-----------------------------------------------------------------------------
(* What is known of the client's side, in its own terms.                   *)
Facts ==
    LET q == request[Proxied]
        n == body[Proxied].size
        h == httpWork[Proxied]
        m == task[Proxied]
        t == transfer[Proxied]
        b == buffer[Proxied]
        l == lent[Proxied] IN
    /\ q \in {"unmade", "held", "aborted"}
    /\ h \in {"none", "new", "continue"} /\ m \in {"none", "refuse", "chunk", "final"}
    /\ n \in Nat /\ body[Proxied].streamed \in BOOLEAN
    /\ t.live \in BOOLEAN /\ t.taken \in Nat /\ t.held \in Nat /\ t.broken \in BOOLEAN
    /\ b.offset \in Nat /\ b.data \in Seq(Nat) /\ Len(b.data) \in Nat /\ b.skip \in Nat
    /\ b.processing \in BOOLEAN
    /\ l \in SUBSET {"chunk", "final"}
    /\ q = "unmade" =>
          h = "none" /\ m = "none" /\ l = {} /\ ~t.live /\ ~t.broken /\ ~b.processing
    /\ h = "new" => m = "none" /\ l = {} /\ ~t.live /\ ~t.broken /\ ~b.processing
    /\ b.offset + Len(b.data) = t.taken + b.skip
    /\ body[Proxied].streamed => Len(b.data) <= MaxBufferSize
    /\ t.taken <= n
    /\ t.held = 0 => b.skip = 0
    /\ t.held > 0 => b.skip < t.held /\ Len(b.data) = MaxBufferSize /\ t.taken < n /\ ~t.broken
    /\ m = "chunk" => "chunk" \notin l /\ h # "continue"
    /\ "chunk" \in l => h # "continue"
    /\ m = "chunk" \/ "chunk" \in l \/ h = "continue" => b.processing
    /\ b.processing => body[Proxied].streamed
    /\ m = "final" \/ "final" \in l => ~t.live /\ (t.broken \/ ~b.processing)

(* They follow from the client's invariant.                                *)
LEMMA ClientFacts == ClientInv => Facts
<1> SUFFICES ASSUME ClientInv PROVE Facts
  OBVIOUS
<1>1. Client!Types /\ Client!Sound(Proxied)
  BY DEF ClientInv, Client!AllSound
<1>2. Client!Begins(Proxied) /\ Client!Intact(Proxied, buffer[Proxied], transfer[Proxied])
      /\ Client!OnePiece(Proxied) /\ Client!Ends(Proxied)
  BY <1>1 DEF Client!Sound
<1>3. QED
  BY <1>1, <1>2, Client!Fields, ClientAssumption
     DEF Facts, Client!Begins, Client!Blank, Client!Intact, Client!OnePiece, Client!Ends

-----------------------------------------------------------------------------
(* What the HTTP client delivers is what the connection expects.           *)
LEMMA PieceIs ==
    ASSUME Facts, TypeOK, Link, request[Proxied] = "held", task[Proxied] # "none",
           NEW g, g = IF given = None THEN 0 ELSE given
    PROVE  /\ ~broken /\ g \in Nat
           /\ ~Http!HasBytes(Proxied) => Piece = None
           /\ Http!HasBytes(Proxied) /\ ~Away =>
                 Piece \in {g + 1, Part} /\ lent[Proxied] = {} /\ lease = {} /\ g < AllPieces
           /\ Http!HasBytes(Proxied) /\ Away => Failed /\ Piece = Again /\ g >= 1
           /\ Http!HasBytes(Proxied) /\ Failed /\ ~Away /\ Piece = g + 1 => g + 1 < AllPieces
           /\ Piece = Part => Failed
           /\ Failed /\ given # None => given < AllPieces
           /\ AllPieces \in 0..MaxPieces
           /\ Http!HasBytes(Proxied) => AllPieces > 0
           /\ Http!HasBytes(Proxied) /\ transfer[Proxied].broken => transfer[Proxied].taken # 0
           /\ ~Http!HasBytes(Proxied) /\ ~Failed /\ given = None => AllPieces = 0
<1> DEFINE n == body[Proxied].size
           t == transfer[Proxied]
           b == buffer[Proxied]
           M == MaxBufferSize
           d == IF Away THEN given - 1 ELSE g
<1>1. ~broken
  BY DEF Link, Ended
<1>2. given \in Nat \union {None} /\ g \in Nat
  BY DEF TypeOK, None
<1>3. M \in Nat \ {0} /\ ChunkMax \in Nat /\ ChunkMax <= M
  BY ProxyAssumption
<1>4. n \in Sizes /\ n \in Nat \ {0} /\ (body[Proxied].streamed <=> n >= M)
  BY ProxyAssumption DEF Link, Arrived
<1>5. AllPieces \in 0..MaxPieces
  <2>1. CASE body[Proxied].streamed
    <3>1. 0 < CeilDiv(n, M) /\ CeilDiv(n, M) \in Nat
      BY <1>3, <1>4, CeilAbove
    <3>2. CeilDiv(n, M) <= MaxPieces
      BY <1>4, ProxyAssumption
    <3>3. QED
      BY <2>1, <3>1, <3>2, ConnectionAssumption DEF AllPieces
  <2>2. CASE ~body[Proxied].streamed
    BY <2>2, ConnectionAssumption DEF AllPieces
  <2>3. QED
    BY <2>1, <2>2
<1>6. /\ b.offset \in Nat /\ Len(b.data) \in Nat /\ b.data \in Seq(Nat) /\ b.skip \in Nat
      /\ t.taken \in Nat /\ t.held \in Nat /\ b.offset + Len(b.data) = t.taken + b.skip
      /\ t.taken <= n /\ (t.held = 0 => b.skip = 0)
      /\ t.held > 0 => b.skip < t.held /\ Len(b.data) = M /\ t.taken < n
      /\ t.held <= ChunkMax
      /\ t.broken => t.taken < n /\ t.held = 0
      /\ t.broken \in BOOLEAN
  BY DEF Facts, Link, Arrived
<1>7. "final" \notin lent[Proxied] /\ lent[Proxied] \subseteq {"chunk", "final"}
  BY DEF Link, Ended, Facts
<1>8. Away => given >= 1 /\ given # None /\ b.processing /\ Len(b.data) = M
  <2>1. given >= 1 => given # None
    BY DEF None
  <2>2. QED
    BY <2>1 DEF Link, Lent, Arrived, Facts, Away
<1>9. d \in Nat /\ (body[Proxied].streamed => b.offset = M * d)
  <2>1. CASE given = None
    <3>1. ~Away /\ g = 0 /\ b.offset = 0
      BY <2>1 DEF Link, Owned, Away
    <3>2. M * 0 = 0
      BY <1>3
    <3>3. QED
      BY <3>1, <3>2
  <2>2. CASE given # None
    BY <1>1, <1>2, <1>7, <1>8, <2>2 DEF Link, Placed
  <2>3. QED
    BY <2>1, <2>2
<1>10. Http!HasBytes(Proxied) =>
          /\ body[Proxied].streamed /\ Len(b.data) > 0
          /\ task[Proxied] = "chunk" => Len(b.data) = M /\ ~Away
  <2>1. b.data # <<>> => Len(b.data) > 0
    BY <1>6, EmptySeq
  <2>2. task[Proxied] = "chunk" => b.processing /\ Len(b.data) = M /\ ~Away
    BY DEF Facts, Link, Arrived, Away
  <2>3. QED
    BY <1>3, <1>6, <2>1, <2>2 DEF Http!HasBytes
<1>11. ASSUME Http!HasBytes(Proxied)
       PROVE  CeilDiv(b.offset, M) = d /\ d < AllPieces
  <2>1. b.offset < n
    <3>1. Len(b.data) > 0 /\ n \in Nat /\ M \in Nat
      BY <1>3, <1>4, <1>10, <1>11
    <3>2. CASE t.held = 0
      BY <1>6, <3>1, <3>2
    <3>3. CASE t.held > 0
      <4>1. b.skip < t.held /\ Len(b.data) = M /\ t.taken < n /\ t.held <= ChunkMax
        BY <1>6, <3>3
      <4>2. b.offset + M = t.taken + b.skip
        BY <1>6, <4>1
      <4>3. b.offset \in Nat /\ b.skip \in Nat /\ t.taken \in Nat /\ t.held \in Nat
        BY <1>6
      <4> HIDE DEF b, t, n, M
      <4>4. QED
        BY <1>3, <3>1, <4>1, <4>2, <4>3
    <3>4. QED
      BY <1>6, <3>2, <3>3
  <2>2. b.offset = M * d /\ d \in Nat
    BY <1>9, <1>10, <1>11
  <2> HIDE DEF d
  <2>3. CeilDiv(b.offset, M) = d /\ d < CeilDiv(n, M)
    BY <1>3, <1>4, <2>1, <2>2, CeilOfMultiple, CeilAbove
  <2>4. QED
    BY <1>10, <1>11, <2>3 DEF AllPieces
<1>12. Failed => t.broken /\ task[Proxied] = "final"
  BY DEF Failed
<1>13. ASSUME body[Proxied].streamed, t.broken
       PROVE  /\ d < AllPieces
              /\ Len(b.data) >= M => d + 1 < AllPieces
  <2>1. b.offset + Len(b.data) < n /\ b.offset = M * d /\ d \in Nat
    BY <1>4, <1>6, <1>9, <1>13
  <2> HIDE DEF d
  <2>2. n \in Nat /\ M \in Nat \ {0} /\ Len(b.data) \in Nat /\ M * d + Len(b.data) < n
    BY <1>3, <1>4, <1>6, <2>1
  <2>3. d < CeilDiv(n, M) /\ (Len(b.data) >= M => d + 1 < CeilDiv(n, M))
    <3> DEFINE l == Len(b.data)
    <3>1. M * d \in Nat
      BY <2>1, <2>2
    <3> HIDE DEF l, n, M
    <3>2. M * d < n
      BY <2>2, <3>1 DEF l
    <3>3. d < CeilDiv(n, M)
      BY <2>1, <2>2, <3>2, CeilAbove
    <3>4. l >= M => d + 1 < CeilDiv(n, M)
      BY <2>1, <2>2, CeilNext DEF l
    <3>5. QED
      BY <3>3, <3>4 DEF l
  <2>4. QED
    BY <1>13, <2>2, <2>3 DEF AllPieces
<1>14. Failed /\ given # None => given < AllPieces
  <2>1. Failed /\ given # None => body[Proxied].streamed
    BY DEF Failed, Link, Ended
  <2>2. Failed /\ given # None => given = d \/ (given = d + 1 /\ Len(b.data) >= M)
    BY <1>2, <1>3, <1>8
  <2>3. QED
    BY <1>12, <1>13, <2>1, <2>2
<1>15. Piece = IF ~Http!HasBytes(Proxied) THEN None
               ELSE IF given # None /\ CeilDiv(b.offset, M) + 1 <= given THEN Again
               ELSE IF t.broken /\ Len(b.data) < M THEN Part
               ELSE CeilDiv(b.offset, M) + 1
  BY DEF Piece
<1>16. ASSUME Http!HasBytes(Proxied), ~Away
       PROVE  /\ Piece = IF t.broken /\ Len(b.data) < M THEN Part ELSE g + 1
              /\ lent[Proxied] = {} /\ lease = {} /\ g < AllPieces
  <2>1. given # None => ~(g + 1 <= given)
    BY <1>2
  <2>2. lent[Proxied] = {}
    BY <1>7, <1>16 DEF Away
  <2>3. lease = {}
    BY <2>2 DEF Link, Lent
  <2>4. QED
    BY <1>11, <1>15, <1>16, <2>1, <2>2, <2>3
<1>17. ASSUME Http!HasBytes(Proxied), Away
       PROVE  Failed /\ Piece = Again /\ g >= 1
  <2>1. task[Proxied] = "final" /\ t.broken
    BY <1>8, <1>10, <1>17 DEF Http!HasBytes, Facts
  <2>2. given # None /\ d + 1 <= given /\ g = given
    BY <1>2, <1>8, <1>17
  <2>3. QED
    BY <1>8, <1>11, <1>15, <1>17, <2>1, <2>2 DEF Failed
<1>18. Part # None /\ Again # None /\ Part # Again /\ Part > MaxPieces
  BY ConnectionAssumption DEF Part, Again, None
<1>19. Http!HasBytes(Proxied) /\ ~Away /\ Piece = g + 1 /\ Failed => g + 1 < AllPieces
  <2> SUFFICES ASSUME Http!HasBytes(Proxied), ~Away, Piece = g + 1, Failed
               PROVE  g + 1 < AllPieces
    OBVIOUS
  <2>1. g + 1 # Part
    BY <1>2, <1>5, <1>16, <1>18, ConnectionAssumption
  <2>2. Len(b.data) >= M
    BY <1>3, <1>6, <1>12, <1>16, <2>1
  <2>3. QED
    BY <1>10, <1>12, <1>13, <2>2
<1>20. Piece = Part => Failed
  <2> SUFFICES ASSUME Piece = Part PROVE Failed
    OBVIOUS
  <2>1. Http!HasBytes(Proxied) /\ ~Away
    BY <1>15, <1>17, <1>18
  <2>2. g + 1 # Part
    BY <1>2, <1>5, <1>16, <1>18, <2>1, ConnectionAssumption
  <2>3. t.broken /\ Len(b.data) < M
    BY <1>16, <2>1, <2>2
  <2>4. task[Proxied] = "final"
    BY <1>3, <1>10, <2>1, <2>3 DEF Http!HasBytes
  <2>5. QED
    BY <2>3, <2>4 DEF Failed
<1>21. Http!HasBytes(Proxied) => AllPieces > 0
  <2>1. body[Proxied].streamed => 0 < AllPieces
    BY <1>3, <1>4, CeilAbove DEF AllPieces
  <2>2. QED
    BY <1>10, <2>1
<1>22. Http!HasBytes(Proxied) /\ t.broken => t.taken # 0
  <2> SUFFICES ASSUME Http!HasBytes(Proxied), t.broken PROVE t.taken # 0
    OBVIOUS
  <2>1. b.offset + Len(b.data) = t.taken /\ Len(b.data) > 0
    BY <1>6, <1>10
  <2>2. b.offset \in Nat /\ Len(b.data) \in Nat
    BY <1>6
  <2> HIDE DEF b, t
  <2>3. QED
    BY <2>1, <2>2
<1>23. ~Http!HasBytes(Proxied) /\ ~Failed /\ given = None => AllPieces = 0
  <2> SUFFICES ASSUME ~Http!HasBytes(Proxied), ~Failed, given = None, body[Proxied].streamed
               PROVE  FALSE
    BY DEF AllPieces
  <2>1. task[Proxied] = "final" /\ b.data = <<>>
    BY DEF Http!HasBytes, Facts, Link, Arrived
  <2>2. t.taken = n
    BY <2>1 DEF Failed, Link, Arrived
  <2>3. b.offset = 0
    BY DEF Link, Owned
  <2>4. Len(b.data) = 0
    BY <2>1
  <2>5. QED
    BY <1>4, <1>6, <2>2, <2>3, <2>4
<1>24. QED
  BY <1>1, <1>2, <1>5, <1>14, <1>15, <1>16, <1>17, <1>19, <1>20, <1>21, <1>22, <1>23

(* What is posted: at most a head and a piece.                             *)
LEMMA Joined ==
    /\ <<0>> \o <<1>> = <<0, 1>>
    /\ \A S : \A s \in Seq(S) : s \o <<>> = s /\ <<>> \o s = s
    /\ \A S : \A s \in Seq(S), p \in S : s \o <<p>> = Append(s, p)
<1>1. <<0>> \o <<1>> = <<0, 1>>
  <2> DEFINE s == <<0>> \o <<1>>
  <2>1. /\ <<0>> \in Seq(Nat) /\ <<1>> \in Seq(Nat) /\ <<0, 1>> \in Seq(Nat)
        /\ Len(<<0>>) = 1 /\ Len(<<1>>) = 1 /\ Len(<<0, 1>>) = 2
    OBVIOUS
  <2>2. s \in Seq(Nat) /\ Len(s) = 2 /\ s[1] = 0 /\ s[2] = 1
    BY <2>1, ConcatProperties
  <2>3. \A i \in 1..2 : s[i] = <<0, 1>>[i]
    BY <2>2
  <2> HIDE DEF s
  <2>4. s = <<0, 1>>
    BY <2>1, <2>2, <2>3, SeqEqual
  <2>5. QED
    BY <2>4 DEF s
<1>2. ASSUME NEW S, NEW s \in Seq(S) PROVE s \o <<>> = s /\ <<>> \o s = s
  BY ConcatEmptySeq
<1>3. ASSUME NEW S, NEW s \in Seq(S), NEW p \in S PROVE s \o <<p>> = Append(s, p)
  BY AppendIsConcat
<1>4. QED
  BY <1>1, <1>2, <1>3

(* triggerCallbacks() is the connection's AnswerFromService, NextPiece or  *)
(* ServiceBreaks; of a request that was dropped, nothing.                  *)
LEMMA DeliverMaps ==
    ASSUME Facts, Inv, Link, Deliver
    PROVE  Next \/ UNCHANGED vars
<1> DEFINE g == IF given = None THEN 0 ELSE given
           head == IF given = None THEN <<0>> ELSE <<>>
           tail == IF Piece = None THEN <<>> ELSE <<Piece>>
<1>1. CASE Http!Aborted(Proxied)
  BY <1>1 DEF Deliver
<1>2. CASE ~Http!Aborted(Proxied)
  <2>1. /\ main = "idle" /\ task[Proxied] # "none"
        /\ posted' = posted \o head \o tail
        /\ lease' = lease \union ({Piece} \ {None})
        /\ IF given = None THEN total' \in Announced ELSE UNCHANGED total
        /\ given' = IF Piece \in 1..MaxPieces THEN Piece ELSE g
        /\ broken' = (broken \/ Failed)
        /\ UNCHANGED <<client, asioVars, main, mainWork, handlerWork>>
    BY <1>2 DEF Deliver, Http!TriggerCallbacks
  <2>2. request[Proxied] = "held" /\ mainWork = "proxy"
    BY <1>2, <2>1 DEF Facts, Link, Owned, Http!Aborted
  <2>3. /\ ~broken /\ g \in Nat
        /\ ~Http!HasBytes(Proxied) => Piece = None
        /\ Http!HasBytes(Proxied) /\ ~Away =>
              Piece \in {g + 1, Part} /\ lent[Proxied] = {} /\ lease = {} /\ g < AllPieces
        /\ Http!HasBytes(Proxied) /\ Away => Failed /\ Piece = Again /\ g >= 1
        /\ Http!HasBytes(Proxied) /\ Failed /\ ~Away /\ Piece = g + 1 => g + 1 < AllPieces
        /\ Piece = Part => Failed
        /\ Failed /\ given # None => given < AllPieces
        /\ AllPieces \in 0..MaxPieces
        /\ Http!HasBytes(Proxied) => AllPieces > 0
        /\ Http!HasBytes(Proxied) /\ transfer[Proxied].broken => transfer[Proxied].taken # 0
        /\ ~Http!HasBytes(Proxied) /\ ~Failed /\ given = None => AllPieces = 0
    BY <2>1, <2>2, PieceIs DEF Inv
  <2>4. /\ posted \in Seq(Sendable) /\ lease \subseteq Pieces /\ broken \in BOOLEAN
        /\ Failed \in BOOLEAN /\ given \in Nat \union {None} /\ total \in Nat
    BY DEF Inv, TypeOK, Sendable, Outstanding, Failed, None, Facts
  <2>5. given = None => posted = <<>> /\ lease = {}
    BY DEF Inv, OneAnswer, Link, Owned, Lent
  <2>6. given # None => total = AllPieces
    BY <2>3 DEF Link, Placed
  <2>7. /\ Piece = None \/ Piece = g + 1 \/ Piece = Part \/ Piece = Again
        /\ Part = MaxPieces + 1 /\ Again = MaxPieces + 2 /\ None = -1 /\ MaxPieces \in Nat \ {0}
    BY <2>3, ConnectionAssumption, ProxyAssumption DEF Part, Again, None
  <2> HIDE DEF g, head, tail
  <2>8. Announced = IF ~transfer[Proxied].broken THEN {AllPieces}
                    ELSE {IF AllPieces = 0 THEN 1 ELSE AllPieces}
                            \union (IF transfer[Proxied].taken = 0 THEN {0} ELSE {})
    BY DEF Announced, AllPieces
  <2>9. given = None => g = 0 /\ head = <<0>> /\ ~Away
    BY DEF g, head, Link, Owned, Away
  <2>10. given # None => g = given /\ head = <<>>
    BY DEF g, head
  <2>11. CASE ~Failed /\ given = None
    <3>1. broken' = broken
      BY <2>1, <2>3, <2>4, <2>11
    <3>2. total' = AllPieces
      <4>1. transfer[Proxied].broken => Http!HasBytes(Proxied)
        BY <2>1, <2>11 DEF Failed, Facts, Link, Arrived, Http!HasBytes
      <4>2. QED
        BY <2>1, <2>3, <2>8, <2>11, <4>1
    <3>3. Respond(total')
      <4>1. CASE Piece = None
        <5>1. total' = 0 /\ tail = <<>>
          BY <2>3, <2>7, <2>9, <2>11, <3>2, <4>1 DEF tail
        <5>2. given' = 0 /\ lease' = lease
          BY <2>1, <2>7, <2>9, <2>11, <4>1
        <5>3. posted' = posted \o <<0>>
          <6>1. posted \o <<0>> \in Seq(Sendable)
            BY <2>4, ConcatProperties DEF Sendable
          <6>2. QED
            BY <2>1, <2>9, <2>11, <5>1, <6>1, Joined
        <5>4. QED
          BY <5>1, <5>2, <5>3 DEF Respond
      <4>2. CASE Piece # None
        <5>1. Piece = 1 /\ total' # 0 /\ tail = <<1>>
          BY <2>3, <2>7, <2>9, <2>11, <3>2, <4>2 DEF tail
        <5>2. given' = 1 /\ lease' = lease \union {1}
          BY <2>1, <2>7, <5>1
        <5>3. posted' = posted \o <<0, 1>>
          <6>1. posted = <<>> /\ <<>> \o <<0>> = <<0>> /\ <<>> \o <<0, 1>> = <<0, 1>>
            <7>1. <<0>> \in Seq(Nat) /\ <<0, 1>> \in Seq(Nat)
              OBVIOUS
            <7>2. QED
              BY <2>5, <2>11, <7>1, Joined
          <6>2. QED
            BY <2>1, <2>9, <2>11, <5>1, <6>1, Joined
        <5>4. QED
          BY <5>1, <5>2, <5>3 DEF Respond
      <4>3. QED
        BY <4>1, <4>2
    <3>4. AnswerFromService
      BY <2>1, <2>2, <2>3, <2>11, <3>1, <3>2, <3>3 DEF AnswerFromService
    <3>5. QED
      BY <3>4 DEF Next, Main
  <2>12. CASE ~Failed /\ given # None
    <3>1. g = given /\ head = <<>> /\ broken' = broken /\ UNCHANGED total
      BY <2>1, <2>3, <2>4, <2>10, <2>12
    <3>2. posted \o <<>> = posted
      BY <2>4, Joined
    <3>3. CASE Piece = None
      <4>1. posted' = posted /\ lease' = lease /\ given' = given
        BY <2>1, <2>4, <2>7, <3>1, <3>2, <3>3 DEF tail
      <4>2. QED
        BY <2>1, <3>1, <4>1 DEF vars, asioVars, mainVars
    <3>4. CASE Piece # None
      <4>1. Piece = g + 1 /\ lease = {} /\ g < AllPieces
        BY <2>3, <2>7, <2>12, <3>4
      <4>2. given < total /\ given + 1 \in 1..MaxPieces
        BY <2>3, <2>6, <2>7, <2>12, <3>1, <4>1
      <4>3. given' = given + 1 /\ lease' = {given'}
        BY <2>1, <2>7, <3>1, <4>1, <4>2
      <4>4. posted' = Append(posted, given')
        <5>1. tail = <<given'>> /\ given' \in Sendable
          BY <2>7, <3>1, <3>4, <4>1, <4>2, <4>3 DEF tail, Sendable, Pieces
        <5>2. QED
          BY <2>1, <2>4, <3>1, <3>2, <5>1, Joined
      <4>5. NextPiece
        BY <2>1, <2>2, <2>3, <2>12, <3>1, <4>1, <4>2, <4>3, <4>4 DEF NextPiece
      <4>6. QED
        BY <4>5 DEF Next, Main
    <3>5. QED
      BY <3>3, <3>4
  <2>13. CASE Failed
    <3>1. Breaks /\ ~broken /\ broken' = TRUE
      BY <2>1, <2>3, <2>4, <2>13 DEF Failed, Link, Arrived
    <3> DEFINE n == IF given = None THEN total' ELSE total
    <3>2. given = None => n \in 0..MaxPieces /\ (Http!HasBytes(Proxied) => n = AllPieces)
      BY <2>1, <2>3, <2>7, <2>8
    <3>3. given # None => n = AllPieces /\ given < n
      BY <2>3, <2>6, <2>13
    <3>4. n \in Nat /\ (Http!HasBytes(Proxied) => n = AllPieces)
      BY <2>3, <3>2, <3>3
    <3> HIDE DEF n
    <3>5. Piece \in LastWords(g, n)
      <4>1. CASE ~Http!HasBytes(Proxied)
        BY <2>3, <4>1 DEF LastWords
      <4>2. CASE Http!HasBytes(Proxied) /\ Away
        BY <2>3, <4>2 DEF LastWords
      <4>3. CASE Http!HasBytes(Proxied) /\ ~Away
        BY <2>3, <2>13, <3>4, <4>3 DEF LastWords
      <4>4. QED
        BY <4>1, <4>2, <4>3
    <3>6. /\ given' = IF Piece = g + 1 THEN Piece ELSE g
          /\ posted' = posted \o head \o (IF Piece = None THEN <<>> ELSE <<Piece>>)
      <4>1. Piece = g + 1 => Piece \in 1..MaxPieces
        <5>1. g <= MaxPieces
          BY <2>3, <2>7, <2>9, <2>10 DEF Inv, TypeOK
        <5>2. Piece = g + 1 => g < AllPieces
          BY <2>3, <2>7, <5>1
        <5>3. QED
          BY <2>3, <2>7, <5>2
      <4>2. Piece # g + 1 => Piece \notin 1..MaxPieces
        BY <2>7
      <4>3. QED
        BY <2>1, <4>1, <4>2 DEF tail
    <3>7. Finish(g, n, head)
      BY <2>1, <3>5, <3>6 DEF Finish
    <3>8. CASE given = None
      <4>1. Finish(0, total', <<0>>) /\ total' \in 0..MaxPieces
        BY <2>9, <3>2, <3>7, <3>8 DEF n
      <4>2. ServiceBreaks
        BY <2>1, <2>2, <3>1, <3>8, <4>1 DEF ServiceBreaks
      <4>3. QED
        BY <4>2 DEF Next
    <3>9. CASE given # None
      <4>1. Finish(given, total, <<>>) /\ given < total /\ UNCHANGED total
        BY <2>1, <2>10, <3>3, <3>7, <3>9 DEF n
      <4>2. ServiceBreaks
        BY <2>1, <2>2, <3>1, <3>9, <4>1 DEF ServiceBreaks
      <4>3. QED
        BY <4>2 DEF Next
    <3>10. QED
      BY <3>8, <3>9
  <2>14. QED
    BY <2>4, <2>11, <2>12, <2>13
<1>3. QED
  BY <1>1, <1>2

(* Every step is one of the connection's or leaves it alone.               *)
LEMMA StepMaps == Facts /\ Inv /\ Link /\ [ProxyNext]_proxyVars => [Next]_vars
<1> SUFFICES ASSUME Facts, Inv, Link, [ProxyNext]_proxyVars PROVE [Next]_vars
  OBVIOUS
<1>1. CASE AsioStep
  BY <1>1 DEF AsioStep, Next
<1>2. CASE MainStep
  BY <1>2, DeliverMaps DEF MainStep, PassOn, LetGo, Next, Main
<1>3. CASE HangUp
  BY <1>3 DEF Next
<1>4. CASE UNCHANGED vars
  BY <1>4
<1>5. QED
  BY <1>1, <1>2, <1>3, <1>4 DEF ProxyNext, proxyVars

-----------------------------------------------------------------------------
(* A step that changes nothing of what the two know of each other, but     *)
(* that a transfer is dropped with its request.                            *)
LEMMA QuietLink ==
    ASSUME Link, Client!Same(Proxied), (Proxied \in answered') = (Proxied \in answered),
           UNCHANGED <<mainWork, given, broken, total, lease>>,
           handlerWork' = "reset" \/ request[Proxied] = "aborted" => client' # "there"
    PROVE  Link'
<1> USE DEF Client!Same
<1>1. Owned'
  BY DEF Link, Owned
<1>2. Arrived'
  BY DEF Link, Arrived
<1>3. Ended'
  BY DEF Link, Ended
<1>4. Lent'
  BY DEF Link, Lent, Away
<1>5. Placed'
  BY DEF Link, Placed, AllPieces, Away
<1>6. QED
  BY <1>1, <1>2, <1>3, <1>4, <1>5 DEF Link

(* The connection as it was.                                               *)
LEMMA QuietClient ==
    ASSUME UNCHANGED <<request, body, httpWork, task, transfer, buffer, lent, received>>
    PROVE  Client!Same(Proxied)
BY DEF Client!Same

(* At first.                                                               *)
LEMMA InitLink == ProxyInit => Link
<1> SUFFICES ASSUME ProxyInit PROVE Link
  OBVIOUS
<1>1. /\ request[Proxied] = "unmade" /\ body[Proxied].size = 0 /\ ~body[Proxied].streamed
      /\ httpWork[Proxied] = "none" /\ task[Proxied] = "none"
      /\ ~transfer[Proxied].live /\ transfer[Proxied].taken = 0 /\ transfer[Proxied].held = 0
      /\ ~transfer[Proxied].broken
      /\ buffer[Proxied].offset = 0 /\ buffer[Proxied].data = <<>>
      /\ ~buffer[Proxied].processing
      /\ lent[Proxied] = {} /\ answered = {}
  BY DEF ProxyInit, Http!Init
<1>2. /\ client = "there" /\ handlerWork = "none" /\ mainWork = "none"
      /\ given = None /\ broken = FALSE /\ lease = {}
  BY DEF ProxyInit, Init
<1>3. 0 <= ChunkMax
  BY ProxyAssumption
<1>4. QED
  BY <1>1, <1>2, <1>3 DEF Link, Owned, Arrived, Ended, Lent, Placed, Away

-----------------------------------------------------------------------------
(* The threads of the connection.                                          *)

(* Letting go of a piece gives back what was lent with it.                 *)
LEMMA ReleaseLink ==
    ASSUME ClientInv, Inv, Link, NEW p \in lease, lease' = lease \ {p}, Release(p),
           UNCHANGED <<mainWork, given, broken, total>>,
           handlerWork' = "reset" \/ request[Proxied] = "aborted" => client' # "there"
    PROVE  Link'
<1>1. /\ lent[Proxied] \in SUBSET {"chunk", "final"} /\ given \in 0..MaxPieces \union {None}
      /\ Part = MaxPieces + 1 /\ Again = MaxPieces + 2 /\ None = -1 /\ MaxPieces \in Nat
  BY ClientFacts, ConnectionAssumption DEF Facts, Inv, TypeOK, Part, Again, None
<1>2. lent[Proxied] # {}
  BY DEF Link, Lent
<1>3. given # None
  BY <1>2 DEF Link, Owned
<1>4. /\ UNCHANGED <<request, body, transfer, buffer, task, answered>>
      /\ \/ /\ "chunk" \in lent[Proxied]
            /\ p \notin {Part, Again}
            /\ lent'[Proxied] = lent[Proxied] \ {"chunk"}
            /\ httpWork'[Proxied] = "continue"
         \/ /\ "final" \in lent[Proxied]
            /\ p \in {Part, Again} \/ "chunk" \notin lent[Proxied]
            /\ lent'[Proxied] = lent[Proxied] \ {"final"}
            /\ httpWork' = httpWork
  <2>1. /\ lent \in [{Proxied} \union Others -> SUBSET {"chunk", "final"}]
        /\ httpWork \in [{Proxied} \union Others -> {"none", "new", "continue"}]
    BY DEF ClientInv, Client!Types
  <2>2. CASE p \notin {Part, Again} /\ "chunk" \in lent[Proxied]
    BY <2>1, <2>2 DEF Release, Http!ReleaseChunk
  <2>3. CASE ~(p \notin {Part, Again} /\ "chunk" \in lent[Proxied])
    BY <2>1, <2>3 DEF Release, Http!ReleaseFinal
  <2>4. QED
    BY <2>2, <2>3
<1>5. lent[Proxied] \in {{"chunk"}, {"final"}, {"chunk", "final"}}
  BY <1>1, <1>2
<1>6. Owned'
  BY <1>3, <1>4 DEF Link, Owned
<1>7. Arrived'
  BY <1>4 DEF Link, Arrived
<1>8. Ended'
  BY <1>4 DEF Link, Ended
<1>9. Lent'
  <2>1. Away' => given' >= 1
    BY <1>4 DEF Link, Lent, Away
  <2>2. CASE lent[Proxied] = {"chunk"}
    <3>1. lease = {given} /\ lease' = {} /\ lent'[Proxied] = {}
      BY <1>4, <2>2 DEF Link, Lent
    <3>2. QED
      BY <2>1, <3>1 DEF Lent
  <2>3. CASE lent[Proxied] = {"final"}
    <3>1. lease' = {} /\ lent'[Proxied] = {}
      BY <1>4, <2>3 DEF Link, Lent
    <3>2. QED
      BY <2>1, <3>1 DEF Lent
  <2>4. CASE lent[Proxied] = {"chunk", "final"}
    <3>1. lease = {given, Again} /\ given # Again /\ given # Part
      BY <1>1, <1>3, <2>4 DEF Link, Lent
    <3>2. CASE p = given
      <4>1. lent'[Proxied] = {"final"} /\ lease' = {Again}
        BY <1>4, <2>4, <3>1, <3>2
      <4>2. QED
        BY <2>1, <4>1 DEF Lent
    <3>3. CASE p = Again
      <4>1. lent'[Proxied] = {"chunk"} /\ lease' = {given'}
        BY <1>4, <2>4, <3>1, <3>3
      <4>2. QED
        BY <2>1, <4>1 DEF Lent
    <3>4. QED
      BY <3>1, <3>2, <3>3
  <2>5. QED
    BY <1>5, <2>2, <2>3, <2>4
<1>10. Placed'
  <2>1. "final" \in lent[Proxied] => task[Proxied] = "none" /\ ~transfer[Proxied].live
    BY ClientFacts DEF Facts, Link, Ended
  <2>2. AllPieces' = AllPieces
    BY <1>4 DEF AllPieces
  <2>3. CASE "chunk" \in lent[Proxied] /\ httpWork'[Proxied] = "continue"
    BY <1>2, <1>4, <2>2, <2>3 DEF Link, Placed, Away
  <2>4. CASE "final" \in lent[Proxied] /\ lent'[Proxied] = lent[Proxied] \ {"final"}
             /\ httpWork' = httpWork
    <3>1. Away' = Away
      BY <2>4 DEF Away
    <3>2. Away \/ lent'[Proxied] = {}
      BY <1>5, <2>4 DEF Away
    <3>3. CASE Away
      BY <1>2, <1>4, <2>2, <2>4, <3>1, <3>3 DEF Link, Placed
    <3>4. CASE lent'[Proxied] = {}
      BY <1>4, <2>1, <2>2, <2>4, <3>4 DEF Link, Placed
    <3>5. QED
      BY <3>2, <3>3, <3>4
  <2>5. QED
    BY <1>4, <2>3, <2>4
<1>11. QED
  BY <1>6, <1>7, <1>8, <1>9, <1>10 DEF Link

(* The asio thread, with what it lets go of.                               *)
LEMMA AsioLink == ClientInv /\ Inv /\ Link /\ AsioStep => Link'
<1> SUFFICES ASSUME ClientInv, Inv, Link, AsioStep PROVE Link'
  OBVIOUS
<1>1. /\ UNCHANGED <<mainWork, given, broken, total, client>>
      /\ handlerWork' # "reset" \/ handlerWork = "reset" \/ client = "eof"
      /\ lease' = lease \/ \E q : lease' = lease \ {q}
  BY DEF AsioStep, Asio, HandleRequest, ReadFails, PollEnds, RunPosted, Write, SendSucceeds,
         SendFails, SendIsPartial, SendReturns, mainVars
<1>2. handlerWork' = "reset" \/ request[Proxied] = "aborted" => client' # "there"
  BY <1>1 DEF Link, Owned
<1>3. CASE Released = {}
  <2>1. lease' = lease
    BY <1>1, <1>3 DEF Released
  <2>2. UNCHANGED clientVars
    BY <1>3 DEF AsioStep
  <2>3. QED
    BY <1>1, <1>2, <2>1, <2>2, QuietClient, QuietLink DEF clientVars
<1>4. CASE Released # {}
  <2>1. PICK p \in Released : Release(p)
    BY <1>4 DEF AsioStep
  <2>2. p \in lease /\ lease' = lease \ {p}
    BY <1>1, <2>1 DEF Released
  <2>3. QED
    BY <1>1, <1>2, <2>1, <2>2, ReleaseLink
<1>5. QED
  BY <1>3, <1>4

-----------------------------------------------------------------------------
(* The main thread.                                                        *)
(* Nothing was transferred before the request is made.                     *)
LEMMA BeforeRequest ==
    ASSUME ClientInv, request[Proxied] = "unmade"
    PROVE  /\ transfer[Proxied].taken = 0 /\ transfer[Proxied].held = 0
           /\ received[Proxied] = <<>>
<1>1. Client!Sound(Proxied)
  BY DEF ClientInv, Client!AllSound
<1>2. QED
  BY <1>1 DEF Client!Sound, Client!Begins, Client!Blank

(* WebProxy::handleRequest().                                              *)
LEMMA PassOnLink == ClientInv /\ Inv /\ Link /\ PassOn => Link'
<1> SUFFICES ASSUME ClientInv, Inv, Link, PassOn PROVE Link'
  OBVIOUS
<1>1. main = "handle" /\ mainWork' = "proxy" /\ UNCHANGED <<client, broken, handlerWork>>
  BY DEF PassOn, CallHandler
<1>2. mainWork = "none" /\ given = None /\ ~broken
  BY <1>1 DEF Inv, OneAnswer
<1>3. UNCHANGED <<total, given, lease>>
  BY <1>1, <1>2 DEF PassOn, CallHandler
<1>4. /\ request[Proxied] = "unmade" /\ request'[Proxied] = "held"
      /\ httpWork'[Proxied] = "new"
      /\ \E n \in Sizes, s \in BOOLEAN : body'[Proxied] = [size |-> n, streamed |-> s]
      /\ body'[Proxied].streamed <=> body'[Proxied].size >= MaxBufferSize
      /\ UNCHANGED <<task, transfer, buffer, lent, answered>>
  <2>1. /\ request \in [{Proxied} \union Others -> {"unmade", "held", "aborted"}]
        /\ httpWork \in [{Proxied} \union Others -> {"none", "new", "continue"}]
        /\ body \in [{Proxied} \union Others -> [size : Nat, streamed : BOOLEAN]]
    BY DEF ClientInv, Client!Types
  <2>2. QED
    BY <2>1 DEF PassOn, Http!Request
<1>5. /\ task[Proxied] = "none" /\ lent[Proxied] = {} /\ ~transfer[Proxied].broken
      /\ ~buffer[Proxied].processing
  BY <1>4, ClientFacts DEF Facts
<1>6. Owned'
  BY <1>1, <1>2, <1>3, <1>4, <1>5 DEF Link, Owned
<1>7. Arrived'
  <2>1. body'[Proxied].size \in Sizes
    BY <1>4
  <2>2. /\ transfer'[Proxied].taken = 0 /\ transfer'[Proxied].held = 0
        /\ body'[Proxied].size \in Nat
    BY <1>4, <2>1, BeforeRequest, ProxyAssumption
  <2>3. QED
    BY <1>4, <1>5, <2>1, <2>2 DEF Link, Arrived
<1>8. Ended'
  BY <1>1, <1>2, <1>3, <1>4, <1>5 DEF Ended
<1>9. Lent'
  BY <1>2, <1>3, <1>4, <1>5 DEF Link, Lent, Away
<1>10. Placed'
  BY <1>2, <1>3 DEF Placed
<1>11. QED
  BY <1>6, <1>7, <1>8, <1>9, <1>10 DEF Link

(* The request of a client that went away is dropped.                      *)
LEMMA LetGoLink == ClientInv /\ Link /\ LetGo => Link'
<1> SUFFICES ASSUME ClientInv, Link, LetGo PROVE Link'
  OBVIOUS
<1>1. /\ handlerWork = "reset" /\ handlerWork' = "none" /\ mainWork' = "none"
      /\ UNCHANGED <<client, total, given, broken, lease>>
  BY DEF LetGo, ResetMainWork, asioVars
<1>2. client # "there"
  BY <1>1 DEF Link, Owned
<1>3. /\ request'[Proxied] # "held"
      /\ request'[Proxied] = "unmade" => request[Proxied] = "unmade"
      /\ request[Proxied] = "unmade" => request'[Proxied] = "unmade"
      /\ UNCHANGED <<body, httpWork, task, transfer, buffer, lent, answered>>
  <2>1. request \in [{Proxied} \union Others -> {"unmade", "held", "aborted"}]
    BY DEF ClientInv, Client!Types
  <2>2. CASE mainWork = "proxy"
    BY <2>1, <2>2 DEF LetGo, Http!Abort
  <2>3. CASE mainWork # "proxy"
    BY <2>3 DEF LetGo, clientVars, Link, Owned
  <2>4. QED
    BY <2>2, <2>3
<1>4. Owned'
  BY <1>1, <1>2, <1>3 DEF Link, Owned
<1>5. Arrived'
  BY <1>3 DEF Link, Arrived
<1>6. Ended'
  BY <1>1, <1>3 DEF Link, Ended
<1>7. Lent'
  BY <1>1, <1>3 DEF Link, Lent, Away
<1>8. Placed'
  BY <1>1, <1>3 DEF Link, Placed, AllPieces
<1>9. QED
  BY <1>4, <1>5, <1>6, <1>7, <1>8 DEF Link

(* What the client does when it calls back.                                *)
LEMMA CalledBack ==
    ASSUME ClientInv, Deliver
    PROVE  /\ UNCHANGED <<request, body, httpWork, transfer, buffer>>
           /\ task[Proxied] # "none" /\ task'[Proxied] = "none"
           /\ Http!Aborted(Proxied) => UNCHANGED <<lent, answered, received>>
           /\ ~Http!Aborted(Proxied) =>
                 /\ request[Proxied] = "held" /\ Proxied \in answered'
                 /\ lent'[Proxied] = IF Http!HasBytes(Proxied)
                                     THEN lent[Proxied] \union {task[Proxied]} ELSE lent[Proxied]
                 /\ received'[Proxied] = IF Http!HasBody(Proxied) \/ Http!HasBytes(Proxied)
                                         THEN received[Proxied] \o buffer[Proxied].data
                                         ELSE received[Proxied]
<1>1. /\ request' = request /\ task[Proxied] # "none"
      /\ UNCHANGED <<body, httpWork, transfer, buffer>>
      /\ task' = [task EXCEPT ![Proxied] = "none"]
      /\ Http!Aborted(Proxied) => UNCHANGED <<lent, answered, received>>
      /\ ~Http!Aborted(Proxied) =>
            /\ answered' = answered \union {Proxied}
            /\ received' = IF Http!HasBody(Proxied) \/ (Http!HasBytes(Proxied) /\ Http!StillHeld(Proxied))
                           THEN [received EXCEPT ![Proxied] = @ \o buffer[Proxied].data]
                           ELSE received
            /\ lent' = IF Http!HasBytes(Proxied) /\ Http!StillHeld(Proxied)
                       THEN [lent EXCEPT ![Proxied] = @ \union {task[Proxied]}] ELSE lent
  BY DEF Deliver, Http!TriggerCallbacks
<1>2. /\ DOMAIN task = {Proxied} \union Others /\ DOMAIN received = {Proxied} \union Others
      /\ DOMAIN lent = {Proxied} \union Others
  BY DEF ClientInv, Client!Types
<1>3. ~Http!Aborted(Proxied) => request[Proxied] = "held" /\ Http!StillHeld(Proxied)
  BY <1>1, ClientFacts DEF Facts, Http!Aborted, Http!StillHeld
<1>4. QED
  BY <1>1, <1>2, <1>3

(* A callback that was called: what the connection was given.              *)
LEMMA DeliverLink == ClientInv /\ Inv /\ Link /\ Deliver => Link'
<1> SUFFICES ASSUME ClientInv, Inv, Link, Deliver PROVE Link'
  OBVIOUS
<1>1. /\ UNCHANGED <<request, body, httpWork, transfer, buffer>>
      /\ task[Proxied] # "none" /\ task'[Proxied] = "none"
  BY CalledBack
<1>2. CASE Http!Aborted(Proxied)
  <2>1. UNCHANGED <<lent, answered, vars>> /\ request[Proxied] = "aborted"
    BY <1>2, CalledBack DEF Deliver, Http!Aborted
  <2>2. UNCHANGED <<client, mainWork, handlerWork, given, broken, total, lease>>
    BY <2>1 DEF vars, mainVars
  <2>3. Owned'
    BY <1>1, <2>1, <2>2 DEF Link, Owned
  <2>4. Arrived'
    BY <1>1, <2>1 DEF Link, Arrived
  <2>5. Ended'
    BY <1>1, <2>1, <2>2 DEF Link, Ended
  <2>6. Lent'
    BY <1>1, <2>1, <2>2 DEF Link, Lent, Away
  <2>7. Placed'
    BY <1>1, <2>1, <2>2 DEF Link, Placed, AllPieces
  <2>8. QED
    BY <2>3, <2>4, <2>5, <2>6, <2>7 DEF Link
<1>3. CASE ~Http!Aborted(Proxied)
  <2> DEFINE g == IF given = None THEN 0 ELSE given
  <2>1. /\ lease' = lease \union ({Piece} \ {None})
        /\ IF given = None THEN total' \in Announced ELSE UNCHANGED total
        /\ given' = IF Piece \in 1..MaxPieces THEN Piece ELSE g
        /\ broken' = (broken \/ Failed)
        /\ UNCHANGED <<client, mainWork, handlerWork>>
    BY <1>3 DEF Deliver
  <2>2. /\ request[Proxied] = "held" /\ Proxied \in answered'
        /\ lent'[Proxied] = IF Http!HasBytes(Proxied)
                            THEN lent[Proxied] \union {task[Proxied]} ELSE lent[Proxied]
    BY <1>3, CalledBack
  <2>3. /\ ~broken /\ g \in Nat
        /\ ~Http!HasBytes(Proxied) => Piece = None
        /\ Http!HasBytes(Proxied) /\ ~Away =>
              Piece \in {g + 1, Part} /\ lent[Proxied] = {} /\ lease = {} /\ g < AllPieces
        /\ Http!HasBytes(Proxied) /\ Away => Failed /\ Piece = Again /\ g >= 1
        /\ Piece = Part => Failed
        /\ Failed /\ given # None => given < AllPieces
        /\ AllPieces \in 0..MaxPieces
        /\ Http!HasBytes(Proxied) => AllPieces > 0
        /\ Http!HasBytes(Proxied) /\ transfer[Proxied].broken => transfer[Proxied].taken # 0
        /\ ~Http!HasBytes(Proxied) /\ ~Failed /\ given = None => AllPieces = 0
    BY <1>1, <2>2, ClientFacts, PieceIs DEF Inv
  <2>4. /\ Part = MaxPieces + 1 /\ Again = MaxPieces + 2 /\ None = -1 /\ MaxPieces \in Nat \ {0}
        /\ Failed \in BOOLEAN /\ broken \in BOOLEAN /\ given \in 0..MaxPieces \union {None}
        /\ lent[Proxied] \in SUBSET {"chunk"} /\ task[Proxied] \in {"chunk", "final"}
    <3>1. Part = MaxPieces + 1 /\ Again = MaxPieces + 2 /\ None = -1 /\ MaxPieces \in Nat \ {0}
      BY ConnectionAssumption, ProxyAssumption DEF Part, Again, None
    <3>2. broken \in BOOLEAN /\ given \in 0..MaxPieces \union {None}
      BY <3>1 DEF Inv, TypeOK
    <3>3. /\ lent[Proxied] \in SUBSET {"chunk", "final"}
          /\ task[Proxied] \in {"none", "refuse", "chunk", "final"}
          /\ transfer[Proxied].broken \in BOOLEAN
      BY ClientFacts DEF Facts
    <3>4. "final" \notin lent[Proxied] /\ task[Proxied] # "refuse"
      BY <1>1 DEF Link, Arrived, Ended
    <3>5. Failed \in BOOLEAN
      BY <3>3 DEF Failed
    <3>6. QED
      BY <1>1, <3>1, <3>2, <3>3, <3>4, <3>5
  <2>5. /\ given' \in Nat /\ given' # None
        /\ Http!HasBytes(Proxied) /\ ~Away /\ Piece # Part => given' = g + 1 /\ Piece = given'
        /\ ~Http!HasBytes(Proxied) \/ Away \/ Piece = Part => given' = g
    <3>1. g <= MaxPieces
      BY <2>4
    <3>2. CASE ~Http!HasBytes(Proxied)
      BY <2>1, <2>3, <2>4, <3>2
    <3>3. CASE Http!HasBytes(Proxied) /\ Away
      BY <2>1, <2>3, <2>4, <3>3
    <3>4. CASE Http!HasBytes(Proxied) /\ ~Away
      BY <2>1, <2>3, <2>4, <3>4
    <3>5. QED
      BY <3>2, <3>3, <3>4
  <2>6. Owned'
    <3>1. httpWork[Proxied] # "new"
      BY <1>1, ClientFacts DEF Facts
    <3>2. QED
      BY <1>1, <2>1, <2>2, <2>5, <3>1 DEF Link, Owned
  <2>7. Arrived'
    BY <1>1, <2>2, <2>4 DEF Link, Arrived
  <2>8. Ended'
    <3>1. "final" \in lent'[Proxied] => task[Proxied] = "final"
      BY <2>2, <2>4
    <3>2. task[Proxied] = "final" => (transfer[Proxied].broken => broken')
      BY <2>1, <2>4 DEF Failed
    <3>3. broken' => Failed
      BY <2>1, <2>3, <2>4
    <3>4. Failed \/ ~body[Proxied].streamed => ~transfer[Proxied].live
      BY <2>4, ClientFacts DEF Facts, Failed
    <3>5. QED
      BY <1>1, <3>1, <3>2, <3>3, <3>4 DEF Ended, Failed
  <2>9. Lent'
    <3>1. Away' => given' >= 1
      <4>1. Away' => Away \/ (Http!HasBytes(Proxied) /\ task[Proxied] = "chunk")
        BY <1>1, <2>2 DEF Away
      <4>2. CASE Away
        BY <2>3, <2>4, <2>5, <4>2 DEF Link, Lent
      <4>3. CASE Http!HasBytes(Proxied) /\ ~Away /\ task[Proxied] = "chunk"
        <5>1. Piece # Part
          BY <2>3, <4>3 DEF Failed
        <5>2. QED
          BY <2>3, <2>5, <4>3, <5>1
      <4>4. QED
        BY <4>1, <4>2, <4>3
    <3>2. CASE ~Http!HasBytes(Proxied)
      <4>1. lent'[Proxied] = lent[Proxied] /\ lease' = lease /\ (given # None => given' = given)
        BY <2>1, <2>2, <2>3, <2>5, <3>2
      <4>2. given = None => lent[Proxied] = {}
        BY DEF Link, Owned
      <4>3. QED
        BY <2>4, <3>1, <4>1, <4>2 DEF Link, Lent
    <3>3. CASE Http!HasBytes(Proxied) /\ Away
      <4>1. Piece = Again /\ task[Proxied] = "final" /\ given # None /\ given' = given
        BY <2>3, <2>4, <2>5, <3>3 DEF Failed
      <4>2. lent'[Proxied] = lent[Proxied] \union {"final"} /\ lease' = lease \union {Again}
        BY <2>1, <2>2, <2>4, <3>3, <4>1
      <4>3. CASE lent[Proxied] = {}
        <5>1. lent'[Proxied] = {"final"} /\ lease' = {Again}
          BY <4>2, <4>3 DEF Link, Lent
        <5>2. QED
          BY <3>1, <5>1 DEF Lent
      <4>4. CASE lent[Proxied] = {"chunk"}
        <5>1. lent'[Proxied] = {"chunk", "final"} /\ lease' = {given', Again}
          BY <4>1, <4>2, <4>4 DEF Link, Lent
        <5>2. QED
          BY <3>1, <5>1 DEF Lent
      <4>5. QED
        BY <2>4, <4>3, <4>4
    <3>4. CASE Http!HasBytes(Proxied) /\ ~Away
      <4>1. lent'[Proxied] = {task[Proxied]} /\ lease' = {Piece} /\ Piece \in {given', Part}
        BY <2>1, <2>2, <2>3, <2>4, <2>5, <3>4
      <4>2. task[Proxied] = "chunk" => Piece = given'
        BY <2>3, <4>1 DEF Failed
      <4>3. QED
        BY <2>4, <3>1, <4>1, <4>2 DEF Lent
    <3>5. QED
      BY <3>2, <3>3, <3>4
  <2>10. Placed'
    <3> SUFFICES ASSUME ~broken' PROVE Placed'
      BY DEF Placed
    <3>1. ~Failed
      BY <2>1
    <3>2. AllPieces' = AllPieces
      BY <1>1 DEF AllPieces
    <3>3. total' = AllPieces
      <4>1. given # None => total' = AllPieces
        BY <2>1, <2>3 DEF Link, Placed
      <4>2. transfer[Proxied].broken => Http!HasBytes(Proxied)
        BY <2>4, <3>1, ClientFacts DEF Failed, Facts, Http!HasBytes
      <4>3. given = None => total' = AllPieces
        BY <2>1, <2>3, <4>2 DEF Announced, AllPieces
      <4>4. QED
        BY <4>1, <4>3
    <3>4. CASE Http!HasBytes(Proxied)
      <4>1. ~Away /\ Piece # Part /\ given' = g + 1
        BY <2>3, <2>5, <3>1, <3>4
      <4>2. Away' \/ "final" \in lent'[Proxied]
        BY <2>2, <2>4, <3>4 DEF Away
      <4>3. body[Proxied].streamed => buffer[Proxied].offset = MaxBufferSize * g
        <5>1. given = None => buffer[Proxied].offset = 0 /\ MaxBufferSize * 0 = 0
          BY ProxyAssumption DEF Link, Owned
        <5>2. given # None /\ body[Proxied].streamed => buffer[Proxied].offset = MaxBufferSize * given
          BY <1>1, <2>2, <2>3, <2>4, <4>1 DEF Link, Placed
        <5>3. QED
          BY <5>1, <5>2
      <4>4. given' - 1 = g
        BY <2>3, <4>1
      <4>5. QED
        BY <1>1, <3>2, <3>3, <4>2, <4>3, <4>4 DEF Placed
    <3>5. CASE ~Http!HasBytes(Proxied)
      <4>1. body[Proxied].streamed => task[Proxied] = "final" /\ lent[Proxied] = {} /\ ~transfer[Proxied].live
        <5>1. body[Proxied].streamed => task[Proxied] = "final"
          BY <2>4, <3>5 DEF Http!HasBytes
        <5>2. task[Proxied] = "final" => ~transfer[Proxied].live /\ ~buffer[Proxied].processing
          BY <3>1, ClientFacts DEF Facts, Failed
        <5>3. ~buffer[Proxied].processing => "chunk" \notin lent[Proxied]
          BY ClientFacts DEF Facts
        <5>4. QED
          BY <2>4, <5>1, <5>2, <5>3
      <4>2. lent'[Proxied] = lent[Proxied]
        BY <2>2, <3>5
      <4>3. QED
        BY <1>1, <3>2, <3>3, <4>1, <4>2 DEF Placed
    <3>6. QED
      BY <3>4, <3>5
  <2>11. QED
    BY <2>6, <2>7, <2>8, <2>9, <2>10 DEF Link
<1>4. QED
  BY <1>2, <1>3

(* The main thread.                                                        *)
LEMMA MainLink == ClientInv /\ Inv /\ Link /\ MainStep => Link'
<1> SUFFICES ASSUME ClientInv, Inv, Link, MainStep PROVE Link'
  OBVIOUS
<1>1. CASE TakeTask /\ UNCHANGED <<clientVars, bytes>>
  <2>1. Client!Same(Proxied) /\ UNCHANGED answered
    BY <1>1, QuietClient DEF clientVars
  <2>2. /\ UNCHANGED <<client, mainWork, given, broken, total, lease>>
        /\ handlerWork' # "reset"
    BY <1>1 DEF TakeTask
  <2>3. request[Proxied] = "aborted" => client # "there"
    BY DEF Link, Owned
  <2>4. QED
    BY <2>1, <2>2, <2>3, QuietLink
<1>2. QED
  BY <1>1, PassOnLink, LetGoLink, DeliverLink DEF MainStep

(* The other end leaves.                                                   *)
LEMMA HangUpLink == Link /\ HangUp /\ UNCHANGED clientVars => Link'
<1> SUFFICES ASSUME Link, HangUp, UNCHANGED clientVars PROVE Link'
  OBVIOUS
<1>1. Client!Same(Proxied) /\ UNCHANGED answered
  BY QuietClient DEF clientVars
<1>2. UNCHANGED <<mainWork, handlerWork, given, broken, total, lease>> /\ client' # "there"
  BY ConnectionAssumption DEF HangUp, mainVars
<1>3. QED
  BY <1>1, <1>2, QuietLink

-----------------------------------------------------------------------------
(* The http thread, at the request of the connection.                      *)
LEMMA Still ==
    ASSUME Link, UNCHANGED vars
    PROVE  /\ UNCHANGED <<client, mainWork, handlerWork, given, broken, total, lease>>
           /\ handlerWork' = "reset" \/ request[Proxied] = "aborted" => client' # "there"
<1>1. UNCHANGED <<client, mainWork, handlerWork, given, broken, total, lease>>
  BY DEF vars, mainVars
<1>2. QED
  BY <1>1 DEF Link, Owned

(* The transfer begins.                                                    *)
LEMMA ProcessNewRequestLink ==
    ASSUME ClientInv, Inv, Link, Http!ProcessNewRequest(Proxied), UNCHANGED vars
    PROVE  Link'
<1>1. /\ httpWork[Proxied] = "new" /\ httpWork'[Proxied] = "none"
      /\ UNCHANGED <<request, body, buffer, lent, answered, task>>
  <2>1. httpWork \in [{Proxied} \union Others -> {"none", "new", "continue"}]
    BY DEF ClientInv, Client!Types
  <2>2. QED
    BY <2>1 DEF Http!ProcessNewRequest, Http!EnterProcess
<1>2. /\ transfer'[Proxied].taken = transfer[Proxied].taken
      /\ transfer'[Proxied].held = transfer[Proxied].held
      /\ transfer'[Proxied].broken = transfer[Proxied].broken
  <2> DEFINE t == [transfer EXCEPT ![Proxied].live = TRUE]
  <2>1. transfer \in [{Proxied} \union Others -> Client!Transfer]
    BY DEF ClientInv, Client!Types
  <2>2. /\ t \in [{Proxied} \union Others -> Client!Transfer]
        /\ t[Proxied].taken = transfer[Proxied].taken
        /\ t[Proxied].held = transfer[Proxied].held
        /\ t[Proxied].broken = transfer[Proxied].broken
    <3>1. transfer[Proxied] \in Client!Transfer
      BY <2>1
    <3>2. [transfer[Proxied] EXCEPT !.live = TRUE] \in Client!Transfer
      BY <3>1 DEF Client!Transfer
    <3>3. t[Proxied] = [transfer[Proxied] EXCEPT !.live = TRUE]
      BY <2>1
    <3>4. QED
      BY <2>1, <3>1, <3>2, <3>3 DEF Client!Transfer
  <2>3. Client!EnterProcess(t) \/ UNCHANGED transfer
    BY SameSteps DEF Client!ProcessNewRequest
  <2> HIDE DEF t
  <2>4. QED
    BY <2>2, <2>3, Client!Entered, ClientAssumption
<1>3. given = None /\ ~broken
  BY <1>1 DEF Link, Owned, Inv, OneAnswer
<1>4. Owned'
  BY <1>1, <1>3, Still DEF Link, Owned
<1>5. Arrived'
  BY <1>1, <1>2 DEF Link, Arrived
<1>6. Ended'
  BY <1>1, <1>2, <1>3, Still, ClientFacts DEF Facts, Ended
<1>7. Lent'
  BY <1>1, <1>3, Still DEF Link, Owned, Lent, Away
<1>8. Placed'
  BY <1>3, Still DEF Placed
<1>9. QED
  BY <1>4, <1>5, <1>6, <1>7, <1>8 DEF Link

(* Curl does not keep more than a chunk, nor more than there is.           *)
LEMMA StoredHeld ==
    ASSUME NEW b, NEW t \in Client!Transfer, NEW k \in 1..ChunkMax,
           t.taken + k <= body[Proxied].size,
           NEW s, s = Client!Stored(Proxied, b, t, k)
    PROVE  s[2].held <= ChunkMax /\ s[2].taken + s[2].held <= body[Proxied].size
<1>1. s[2] = [t EXCEPT !.held = k] \/ s[2] = [t EXCEPT !.taken = @ + k, !.held = 0]
  BY DEF Client!Stored
<1>2. \/ s[2].held = k /\ s[2].taken = t.taken
      \/ s[2].held = 0 /\ s[2].taken = t.taken + k
  BY <1>1 DEF Client!Transfer
<1>3. k \in Nat /\ t.taken \in Nat /\ k <= ChunkMax /\ 0 <= ChunkMax
  BY ProxyAssumption DEF Client!Transfer
<1>4. QED
  BY <1>2, <1>3

(* The buffer is emptied: what comes next begins where the last piece      *)
(* ended.                                                                  *)
LEMMA ContinueRequestLink ==
    ASSUME ClientInv, Inv, Link, Http!ContinueRequest(Proxied), UNCHANGED vars
    PROVE  Link'
<1>1. /\ httpWork[Proxied] = "continue" /\ httpWork'[Proxied] = "none"
      /\ UNCHANGED <<request, body, lent, answered, task>>
  <2>1. httpWork \in [{Proxied} \union Others -> {"none", "new", "continue"}]
    BY DEF ClientInv, Client!Types
  <2>2. QED
    BY <2>1 DEF Http!ContinueRequest
<1>2. /\ given # None /\ given >= 1 /\ "chunk" \notin lent[Proxied] /\ buffer[Proxied].processing
      /\ Len(buffer[Proxied].data) = MaxBufferSize /\ request[Proxied] # "unmade"
      /\ task[Proxied] # "chunk"
  BY <1>1, ClientFacts DEF Facts, Link, Owned, Lent, Arrived, Away
<1>3. Away /\ ~Away'
  BY <1>1, <1>2 DEF Away
<1>4. /\ transfer'[Proxied].live => transfer[Proxied].live
      /\ transfer'[Proxied].broken = transfer[Proxied].broken
      /\ transfer'[Proxied].held <= ChunkMax
      /\ transfer'[Proxied].taken + transfer'[Proxied].held <= body[Proxied].size
      /\ transfer[Proxied].broken \/ ~transfer[Proxied].live =>
            transfer'[Proxied].taken = transfer[Proxied].taken
      /\ buffer'[Proxied].processing => buffer'[Proxied] = buffer[Proxied]
      /\ request[Proxied] = "held" =>
            buffer'[Proxied].offset = buffer[Proxied].offset + MaxBufferSize
  <2>1. /\ transfer \in [{Proxied} \union Others -> Client!Transfer]
        /\ buffer \in [{Proxied} \union Others -> Client!Buffer]
        /\ Client!Types /\ Client!Sound(Proxied)
    BY DEF ClientInv, Client!Types, Client!AllSound
  <2>2. Client!ContinueRequest(Proxied)
    BY SameSteps
  <2>3. CASE UNCHANGED <<transfer, buffer>> /\ Client!Aborted(Proxied)
    BY <2>3 DEF Client!Aborted, Link, Arrived
  <2>4. CASE Client!Continue(Proxied) /\ ~Client!Aborted(Proxied)
    <3>1. PICK s \in Client!Resumed(Proxied) :
             /\ buffer' = [buffer EXCEPT ![Proxied] = s[1]]
             /\ Client!EnterProcess([transfer EXCEPT ![Proxied] = s[2]])
      BY <2>4 DEF Client!Continue
    <3>2. request[Proxied] = "held"
      BY <1>2, <2>4, ClientFacts DEF Client!Aborted, Facts
    <3>3. /\ s[1] \in Client!Buffer /\ s[2] \in Client!Transfer
          /\ s[1].offset = buffer[Proxied].offset + Len(buffer[Proxied].data)
          /\ ~s[1].processing
          /\ s[2].live = transfer[Proxied].live /\ s[2].broken = transfer[Proxied].broken
      BY <1>1, <2>1, <3>2, Client!ResumedKeeps, ClientAssumption
    <3> DEFINE t == [transfer EXCEPT ![Proxied] = s[2]]
    <3>4. /\ t \in [{Proxied} \union Others -> Client!Transfer] /\ t[Proxied] = s[2]
          /\ Client!EnterProcess(t)
      BY <2>1, <3>1, <3>3
    <3> HIDE DEF t
    <3>5. /\ transfer'[Proxied].live = (s[2].live /\ ~Client!Aborted(Proxied))
          /\ transfer'[Proxied].taken = s[2].taken
          /\ transfer'[Proxied].held = s[2].held
          /\ transfer'[Proxied].broken = s[2].broken
      BY <3>4, Client!Entered, ClientAssumption
    <3>6. buffer'[Proxied] = s[1]
      BY <2>1, <3>1
    <3>7. /\ s[2].held <= ChunkMax /\ s[2].taken + s[2].held <= body[Proxied].size
          /\ transfer[Proxied].broken \/ ~transfer[Proxied].live =>
                s[2].taken = transfer[Proxied].taken
      <4>1. CASE transfer[Proxied].live /\ transfer[Proxied].held > 0
        <5>1. PICK k \in transfer[Proxied].held..Client!Least(ChunkMax, Client!Rest(Proxied)) :
                 s = Client!Stored(Proxied, Client!Emptied(buffer[Proxied]), transfer[Proxied], k)
          BY <4>1 DEF Client!Resumed
        <5>2. /\ transfer[Proxied].held \in Nat /\ transfer[Proxied].taken \in Nat
              /\ body[Proxied].size \in Nat /\ ChunkMax \in Nat
          BY ClientFacts, ProxyAssumption DEF Facts
        <5>3. k \in 1..ChunkMax /\ transfer[Proxied].taken + k <= body[Proxied].size
          BY <4>1, <5>2 DEF Client!Least, Client!Rest
        <5>4. transfer[Proxied] \in Client!Transfer
          BY <2>1
        <5>5. s[2].held <= ChunkMax /\ s[2].taken + s[2].held <= body[Proxied].size
          BY <5>1, <5>3, <5>4, StoredHeld
        <5>6. QED
          BY <4>1, <5>5, ClientFacts DEF Facts
      <4>2. CASE ~(transfer[Proxied].live /\ transfer[Proxied].held > 0)
        <5>1. s[2] = transfer[Proxied]
          BY <4>2 DEF Client!Resumed
        <5>2. QED
          BY <5>1 DEF Link, Arrived
      <4>3. QED
        BY <4>1, <4>2
    <3>8. transfer'[Proxied].live => transfer[Proxied].live
      BY <3>3, <3>5
    <3>9. QED
      BY <1>2, <3>3, <3>5, <3>6, <3>7, <3>8
  <2>5. QED
    BY <2>2, <2>3, <2>4 DEF Client!ContinueRequest
<1>5. UNCHANGED <<client, mainWork, handlerWork, given, broken, total, lease>>
  BY Still
<1>6. Owned'
  BY <1>1, <1>2, <1>5 DEF Link, Owned
<1>7. Arrived'
  <2>1. task[Proxied] = "final" \/ "final" \in lent[Proxied] => ~transfer[Proxied].live
    BY ClientFacts DEF Facts
  <2>2. QED
    BY <1>1, <1>2, <1>4, <2>1 DEF Link, Arrived
<1>8. Ended'
  BY <1>1, <1>2, <1>4, <1>5 DEF Link, Ended
<1>9. Lent'
  BY <1>1, <1>2, <1>3, <1>5 DEF Link, Lent
<1>10. Placed'
  <2> SUFFICES ASSUME ~broken, request[Proxied] = "held", body[Proxied].streamed,
                      transfer[Proxied].live \/ task[Proxied] # "none" \/ lent[Proxied] # {}
               PROVE  Placed'
    BY <1>1, <1>2, <1>4, <1>5 DEF Link, Placed, AllPieces
  <2>1. buffer[Proxied].offset = MaxBufferSize * (given - 1)
    BY <1>2, <1>3 DEF Link, Placed
  <2>2. "final" \notin lent[Proxied]
    BY <1>2, ClientFacts DEF Facts, Link, Ended
  <2>3. buffer'[Proxied].offset = MaxBufferSize * given
    <3>1. given \in Nat /\ MaxBufferSize \in Nat
      BY <1>2, ProxyAssumption DEF Inv, TypeOK
    <3>2. MaxBufferSize * (given - 1) + MaxBufferSize = MaxBufferSize * given
      BY <1>2, <3>1
    <3>3. QED
      BY <1>4, <2>1, <3>2
  <2>4. QED
    BY <1>1, <1>2, <1>3, <1>5, <2>2, <2>3 DEF Link, Placed, AllPieces
<1>11. QED
  BY <1>6, <1>7, <1>8, <1>9, <1>10 DEF Link

(* What a chunk that arrives leaves as it was.                             *)
LEMMA Chunk ==
    ASSUME Client!Types, NEW r \in {Proxied} \union Others, Client!Sound(r),
           transfer[r].live, ~transfer[r].broken, transfer[r].held = 0,
           NEW k \in 1..Client!Least(ChunkMax, Client!Rest(r)),
           NEW s, s = Client!Stored(r, buffer[r], transfer[r], k)
    PROVE  /\ s[1].offset = buffer[r].offset /\ s[1].processing = buffer[r].processing
           /\ s[2].live = transfer[r].live /\ s[2].broken = transfer[r].broken
           /\ body[r].streamed /\ Len(buffer[r].data) = MaxBufferSize =>
                 s[1].data = buffer[r].data
<1>1. s[1].offset = buffer[r].offset
  BY Client!ReceivedKeeps, ClientAssumption
<1>2. s[1].processing = buffer[r].processing
  BY Client!ReceivedKeeps, ClientAssumption
<1>3. s[2].live = transfer[r].live
  BY Client!ReceivedKeeps, ClientAssumption
<1>4. s[2].broken = transfer[r].broken
  BY Client!ReceivedKeeps, ClientAssumption
<1>5. body[r].streamed /\ Len(buffer[r].data) = MaxBufferSize => s[1].data = buffer[r].data
  BY Client!ReceivedKeeps, ClientAssumption
<1>6. QED
  BY <1>1, <1>2, <1>3, <1>4, <1>5

(* Bytes arrive: a piece that is lent is not touched.                      *)
LEMMA ReceiveLink ==
    ASSUME ClientInv, Inv, Link, Http!Receive(Proxied), UNCHANGED vars
    PROVE  Link'
<1>1. /\ transfer[Proxied].live /\ ~transfer[Proxied].broken
      /\ UNCHANGED <<request, body, httpWork, lent, answered, task>>
  BY DEF Http!Receive
<1>2. /\ transfer'[Proxied].live = transfer[Proxied].live
      /\ ~transfer'[Proxied].broken
      /\ transfer'[Proxied].held <= ChunkMax
      /\ transfer'[Proxied].taken + transfer'[Proxied].held <= body[Proxied].size
      /\ buffer'[Proxied].offset = buffer[Proxied].offset
      /\ buffer'[Proxied].processing =>
            buffer[Proxied].processing /\ buffer'[Proxied].data = buffer[Proxied].data
  <2>1. /\ transfer \in [{Proxied} \union Others -> Client!Transfer]
        /\ buffer \in [{Proxied} \union Others -> Client!Buffer]
        /\ Client!Types /\ Client!Sound(Proxied)
    BY DEF ClientInv, Client!Types, Client!AllSound
  <2>2. transfer[Proxied].held = 0 /\ Client!Receive(Proxied)
    BY SameSteps DEF Client!Receive
  <2>3. PICK k \in 1..Client!Least(ChunkMax, Client!Rest(Proxied)) :
           LET s == Client!Stored(Proxied, buffer[Proxied], transfer[Proxied], k) IN
           /\ buffer' = [buffer EXCEPT ![Proxied] = s[1]]
           /\ transfer' = [transfer EXCEPT ![Proxied] = s[2]]
    BY <2>2 DEF Client!Receive
  <2> DEFINE s == Client!Stored(Proxied, buffer[Proxied], transfer[Proxied], k)
  <2>4. /\ s[1].offset = buffer[Proxied].offset /\ s[1].processing = buffer[Proxied].processing
        /\ s[2].live = transfer[Proxied].live /\ s[2].broken = transfer[Proxied].broken
        /\ body[Proxied].streamed /\ Len(buffer[Proxied].data) = MaxBufferSize =>
              s[1].data = buffer[Proxied].data
    <3> HIDE DEF s
    <3>1. s = Client!Stored(Proxied, buffer[Proxied], transfer[Proxied], k)
      BY DEF s
    <3>2. /\ Client!Types /\ Client!Sound(Proxied) /\ Proxied \in {Proxied} \union Others
          /\ transfer[Proxied].live /\ ~transfer[Proxied].broken /\ transfer[Proxied].held = 0
          /\ k \in 1..Client!Least(ChunkMax, Client!Rest(Proxied))
      BY <1>1, <2>1, <2>2
    <3>3. s[1].offset = buffer[Proxied].offset /\ s[1].processing = buffer[Proxied].processing
      BY <3>1, <3>2, Chunk
    <3>4. s[2].live = transfer[Proxied].live /\ s[2].broken = transfer[Proxied].broken
      BY <3>1, <3>2, Chunk
    <3>5. body[Proxied].streamed /\ Len(buffer[Proxied].data) = MaxBufferSize =>
             s[1].data = buffer[Proxied].data
      BY <3>1, <3>2, Chunk
    <3>6. QED
      BY <3>3, <3>4, <3>5
  <2>5. s[2].held <= ChunkMax /\ s[2].taken + s[2].held <= body[Proxied].size
    <3>1. /\ transfer[Proxied].taken \in Nat /\ body[Proxied].size \in Nat /\ ChunkMax \in Nat
      BY ClientFacts, ProxyAssumption DEF Facts
    <3>2. k \in 1..ChunkMax /\ transfer[Proxied].taken + k <= body[Proxied].size
      BY <3>1 DEF Client!Least, Client!Rest
    <3>3. transfer[Proxied] \in Client!Transfer
      BY <2>1
    <3>4. QED
      BY <3>2, <3>3, StoredHeld
  <2>6. buffer'[Proxied] = s[1] /\ transfer'[Proxied] = s[2]
    BY <2>1, <2>3
  <2>7. buffer[Proxied].processing =>
           body[Proxied].streamed /\ Len(buffer[Proxied].data) = MaxBufferSize
    BY ClientFacts DEF Facts, Link, Arrived
  <2> HIDE DEF s
  <2>8. QED
    BY <1>1, <2>4, <2>5, <2>6, <2>7
<1>3. UNCHANGED <<client, mainWork, handlerWork, given, broken, total, lease>>
  BY Still
<1>4. task[Proxied] # "final" /\ "final" \notin lent[Proxied]
  BY <1>1, ClientFacts DEF Facts
<1>5. Owned'
  BY <1>1, <1>2, <1>3 DEF Link, Owned
<1>6. Arrived'
  BY <1>1, <1>2, <1>4 DEF Link, Arrived
<1>7. Ended'
  BY <1>1, <1>2, <1>3, <1>4 DEF Link, Ended
<1>8. Lent'
  BY <1>1, <1>3 DEF Link, Lent, Away
<1>9. Placed'
  BY <1>1, <1>2, <1>3 DEF Link, Placed, AllPieces, Away
<1>10. QED
  BY <1>5, <1>6, <1>7, <1>8, <1>9 DEF Link

(* The transfer fails; the connection hears of it with the last callback.  *)
LEMMA BreakLink ==
    ASSUME ClientInv, Inv, Link, Http!Break(Proxied), UNCHANGED vars
    PROVE  Link'
<1>1. /\ Breaks /\ transfer[Proxied].live /\ body[Proxied].size - transfer[Proxied].taken > 0
      /\ UNCHANGED <<request, body, httpWork, lent, answered, task, buffer>>
      /\ transfer' = [transfer EXCEPT ![Proxied].broken = TRUE]
  BY DEF Http!Break, Http!Rest
<1>2. /\ transfer'[Proxied].live = transfer[Proxied].live
      /\ transfer'[Proxied].broken
      /\ transfer'[Proxied].held = transfer[Proxied].held
      /\ transfer'[Proxied].taken = transfer[Proxied].taken
  <2>1. transfer \in [{Proxied} \union Others -> Client!Transfer]
    BY DEF ClientInv, Client!Types
  <2>2. transfer[Proxied] \in Client!Transfer
    BY <2>1
  <2>3. transfer'[Proxied] = [transfer[Proxied] EXCEPT !.broken = TRUE]
    BY <1>1, <2>1
  <2>4. QED
    BY <2>2, <2>3 DEF Client!Transfer
<1>3. UNCHANGED <<client, mainWork, handlerWork, given, broken, total, lease>>
  BY Still
<1>4. task[Proxied] # "final" /\ "final" \notin lent[Proxied]
      /\ transfer[Proxied].taken < body[Proxied].size
  BY <1>1, ClientFacts DEF Facts
<1>5. Owned'
  BY <1>1, <1>3 DEF Link, Owned
<1>6. Arrived'
  BY <1>1, <1>2, <1>4 DEF Link, Arrived
<1>7. Ended'
  BY <1>1, <1>2, <1>3, <1>4 DEF Link, Ended
<1>8. Lent'
  BY <1>1, <1>3 DEF Link, Lent, Away
<1>9. Placed'
  BY <1>1, <1>2, <1>3 DEF Link, Placed, AllPieces, Away
<1>10. QED
  BY <1>5, <1>6, <1>7, <1>8, <1>9 DEF Link
-----------------------------------------------------------------------------
(* The end of process(): a transfer that is over is finished, one whose    *)
(* buffer is full is announced.                                            *)
LEMMA LeaveLink ==
    ASSUME ClientInv, Inv, Link, Http!LeaveProcess, UNCHANGED vars
    PROVE  Link'
<1> DEFINE full == {r \in Client!Live : Client!Full(r)}
<1>1. UNCHANGED <<request, body, httpWork, lent, answered>> /\ Client!Leave(full)
  BY SameLoop DEF Client!LeaveProcess, Client!Leave
<1>2. Proxied \in full =>
         /\ transfer[Proxied].live /\ ~Client!Over(Proxied) /\ body[Proxied].streamed
         /\ Len(buffer[Proxied].data) >= MaxBufferSize
  BY DEF Client!Full
<1> HIDE DEF full
<1>3. /\ transfer'[Proxied].live = (transfer[Proxied].live /\ ~Client!Over(Proxied))
      /\ transfer'[Proxied].taken = transfer[Proxied].taken
      /\ transfer'[Proxied].held = transfer[Proxied].held
      /\ transfer'[Proxied].broken = transfer[Proxied].broken
      /\ buffer'[Proxied].offset = buffer[Proxied].offset
      /\ buffer'[Proxied].data = buffer[Proxied].data
      /\ buffer'[Proxied].processing = (buffer[Proxied].processing \/ Proxied \in full)
      /\ task'[Proxied] = IF Client!Over(Proxied) THEN "final"
                          ELSE IF Proxied \in full THEN "chunk" ELSE task[Proxied]
  BY <1>1, Client!Left, ClientAssumption DEF ClientInv
<1>4. Client!Over(Proxied) =>
         /\ transfer[Proxied].live
         /\ transfer[Proxied].broken \/ transfer[Proxied].taken = body[Proxied].size
  <2>1. transfer[Proxied].taken \in Nat /\ body[Proxied].size \in Nat
    BY ClientFacts DEF Facts
  <2>2. QED
    BY <2>1 DEF Client!Over, Client!Rest
<1>5. Proxied \in full => Len(buffer[Proxied].data) = MaxBufferSize
  <2>1. Len(buffer[Proxied].data) \in Nat /\ MaxBufferSize \in Nat
    BY ClientFacts, ProxyAssumption DEF Facts
  <2>2. body[Proxied].streamed => Len(buffer[Proxied].data) <= MaxBufferSize
    BY ClientFacts DEF Facts
  <2>3. QED
    BY <1>2, <2>1, <2>2
<1>6. transfer[Proxied].live => "final" \notin lent[Proxied] /\ task[Proxied] # "final"
  BY ClientFacts DEF Facts
<1>7. UNCHANGED <<client, mainWork, handlerWork, given, broken, total, lease>>
  BY Still
<1>8. ~transfer[Proxied].live => task'[Proxied] = task[Proxied] /\ ~transfer'[Proxied].live
  BY <1>2, <1>3, <1>4
<1>9. Owned'
  BY <1>1, <1>3, <1>7 DEF Link, Owned
<1>10. Arrived'
  BY <1>1, <1>3, <1>4, <1>5, <1>6 DEF Link, Arrived
<1>11. Ended'
  BY <1>1, <1>3, <1>6, <1>7, <1>8 DEF Link, Ended
<1>12. Lent'
  BY <1>1, <1>7 DEF Link, Lent, Away
<1>13. Placed'
  BY <1>1, <1>3, <1>7, <1>8 DEF Link, Placed, AllPieces, Away
<1>14. QED
  BY <1>9, <1>10, <1>11, <1>12, <1>13 DEF Link

-----------------------------------------------------------------------------
(* What the http thread does for other requests leaves this one alone, but *)
(* that process() cleans it up if it was dropped.                          *)
LEMMA EnteredSame ==
    ASSUME ClientInv, NEW t \in [{Proxied} \union Others -> Client!Transfer],
           Client!EnterProcess(t), t[Proxied] = transfer[Proxied],
           UNCHANGED <<request, body, task, lent, received>>,
           httpWork'[Proxied] = httpWork[Proxied], buffer'[Proxied] = buffer[Proxied]
    PROVE  Client!Same(Proxied)
<1>1. /\ transfer'[Proxied].live = (t[Proxied].live /\ ~Client!Aborted(Proxied))
      /\ transfer'[Proxied].taken = t[Proxied].taken
      /\ transfer'[Proxied].held = t[Proxied].held
      /\ transfer'[Proxied].broken = t[Proxied].broken
  BY Client!Entered, ClientAssumption
<1>2. transfer[Proxied].live \in BOOLEAN
  BY ClientFacts DEF Facts
<1>3. \/ transfer'[Proxied].live = transfer[Proxied].live
      \/ request[Proxied] # "held" /\ ~transfer'[Proxied].live
  BY <1>1, <1>2 DEF Client!Aborted
<1>4. QED
  BY <1>1, <1>3 DEF Client!Same

(* What the main thread does for other requests leaves this one alone.     *)
LEMMA ElsewhereSame ==
    ASSUME ClientInv, NEW r \in Others,
           Client!Request(r) \/ Client!Abort(r) \/ Client!TriggerCallbacks(r)
    PROVE  Client!Same(Proxied) /\ (Proxied \in answered') = (Proxied \in answered)
<1>1. r # Proxied
  BY ProxyAssumption
<1>2. Client!Types
  BY DEF ClientInv
<1>3. CASE Client!Request(r)
  <2>1. request'[Proxied] = request[Proxied] /\ httpWork'[Proxied] = httpWork[Proxied]
    BY <1>1, <1>2, <1>3 DEF Client!Request, Client!Types
  <2>2. body'[Proxied] = body[Proxied]
    BY <1>1, <1>2, <1>3 DEF Client!Request, Client!Types
  <2>3. QED
    BY <1>3, <2>1, <2>2 DEF Client!Same, Client!Request
<1>4. CASE Client!Abort(r)
  <2>1. request'[Proxied] = request[Proxied]
    BY <1>1, <1>2, <1>4 DEF Client!Abort, Client!Types
  <2>2. QED
    BY <1>4, <2>1 DEF Client!Same, Client!Abort
<1>5. CASE Client!TriggerCallbacks(r)
  <2>1. task'[Proxied] = task[Proxied]
    BY <1>1, <1>2, <1>5 DEF Client!TriggerCallbacks, Client!Types
  <2>2. request'[Proxied] = request[Proxied]
    BY <1>1, <1>2, <1>5 DEF Client!TriggerCallbacks, Client!Types
  <2>3. received'[Proxied] = received[Proxied] /\ lent'[Proxied] = lent[Proxied]
    BY <1>1, <1>2, <1>5 DEF Client!TriggerCallbacks, Client!Types
  <2>4. (Proxied \in answered') = (Proxied \in answered)
    BY <1>1, <1>2, <1>5 DEF Client!TriggerCallbacks, Client!Types
  <2>5. QED
    BY <1>5, <2>1, <2>2, <2>3, <2>4 DEF Client!Same, Client!TriggerCallbacks
<1>6. QED
  BY <1>3, <1>4, <1>5

(* So do the tasks of the http thread.                                     *)
LEMMA TaskElsewhereSame ==
    ASSUME ClientInv, NEW r \in Others,
           \/ Client!ProcessNewRequest(r) \/ Client!ContinueRequest(r)
           \/ Client!Receive(r) \/ Client!Break(r)
    PROVE  Client!Same(Proxied) /\ UNCHANGED answered
<1>1. r # Proxied
  BY ProxyAssumption
<1>2. /\ transfer \in [{Proxied} \union Others -> Client!Transfer]
      /\ buffer \in [{Proxied} \union Others -> Client!Buffer]
      /\ httpWork \in [{Proxied} \union Others -> {"none", "new", "continue"}]
      /\ task \in [{Proxied} \union Others -> {"none", "refuse", "chunk", "final"}]
      /\ Client!Types /\ Client!Sound(r)
  BY DEF ClientInv, Client!Types, Client!AllSound
<1>3. CASE Client!ProcessNewRequest(r)
  <2>1. httpWork'[Proxied] = httpWork[Proxied]
    BY <1>1, <1>2, <1>3 DEF Client!ProcessNewRequest
  <2>2. CASE UNCHANGED <<http, transfer, task>>
    BY <1>3, <2>1, <2>2 DEF Client!ProcessNewRequest, Client!Same
  <2>3. CASE Client!EnterProcess([transfer EXCEPT ![r].live = TRUE]) /\ UNCHANGED task
    <3> DEFINE t == [transfer EXCEPT ![r].live = TRUE]
    <3>1. transfer[r] \in Client!Transfer
      BY <1>2
    <3>2. [transfer[r] EXCEPT !.live = TRUE] \in Client!Transfer
      BY <3>1 DEF Client!Transfer
    <3>3. t \in [{Proxied} \union Others -> Client!Transfer] /\ t[Proxied] = transfer[Proxied]
      BY <1>1, <1>2, <3>2
    <3>4. Client!EnterProcess(t)
      BY <2>3
    <3> HIDE DEF t
    <3>5. QED
      BY <1>3, <2>1, <2>3, <3>3, <3>4, EnteredSame DEF Client!ProcessNewRequest
  <2>4. QED
    BY <1>3, <2>2, <2>3 DEF Client!ProcessNewRequest
<1>4. CASE Client!ContinueRequest(r)
  <2>1. httpWork'[Proxied] = httpWork[Proxied]
    BY <1>1, <1>2, <1>4 DEF Client!ContinueRequest
  <2>2. CASE UNCHANGED <<http, transfer, buffer>>
    BY <1>4, <2>1, <2>2 DEF Client!ContinueRequest, Client!Same
  <2>3. CASE ~Client!Aborted(r) /\ Client!Continue(r)
    <3>1. PICK s \in Client!Resumed(r) :
             /\ buffer' = [buffer EXCEPT ![r] = s[1]]
             /\ Client!EnterProcess([transfer EXCEPT ![r] = s[2]])
      BY <2>3 DEF Client!Continue
    <3>2. request[r] = "held" /\ httpWork[r] = "continue"
      BY <1>2, <1>4, <2>3
         DEF Client!ContinueRequest, Client!Aborted, Client!Sound, Client!Begins, Client!Types
    <3>3. s[2] \in Client!Transfer
      BY <1>2, <3>2, Client!ResumedKeeps, ClientAssumption
    <3> DEFINE t == [transfer EXCEPT ![r] = s[2]]
    <3>4. /\ t \in [{Proxied} \union Others -> Client!Transfer]
          /\ t[Proxied] = transfer[Proxied] /\ Client!EnterProcess(t)
      BY <1>1, <1>2, <3>1, <3>3
    <3>5. buffer'[Proxied] = buffer[Proxied]
      BY <1>1, <1>2, <3>1
    <3> HIDE DEF t
    <3>6. QED
      BY <1>4, <2>1, <3>4, <3>5, EnteredSame DEF Client!ContinueRequest
  <2>4. QED
    BY <1>4, <2>2, <2>3 DEF Client!ContinueRequest
<1>5. CASE Client!Receive(r)
  <2>1. transfer'[Proxied] = transfer[Proxied] /\ buffer'[Proxied] = buffer[Proxied]
    BY <1>1, <1>2, <1>5 DEF Client!Receive
  <2>2. QED
    BY <1>5, <2>1 DEF Client!Receive, Client!Same
<1>6. CASE Client!Break(r)
  <2>1. transfer'[Proxied] = transfer[Proxied]
    BY <1>1, <1>2, <1>6 DEF Client!Break
  <2>2. QED
    BY <1>6, <2>1 DEF Client!Break, Client!Same
<1>7. QED
  BY <1>3, <1>4, <1>5, <1>6

(* The http thread.                                                        *)
LEMMA HttpLink ==
    ASSUME ClientInv, Inv, Link, UNCHANGED vars,
           \/ HttpLoop
           \/ \E r \in {Proxied} \union Others : HttpTask(r) \/ Http!Break(r)
    PROVE  Link'
<1>1. CASE Http!ProcessAgain
  <2>1. transfer \in [{Proxied} \union Others -> Client!Transfer]
    BY DEF ClientInv, Client!Types
  <2>2. /\ Client!EnterProcess(transfer)
        /\ UNCHANGED <<request, body, httpWork, task, buffer, lent, answered, received>>
    BY <1>1, SameLoop DEF Client!ProcessAgain
  <2>3. Client!Same(Proxied)
    BY <2>1, <2>2, EnteredSame
  <2>4. QED
    BY <2>2, <2>3, Still, QuietLink
<1>2. CASE Http!LeaveProcess
  BY <1>2, LeaveLink
<1>3. ASSUME NEW r \in Others, HttpTask(r) \/ Http!Break(r)
      PROVE  Link'
  <2>1. Client!Same(Proxied) /\ UNCHANGED answered
    BY <1>3, SameSteps, TaskElsewhereSame DEF HttpTask
  <2>2. QED
    BY <2>1, Still, QuietLink
<1>4. ASSUME HttpTask(Proxied) \/ Http!Break(Proxied)
      PROVE  Link'
  BY <1>4, ProcessNewRequestLink, ContinueRequestLink, ReceiveLink, BreakLink DEF HttpTask
<1>5. QED
  BY <1>1, <1>2, <1>3, <1>4 DEF HttpLoop

(* Link is preserved by every step.                                        *)
LEMMA LinkStep == ClientInv /\ Inv /\ Link /\ [ProxyNext]_proxyVars => Link'
<1> SUFFICES ASSUME ClientInv, Inv, Link, [ProxyNext]_proxyVars PROVE Link'
  OBVIOUS
<1>1. CASE UNCHANGED proxyVars
  <2>1. Client!Same(Proxied) /\ UNCHANGED <<answered, vars>>
    BY <1>1, QuietClient DEF proxyVars, clientVars
  <2>2. QED
    BY <2>1, Still, QuietLink
<1>2. CASE ProxyNext
  <2>1. ASSUME NEW r \in Others, Elsewhere(r), UNCHANGED vars
        PROVE  Link'
    <3>1. Client!Same(Proxied) /\ (Proxied \in answered') = (Proxied \in answered)
      BY <2>1, SameSteps, ElsewhereSame DEF Elsewhere, UpdateState
    <3>2. QED
      BY <2>1, <3>1, Still, QuietLink
  <2>2. QED
    BY <1>2, <2>1, AsioLink, MainLink, HangUpLink, HttpLink DEF ProxyNext
<1>3. QED
  BY <1>1, <1>2
-----------------------------------------------------------------------------
ProxyInv == ClientInv /\ Inv /\ Link

(* The inductive invariant of a proxied request.                           *)
LEMMA ProxyInvariant == ProxySpec => []ProxyInv
<1>1. ProxyInit => ProxyInv
  BY ClientInit, InitLink, InitHolds DEF ProxyInit, ProxyInv, Inv
<1>2. ProxyInv /\ [ProxyNext]_proxyVars => ProxyInv'
  <2> SUFFICES ASSUME ProxyInv, [ProxyNext]_proxyVars PROVE ProxyInv'
    OBVIOUS
  <2>1. Inv'
    BY ClientFacts, StepMaps, TypeStep, OneAnswerStep, InFlightStep, InOrderStep
       DEF ProxyInv, Inv
  <2>2. QED
    BY <2>1, ClientStep, LinkStep DEF ProxyInv
<1>3. QED
  BY <1>1, <1>2, PTL DEF ProxySpec

(* The HTTP client is the service that Connection assumes: what it calls   *)
(* on_response and on_bytes with, and when, is what AnswerFromService,     *)
(* NextPiece and ServiceBreaks of Connection allow, whatever the sizes of  *)
(* bodies, buffer and chunks are and whenever the transfer fails.          *)
THEOREM ServiceAsAssumed == ProxySpec => ImplementsConnection
<1>1. ProxyInit => Init
  BY DEF ProxyInit
<1>2. ProxyInv /\ [ProxyNext]_proxyVars => [Next]_vars
  BY ClientFacts, StepMaps DEF ProxyInv
<1>3. QED
  BY <1>1, <1>2, ProxyInvariant, PTL DEF ProxySpec, ImplementsConnection, Spec

(* So all that is proved of Connection holds of a proxied request; here,   *)
(* that it is closed when complete, for BodyRelayed.                       *)
LEMMA ProxiedClosedComplete == ProxySpec => []ClosedWhenComplete
BY ServiceAsAssumed, ClosedComplete, PTL DEF ImplementsConnection
-----------------------------------------------------------------------------
(* What was sent: all that came before the piece the connection holds, or  *)
(* all that it was given.                                                  *)
Spot ==
    IF ~body[Proxied].streamed THEN IF wire = <<>> THEN 0 ELSE body[Proxied].size
    ELSE IF given \in {None, 0} THEN 0
    ELSE IF given \in lease THEN MaxBufferSize * (given - 1)
    ELSE Client!Least(MaxBufferSize * given, body[Proxied].size)

Unasked == request[Proxied] = "unmade" => body[Proxied].size = 0 /\ ~body[Proxied].streamed

FromBeginning == bytes \in Seq(Nat) /\ (~broken /\ ~cut => bytes = Client!UpTo(Len(bytes)))

UpToSpot == Whole /\ ~broken => Len(bytes) = Spot

ToTheEnd ==
    sock = "closed" /\ client = "there" /\ ~cut /\ ~broken =>
        given # None /\ Len(bytes) = body[Proxied].size

(* The body that comes with the head.                                      *)
WithHead ==
    ~body[Proxied].streamed /\ given # None /\ ~broken /\ request[Proxied] # "aborted" =>
        received[Proxied] = Client!UpTo(body[Proxied].size)

Relayed == Unasked /\ FromBeginning /\ UpToSpot /\ ToTheEnd /\ WithHead

(* As long as the other end is there and the transfer goes well, the       *)
(* connection holds the piece that is in the buffer, or none.              *)
LEMMA PieceHeld ==
    ASSUME ClientInv, Inv, Link, client = "there", ~broken, NEW p \in lease
    PROVE  /\ p = given /\ lease = {given} /\ given \in Nat /\ given >= 1
           /\ request[Proxied] = "held" /\ body[Proxied].streamed
           /\ buffer[Proxied].offset = MaxBufferSize * (given - 1)
           /\ buffer[Proxied].data = Client!Run(buffer[Proxied].offset, Len(buffer[Proxied].data))
           /\ buffer[Proxied].offset + Len(buffer[Proxied].data) =
                 Client!Least(MaxBufferSize * given, body[Proxied].size)
<1> DEFINE n == body[Proxied].size
           M == MaxBufferSize
           o == buffer[Proxied].offset
           l == Len(buffer[Proxied].data)
<1>1. lease \subseteq 1..given /\ given \in Nat /\ given >= 1 /\ given # None /\ given <= total
      /\ Part \notin lease /\ Again \notin lease
  <2>1. lease \subseteq 1..given /\ Part \notin lease /\ Again \notin lease
    BY DEF Inv, InFlight, Special
  <2>2. given \in Int /\ given <= total /\ None = -1
    BY Numbers DEF Inv
  <2>3. QED
    BY <2>1, <2>2
<1>2. /\ lent[Proxied] = {"chunk"} \/ lent[Proxied] = {"final"}
      /\ lease = {given}
  <2>1. lent[Proxied] \in SUBSET {"chunk", "final"}
    BY ClientFacts DEF Facts
  <2>2. \/ lent[Proxied] = {} \/ lent[Proxied] = {"chunk"} \/ lent[Proxied] = {"final"}
        \/ lent[Proxied] = {"chunk", "final"}
    BY <2>1
  <2>3. QED
    BY <1>1, <2>2 DEF Link, Lent
<1>3. request[Proxied] = "held"
  BY <1>2, ClientFacts DEF Facts, Link, Owned
<1>4. body[Proxied].streamed
  BY <1>1 DEF Link, Placed, AllPieces
<1>5. o = M * (given - 1)
  BY <1>1, <1>2, <1>3, <1>4 DEF Link, Placed, Away
<1>6. buffer[Proxied].data = Client!Run(o, l)
  BY DEF ClientInv, Client!AllSound, Client!Sound, Client!Intact
<1>7. /\ o \in Nat /\ l \in Nat /\ n \in Nat /\ M \in Nat /\ l <= M
      /\ transfer[Proxied].taken \in Nat /\ transfer[Proxied].held \in Nat
      /\ buffer[Proxied].skip \in Nat
      /\ o + l = transfer[Proxied].taken + buffer[Proxied].skip
      /\ buffer[Proxied].skip <= transfer[Proxied].held
      /\ transfer[Proxied].taken + transfer[Proxied].held <= n
      /\ transfer[Proxied].taken = n => transfer[Proxied].held = 0
  <2>1. /\ o \in Nat /\ l \in Nat /\ n \in Nat /\ M \in Nat /\ l <= M
        /\ transfer[Proxied].taken \in Nat /\ transfer[Proxied].held \in Nat
        /\ buffer[Proxied].skip \in Nat
    BY <1>4, ClientFacts, ProxyAssumption DEF Facts
  <2>2. o + l = transfer[Proxied].taken + buffer[Proxied].skip
    BY ClientFacts DEF Facts
  <2>3. /\ transfer[Proxied].held = 0 => buffer[Proxied].skip = 0
        /\ transfer[Proxied].held > 0 =>
              buffer[Proxied].skip < transfer[Proxied].held /\ transfer[Proxied].taken < n
    BY ClientFacts DEF Facts
  <2>4. transfer[Proxied].taken + transfer[Proxied].held <= n
    BY DEF Link, Arrived
  <2>5. QED
    BY <2>1, <2>2, <2>3, <2>4
<1>8. M * (given - 1) + M = M * given /\ M * given \in Nat
  BY <1>1, <1>7
<1>9. o + l = Client!Least(M * given, n)
  <2>1. CASE lent[Proxied] = {"chunk"}
    <3>1. l = M
      BY <2>1, ClientFacts DEF Facts, Link, Arrived
    <3>2. o + l = M * given
      BY <1>5, <1>8, <3>1
    <3>3. o + l <= n
      BY <1>7
    <3>4. QED
      BY <3>2, <3>3 DEF Client!Least
  <2>2. CASE lent[Proxied] = {"final"}
    <3>1. transfer[Proxied].taken = n
      BY <2>2 DEF Link, Arrived, Ended
    <3>2. o + l = n
      BY <1>7, <3>1
    <3>3. n <= M * given
      BY <1>5, <1>7, <1>8, <3>2
    <3> HIDE DEF n, M, o, l
    <3>4. n <= M * given => (M * given <= n => M * given = n)
      BY <1>7, <1>8
    <3>5. QED
      BY <3>2, <3>3, <3>4 DEF Client!Least
  <2>3. QED
    BY <1>2, <2>1, <2>2
<1>10. QED
  BY <1>1, <1>2, <1>3, <1>4, <1>5, <1>6, <1>9

(* The connection leaves the body, and what is in the buffer, alone.       *)
LEMMA AsioClient ==
    AsioStep => UNCHANGED <<request, body, received, buffer, broken, given, total, client>>
<1> SUFFICES ASSUME AsioStep
             PROVE  UNCHANGED <<request, body, received, buffer, broken, given, total, client>>
  OBVIOUS
<1>1. UNCHANGED <<request, body, received, buffer>>
  BY DEF AsioStep, Release, Http!ReleaseChunk, Http!ReleaseFinal, clientVars
<1>2. UNCHANGED <<broken, given, total, client>>
  BY DEF AsioStep, Asio, HandleRequest, ReadFails, PollEnds, RunPosted, Write, SendSucceeds,
         SendFails, SendIsPartial, SendReturns, mainVars
<1>3. QED
  BY <1>1, <1>2
(* The body up to some byte, and what comes next.                          *)
LEMMA UpToIs ==
    ASSUME NEW n \in Nat
    PROVE  /\ Client!Run(0, n) = Client!UpTo(n)
           /\ Client!UpTo(n) \in Seq(Nat) /\ Len(Client!UpTo(n)) = n
<1>1. \A i \in 1..n : 0 + i = i
  OBVIOUS
<1>2. Client!Run(0, n) = Client!UpTo(n)
  BY <1>1 DEF Client!Run, Client!UpTo
<1>3. QED
  BY <1>2, Client!RunIsSeq, ClientAssumption

(* The bytes up to some byte, and those that follow, are one run.          *)
LEMMA UpToNext ==
    ASSUME NEW n \in Nat, NEW m \in Nat
    PROVE  Client!UpTo(n) \o Client!Run(n, m) = Client!UpTo(n + m)
<1>1. 0 \in Nat /\ 0 + n = n /\ n + m \in Nat
  OBVIOUS
<1>2. Client!Run(0, n) \o Client!Run(0 + n, m) = Client!Run(0, n + m)
  BY <1>1, Client!RunConcat, ClientAssumption
<1>3. QED
  BY <1>1, <1>2, UpToIs

(* A send that succeeds writes the next bytes of the body.                 *)
LEMMA NextBytes ==
    ASSUME ClientInv, Inv, Link, Relayed, AsioStep, SendSucceeds, ~cut, ~broken
    PROVE  /\ sending = 0 \/ (sending = given /\ given \in Nat /\ given >= 1)
           /\ given # None
           /\ bytes' = Client!UpTo(Len(bytes')) /\ Len(bytes') = Spot'
<1>1. /\ sock = "open" /\ client = "there" /\ sending # None
      /\ wire' = Append(wire, sending) /\ lease' = lease \ {sending}
      /\ UNCHANGED <<body, given>>
  BY AsioClient DEF SendSucceeds, SendReturns
<1>2. Whole
  BY <1>1 DEF Whole
<1>3. given # None
  BY <1>1 DEF Inv, OneAnswer
<1>4. request[Proxied] # "aborted"
  BY <1>1 DEF Link, Owned
<1>5. /\ bytes \in Seq(Nat) /\ bytes = Client!UpTo(Len(bytes)) /\ Len(bytes) = Spot
      /\ Len(bytes) \in Nat
  BY <1>2 DEF Relayed, FromBeginning, UpToSpot
<1>6. wire \in Seq(Sendable) /\ Len(wire) \in Nat /\ sending \in Sendable
  BY <1>1, Held DEF Inv, TypeOK, Sendable
<1>7. wire' # wire /\ wire' # <<>>
  <2>1. Len(wire') = Len(wire) + 1
    BY <1>1, <1>6, AppendProperties
  <2>2. QED
    BY <1>6, <2>1
<1>8. bytes' = bytes \o Contents(sending)
  BY <1>7 DEF AsioStep
<1>9. CASE sending = 0
  <2>1. wire = <<>>
    <3>1. 0 \notin {None} \union Special
      BY Numbers DEF Inv
    <3>2. Len(wire) = 0
      BY <1>2, <1>9, <3>1 DEF Inv, InOrder
    <3>3. QED
      BY <1>6, <3>2, EmptySeq
  <2>2. lease' = lease
    BY <1>1, <1>9 DEF Inv, TypeOK
  <2>3. CASE body[Proxied].streamed
    <3>1. bytes' = bytes
      BY <1>5, <1>8, <1>9, <2>3, ConcatEmptySeq DEF Contents
    <3>2. Spot' = Spot
      BY <1>1, <2>2, <2>3 DEF Spot
    <3>3. QED
      BY <1>3, <1>5, <1>9, <3>1, <3>2
  <2>4. CASE ~body[Proxied].streamed
    <3>1. received[Proxied] = Client!UpTo(body[Proxied].size)
      BY <1>3, <1>4, <2>4 DEF Relayed, WithHead
    <3>2. body[Proxied].size \in Nat
      BY ClientFacts DEF Facts
    <3>3. Len(bytes) = 0
      BY <1>5, <2>1, <2>4 DEF Spot
    <3>4. bytes = <<>>
      BY <1>5, <3>3, EmptySeq
    <3>5. bytes' = Client!UpTo(body[Proxied].size)
      BY <1>8, <1>9, <2>4, <3>1, <3>2, <3>4, UpToIs, ConcatEmptySeq DEF Contents
    <3>6. Len(bytes') = body[Proxied].size
      BY <3>2, <3>5, UpToIs
    <3>7. Spot' = body[Proxied].size
      BY <1>1, <1>7, <2>4 DEF Spot
    <3>8. QED
      BY <1>3, <1>9, <3>5, <3>6, <3>7
  <2>5. QED
    BY <2>3, <2>4
<1>10. CASE sending # 0
  <2>1. sending \in lease
    BY <1>6, <1>10, Held DEF Inv, Sendable
  <2>2. /\ sending = given /\ lease = {given} /\ given \in Nat /\ given >= 1
        /\ request[Proxied] = "held" /\ body[Proxied].streamed
        /\ buffer[Proxied].offset = MaxBufferSize * (given - 1)
        /\ buffer[Proxied].data = Client!Run(buffer[Proxied].offset, Len(buffer[Proxied].data))
        /\ buffer[Proxied].offset + Len(buffer[Proxied].data) =
              Client!Least(MaxBufferSize * given, body[Proxied].size)
    BY <1>1, <2>1, PieceHeld
  <2>3. given \notin {None, 0}
    BY <1>3, <2>2
  <2>4. Len(bytes) = buffer[Proxied].offset
    BY <1>5, <2>2, <2>3 DEF Spot
  <2>5. buffer[Proxied].offset \in Nat /\ Len(buffer[Proxied].data) \in Nat
    BY ClientFacts DEF Facts
  <2>6. bytes' = Client!UpTo(buffer[Proxied].offset)
                    \o Client!Run(buffer[Proxied].offset, Len(buffer[Proxied].data))
    BY <1>5, <1>8, <1>10, <2>2, <2>4 DEF Contents
  <2>7. bytes' = Client!UpTo(buffer[Proxied].offset + Len(buffer[Proxied].data))
    BY <2>5, <2>6, UpToNext
  <2>8. Len(bytes') = buffer[Proxied].offset + Len(buffer[Proxied].data)
    BY <2>5, <2>7, UpToIs
  <2>9. Spot' = Client!Least(MaxBufferSize * given, body[Proxied].size)
    BY <1>1, <2>2, <2>3 DEF Spot
  <2>10. QED
    BY <1>3, <2>2, <2>7, <2>8, <2>9
<1>11. QED
  BY <1>9, <1>10
(* When the connection is closed because all was sent, all was sent.       *)
LEMMA LastBytes ==
    ASSUME ClientInv, Inv, Link, Relayed, ClosedWhenComplete', AsioStep, SendSucceeds,
           ~cut, ~broken, sock' = "closed", client' = "there"
    PROVE  Spot' = body'[Proxied].size
<1> DEFINE n == body[Proxied].size
           M == MaxBufferSize
<1>1. /\ sending = 0 \/ (sending = given /\ given \in Nat /\ given >= 1)
      /\ given # None
  BY NextBytes
<1>2. /\ wire' = Append(wire, sending) /\ lease' = lease \ {sending} /\ sending # None
      /\ UNCHANGED <<body, given, total, cut>>
  BY AsioClient DEF SendSucceeds, SendReturns
<1>3. wire \in Seq(Sendable) /\ Len(wire) \in Nat /\ sending \in Sendable
  BY <1>2, Held DEF Inv, TypeOK, Sendable
<1>4. Len(wire') = Len(wire) + 1 /\ wire'[Len(wire')] = sending /\ wire' # <<>>
  BY <1>2, <1>3, AppendProperties
<1>5. total \in Nat /\ given <= total /\ sending # Again
  <2>1. /\ MaxPieces \in Nat /\ total \in Nat /\ given \in Int
        /\ given <= total /\ total <= MaxPieces
        /\ Part \in Int /\ Again \in Int /\ Part > MaxPieces /\ Again = Part + 1
    BY Numbers DEF Inv
  <2>2. QED
    BY <1>1, <2>1
<1>6. wire' = [i \in 1..total + 1 |-> i - 1]
  BY <1>2, <1>4, <1>5 DEF ClosedWhenComplete
<1>7. sending = total
  <2>1. DOMAIN wire' = 1..total + 1
    BY <1>6
  <2>2. wire' \in Seq(Sendable)
    BY <1>2, <1>3, AppendProperties
  <2>3. Len(wire') = total + 1
    BY <1>5, <2>1, <2>2, LenProperties
  <2>4. total + 1 \in 1..total + 1
    BY <1>5
  <2>5. wire'[total + 1] = total
    BY <1>5, <1>6, <2>4
  <2>6. QED
    BY <1>4, <2>3, <2>5
<1>8. total = AllPieces
  BY <1>1 DEF Link, Placed
<1>9. n \in Nat /\ M \in Nat \ {0}
  BY ClientFacts, ProxyAssumption DEF Facts
<1>10. body[Proxied].streamed => n >= M
  <2>1. request[Proxied] # "unmade" => (body[Proxied].streamed <=> n >= M)
    BY DEF Link, Arrived
  <2>2. QED
    BY <2>1 DEF Relayed, Unasked
<1> HIDE DEF n, M
<1>11. CASE body[Proxied].streamed
  <2>1. total = CeilDiv(n, M)
    BY <1>8, <1>11 DEF AllPieces, n, M
  <2>2. 0 < total /\ n <= M * total
    <3>1. M * 0 < n /\ 0 \in Nat
      BY <1>9, <1>10, <1>11
    <3>2. QED
      BY <1>9, <2>1, <3>1, CeilAbove, CeilCovers
  <2>3. sending = given /\ given = total /\ given \notin lease'
    BY <1>1, <1>2, <1>5, <1>7, <2>2
  <2>4. Spot' = Client!Least(M * total, n)
    BY <1>1, <1>2, <1>5, <1>11, <2>2, <2>3 DEF Spot, n, M
  <2>5. M * total <= n => M * total = n
    BY <1>5, <1>9, <2>2
  <2>6. QED
    BY <1>2, <2>4, <2>5 DEF Client!Least, n
<1>12. CASE ~body[Proxied].streamed
  BY <1>2, <1>4, <1>12 DEF Spot
<1>13. QED
  BY <1>11, <1>12

(* The connection's own steps keep what was relayed.                       *)
LEMMA AsioRelayed ==
    ASSUME ClientInv, Inv, Link, Relayed, ClosedWhenComplete', AsioStep
    PROVE  Relayed'
<1>1. UNCHANGED <<request, body, received, buffer, broken, given, total, client>>
  BY AsioClient
<1>2. Unasked' /\ WithHead'
  BY <1>1 DEF Relayed, Unasked, WithHead
<1>3. bytes' \in Seq(Nat)
  <2>1. received[Proxied] \in Seq(Nat) /\ buffer[Proxied].data \in Seq(Nat) /\ <<>> \in Seq(Nat)
    BY ClientFacts, EmptySeq DEF Facts, ClientInv, Client!Types
  <2>2. Contents(sending) \in Seq(Nat)
    BY <2>1 DEF Contents
  <2>3. QED
    BY <2>2, ConcatProperties DEF AsioStep, Relayed, FromBeginning
<1>4. CASE SendSucceeds /\ ~cut /\ ~broken
  <2>1. bytes' = Client!UpTo(Len(bytes')) /\ Len(bytes') = Spot' /\ given # None
    BY <1>4, NextBytes
  <2>2. sock' = "closed" /\ client' = "there" => Spot' = body'[Proxied].size
    BY <1>4, LastBytes
  <2>3. QED
    BY <1>1, <1>2, <1>3, <2>1, <2>2 DEF Relayed, FromBeginning, UpToSpot, ToTheEnd
<1>5. CASE (SendSucceeds /\ (cut \/ broken)) \/ SendIsPartial
  <2>1. cut' \/ broken'
    BY <1>1, <1>5 DEF SendSucceeds, SendIsPartial
  <2>2. QED
    BY <1>2, <1>3, <2>1 DEF Relayed, FromBeginning, UpToSpot, ToTheEnd, Whole
<1>6. CASE HandleRequest \/ ReadFails \/ PollEnds \/ RunPosted \/ SendFails
  <2>1. UNCHANGED <<wire, cut>>
    BY <1>6 DEF HandleRequest, ReadFails, PollEnds, RunPosted, SendFails
  <2>2. bytes' = bytes
    BY <2>1 DEF AsioStep
  <2>3. sock' = "closed" /\ client' = "there" => sock = "closed"
    BY <1>1, <1>6 DEF HandleRequest, ReadFails, PollEnds, RunPosted, SendFails
  <2>4. ASSUME Whole', ~broken PROVE Whole /\ lease' = lease
    <3>1. sock' = "open" /\ client = "there" /\ ~cut
      BY <1>1, <2>1, <2>4 DEF Whole
    <3>2. CASE HandleRequest \/ ReadFails \/ PollEnds
      BY <3>1, <3>2 DEF HandleRequest, ReadFails, PollEnds, Close, Whole
    <3>3. CASE SendFails
      BY <3>1, <3>3 DEF SendFails, SendReturns, Close
    <3>4. CASE RunPosted
      <4>1. Whole
        BY <3>1, <3>4 DEF RunPosted, Whole
      <4>2. ASSUME lease' # lease PROVE FALSE
        <5>1. /\ posted # <<>> /\ Head(posted) \in Pieces /\ pending \in lease
              /\ lease' = lease \ {pending}
          BY <3>4, <4>2 DEF RunPosted, Write
        <5>2. Head(posted) = posted[1] /\ DOMAIN posted = 1..Len(posted) /\ Len(posted) \in Nat \ {0}
          BY <5>1, Front DEF Inv
        <5>3. 1 \in DOMAIN posted
          BY <5>2
        <5>4. posted[1] \in lease
          <6>1. 0 \notin Pieces
            BY Numbers DEF Inv
          <6>2. QED
            BY <5>1, <5>2, <5>3, <6>1, Held DEF Inv
        <5>5. Again \notin lease
          BY <2>4 DEF Inv, InFlight, Special
        <5>6. posted[1] = pending
          BY <5>1, <5>4, <5>5 DEF Inv, InFlight
        <5>7. QED
          BY <5>3, <5>6 DEF Inv, InFlight
      <4>3. QED
        BY <4>1, <4>2
    <3>5. QED
      BY <1>6, <3>2, <3>3, <3>4
  <2>5. FromBeginning'
    BY <1>1, <2>1, <2>2 DEF Relayed, FromBeginning
  <2>6. UpToSpot'
    BY <1>1, <2>1, <2>2, <2>4 DEF Relayed, UpToSpot, Spot
  <2>7. ToTheEnd'
    BY <1>1, <2>1, <2>2, <2>3 DEF Relayed, ToTheEnd
  <2>8. QED
    BY <1>2, <2>5, <2>6, <2>7 DEF Relayed
<1>7. QED
  BY <1>4, <1>5, <1>6 DEF AsioStep, Asio
(* A body that is not streamed comes whole, with on_response.              *)
LEMMA BodyWithResponse ==
    ASSUME ClientInv, Inv, Link, Deliver, ~Http!Aborted(Proxied), ~Failed,
           given = None, ~body[Proxied].streamed
    PROVE  received'[Proxied] = Client!UpTo(body[Proxied].size)
<1> DEFINE n == body[Proxied].size
           d == buffer[Proxied].data
<1>1. request[Proxied] = "held" /\ task[Proxied] # "none"
  BY CalledBack
<1>2. task[Proxied] = "final"
  BY <1>1, ClientFacts DEF Facts, Link, Arrived
<1>3. transfer[Proxied].taken = n
  BY <1>2 DEF Failed, Link, Arrived
<1>4. /\ n \in Nat /\ d \in Seq(Nat) /\ Len(d) \in Nat /\ buffer[Proxied].offset \in Nat
      /\ buffer[Proxied].offset + Len(d) = transfer[Proxied].taken + buffer[Proxied].skip
      /\ buffer[Proxied].skip = 0
  BY <1>3, ClientFacts DEF Facts
<1>5. buffer[Proxied].offset = 0 /\ lent[Proxied] = {} /\ httpWork[Proxied] # "continue"
  BY DEF Link, Owned
<1>6. Len(d) = n
  BY <1>3, <1>4, <1>5
<1>7. d = Client!UpTo(n)
  <2>1. d = Client!Run(buffer[Proxied].offset, Len(d))
    BY DEF ClientInv, Client!AllSound, Client!Sound, Client!Intact
  <2>2. QED
    BY <1>4, <1>5, <1>6, <2>1, UpToIs
<1>8. received[Proxied] = <<>>
  <2>1. received[Proxied] \in Seq(Nat)
    BY DEF ClientInv, Client!Types
  <2>2. Client!Range(received[Proxied]) = 1..Client!Reached(Proxied)
    BY <1>1 DEF ClientInv, Client!AllSound, Client!Sound, Client!Got
  <2>3. ~Client!Delivered(Proxied)
    BY <1>1, <1>5 DEF Client!Delivered
  <2>4. Client!Reached(Proxied) = 0
    BY <1>5, <2>3 DEF Client!Reached
  <2> DEFINE got == received[Proxied]
  <2>5. Client!Range(got) = {}
    BY <2>2, <2>4
  <2> HIDE DEF got
  <2>6. \A i \in DOMAIN got : got[i] \in Client!Range(got)
    BY DEF Client!Range
  <2>7. DOMAIN got = 1..Len(got) /\ Len(got) \in Nat
    BY <2>1, LenProperties DEF got
  <2>8. 1 \notin DOMAIN got
    BY <2>5, <2>6
  <2>9. Len(got) = 0
    BY <2>7, <2>8
  <2>10. QED
    BY <2>1, <2>9, EmptySeq DEF got
<1>9. received'[Proxied] = received[Proxied] \o d
  BY <1>2, CalledBack DEF Http!HasBody
<1>10. QED
  BY <1>4, <1>7, <1>8, <1>9, ConcatEmptySeq

(* A callback adds a piece to what the connection holds, and none before   *)
(* the one before was sent.                                                *)
LEMMA DeliverRelayed ==
    ASSUME ClientInv, Inv, Link, Relayed, Deliver
    PROVE  Relayed'
<1> DEFINE g == IF given = None THEN 0 ELSE given
           M == MaxBufferSize
           n == body[Proxied].size
<1>1. /\ UNCHANGED <<request, body>> /\ task[Proxied] # "none"
      /\ UNCHANGED <<bytes, client>> /\ UNCHANGED asioVars
  BY CalledBack DEF Deliver, vars
<1>2. UNCHANGED <<sock, wire, cut>>
  BY <1>1 DEF asioVars
<1>3. Unasked' /\ bytes' \in Seq(Nat)
  BY <1>1 DEF Relayed, Unasked, FromBeginning
<1>4. CASE Http!Aborted(Proxied)
  <2>1. UNCHANGED <<vars, lent, received>> /\ request[Proxied] = "aborted"
    BY <1>4, CalledBack DEF Deliver, Http!Aborted
  <2>2. UNCHANGED <<broken, given, lease>>
    BY <2>1 DEF vars, mainVars
  <2>3. QED
    BY <1>1, <1>2, <1>3, <2>1, <2>2
       DEF Relayed, FromBeginning, UpToSpot, Spot, Whole, ToTheEnd, WithHead
<1>5. CASE ~Http!Aborted(Proxied)
  <2>1. /\ lease' = lease \union ({Piece} \ {None})
        /\ given' = IF Piece \in 1..MaxPieces THEN Piece ELSE g
        /\ broken' = (broken \/ Failed)
    BY <1>5 DEF Deliver
  <2>2. request[Proxied] = "held"
    BY <1>5, CalledBack
  <2>3. CASE Failed
    BY <1>1, <1>3, <2>1, <2>3 DEF Relayed, FromBeginning, UpToSpot, ToTheEnd, WithHead
  <2>4. CASE ~Failed
    <3>1. broken \in BOOLEAN /\ broken' = broken
      BY <2>1, <2>4 DEF Inv, TypeOK
    <3>2. /\ ~broken /\ g \in Nat /\ AllPieces \in 0..MaxPieces
          /\ ~Http!HasBytes(Proxied) => Piece = None
          /\ Http!HasBytes(Proxied) =>
                Piece = g + 1 /\ lease = {} /\ g < AllPieces
      BY <1>1, <2>2, <2>4, PieceIs, ClientFacts DEF Inv
    <3>3. MaxPieces \in Nat /\ None = -1 /\ M \in Nat \ {0} /\ n \in Nat
      BY ConnectionAssumption, ProxyAssumption, ClientFacts DEF None, Facts
    <3>4. /\ Http!HasBytes(Proxied) => given' = g + 1 /\ lease' = {g + 1}
          /\ ~Http!HasBytes(Proxied) => given' = g /\ lease' = lease
      <4> HIDE DEF g
      <4>1. CASE Http!HasBytes(Proxied)
        <5>1. g + 1 \in 1..MaxPieces /\ g + 1 # None
          BY <3>2, <3>3, <4>1
        <5>2. QED
          BY <2>1, <3>2, <4>1, <5>1
      <4>2. CASE ~Http!HasBytes(Proxied)
        <5>1. None \notin 1..MaxPieces
          BY <3>3
        <5>2. QED
          BY <2>1, <3>2, <4>2, <5>1
      <4>3. QED
        BY <4>1, <4>2
    <3>5. given' # None /\ given' \in Nat
      <4> HIDE DEF g
      <4>1. QED
        BY <3>2, <3>3, <3>4
    <3>6. Spot' = Spot
      <4>1. CASE ~body[Proxied].streamed
        BY <1>1, <1>2, <4>1 DEF Spot
      <4>2. CASE body[Proxied].streamed /\ Http!HasBytes(Proxied)
        <5>1. Spot' = M * g
          <6> HIDE DEF g
          <6>1. given' = g + 1 /\ given' \in lease' /\ given' \notin {None, 0} /\ given' - 1 = g
            BY <3>2, <3>3, <3>4, <4>2
          <6>2. QED
            BY <1>1, <4>2, <6>1 DEF Spot
        <5>2. CASE given \in {None, 0}
          <6>1. g = 0 /\ M * 0 = 0
            BY <3>3, <5>2
          <6>2. QED
            BY <4>2, <5>1, <5>2, <6>1 DEF Spot
        <5>3. CASE given \notin {None, 0}
          <6>1. Spot = Client!Least(M * g, n) /\ g = given
            BY <3>2, <4>2, <5>3 DEF Spot
          <6>2. M * g < n
            <7> HIDE DEF g, n, M
            <7>1. g < CeilDiv(n, M)
              BY <3>2, <4>2 DEF AllPieces, n, M
            <7>2. QED
              BY <3>2, <3>3, <7>1, CeilBelow
          <6>3. M * g \in Nat
            BY <3>2, <3>3
          <6>4. M * g <= n
            <7> HIDE DEF g, n, M
            <7>1. QED
              BY <3>3, <6>2, <6>3
          <6>5. QED
            BY <5>1, <6>1, <6>4 DEF Client!Least
        <5>4. QED
          BY <5>2, <5>3
      <4>3. CASE body[Proxied].streamed /\ ~Http!HasBytes(Proxied)
        <5>1. given' = g /\ lease' = lease
          BY <3>4, <4>3
        <5>2. CASE given = None
          <6>1. given' = 0
            BY <5>1, <5>2
          <6>2. QED
            BY <1>1, <4>3, <5>2, <6>1 DEF Spot
        <5>3. CASE given # None
          BY <1>1, <1>2, <5>1, <5>3 DEF Spot
        <5>4. QED
          BY <5>2, <5>3
      <4>4. QED
        BY <4>1, <4>2, <4>3
    <3>7. FromBeginning' /\ UpToSpot' /\ ToTheEnd'
      BY <1>1, <1>2, <3>1, <3>5, <3>6 DEF Relayed, FromBeginning, UpToSpot, ToTheEnd, Whole
    <3>8. WithHead'
      <4> SUFFICES ASSUME ~body[Proxied].streamed
                   PROVE  received'[Proxied] = Client!UpTo(body'[Proxied].size)
        BY <1>1 DEF WithHead
      <4>1. given = None
        BY <1>1 DEF Link, Ended
      <4>2. QED
        BY <1>1, <1>5, <2>4, <4>1, BodyWithResponse
    <3>9. QED
      BY <1>3, <3>7, <3>8 DEF Relayed
  <2>5. QED
    BY <2>3, <2>4
<1>6. QED
  BY <1>4, <1>5

(* Steps that leave the connection, the body and what was received alone.  *)
LEMMA QuietRelayed ==
    ASSUME Relayed, UNCHANGED <<bytes, sock, client, cut, broken, given, wire, lease>>,
           request'[Proxied] = request[Proxied], body'[Proxied] = body[Proxied],
           received'[Proxied] = received[Proxied]
    PROVE  Relayed'
BY DEF Relayed, Unasked, FromBeginning, UpToSpot, Spot, Whole, ToTheEnd, WithHead

(* The other steps of the main thread.                                     *)
LEMMA MainRelayed ==
    ASSUME ClientInv, Inv, Link, Relayed, MainStep
    PROVE  Relayed'
<1>1. CASE TakeTask /\ UNCHANGED <<clientVars, bytes>>
  <2>1. UNCHANGED <<bytes, sock, client, cut, broken, given, wire, lease, request, body, received>>
    BY <1>1 DEF TakeTask, clientVars, asioVars
  <2>2. QED
    BY <2>1, QuietRelayed
<1>2. CASE PassOn
  <2>1. /\ main = "handle" /\ mainWork' = "proxy"
        /\ UNCHANGED <<bytes, client, asioVars, broken>>
    BY <1>2 DEF PassOn, CallHandler
  <2>2. mainWork = "none" /\ given = None /\ ~broken /\ wire = <<>>
    BY <2>1 DEF Inv, OneAnswer
  <2>3. UNCHANGED <<given, lease, sock, cut, wire>>
    BY <1>2, <2>1, <2>2 DEF PassOn, CallHandler, asioVars
  <2>4. request[Proxied] = "unmade" /\ request'[Proxied] = "held"
    BY <1>2 DEF PassOn, Http!Request, ClientInv, Client!Types
  <2>5. ~body[Proxied].streamed
    BY <2>4 DEF Relayed, Unasked
  <2>6. Spot = 0 /\ Spot' = 0
    BY <2>2, <2>3, <2>5 DEF Spot
  <2>7. UpToSpot'
    BY <2>1, <2>3, <2>6 DEF Relayed, UpToSpot, Whole
  <2>8. ToTheEnd'
    BY <2>1, <2>2, <2>3 DEF Relayed, ToTheEnd
  <2>9. FromBeginning'
    BY <2>1, <2>3 DEF Relayed, FromBeginning
  <2>10. WithHead' /\ Unasked'
    BY <2>2, <2>3, <2>4 DEF WithHead, Unasked
  <2>11. QED
    BY <2>7, <2>8, <2>9, <2>10 DEF Relayed
<1>3. CASE LetGo
  <2>1. /\ handlerWork = "reset"
        /\ UNCHANGED <<bytes, client, asioVars, broken, given, lease>>
    BY <1>3 DEF LetGo, ResetMainWork
  <2>2. client # "there" /\ UNCHANGED <<sock, cut, wire>>
    BY <2>1 DEF Link, Owned, asioVars
  <2>3. /\ UNCHANGED <<body, received>>
        /\ request'[Proxied] = request[Proxied] \/ request'[Proxied] = "aborted"
    <3>1. CASE mainWork = "proxy"
      BY <1>3, <3>1 DEF LetGo, Http!Abort, ClientInv, Client!Types
    <3>2. CASE mainWork # "proxy"
      BY <1>3, <3>2 DEF LetGo, clientVars
    <3>3. QED
      BY <3>1, <3>2
  <2>4. QED
    BY <2>1, <2>2, <2>3
       DEF Relayed, Unasked, FromBeginning, UpToSpot, Whole, ToTheEnd, WithHead
<1>4. CASE Deliver
  BY <1>4, DeliverRelayed
<1>5. QED
  BY <1>1, <1>2, <1>3, <1>4 DEF MainStep

(* Relayed is preserved by every step.                                     *)
LEMMA RelayedStep ==
    ASSUME ClientInv, Inv, Link, Relayed, ClosedWhenComplete', [ProxyNext]_proxyVars
    PROVE  Relayed'
<1>1. CASE UNCHANGED proxyVars
  <2>1. UNCHANGED <<bytes, sock, client, cut, broken, given, wire, lease, request, body, received>>
    BY <1>1 DEF proxyVars, clientVars, vars, asioVars, mainVars
  <2>2. QED
    BY <2>1, QuietRelayed
<1>2. CASE HangUp /\ UNCHANGED <<clientVars, bytes>>
  <2>1. /\ UNCHANGED <<bytes, sock, cut, broken, given, wire, lease, request, body, received>>
        /\ client' # "there"
    BY <1>2, ConnectionAssumption DEF HangUp, clientVars, asioVars, mainVars
  <2>2. QED
    BY <2>1 DEF Relayed, Unasked, FromBeginning, UpToSpot, Whole, ToTheEnd, WithHead
<1>3. ASSUME UNCHANGED <<vars, bytes>>
      PROVE  UNCHANGED <<bytes, sock, client, cut, broken, given, wire, lease>>
  BY <1>3 DEF vars, asioVars, mainVars
<1>4. CASE HttpLoop /\ UNCHANGED <<vars, bytes>>
  <2>1. UNCHANGED <<request, body, received>>
    BY <1>4, SameLoop DEF HttpLoop, Client!ProcessAgain, Client!LeaveProcess, Client!Leave
  <2>2. QED
    BY <1>3, <1>4, <2>1, QuietRelayed
<1>5. ASSUME NEW r \in {Proxied} \union Others, HttpTask(r) \/ Http!Break(r),
             UNCHANGED <<vars, bytes>>
      PROVE  Relayed'
  <2>1. UNCHANGED <<request, body, received>>
    BY <1>5 DEF HttpTask, Http!ProcessNewRequest, Http!ContinueRequest, Http!Receive, Http!Break
  <2>2. QED
    BY <1>3, <1>5, <2>1, QuietRelayed
<1>6. ASSUME NEW r \in Others, Elsewhere(r), UNCHANGED <<vars, bytes>>
      PROVE  Relayed'
  <2>1. Client!Same(Proxied)
    BY <1>6, SameSteps, ElsewhereSame DEF Elsewhere, UpdateState
  <2>2. QED
    BY <1>3, <1>6, <2>1, QuietRelayed DEF Client!Same
<1>7. QED
  BY <1>1, <1>2, <1>4, <1>5, <1>6, AsioRelayed, MainRelayed DEF ProxyNext

(* At first nothing was sent.                                              *)
LEMMA InitRelayed == ProxyInit => Relayed
<1> SUFFICES ASSUME ProxyInit PROVE Relayed
  OBVIOUS
<1>1. /\ request[Proxied] = "unmade" /\ body[Proxied].size = 0 /\ ~body[Proxied].streamed
      /\ bytes = <<>>
  BY DEF ProxyInit, Http!Init
<1>2. sock = "open" /\ given = None /\ wire = <<>>
  BY DEF ProxyInit, Init
<1>3. <<>> \in Seq(Nat) /\ Len(<<>>) = 0
  BY EmptySeq
<1>4. Client!UpTo(0) = <<>>
  BY UpToIs, EmptySeq
<1>5. QED
  BY <1>1, <1>2, <1>3, <1>4
     DEF Relayed, Unasked, FromBeginning, UpToSpot, Spot, ToTheEnd, WithHead

(* What the other end gets is the body that the service sent, from its     *)
(* beginning and, when the server closes the connection, to its end,       *)
(* although it is written from a buffer that is filled again and again by  *)
(* another thread: unless the transfer fails or a send is cut.             *)
THEOREM BodyComesThrough == ProxySpec => []BodyRelayed
<1>1. Relayed => BodyRelayed
  BY DEF Relayed, FromBeginning, ToTheEnd, BodyRelayed, Client!UpTo
<1>2. ProxyInit => Relayed
  BY InitRelayed
<1>3. ProxyInv /\ Relayed /\ ClosedWhenComplete' /\ [ProxyNext]_proxyVars => Relayed'
  BY RelayedStep DEF ProxyInv
<1>4. QED
  BY <1>1, <1>2, <1>3, ProxyInvariant, ProxiedClosedComplete, PTL DEF ProxySpec
=============================================================================
