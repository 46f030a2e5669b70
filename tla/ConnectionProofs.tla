-------------------------- MODULE ConnectionProofs --------------------------
(***************************************************************************)
(* Theorems about Connection for any number of pieces, all kinds of        *)
(* handlers, clients that leave in any way, transfers that fail and sends  *)
(* that are cut.                                                           *)
(***************************************************************************)
EXTENDS Connection, SequenceTheorems, TLAPS

Special == {Part, Again}

(* One answer at most: before it there is nothing to send.                 *)
OneAnswer ==
    /\ read = "parse" => handlerWork = "none" /\ main = "idle" /\ mainWork = "none"
    /\ handlerWork = "handle" => main = "idle" /\ mainWork = "none"
    /\ main = "handle" => mainWork = "none"
    /\ (read = "parse" \/ handlerWork = "handle" \/ main = "handle" \/ mainWork = "local") =>
          given = None
    /\ given = None =>
          /\ posted = <<>> /\ sending = None /\ pending = None
          /\ wire = <<>> /\ sent = 0 /\ ~broken

(* What is to be sent: the head first, nothing twice, and of the pieces    *)
(* one at a time, but for what comes last of a transfer that failed.       *)
InFlight ==
    /\ pending # None => sending # None
    /\ \A i \in DOMAIN posted :
          /\ posted[i] = 0 => i = 1 /\ sending = None
          /\ posted[i] \in Special => i = Len(posted)
          /\ posted[i] \notin {sending, pending}
          /\ \A j \in DOMAIN posted : posted[i] = posted[j] => i = j
    /\ pending \in Special => posted = <<>>
    /\ sending \in Special => posted = <<>> /\ pending = None
    /\ sending = pending => sending = None
    /\ \A p, q \in lease : p = q \/ p = Again \/ q = Again
    /\ lease \subseteq 1..given \union Special
    /\ (lease \intersect Special # {}) => broken
    /\ Part \in lease => given < total

(* The other end is there and got all that was sent.                       *)
Whole == sock = "open" /\ client = "there" /\ ~cut

One(p) == IF p = None THEN 0 ELSE 1

(* The place of what is in flight, counted from the head.                  *)
InOrder ==
    Whole =>
        /\ sending \notin {None} \union Special => sending = Len(wire)
        /\ pending \notin {None} \union Special => pending = Len(wire) + 1
        /\ \A i \in DOMAIN posted :
              posted[i] \notin Special =>
                  posted[i] = Len(wire) + One(sending) + One(pending) + i - 1
        /\ ~broken /\ given # None =>
              given + 1 = Len(wire) + One(sending) + One(pending) + Len(posted)
        /\ \/ \A i \in DOMAIN wire : wire[i] = i - 1
           \/ broken /\ posted = <<>> /\ sending = None
        /\ (\A i \in DOMAIN wire : wire[i] = i - 1) =>
              /\ Len(wire) <= given + 1
              /\ sent = IF wire = <<>> THEN 0 ELSE Len(wire) - 1

-----------------------------------------------------------------------------
Sendable == {0} \union Pieces

flight == <<posted, sending, pending, lease>>

(* After ServerImpl::accept().                                             *)
LEMMA InitHolds == Init => TypeOK /\ OneAnswer /\ InFlight /\ InOrder
<1> SUFFICES ASSUME Init PROVE TypeOK /\ OneAnswer /\ InFlight /\ InOrder
  OBVIOUS
<1>1. MaxPieces \in Nat
  BY ConnectionAssumption
<1>2. TypeOK
  <2>1. lease = Outstanding \ {0, None}
    BY DEF Init, Outstanding
  <2>2. posted \in Seq({0} \union Pieces) /\ wire \in Seq({0} \union Pieces)
    BY DEF Init
  <2>3. /\ total \in 0..MaxPieces /\ given \in 0..total \union {None} /\ sent \in Nat
        /\ sending \in {0, None} \union Pieces /\ pending \in {None} \union Pieces
    BY <1>1 DEF Init
  <2>4. QED
    BY <2>1, <2>2, <2>3 DEF Init, TypeOK
<1>3. OneAnswer /\ InFlight
  BY <1>1 DEF Init, OneAnswer, InFlight, Special, Part, Again, None
<1>4. InOrder
  BY <1>1 DEF Init, InOrder, Whole, One, None
<1>5. QED
  BY <1>2, <1>3, <1>4

(* The front of what was posted is taken.                                  *)
LEMMA Front ==
  ASSUME TypeOK, posted # <<>>
  PROVE  /\ Head(posted) = posted[1] /\ Head(posted) \in Sendable
         /\ Tail(posted) \in Seq(Sendable)
         /\ DOMAIN posted = 1..Len(posted) /\ Len(posted) \in Nat \ {0}
         /\ DOMAIN Tail(posted) = 1..(Len(posted) - 1) /\ Len(Tail(posted)) = Len(posted) - 1
         /\ \A i \in 1..(Len(posted) - 1) : Tail(posted)[i] = posted[i + 1]
<1>1. posted \in Seq(Sendable)
  BY DEF TypeOK, Sendable
<1>2. QED
  BY <1>1, HeadTailProperties, LenProperties

(* Something is posted behind it.                                          *)
LEMMA Back ==
  ASSUME TypeOK, NEW p \in Sendable
  PROVE  /\ Append(posted, p) \in Seq(Sendable)
         /\ DOMAIN posted = 1..Len(posted) /\ Len(posted) \in Nat
         /\ DOMAIN Append(posted, p) = 1..(Len(posted) + 1)
         /\ Len(Append(posted, p)) = Len(posted) + 1
         /\ \A i \in 1..Len(posted) : Append(posted, p)[i] = posted[i]
         /\ Append(posted, p)[Len(posted) + 1] = p
         /\ posted \o <<p>> = Append(posted, p)
<1>1. posted \in Seq(Sendable)
  BY DEF TypeOK, Sendable
<1>2. QED
  BY <1>1, AppendProperties, LenProperties, AppendIsConcat

(* What the provers need of a state.                                       *)
LEMMA Numbers ==
  ASSUME TypeOK
  PROVE  /\ MaxPieces \in Nat /\ total \in Nat /\ total <= MaxPieces
         /\ given \in Int /\ given >= -1 /\ given <= total
         /\ Part \in Int /\ Again \in Int /\ Part > MaxPieces /\ Again = Part + 1
         /\ Pieces = 1..Again /\ None = -1 /\ Special = {Part, Again}
         /\ Sendable = 0..Again
BY ConnectionAssumption DEF TypeOK, Part, Again, Pieces, None, Special, Sendable

(* What is held is what is posted, sent or waits, but for the head.        *)
LEMMA Held ==
  ASSUME TypeOK
  PROVE  /\ \A i \in DOMAIN posted : posted[i] \in Sendable /\ (posted[i] # 0 => posted[i] \in lease)
         /\ sending \in Pieces => sending \in lease
         /\ pending \in Pieces => pending \in lease
         /\ sending \in {None} \union Sendable
         /\ pending \in {None} \union Pieces
<1>1. posted \in Seq(Sendable)
  BY DEF TypeOK, Sendable
<1>2. \A i \in DOMAIN posted : posted[i] \in Sendable
  BY <1>1, ElementOfSeq, LenProperties
<1>3. \A x \in Sendable : x # None
  BY Numbers
<1>4. QED
  BY <1>2, <1>3, Numbers DEF TypeOK, Outstanding, Sendable

(* The transfer breaks: with what g pieces have made of the queue, q, comes *)
(* a last word p.                                                          *)
Breaking(q, g, p) ==
    /\ \/ given # None /\ q = posted /\ g = given /\ given < total
       \/ given = None /\ q = <<0>> /\ g = 0
    /\ \/ p = None
       \/ p = Again /\ g > 0
       \/ p = Part /\ g < total' /\ lease = {}
       \/ p = g + 1 /\ g + 1 < total' /\ lease = {}
    /\ given' = IF p = g + 1 THEN p ELSE g
    /\ posted' = IF p = None THEN q ELSE Append(q, p)
    /\ lease' = lease \union ({p} \ {None})
    /\ total' \in 0..MaxPieces /\ (given # None => total' = total)
    /\ ~broken /\ broken' = TRUE /\ mainWork = "proxy"
    /\ UNCHANGED <<sending, pending, wire, sent, client, sock, cut, main, mainWork, handlerWork, read>>

(* A transfer that breaks does that.                                       *)
LEMMA BreaksSo ==
  ASSUME TypeOK, OneAnswer, ServiceBreaks
  PROVE  \E q \in Seq(Sendable), g \in 0..MaxPieces, p \in {None} \union Pieces : Breaking(q, g, p)
<1>1. /\ ~broken /\ broken' = TRUE /\ mainWork = "proxy"
      /\ UNCHANGED <<sending, pending, wire, sent, client, sock, cut, main, mainWork, handlerWork, read>>
  BY DEF ServiceBreaks, asioVars
<1>2. CASE given = None
  <2>1. total' \in 0..MaxPieces /\ Finish(0, total', <<0>>)
    BY <1>2 DEF ServiceBreaks
  <2>2. posted = <<>>
    BY <1>2 DEF OneAnswer
  <2>3. PICK p \in LastWords(0, total') :
             /\ given' = IF p = 0 + 1 THEN p ELSE 0
             /\ posted' = posted \o <<0>> \o (IF p = None THEN <<>> ELSE <<p>>)
             /\ lease' = lease \union ({p} \ {None})
    BY <2>1 DEF Finish
  <2>4. /\ p \in {None} \union Pieces
        /\ \/ p = None
           \/ p = Part /\ 0 < total' /\ lease = {}
           \/ p = 0 + 1 /\ 0 + 1 < total' /\ lease = {}
    <3>1. \/ p = None
          \/ p = Part /\ 0 < total' /\ lease = {}
          \/ p = 0 + 1 /\ 0 + 1 < total' /\ lease = {}
      BY <2>3 DEF LastWords
    <3>2. Part \in Pieces /\ (0 + 1 < total' => 0 + 1 \in Pieces)
      BY <2>1, Numbers
    <3>3. QED
      BY <3>1, <3>2
  <2>5. posted' = IF p = None THEN <<0>> ELSE Append(<<0>>, p)
    <3>1. posted \o <<0>> = <<0>> /\ <<0>> \o <<>> = <<0>> /\ <<0>> \in Seq(Sendable)
      BY <2>2 DEF Sendable
    <3>2. p # None => p \in Sendable
      BY <2>4 DEF Sendable
    <3>3. p # None => Append(<<0>>, p) = <<0>> \o <<p>>
      BY <3>1, <3>2, AppendIsConcat
    <3>4. QED
      BY <2>3, <3>1, <3>3
  <2>6. <<0>> \in Seq(Sendable) /\ 0 \in 0..MaxPieces
    BY Numbers DEF Sendable
  <2>7. Breaking(<<0>>, 0, p)
    BY <1>1, <1>2, <2>1, <2>3, <2>4, <2>5 DEF Breaking
  <2>8. QED
    BY <2>4, <2>6, <2>7
<1>3. CASE given # None
  <2>1. given < total /\ Finish(given, total, <<>>) /\ total' = total
    BY <1>3 DEF ServiceBreaks
  <2>2. PICK p \in LastWords(given, total) :
             /\ given' = IF p = given + 1 THEN p ELSE given
             /\ posted' = posted \o <<>> \o (IF p = None THEN <<>> ELSE <<p>>)
             /\ lease' = lease \union ({p} \ {None})
    BY <2>1 DEF Finish
  <2>3. given \in 0..MaxPieces /\ total \in 0..MaxPieces
    BY <1>3, Numbers
  <2>4. /\ p \in {None} \union Pieces
        /\ \/ p = None
           \/ p = Again /\ given > 0
           \/ p = Part /\ given < total /\ lease = {}
           \/ p = given + 1 /\ given + 1 < total /\ lease = {}
    BY <2>2, <2>3, Numbers DEF LastWords
  <2>5. posted \in Seq(Sendable)
    BY DEF TypeOK, Sendable
  <2>6. posted' = IF p = None THEN posted ELSE Append(posted, p)
    BY <2>2, <2>4, <2>5, AppendIsConcat, EmptySeq DEF Sendable
  <2>7. Breaking(posted, given, p)
    BY <1>1, <1>3, <2>1, <2>2, <2>3, <2>4, <2>6 DEF Breaking
  <2>8. QED
    BY <2>3, <2>4, <2>5, <2>7
<1>4. QED
  BY <1>2, <1>3

-----------------------------------------------------------------------------
(* No step gives a variable a value outside its type, and each lifetime is *)
(* let go with the last place that has the piece.                          *)
LEMMA TypeStep == TypeOK /\ OneAnswer /\ InFlight /\ [Next]_vars => TypeOK'
<1> SUFFICES ASSUME TypeOK, OneAnswer, InFlight, [Next]_vars PROVE TypeOK'
  OBVIOUS
<1> DEFINE Rest ==
      /\ client \in {"there", "eof", "reset"}
      /\ sock \in {"open", "closed"} /\ listed \in BOOLEAN
      /\ read \in {"parse", "poll", "none"}
      /\ handlerWork \in {"none", "handle", "reset"}
      /\ main \in {"idle", "handle"}
      /\ mainWork \in {"none", "local", "proxy"}
      /\ broken \in BOOLEAN /\ cut \in BOOLEAN
<1>1. Rest'
  <2>1. Rest
    BY DEF TypeOK
  <2>2. CASE UNCHANGED vars
    BY <2>1, <2>2 DEF vars, asioVars, mainVars
  <2>3. CASE Asio
    BY <2>1, <2>3 DEF Asio, HandleRequest, ReadFails, PollEnds, RunPosted, SendSucceeds,
       SendFails, SendIsPartial, SendReturns, Close, mainVars
  <2>4. CASE Main
    BY <2>1, <2>4, ConnectionAssumption DEF Main, TakeTask, CallHandler, ResetMainWork,
       AnswerLocally, AnswerFromService, NextPiece, asioVars
  <2>5. CASE ServiceBreaks \/ HangUp
    BY <2>1, <2>5, ConnectionAssumption DEF ServiceBreaks, HangUp, asioVars, mainVars
  <2>6. QED
    BY <2>2, <2>3, <2>4, <2>5 DEF Next
<1>2. lease' = Outstanding' \ {0, None} /\ posted' \in Seq(Sendable) /\ wire' \in Seq(Sendable)
      /\ sending' \in {None} \union Sendable /\ pending' \in {None} \union Pieces
      /\ sent' \in Nat /\ total' \in 0..MaxPieces /\ given' \in 0..total' \union {None}
  <2>0. /\ posted \in Seq(Sendable) /\ wire \in Seq(Sendable)
        /\ lease = Outstanding \ {0, None}
        /\ sending \in {None} \union Sendable /\ pending \in {None} \union Pieces
        /\ sent \in Nat /\ total \in 0..MaxPieces /\ given \in 0..total \union {None}
    BY DEF TypeOK, Sendable
  <2>1. CASE UNCHANGED <<flight, wire, sent, total, given>>
    <3>1. Outstanding' = Outstanding
      BY <2>1 DEF flight, Outstanding
    <3>2. QED
      BY <2>0, <2>1, <3>1 DEF flight
  <2>2. CASE RunPosted
    <3>1. posted # <<>> /\ posted' = Tail(posted)
      BY <2>2 DEF RunPosted
    <3>2. UNCHANGED <<wire, sent, total, given>>
      BY <2>2 DEF RunPosted, mainVars
    <3>3. {posted[i] : i \in DOMAIN posted} = {Head(posted)} \union {posted'[i] : i \in DOMAIN posted'}
      <4>1. ASSUME NEW i \in DOMAIN posted
            PROVE  posted[i] \in {Head(posted)} \union {posted'[j] : j \in DOMAIN posted'}
        <5>1. i = 1 \/ (i - 1 \in DOMAIN posted' /\ posted'[i - 1] = posted[i])
          BY <3>1, Front
        <5>2. QED
          BY <3>1, <5>1, Front
      <4>2. ASSUME NEW i \in DOMAIN posted'
            PROVE  posted'[i] \in {posted[j] : j \in DOMAIN posted}
        <5>1. i + 1 \in DOMAIN posted /\ posted'[i] = posted[i + 1]
          BY <3>1, Front
        <5>2. QED
          BY <5>1
      <4>3. Head(posted) \in {posted[j] : j \in DOMAIN posted}
        <5>1. 1 \in DOMAIN posted /\ Head(posted) = posted[1]
          BY <3>1, Front
        <5>2. QED
          BY <5>1
      <4>4. QED
        BY <4>1, <4>2, <4>3
    <3>4. Head(posted) \in Sendable /\ posted' \in Seq(Sendable)
      BY <3>1, Front
    <3>5. \A i \in DOMAIN posted' : posted'[i] \notin {sending, pending}
      BY <3>1, Front DEF InFlight
    <3>6. Head(posted) \notin {sending, pending} /\ (Head(posted) = 0 => sending = None)
      BY <3>1, Front DEF InFlight
    <3>7. CASE Head(posted) \in Pieces /\ sending # None
      <4>1. pending' = Head(posted) /\ lease' = lease \ {pending} /\ sending' = sending
        BY <2>2, <3>7 DEF RunPosted, Write
      <4>2. pending \notin {0} /\ (pending = sending => sending = None)
        BY <2>0, Numbers DEF InFlight
      <4>3. QED
        BY <2>0, <3>1, <3>2, <3>3, <3>4, <3>5, <3>6, <3>7, <4>1, <4>2, Numbers DEF Outstanding
    <3>8. CASE ~(Head(posted) \in Pieces /\ sending # None)
      <4>1. sending' = Head(posted) /\ pending' = pending /\ lease' = lease
        BY <2>2, <3>8 DEF RunPosted, Write
      <4>2. sending = None
        BY <3>4, <3>6, <3>8 DEF Sendable
      <4>3. QED
        BY <2>0, <3>1, <3>2, <3>3, <3>4, <4>1, <4>2 DEF Outstanding
    <3>9. QED
      BY <3>7, <3>8
  <2>3. CASE SendReturns /\ sending # None /\ wire' \in {wire, Append(wire, sending)}
    <3>1. /\ lease' = lease \ {sending} /\ sending' = pending /\ pending' = None
          /\ UNCHANGED <<posted, total, given>> /\ sent' \in {sent, sent + 1}
      BY <2>3 DEF SendReturns, mainVars
    <3>2. \A i \in DOMAIN posted : posted[i] # sending
      BY DEF InFlight
    <3>3. sending # pending
      BY <2>3 DEF InFlight
    <3>4. Append(wire, sending) \in Seq(Sendable)
      BY <2>0, <2>3, AppendProperties
    <3>5. Outstanding' \ {0, None} = (Outstanding \ {0, None}) \ {sending}
      BY <3>1, <3>2, <3>3 DEF Outstanding
    <3>6. wire' \in Seq(Sendable)
      BY <2>0, <2>3, <3>4
    <3>7. sent' \in Nat
      BY <2>0, <3>1
    <3>8. sending' \in {None} \union Sendable /\ pending' \in {None} \union Pieces
      BY <2>0, <3>1 DEF Sendable
    <3>9. lease' = Outstanding' \ {0, None}
      BY <2>0, <3>1, <3>5
    <3>10. QED
      BY <2>0, <3>1, <3>6, <3>7, <3>8, <3>9
  <2>4. CASE /\ given = None /\ \E n \in 0..MaxPieces : Respond(n)
             /\ UNCHANGED <<sending, pending, wire, sent>>
    <3>1. PICK n \in 0..MaxPieces : Respond(n)
      BY <2>4
    <3>2. posted = <<>> /\ sending = None /\ pending = None /\ lease = {}
      BY <2>0, <2>4 DEF OneAnswer, Outstanding
    <3>3. CASE n = 0
      <4>1. posted' = <<0>> /\ given' = 0 /\ lease' = {} /\ total' = 0
        BY <3>1, <3>2, <3>3 DEF Respond
      <4>2. Outstanding' = {0, None}
        BY <2>4, <3>2, <4>1 DEF Outstanding
      <4>3. posted' \in Seq(Sendable)
        BY <4>1 DEF Sendable
      <4>4. lease' = Outstanding' \ {0, None}
        BY <4>1, <4>2
      <4>5. QED
        BY <2>0, <2>4, <4>1, <4>3, <4>4, Numbers
    <3>4. CASE n # 0
      <4>1. posted' = <<0, 1>> /\ given' = 1 /\ lease' = {1} /\ total' = n
        BY <3>1, <3>2, <3>4 DEF Respond
      <4>2. Outstanding' = {0, 1, None}
        BY <2>4, <3>2, <4>1 DEF Outstanding
      <4>3. posted' \in Seq(Sendable)
        BY <4>1, Numbers
      <4>4. lease' = Outstanding' \ {0, None}
        BY <4>1, <4>2, Numbers
      <4>5. 1 \in 0..n
        BY <3>1, <3>4, Numbers
      <4>6. QED
        BY <2>0, <2>4, <3>1, <4>1, <4>3, <4>4, <4>5
    <3>5. QED
      BY <3>3, <3>4
  <2>5. CASE NextPiece
    <3>1. /\ given # None /\ given < total /\ lease = {}
          /\ given' = given + 1 /\ posted' = Append(posted, given') /\ lease' = {given'}
          /\ UNCHANGED <<sending, pending, wire, sent, total>>
      BY <2>5 DEF NextPiece, asioVars
    <3>2. given' \in Pieces /\ given' \in Sendable /\ given' \in 0..total'
      BY <2>0, <3>1, Numbers
    <3>3. Outstanding' = Outstanding \union {given'}
      BY <3>1, <3>2, Back DEF Outstanding
    <3>4. QED
      BY <2>0, <3>1, <3>2, <3>3, Back, Numbers
  <2>6. CASE ServiceBreaks
    <3>1. PICK q \in Seq(Sendable), g \in 0..MaxPieces, p \in {None} \union Pieces :
                  Breaking(q, g, p)
      BY <2>6, BreaksSo
    <3>2. {q[i] : i \in DOMAIN q} \ {0} = {posted[i] : i \in DOMAIN posted} \ {0}
      <4>1. CASE q = posted
        BY <4>1
      <4>2. CASE given = None /\ q = <<0>>
        <5>1. {q[i] : i \in DOMAIN q} = {0}
          BY <4>2
        <5>2. {posted[i] : i \in DOMAIN posted} = {}
          <6>1. posted = <<>> /\ DOMAIN <<>> = {}
            BY <4>2 DEF OneAnswer
          <6>2. QED
            BY <6>1
        <5>3. QED
          BY <5>1, <5>2
      <4>3. QED
        BY <3>1, <4>1, <4>2 DEF Breaking
    <3>3. {posted'[i] : i \in DOMAIN posted'} =
             {q[i] : i \in DOMAIN q} \union ({p} \ {None})
      <4>1. CASE p = None
        BY <3>1, <4>1 DEF Breaking
      <4>2. CASE p # None
        <5>1. p \in Sendable
          BY <4>2 DEF Sendable
        <5>2. posted' = Append(q, p) /\ posted' \in Seq(Sendable)
          BY <3>1, <4>2, <5>1, AppendProperties DEF Breaking
        <5>3. /\ DOMAIN q = 1..Len(q) /\ Len(q) \in Nat
              /\ DOMAIN posted' = 1..(Len(q) + 1) /\ posted'[Len(q) + 1] = p
              /\ \A i \in 1..Len(q) : posted'[i] = q[i]
          BY <3>1, <5>1, <5>2, AppendProperties, LenProperties
        <5>4. \A x : x \in {posted'[i] : i \in DOMAIN posted'} <=> x \in {q[i] : i \in DOMAIN q} \/ x = p
          <6>1. DOMAIN posted' = DOMAIN q \union {Len(q) + 1}
            BY <5>3
          <6>2. \A i \in DOMAIN q : posted'[i] = q[i]
            BY <5>3
          <6>3. QED
            BY <5>3, <6>1, <6>2
        <5>5. QED
          BY <4>2, <5>4
      <4>3. QED
        BY <4>1, <4>2
    <3>4. lease' = Outstanding' \ {0, None}
      <4>1. lease' = lease \union ({p} \ {None}) /\ UNCHANGED <<sending, pending>>
        BY <3>1 DEF Breaking
      <4>2. p # 0
        BY <3>1, Numbers
      <4>3. Outstanding' \ {0, None} = (Outstanding \ {0, None}) \union ({p} \ {None})
        BY <3>2, <3>3, <4>1, <4>2 DEF Outstanding
      <4>4. QED
        BY <2>0, <4>1, <4>3
    <3>5. posted' \in Seq(Sendable)
      BY <3>1, AppendProperties DEF Breaking, Sendable
    <3>6. given' \in 0..total'
      BY <2>0, <3>1, Numbers DEF Breaking
    <3>7. QED
      BY <2>0, <3>1, <3>4, <3>5, <3>6 DEF Breaking
  <2>7. QED
    <3>1. CASE Asio
      BY <2>1, <2>2, <2>3, <3>1
         DEF Asio, HandleRequest, ReadFails, PollEnds, SendSucceeds, SendFails, SendIsPartial, flight, mainVars
    <3>2. CASE Main
      <4>1. CallHandler => \/ UNCHANGED <<flight, wire, sent, total, given>>
                          \/ /\ given = None /\ Respond(0)
                             /\ UNCHANGED <<sending, pending, wire, sent>>
        BY DEF CallHandler, OneAnswer, asioVars, flight
      <4>2. AnswerLocally => /\ given = None /\ Respond(0)
                             /\ UNCHANGED <<sending, pending, wire, sent>>
        BY DEF AnswerLocally, OneAnswer, asioVars
      <4>3. AnswerFromService => /\ given = None /\ \E n \in 0..MaxPieces : Respond(n)
                                 /\ UNCHANGED <<sending, pending, wire, sent>>
        BY DEF AnswerFromService, asioVars
      <4>4. TakeTask \/ ResetMainWork => UNCHANGED <<flight, wire, sent, total, given>>
        BY DEF TakeTask, ResetMainWork, asioVars, flight
      <4>5. 0 \in 0..MaxPieces
        BY Numbers
      <4>6. QED
        BY <2>1, <2>4, <2>5, <3>2, <4>1, <4>2, <4>3, <4>4, <4>5 DEF Main
    <3>3. CASE HangUp \/ UNCHANGED vars
      BY <2>1, <3>3 DEF HangUp, vars, asioVars, mainVars, flight
    <3>4. QED
      BY <2>6, <3>1, <3>2, <3>3 DEF Next
<1>3. QED
  <2>1. Sendable = {0} \union Pieces
    BY DEF Sendable
  <2>2. QED
    BY <1>1, <1>2, <2>1 DEF TypeOK

-----------------------------------------------------------------------------
(* There is one answer, from one of the places that can give it.           *)
LEMMA OneAnswerStep == TypeOK /\ OneAnswer /\ [Next]_vars => OneAnswer'
<1> SUFFICES ASSUME TypeOK, OneAnswer, [Next]_vars PROVE OneAnswer'
  OBVIOUS
<1>0. None \notin {0, 1} /\ (given # None => given + 1 # None)
  BY Numbers
<1>1. CASE HandleRequest \/ ReadFails \/ PollEnds
  BY <1>1 DEF OneAnswer, HandleRequest, ReadFails, PollEnds, Close, mainVars
<1>2. CASE RunPosted
  <2>1. given # None /\ UNCHANGED <<read, handlerWork, mainVars>>
    BY <1>2 DEF RunPosted, OneAnswer
  <2>2. QED
    BY <2>1 DEF OneAnswer, mainVars
<1>3. CASE SendReturns /\ sending # None
  <2>1. given # None /\ UNCHANGED <<read, handlerWork, mainVars>>
    BY <1>3 DEF SendReturns, OneAnswer
  <2>2. QED
    BY <2>1 DEF OneAnswer, mainVars
<1>4. CASE TakeTask \/ ResetMainWork \/ HangUp \/ UNCHANGED vars
  BY <1>4 DEF OneAnswer, TakeTask, ResetMainWork, HangUp, asioVars, mainVars, vars
<1>5. CASE CallHandler
  <2>1. CASE Respond(0) /\ UNCHANGED mainWork
    BY <1>0, <1>5, <2>1 DEF CallHandler, Respond, OneAnswer, asioVars
  <2>2. CASE UNCHANGED <<total, given, posted, lease>>
    BY <1>5, <2>2 DEF CallHandler, OneAnswer, asioVars
  <2>3. QED
    BY <1>5, <2>1, <2>2 DEF CallHandler
<1>6. CASE AnswerLocally
  BY <1>0, <1>6 DEF AnswerLocally, Respond, OneAnswer, asioVars
<1>7. CASE AnswerFromService
  BY <1>0, <1>7 DEF AnswerFromService, Respond, OneAnswer, asioVars
<1>8. CASE NextPiece
  BY <1>0, <1>8 DEF NextPiece, OneAnswer, asioVars
<1>9. CASE ServiceBreaks
  <2>1. PICK q \in Seq(Sendable), g \in 0..MaxPieces, p \in {None} \union Pieces : Breaking(q, g, p)
    BY <1>9, BreaksSo
  <2>2. given' # None
    BY <2>1, Numbers DEF Breaking
  <2>3. QED
    BY <2>1, <2>2 DEF Breaking, OneAnswer
<1>10. QED
  BY <1>1, <1>2, <1>3, <1>4, <1>5, <1>6, <1>7, <1>8, <1>9
     DEF Next, Asio, Main, SendSucceeds, SendFails, SendIsPartial

(* What is in flight stays in order.                                       *)
LEMMA InFlightStep == TypeOK /\ OneAnswer /\ InFlight /\ [Next]_vars => InFlight'
<1> SUFFICES ASSUME TypeOK, OneAnswer, InFlight, [Next]_vars PROVE InFlight'
  OBVIOUS
<1>0. /\ None \notin Sendable /\ None \notin Special /\ 0 \notin Special /\ 0 # None
      /\ Special \subseteq Pieces /\ Pieces \subseteq Sendable /\ 0 \notin Pieces
  BY Numbers
<1> USE <1>0
<1>1. CASE UNCHANGED <<flight, total, given, broken>>
  BY <1>1 DEF flight, InFlight
<1>2. CASE RunPosted
  <2>1. /\ posted # <<>> /\ posted' = Tail(posted) /\ Write(Head(posted))
        /\ UNCHANGED <<total, given, broken>>
    BY <1>2 DEF RunPosted, mainVars
  <2>2. /\ Head(posted) = posted[1] /\ Head(posted) \in Sendable
        /\ DOMAIN posted = 1..Len(posted) /\ Len(posted) \in Nat \ {0}
        /\ DOMAIN posted' = 1..(Len(posted) - 1) /\ Len(posted') = Len(posted) - 1
        /\ \A i \in DOMAIN posted' : posted'[i] = posted[i + 1] /\ i + 1 \in DOMAIN posted /\ i + 1 # 1
        /\ Len(posted) = 1 => posted' = <<>>
    <3>1. posted' \in Seq(Sendable) /\ (Len(posted') = 0 => posted' = <<>>)
      BY <2>1, Front, EmptySeq
    <3>2. QED
      BY <2>1, <3>1, Front
  <2>3. /\ Head(posted) \notin {sending, pending}
        /\ Head(posted) = 0 => sending = None
        /\ Head(posted) \in Special => posted' = <<>>
    BY <2>2 DEF InFlight
  <2>4. \A i \in DOMAIN posted' :
           /\ posted'[i] # 0 /\ posted'[i] \notin {sending, pending, Head(posted)}
           /\ posted'[i] \in Special => i = Len(posted')
           /\ \A j \in DOMAIN posted' : posted'[i] = posted'[j] => i = j
    BY <2>2 DEF InFlight
  <2>5. CASE Head(posted) \in Pieces /\ sending # None
    <3>1. pending' = Head(posted) /\ lease' \subseteq lease /\ sending' = sending
      BY <2>1, <2>5 DEF Write
    <3>2. sending \notin Special
      BY <2>1 DEF InFlight
    <3>3. QED
      BY <2>1, <2>3, <2>4, <2>5, <3>1, <3>2 DEF InFlight
  <2>6. CASE ~(Head(posted) \in Pieces /\ sending # None)
    <3>1. sending' = Head(posted) /\ pending' = pending /\ lease' = lease
      BY <2>1, <2>6 DEF Write
    <3>2. sending = None
      BY <2>2, <2>3, <2>6 DEF Sendable
    <3>3. pending = None
      BY <3>2 DEF InFlight
    <3>4. QED
      BY <2>1, <2>2, <2>3, <2>4, <3>1, <3>3 DEF InFlight
  <2>7. QED
    BY <2>5, <2>6
<1>3. CASE SendReturns /\ sending # None
  <2>1. /\ lease' = lease \ {sending} /\ sending' = pending /\ pending' = None
        /\ UNCHANGED <<posted, total, given, broken>>
    BY <1>3 DEF SendReturns, mainVars
  <2>2. \A i \in DOMAIN posted : posted[i] # None /\ posted[i] # 0
    BY <1>3, Held DEF InFlight
  <2>3. QED
    BY <1>3, <2>1, <2>2 DEF InFlight
<1>4. CASE /\ given = None /\ \E n \in 0..MaxPieces : Respond(n)
           /\ UNCHANGED <<sending, pending, broken>>
  <2>1. PICK n \in 0..MaxPieces : Respond(n)
    BY <1>4
  <2>2. posted = <<>> /\ sending = None /\ pending = None /\ lease = {}
    BY <1>4 DEF OneAnswer, TypeOK, Outstanding
  <2>3. CASE n = 0
    <3>1. posted' = <<0>> /\ given' = 0 /\ lease' = {}
      BY <2>1, <2>2, <2>3 DEF Respond
    <3>2. QED
      BY <1>4, <2>2, <3>1 DEF InFlight
  <2>4. CASE n # 0
    <3>1. posted' = <<0, 1>> /\ given' = 1 /\ lease' = {1}
      BY <2>1, <2>2, <2>4 DEF Respond
    <3>2. 1 \notin Special /\ 1 # None /\ Part # 1
      BY <2>1, <2>4, Numbers
    <3>3. /\ lease' \subseteq 1..given' \union Special
          /\ \A p, q \in lease' : p = q
          /\ lease' \intersect Special = {}
      BY <3>1, <3>2
    <3>4. DOMAIN posted' = {1, 2} /\ posted'[1] = 0 /\ posted'[2] = 1 /\ Len(posted') = 2
      BY <3>1
    <3>5. QED
      BY <1>4, <2>2, <3>1, <3>2, <3>3, <3>4 DEF InFlight
  <2>5. QED
    BY <2>3, <2>4
<1>5. CASE NextPiece
  <2>1. /\ given # None /\ given < total /\ lease = {}
        /\ given' = given + 1 /\ posted' = Append(posted, given') /\ lease' = {given'}
        /\ UNCHANGED <<sending, pending, total, broken>>
    BY <1>5 DEF NextPiece, asioVars
  <2>2. given' \in Pieces /\ given' \notin Special /\ given' # 0 /\ given' \in 1..given'
    BY <2>1, Numbers
  <2>3. sending \in {0, None} /\ pending = None
    BY <2>1, Held DEF Sendable
  <2>4. \A i \in DOMAIN posted : posted[i] = 0 /\ i = 1 /\ sending = None
    BY <2>1, Held DEF InFlight
  <2>5. /\ DOMAIN posted' = DOMAIN posted \union {Len(posted')}
        /\ Len(posted') \notin DOMAIN posted
        /\ posted'[Len(posted')] = given'
        /\ \A i \in DOMAIN posted : posted'[i] = posted[i]
    BY <2>1, <2>2, Back
  <2>6. \A i \in DOMAIN posted' :
          /\ posted'[i] = 0 => i = 1 /\ sending' = None
          /\ posted'[i] \notin Special
          /\ posted'[i] \notin {sending', pending'}
          /\ \A j \in DOMAIN posted' : posted'[i] = posted'[j] => i = j
    <3>1. \A i \in DOMAIN posted' :
             \/ i = Len(posted') /\ posted'[i] = given'
             \/ i = 1 /\ posted'[i] = 0 /\ sending = None
      BY <2>4, <2>5
    <3>2. QED
      BY <2>1, <2>2, <2>3, <3>1
  <2>7. lease' \subseteq 1..given' \union Special /\ lease' \intersect Special = {}
    BY <2>1, <2>2
  <2>8. /\ pending' = None /\ sending' \notin Special
        /\ Part \notin lease' /\ \A x, y \in lease' : x = y
    BY <2>1, <2>2, <2>3 DEF Special
  <2>9. QED
    BY <2>3, <2>6, <2>7, <2>8 DEF InFlight
<1>6. CASE ServiceBreaks
  <2>1. PICK q \in Seq(Sendable), g \in 0..MaxPieces, p \in {None} \union Pieces : Breaking(q, g, p)
    BY <1>6, BreaksSo
  <2>2. /\ UNCHANGED <<sending, pending>> /\ broken' = TRUE
        /\ lease' = lease \union ({p} \ {None})
        /\ given' >= g /\ given' \in Int /\ (given # None => given = g /\ total' = total)
        /\ total' \in Nat /\ g \in Nat
    BY <2>1, Numbers DEF Breaking
  <2>3. /\ lease \intersect Special = {}
        /\ \A x, y \in lease : x = y
        /\ sending \notin Special /\ pending \notin Special
        /\ \A i \in DOMAIN posted : posted[i] \notin Special
    <3>1. ~broken
      BY <2>1 DEF Breaking
    <3>2. lease \intersect Special = {}
      BY <3>1 DEF InFlight
    <3>3. Again \in Special
      BY DEF Special
    <3>4. QED
      BY <3>2, <3>3, Held DEF InFlight
  <2>4. \A i \in DOMAIN q :
          /\ q[i] = 0 => i = 1 /\ sending = None
          /\ q[i] \notin Special
          /\ q[i] \notin {sending, pending}
          /\ q[i] # 0 => q[i] \in lease
          /\ \A j \in DOMAIN q : q[i] = q[j] => i = j
    <3>1. CASE q = posted
      BY <2>3, <3>1, Held DEF InFlight
    <3>2. CASE given = None /\ q = <<0>>
      <4>1. sending = None /\ pending = None
        BY <3>2 DEF OneAnswer
      <4>2. DOMAIN q = {1} /\ q[1] = 0
        BY <3>2
      <4>3. QED
        BY <4>1, <4>2
    <3>3. QED
      BY <2>1, <3>1, <3>2 DEF Breaking
  <2>5. lease \subseteq 1..given \union Special /\ (given = None => lease = {})
    <3>1. given = None => lease = {}
      BY DEF OneAnswer, TypeOK, Outstanding
    <3>2. QED
      BY <3>1 DEF InFlight
  <2>6. lease \subseteq 1..given'
    BY <2>2, <2>3, <2>5, Numbers
  <2>7. CASE p = None
    <3>1. posted' = q /\ lease' = lease
      BY <2>1, <2>2, <2>7 DEF Breaking
    <3>2. Part \notin lease
      BY <2>3 DEF Special
    <3>3. \A i \in DOMAIN posted' :
            /\ posted'[i] = 0 => i = 1 /\ sending' = None
            /\ posted'[i] \notin Special
            /\ posted'[i] \notin {sending', pending'}
            /\ \A j \in DOMAIN posted' : posted'[i] = posted'[j] => i = j
      BY <2>2, <2>4, <3>1
    <3>4. /\ pending' # None => sending' # None
          /\ sending' = pending' => sending' = None
      BY <2>2 DEF InFlight
    <3>5. QED
      BY <2>2, <2>3, <2>6, <3>1, <3>2, <3>3, <3>4 DEF InFlight
  <2>8. CASE p # None
    <3>1. p \in Pieces /\ p \in Sendable
      BY <2>1, <2>8
    <3>2. /\ \/ p = Again
             \/ lease = {} /\ p = Part /\ given' = g /\ g < total'
             \/ lease = {} /\ p = given' /\ p \notin Special
      BY <2>1, <2>2, <2>8, Numbers DEF Breaking
    <3>3. p \notin lease
      BY <2>3, <3>2 DEF Special
    <3>4. p \notin {sending, pending} /\ p # 0
      BY <3>1, <3>3, Held
    <3>5. posted' = Append(q, p)
      BY <2>1, <2>8 DEF Breaking
    <3>6. /\ DOMAIN posted' = DOMAIN q \union {Len(posted')}
          /\ Len(posted') \notin DOMAIN q
          /\ posted'[Len(posted')] = p
          /\ \A i \in DOMAIN q : posted'[i] = q[i]
      BY <2>1, <3>1, <3>5, AppendProperties, LenProperties
    <3>7. \A i \in DOMAIN posted' :
            \/ i = Len(posted') /\ posted'[i] = p
            \/ i \in DOMAIN q /\ i # Len(posted') /\ posted'[i] = q[i] /\ q[i] # p
      <4>1. \A i \in DOMAIN q : q[i] # p
        BY <2>4, <3>3, <3>4
      <4>2. QED
        BY <3>6, <4>1
    <3>8. \A i \in DOMAIN posted' :
            /\ posted'[i] = 0 => i = 1 /\ sending' = None
            /\ posted'[i] \in Special => i = Len(posted')
            /\ posted'[i] \notin {sending', pending'}
            /\ \A j \in DOMAIN posted' : posted'[i] = posted'[j] => i = j
      <4>1. ASSUME NEW i \in DOMAIN posted'
            PROVE  /\ posted'[i] = 0 => i = 1 /\ sending' = None
                   /\ posted'[i] \in Special => i = Len(posted')
                   /\ posted'[i] \notin {sending', pending'}
        BY <2>2, <2>4, <3>4, <3>7, <4>1
      <4>2. ASSUME NEW i \in DOMAIN posted', NEW j \in DOMAIN posted', posted'[i] = posted'[j]
            PROVE  i = j
        BY <2>4, <3>7, <4>2
      <4>3. QED
        BY <4>1, <4>2
    <3>9. lease' = lease \union {p}
      BY <2>2, <2>8
    <3>10. \A x, y \in lease' : x = y \/ x = Again \/ y = Again
      BY <2>3, <3>2, <3>9
    <3>11. given' \in 1..given' \/ p # given'
      BY <2>2, <3>1, Numbers
    <3>12. lease' \subseteq 1..given' \union Special
      BY <2>6, <3>2, <3>9, <3>11 DEF Special
    <3>13. Part \in lease' => given' < total'
      BY <2>3, <3>2, <3>9, Numbers DEF Special
    <3>14. QED
      BY <2>2, <2>3, <3>8, <3>10, <3>12, <3>13 DEF InFlight
  <2>9. QED
    BY <2>7, <2>8
<1>7. QED
  <2>2. CASE Asio
    BY <1>1, <1>2, <1>3, <2>2
       DEF Asio, HandleRequest, ReadFails, PollEnds, SendSucceeds, SendFails, SendIsPartial, flight, mainVars
  <2>3. CASE Main
    <3>1. CallHandler => \/ UNCHANGED <<flight, total, given, broken>>
                         \/ given = None /\ Respond(0) /\ UNCHANGED <<sending, pending, broken>>
      <4>1. main = "handle" => given = None
        BY DEF OneAnswer
      <4>2. CallHandler => /\ main = "handle" /\ UNCHANGED <<sending, pending, broken>>
                           /\ Respond(0) \/ UNCHANGED <<total, given, posted, lease>>
        BY DEF CallHandler, asioVars
      <4>3. QED
        BY <4>1, <4>2 DEF flight
    <3>2. AnswerLocally => given = None /\ Respond(0) /\ UNCHANGED <<sending, pending, broken>>
      BY DEF AnswerLocally, OneAnswer, asioVars
    <3>3. AnswerFromService => /\ given = None /\ \E n \in 0..MaxPieces : Respond(n)
                               /\ UNCHANGED <<sending, pending, broken>>
      BY DEF AnswerFromService, asioVars
    <3>4. TakeTask \/ ResetMainWork => UNCHANGED <<flight, total, given, broken>>
      BY DEF TakeTask, ResetMainWork, asioVars, flight
    <3>5. 0 \in 0..MaxPieces
      BY Numbers
    <3>6. QED
      BY <1>1, <1>4, <1>5, <2>3, <3>1, <3>2, <3>3, <3>4, <3>5 DEF Main
  <2>4. CASE HangUp \/ UNCHANGED vars
    BY <1>1, <2>4 DEF HangUp, vars, asioVars, mainVars, flight
  <2>5. QED
    BY <1>6, <2>2, <2>3, <2>4 DEF Next

-----------------------------------------------------------------------------
(* A piece that comes while one is sent and one waits is the last word of a *)
(* transfer that failed: the connection holds one piece at a time.         *)
LEMMA Overtakes ==
  ASSUME TypeOK, InFlight, posted # <<>>, Head(posted) \in Pieces, pending # None
  PROVE  Head(posted) = Again /\ broken
<1>1. /\ Head(posted) = posted[1] /\ 1 \in DOMAIN posted
  BY Front
<1>2. Head(posted) \in lease /\ pending \in lease
  BY <1>1, Held, Numbers
<1>3. Head(posted) # pending /\ pending \notin Special
  BY <1>1 DEF InFlight
<1>4. Head(posted) = Again
  BY <1>2, <1>3 DEF InFlight, Special
<1>5. QED
  BY <1>2, <1>4 DEF InFlight, Special

-----------------------------------------------------------------------------
(* While the other end is there and gets all, what is in flight is the      *)
(* next of what it has.                                                    *)
InWire == \A i \in DOMAIN wire : wire[i] = i - 1

(* What a send brings to the other end.                                    *)
LEMMA Sent ==
  ASSUME TypeOK, OneAnswer, InFlight, InOrder, Whole, sending # None
  PROVE  /\ InWire /\ wire \in Seq(Sendable) /\ sending \in Sendable
         /\ Len(wire) \in Nat /\ DOMAIN wire = 1..Len(wire) /\ Len(wire) <= given + 1
         /\ sent = IF wire = <<>> THEN 0 ELSE Len(wire) - 1
         /\ wire = <<>> <=> Len(wire) = 0
         /\ given # None
         /\ \/ sending = Len(wire) /\ sending \notin Special /\ Len(wire) <= given
            \/ /\ sending \in Special /\ sending # Len(wire)
               /\ broken /\ posted = <<>> /\ pending = None
               /\ sending = Part => given < total /\ Len(wire) <= total
<1>1. InWire
  BY DEF InOrder, InWire
<1>2. wire \in Seq(Sendable) /\ sending \in Sendable
  BY Held DEF TypeOK, Sendable
<1>3. Len(wire) \in Nat /\ DOMAIN wire = 1..Len(wire) /\ (wire = <<>> <=> Len(wire) = 0)
  BY <1>2, LenProperties, EmptySeq
<1>4. given # None
  BY DEF OneAnswer
<1>5. Len(wire) <= given + 1 /\ sent = IF wire = <<>> THEN 0 ELSE Len(wire) - 1
  BY <1>1 DEF InOrder, InWire
<1>9. /\ Len(wire) \in Int /\ Len(wire) <= given + 1 /\ Len(wire) < Again
      /\ given < total => Len(wire) <= total /\ Len(wire) < Part
  <2>1. Len(wire) \in Int /\ Len(wire) <= given + 1
    <3>1. Len(wire) \in Int
      BY <1>3
    <3>2. QED
      BY <1>5, <3>1
  <2>2. /\ given \in Int /\ total \in Int /\ MaxPieces \in Int /\ Part \in Int /\ Again \in Int
        /\ given <= total /\ total <= MaxPieces /\ MaxPieces < Part /\ Again = Part + 1
    BY Numbers
  <2>3. QED
    BY <2>1, <2>2
<1>6. CASE sending \in Special
  <2>1. sending \in lease
    BY <1>6, Held, Numbers
  <2>2. broken /\ posted = <<>> /\ pending = None
    BY <1>6, <2>1 DEF InFlight
  <2>3. sending = Part => given < total
    BY <2>1 DEF InFlight
  <2>4. sending = Again => sending # Len(wire)
    <3>1. Len(wire) < Again
      BY <1>9
    <3>2. QED
      BY <1>3, <3>1, Numbers
  <2>5. sending = Part => Len(wire) <= total /\ sending # Len(wire)
    <3>1. given < total => Len(wire) <= total /\ Len(wire) < Part
      BY <1>9
    <3>2. QED
      BY <1>9, <2>3, <3>1
  <2>6. QED
    BY <1>1, <1>2, <1>3, <1>4, <1>5, <1>6, <2>2, <2>3, <2>4, <2>5 DEF Special
<1>7. CASE sending \notin Special
  <2>1. sending = Len(wire)
    BY <1>7 DEF InOrder
  <2>2. sending # 0 => sending \in 1..given
    <3>1. sending # 0 => sending \in lease
      BY <1>2, Held DEF Sendable
    <3>2. QED
      BY <1>7, <3>1 DEF InFlight
  <2>3. Len(wire) <= given
    BY <1>3, <1>4, <2>1, <2>2, Numbers
  <2>4. QED
    BY <1>1, <1>2, <1>3, <1>4, <1>5, <1>7, <2>1, <2>3
<1>8. QED
  BY <1>6, <1>7

(* What is queued follows what was sent, what is being sent and what waits. *)
InPlace(q) ==
    \A i \in DOMAIN q :
        q[i] \notin Special => q[i] = Len(wire) + One(sending) + One(pending) + i - 1

(* It stays so for what is posted behind it.                              *)
LEMMA Behind ==
  ASSUME TypeOK, NEW q \in Seq(Sendable), NEW p \in Sendable, InPlace(q),
         p \notin Special => p = Len(wire) + One(sending) + One(pending) + Len(q),
         posted' = Append(q, p), UNCHANGED <<sending, pending, wire>>
  PROVE  InPlace(posted)' /\ Len(posted') = Len(q) + 1
<1>1. /\ DOMAIN q = 1..Len(q) /\ Len(q) \in Nat
      /\ DOMAIN posted' = 1..(Len(q) + 1) /\ Len(posted') = Len(q) + 1
      /\ posted'[Len(q) + 1] = p
      /\ \A i \in 1..Len(q) : posted'[i] = q[i]
  BY AppendProperties, LenProperties
<1>2. /\ One(sending') = One(sending) /\ One(pending') = One(pending) /\ Len(wire') = Len(wire)
      /\ One(sending) \in {0, 1} /\ One(pending) \in {0, 1} /\ Len(wire) \in Nat
  <2>1. Len(wire) \in Nat
    BY LenProperties DEF TypeOK
  <2>2. QED
    BY <2>1 DEF One
<1>3. ASSUME NEW i \in DOMAIN posted', posted'[i] \notin Special
      PROVE  posted'[i] = Len(wire') + One(sending') + One(pending') + i - 1
  <2>1. CASE i \in DOMAIN q
    BY <1>1, <1>2, <1>3, <2>1 DEF InPlace
  <2>2. CASE i = Len(q) + 1
    <3>1. posted'[i] = Len(wire) + One(sending) + One(pending) + Len(q)
      BY <1>1, <1>3, <2>2
    <3>2. QED
      BY <1>1, <1>2, <2>2, <3>1
  <2>3. QED
    BY <1>1, <2>1, <2>2
<1>4. QED
  BY <1>1, <1>3 DEF InPlace

(* A step leaves it so.                                                    *)
LEMMA InOrderStep == TypeOK /\ OneAnswer /\ InFlight /\ InOrder /\ [Next]_vars => InOrder'
<1> SUFFICES ASSUME TypeOK, OneAnswer, InFlight, InOrder, [Next]_vars, Whole' PROVE InOrder'
  BY DEF InOrder
<1>0. Whole
  BY DEF Whole, Next, Asio, Main, HandleRequest, ReadFails, PollEnds, RunPosted, SendSucceeds, SendFails,
     SendIsPartial, SendReturns, Close, TakeTask, CallHandler, ResetMainWork, AnswerLocally,
     AnswerFromService, NextPiece, ServiceBreaks, HangUp, vars, asioVars, mainVars
<1>a. wire \in Seq(Sendable) /\ Len(wire) \in Nat
  BY LenProperties DEF TypeOK, Sendable
<1>b. /\ None \notin Sendable /\ None \notin Special /\ 0 \notin Special /\ 0 # None
      /\ Special \subseteq Pieces /\ Pieces \subseteq Sendable /\ 0 \notin Pieces
  BY Numbers
<1>1. CASE UNCHANGED <<flight, wire, sent, given, broken>>
  BY <1>0, <1>1 DEF flight, InOrder, One
<1>2. CASE RunPosted
  <2>1. /\ posted # <<>> /\ posted' = Tail(posted) /\ Write(Head(posted))
        /\ UNCHANGED <<given, broken, wire, sent>>
    BY <1>2 DEF RunPosted, mainVars
  <2>2. /\ Head(posted) = posted[1] /\ Head(posted) \in Sendable
        /\ DOMAIN posted = 1..Len(posted) /\ Len(posted) \in Nat \ {0}
        /\ DOMAIN posted' = 1..(Len(posted) - 1) /\ Len(posted') = Len(posted) - 1
        /\ \A i \in DOMAIN posted' : posted'[i] = posted[i + 1] /\ i + 1 \in DOMAIN posted
    BY <2>1, Front
  <2>3. /\ Head(posted) = 0 => sending = None
        /\ pending # None => sending # None
        /\ Head(posted) \notin Special => Head(posted) = Len(wire) + One(sending) + One(pending)
    <3>1. 1 \in DOMAIN posted
      BY <2>2
    <3>2. posted[1] \notin Special => posted[1] = Len(wire) + One(sending) + One(pending) + 1 - 1
      BY <1>0, <3>1 DEF InOrder
    <3>3. One(sending) \in {0, 1} /\ One(pending) \in {0, 1}
      BY DEF One
    <3>4. QED
      BY <1>a, <2>2, <3>1, <3>2, <3>3 DEF InFlight
  <2>4. InWire
    BY <1>0, <2>1, <2>2 DEF InOrder, InWire
  <2>5. /\ InWire' /\ wire' = wire /\ sent' = sent /\ given' = given /\ broken' = broken
        /\ Len(wire) <= given + 1 /\ sent = IF wire = <<>> THEN 0 ELSE Len(wire) - 1
    BY <1>0, <2>1, <2>4 DEF InOrder, InWire
  <2>6. ~broken /\ given # None =>
           given + 1 = Len(wire) + One(sending) + One(pending) + Len(posted)
    BY <1>0 DEF InOrder
  <2>7. \A i \in DOMAIN posted' :
           posted'[i] \notin Special => posted'[i] = Len(wire) + One(sending) + One(pending) + i
    <3>1. \A i \in DOMAIN posted :
             posted[i] \notin Special => posted[i] = Len(wire) + One(sending) + One(pending) + i - 1
      BY <1>0 DEF InOrder
    <3>2. One(sending) \in {0, 1} /\ One(pending) \in {0, 1}
      BY DEF One
    <3>3. QED
      BY <1>a, <2>2, <3>1, <3>2
  <2>8. CASE Head(posted) \in Pieces /\ sending # None /\ pending = None
    <3>1. pending' = Head(posted) /\ sending' = sending
      BY <2>1, <2>8 DEF Write
    <3>2. One(sending) = 1 /\ One(sending') = 1 /\ One(pending) = 0 /\ One(pending') = 1
      BY <1>b, <2>8, <3>1 DEF One
    <3>3. sending' \notin {None} \union Special => sending' = Len(wire')
      BY <1>0, <2>5, <3>1 DEF InOrder
    <3>4. pending' \notin {None} \union Special => pending' = Len(wire') + 1
      BY <1>a, <2>3, <2>5, <3>1, <3>2
    <3>5. \A i \in DOMAIN posted' :
            posted'[i] \notin Special =>
                posted'[i] = Len(wire') + One(sending') + One(pending') + i - 1
      <4>1. ASSUME NEW i \in DOMAIN posted', posted'[i] \notin Special
            PROVE  posted'[i] = Len(wire') + One(sending') + One(pending') + i - 1
        <5>1. i \in Int
          BY <2>2
        <5>2. posted'[i] = Len(wire) + 1 + 0 + i
          BY <2>7, <3>2, <4>1
        <5>3. Len(wire') + One(sending') + One(pending') + i - 1 = Len(wire) + 1 + 1 + i - 1
          BY <2>5, <3>2
        <5>4. QED
          BY <1>a, <5>1, <5>2, <5>3
      <4>2. QED
        BY <4>1
    <3>6. ~broken' /\ given' # None =>
             given' + 1 = Len(wire') + One(sending') + One(pending') + Len(posted')
      BY <1>a, <2>2, <2>5, <2>6, <3>2
    <3>7. QED
      BY <2>5, <3>3, <3>4, <3>5, <3>6 DEF InOrder, InWire
  <2>9. CASE Head(posted) \in Pieces /\ sending # None /\ pending # None
    <3>1. pending' = Head(posted) /\ sending' = sending
      BY <2>1, <2>9 DEF Write
    <3>2. Head(posted) = Again /\ broken
      BY <2>1, <2>9, Overtakes
    <3>3. posted' = <<>>
      <4>1. Len(posted) = 1
        BY <2>2, <3>2 DEF InFlight, Special
      <4>2. posted' \in Seq(Sendable)
        BY <2>1, Front
      <4>3. QED
        BY <2>2, <4>1, <4>2, EmptySeq
    <3>4. sending' \notin {None} \union Special => sending' = Len(wire')
      BY <1>0, <2>5, <3>1 DEF InOrder
    <3>5. QED
      BY <2>5, <3>1, <3>2, <3>3, <3>4 DEF InOrder, InWire, Special
  <2>10. CASE ~(Head(posted) \in Pieces /\ sending # None)
    <3>1. sending' = Head(posted) /\ pending' = pending
      BY <2>1, <2>10 DEF Write
    <3>2. sending = None /\ pending = None
      BY <2>2, <2>3, <2>10 DEF Sendable
    <3>3. One(sending) = 0 /\ One(sending') = 1 /\ One(pending) = 0 /\ One(pending') = 0
      BY <1>b, <2>2, <3>1, <3>2 DEF One
    <3>4. sending' \notin {None} \union Special => sending' = Len(wire')
      BY <1>a, <2>3, <2>5, <3>1, <3>3
    <3>5. \A i \in DOMAIN posted' :
            posted'[i] \notin Special =>
                posted'[i] = Len(wire') + One(sending') + One(pending') + i - 1
      BY <1>a, <2>2, <2>5, <2>7, <3>3
    <3>6. ~broken' /\ given' # None =>
             given' + 1 = Len(wire') + One(sending') + One(pending') + Len(posted')
      BY <1>a, <2>2, <2>5, <2>6, <3>3
    <3>7. QED
      BY <2>5, <3>1, <3>2, <3>4, <3>5, <3>6 DEF InOrder, InWire
  <2>11. QED
    BY <2>8, <2>9, <2>10
<1>3. CASE SendReturns /\ sending # None /\ wire' = Append(wire, sending)
  <2>1. /\ sending' = pending /\ pending' = None /\ UNCHANGED <<posted, given, broken, total>>
        /\ sent' = IF sending \in Pieces \ {Part} THEN sent + 1 ELSE sent
    BY <1>3 DEF SendReturns, mainVars
  <2>2. /\ Len(wire') = Len(wire) + 1 /\ wire' # <<>> /\ DOMAIN wire' = 1..Len(wire) + 1
        /\ \A i \in 1..Len(wire) : wire'[i] = wire[i]
        /\ wire'[Len(wire) + 1] = sending
    <3>1. wire' \in Seq(Sendable)
      BY <1>0, <1>3, Sent, AppendProperties
    <3>2. QED
      BY <1>0, <1>3, <3>1, Sent, AppendProperties, LenProperties
  <2>3. CASE sending = Len(wire) /\ sending \notin Special /\ Len(wire) <= given
    <3>1. InWire'
      <4>1. \A i \in 1..Len(wire) : wire'[i] = i - 1
        BY <1>0, <1>3, <2>2, Sent DEF InWire
      <4>2. \A i \in 1..Len(wire) + 1 : i \in 1..Len(wire) \/ i = Len(wire) + 1
        BY <1>a
      <4>3. wire'[Len(wire) + 1] = (Len(wire) + 1) - 1
        BY <1>a, <2>2, <2>3
      <4>4. QED
        BY <2>2, <4>1, <4>2, <4>3 DEF InWire
    <3>2. One(sending) = 1 /\ One(pending') = 0 /\ One(sending') = One(pending) /\ One(pending) \in {0, 1}
      BY <1>3, <2>1 DEF One
    <3>3. sending' \notin {None} \union Special => sending' = Len(wire')
      BY <1>0, <2>1, <2>2 DEF InOrder
    <3>4. ASSUME NEW i \in DOMAIN posted', posted'[i] \notin Special
          PROVE  posted'[i] = Len(wire') + One(sending') + One(pending') + i - 1
      <4>1. i \in DOMAIN posted /\ posted[i] \notin Special /\ posted'[i] = posted[i] /\ i \in Int
        <5>1. DOMAIN posted = 1..Len(posted)
          BY LenProperties DEF TypeOK
        <5>2. QED
          BY <2>1, <3>4, <5>1
      <4>2. posted[i] = Len(wire) + 1 + One(pending) + i - 1
        BY <1>0, <3>2, <4>1 DEF InOrder
      <4>3. QED
        BY <1>a, <2>2, <3>2, <4>1, <4>2
    <3>5. ~broken' /\ given' # None =>
             given' + 1 = Len(wire') + One(sending') + One(pending') + Len(posted')
      <4>1. ~broken /\ given # None =>
               given + 1 = Len(wire) + 1 + One(pending) + Len(posted)
        BY <1>0, <3>2 DEF InOrder
      <4>2. Len(posted) \in Nat
        BY LenProperties DEF TypeOK
      <4>3. QED
        BY <1>a, <2>1, <2>2, <3>2, <4>1, <4>2
    <3>6. Len(wire') <= given' + 1
      BY <1>a, <2>1, <2>2, <2>3, Numbers
    <3>7. sent' = Len(wire') - 1
      <4>1. sent = IF wire = <<>> THEN 0 ELSE Len(wire) - 1
        BY <1>0, <1>3, Sent
      <4>2. wire = <<>> <=> Len(wire) = 0
        BY <1>0, <1>3, Sent
      <4>3. CASE Len(wire) = 0
        BY <2>1, <2>2, <2>3, <4>1, <4>2, <4>3, <1>b
      <4>4. CASE Len(wire) # 0
        <5>1. sending \in Pieces \ {Part}
          <6>1. sending \in Sendable
            BY <1>3, Held
          <6>2. QED
            BY <2>3, <4>4, <6>1 DEF Sendable, Special
        <5>2. QED
          BY <1>a, <2>1, <2>2, <4>1, <4>2, <4>4, <5>1
      <4>5. QED
        BY <4>3, <4>4
    <3>8. pending' = None /\ wire' # <<>>
      BY <2>1, <2>2
    <3>9. QED
      BY <3>1, <3>3, <3>4, <3>5, <3>6, <3>7, <3>8 DEF InOrder, InWire
  <2>4. CASE /\ sending \in Special /\ sending # Len(wire)
             /\ broken /\ posted = <<>> /\ pending = None
    <3>1. ~InWire'
      BY <1>a, <2>2, <2>4 DEF InWire
    <3>2. QED
      BY <2>1, <2>4, <3>1 DEF InOrder, InWire
  <2>5. QED
    BY <1>0, <1>3, <2>3, <2>4, Sent
<1>4. CASE /\ given = None /\ \E n \in 0..MaxPieces : Respond(n)
           /\ UNCHANGED <<sending, pending, wire, sent, broken>>
  <2>1. PICK n \in 0..MaxPieces : Respond(n)
    BY <1>4
  <2>2. posted = <<>> /\ sending = None /\ pending = None /\ wire = <<>> /\ sent = 0 /\ ~broken
    BY <1>4 DEF OneAnswer
  <2>3. \/ posted' = <<0>> /\ given' = 0
        \/ posted' = <<0, 1>> /\ given' = 1
    BY <2>1, <2>2 DEF Respond
  <2>4. /\ DOMAIN posted' \subseteq 1..2 /\ \A i \in DOMAIN posted' : posted'[i] = i - 1
        /\ Len(posted') = given' + 1 /\ given' \in {0, 1}
    <3>1. CASE posted' = <<0>> /\ given' = 0
      BY <3>1
    <3>2. CASE posted' = <<0, 1>> /\ given' = 1
      <4>1. DOMAIN posted' = {1, 2} /\ posted'[1] = 0 /\ posted'[2] = 1 /\ Len(posted') = 2
        BY <3>2
      <4>2. QED
        BY <3>2, <4>1
    <3>3. QED
      BY <2>3, <3>1, <3>2
  <2>5. One(sending') = 0 /\ One(pending') = 0 /\ Len(wire') = 0 /\ wire' = <<>> /\ sent' = 0
    BY <1>4, <2>2 DEF One
  <2>6. \A i \in DOMAIN posted' : posted'[i] = Len(wire') + One(sending') + One(pending') + i - 1
    <3>1. ASSUME NEW i \in DOMAIN posted'
          PROVE  posted'[i] = 0 + 0 + 0 + i - 1
      <4>1. posted'[i] = i - 1 /\ i \in Int
        BY <2>4
      <4>2. QED
        BY <4>1
    <3>2. QED
      BY <2>5, <3>1
  <2>7. given' + 1 = Len(wire') + One(sending') + One(pending') + Len(posted') /\ Len(wire') <= given' + 1
    <3>1. Len(wire') + One(sending') + One(pending') + Len(posted') = 0 + 0 + 0 + (given' + 1)
      BY <2>4, <2>5
    <3>2. 0 + 0 + 0 + (given' + 1) = given' + 1 /\ 0 <= given' + 1
      <4>1. given' = 0 \/ given' = 1
        BY <2>3
      <4>2. QED
        BY <4>1
    <3>3. Len(wire') <= given' + 1
      BY <2>5, <3>2
    <3>4. QED
      BY <3>1, <3>2, <3>3
  <2>8. DOMAIN wire' = {}
    BY <2>5
  <2>9. QED
    BY <1>4, <2>2, <2>5, <2>6, <2>7, <2>8 DEF InOrder
<1>5. CASE NextPiece
  <2>1. /\ given # None /\ ~broken
        /\ given' = given + 1 /\ posted' = Append(posted, given')
        /\ UNCHANGED <<sending, pending, wire, sent, broken>> /\ given < total
    BY <1>5 DEF NextPiece, asioVars
  <2>2. given' \in Sendable /\ given' \in Int /\ given \in Int
    BY <2>1, Numbers
  <2>3. posted \in Seq(Sendable) /\ Len(posted) \in Nat
    BY LenProperties DEF TypeOK, Sendable
  <2>4. /\ InPlace(posted) /\ InWire
        /\ given + 1 = Len(wire) + One(sending) + One(pending) + Len(posted)
        /\ Len(wire) <= given + 1 /\ sent = IF wire = <<>> THEN 0 ELSE Len(wire) - 1
    BY <1>0, <2>1 DEF InOrder, InPlace, InWire
  <2>5. given' = Len(wire) + One(sending) + One(pending) + Len(posted)
    BY <2>1, <2>4
  <2>6. InPlace(posted)' /\ Len(posted') = Len(posted) + 1
    BY <2>1, <2>2, <2>3, <2>4, <2>5, Behind
  <2>7. given' + 1 = Len(wire') + One(sending') + One(pending') + Len(posted')
    <3>1. One(sending) \in {0, 1} /\ One(pending) \in {0, 1}
      BY DEF One
    <3>2. One(sending') = One(sending) /\ One(pending') = One(pending) /\ Len(wire') = Len(wire)
      BY <2>1 DEF One
    <3>3. QED
      <4>1. Len(wire') + One(sending') + One(pending') + Len(posted')
              = Len(wire) + One(sending) + One(pending) + (Len(posted) + 1)
        BY <2>6, <3>2
      <4>2. Len(wire) + One(sending) + One(pending) + (Len(posted) + 1)
              = (Len(wire) + One(sending) + One(pending) + Len(posted)) + 1
        BY <1>a, <2>3, <3>1
      <4>3. QED
        BY <2>5, <4>1, <4>2
  <2>8. Len(wire') <= given' + 1
    <3>1. Len(wire) <= given + 1 /\ given' = given + 1 /\ wire' = wire
      BY <2>1, <2>4
    <3>2. QED
      BY <1>a, <2>2, <3>1
  <2>9. /\ sending' \notin {None} \union Special => sending' = Len(wire')
        /\ pending' \notin {None} \union Special => pending' = Len(wire') + 1
        /\ sent' = IF wire' = <<>> THEN 0 ELSE Len(wire') - 1
    BY <1>0, <2>1, <2>4 DEF InOrder
  <2>10. QED
    BY <2>1, <2>4, <2>6, <2>7, <2>8, <2>9 DEF InOrder, InPlace, InWire
<1>6. CASE ServiceBreaks
  <2>1. PICK q \in Seq(Sendable), g \in 0..MaxPieces, p \in {None} \union Pieces : Breaking(q, g, p)
    BY <1>6, BreaksSo
  <2>2. ~broken /\ broken' /\ UNCHANGED <<sending, pending, wire, sent>>
    BY <2>1 DEF Breaking
  <2>3. InPlace(q) /\ g + 1 = Len(wire) + One(sending) + One(pending) + Len(q)
    <3>1. CASE given # None /\ q = posted /\ g = given
      BY <1>0, <2>2, <3>1 DEF InOrder, InPlace
    <3>2. CASE given = None /\ q = <<0>> /\ g = 0
      <4>1. One(sending) = 0 /\ One(pending) = 0 /\ Len(wire) = 0
        <5>1. sending = None /\ pending = None /\ wire = <<>>
          BY <3>2 DEF OneAnswer
        <5>2. QED
          BY <5>1 DEF One
      <4>2. DOMAIN q = {1} /\ q[1] = 0 /\ Len(q) = 1
        BY <3>2
      <4>3. QED
        BY <3>2, <4>1, <4>2 DEF InPlace
    <3>3. QED
      BY <2>1, <3>1, <3>2 DEF Breaking
  <2>4. InPlace(posted)'
    <3>1. CASE p = None
      BY <2>1, <2>2, <2>3, <3>1 DEF InPlace, Breaking, One
    <3>2. CASE p # None
      <4>1. p \notin Special => p = Len(wire) + One(sending) + One(pending) + Len(q)
        BY <2>1, <2>3, <3>2 DEF Breaking, Special
      <4>2. p \in Sendable /\ posted' = Append(q, p)
        BY <2>1, <3>2, <1>b DEF Breaking
      <4>3. QED
        BY <2>1, <2>2, <2>3, <4>1, <4>2, Behind
    <3>3. QED
      BY <3>1, <3>2
  <2>5. given' \in Int /\ given' >= given
    BY <2>1, Numbers DEF Breaking
  <2>6. InWire /\ Len(wire) <= given + 1 /\ sent = IF wire = <<>> THEN 0 ELSE Len(wire) - 1
    BY <1>0, <2>2 DEF InOrder, InWire
  <2>7. Len(wire') <= given' + 1
    <3>1. Len(wire) <= given + 1 /\ wire' = wire /\ given \in Int
      BY <2>2, <2>6, Numbers
    <3>2. QED
      BY <1>a, <2>5, <3>1
  <2>8. /\ sending' \notin {None} \union Special => sending' = Len(wire')
        /\ pending' \notin {None} \union Special => pending' = Len(wire') + 1
        /\ sent' = IF wire' = <<>> THEN 0 ELSE Len(wire') - 1
    BY <1>0, <2>2, <2>6 DEF InOrder
  <2>9. QED
    BY <2>2, <2>4, <2>6, <2>7, <2>8 DEF InOrder, InPlace, InWire
<1>7. QED
  <2>1. CASE Asio
    <3>1. SendFails => ~Whole
      BY DEF SendFails, Whole
    <3>2. SendIsPartial => ~Whole'
      BY DEF SendIsPartial, Whole
    <3>3. SendSucceeds => SendReturns /\ sending # None /\ wire' = Append(wire, sending)
      BY DEF SendSucceeds
    <3>4. QED
      BY <1>0, <1>1, <1>2, <1>3, <2>1, <3>1, <3>2, <3>3
         DEF Asio, HandleRequest, ReadFails, PollEnds, flight, mainVars
  <2>2. CASE Main
    <3>1. CallHandler => \/ UNCHANGED <<flight, wire, sent, given, broken>>
                         \/ given = None /\ Respond(0) /\ UNCHANGED <<sending, pending, wire, sent, broken>>
      <4>1. main = "handle" => given = None
        BY DEF OneAnswer
      <4>2. CallHandler => /\ main = "handle" /\ UNCHANGED <<sending, pending, wire, sent, broken>>
                           /\ Respond(0) \/ UNCHANGED <<total, given, posted, lease>>
        BY DEF CallHandler, asioVars
      <4>3. QED
        BY <4>1, <4>2 DEF flight
    <3>2. AnswerLocally => given = None /\ Respond(0) /\ UNCHANGED <<sending, pending, wire, sent, broken>>
      BY DEF AnswerLocally, OneAnswer, asioVars
    <3>3. AnswerFromService => /\ given = None /\ \E n \in 0..MaxPieces : Respond(n)
                               /\ UNCHANGED <<sending, pending, wire, sent, broken>>
      BY DEF AnswerFromService, asioVars
    <3>4. TakeTask \/ ResetMainWork => UNCHANGED <<flight, wire, sent, given, broken>>
      BY DEF TakeTask, ResetMainWork, asioVars, flight
    <3>5. 0 \in 0..MaxPieces
      BY Numbers
    <3>6. QED
      BY <1>1, <1>4, <1>5, <2>2, <3>1, <3>2, <3>3, <3>4, <3>5 DEF Main
  <2>3. CASE HangUp \/ UNCHANGED vars
    BY <1>1, <2>3 DEF HangUp, vars, asioVars, mainVars, flight
  <2>4. QED
    BY <1>6, <2>1, <2>2, <2>3 DEF Next

-----------------------------------------------------------------------------
Inv == TypeOK /\ OneAnswer /\ InFlight /\ InOrder

(* What keeps a connection in order, inductive.                            *)
LEMMA Invariant == Spec => []Inv
<1>1. Init => Inv
  BY InitHolds DEF Inv
<1>2. Inv /\ [Next]_vars => Inv'
  BY TypeStep, OneAnswerStep, InFlightStep, InOrderStep DEF Inv
<1>3. QED
  BY <1>1, <1>2, PTL DEF Spec

(* For any number of pieces and whatever the client, the service and the    *)
(* sends do, the connection holds the lifetimes of exactly the pieces it    *)
(* still has to write, so that the HTTP client is let go on with each.      *)
THEOREM TypeCorrect == Spec => []TypeOK
<1>1. Inv => TypeOK
  BY DEF Inv
<1>2. QED
  BY <1>1, Invariant, PTL

(* A send that waits in the single _pending_send is never overwritten but  *)
(* by the last word of a transfer that failed, the same bytes again.       *)
THEOREM NothingOverwritten == Spec => PendingKept
<1>1. Inv /\ [Next]_vars => [pending # None => pending' \in {pending, None, Again}]_vars
  <2> SUFFICES ASSUME Inv, Next, pending # None PROVE pending' \in {pending, None, Again}
    OBVIOUS
  <2>1. CASE RunPosted
    <3>1. posted # <<>> /\ Write(Head(posted))
      BY <2>1 DEF RunPosted
    <3>2. pending' = pending \/ (pending' = Head(posted) /\ Head(posted) \in Pieces)
      <4>1. CASE Head(posted) \in Pieces /\ sending # None
        BY <3>1, <4>1 DEF Write
      <4>2. CASE ~(Head(posted) \in Pieces /\ sending # None)
        BY <3>1, <4>2 DEF Write
      <4>3. QED
        BY <4>1, <4>2
    <3>3. Head(posted) \in Pieces => Head(posted) = Again
      BY <3>1, Overtakes DEF Inv
    <3>4. QED
      BY <3>2, <3>3
  <2>2. CASE SendReturns
    BY <2>2 DEF SendReturns
  <2>3. CASE UNCHANGED pending
    BY <2>3
  <2>4. QED
    BY <2>1, <2>2, <2>3 DEF Next, Asio, Main, HandleRequest, ReadFails, PollEnds, SendSucceeds, SendFails,
       SendIsPartial, TakeTask, CallHandler, ResetMainWork, AnswerLocally, AnswerFromService, NextPiece,
       ServiceBreaks, HangUp, asioVars
<1>2. QED
  BY <1>1, Invariant, PTL DEF Spec, PendingKept

(* The other end gets the head and then the pieces, in order and without   *)
(* gap or repetition, up to a send that wrote a part only and to the last  *)
(* word of a transfer that failed.                                         *)
THEOREM WireInOrder == Spec => []WireIntact
<1>1. Init => WireIntact
  BY DEF Init, WireIntact
<1>2. Inv /\ WireIntact /\ [Next]_vars => WireIntact'
  <2> SUFFICES ASSUME Inv, WireIntact, [Next]_vars PROVE WireIntact'
    OBVIOUS
  <2>1. CASE SendSucceeds /\ ~cut
    <3>1. Whole /\ sending # None /\ wire' = Append(wire, sending)
      BY <2>1 DEF SendSucceeds, Whole
    <3>2. /\ InWire /\ DOMAIN wire = 1..Len(wire) /\ Len(wire) \in Nat
          /\ wire \in Seq(Sendable) /\ sending \in Sendable
          /\ sending = Len(wire) \/ sending \in {Part, Again}
      BY <3>1, Sent DEF Inv, Special
    <3>3. /\ Len(wire') = Len(wire) + 1 /\ DOMAIN wire' = 1..(Len(wire) + 1)
          /\ \A i \in 1..Len(wire) : wire'[i] = wire[i]
          /\ wire'[Len(wire) + 1] = sending
      BY <3>1, <3>2, AppendProperties, LenProperties
    <3>4. ASSUME NEW i \in DOMAIN wire'
          PROVE  wire'[i] = i - 1 \/ (i = Len(wire') /\ wire'[i] \in {Part, Again})
      <4>1. CASE i \in 1..Len(wire)
        BY <3>2, <3>3, <4>1 DEF InWire
      <4>2. CASE i = Len(wire) + 1
        BY <3>2, <3>3, <4>2
      <4>3. QED
        BY <3>2, <3>3, <4>1, <4>2
    <3>5. QED
      BY <3>4 DEF WireIntact
  <2>2. CASE cut'
    BY <2>2 DEF WireIntact
  <2>3. CASE UNCHANGED <<wire, cut>>
    BY <2>3 DEF WireIntact
  <2>4. CASE SendSucceeds /\ cut
    BY <2>4 DEF SendSucceeds, WireIntact
  <2>5. QED
    BY <2>1, <2>2, <2>3, <2>4 DEF Next, Asio, Main, HandleRequest, ReadFails, PollEnds, RunPosted, SendFails,
       SendIsPartial, TakeTask, CallHandler, ResetMainWork, AnswerLocally, AnswerFromService, NextPiece,
       ServiceBreaks, HangUp, asioVars, vars
<1>3. QED
  BY <1>1, <1>2, Invariant, PTL DEF Spec

(* The server closes the connection of a client that is still there only    *)
(* when all that the response announces was sent, but for the two ways     *)
(* it can be mistaken in: a send that wrote a part, and a piece it was      *)
(* given twice.                                                            *)
THEOREM ClosedComplete == Spec => []ClosedWhenComplete
<1>1. Init => ClosedWhenComplete
  BY DEF Init, ClosedWhenComplete
<1>2. Inv /\ ClosedWhenComplete /\ [Next]_vars => ClosedWhenComplete'
  <2> SUFFICES ASSUME Inv, ClosedWhenComplete, [Next]_vars, sock' = "closed", client' = "there"
               PROVE  \/ wire' = [i \in 1..total' + 1 |-> i - 1]
                      \/ cut'
                      \/ wire'[Len(wire')] = Again
    BY DEF ClosedWhenComplete
  <2>1. client = "there"
    BY DEF Next, Asio, Main, HandleRequest, ReadFails, PollEnds, RunPosted, SendSucceeds, SendFails, SendReturns,
       SendIsPartial, TakeTask, CallHandler, ResetMainWork, AnswerLocally, AnswerFromService, NextPiece,
       ServiceBreaks, HangUp, asioVars, vars
  <2>2. CASE SendSucceeds
    <3>1. /\ sock = "open" /\ sending # None /\ wire' = Append(wire, sending)
          /\ pending = None /\ ~(sent' < total) /\ total' = total /\ cut' = cut
          /\ sent' = IF sending \in Pieces \ {Part} THEN sent + 1 ELSE sent
      BY <2>2 DEF SendSucceeds, SendReturns, Unfinished, mainVars
    <3>2. CASE cut
      BY <3>1, <3>2
    <3>3. CASE ~cut
      <4>1. Whole /\ TypeOK /\ OneAnswer /\ InFlight /\ InOrder
        BY <2>1, <3>1, <3>3 DEF Whole, Inv
      <4>2. /\ InWire /\ wire \in Seq(Sendable) /\ sending \in Sendable
            /\ Len(wire) \in Nat /\ DOMAIN wire = 1..Len(wire) /\ Len(wire) <= given + 1
            /\ sent = IF Len(wire) = 0 THEN 0 ELSE Len(wire) - 1
            /\ \/ sending = Len(wire) /\ sending \notin Special /\ Len(wire) <= given
               \/ sending = Again
               \/ sending = Part /\ given < total /\ Len(wire) <= total
        BY <3>1, <4>1, Sent DEF Special
      <4>3. /\ Len(wire') = Len(wire) + 1 /\ DOMAIN wire' = 1..(Len(wire) + 1)
            /\ \A i \in 1..Len(wire) : wire'[i] = wire[i]
            /\ wire'[Len(wire) + 1] = sending
            /\ wire' = [i \in 1..(Len(wire) + 1) |-> wire'[i]]
        <5>1. wire' \in Seq(Sendable) /\ Len(wire') = Len(wire) + 1
          BY <3>1, <4>2, AppendProperties
        <5>2. wire' \in [1..Len(wire') -> Sendable]
          BY <5>1, LenProperties
        <5>3. DOMAIN wire' = 1..(Len(wire) + 1) /\ wire' = [i \in 1..(Len(wire) + 1) |-> wire'[i]]
          BY <5>1, <5>2
        <5>4. QED
          BY <3>1, <4>2, <5>1, <5>3, AppendProperties
      <4>4. /\ total \in Nat /\ given \in Int /\ given <= total /\ Part \notin 0..total
            /\ given # None => given >= 0
        BY <4>1, Numbers
      <4>5. given >= 0
        BY <3>1, <4>1, <4>4 DEF OneAnswer
      <4>6. CASE sending = Len(wire) /\ sending \notin Special /\ Len(wire) <= given
        <5>1. sending # 0 => sending \in Pieces \ {Part}
          BY <4>2, <4>6 DEF Sendable, Special
        <5>2. sent' = Len(wire)
          <6>1. CASE Len(wire) = 0
            <7>1. 0 \notin Pieces
              BY <4>1, Numbers
            <7>2. QED
              BY <3>1, <4>2, <4>6, <6>1, <7>1
          <6>2. CASE Len(wire) # 0
            BY <3>1, <4>2, <4>6, <5>1, <6>2
          <6>3. QED
            BY <6>1, <6>2
        <5>3. Len(wire) = total
          <6>1. ~(Len(wire) < total)
            BY <3>1, <5>2
          <6>2. Len(wire) \in Nat /\ given \in Int /\ total \in Nat
            BY <4>2, <4>4
          <6>3. Len(wire) <= given /\ given <= total
            BY <4>4, <4>6
          <6>4. QED
            BY <6>1, <6>2, <6>3
        <5>4. ASSUME NEW i \in 1..(Len(wire) + 1) PROVE wire'[i] = i - 1
          BY <4>2, <4>3, <4>6 DEF InWire
        <5>5. wire' = [i \in 1..total' + 1 |-> i - 1]
          BY <3>1, <4>3, <5>3, <5>4
        <5>6. QED
          BY <5>5
      <4>7. CASE sending = Again
        BY <4>3, <4>7
      <4>8. CASE sending = Part /\ given < total /\ Len(wire) <= total
        <5>1. sent' = sent
          BY <3>1, <4>8
        <5>2. sent < total
          <6>1. CASE Len(wire) = 0
            BY <4>2, <4>4, <4>5, <4>8, <6>1
          <6>2. CASE Len(wire) # 0
            <7>1. sent = Len(wire) - 1
              BY <4>2, <6>2
            <7>2. Len(wire) \in Nat /\ total \in Nat
              BY <4>2, <4>4
            <7>3. Len(wire) <= total
              BY <4>8
            <7>4. QED
              BY <7>1, <7>2, <7>3
          <6>3. QED
            BY <6>1, <6>2
        <5>3. QED
          BY <3>1, <5>1, <5>2
      <4>9. QED
        BY <4>2, <4>6, <4>7, <4>8
    <3>4. QED
      BY <3>2, <3>3
  <2>3. CASE sock = "closed" /\ UNCHANGED <<wire, cut>>
    <3>1. CASE UNCHANGED total
      BY <2>1, <2>3, <3>1 DEF ClosedWhenComplete
    <3>2. CASE given = None
      <4>1. wire = <<>> /\ total \in Nat
        BY <3>2, Numbers DEF Inv, OneAnswer
      <4>2. wire # [i \in 1..total + 1 |-> i - 1]
        <5>1. 1 \in DOMAIN [i \in 1..total + 1 |-> i - 1] /\ DOMAIN <<>> = {}
          BY <4>1
        <5>2. QED
          BY <4>1, <5>1
      <4>3. QED
        BY <2>1, <2>3, <4>2 DEF ClosedWhenComplete
    <3>3. UNCHANGED total \/ given = None
      BY DEF Next, Asio, Main, HandleRequest, ReadFails, PollEnds, RunPosted, SendSucceeds, SendFails, SendReturns,
         SendIsPartial, TakeTask, CallHandler, ResetMainWork, AnswerLocally, AnswerFromService, NextPiece,
         ServiceBreaks, HangUp, mainVars, vars, Inv, OneAnswer
    <3>4. QED
      BY <3>1, <3>2, <3>3
  <2>4. SendIsPartial => cut'
    BY DEF SendIsPartial
  <2>5. SendSucceeds \/ SendIsPartial \/ UNCHANGED <<wire, cut>>
    BY DEF Next, Asio, Main, HandleRequest, ReadFails, PollEnds, RunPosted, SendFails,
       TakeTask, CallHandler, ResetMainWork, AnswerLocally, AnswerFromService, NextPiece,
       ServiceBreaks, HangUp, asioVars, vars
  <2>6. SendSucceeds \/ SendIsPartial \/ sock = "closed"
    BY <2>1 DEF Next, Asio, Main, HandleRequest, ReadFails, PollEnds, RunPosted, SendFails, Close,
       TakeTask, CallHandler, ResetMainWork, AnswerLocally, AnswerFromService, NextPiece,
       ServiceBreaks, HangUp, asioVars, vars, Inv, TypeOK
  <2>7. QED
    BY <2>2, <2>3, <2>4, <2>5, <2>6
<1>3. QED
  BY <1>1, <1>2, Invariant, PTL DEF Spec

=============================================================================
