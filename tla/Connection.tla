----------------------------- MODULE Connection -----------------------------
(***************************************************************************)
(* One connection of the HTTP server, struct Connection of                 *)
(* src/src/http/server/server.cpp, from the first read to the end of its   *)
(* life.  The asio thread reads, polls for the end of the stream and       *)
(* writes; the main thread calls the handler, which answers by itself or   *)
(* passes the request on to the HTTP client (web_proxy.cpp:41-71).  Then    *)
(* the answer comes in pieces, each with a lifetime that has to be let go  *)
(* before the client delivers the next one (module HttpClient).            *)
(*                                                                         *)
(* What is written is numbered: 0 is the head of the response together     *)
(* with the body it has, 1, 2, ... are the pieces given to on_bytes.  A    *)
(* transfer that fails ends with what the client's buffer holds: a Part of *)
(* a piece, or the last piece Again.                                       *)
(* RequestParser is left out: a request is complete at some read.          *)
(*                                                                         *)
(* Nobody owns a Connection but the callbacks that hold `self` and the set *)
(* of the server, so it lives as long as one of the variables refers to it. *)
(***************************************************************************)
EXTENDS Integers, Sequences

CONSTANTS
    Handlers,   \* how requests are handled: "sync", "local", "proxy"
    MaxPieces,  \* bound: pieces of a response
    Hangups,    \* how clients leave: "eof", "reset"
    Breaks,     \* can the transfer from the service fail?
    Partial     \* can async_send write less than it was given?

ASSUME ConnectionAssumption ==
    /\ Handlers \subseteq {"sync", "local", "proxy"}
    /\ MaxPieces \in Nat
    /\ Hangups \subseteq {"eof", "reset"}
    /\ Breaks \in BOOLEAN /\ Partial \in BOOLEAN

VARIABLES
    client,         \* the other end: still there, or how it left
    sock,           \* _peer.is_open()
    listed,         \* the connection is in ServerImpl::_connections
    read,           \* the pending async_read_some: of parseSome, of pollSocket
    handlerWork,    \* _handler_work: a task of the main thread that has not begun
    main,           \* the main thread has begun the handler's task
    mainWork,       \* _main_work: what a handler on the main thread has returned
    posted,         \* what was given to asio::post and has not run
    sending,        \* _out_buffer: what is being sent
    pending,        \* _pending_send
    sent,           \* _bytes_sent, in pieces
    total,          \* _content_length, in pieces
    given,          \* whole pieces the HTTP client has delivered; None before on_response
    broken,         \* the transfer from the service has failed
    lease,          \* pieces whose lifetime the connection holds
    wire,           \* history: what the other end was sent completely
    cut             \* history: a send has written a part only

asioVars == <<sock, listed, read, sending, pending, sent, wire, cut>>
mainVars == <<main, mainWork, total, given, broken>>
vars == <<client, asioVars, mainVars, handlerWork, posted, lease>>

None == -1

Part == MaxPieces + 1

Again == MaxPieces + 2

Pieces == 1..Again

(* After ServerImpl::accept() and start().                                 *)
Init ==
    /\ client = "there"
    /\ sock = "open" /\ listed = TRUE /\ read = "parse"
    /\ handlerWork = "none" /\ main = "idle" /\ mainWork = "none"
    /\ posted = <<>> /\ sending = None /\ pending = None
    /\ sent = 0 /\ total = 0 /\ given = None /\ broken = FALSE
    /\ lease = {}
    /\ wire = <<>> /\ cut = FALSE

(* _on_done() and _peer.close().                                           *)
Close_KeepsListed == sock' = "closed" /\ UNCHANGED listed

Close == sock' = "closed" /\ listed' = FALSE

-----------------------------------------------------------------------------
(* The asio thread.                                                        *)

(* The last read of a request: handleRequest() schedules the handler and   *)
(* polls the socket from now on.                                           *)
HandleRequest ==
    /\ read = "parse" /\ client = "there"
    /\ handlerWork' = "handle"
    /\ read' = "poll"
    /\ UNCHANGED <<client, sock, listed, sending, pending, sent, wire, cut, mainVars, posted, lease>>

(* handleError()                                                           *)
ReadFails ==
    /\ read = "parse" /\ client # "there"
    /\ read' = "none"
    /\ Close
    /\ UNCHANGED <<client, handlerWork, sending, pending, sent, wire, cut, mainVars, posted, lease>>

(* The callback of pollSocket().  A task of _handler_work that has not     *)
(* begun is dropped by the assignment.                                     *)
PollEnds ==
    /\ read = "poll"
    /\ read' = "none"
    /\ \/ sock = "closed" /\ UNCHANGED <<sock, listed, handlerWork>>
       \/ sock = "open" /\ client = "eof" /\ handlerWork' = "reset" /\ Close
       \/ sock = "open" /\ client = "reset" /\ UNCHANGED handlerWork /\ Close
    /\ UNCHANGED <<client, sending, pending, sent, wire, cut, mainVars, posted, lease>>

(* writeResponse() and writeData(): there is one send at a time, and one    *)
(* place for what comes meanwhile, where it replaces what is there.        *)
Write_NoQueue(p) ==
    /\ sending' = p
    /\ UNCHANGED <<pending, lease>>

Write_LetsGo(p) ==
    IF p \in Pieces /\ sending # None
    THEN pending' = p /\ lease' = lease \ {p} /\ UNCHANGED sending
    ELSE sending' = p /\ UNCHANGED <<pending, lease>>

Write(p) ==
    IF p \in Pieces /\ sending # None
    THEN pending' = p /\ lease' = lease \ {pending} /\ UNCHANGED sending
    ELSE sending' = p /\ UNCHANGED <<pending, lease>>

RunPosted ==
    /\ posted # <<>>
    /\ posted' = Tail(posted)
    /\ Write(Head(posted))
    /\ UNCHANGED <<client, sock, listed, read, sent, wire, cut, mainVars, handlerWork>>

(* `_bytes_sent < _content_length`: there is more to come.                 *)
Unfinished_Never(n) == FALSE

Unfinished(n) == n < total

(* The callback of sendBuffers(), whatever the outcome was: the lifetime   *)
(* is let go, then comes the send that waits, or the end.                  *)
SendReturns ==
    /\ sent' = IF sending \in Pieces \ {Part} THEN sent + 1 ELSE sent
    /\ lease' = lease \ {sending}
    /\ sending' = pending
    /\ pending' = None
    /\ IF pending # None \/ Unfinished(sent') THEN UNCHANGED <<sock, listed>> ELSE Close
    /\ UNCHANGED <<client, read, mainVars, handlerWork, posted>>

SendSucceeds ==
    /\ sending # None /\ sock = "open" /\ client = "there"
    /\ wire' = Append(wire, sending)
    /\ UNCHANGED cut
    /\ SendReturns

SendFails ==
    /\ sending # None /\ (sock = "closed" \/ client # "there")
    /\ UNCHANGED <<wire, cut>>
    /\ SendReturns

(* The number of bytes that the callback is told is not looked at.         *)
SendIsPartial ==
    /\ Partial
    /\ sending # None /\ sock = "open" /\ client = "there"
    /\ cut' = TRUE
    /\ UNCHANGED wire
    /\ SendReturns

Asio ==
    \/ HandleRequest \/ ReadFails \/ PollEnds \/ RunPosted
    \/ SendSucceeds \/ SendFails \/ SendIsPartial

-----------------------------------------------------------------------------
(* The main thread.                                                        *)

(* The scheduler has found the task's Lifetime alive: from here on it runs, *)
(* although _handler_work may be assigned.                                 *)
TakeTask ==
    /\ main = "idle" /\ handlerWork = "handle"
    /\ main' = "handle"
    /\ handlerWork' = "none"
    /\ UNCHANGED <<client, asioVars, mainWork, total, given, broken, posted, lease>>

Respond(n) ==
    /\ total' = n
    /\ posted' = posted \o (IF n = 0 THEN <<0>> ELSE <<0, 1>>)
    /\ given' = IF n = 0 THEN 0 ELSE 1
    /\ lease' = IF n = 0 THEN lease ELSE lease \union {1}

CallHandler ==
    /\ main = "handle"
    /\ main' = "idle"
    /\ \/ "sync" \in Handlers /\ Respond(0) /\ UNCHANGED mainWork
       \/ \E h \in Handlers \ {"sync"} :
             mainWork' = h /\ UNCHANGED <<total, given, posted, lease>>
    /\ UNCHANGED <<client, asioVars, broken, handlerWork>>

(* The answer that WebProxy::handleRequest() has scheduled.                *)
AnswerLocally ==
    /\ main = "idle" /\ mainWork = "local"
    /\ mainWork' = "none"
    /\ Respond(0)
    /\ UNCHANGED <<client, asioVars, main, broken, handlerWork>>

(* triggerCallbacks() of the HTTP client: on_response and the first piece  *)
(* in one task, each further piece when the one before was let go.         *)
AnswerFromService ==
    /\ main = "idle" /\ mainWork = "proxy" /\ given = None
    /\ \E n \in 0..MaxPieces : Respond(n)
    /\ UNCHANGED <<client, asioVars, main, mainWork, broken, handlerWork>>

NextPiece ==
    /\ main = "idle" /\ mainWork = "proxy"
    /\ given # None /\ given < total /\ lease = {} /\ ~broken
    /\ given' = given + 1
    /\ posted' = Append(posted, given')
    /\ lease' = {given'}
    /\ UNCHANGED <<client, asioVars, main, mainWork, total, broken, handlerWork>>

(* The transfer fails.  finishRequest() lets on_response have what has     *)
(* come so far if it was not called yet, and on_bytes what the buffer      *)
(* holds: part of a piece, all of one, the piece that was delivered last   *)
(* if the buffer was not emptied since, or nothing.                        *)
LastWords(g, n) ==
    {None} \union (IF g > 0 THEN {Again} ELSE {})
           \union (IF g < n /\ lease = {} THEN {Part} ELSE {})
           \union (IF g + 1 < n /\ lease = {} THEN {g + 1} ELSE {})

Finish(g, n, head) ==
    \E p \in LastWords(g, n) :
        /\ given' = IF p = g + 1 THEN p ELSE g
        /\ posted' = posted \o head \o (IF p = None THEN <<>> ELSE <<p>>)
        /\ lease' = lease \union ({p} \ {None})

ServiceBreaks ==
    /\ Breaks /\ ~broken
    /\ main = "idle" /\ mainWork = "proxy"
    /\ broken' = TRUE
    /\ \/ /\ given = None
          /\ total' \in 0..MaxPieces
          /\ Finish(0, total', <<0>>)
       \/ /\ given # None /\ given < total
          /\ Finish(given, total, <<>>)
          /\ UNCHANGED total
    /\ UNCHANGED <<client, asioVars, main, mainWork, handlerWork>>

(* _main_work.reset(): what a handler returned is dropped, which aborts    *)
(* the request of a client that went away.                                 *)
ResetMainWork ==
    /\ main = "idle" /\ handlerWork = "reset"
    /\ handlerWork' = "none"
    /\ mainWork' = "none"
    /\ UNCHANGED <<client, asioVars, main, total, given, broken, posted, lease>>

Main ==
    \/ TakeTask \/ CallHandler \/ ResetMainWork
    \/ AnswerLocally \/ AnswerFromService \/ NextPiece

HangUp ==
    /\ client = "there"
    /\ client' \in Hangups
    /\ UNCHANGED <<asioVars, mainVars, handlerWork, posted, lease>>

Next == Asio \/ Main \/ ServiceBreaks \/ HangUp

Spec == Init /\ [][Next]_vars

-----------------------------------------------------------------------------
Outstanding == {posted[i] : i \in DOMAIN posted} \union {sending, pending}

(* Every variable has its type, and the connection holds the lifetimes of  *)
(* exactly the pieces it still has to write.                               *)
TypeOK ==
    /\ client \in {"there", "eof", "reset"}
    /\ sock \in {"open", "closed"} /\ listed \in BOOLEAN
    /\ read \in {"parse", "poll", "none"}
    /\ handlerWork \in {"none", "handle", "reset"}
    /\ main \in {"idle", "handle"}
    /\ mainWork \in {"none", "local", "proxy"}
    /\ posted \in Seq({0} \union Pieces) /\ wire \in Seq({0} \union Pieces)
    /\ sending \in {0, None} \union Pieces /\ pending \in {None} \union Pieces
    /\ sent \in Nat /\ total \in 0..MaxPieces
    /\ given \in 0..total \union {None} /\ broken \in BOOLEAN /\ cut \in BOOLEAN
    /\ lease = Outstanding \ {0, None}

(* The other end gets the head and then the pieces, in order and without   *)
(* gap or repetition, up to a send that wrote a part only, and to what     *)
(* comes last of a transfer that failed.                                   *)
WireIntact ==
    \/ cut
    \/ \A i \in DOMAIN wire : wire[i] = i - 1 \/ (i = Len(wire) /\ wire[i] \in {Part, Again})

(* A send that waits in the single _pending_send is never overwritten but  *)
(* by the very same bytes, when the transfer they came from has failed.    *)
PendingKept == [][pending # None => pending' \in {pending, None, Again}]_vars

(* The server closes the connection of a client that is still there only   *)
(* when all that the response announces was sent, though it does not look  *)
(* at how much a send has written, and takes a piece that it was given     *)
(* twice for the one that is missing.                                      *)
ClosedWhenComplete ==
    (sock = "closed" /\ client = "there") =>
        \/ wire = [i \in 1..total + 1 |-> i - 1]
        \/ cut
        \/ wire[Len(wire)] = Again

(* Nothing refers to the connection any more.                              *)
Freed ==
    /\ ~listed /\ read = "none" /\ posted = <<>> /\ sending = None
    /\ handlerWork = "none" /\ main = "idle" /\ mainWork = "none"

(* A connection that was closed is freed, except one that the service      *)
(* answered: the callbacks kept by its request still hold it.              *)
FreedUnlessProxied == (sock = "closed") ~> (Freed \/ mainWork = "proxy")
=============================================================================
