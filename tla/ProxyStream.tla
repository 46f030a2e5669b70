----------------------------- MODULE ProxyStream -----------------------------
(***************************************************************************)
(* A request that the server passes on to the service: a connection        *)
(* (module Connection) whose answer comes from the HTTP client (module     *)
(* HttpClient), as WebProxy::handleRequest() of                            *)
(* src/src/web_proxy/web_proxy.cpp joins them.  Three threads, the two     *)
(* schedulers and the buffer of the client between them: the service's     *)
(* bytes are written from that buffer to the socket, and the transfer goes *)
(* on when the write lets go of it.                                        *)
(*                                                                         *)
(* A step is one of the connection, one of the client, or one of both      *)
(* where one calls the other.  What the connection gets is computed from   *)
(* the client's state; that it is what Connection assumes of a service is  *)
(* ImplementsConnection.                                                   *)
(***************************************************************************)
EXTENDS Connection

CONSTANTS
    Proxied,        \* the request of the connection
    Others,         \* other requests, of states, on the same http thread
    Sizes,          \* sizes of response bodies
    StateSizes,     \* sizes of those of a state
    MaxBufferSize,  \* kMaxBufferSize
    ChunkMax        \* CURL_MAX_WRITE_SIZE

CeilDiv(a, b) == (a + b - 1) \div b

ASSUME ProxyAssumption ==
    /\ Sizes \subseteq Nat \ {0}
    /\ MaxBufferSize \in Nat \ {0}
    /\ ChunkMax \in 1..MaxBufferSize
    /\ Proxied \notin Others
    /\ MaxPieces > 0
    /\ \A n \in Sizes : CeilDiv(n, MaxBufferSize) <= MaxPieces

VARIABLES
    request, body, http, loop, httpWork, transfer, buffer, answered, received,
    task,           \* RequestState::_main_work
    lent,           \* the BufferHandles that were not let go of
    bytes           \* history: the bytes of the body that the other end was sent

clientVars == <<request, body, http, loop, httpWork, transfer, buffer, answered, received,
                task, lent>>
proxyVars == <<vars, clientVars, bytes>>

Http == INSTANCE HttpClient WITH
            Requests <- {Proxied} \union Others, MultiErrors <- FALSE,
            mainWork <- task, lease <- lent

ProxyInit == Init /\ Http!Init /\ bytes = <<>>

-----------------------------------------------------------------------------
(* The connection lets go of a piece, which resumes the transfer: it is on *)
(* its way to the http thread, unless finishRequest() has delivered it.    *)
Release(p) ==
    IF p \notin {Part, Again} /\ "chunk" \in lent[Proxied]
    THEN Http!ReleaseChunk(Proxied)
    ELSE Http!ReleaseFinal(Proxied)

Released == lease \ lease'

(* What a send that succeeds reads: the body that came with the head, or   *)
(* what is in the buffer at that time.                                     *)
Contents(p) ==
    IF p # 0 THEN buffer[Proxied].data
    ELSE IF body[Proxied].streamed THEN <<>> ELSE received[Proxied]

AsioStep ==
    /\ Asio
    /\ IF Released = {} THEN UNCHANGED clientVars ELSE \E p \in Released : Release(p)
    /\ bytes' = IF wire' = wire THEN bytes ELSE bytes \o Contents(sending)

(* WebProxy::handleRequest(): the request's on_response and on_bytes are   *)
(* those of the connection, its handle goes to _main_work.                 *)
PassOn ==
    /\ CallHandler
    /\ mainWork' = "proxy"
    /\ Http!Request(Proxied)
    /\ body'[Proxied].streamed <=> body'[Proxied].size >= MaxBufferSize
    /\ UNCHANGED bytes

LetGo ==
    /\ ResetMainWork
    /\ IF mainWork = "proxy" THEN Http!Abort(Proxied) ELSE UNCHANGED clientVars
    /\ UNCHANGED bytes

(* The content-length of the response, in pieces: that of a transfer which *)
(* failed early may not have come.                                         *)
Announced ==
    LET whole == IF body[Proxied].streamed THEN CeilDiv(body[Proxied].size, MaxBufferSize) ELSE 0 IN
    IF ~transfer[Proxied].broken THEN {whole}
    ELSE {IF whole = 0 THEN 1 ELSE whole} \union (IF transfer[Proxied].taken = 0 THEN {0} ELSE {})

(* The piece that is in the buffer.                                        *)
Piece ==
    LET k == CeilDiv(buffer[Proxied].offset, MaxBufferSize) + 1 IN
    IF ~Http!HasBytes(Proxied) THEN None
    ELSE IF given # None /\ k <= given THEN Again
    ELSE IF transfer[Proxied].broken /\ Len(buffer[Proxied].data) < MaxBufferSize THEN Part
    ELSE k

(* triggerCallbacks(): sendResponse() the first time, then sendData().     *)
Failed == transfer[Proxied].broken /\ task[Proxied] = "final"

Deliver ==
    /\ main = "idle"
    /\ request' = request
    /\ Http!TriggerCallbacks(Proxied)
    /\ IF Http!Aborted(Proxied)
       THEN UNCHANGED vars
       ELSE /\ posted' = posted \o (IF given = None THEN <<0>> ELSE <<>>)
                                \o (IF Piece = None THEN <<>> ELSE <<Piece>>)
            /\ lease' = lease \union ({Piece} \ {None})
            /\ IF given = None THEN total' \in Announced ELSE UNCHANGED total
            /\ given' = IF Piece \in 1..MaxPieces THEN Piece ELSE IF given = None THEN 0 ELSE given
            /\ broken' = (broken \/ Failed)
            /\ UNCHANGED <<client, asioVars, main, mainWork, handlerWork>>
    /\ UNCHANGED bytes

MainStep ==
    \/ TakeTask /\ UNCHANGED <<clientVars, bytes>>
    \/ PassOn \/ LetGo \/ Deliver

HttpLoop == Http!ProcessAgain \/ Http!LeaveProcess

HttpTask(r) == Http!ProcessNewRequest(r) \/ Http!ContinueRequest(r) \/ Http!Receive(r)

(* WebProxy::requestStateUpdate(): no on_bytes; its handle is State::work. *)
UpdateState(r) ==
    /\ Http!Request(r)
    /\ ~body'[r].streamed /\ body'[r].size \in StateSizes

Elsewhere(r) ==
    main = "idle" /\ (UpdateState(r) \/ Http!Abort(r) \/ Http!TriggerCallbacks(r))

ProxyNext ==
    \/ AsioStep \/ MainStep
    \/ HangUp /\ UNCHANGED <<clientVars, bytes>>
    \/ /\ HttpLoop \/ \E r \in {Proxied} \union Others : HttpTask(r) \/ Http!Break(r)
       /\ UNCHANGED <<vars, bytes>>
    \/ (\E r \in Others : Elsewhere(r)) /\ UNCHANGED <<vars, bytes>>

ProxySpec == ProxyInit /\ [][ProxyNext]_proxyVars

(* The three threads run; see HttpClient for the tasks of the http thread. *)
FairProxySpec ==
    /\ ProxySpec
    /\ WF_proxyVars(AsioStep) /\ WF_proxyVars(MainStep)
    /\ WF_proxyVars(HttpLoop /\ UNCHANGED <<vars, bytes>>)
    /\ \A r \in {Proxied} \union Others :
          SF_proxyVars(HttpTask(r) /\ UNCHANGED <<vars, bytes>>)
    /\ \A r \in Others :
          WF_proxyVars(main = "idle" /\ Http!TriggerCallbacks(r) /\ UNCHANGED <<vars, bytes>>)

-----------------------------------------------------------------------------
(* The HTTP client is the service that Connection assumes: the answer      *)
(* comes once, then the pieces one by one, each when the one before was    *)
(* let go, none after the request was dropped, and after a failure at most *)
(* one more.                                                               *)
ImplementsConnection == Spec

(* What the other end gets is the body that the service sent, from its     *)
(* beginning and, when the server closes the connection, to its end:       *)
(* although it is written from a buffer that is filled again and again by  *)
(* another thread.                                                         *)
BodyRelayed ==
    ~broken /\ ~cut =>
        /\ bytes = [i \in 1..Len(bytes) |-> i]
        /\ sock = "closed" /\ client = "there" => Len(bytes) = body[Proxied].size

(* A client that has sent its request gets its answer, through both        *)
(* schedulers and all pauses of the transfer, after which the server       *)
(* closes the connection, unless the client leaves or the transfer fails.  *)
EveryClientServed ==
    (read = "poll" /\ client = "there") ~>
        (client # "there" \/ sock = "closed" \/ transfer[Proxied].broken)

(* Once the server has read the end of a client's stream, the transfer     *)
(* from the service is aborted and nothing of it is left: its handle is    *)
(* freed, nothing waits to be resumed.  A client that went in another way, *)
(* by a reset or with a send that fails before its end was read, does not  *)
(* abort it: the connection stays (see FreedUnlessProxied), and the        *)
(* transfer is not left paused but runs to its end.                        *)
HangUpEndsTransfer ==
    /\ (handlerWork = "reset") ~>
          (Freed /\ ~transfer[Proxied].live /\ httpWork[Proxied] = "none")
    /\ (client # "there" /\ transfer[Proxied].live) ~> ~transfer[Proxied].live

(* The request of a state does not wait for ever behind a stream that is   *)
(* paused, and neither does the end of one that was dropped.               *)
StatesAnswered ==
    \A r \in Others :
        /\ request[r] = "held" ~> (Http!Aborted(r) \/ Http!Done(r) \/ transfer[r].broken)
        /\ Http!Aborted(r) ~> ~transfer[r].live
=============================================================================
