------------------------------ MODULE Exchange ------------------------------
(***************************************************************************)
(* One exchange with the HTTP server, src/src/http/server/server.cpp, from *)
(* the first byte of the request to the end of the connection: the reads   *)
(* of module RequestParser feed the Connection of module Connection.  The  *)
(* parser runs inside the callback of a read on the asio thread, as long   *)
(* as `read` is "parse"; what it makes of the text is handed to the main   *)
(* thread, and from then on the socket is only polled.                     *)
(***************************************************************************)
EXTENDS Connection, RequestParser

ExchangeInit == Init /\ ParserInit

-----------------------------------------------------------------------------
(* parseSome() goes on until the parser asks for input or has a request,   *)
(* or until an exception ends the program: then no thread has a step left. *)
ParseSome ==
    /\ read = "parse"
    /\ \/ ParseMethod \/ ParseUrl \/ ParseHeader
       \/ ParseBody /\ phase' # "done"
    /\ UNCHANGED vars

(* What a client that has left had not sent by then never comes.           *)
ReadSome ==
    /\ read = "parse" /\ client = "there"
    /\ Read
    /\ UNCHANGED vars

Handle ==
    /\ HandleRequest
    /\ ParseBody /\ phase' = "done"

(* The read that is pending fails.                                         *)
Fail == ReadFails /\ want > 0 /\ UNCHANGED textVars

Talk ==
    \/ ParseSome \/ ReadSome \/ Handle \/ Fail
    \/ Asio /\ read # "parse" /\ UNCHANGED textVars

ExchangeNext ==
    \/ Talk
    \/ Main /\ UNCHANGED textVars
    \/ ServiceBreaks /\ UNCHANGED textVars
    \/ HangUp /\ UNCHANGED textVars

exchangeVars == <<vars, textVars>>

ExchangeSpec == ExchangeInit /\ [][ExchangeNext]_exchangeVars

(* Both threads run, the operating system completes reads and sends, and   *)
(* the service answers.                                                    *)
FairExchangeSpec ==
    /\ ExchangeSpec
    /\ WF_exchangeVars(Talk)
    /\ WF_exchangeVars(Main /\ UNCHANGED textVars)

-----------------------------------------------------------------------------
(* A client that stays gets its answer, after which the server closes the  *)
(* connection, unless the transfer that it depends on fails or the text of *)
(* the request has ended the program (see ParsedAsSent).                   *)
EveryClientAnswered ==
    client = "there" ~> (client # "there" \/ sock = "closed" \/ broken \/ phase = "crashed")
=============================================================================
