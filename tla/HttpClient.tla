----------------------------- MODULE HttpClient -----------------------------
(***************************************************************************)
(* The HTTP client of src/src/http/http.cpp: requests are made and dropped *)
(* on the main thread, transferred by libcurl on the http thread, and their *)
(* callbacks are called on the main thread again.  A body of the size of   *)
(* the buffer or more goes to on_bytes in pieces; the transfer is paused    *)
(* while the buffer is full, and goes on when the receiver lets go of the  *)
(* lifetime it got with a piece.                                           *)
(*                                                                         *)
(* The bytes of a body are its numbers 1, 2, ..., so that a piece that is  *)
(* missing, repeated or out of place shows.  Both threads run their tasks  *)
(* on the scheduler of module Scheduler: one by one, in order, and not     *)
(* after their Lifetime was dropped, which is why the slots _main_work and *)
(* _http_work hold at most the last thing that was put there.              *)
(***************************************************************************)
EXTENDS Integers, Sequences, FiniteSets

CONSTANTS
    Requests,       \* the calls of Http::request()
    Sizes,          \* sizes of response bodies (an empty one is left out)
    MaxBufferSize,  \* kMaxBufferSize
    ChunkMax,       \* CURL_MAX_WRITE_SIZE
    Breaks,         \* can a transfer fail?
    MultiErrors     \* can curl_easy_init, curl_multi_perform or curl_multi_poll fail?

ASSUME HttpAssumption ==
    /\ Sizes \subseteq Nat \ {0}
    /\ MaxBufferSize \in Nat \ {0}
    /\ ChunkMax \in 1..MaxBufferSize
    /\ Breaks \in BOOLEAN /\ MultiErrors \in BOOLEAN

VARIABLES
    request,    \* RequestHandle: not made yet, held by its owner, dropped (`aborted`)
    body,       \* the response: its size, and whether it is streamed to on_bytes
    http,       \* the http thread: between two tasks, or in curl_multi_perform
    loop,       \* HttpImpl::_work: process() is scheduled
    httpWork,   \* RequestState::_http_work
    mainWork,   \* RequestState::_main_work
    transfer,   \* libcurl's side of a request, and whether it is in _requests
    buffer,     \* RequestState::buffer; `data` is Response::body if not streamed
    lease,      \* the pieces whose lifetime the receiver has not let go of
    answered,   \* requests whose on_response was called
    received    \* history: the bytes the receiver got, one piece after the other

vars == <<request, body, http, loop, httpWork, mainWork, transfer, buffer, lease,
          answered, received>>

-----------------------------------------------------------------------------
(* Bytes curl is done with, the length of the chunk it keeps while paused  *)
(* (0: not paused), whether the transfer failed.                           *)
Transfer == [live : BOOLEAN, taken : Nat, held : Nat, broken : BOOLEAN]

Buffer == [offset : Nat, data : Seq(Nat), skip : Nat, processing : BOOLEAN]

Least(a, b) == IF a <= b THEN a ELSE b

Aborted(r) == request[r] = "aborted"

Rest(r) == body[r].size - transfer[r].taken

(* The transfer is over, CURLMSG_DONE.                                     *)
Over(r) == transfer[r].live /\ (transfer[r].broken \/ Rest(r) = 0)

Live == {r \in Requests : transfer[r].live}

Init ==
    /\ request = [r \in Requests |-> "unmade"]
    /\ body = [r \in Requests |-> [size |-> 0, streamed |-> FALSE]]
    /\ http = "idle"
    /\ loop = FALSE
    /\ httpWork = [r \in Requests |-> "none"]
    /\ mainWork = [r \in Requests |-> "none"]
    /\ transfer = [r \in Requests |-> [live |-> FALSE, taken |-> 0, held |-> 0, broken |-> FALSE]]
    /\ buffer = [r \in Requests |-> [offset |-> 0, data |-> <<>>, skip |-> 0, processing |-> FALSE]]
    /\ lease = [r \in Requests |-> {}]
    /\ answered = {}
    /\ received = [r \in Requests |-> <<>>]

-----------------------------------------------------------------------------
(* The main thread.                                                        *)

(* Http::request().  What the answer will be is settled here: it is        *)
(* streamed if on_bytes was given and a content-length says that it does   *)
(* not fit.                                                                *)
Request(r) ==
    /\ request[r] = "unmade"
    /\ request' = [request EXCEPT ![r] = "held"]
    /\ \E n \in Sizes, s \in BOOLEAN :
          /\ s => n >= MaxBufferSize
          /\ body' = [body EXCEPT ![r] = [size |-> n, streamed |-> s]]
    /\ httpWork' = [httpWork EXCEPT ![r] = "new"]
    /\ UNCHANGED <<http, loop, mainWork, transfer, buffer, lease, answered, received>>

(* ~RequestHandle()                                                        *)
Abort(r) ==
    /\ request[r] = "held"
    /\ request' = [request EXCEPT ![r] = "aborted"]
    /\ UNCHANGED <<body, http, loop, httpWork, mainWork, transfer, buffer, lease,
                   answered, received>>

(* on_bytes gets what is in the buffer; skip_empty at the end.             *)
HasBytes_SkipsProcessing(r) ==
    /\ body[r].streamed
    /\ \/ mainWork[r] = "chunk"
       \/ mainWork[r] = "final" /\ buffer[r].data # <<>> /\ ~buffer[r].processing

HasBytes(r) ==
    /\ body[r].streamed
    /\ mainWork[r] = "chunk" \/ (mainWork[r] = "final" /\ buffer[r].data # <<>>)

(* The body of a response that is not streamed comes with on_response.     *)
HasBody(r) == ~body[r].streamed /\ mainWork[r] = "final"

(* The second look at `aborted`, after on_response.                        *)
StillHeld_Unchecked(r) == TRUE

StillHeld(r) == request'[r] = "held"

(* triggerCallbacks(): on_response the first time, which may drop the      *)
(* request, then on_bytes.                                                 *)
TriggerCallbacks(r) ==
    /\ mainWork[r] # "none"
    /\ mainWork' = [mainWork EXCEPT ![r] = "none"]
    /\ IF Aborted(r)
       THEN UNCHANGED <<request, lease, answered, received>>
       ELSE /\ answered' = answered \union {r}
            /\ \/ UNCHANGED request
               \/ r \notin answered /\ request' = [request EXCEPT ![r] = "aborted"]
            /\ received' = IF HasBody(r) \/ (HasBytes(r) /\ StillHeld(r))
                           THEN [received EXCEPT ![r] = @ \o buffer[r].data]
                           ELSE received
            /\ lease' = IF HasBytes(r) /\ StillHeld(r)
                        THEN [lease EXCEPT ![r] = @ \union {mainWork[r]}] ELSE lease
    /\ UNCHANGED <<body, http, loop, httpWork, transfer, buffer>>

(* ~BufferHandle(), on whatever thread the receiver lets go of the piece.  *)
ReleaseChunk(r) ==
    /\ "chunk" \in lease[r]
    /\ lease' = [lease EXCEPT ![r] = @ \ {"chunk"}]
    /\ httpWork' = [httpWork EXCEPT ![r] = "continue"]
    /\ UNCHANGED <<request, body, http, loop, mainWork, transfer, buffer, answered, received>>

ReleaseFinal(r) ==
    /\ "final" \in lease[r]
    /\ lease' = [lease EXCEPT ![r] = @ \ {"final"}]
    /\ UNCHANGED <<request, body, http, loop, httpWork, mainWork, transfer, buffer,
                   answered, received>>

-----------------------------------------------------------------------------
(* The http thread.  process() is entered by three tasks and is two steps: *)
(* its first loop, and all that follows curl_multi_perform.                *)

EnterProcess_KeepsAborted(t) == http' = "perform" /\ transfer' = t

EnterProcess(t) ==
    /\ http' = "perform"
    /\ transfer' = [r \in Requests |-> [t[r] EXCEPT !.live = @ /\ ~Aborted(r)]]

(* What onBytes() does to buffer b and transfer t with the next k bytes.   *)
Stored_NoSkip(r, b, t, k) ==
    LET chunk == [i \in 1..k |-> t.taken + i]
        room == MaxBufferSize - Len(b.data) IN
    IF body[r].streamed /\ k > room
    THEN <<[b EXCEPT !.data = @ \o SubSeq(chunk, 1, room)], [t EXCEPT !.held = k]>>
    ELSE <<[b EXCEPT !.data = @ \o chunk], [t EXCEPT !.taken = @ + k, !.held = 0]>>

Stored_Unbounded(r, b, t, k) ==
    <<[b EXCEPT !.data = @ \o [i \in 1..k |-> t.taken + i]],
      [t EXCEPT !.taken = @ + k, !.held = 0]>>

Stored(r, b, t, k) ==
    LET chunk == [i \in 1..k |-> t.taken + i]
        room == MaxBufferSize - Len(b.data) IN
    IF body[r].streamed /\ k > room
    THEN <<[b EXCEPT !.data = @ \o SubSeq(chunk, 1, room), !.skip = room],
           [t EXCEPT !.held = k]>>
    ELSE <<[b EXCEPT !.data = @ \o SubSeq(chunk, b.skip + 1, k), !.skip = 0],
           [t EXCEPT !.taken = @ + k, !.held = 0]>>

(* processNewRequest() and setupRequest().                                 *)
ProcessNewRequest(r) ==
    /\ http = "idle"
    /\ httpWork[r] = "new"
    /\ httpWork' = [httpWork EXCEPT ![r] = "none"]
    /\ \/ Aborted(r) /\ UNCHANGED <<http, transfer, mainWork>>
       \/ /\ ~Aborted(r)
          /\ EnterProcess([transfer EXCEPT ![r].live = TRUE])
          /\ UNCHANGED mainWork
       \/ /\ ~Aborted(r) /\ MultiErrors
          /\ EnterProcess(transfer)
          /\ mainWork' = [mainWork EXCEPT ![r] = "refuse"]
    /\ UNCHANGED <<request, body, loop, buffer, lease, answered, received>>

(* continueRequest() empties the buffer, and curl passes again the chunk   *)
(* that it has kept, which may have grown.  What curl_easy_pause does with *)
(* a handle that was cleaned up is left out: see StaleOnlyIfBroken.        *)
Emptied(b) == [b EXCEPT !.offset = @ + Len(b.data), !.data = <<>>, !.processing = FALSE]

Resumed_StaysPaused(r) == {<<Emptied(buffer[r]), transfer[r]>>}

Resumed(r) ==
    IF transfer[r].live /\ transfer[r].held > 0
    THEN {Stored(r, Emptied(buffer[r]), transfer[r], k) :
             k \in transfer[r].held..Least(ChunkMax, Rest(r))}
    ELSE {<<Emptied(buffer[r]), transfer[r]>>}

Continue(r) ==
    \E s \in Resumed(r) :
        /\ buffer' = [buffer EXCEPT ![r] = s[1]]
        /\ EnterProcess([transfer EXCEPT ![r] = s[2]])

ContinueRequest_Unchecked(r) ==
    /\ http = "idle"
    /\ httpWork[r] = "continue"
    /\ httpWork' = [httpWork EXCEPT ![r] = "none"]
    /\ Continue(r)
    /\ UNCHANGED <<request, body, loop, mainWork, lease, answered, received>>

ContinueRequest(r) ==
    /\ http = "idle"
    /\ httpWork[r] = "continue"
    /\ httpWork' = [httpWork EXCEPT ![r] = "none"]
    /\ \/ Aborted(r) /\ UNCHANGED <<http, transfer, buffer>>
       \/ ~Aborted(r) /\ Continue(r)
    /\ UNCHANGED <<request, body, loop, mainWork, lease, answered, received>>

ProcessAgain ==
    /\ http = "idle" /\ loop
    /\ loop' = FALSE
    /\ EnterProcess(transfer)
    /\ UNCHANGED <<request, body, httpWork, mainWork, buffer, lease, answered, received>>

(* Inside curl_multi_perform: some bytes arrive, or the transfer fails.    *)
Receive(r) ==
    /\ http = "perform"
    /\ transfer[r].live /\ ~transfer[r].broken /\ transfer[r].held = 0
    /\ \E k \in 1..Least(ChunkMax, Rest(r)) :
          LET s == Stored(r, buffer[r], transfer[r], k) IN
          /\ buffer' = [buffer EXCEPT ![r] = s[1]]
          /\ transfer' = [transfer EXCEPT ![r] = s[2]]
    /\ UNCHANGED <<request, body, http, loop, httpWork, mainWork, lease, answered, received>>

Break(r) ==
    /\ Breaks
    /\ http = "perform"
    /\ transfer[r].live /\ transfer[r].held = 0 /\ Rest(r) > 0
    /\ transfer' = [transfer EXCEPT ![r].broken = TRUE]
    /\ UNCHANGED <<request, body, http, loop, httpWork, mainWork, buffer, lease,
                   answered, received>>

(* finishRequest() for the transfers that are over, processStream() for    *)
(* those whose buffer is full, and process() is scheduled again as long as *)
(* a transfer is left.  Each of them overwrites _main_work.                *)
Full_Again(r) ==
    /\ transfer[r].live /\ ~Over(r) /\ body[r].streamed
    /\ Len(buffer[r].data) >= MaxBufferSize

Full(r) ==
    /\ transfer[r].live /\ ~Over(r) /\ body[r].streamed
    /\ ~buffer[r].processing /\ Len(buffer[r].data) >= MaxBufferSize

Leave(full) ==
    /\ http' = "idle"
    /\ transfer' = [r \in Requests |-> [transfer[r] EXCEPT !.live = @ /\ ~Over(r)]]
    /\ mainWork' = [r \in Requests |->
                       IF Over(r) THEN "final" ELSE IF r \in full THEN "chunk" ELSE mainWork[r]]
    /\ buffer' = [r \in Requests |-> [buffer[r] EXCEPT !.processing = @ \/ r \in full]]
    /\ UNCHANGED <<request, body, httpWork, lease, answered, received>>

StillRunning_OffByOne == Cardinality({r \in Live : ~Over(r)}) > 1

StillRunning == \E r \in Live : ~Over(r)

LeaveProcess ==
    /\ http = "perform"
    /\ Leave({r \in Live : Full(r)})
    /\ loop' = StillRunning

(* curl_multi_perform or curl_multi_poll failed: process() returns early.  *)
GiveUp ==
    /\ MultiErrors
    /\ http = "perform"
    /\ Leave({}) \/ (StillRunning /\ Leave({r \in Live : Full(r)}))
    /\ UNCHANGED loop

Step(r) ==
    \/ Request(r) \/ Abort(r) \/ TriggerCallbacks(r) \/ ReleaseChunk(r) \/ ReleaseFinal(r)
    \/ ProcessNewRequest(r) \/ ContinueRequest(r) \/ Receive(r) \/ Break(r)

Next == ProcessAgain \/ LeaveProcess \/ GiveUp \/ \E r \in Requests : Step(r)

Spec == Init /\ [][Next]_vars

-----------------------------------------------------------------------------
(* Every variable has its type, and a full buffer is never exceeded.       *)
TypeOK ==
    /\ request \in [Requests -> {"unmade", "held", "aborted"}]
    /\ \A r \in Requests : body[r].size \in Nat /\ body[r].streamed \in BOOLEAN
    /\ http \in {"idle", "perform"} /\ loop \in BOOLEAN
    /\ httpWork \in [Requests -> {"none", "new", "continue"}]
    /\ mainWork \in [Requests -> {"none", "refuse", "chunk", "final"}]
    /\ \A r \in Requests : transfer[r] \in Transfer /\ transfer[r].taken <= body[r].size
    /\ \A r \in Requests : /\ buffer[r].offset \in Nat /\ buffer[r].skip \in Nat
                            /\ buffer[r].processing \in BOOLEAN
                            /\ \A i \in DOMAIN buffer[r].data : buffer[r].data[i] \in Nat
                            /\ body[r].streamed => Len(buffer[r].data) <= MaxBufferSize
    /\ lease \in [Requests -> SUBSET {"chunk", "final"}]
    /\ answered \subseteq Requests

UpTo(n) == [i \in 1..n |-> i]

(* What the receiver gets, piece by piece, is the body from its beginning, *)
(* without gap or repetition, whatever chunks curl delivers.  A transfer   *)
(* that fails while a full buffer is lent is the exception: finishRequest() *)
(* delivers that piece once more.                                          *)
StreamIntact ==
    \A r \in Requests : transfer[r].broken \/ received[r] = UpTo(Len(received[r]))

(* A receiver reads its piece until it lets go of it, on another thread    *)
(* (the server writes it to a socket): the buffer does not change meanwhile. *)
LeaseStable ==
    [][\A r \in Requests :
         lease[r] # {} => buffer'[r].data = buffer[r].data \/ transfer[r].broken]_vars

(* continueRequest() uses the curl handle it was made for: the transfer is *)
(* still there when a piece is given back, unless it has failed meanwhile. *)
Resumes(r) ==
    /\ httpWork[r] = "continue" /\ httpWork'[r] = "none"
    /\ buffer'[r].offset # buffer[r].offset

StaleOnlyIfBroken ==
    [][\A r \in Requests : Resumes(r) => transfer[r].live \/ transfer[r].broken]_vars

(* Although the last task for the main thread may replace one that has not *)
(* run yet, all that curl delivered reaches the receiver, also of a        *)
(* transfer that failed.                                                   *)
Settled(r) ==
    request[r] = "held" /\ r \in answered /\ ~transfer[r].live /\ mainWork[r] = "none"

NothingTakenIsLost ==
    \A r \in Requests :
        Settled(r) => {received[r][i] : i \in DOMAIN received[r]} = 1..transfer[r].taken

(* After its handle was dropped, in on_response too, no more bytes reach a *)
(* receiver: it may be gone.                                               *)
SilentAfterAbort ==
    [][\A r \in Requests :
         /\ Aborted(r) => received'[r] = received[r] /\ (r \in answered' => r \in answered)
         /\ request'[r] = "aborted" /\ body[r].streamed => received'[r] = received[r]]_vars

(* The receiver has got the whole answer.                                  *)
Done(r) == r \in answered /\ Len(received[r]) = body[r].size
=============================================================================
