----------------------------- MODULE StateThingy -----------------------------
(***************************************************************************)
(* The states of web_proxy::StateThingy, which of them has the panel, and  *)
(* the one piece of work (request, retry, timeout, poll) each of them has  *)
(* in flight.  Everything here runs on the main scheduler, one handler     *)
(* after the other, so a handler is one step; only handleStateUpdate() is  *)
(* cut up, into one step per member of the JSON object, and while `todo`   *)
(* holds members that are still to come no other step is possible.         *)
(*                                                                         *)
(* State::work is a single slot: whatever is assigned to it drops the      *)
(* Lifetime that was there, and what was dropped on the main thread does   *)
(* not run any more (RevokedStaysSilent of module Scheduler).  Hence one   *)
(* value per state says all there is to say about its future.              *)
(*                                                                         *)
(* State::data, and with it the saved file, is not part of this module.    *)
(***************************************************************************)
EXTENDS Integers, FiniteSets

CONSTANTS
    Ids,            \* the ids (paths) in use
    Prios,          \* Display::prio
    Pictures,       \* all else that makes up a Display
    NoDisplay,      \* an empty State::display, and a dark panel
    Nothing,        \* _displaying when it is nullptr
    Dangling,       \* _displaying when it points into a state that was freed
    Null,           \* a JSON null
    Absent,         \* an id that a JSON object has no (usable) member for
    Followups,      \* which of timeout and poll updates ask for
    MaxMembers,     \* bound: members of a JSON object
    Answers,        \* the kinds of answers the service gives
    RetryAfter,     \* seconds in a Retry-After header, Past or NoRetryAfter
    NoRetryAfter,   \* no such header, or not a number
    Honest,         \* does the 200 to an id's request always update that id?
    Queries,        \* do clients post forms, or with a query?
    InitialBackoff, \* kInitialRetryBackoff
    MaxBackoff      \* the 10min cap

ASSUME StateThingyAssumption ==
    /\ Prios \subseteq Int
    /\ NoDisplay \notin [prio : Prios, picture : Pictures]
    /\ Nothing \notin Ids /\ Dangling \notin Ids /\ Nothing # Dangling
    /\ Followups \subseteq {"timeout", "poll"}
    /\ MaxMembers \in Nat
    /\ Answers \subseteq {"ok", "invalid", "no content", "not found", "throttled", "error"}
    /\ Honest \in BOOLEAN /\ Queries \in BOOLEAN

(* A negative number of seconds; how many is not told apart.               *)
Past == -1

ASSUME BackoffAssumption ==
    /\ NoRetryAfter \notin Int
    /\ RetryAfter \subseteq Nat \union {Past, NoRetryAfter}
    /\ InitialBackoff \in 1..MaxBackoff
    /\ MaxBackoff \in Nat

VARIABLES
    live,       \* the keys of _states
    display,    \* State::display
    work,       \* State::work
    backoff,    \* State::retry_backoff
    displaying, \* _displaying, as the id whose State::display it points to
    todo,       \* members of the JSON object that are still to be handled
    render,     \* RendererImpl::_render: a frame is due "now" or "later"
    shown,      \* what the panel shows
    armed,      \* history: ids whose last update asked for a timeout or poll
    paced       \* history: who has set State::retry_backoff

vars == <<live, display, work, backoff, displaying, todo, render, shown, armed, paced>>

-----------------------------------------------------------------------------
Display == [prio : Prios, picture : Pictures]

(* The work of a state.  "request?" and "retry?" carry an id that has the  *)
(* query of a POST appended and is no key of _states.                      *)
Requests == {"request", "request?"}
Retries  == {"retry", "retry?"}
Work     == {"idle", "timeout", "poll"} \union Requests \union Retries

WithQuery(w) == w \in {"request?", "retry?"}

(* A member of the JSON object: null, or an object with or without a       *)
(* display that asks for a timeout, for a poll or (idle) for neither.      *)
Objects == [display : Display \union {NoDisplay}, followup : Followups \union {"idle"}]
Members == Objects \union {Null, Absent}

(* The backoff is the program's own, it is what the last 429 or 503 has    *)
(* left it at, or it goes back to a delay in the past that one asked for.  *)
Pacers == {"program", "service", "past"}

Bodies == {b \in [Ids -> Members] : Cardinality({i \in Ids : b[i] # Absent}) <= MaxMembers}

NoMembers == [i \in Ids |-> Absent]

(* The main thread is in no handler.                                       *)
Ready == todo = NoMembers

Handled(i) == todo' = [todo EXCEPT ![i] = Absent]

(* _displaying is set but not to the display of a state: what is read      *)
(* through it is arbitrary.                                                *)
Ghost == displaying = Dangling \/ (displaying \in Ids /\ display[displaying] = NoDisplay)

(* A new State may be put where a freed one was that _displaying still     *)
(* points into.                                                            *)
Located(i) == IF displaying = Dangling /\ i \notin live THEN {Dangling, i} ELSE {displaying}

(* findNextToDisplay(): among those of the highest prio the order of an    *)
(* unordered_map decides.                                                  *)
Foremost(d) ==
    {i \in Ids : d[i] # NoDisplay /\ \A j \in Ids : d[j] # NoDisplay => d[j].prio <= d[i].prio}

(* findNextToDisplay() and updateState(): the state with the highest prio  *)
(* is not displayed but asked to update itself, whatever its work was.     *)
Refreshed_Never(d, w) == {w}

Refreshed(d, w) ==
    IF \A i \in Ids : d[i] = NoDisplay
    THEN {w}
    ELSE {[w EXCEPT ![i] = "request"] : i \in Foremost(d)}

(* `work` without what state i had in flight.                              *)
Vacated(i) == [work EXCEPT ![i] = "idle"]

(* What renderFrame() puts on the panel.                                   *)
Picture == IF displaying \in Ids THEN display[displaying] ELSE NoDisplay

(* `if (_displaying == ...) { _displaying = nullptr; _renderer->notify(); }`: *)
(* _displaying after it, and the frame that is asked for.                  *)
Hidden_Not(i) == displaying

Hidden(i) == IF displaying = i THEN Nothing ELSE displaying

NotifyIfShown_Never(i) == UNCHANGED render

NotifyIfShown(i) == render' = IF displaying = i THEN "now" ELSE render

-----------------------------------------------------------------------------
(* After loadStates(): every saved state has asked for its update, and the *)
(* frame of Renderer::add() is still to come.                              *)
Init ==
    /\ live \in SUBSET Ids
    /\ display = [i \in Ids |-> NoDisplay]
    /\ work = [i \in Ids |-> IF i \in live THEN "request" ELSE "idle"]
    /\ backoff = [i \in Ids |-> 0]
    /\ displaying = Nothing
    /\ todo = NoMembers
    /\ render = "now"
    /\ shown = NoDisplay
    /\ armed = {}
    /\ paced = [i \in Ids |-> "program"]

(* _states[id] and _request_update(): updateState() of the button, and a   *)
(* POST that is not JSON, of a form or with a query or of neither.         *)
UpdateState(i) ==
    /\ Ready
    /\ \E w \in IF Queries THEN Requests ELSE {"request"} : work' = [work EXCEPT ![i] = w]
    /\ live' = live \union {i}
    /\ displaying' \in Located(i)
    /\ UNCHANGED <<display, backoff, todo, render, shown, armed, paced>>

(* A JSON POST creates the state of its path, then updates what its body   *)
(* names.  (A body that is no object has the effect of an empty one.)      *)
PostJson(i) ==
    /\ Ready
    /\ live' = live \union {i}
    /\ displaying' \in Located(i)
    /\ todo' \in Bodies
    /\ UNCHANGED <<display, work, backoff, render, shown, armed, paced>>

-----------------------------------------------------------------------------
(* handleStateUpdate(), one member of the object per step, in any order.   *)

(* What `display.prio > _displaying->prio` may turn out to be.             *)
Outranks(d, p) ==
    IF p = Nothing THEN {FALSE}
    ELSE IF Ghost THEN BOOLEAN
    ELSE {d.prio > display[p].prio}

Arm(i, w) == armed' = IF w = "idle" THEN armed \ {i} ELSE armed \union {i}

(* The new display has the panel if that is free, if it replaces the one   *)
(* that is on it, or if its prio is higher.                                *)
MemberWithDisplay(i) ==
    /\ todo[i] \in Objects
    /\ LET d == todo[i].display
           w == todo[i].followup IN
       /\ d # NoDisplay
       /\ display' = [display EXCEPT ![i] = d]
       /\ \E p \in Located(i) : \E outranks \in Outranks(d, p) :
             IF p \in {Nothing, i} \/ outranks
             THEN displaying' = i /\ render' = "now"
             ELSE displaying' = p /\ UNCHANGED render
       /\ work' = [work EXCEPT ![i] = w]
       /\ Arm(i, w)
    /\ live' = live \union {i}
    /\ Handled(i)
    /\ UNCHANGED <<backoff, shown, paced>>

(* A state that had a display loses it and the next one is asked for,      *)
(* whether or not the display was on the panel.                            *)
MemberWithoutDisplay(i) ==
    /\ todo[i] \in Objects
    /\ todo[i].display = NoDisplay
    /\ \/ /\ display[i] # NoDisplay
          /\ displaying' = Hidden(i)
          /\ NotifyIfShown(i)
          /\ display' = [display EXCEPT ![i] = NoDisplay]
          /\ \E w \in Refreshed(display', work) :
                work' = [w EXCEPT ![i] = todo[i].followup]
       \/ /\ display[i] = NoDisplay
          /\ displaying' \in Located(i)
          /\ work' = [work EXCEPT ![i] = todo[i].followup]
          /\ UNCHANGED <<display, render>>
    /\ Arm(i, todo[i].followup)
    /\ live' = live \union {i}
    /\ Handled(i)
    /\ UNCHANGED <<backoff, shown, paced>>

(* _states.erase(): with the State go its display, work and backoff, and p, *)
(* what _displaying points to by then, is freed if it is this display.     *)
Erase(i, p) ==
    /\ live' = live \ {i}
    /\ display' = [display EXCEPT ![i] = NoDisplay]
    /\ backoff' = [backoff EXCEPT ![i] = 0]
    /\ displaying' = IF p = i THEN Dangling ELSE p
    /\ armed' = armed \ {i}
    /\ paced' = [paced EXCEPT ![i] = "program"]

MemberNull(i) ==
    /\ todo[i] = Null
    /\ \/ /\ i \in live
          /\ NotifyIfShown(i)
          /\ Erase(i, Hidden(i))
          /\ work' \in Refreshed(display', Vacated(i))
       \/ /\ i \notin live
          /\ UNCHANGED <<live, display, work, backoff, displaying, render, armed, paced>>
    /\ Handled(i)
    /\ UNCHANGED shown

-----------------------------------------------------------------------------
(* onServiceResponse().  The request is over: its handle in `work` has     *)
(* nothing more to do.                                                     *)

NoContent(i) ==
    /\ Ready /\ "no content" \in Answers
    /\ work[i] \in Requests
    /\ work' = Vacated(i)
    /\ UNCHANGED <<live, display, backoff, displaying, todo, render, shown, armed, paced>>

Ok(i) ==
    /\ Ready /\ "ok" \in Answers
    /\ work[i] \in Requests
    /\ work' = Vacated(i)
    /\ backoff' = [backoff EXCEPT ![i] = 0]
    /\ paced' = [paced EXCEPT ![i] = "program"]
    /\ todo' \in Bodies
    /\ Honest => todo'[i] # Absent
    /\ UNCHANGED <<live, display, displaying, render, shown, armed>>

(* The id of the request is erased, which is no state if it has a query.   *)
NotFound(i) ==
    /\ Ready /\ "not found" \in Answers
    /\ work[i] \in Requests
    /\ work' = Vacated(i)
    /\ \/ /\ WithQuery(work[i])
          /\ UNCHANGED <<live, display, backoff, displaying, armed, paced>>
       \/ /\ ~WithQuery(work[i])
          /\ Erase(i, displaying)
    /\ UNCHANGED <<todo, render, shown>>

RetryOf(w) == IF WithQuery(w) THEN "retry?" ELSE "retry"

(* 429 and 503 *)
Throttled(i) ==
    /\ Ready /\ "throttled" \in Answers
    /\ work[i] \in Requests
    /\ \E s \in RetryAfter :
          /\ backoff' = [backoff EXCEPT ![i] = IF s = NoRetryAfter THEN @ ELSE s]
          /\ paced' = [paced EXCEPT ![i] = IF backoff'[i] = Past THEN "past" ELSE "service"]
    /\ work' = [work EXCEPT ![i] = RetryOf(@)]
    /\ UNCHANGED <<live, display, displaying, todo, render, shown, armed>>

Doubled_CapsLate(b) ==
    CASE b = Past -> Past
      [] b = 0 -> InitialBackoff
      [] OTHER -> IF b <= MaxBackoff THEN 2 * b ELSE MaxBackoff

(* What is in the past stays there when it is doubled.                     *)
Doubled(b) ==
    CASE b = Past -> Past
      [] b = 0 -> InitialBackoff
      [] OTHER -> IF 2 * b <= MaxBackoff THEN 2 * b ELSE MaxBackoff

(* Any other answer, or none; and a 200 whose body is no object, which     *)
(* first resets the backoff.                                               *)
BackOff(i) ==
    \/ /\ "error" \in Answers
       /\ backoff' = [backoff EXCEPT ![i] = Doubled(@)]
       /\ paced' = [paced EXCEPT ![i] = IF @ = "past" THEN "past" ELSE "program"]
    \/ /\ "invalid" \in Answers
       /\ backoff' = [backoff EXCEPT ![i] = Doubled(0)]
       /\ paced' = [paced EXCEPT ![i] = "program"]

Failed_GivesUp(i) ==
    /\ Ready
    /\ work[i] \in Requests
    /\ work' = Vacated(i)
    /\ BackOff(i)
    /\ UNCHANGED <<live, display, displaying, todo, render, shown, armed>>

Failed(i) ==
    /\ Ready
    /\ work[i] \in Requests
    /\ work' = [work EXCEPT ![i] = RetryOf(@)]
    /\ BackOff(i)
    /\ UNCHANGED <<live, display, displaying, todo, render, shown, armed>>

-----------------------------------------------------------------------------
(* The scheduled work of a state.                                          *)

TimeoutFires(i) ==
    /\ Ready
    /\ work[i] = "timeout"
    /\ NotifyIfShown(i)
    /\ Erase(i, Hidden(i))
    /\ work' \in Refreshed(display', Vacated(i))
    /\ UNCHANGED <<todo, shown>>

(* A poll or a retry is due: the request is made (again), for the same id. *)
RequestFires(i) ==
    /\ Ready
    /\ work[i] \in {"poll"} \union Retries
    /\ work' = [work EXCEPT ![i] = IF WithQuery(@) THEN "request?" ELSE "request"]
    /\ UNCHANGED <<live, display, backoff, displaying, todo, render, shown, armed, paced>>

(* RendererImpl::renderFrame() with the callback onRender(), which never   *)
(* answers 0 and so is always called again.                                *)
RenderFrame ==
    /\ Ready
    /\ render' = "later"
    /\ shown' \in IF Ghost THEN Display \union {NoDisplay} ELSE {Picture}
    /\ UNCHANGED <<live, display, work, backoff, displaying, todo, armed, paced>>

Step(i) ==
    \/ UpdateState(i) \/ PostJson(i)
    \/ MemberWithDisplay(i) \/ MemberWithoutDisplay(i) \/ MemberNull(i)
    \/ NoContent(i) \/ Ok(i) \/ NotFound(i) \/ Throttled(i) \/ Failed(i)
    \/ TimeoutFires(i) \/ RequestFires(i)

Next == (\E i \in Ids : Step(i)) \/ RenderFrame

Spec == Init /\ [][Next]_vars

-----------------------------------------------------------------------------
(* Every variable has its type, and an id that is not a key of _states has *)
(* no display, no work and no backoff.                                     *)
TypeOK ==
    /\ live \subseteq Ids
    /\ display \in [Ids -> Display \union {NoDisplay}]
    /\ work \in [Ids -> Work]
    /\ backoff \in [Ids -> Nat \union {Past}]
    /\ paced \in [Ids -> Pacers]
    /\ displaying \in Ids \union {Nothing, Dangling}
    /\ todo \in [Ids -> Members]
    /\ render \in {"now", "later"}
    /\ shown \in Display \union {NoDisplay}
    /\ armed \subseteq live
    /\ \A i \in Ids \ live : display[i] = NoDisplay /\ work[i] = "idle" /\ backoff[i] = 0

(* _displaying is null or points to the display of a state that exists.    *)
DisplayingLive == displaying = Nothing \/ (displaying \in live /\ display[displaying] # NoDisplay)

(* Whenever the panel does not show what _displaying points to, a frame    *)
(* has been asked for: it is not left to the next frame a minute later.    *)
FrameFresh == shown # Picture => render = "now"

(* Nothing is displayed although some state has a display only while the   *)
(* service is being asked for one of the highest prio.  (So it is unless   *)
(* the service answers 204, or not about the state it was asked for.)      *)
Dark == displaying = Nothing /\ \E i \in Ids : display[i] # NoDisplay

DarkOnlyWhileAsking ==
    (Ready /\ Dark) => \E i \in Foremost(display) : work[i] \in Requests \union Retries

(* A state whose last update asked for a timeout or poll still has work to *)
(* come that ends or refreshes it: it does not stay for ever.  (So it is   *)
(* unless the service answers 204, or not about the state it was asked     *)
(* for, when updateState() has overwritten the timeout.)                   *)
NothingForgotten == Ready => \A i \in armed : work[i] # "idle"

(* Whatever mix of answers, headers and updates came before, a retry is    *)
(* immediate or later than the cap only at the service's wish: if the      *)
(* answer it follows was a 429 or 503, or if its delay is a negative one   *)
(* that a header asked for, and that each failure since then has doubled.  *)
RetryPaced ==
    \A i \in Ids : work[i] \in Retries =>
        /\ paced[i] = "program" => backoff[i] > 0 /\ backoff[i] <= MaxBackoff
        /\ backoff[i] < 0 => paced[i] = "past"

(* Of all that changes _displaying or takes away a display, only the 404   *)
(* for the state that is displayed leaves the pointer to what is no        *)
(* state's display.                                                        *)
DanglesOnlyByNotFound ==
    [][~Ghost /\ Ghost' => displaying \in Ids /\ NotFound(displaying)]_vars
=============================================================================
