-------------------------- MODULE StateThingyProofs --------------------------
(***************************************************************************)
(* Theorems about StateThingy for every set of ids, priorities, pictures   *)
(* and answers.  What a theorem asks of the service is among its           *)
(* assumptions: no 404 for two about the panel, an answer about the        *)
(* requested id or a failure, which leaves out 204 and 404, for the two    *)
(* about the work of a state.  The ones about the backoff and about what   *)
(* makes _displaying dangle ask for nothing.                               *)
(***************************************************************************)
EXTENDS StateThingy, TLAPS

(* What findNextToDisplay() and updateState() leave in the `work` slots.   *)
LEMMA RefreshedFacts ==
  ASSUME NEW d \in [Ids -> Display \union {NoDisplay}], NEW w \in [Ids -> Work], NEW v \in Refreshed(d, w)
  PROVE  /\ v \in [Ids -> Work]
         /\ \A i \in Ids : v[i] = w[i] \/ (v[i] = "request" /\ d[i] # NoDisplay)
         /\ (\E i \in Ids : d[i] # NoDisplay) => \E i \in Foremost(d) : v[i] = "request"
<1>1. CASE \A i \in Ids : d[i] = NoDisplay
  BY <1>1 DEF Refreshed
<1>2. CASE ~(\A i \in Ids : d[i] = NoDisplay)
  <2>1. PICK n \in Foremost(d) : v = [w EXCEPT ![n] = "request"]
    BY <1>2 DEF Refreshed
  <2>2. n \in Ids /\ d[n] # NoDisplay
    BY DEF Foremost
  <2>3. QED
    BY <2>1, <2>2 DEF Work, Requests
<1>3. QED
  BY <1>1, <1>2

(* What erasing a state and asking for the next one does to the slots, in  *)
(* the two actions that do it.                                             *)
LEMMA EraseAndRefresh ==
  ASSUME TypeOK, NEW i \in Ids, Erase(i, Hidden(i)),
         work' \in Refreshed(display', Vacated(i))
  PROVE  /\ display' \in [Ids -> Display \union {NoDisplay}] /\ display'[i] = NoDisplay
         /\ work' \in [Ids -> Work] /\ work'[i] = "idle"
         /\ \A j \in Ids \ {i} : work'[j] = work[j] \/ (work'[j] = "request" /\ display'[j] # NoDisplay)
         /\ (\E j \in Ids : display'[j] # NoDisplay) => \E j \in Foremost(display') : work'[j] = "request"
<1>1. Vacated(i) \in [Ids -> Work] /\ Vacated(i)[i] = "idle" /\ \A j \in Ids \ {i} : Vacated(i)[j] = work[j]
  BY DEF TypeOK, Work, Vacated
<1>2. display' \in [Ids -> Display \union {NoDisplay}] /\ display'[i] = NoDisplay
  BY DEF TypeOK, Erase
<1>3. /\ work' \in [Ids -> Work]
      /\ \A j \in Ids : work'[j] = Vacated(i)[j] \/ (work'[j] = "request" /\ display'[j] # NoDisplay)
      /\ (\E j \in Ids : display'[j] # NoDisplay) => \E j \in Foremost(display') : work'[j] = "request"
  BY <1>1, <1>2, RefreshedFacts
<1>4. QED
  BY <1>1, <1>2, <1>3

(* What a member of the JSON object asks for. *)
LEMMA MemberTypes ==
  ASSUME TypeOK, NEW i \in Ids, todo[i] \in Objects
  PROVE  /\ todo[i].display \in Display \union {NoDisplay}
         /\ todo[i].followup \in Work \ (Requests \union Retries)
BY StateThingyAssumption DEF Objects, Work, Requests, Retries

(* Every step keeps the types.                                             *)
LEMMA TypeStep == TypeOK /\ [Next]_vars => TypeOK'
<1> SUFFICES ASSUME TypeOK, [Next]_vars PROVE TypeOK'
  OBVIOUS
<1> USE DEF TypeOK
<1>a. ASSUME NEW i \in Ids, Handled(i) PROVE todo' \in [Ids -> Members]
  BY <1>a DEF Handled, Members
<1>b. ASSUME NEW b \in Bodies PROVE b \in [Ids -> Members]
  BY DEF Bodies
<1>c. ASSUME NEW i \in Ids
      PROVE  /\ Hidden(i) \in Ids \union {Nothing, Dangling}
             /\ NotifyIfShown(i) => render' \in {"now", "later"}
  BY DEF Hidden, NotifyIfShown
<1>d. ASSUME NEW i \in Ids PROVE Located(i) \subseteq Ids \union {Nothing, Dangling}
  BY DEF Located
<1>e. ASSUME NEW i \in Ids, NEW p \in Ids \union {Nothing, Dangling}, Erase(i, p)
      PROVE  /\ live' = live \ {i} /\ armed' \subseteq live'
             /\ display' \in [Ids -> Display \union {NoDisplay}]
             /\ backoff' \in [Ids -> Nat \union {Past}] /\ paced' \in [Ids -> Pacers]
             /\ displaying' \in Ids \union {Nothing, Dangling}
             /\ \A j \in Ids \ live' : display'[j] = NoDisplay /\ backoff'[j] = 0
  BY <1>e DEF Erase, Pacers
<1>f. ASSUME NEW i \in Ids
      PROVE  /\ Vacated(i) \in [Ids -> Work]
             /\ \A j \in Ids \ (live \ {i}) : Vacated(i)[j] = "idle"
  BY DEF Work, Vacated
<1>g. ASSUME NEW i \in Ids, work[i] \in Requests
      PROVE  i \in live
  BY <1>g DEF Requests
<1>1. ASSUME NEW i \in Ids, UpdateState(i) PROVE TypeOK'
  BY <1>1, <1>d DEF UpdateState, Work, Requests
<1>2. ASSUME NEW i \in Ids, PostJson(i) PROVE TypeOK'
  BY <1>2, <1>b, <1>d DEF PostJson
<1>3. ASSUME NEW i \in Ids, MemberWithDisplay(i) PROVE TypeOK'
  BY <1>3, <1>a, <1>d, MemberTypes DEF MemberWithDisplay, Arm
<1>4. ASSUME NEW i \in Ids, MemberWithoutDisplay(i) PROVE TypeOK'
  BY <1>4, <1>a, <1>c, <1>d, MemberTypes, RefreshedFacts DEF MemberWithoutDisplay, Arm
<1>5. ASSUME NEW i \in Ids, MemberNull(i) PROVE TypeOK'
  <2>1. CASE i \in live
    <3>1. Erase(i, Hidden(i)) /\ NotifyIfShown(i) /\ work' \in Refreshed(display', Vacated(i))
      BY <1>5, <2>1 DEF MemberNull
    <3>2. work' \in [Ids -> Work] /\ \A j \in Ids \ live' : work'[j] = "idle"
      BY <3>1, <1>c, <1>e, EraseAndRefresh
    <3>3. QED
      BY <1>5, <3>1, <3>2, <1>a, <1>c, <1>e DEF MemberNull
  <2>2. CASE i \notin live
    BY <1>5, <2>2, <1>a DEF MemberNull
  <2>3. QED
    BY <2>1, <2>2
<1>6. ASSUME NEW i \in Ids, NoContent(i) PROVE TypeOK'
  BY <1>6 DEF NoContent, Vacated, Work
<1>7. ASSUME NEW i \in Ids, Ok(i) PROVE TypeOK'
  BY <1>7, <1>b DEF Ok, Vacated, Work, Pacers
<1>8. ASSUME NEW i \in Ids, NotFound(i) PROVE TypeOK'
  <2>1. i \in live
    BY <1>8, <1>g DEF NotFound
  <2>2. work' \in [Ids -> Work] /\ \A j \in Ids \ (live \ {i}) : work'[j] = "idle"
    BY <1>8, <1>f DEF NotFound
  <2>3. CASE WithQuery(work[i])
    BY <1>8, <2>1, <2>2, <2>3 DEF NotFound
  <2>4. CASE ~WithQuery(work[i])
    BY <1>8, <2>2, <2>4, <1>e DEF NotFound
  <2>5. QED
    BY <2>3, <2>4
<1>9. ASSUME NEW i \in Ids, Throttled(i) PROVE TypeOK'
  <2>1. i \in live
    BY <1>9, <1>g DEF Throttled
  <2>2. /\ backoff' \in [Ids -> Nat \union {Past}] /\ \A j \in Ids \ {i} : backoff'[j] = backoff[j]
        /\ paced' \in [Ids -> Pacers]
    BY <1>9, BackoffAssumption DEF Throttled, Pacers
  <2>3. work' \in [Ids -> Work] /\ \A j \in Ids \ {i} : work'[j] = work[j]
    BY <1>9 DEF Throttled, RetryOf, Work, Retries
  <2>4. QED
    BY <1>9, <2>1, <2>2, <2>3 DEF Throttled
<1>10. ASSUME NEW i \in Ids, Failed(i) PROVE TypeOK'
  <2>1. i \in live
    BY <1>10, <1>g DEF Failed
  <2>2. \A b \in Nat \union {Past} : Doubled(b) \in Nat \union {Past}
    BY BackoffAssumption DEF Doubled, Past
  <2>3. /\ backoff' \in [Ids -> Nat \union {Past}] /\ \A j \in Ids \ {i} : backoff'[j] = backoff[j]
        /\ paced' \in [Ids -> Pacers]
    <3>1. PICK b \in {0, backoff[i]} : backoff' = [backoff EXCEPT ![i] = Doubled(b)]
      BY <1>10 DEF Failed, BackOff
    <3>2. Doubled(b) \in Nat \union {Past}
      BY <2>2
    <3>3. PICK p \in {"past", "program"} : paced' = [paced EXCEPT ![i] = p]
      BY <1>10 DEF Failed, BackOff
    <3>4. QED
      BY <3>1, <3>2, <3>3 DEF Pacers
  <2>4. work' \in [Ids -> Work] /\ \A j \in Ids \ {i} : work'[j] = work[j]
    BY <1>10 DEF Failed, RetryOf, Work, Retries
  <2>5. QED
    BY <1>10, <2>1, <2>3, <2>4 DEF Failed
<1>11. ASSUME NEW i \in Ids, TimeoutFires(i) PROVE TypeOK'
  <2>1. Erase(i, Hidden(i)) /\ NotifyIfShown(i) /\ work' \in Refreshed(display', Vacated(i))
    BY <1>11 DEF TimeoutFires
  <2>2. work' \in [Ids -> Work] /\ \A j \in Ids \ live' : work'[j] = "idle"
    BY <2>1, <1>c, <1>e, EraseAndRefresh
  <2>3. QED
    BY <1>11, <2>1, <2>2, <1>c, <1>e DEF TimeoutFires
<1>12. ASSUME NEW i \in Ids, RequestFires(i) PROVE TypeOK'
  BY <1>12 DEF RequestFires, Work, Retries, Requests
<1>13. CASE RenderFrame
  BY <1>13 DEF RenderFrame, Picture
<1>14. CASE UNCHANGED vars
  BY <1>14 DEF vars
<1>15. QED
  BY <1>1, <1>2, <1>3, <1>4, <1>5, <1>6, <1>7, <1>8, <1>9, <1>10, <1>11, <1>12, <1>13, <1>14
     DEF Next, Step

(* _displaying is never left pointing to a display that is gone, and a     *)
(* change of what it points to always asks for a frame.                    *)
PanelInv == DisplayingLive /\ FrameFresh

(* A state is hidden and erased: if it was displayed a frame is due, and    *)
(* if not what is displayed stays.                                         *)
LEMMA HideAndErase ==
  ASSUME TypeOK, DisplayingLive, NEW i \in Ids, NotifyIfShown(i), Erase(i, Hidden(i))
  PROVE  DisplayingLive' /\ (render' = "now" \/ (render' = render /\ Picture' = Picture))
<1> USE StateThingyAssumption DEF DisplayingLive, Picture
<1>1. display \in [Ids -> Display \union {NoDisplay}]
  BY DEF TypeOK
<1>2. display' = [display EXCEPT ![i] = NoDisplay] /\ live' = live \ {i}
  BY DEF Erase
<1>3. CASE displaying = i
  <2>1. displaying' = Nothing /\ render' = "now"
    BY <1>3 DEF Hidden, NotifyIfShown, Erase
  <2>2. QED
    BY <2>1
<1>4. CASE displaying # i
  <2>1. displaying' = displaying /\ render' = render
    BY <1>4 DEF Hidden, NotifyIfShown, Erase
  <2>2. displaying \in Ids => display'[displaying] = display[displaying]
    BY <1>1, <1>2, <1>4
  <2>3. displaying' = Nothing \/ (displaying' \in live' /\ display'[displaying'] # NoDisplay)
    BY <1>2, <1>4, <2>1, <2>2 DEF TypeOK
  <2>4. Picture' = Picture
    BY <2>1, <2>2
  <2>5. QED
    BY <2>1, <2>3, <2>4
<1>5. QED
  BY <1>3, <1>4

(* As long as _displaying points to the display of a state, every step but *)
(* the 404 for that state keeps it so, and asks for a frame when what the  *)
(* panel has to show is not what it was.                                   *)
LEMMA PointerStep ==
  ASSUME TypeOK, DisplayingLive, Next, \A i \in Ids : displaying = i => ~NotFound(i)
  PROVE  DisplayingLive' /\ (shown' = Picture' \/ render' = "now"
                              \/ (shown' = shown /\ render' = render /\ Picture' = Picture))
<1> DEFINE Goal == /\ DisplayingLive'
                   /\ \/ shown' = Picture'
                      \/ render' = "now"
                      \/ shown' = shown /\ render' = render /\ Picture' = Picture
<1> SUFFICES Goal
  OBVIOUS
<1> USE StateThingyAssumption DEF DisplayingLive, Picture
<1>a. displaying # Dangling /\ ~Ghost /\ \A i \in Ids : Located(i) = {displaying}
  BY DEF Ghost, Located, TypeOK
<1>1. ASSUME NEW i \in Ids, UpdateState(i) PROVE Goal
  BY <1>a, <1>1 DEF UpdateState
<1>2. ASSUME NEW i \in Ids, PostJson(i) PROVE Goal
  BY <1>a, <1>2 DEF PostJson
<1>3. ASSUME NEW i \in Ids, MemberWithDisplay(i) PROVE Goal
  <2>1. /\ todo[i].display # NoDisplay /\ todo[i].display \in Display \union {NoDisplay}
        /\ display' = [display EXCEPT ![i] = todo[i].display]
        /\ live' = live \union {i} /\ shown' = shown
    BY <1>3, MemberTypes DEF MemberWithDisplay
  <2>2. CASE displaying' = i /\ render' = "now"
    BY <2>1, <2>2 DEF TypeOK
  <2>3. CASE displaying # i /\ displaying' = displaying /\ render' = render
    <3>1. displaying \in Ids => display'[displaying] = display[displaying]
      BY <2>1, <2>3 DEF TypeOK
    <3>2. Picture' = Picture
      BY <2>3, <3>1
    <3>3. DisplayingLive'
      BY <2>1, <2>3, <3>1 DEF TypeOK
    <3>4. QED
      BY <2>1, <2>3, <3>2, <3>3
  <2>4. QED
    BY <1>a, <1>3, <2>2, <2>3 DEF MemberWithDisplay
<1>4. ASSUME NEW i \in Ids, MemberWithoutDisplay(i) PROVE Goal
  <2>1. live' = live \union {i} /\ shown' = shown
    BY <1>4 DEF MemberWithoutDisplay
  <2>2. CASE display[i] # NoDisplay
    <3>1. /\ displaying' = Hidden(i) /\ NotifyIfShown(i)
          /\ display' = [display EXCEPT ![i] = NoDisplay]
      BY <1>4, <2>2 DEF MemberWithoutDisplay
    <3>2. QED
      BY <2>1, <3>1 DEF Hidden, NotifyIfShown, TypeOK
  <2>3. CASE display[i] = NoDisplay
    <3>1. display' = display /\ render' = render /\ displaying' = displaying
      BY <1>a, <1>4, <2>3 DEF MemberWithoutDisplay
    <3>2. QED
      BY <2>1, <3>1
  <2>4. QED
    BY <2>2, <2>3
<1>5. ASSUME NEW i \in Ids, MemberNull(i) PROVE Goal
  <2>1. CASE i \in live
    BY <1>5, <2>1, HideAndErase DEF MemberNull
  <2>2. CASE i \notin live
    <3>1. /\ live' = live /\ display' = display /\ displaying' = displaying
          /\ render' = render /\ shown' = shown
      BY <1>5, <2>2 DEF MemberNull
    <3>2. QED
      BY <3>1
  <2>3. QED
    BY <2>1, <2>2
<1>6. ASSUME NEW i \in Ids, NoContent(i) PROVE Goal
  BY <1>6 DEF NoContent
<1>7. ASSUME NEW i \in Ids, Ok(i) PROVE Goal
  BY <1>7 DEF Ok
<1>8. ASSUME NEW i \in Ids, NotFound(i) PROVE Goal
  <2>1. displaying # i /\ shown' = shown /\ render' = render
    BY <1>8 DEF NotFound
  <2>2. displaying' = displaying
    BY <1>8, <2>1 DEF NotFound, Erase
  <2>3. CASE display' = display /\ live' = live
    BY <2>1, <2>2, <2>3
  <2>4. CASE display' = [display EXCEPT ![i] = NoDisplay] /\ live' = live \ {i}
    <3>1. displaying \in Ids => display'[displaying] = display[displaying]
      BY <2>1, <2>4 DEF TypeOK
    <3>2. QED
      BY <2>1, <2>2, <2>4, <3>1 DEF TypeOK
  <2>5. QED
    BY <1>8, <2>3, <2>4 DEF NotFound, Erase
<1>9. ASSUME NEW i \in Ids, Throttled(i) PROVE Goal
  BY <1>9 DEF Throttled
<1>10. ASSUME NEW i \in Ids, Failed(i) PROVE Goal
  BY <1>10 DEF Failed
<1>11. ASSUME NEW i \in Ids, TimeoutFires(i) PROVE Goal
  BY <1>11, HideAndErase DEF TimeoutFires
<1>12. ASSUME NEW i \in Ids, RequestFires(i) PROVE Goal
  BY <1>12 DEF RequestFires
<1>13. CASE RenderFrame
  BY <1>13, <1>a DEF RenderFrame
<1>15. QED
  BY <1>1, <1>2, <1>3, <1>4, <1>5, <1>6, <1>7, <1>8, <1>9, <1>10, <1>11, <1>12, <1>13
     DEF Next, Step

(* Every step keeps PanelInv while the service answers no 404. *)
LEMMA PanelStep ==
  ASSUME "not found" \notin Answers
  PROVE  TypeOK /\ PanelInv /\ [Next]_vars => PanelInv'
<1> SUFFICES ASSUME TypeOK, PanelInv, [Next]_vars PROVE PanelInv'
  OBVIOUS
<1>1. CASE Next
  <2>1. \A i \in Ids : ~NotFound(i)
    BY DEF NotFound
  <2>2. DisplayingLive' /\ (shown' = Picture' \/ render' = "now"
                             \/ (shown' = shown /\ render' = render /\ Picture' = Picture))
    BY <1>1, <2>1, PointerStep DEF PanelInv
  <2>3. QED
    BY <2>2 DEF PanelInv, FrameFresh
<1>2. CASE UNCHANGED vars
  BY <1>2 DEF vars, PanelInv, DisplayingLive, FrameFresh, Picture
<1>3. QED
  BY <1>1, <1>2

(* What the last update of a state asked for is under way or just read.    *)
WorkInv == \A i \in armed : work[i] # "idle" \/ todo[i] # Absent

(* While nothing is displayed, a state of the highest prio is being asked, *)
(* or its answer is the JSON object at hand.                               *)
DarkInv == Dark => \E i \in Foremost(display) : work[i] \in Requests \union Retries \/ todo[i] # Absent

(* Every step keeps WorkInv if the service answers what it is asked. *)
LEMMA WorkStep ==
  ASSUME Honest, Answers \subseteq {"ok", "invalid", "throttled", "error"}
  PROVE  TypeOK /\ WorkInv /\ [Next]_vars => WorkInv'
<1> SUFFICES ASSUME TypeOK, WorkInv, [Next]_vars PROVE WorkInv'
  OBVIOUS
<1> USE DEF TypeOK, WorkInv
<1>1. ASSUME NEW i \in Ids, UpdateState(i) PROVE WorkInv'
  BY <1>1 DEF UpdateState, Requests
<1>2. ASSUME NEW i \in Ids, PostJson(i) PROVE WorkInv'
  BY <1>2 DEF PostJson, Ready, NoMembers
<1>3. ASSUME NEW i \in Ids, MemberWithDisplay(i) PROVE WorkInv'
  BY <1>3 DEF MemberWithDisplay, Handled, Arm
<1>4. ASSUME NEW i \in Ids, MemberWithoutDisplay(i) PROVE WorkInv'
  BY <1>4, RefreshedFacts DEF MemberWithoutDisplay, Handled, Arm
<1>5. ASSUME NEW i \in Ids, MemberNull(i) PROVE WorkInv'
  BY <1>5, EraseAndRefresh DEF MemberNull, Erase, Handled
<1>6. ASSUME NEW i \in Ids, NoContent(i) PROVE WorkInv'
  BY <1>6 DEF NoContent
<1>7. ASSUME NEW i \in Ids, Ok(i) PROVE WorkInv'
  <2>1. todo'[i] # Absent
    BY <1>7 DEF Ok
  <2>2. QED
    BY <1>7, <2>1 DEF Ok, Vacated, Ready, NoMembers
<1>8. ASSUME NEW i \in Ids, NotFound(i) PROVE WorkInv'
  BY <1>8 DEF NotFound
<1>9. ASSUME NEW i \in Ids, Throttled(i) PROVE WorkInv'
  BY <1>9 DEF Throttled, RetryOf
<1>10. ASSUME NEW i \in Ids, Failed(i) PROVE WorkInv'
  BY <1>10 DEF Failed, RetryOf
<1>11. ASSUME NEW i \in Ids, TimeoutFires(i) PROVE WorkInv'
  <2>1. armed' = armed \ {i} /\ todo' = todo
    BY <1>11 DEF TimeoutFires, Erase
  <2>2. \A j \in Ids \ {i} : work'[j] = work[j] \/ work'[j] = "request"
    BY <1>11, EraseAndRefresh DEF TimeoutFires
  <2>3. QED
    BY <2>1, <2>2
<1>12. ASSUME NEW i \in Ids, RequestFires(i) PROVE WorkInv'
  BY <1>12 DEF RequestFires
<1>13. CASE RenderFrame
  BY <1>13 DEF RenderFrame
<1>14. CASE UNCHANGED vars
  BY <1>14 DEF vars
<1>15. QED
  BY <1>1, <1>2, <1>3, <1>4, <1>5, <1>6, <1>7, <1>8, <1>9, <1>10, <1>11, <1>12, <1>13, <1>14
     DEF Next, Step

(* Every step keeps DarkInv if the service answers what it is asked. *)
LEMMA DarkStep ==
  ASSUME Honest, Answers \subseteq {"ok", "invalid", "throttled", "error"}
  PROVE  TypeOK /\ DarkInv /\ [Next]_vars => DarkInv'
<1> SUFFICES ASSUME TypeOK, DarkInv, [Next]_vars PROVE DarkInv'
  OBVIOUS
<1> USE DEF TypeOK, DarkInv, Dark
<1>1. ASSUME NEW i \in Ids, UpdateState(i) PROVE DarkInv'
  <2>1. Dark' => Dark
    BY <1>1, StateThingyAssumption DEF UpdateState, Located
  <2>2. PICK w \in Requests : work' = [work EXCEPT ![i] = w]
    BY <1>1 DEF UpdateState, Requests
  <2>3. \A j \in Ids : work'[j] = work[j] \/ work'[j] \in Requests
    BY <2>2
  <2>4. display' = display /\ todo' = todo
    BY <1>1 DEF UpdateState
  <2>5. QED
    BY <2>1, <2>3, <2>4 DEF Foremost
<1>2. ASSUME NEW i \in Ids, PostJson(i) PROVE DarkInv'
  <2>1. Dark' => Dark
    BY <1>2, StateThingyAssumption DEF PostJson, Located
  <2>2. QED
    BY <1>2, <2>1 DEF PostJson, Ready, NoMembers, Foremost
<1>3. ASSUME NEW i \in Ids, MemberWithDisplay(i) PROVE DarkInv'
  <2>1. PICK p \in Located(i) : displaying' = i \/ (displaying' = p /\ p # Nothing)
    BY <1>3 DEF MemberWithDisplay
  <2>2. displaying' # Nothing
    BY <2>1, StateThingyAssumption
  <2>3. QED
    BY <2>2
<1>4. ASSUME NEW i \in Ids, MemberWithoutDisplay(i) PROVE DarkInv'
  <2>1. /\ display' \in [Ids -> Display \union {NoDisplay}] /\ display'[i] = NoDisplay
        /\ \A j \in Ids \ {i} : todo'[j] = todo[j]
    BY <1>4 DEF MemberWithoutDisplay, Handled
  <2>2. CASE display[i] # NoDisplay
    <3>1. PICK w \in Refreshed(display', work) : work' = [w EXCEPT ![i] = todo[i].followup]
      BY <1>4, <2>2 DEF MemberWithoutDisplay
    <3>2. ASSUME Dark' PROVE \E j \in Foremost(display') : w[j] = "request"
      BY <2>1, <3>2, RefreshedFacts
    <3>3. ASSUME NEW j \in Foremost(display') PROVE j \in Ids \ {i}
      BY <2>1, <3>3 DEF Foremost
    <3>4. w \in [Ids -> Work]
      BY <2>1, RefreshedFacts
    <3>5. ASSUME NEW j \in Ids \ {i} PROVE work'[j] = w[j]
      BY <3>1, <3>4, <3>5
    <3>6. QED
      BY <3>2, <3>3, <3>5 DEF Requests
  <2>3. CASE display[i] = NoDisplay
    <3>1. display' = display /\ \A j \in Ids \ {i} : work'[j] = work[j]
      BY <1>4, <2>3 DEF MemberWithoutDisplay
    <3>2. Dark' => Dark
      <4>1. displaying' \in Located(i)
        BY <1>4, <2>3 DEF MemberWithoutDisplay
      <4>2. displaying' = Nothing => displaying = Nothing
        BY <4>1, StateThingyAssumption DEF Located
      <4>3. QED
        BY <3>1, <4>2
    <3>3. QED
      BY <2>1, <2>3, <3>1, <3>2 DEF Foremost
  <2>4. QED
    BY <2>2, <2>3
<1>5. ASSUME NEW i \in Ids, MemberNull(i) PROVE DarkInv'
  <2>1. CASE i \in live
    BY <1>5, <2>1, EraseAndRefresh DEF MemberNull, Requests
  <2>2. CASE i \notin live
    BY <1>5, <2>2 DEF MemberNull, Handled, Foremost
  <2>3. QED
    BY <2>1, <2>2
<1>6. ASSUME NEW i \in Ids, NoContent(i) PROVE DarkInv'
  BY <1>6 DEF NoContent
<1>7. ASSUME NEW i \in Ids, Ok(i) PROVE DarkInv'
  BY <1>7 DEF Ok, Vacated, Ready, NoMembers, Foremost
<1>8. ASSUME NEW i \in Ids, NotFound(i) PROVE DarkInv'
  BY <1>8 DEF NotFound
<1>9. ASSUME NEW i \in Ids, Throttled(i) PROVE DarkInv'
  BY <1>9 DEF Throttled, RetryOf, Retries, Foremost
<1>10. ASSUME NEW i \in Ids, Failed(i) PROVE DarkInv'
  BY <1>10 DEF Failed, RetryOf, Retries, Foremost
<1>11. ASSUME NEW i \in Ids, TimeoutFires(i) PROVE DarkInv'
  BY <1>11, EraseAndRefresh DEF TimeoutFires, Requests
<1>12. ASSUME NEW i \in Ids, RequestFires(i) PROVE DarkInv'
  BY <1>12 DEF RequestFires, Requests, Foremost
<1>13. CASE RenderFrame
  BY <1>13 DEF RenderFrame
<1>14. CASE UNCHANGED vars
  BY <1>14 DEF vars
<1>15. QED
  BY <1>1, <1>2, <1>3, <1>4, <1>5, <1>6, <1>7, <1>8, <1>9, <1>10, <1>11, <1>12, <1>13, <1>14
     DEF Next, Step

(* A backoff that is the program's own is within the cap, and not zero     *)
(* when a retry waits for it; only one that is a header's is in the past.  *)
PaceInv ==
    \A i \in Ids :
        /\ paced[i] = "program" => backoff[i] \in 0..MaxBackoff
        /\ paced[i] = "program" /\ work[i] \in Retries => backoff[i] > 0
        /\ backoff[i] = Past => paced[i] = "past"

(* Every step keeps PaceInv, whatever the service answers.                 *)
LEMMA PaceStep == TypeOK /\ PaceInv /\ [Next]_vars => PaceInv'
<1> SUFFICES ASSUME TypeOK, PaceInv, [Next]_vars PROVE PaceInv'
  OBVIOUS
<1> USE BackoffAssumption DEF TypeOK, PaceInv, Retries
<1>1. ASSUME NEW i \in Ids, UpdateState(i) PROVE PaceInv'
  BY <1>1 DEF UpdateState, Requests
<1>2. ASSUME NEW i \in Ids, PostJson(i) PROVE PaceInv'
  BY <1>2 DEF PostJson
<1>3. ASSUME NEW i \in Ids, MemberWithDisplay(i) PROVE PaceInv'
  BY <1>3, MemberTypes DEF MemberWithDisplay, Requests
<1>4. ASSUME NEW i \in Ids, MemberWithoutDisplay(i) PROVE PaceInv'
  BY <1>4, MemberTypes, RefreshedFacts DEF MemberWithoutDisplay
<1>5. ASSUME NEW i \in Ids, MemberNull(i) PROVE PaceInv'
  BY <1>5, EraseAndRefresh DEF MemberNull, Erase, Past
<1>6. ASSUME NEW i \in Ids, NoContent(i) PROVE PaceInv'
  BY <1>6 DEF NoContent, Vacated
<1>7. ASSUME NEW i \in Ids, Ok(i) PROVE PaceInv'
  BY <1>7 DEF Ok, Vacated, Past
<1>8. ASSUME NEW i \in Ids, NotFound(i) PROVE PaceInv'
  <2>1. /\ work' = Vacated(i)
        /\ \/ backoff' = backoff /\ paced' = paced
           \/ backoff' = [backoff EXCEPT ![i] = 0] /\ paced' = [paced EXCEPT ![i] = "program"]
    BY <1>8 DEF NotFound, Erase
  <2>2. work'[i] = "idle" /\ \A j \in Ids \ {i} : work'[j] = work[j]
    BY <2>1 DEF Vacated, Work
  <2>3. QED
    BY <2>1, <2>2 DEF Past
<1>9. ASSUME NEW i \in Ids, Throttled(i) PROVE PaceInv'
  <2>1. paced' = [paced EXCEPT ![i] = IF backoff'[i] = Past THEN "past" ELSE "service"]
    BY <1>9 DEF Throttled
  <2>2. \A j \in Ids \ {i} : work'[j] = work[j] /\ paced'[j] = paced[j] /\ backoff'[j] = backoff[j]
    BY <1>9 DEF Throttled
  <2>3. QED
    BY <2>1, <2>2
<1>10. ASSUME NEW i \in Ids, Failed(i) PROVE PaceInv'
  <2>1. ASSUME NEW b \in Nat PROVE Doubled(b) \in 1..MaxBackoff /\ Doubled(b) # Past
    <3>1. b # Past
      BY DEF Past
    <3>2. CASE b = 0
      BY <3>1, <3>2 DEF Doubled, Past
    <3>3. CASE b # 0
      <4>1. Doubled(b) = IF 2 * b <= MaxBackoff THEN 2 * b ELSE MaxBackoff
        BY <3>1, <3>3 DEF Doubled
      <4>2. QED
        BY <3>3, <4>1 DEF Past
    <3>4. QED
      BY <3>2, <3>3
  <2>2. Doubled(Past) = Past
    BY DEF Doubled, Past
  <2>3. \/ backoff' = [backoff EXCEPT ![i] = Doubled(backoff[i])]
           /\ paced' = [paced EXCEPT ![i] = IF paced[i] = "past" THEN "past" ELSE "program"]
        \/ backoff' = [backoff EXCEPT ![i] = Doubled(0)] /\ paced' = [paced EXCEPT ![i] = "program"]
    BY <1>10 DEF Failed, BackOff
  <2>4. /\ paced'[i] = "program" => backoff'[i] \in 1..MaxBackoff
        /\ backoff'[i] = Past => paced'[i] = "past"
    BY <2>1, <2>2, <2>3
  <2>5. \A j \in Ids \ {i} : work'[j] = work[j] /\ paced'[j] = paced[j] /\ backoff'[j] = backoff[j]
    BY <1>10, <2>3 DEF Failed
  <2>6. QED
    BY <2>4, <2>5
<1>11. ASSUME NEW i \in Ids, TimeoutFires(i) PROVE PaceInv'
  <2>1. Erase(i, Hidden(i)) /\ work' \in Refreshed(display', Vacated(i))
    BY <1>11 DEF TimeoutFires
  <2>2. work'[i] = "idle" /\ \A j \in Ids \ {i} : work'[j] = work[j] \/ work'[j] = "request"
    BY <2>1, EraseAndRefresh
  <2>3. QED
    BY <2>1, <2>2 DEF Erase, Past
<1>12. ASSUME NEW i \in Ids, RequestFires(i) PROVE PaceInv'
  BY <1>12 DEF RequestFires
<1>13. CASE RenderFrame
  BY <1>13 DEF RenderFrame
<1>14. CASE UNCHANGED vars
  BY <1>14 DEF vars
<1>15. QED
  BY <1>1, <1>2, <1>3, <1>4, <1>5, <1>6, <1>7, <1>8, <1>9, <1>10, <1>11, <1>12, <1>13, <1>14
     DEF Next, Step

-----------------------------------------------------------------------------
(* An id that is no key of _states keeps no display, no work in flight and *)
(* no backoff behind, whichever way it was erased.                         *)
THEOREM TypeCorrect == Spec => []TypeOK
<1>1. Init => TypeOK
  <2> SUFFICES ASSUME Init PROVE TypeOK
    OBVIOUS
  <2>1. work \in [Ids -> Work] /\ \A i \in Ids \ live : work[i] = "idle"
    BY DEF Init, Work, Requests
  <2>2. todo \in [Ids -> Members]
    BY DEF Init, NoMembers, Members
  <2>3. /\ backoff \in [Ids -> Nat \union {Past}] /\ paced \in [Ids -> Pacers]
        /\ display \in [Ids -> Display \union {NoDisplay}]
    BY DEF Init, Pacers
  <2>4. QED
    BY <2>1, <2>2, <2>3 DEF Init, TypeOK
<1>2. TypeOK /\ [Next]_vars => TypeOK'
  BY TypeStep
<1>3. QED
  BY <1>1, <1>2, PTL DEF Spec

LEMMA PanelAlways ==
  ASSUME "not found" \notin Answers
  PROVE  Spec => []PanelInv
<1>1. Init => PanelInv
  BY StateThingyAssumption DEF Init, PanelInv, DisplayingLive, FrameFresh
<1>2. TypeOK /\ PanelInv /\ [Next]_vars => PanelInv'
  BY PanelStep
<1>3. QED
  BY <1>1, <1>2, TypeCorrect, PTL DEF Spec

(* While the service answers no 404, _displaying is null or points to the  *)
(* display of a state that exists, over all updates, erasures, timeouts    *)
(* and changes of priority.                                                *)
THEOREM PointerValid ==
  ASSUME "not found" \notin Answers
  PROVE  Spec => []DisplayingLive
<1>1. PanelInv => DisplayingLive
  BY DEF PanelInv
<1>2. QED
  BY <1>1, PanelAlways, PTL

(* While the service answers no 404, the panel shows what _displaying      *)
(* points to or an immediate frame has been scheduled.                     *)
THEOREM PanelFollows ==
  ASSUME "not found" \notin Answers
  PROVE  Spec => []FrameFresh
<1>1. PanelInv => FrameFresh
  BY DEF PanelInv
<1>2. QED
  BY <1>1, PanelAlways, PTL

(* Whatever the service answers: of all the ways in which _displaying and  *)
(* the displays change, only the 404 for the displayed state leaves        *)
(* _displaying pointing to what is no state's display.                     *)
THEOREM OnlyNotFoundDangles == Spec => DanglesOnlyByNotFound
<1>1. TypeOK /\ [Next]_vars => [~Ghost /\ Ghost' => displaying \in Ids /\ NotFound(displaying)]_vars
  <2> SUFFICES ASSUME TypeOK, Next, ~Ghost, Ghost', ~(displaying \in Ids /\ NotFound(displaying))
               PROVE  FALSE
    OBVIOUS
  <2>1. DisplayingLive
    BY DEF TypeOK, Ghost, DisplayingLive
  <2>2. DisplayingLive'
    BY <2>1, PointerStep
  <2>3. QED
    BY <2>2, StateThingyAssumption, TypeStep DEF Ghost, DisplayingLive, TypeOK
<1>2. QED
  BY <1>1, TypeCorrect, PTL DEF Spec, DanglesOnlyByNotFound

(* If the service answers what it is asked or fails, a state that was to   *)
(* be ended or refreshed has work to come, although others may replace it. *)
THEOREM NoStateForgotten ==
  ASSUME Honest, Answers \subseteq {"ok", "invalid", "throttled", "error"}
  PROVE  Spec => []NothingForgotten
<1>1. Init => WorkInv
  BY DEF Init, WorkInv
<1>2. TypeOK /\ WorkInv /\ [Next]_vars => WorkInv'
  BY WorkStep
<1>3. TypeOK /\ WorkInv => NothingForgotten
  BY DEF TypeOK, WorkInv, NothingForgotten, Ready, NoMembers
<1>4. QED
  BY <1>1, <1>2, <1>3, TypeCorrect, PTL DEF Spec

(* If the service answers what it is asked or fails, a panel that is dark  *)
(* although there are displays is waiting for one of the highest prio.     *)
THEOREM DarkIsTransient ==
  ASSUME Honest, Answers \subseteq {"ok", "invalid", "throttled", "error"}
  PROVE  Spec => []DarkOnlyWhileAsking
<1>1. Init => DarkInv
  BY DEF Init, DarkInv, Dark
<1>2. TypeOK /\ DarkInv /\ [Next]_vars => DarkInv'
  BY DarkStep
<1>3. DarkInv => DarkOnlyWhileAsking
  BY DEF DarkInv, DarkOnlyWhileAsking, Ready, NoMembers, Foremost
<1>4. QED
  BY <1>1, <1>2, <1>3, TypeCorrect, PTL DEF Spec

(* Whatever the service answers and its headers say, a retry that the      *)
(* program paces itself waits, and not longer than the cap; and none is in *)
(* the past unless a header put it there.                                  *)
THEOREM RetriesPaced == Spec => []RetryPaced
<1>1. Init => PaceInv
  BY BackoffAssumption DEF Init, PaceInv, Retries, Past
<1>2. TypeOK /\ PaceInv /\ [Next]_vars => PaceInv'
  BY PaceStep
<1>3. TypeOK /\ PaceInv => RetryPaced
  BY BackoffAssumption DEF TypeOK, PaceInv, RetryPaced, Past
<1>4. QED
  BY <1>1, <1>2, <1>3, TypeCorrect, PTL DEF Spec
=============================================================================
