--------------------------- MODULE SchedulerProofs ---------------------------
(***************************************************************************)
(* Theorems about Scheduler for every set of tasks, every clock bound and  *)
(* every choice of delays and periods.  Each part of the inductive         *)
(* invariant is a definition and has a lemma of its own, which says that   *)
(* every step preserves it in the presence of the parts before it.         *)
(***************************************************************************)
EXTENDS Scheduler, TLAPS

(* No entry is in two places, and only scheduled tasks are anywhere.       *)
Apart ==
    /\ queue \subseteq issued /\ batch \subseteq issued /\ kept \subseteq issued
    /\ cur \in issued \union {NoTask}
    /\ queue \intersect batch = {}
    /\ queue \intersect kept = {}
    /\ batch \intersect kept = {}
    /\ cur \notin queue \union batch \union kept
    /\ (kept # {}) => (pc \in {"examine", "call", "run"})

(* The time read for the batch has passed, and what is called was due.     *)
DueInv ==
    /\ batchNow <= now
    /\ pc \in {"call", "run"} => at[cur] <= batchNow

(* A callback is counted when it starts; afterwards a one-shot entry is    *)
(* nowhere but, until it returns, in `cur`.                                *)
StartsInv ==
    /\ pc = "run" => starts[cur] >= 1
    /\ \A t \in Tasks \ issued : starts[t] = 0
    /\ \A t \in issued :
          (period[t] = 0 /\ starts[t] # 0) =>
              /\ starts[t] = 1
              /\ t \notin queue \union batch \union kept
              /\ cur = t => pc = "run"

(* What the worker dropped is not held and is not about to be called.      *)
RevokedInv ==
    /\ revoked \subseteq issued
    /\ revoked \intersect held = {}
    /\ pc = "call" => cur \notin revoked

(* If other threads never pass a delay, the entries a wait was not called  *)
(* for are due already, and a sleeping worker has been told of them.       *)
SleepInv ==
    /\ pc = "check" => \A t \in queue : deadline <= at[t] \/ at[t] <= now
    /\ pc = "block" => \A t \in queue : deadline <= at[t]
    /\ pc = "wait" => \A t \in queue : deadline <= at[t] \/ (woken /\ at[t] <= now)

(* Immediate entries are due as soon as they are in a batch, hence never   *)
(* kept, and those of the batch are older than those of the queue.         *)
OrderInv ==
    /\ \A t \in issued : Immediate(t) => at[t] <= now
    /\ pc \in {"examine", "call", "run"} =>
          \A t \in batch : Immediate(t) => at[t] <= batchNow
    /\ \A t \in kept : ~Immediate(t)
    /\ \A t \in batch, u \in queue : (Immediate(t) /\ Immediate(u)) => at[t] <= at[u]
    /\ (cur # NoTask /\ Immediate(cur)) =>
          \A u \in queue \union batch : Immediate(u) => at[cur] <= at[u]

-----------------------------------------------------------------------------
(* Every step keeps the types. *)
LEMMA TypeStep == TypeOK /\ [Next]_vars => TypeOK'
<1> SUFFICES ASSUME TypeOK, [Next]_vars PROVE TypeOK'
  OBVIOUS
<1> USE SchedulerAssumption DEF TypeOK, Locked, Unlocked, Forever
<1>1. ASSUME NEW t \in Tasks, NEW d \in RemoteDelays \union LocalDelays, NEW p \in Periods,
             pc \in Unlocked, Schedule(t, d, p)
      PROVE  TypeOK'
  BY <1>1 DEF Schedule, Insert, NotifyAll, loopVars
<1>2. CASE RemoteSchedule
  BY <1>1, <1>2 DEF RemoteSchedule
<1>3. CASE LocalSchedule
  BY <1>1, <1>3 DEF LocalSchedule, Unlocked
<1>4. CASE RemoteDrop
  BY <1>4 DEF RemoteDrop, Drop, NotifyAll, loopVars, entryVars
<1>5. CASE LocalDrop
  BY <1>5 DEF LocalDrop, Drop, NotifyAll, loopVars, entryVars
<1>6. CASE Stop
  BY <1>6 DEF Stop, NotifyAll, loopVars, entryVars, history
<1>7. CASE LoopHead
  BY <1>7 DEF LoopHead, IsFirst, entryVars, history
<1>8. CASE Check
  BY <1>8 DEF Check, loopVars, entryVars, history
<1>9. CASE Block
  BY <1>9 DEF Block, loopVars, entryVars, history
<1>10. CASE WakeNotified
  BY <1>10 DEF WakeNotified, loopVars, entryVars, history
<1>11. CASE WakeTimeout
  BY <1>11 DEF WakeTimeout, loopVars, entryVars, history
<1>12. CASE Swap
  BY <1>12 DEF Swap, entryVars, history
<1>13. CASE ReadClock
  BY <1>13 DEF ReadClock, entryVars, history
<1>14. CASE Examine
  BY <1>14 DEF Examine, IsFirst, Alive, Due, entryVars, history
<1>15. CASE Call
  BY <1>15 DEF Call, loopVars, entryVars
<1>16. CASE Return
  BY <1>16 DEF Return, Repeats, Insert
<1>17. CASE Merge
  BY <1>17 DEF Merge, entryVars
<1>18. CASE Tick
  BY <1>18 DEF Tick, loopVars, entryVars, history
<1>19. CASE UNCHANGED vars
  BY <1>19 DEF vars, loopVars, entryVars, history
<1>20. QED
  BY <1>2, <1>3, <1>4, <1>5, <1>6, <1>7, <1>8, <1>9, <1>10, <1>11, <1>12, <1>13,
     <1>14, <1>15, <1>16, <1>17, <1>18, <1>19
     DEF Next, Worker

(* Every step keeps the queues apart. *)
LEMMA ApartStep == TypeOK /\ Apart /\ [Next]_vars => Apart'
<1> SUFFICES ASSUME TypeOK, Apart, [Next]_vars PROVE Apart'
  OBVIOUS
<1> USE SchedulerAssumption DEF TypeOK, Locked, Unlocked, Forever, Apart
<1>1. ASSUME NEW t \in Tasks, NEW d \in RemoteDelays \union LocalDelays, NEW p \in Periods,
             pc \in Unlocked, Schedule(t, d, p)
      PROVE  Apart'
  BY <1>1 DEF Schedule, Insert, NotifyAll, loopVars
<1>2. CASE RemoteSchedule
  BY <1>1, <1>2 DEF RemoteSchedule
<1>3. CASE LocalSchedule
  BY <1>1, <1>3 DEF LocalSchedule, Unlocked
<1>4. CASE RemoteDrop
  BY <1>4 DEF RemoteDrop, Drop, NotifyAll, loopVars, entryVars
<1>5. CASE LocalDrop
  BY <1>5 DEF LocalDrop, Drop, NotifyAll, loopVars, entryVars
<1>6. CASE Stop
  BY <1>6 DEF Stop, NotifyAll, loopVars, entryVars, history
<1>7. CASE LoopHead
  BY <1>7 DEF LoopHead, IsFirst, entryVars, history
<1>8. CASE Check
  BY <1>8 DEF Check, loopVars, entryVars, history
<1>9. CASE Block
  BY <1>9 DEF Block, loopVars, entryVars, history
<1>10. CASE WakeNotified
  BY <1>10 DEF WakeNotified, loopVars, entryVars, history
<1>11. CASE WakeTimeout
  BY <1>11 DEF WakeTimeout, loopVars, entryVars, history
<1>12. CASE Swap
  BY <1>12 DEF Swap, entryVars, history
<1>13. CASE ReadClock
  BY <1>13 DEF ReadClock, entryVars, history
<1>14. CASE Examine
  BY <1>14 DEF Examine, IsFirst, Alive, Due, entryVars, history
<1>15. CASE Call
  BY <1>15 DEF Call, loopVars, entryVars
<1>16. CASE Return
  BY <1>16 DEF Return, Repeats, Insert
<1>17. CASE Merge
  BY <1>17 DEF Merge, entryVars
<1>18. CASE Tick
  BY <1>18 DEF Tick, loopVars, entryVars, history
<1>19. CASE UNCHANGED vars
  BY <1>19 DEF vars, loopVars, entryVars, history
<1>20. QED
  BY <1>2, <1>3, <1>4, <1>5, <1>6, <1>7, <1>8, <1>9, <1>10, <1>11, <1>12, <1>13,
     <1>14, <1>15, <1>16, <1>17, <1>18, <1>19
     DEF Next, Worker

(* Every step keeps DueInv: the clock only grows, and `at` changes only
   for new entries and in Return, when nothing is called. *)
LEMMA DueStep == TypeOK /\ Apart /\ DueInv /\ [Next]_vars => DueInv'
<1> SUFFICES ASSUME TypeOK, Apart, DueInv, [Next]_vars PROVE DueInv'
  OBVIOUS
<1> USE SchedulerAssumption DEF TypeOK, Locked, Unlocked, Forever, Apart, DueInv
<1>1. ASSUME NEW t \in Tasks, NEW d \in RemoteDelays \union LocalDelays, NEW p \in Periods,
             pc \in Unlocked, Schedule(t, d, p)
      PROVE  DueInv'
  BY <1>1 DEF Schedule, Insert, NotifyAll, loopVars
<1>2. CASE RemoteSchedule
  BY <1>1, <1>2 DEF RemoteSchedule
<1>3. CASE LocalSchedule
  BY <1>1, <1>3 DEF LocalSchedule, Unlocked
<1>4. CASE RemoteDrop
  BY <1>4 DEF RemoteDrop, Drop, NotifyAll, loopVars, entryVars
<1>5. CASE LocalDrop
  BY <1>5 DEF LocalDrop, Drop, NotifyAll, loopVars, entryVars
<1>6. CASE Stop
  BY <1>6 DEF Stop, NotifyAll, loopVars, entryVars, history
<1>7. CASE LoopHead
  BY <1>7 DEF LoopHead, IsFirst, entryVars, history
<1>8. CASE Check
  BY <1>8 DEF Check, loopVars, entryVars, history
<1>9. CASE Block
  BY <1>9 DEF Block, loopVars, entryVars, history
<1>10. CASE WakeNotified
  BY <1>10 DEF WakeNotified, loopVars, entryVars, history
<1>11. CASE WakeTimeout
  BY <1>11 DEF WakeTimeout, loopVars, entryVars, history
<1>12. CASE Swap
  BY <1>12 DEF Swap, entryVars, history
<1>13. CASE ReadClock
  BY <1>13 DEF ReadClock, entryVars, history
<1>14. CASE Examine
  BY <1>14 DEF Examine, IsFirst, Alive, Due, entryVars, history
<1>15. CASE Call
  BY <1>15 DEF Call, loopVars, entryVars
<1>16. CASE Return
  BY <1>16 DEF Return, Repeats, Insert
<1>17. CASE Merge
  BY <1>17 DEF Merge, entryVars
<1>18. CASE Tick
  BY <1>18 DEF Tick, loopVars, entryVars, history
<1>19. CASE UNCHANGED vars
  BY <1>19 DEF vars, loopVars, entryVars, history
<1>20. QED
  BY <1>2, <1>3, <1>4, <1>5, <1>6, <1>7, <1>8, <1>9, <1>10, <1>11, <1>12, <1>13,
     <1>14, <1>15, <1>16, <1>17, <1>18, <1>19
     DEF Next, Worker

(* Every step keeps StartsInv: Return alone puts a started entry back,
   and only a periodic one. *)
LEMMA StartsStep == TypeOK /\ Apart /\ StartsInv /\ [Next]_vars => StartsInv'
<1> SUFFICES ASSUME TypeOK, Apart, StartsInv, [Next]_vars PROVE StartsInv'
  OBVIOUS
<1> USE SchedulerAssumption DEF TypeOK, Locked, Unlocked, Forever, Apart, StartsInv
<1>1. ASSUME NEW t \in Tasks, NEW d \in RemoteDelays \union LocalDelays, NEW p \in Periods,
             pc \in Unlocked, Schedule(t, d, p)
      PROVE  StartsInv'
  BY <1>1 DEF Schedule, Insert, NotifyAll, loopVars
<1>2. CASE RemoteSchedule
  BY <1>1, <1>2 DEF RemoteSchedule
<1>3. CASE LocalSchedule
  BY <1>1, <1>3 DEF LocalSchedule, Unlocked
<1>4. CASE RemoteDrop
  BY <1>4 DEF RemoteDrop, Drop, NotifyAll, loopVars, entryVars
<1>5. CASE LocalDrop
  BY <1>5 DEF LocalDrop, Drop, NotifyAll, loopVars, entryVars
<1>6. CASE Stop
  BY <1>6 DEF Stop, NotifyAll, loopVars, entryVars, history
<1>7. CASE LoopHead
  BY <1>7 DEF LoopHead, IsFirst, entryVars, history
<1>8. CASE Check
  BY <1>8 DEF Check, loopVars, entryVars, history
<1>9. CASE Block
  BY <1>9 DEF Block, loopVars, entryVars, history
<1>10. CASE WakeNotified
  BY <1>10 DEF WakeNotified, loopVars, entryVars, history
<1>11. CASE WakeTimeout
  BY <1>11 DEF WakeTimeout, loopVars, entryVars, history
<1>12. CASE Swap
  BY <1>12 DEF Swap, entryVars, history
<1>13. CASE ReadClock
  BY <1>13 DEF ReadClock, entryVars, history
<1>14. CASE Examine
  BY <1>14 DEF Examine, IsFirst, Alive, Due, entryVars, history
<1>15. CASE Call
  BY <1>15 DEF Call, loopVars, entryVars
<1>16. CASE Return
  BY <1>16 DEF Return, Repeats, Insert
<1>17. CASE Merge
  BY <1>17 DEF Merge, entryVars
<1>18. CASE Tick
  BY <1>18 DEF Tick, loopVars, entryVars, history
<1>19. CASE UNCHANGED vars
  BY <1>19 DEF vars, loopVars, entryVars, history
<1>20. QED
  BY <1>2, <1>3, <1>4, <1>5, <1>6, <1>7, <1>8, <1>9, <1>10, <1>11, <1>12, <1>13,
     <1>14, <1>15, <1>16, <1>17, <1>18, <1>19
     DEF Next, Worker

(* Every step keeps RevokedInv: a callback cannot drop a Lifetime between
   the test of the sentinel and the call, the worker being in the loop. *)
LEMMA RevokedStep == TypeOK /\ Apart /\ RevokedInv /\ [Next]_vars => RevokedInv'
<1> SUFFICES ASSUME TypeOK, Apart, RevokedInv, [Next]_vars PROVE RevokedInv'
  OBVIOUS
<1> USE SchedulerAssumption DEF TypeOK, Locked, Unlocked, Forever, Apart, RevokedInv
<1>1. ASSUME NEW t \in Tasks, NEW d \in RemoteDelays \union LocalDelays, NEW p \in Periods,
             pc \in Unlocked, Schedule(t, d, p)
      PROVE  RevokedInv'
  BY <1>1 DEF Schedule, Insert, NotifyAll, loopVars
<1>2. CASE RemoteSchedule
  BY <1>1, <1>2 DEF RemoteSchedule
<1>3. CASE LocalSchedule
  BY <1>1, <1>3 DEF LocalSchedule, Unlocked
<1>4. CASE RemoteDrop
  BY <1>4 DEF RemoteDrop, Drop, NotifyAll, loopVars, entryVars
<1>5. CASE LocalDrop
  BY <1>5 DEF LocalDrop, Drop, NotifyAll, loopVars, entryVars
<1>6. CASE Stop
  BY <1>6 DEF Stop, NotifyAll, loopVars, entryVars, history
<1>7. CASE LoopHead
  BY <1>7 DEF LoopHead, IsFirst, entryVars, history
<1>8. CASE Check
  BY <1>8 DEF Check, loopVars, entryVars, history
<1>9. CASE Block
  BY <1>9 DEF Block, loopVars, entryVars, history
<1>10. CASE WakeNotified
  BY <1>10 DEF WakeNotified, loopVars, entryVars, history
<1>11. CASE WakeTimeout
  BY <1>11 DEF WakeTimeout, loopVars, entryVars, history
<1>12. CASE Swap
  BY <1>12 DEF Swap, entryVars, history
<1>13. CASE ReadClock
  BY <1>13 DEF ReadClock, entryVars, history
<1>14. CASE Examine
  BY <1>14 DEF Examine, IsFirst, Alive, Due, entryVars, history
<1>15. CASE Call
  BY <1>15 DEF Call, loopVars, entryVars
<1>16. CASE Return
  BY <1>16 DEF Return, Repeats, Insert
<1>17. CASE Merge
  BY <1>17 DEF Merge, entryVars
<1>18. CASE Tick
  BY <1>18 DEF Tick, loopVars, entryVars, history
<1>19. CASE UNCHANGED vars
  BY <1>19 DEF vars, loopVars, entryVars, history
<1>20. QED
  BY <1>2, <1>3, <1>4, <1>5, <1>6, <1>7, <1>8, <1>9, <1>10, <1>11, <1>12, <1>13,
     <1>14, <1>15, <1>16, <1>17, <1>18, <1>19
     DEF Next, Worker

(* Every step keeps NoSilentLoss: what Examine erases is dropped, started
   or, after stop(), given up; Return and Merge insert or record a refusal. *)
LEMMA LossStep == TypeOK /\ Apart /\ StartsInv /\ NoSilentLoss /\ [Next]_vars => NoSilentLoss'
<1> SUFFICES ASSUME TypeOK, Apart, StartsInv, NoSilentLoss, [Next]_vars PROVE NoSilentLoss'
  OBVIOUS
<1> USE SchedulerAssumption DEF TypeOK, Locked, Unlocked, Forever, Apart, StartsInv, NoSilentLoss, Pending
<1>1. ASSUME NEW t \in Tasks, NEW d \in RemoteDelays \union LocalDelays, NEW p \in Periods,
             pc \in Unlocked, Schedule(t, d, p)
      PROVE  NoSilentLoss'
  BY <1>1 DEF Schedule, Insert, NotifyAll, loopVars
<1>2. CASE RemoteSchedule
  BY <1>1, <1>2 DEF RemoteSchedule
<1>3. CASE LocalSchedule
  BY <1>1, <1>3 DEF LocalSchedule, Unlocked
<1>4. CASE RemoteDrop
  BY <1>4 DEF RemoteDrop, Drop, NotifyAll, loopVars, entryVars
<1>5. CASE LocalDrop
  BY <1>5 DEF LocalDrop, Drop, NotifyAll, loopVars, entryVars
<1>6. CASE Stop
  BY <1>6 DEF Stop, NotifyAll, loopVars, entryVars, history
<1>7. CASE LoopHead
  BY <1>7 DEF LoopHead, IsFirst, entryVars, history
<1>8. CASE Check
  BY <1>8 DEF Check, loopVars, entryVars, history
<1>9. CASE Block
  BY <1>9 DEF Block, loopVars, entryVars, history
<1>10. CASE WakeNotified
  BY <1>10 DEF WakeNotified, loopVars, entryVars, history
<1>11. CASE WakeTimeout
  BY <1>11 DEF WakeTimeout, loopVars, entryVars, history
<1>12. CASE Swap
  BY <1>12 DEF Swap, entryVars, history
<1>13. CASE ReadClock
  BY <1>13 DEF ReadClock, entryVars, history
<1>14. CASE Examine
  BY <1>14 DEF Examine, IsFirst, Alive, Due, entryVars, history
<1>15. CASE Call
  BY <1>15 DEF Call, loopVars, entryVars
<1>16. CASE Return
  BY <1>16 DEF Return, Repeats, Insert
<1>17. CASE Merge
  BY <1>17 DEF Merge, entryVars
<1>18. CASE Tick
  BY <1>18 DEF Tick, loopVars, entryVars, history
<1>19. CASE UNCHANGED vars
  BY <1>19 DEF vars, loopVars, entryVars, history
<1>20. QED
  BY <1>2, <1>3, <1>4, <1>5, <1>6, <1>7, <1>8, <1>9, <1>10, <1>11, <1>12, <1>13,
     <1>14, <1>15, <1>16, <1>17, <1>18, <1>19
     DEF Next, Worker

(* Every step keeps OrderInv: the clock was read under the mutex, so new
   immediate entries are not older than any in the batch. *)
LEMMA OrderStep == TypeOK /\ Apart /\ DueInv /\ OrderInv /\ [Next]_vars => OrderInv'
<1> SUFFICES ASSUME TypeOK, Apart, DueInv, OrderInv, [Next]_vars PROVE OrderInv'
  OBVIOUS
<1> USE SchedulerAssumption DEF TypeOK, Locked, Unlocked, Forever, Apart, DueInv, OrderInv, Immediate
<1>1. ASSUME NEW t \in Tasks, NEW d \in RemoteDelays \union LocalDelays, NEW p \in Periods,
             pc \in Unlocked, Schedule(t, d, p)
      PROVE  OrderInv'
  BY <1>1 DEF Schedule, Insert, NotifyAll, loopVars
<1>2. CASE RemoteSchedule
  BY <1>1, <1>2 DEF RemoteSchedule
<1>3. CASE LocalSchedule
  BY <1>1, <1>3 DEF LocalSchedule, Unlocked
<1>4. CASE RemoteDrop
  BY <1>4 DEF RemoteDrop, Drop, NotifyAll, loopVars, entryVars
<1>5. CASE LocalDrop
  BY <1>5 DEF LocalDrop, Drop, NotifyAll, loopVars, entryVars
<1>6. CASE Stop
  BY <1>6 DEF Stop, NotifyAll, loopVars, entryVars, history
<1>7. CASE LoopHead
  BY <1>7 DEF LoopHead, IsFirst, entryVars, history
<1>8. CASE Check
  BY <1>8 DEF Check, loopVars, entryVars, history
<1>9. CASE Block
  BY <1>9 DEF Block, loopVars, entryVars, history
<1>10. CASE WakeNotified
  BY <1>10 DEF WakeNotified, loopVars, entryVars, history
<1>11. CASE WakeTimeout
  BY <1>11 DEF WakeTimeout, loopVars, entryVars, history
<1>12. CASE Swap
  BY <1>12 DEF Swap, entryVars, history
<1>13. CASE ReadClock
  BY <1>13 DEF ReadClock, entryVars, history
<1>14. CASE Examine
  BY <1>14 DEF Examine, IsFirst, Alive, Due, entryVars, history
<1>15. CASE Call
  BY <1>15 DEF Call, loopVars, entryVars
<1>16. CASE Return
  BY <1>16 DEF Return, Repeats, Insert
<1>17. CASE Merge
  BY <1>17 DEF Merge, entryVars
<1>18. CASE Tick
  BY <1>18 DEF Tick, loopVars, entryVars, history
<1>19. CASE UNCHANGED vars
  BY <1>19 DEF vars, loopVars, entryVars, history
<1>20. QED
  BY <1>2, <1>3, <1>4, <1>5, <1>6, <1>7, <1>8, <1>9, <1>10, <1>11, <1>12, <1>13,
     <1>14, <1>15, <1>16, <1>17, <1>18, <1>19
     DEF Next, Worker

(* Every step keeps SleepInv when other threads pass no delay. *)
LEMMA SleepStep ==
  ASSUME RemoteDelays \subseteq {0}
  PROVE  TypeOK /\ Apart /\ SleepInv /\ [Next]_vars => SleepInv'
<1> SUFFICES ASSUME TypeOK, Apart, SleepInv, [Next]_vars PROVE SleepInv'
  OBVIOUS
<1> USE SchedulerAssumption DEF TypeOK, Locked, Unlocked, Forever, Apart, SleepInv
<1>1. ASSUME NEW t \in Tasks, NEW p \in Periods, pc \in Unlocked, Schedule(t, 0, p)
      PROVE  SleepInv'
  <2>1. pc' = pc /\ now' = now /\ deadline' = deadline /\ (pc = "wait" => woken')
    BY <1>1 DEF Schedule, NotifyAll, loopVars
  <2>2. \A u \in queue' : (u \in queue /\ at'[u] = at[u]) \/ at'[u] = now
    BY <1>1 DEF Schedule, Insert
  <2>3. QED
    BY <1>1, <2>1, <2>2
<1>2. CASE RemoteSchedule
  <2>1. PICK t \in Tasks, d \in RemoteDelays, p \in Periods : Schedule(t, d, p)
    BY <1>2 DEF RemoteSchedule
  <2>2. d = 0
    OBVIOUS
  <2>3. QED
    BY <1>1, <1>2, <2>1, <2>2 DEF RemoteSchedule
<1>3. CASE LocalSchedule
  BY <1>3 DEF LocalSchedule, Schedule, loopVars
<1>4. CASE RemoteDrop
  BY <1>4 DEF RemoteDrop, Drop, NotifyAll, loopVars, entryVars
<1>5. CASE LocalDrop
  BY <1>5 DEF LocalDrop, Drop, NotifyAll, loopVars, entryVars
<1>6. CASE Stop
  BY <1>6 DEF Stop, NotifyAll, loopVars, entryVars, history
<1>7. CASE LoopHead
  BY <1>7 DEF LoopHead, IsFirst, entryVars, history
<1>8. CASE Check
  BY <1>8 DEF Check, StopWaiting, loopVars, entryVars, history
<1>9. CASE Block
  BY <1>9 DEF Block, loopVars, entryVars, history
<1>10. CASE WakeNotified
  BY <1>10 DEF WakeNotified, loopVars, entryVars, history
<1>11. CASE WakeTimeout
  BY <1>11 DEF WakeTimeout, loopVars, entryVars, history
<1>12. CASE Swap
  BY <1>12 DEF Swap, entryVars, history
<1>13. CASE ReadClock
  BY <1>13 DEF ReadClock, entryVars, history
<1>14. CASE Examine
  BY <1>14 DEF Examine, IsFirst, Alive, Due, entryVars, history
<1>15. CASE Call
  BY <1>15 DEF Call, loopVars, entryVars
<1>16. CASE Return
  BY <1>16 DEF Return, Repeats, Insert
<1>17. CASE Merge
  BY <1>17 DEF Merge, entryVars
<1>18. CASE Tick
  BY <1>18 DEF Tick, loopVars, entryVars, history
<1>19. CASE UNCHANGED vars
  BY <1>19 DEF vars, loopVars, entryVars, history
<1>20. QED
  BY <1>2, <1>3, <1>4, <1>5, <1>6, <1>7, <1>8, <1>9, <1>10, <1>11, <1>12, <1>13,
     <1>14, <1>15, <1>16, <1>17, <1>18, <1>19
     DEF Next, Worker

-----------------------------------------------------------------------------
(* All parts of the invariant hold initially. *)
LEMMA InitHolds ==
  Init => TypeOK /\ Apart /\ DueInv /\ StartsInv /\ RevokedInv /\ OrderInv /\ SleepInv /\ NoSilentLoss
<1> SUFFICES ASSUME Init
             PROVE  TypeOK /\ Apart /\ DueInv /\ StartsInv /\ RevokedInv /\ OrderInv /\ SleepInv /\ NoSilentLoss
  OBVIOUS
<1>1. TypeOK
  <2>1. batch \union kept = {}
    BY DEF Init
  <2>2. MaxTime \in Nat /\ Forever \in Nat
    BY SchedulerAssumption DEF Forever
  <2>3. at \in [Tasks -> Nat] /\ period \in [Tasks -> Nat] /\ delay \in [Tasks -> Nat]
    BY DEF Init
  <2>4. starts \in [Tasks -> Nat] /\ pc \in Locked \union Unlocked
    BY DEF Init, Locked
  <2>5. (cur # NoTask) <=> (pc \in {"call", "run"})
    BY DEF Init
  <2>6. now \in 0..MaxTime /\ batchNow \in 0..MaxTime /\ deadline \in Nat
    BY <2>2 DEF Init
  <2>7. QED
    BY <2>1, <2>3, <2>4, <2>5, <2>6 DEF Init, TypeOK
<1>2. Apart
  BY DEF Init, Apart
<1>3. DueInv /\ RevokedInv /\ NoSilentLoss
  BY DEF Init, DueInv, RevokedInv, NoSilentLoss
<1>4. StartsInv
  BY DEF Init, StartsInv
<1>5. OrderInv /\ SleepInv
  BY SchedulerAssumption DEF Init, OrderInv, SleepInv, Immediate
<1>6. QED
  BY <1>1, <1>2, <1>3, <1>4, <1>5

(* Every variable of the worker loop keeps its type, and an entry is at no *)
(* time in two of the queues that run() moves it between.                  *)
THEOREM TypeCorrect == Spec => []TypeOK
<1>1. Init => TypeOK
  BY InitHolds
<1>2. TypeOK /\ [Next]_vars => TypeOK'
  BY TypeStep
<1>3. QED
  BY <1>1, <1>2, PTL DEF Spec

(* Apart is an invariant. *)
LEMMA ApartAlways == Spec => []Apart
<1>1. Init => Apart
  BY InitHolds
<1>2. TypeOK /\ Apart /\ [Next]_vars => Apart'
  BY ApartStep
<1>3. QED
  BY <1>1, <1>2, TypeCorrect, PTL DEF Spec

(* DueInv is an invariant. *)
LEMMA DueAlways == Spec => []DueInv
<1>1. Init => DueInv
  BY InitHolds
<1>2. TypeOK /\ Apart /\ DueInv /\ [Next]_vars => DueInv'
  BY DueStep
<1>3. QED
  BY <1>1, <1>2, TypeCorrect, ApartAlways, PTL DEF Spec

(* No callback is called before the time it was scheduled for, although    *)
(* run() compares with a clock value it read before the whole batch.       *)
THEOREM NeverEarly == Spec => []NotBeforeDue
<1>1. TypeOK /\ DueInv => NotBeforeDue
  BY DEF TypeOK, DueInv, NotBeforeDue
<1>2. QED
  BY <1>1, TypeCorrect, DueAlways, PTL

(* StartsInv is an invariant. *)
LEMMA StartsAlways == Spec => []StartsInv
<1>1. Init => StartsInv
  BY InitHolds
<1>2. TypeOK /\ Apart /\ StartsInv /\ [Next]_vars => StartsInv'
  BY StartsStep
<1>3. QED
  BY <1>1, <1>2, TypeCorrect, ApartAlways, PTL DEF Spec

(* run() calls a task without a period at most once.                       *)
THEOREM AtMostOnce == Spec => []OneShotOnce
<1>1. TypeOK /\ StartsInv => OneShotOnce
  BY DEF TypeOK, StartsInv, OneShotOnce
<1>2. QED
  BY <1>1, TypeCorrect, StartsAlways, PTL

(* Exchanging _queue for an empty set, walking the batch without the mutex *)
(* and merging the rest loses no entry that std::set accepted, whatever    *)
(* other threads schedule, drop or stop meanwhile.                         *)
THEOREM NothingLost == Spec => []NoSilentLoss
<1>1. Init => NoSilentLoss
  BY InitHolds
<1>2. TypeOK /\ Apart /\ StartsInv /\ NoSilentLoss /\ [Next]_vars => NoSilentLoss'
  BY LossStep
<1>3. QED
  BY <1>1, <1>2, TypeCorrect, ApartAlways, StartsAlways, PTL DEF Spec

(* A task whose Lifetime a callback on the worker thread has dropped is    *)
(* not started any more, not even as part of the batch being walked.       *)
THEOREM DroppedNeverStarts == Spec => RevokedStaysSilent
<1>1. Init => RevokedInv
  BY InitHolds
<1>2. TypeOK /\ Apart /\ RevokedInv /\ [Next]_vars => RevokedInv'
  BY RevokedStep
<1>3. TypeOK /\ RevokedInv /\ [Next]_vars => [\A t \in revoked : starts'[t] = starts[t]]_vars
  <2> SUFFICES ASSUME TypeOK, RevokedInv, Next
               PROVE  \A t \in revoked : starts'[t] = starts[t]
    OBVIOUS
  <2>1. CASE Call
    BY <2>1 DEF Call, TypeOK, RevokedInv
  <2>2. CASE ~Call
    <3>1. starts' = starts
      BY <2>2 DEF Next, Worker, RemoteSchedule, LocalSchedule, Schedule, RemoteDrop, LocalDrop,
                  Drop, Stop, LoopHead, Check, Block, WakeNotified, WakeTimeout, Swap, ReadClock,
                  Examine, Return, Merge, Tick, history
    <3>2. QED
      BY <3>1
  <2>3. QED
    BY <2>1, <2>2
<1>4. QED
  BY <1>1, <1>2, <1>3, TypeCorrect, ApartAlways, PTL DEF Spec, RevokedStaysSilent

(* Tasks without delay start in the order they were scheduled in.          *)
THEOREM InOrder == Spec => []FirstComeFirstServed
<1>1. Init => OrderInv
  BY InitHolds
<1>2. TypeOK /\ Apart /\ DueInv /\ OrderInv /\ [Next]_vars => OrderInv'
  BY OrderStep
<1>3. OrderInv => FirstComeFirstServed
  BY DEF OrderInv, FirstComeFirstServed
<1>4. QED
  BY <1>1, <1>2, <1>3, TypeCorrect, ApartAlways, DueAlways, PTL DEF Spec

(* Where only the worker itself schedules with a delay, as in this program *)
(* (the other threads pass none), it never sleeps past the first entry.    *)
THEOREM SleepsNoLonger ==
  ASSUME RemoteDelays \subseteq {0}
  PROVE  Spec => []NoOversleep
<1>1. Init => SleepInv
  BY InitHolds
<1>2. TypeOK /\ Apart /\ SleepInv /\ [Next]_vars => SleepInv'
  BY SleepStep
<1>3. SleepInv => NoOversleep
  BY DEF SleepInv, NoOversleep
<1>4. QED
  BY <1>1, <1>2, <1>3, TypeCorrect, ApartAlways, PTL DEF Spec

-----------------------------------------------------------------------------
(* Scheduler implements TaskBoard: each step of the worker or of a caller   *)
(* is a step of the board or leaves it as it is.  What the steps rely on:  *)
StepInv == TypeOK /\ Apart /\ DueInv /\ StartsInv /\ RevokedInv /\ OrderInv

(* OrderInv and RevokedInv are invariants, as the proofs of InOrder and    *)
(* DroppedNeverStarts show.                                                *)
LEMMA StepInvAlways == Spec => []StepInv
<1>1. Init => RevokedInv /\ OrderInv
  BY InitHolds
<1>2. TypeOK /\ Apart /\ DueInv /\ RevokedInv /\ OrderInv /\ [Next]_vars => RevokedInv' /\ OrderInv'
  BY RevokedStep, OrderStep
<1>3. TypeOK /\ Apart /\ DueInv /\ StartsInv /\ RevokedInv /\ OrderInv => StepInv
  BY DEF StepInv
<1>4. QED
  BY <1>1, <1>2, <1>3, TypeCorrect, ApartAlways, DueAlways, StartsAlways, PTL DEF Spec

(* schedule() posts the task, or is refused by a task due at that time.    *)
LEMMA ScheduleMaps ==
  ASSUME StepInv, NEW t \in Tasks, NEW d \in RemoteDelays \union LocalDelays, NEW p \in Periods,
         pc \in Unlocked, Schedule(t, d, p)
  PROVE  Board!Post(t, d, p)
<1> USE SchedulerAssumption DEF StepInv, TypeOK, Apart
<1>1. d \in Nat /\ p \in Nat /\ now \in Nat
  OBVIOUS
<1>2. t \in Tasks \ issued /\ issued' = issued \union {t} /\ held' = held \union {t}
  BY DEF Schedule
<1>3. at' = [at EXCEPT ![t] = now + d] /\ period' = [period EXCEPT ![t] = p]
      /\ delay' = [delay EXCEPT ![t] = d]
  BY DEF Schedule
<1>4. {u \in issued : Immediate(u)}'
          = IF d = 0 /\ p = 0 THEN {u \in issued : Immediate(u)} \union {t} ELSE {u \in issued : Immediate(u)}
  <2>1. \A u \in issued : Immediate(u)' <=> Immediate(u)
    BY <1>2, <1>3 DEF Immediate
  <2>2. Immediate(t)' <=> (d = 0 /\ p = 0)
    BY <1>2, <1>3 DEF Immediate
  <2>3. QED
    BY <1>2, <2>1, <2>2
<1>5. Upcoming' = (queue' \union batch \union kept)
                     \union {u \in {cur} \ {NoTask} : pc = "call" \/ period[u] > 0}
  BY <1>2, <1>3 DEF Schedule, loopVars, Upcoming
<1>6. \/ Upcoming' = Upcoming \union {t}
      \/ Board!Refusable(t, now + d) /\ Upcoming' = Upcoming
  <2>1. CASE Clashes(t, now + d)
    <3>1. Board!Refusable(t, now + d)
      BY <2>1 DEF Clashes, Board!Refusable, Upcoming
    <3>2. QED
      BY <2>1, <3>1, <1>5 DEF Schedule, Insert, Upcoming
  <2>2. CASE ~Clashes(t, now + d)
    BY <2>2, <1>5 DEF Schedule, Insert, Upcoming
  <2>3. QED
    BY <2>1, <2>2
<1>7. UNCHANGED <<now, starts, revoked, stop>>
  BY DEF Schedule
<1>8. QED
  BY <1>2, <1>3, <1>4, <1>6, <1>7 DEF Board!Post

(* The callback is called: the board starts the task.                      *)
LEMMA CallMaps == StepInv /\ Call => Board!Start(cur)
<1> SUFFICES ASSUME StepInv, Call PROVE Board!Start(cur)
  OBVIOUS
<1> USE SchedulerAssumption DEF StepInv, TypeOK, Apart
<1>1. pc = "call" /\ cur \in Tasks /\ cur # NoTask
  BY DEF Call
<1>2. cur \in Upcoming \ revoked
  BY <1>1 DEF Upcoming, RevokedInv
<1>3. at[cur] <= now
  BY <1>1 DEF DueInv
<1>4. cur \in {u \in issued : Immediate(u)} =>
          \A u \in Upcoming \intersect {x \in issued : Immediate(x)} : at[cur] <= at[u]
  BY <1>1 DEF OrderInv, Upcoming
<1>5. Upcoming' = IF period[cur] = 0 THEN Upcoming \ {cur} ELSE Upcoming
  BY <1>1 DEF Call, loopVars, entryVars, Upcoming
<1>6. {u \in issued : Immediate(u)}' = {u \in issued : Immediate(u)}
  BY DEF Call, entryVars, Immediate
<1>7. starts' = [starts EXCEPT ![cur] = @ + 1] /\ UNCHANGED <<now, issued, at, period, held, revoked, stop>>
  BY DEF Call, entryVars
<1>8. QED
  BY <1>2, <1>3, <1>4, <1>5, <1>6, <1>7 DEF Board!Start, Board!taskVars

(* What the board is made of, apart from the tasks on it.                  *)
BoardRest == <<now, issued, at, delay, period, starts, held, revoked, stop>>

(* The tasks without delay are then the same.                              *)
LEMMA RestKept == UNCHANGED BoardRest => {u \in issued : Immediate(u)}' = {u \in issued : Immediate(u)}
  BY DEF BoardRest, Immediate

(* A step that only takes entries away is a step of the board.             *)
LEMMA LeaveMaps ==
  ASSUME UNCHANGED BoardRest, NEW S \in SUBSET Upcoming, Upcoming' = Upcoming \ S,
         \A t \in S : t \notin held \/ stop \/ \E u \in Upcoming' : at[u] = at[t]
  PROVE  Board!Next
<1>1. Board!Leave(S)
  BY RestKept DEF BoardRest, Board!Leave, Board!taskVars
<1>2. QED
  BY <1>1 DEF Board!Next

(* A step that only moves entries is none.                                 *)
LEMMA StutterMaps ==
  ASSUME UNCHANGED BoardRest, Upcoming' = Upcoming
  PROVE  UNCHANGED Board!vars
BY RestKept DEF BoardRest, Board!vars, Board!taskVars

(* Returning from the callback: a periodic task is put back for its next   *)
(* time, or refused; after stop() it leaves the board.                     *)
LEMMA ReturnMaps == StepInv /\ Return => [Board!Next]_(Board!vars)
<1> SUFFICES ASSUME StepInv, Return PROVE [Board!Next]_(Board!vars)
  OBVIOUS
<1> USE SchedulerAssumption DEF StepInv, TypeOK, Apart
<1>1. pc = "run" /\ cur \in Tasks /\ cur # NoTask /\ pc' = "examine" /\ cur' = NoTask
  BY DEF Return
<1>2. UNCHANGED <<now, issued, delay, period, starts, held, revoked, stop, batch, kept>>
  BY DEF Return
<1>3. Upcoming' = queue' \union batch \union kept
  BY <1>1, <1>2 DEF Upcoming
<1>4. Upcoming = queue \union batch \union kept \union (IF period[cur] > 0 THEN {cur} ELSE {})
  BY <1>1 DEF Upcoming
<1>5. CASE Repeats(cur)
  <2>1. period[cur] > 0 /\ starts[cur] > 0 /\ cur \in Upcoming
    BY <1>1, <1>4, <1>5 DEF Repeats, StartsInv
  <2>2. at' = [at EXCEPT ![cur] = @ + period[cur]] /\ at'[cur] = at[cur] + period[cur]
    BY <1>1, <1>5 DEF Return
  <2>3. \/ Upcoming' = Upcoming
        \/ Board!Refusable(cur, at'[cur]) /\ Upcoming' = Upcoming \ {cur}
    <3>1. CASE Clashes(cur, at[cur] + period[cur])
      <4>1. queue' = queue
        BY <1>5, <3>1 DEF Return, Insert
      <4>2. Board!Refusable(cur, at'[cur])
        BY <2>2, <3>1 DEF Clashes, Board!Refusable, Upcoming
      <4>3. QED
        BY <1>3, <1>4, <2>1, <4>1, <4>2
    <3>2. CASE ~Clashes(cur, at[cur] + period[cur])
      <4>1. queue' = queue \union {cur}
        BY <1>5, <3>2 DEF Return, Insert
      <4>2. QED
        BY <1>3, <1>4, <2>1, <4>1
    <3>3. QED
      BY <3>1, <3>2
  <2>4. {u \in issued : Immediate(u)}' = {u \in issued : Immediate(u)}
    BY <1>2 DEF Immediate
  <2>5. Board!Renew(cur)
    BY <1>2, <2>1, <2>2, <2>3, <2>4 DEF Board!Renew
  <2>6. QED
    BY <1>1, <2>5 DEF Board!Next
<1>6. CASE ~Repeats(cur)
  <2>1. UNCHANGED <<queue, at>>
    BY <1>6 DEF Return
  <2>2. UNCHANGED BoardRest
    BY <1>2, <2>1 DEF BoardRest
  <2>3. CASE period[cur] > 0
    <3>1. stop /\ Upcoming' = Upcoming \ {cur} /\ {cur} \in SUBSET Upcoming
      BY <1>1, <1>3, <1>4, <1>6, <2>1, <2>3 DEF Repeats
    <3>2. QED
      BY <2>2, <3>1, LeaveMaps
  <2>4. CASE ~(period[cur] > 0)
    BY <1>3, <1>4, <2>1, <2>2, <2>4, StutterMaps
  <2>5. QED
    BY <2>3, <2>4
<1>7. QED
  BY <1>5, <1>6

(* One turn of the loop: an entry that is erased without being called is   *)
(* dropped, or the scheduler is stopped.                                   *)
LEMMA ExamineMaps == StepInv /\ Examine => [Board!Next]_(Board!vars)
<1> SUFFICES ASSUME StepInv, Examine PROVE [Board!Next]_(Board!vars)
  OBVIOUS
<1> USE SchedulerAssumption DEF StepInv, TypeOK, Apart
<1>1. UNCHANGED BoardRest /\ queue' = queue
  BY DEF Examine, BoardRest, entryVars, history
<1>2. PICK t \in batch :
          /\ batch' = batch \ {t}
          /\ \/ ~Alive(t) /\ UNCHANGED <<pc, kept, cur>>
             \/ /\ Alive(t) /\ ~Due(t)
                /\ kept' = IF stop THEN kept ELSE kept \union {t}
                /\ UNCHANGED <<pc, cur>>
             \/ Alive(t) /\ Due(t) /\ cur' = t /\ pc' = "call" /\ UNCHANGED kept
  BY DEF Examine
<1>3. pc = "examine" /\ cur = NoTask /\ t \in Tasks /\ t # NoTask
  BY DEF Examine
<1>4. Upcoming = queue \union batch \union kept /\ {t} \in SUBSET Upcoming
  BY <1>3 DEF Upcoming
<1>5. CASE ~Alive(t) /\ UNCHANGED <<pc, kept, cur>>
  <2>1. Upcoming' = Upcoming \ {t}
    BY <1>1, <1>2, <1>3, <1>4, <1>5 DEF Upcoming
  <2>2. \A u \in {t} : u \notin held \/ stop \/ \E v \in Upcoming' : at[v] = at[u]
    BY <1>5 DEF Alive
  <2>3. QED
    BY <1>1, <1>4, <2>1, <2>2, LeaveMaps
<1>6. CASE kept' = (IF stop THEN kept ELSE kept \union {t}) /\ UNCHANGED <<pc, cur>>
  <2>1. Upcoming' = queue \union (batch \ {t}) \union kept'
    BY <1>1, <1>2, <1>3, <1>6 DEF Upcoming
  <2>2. CASE stop
    <3>1. Upcoming' = Upcoming \ {t}
      BY <1>4, <1>6, <2>1, <2>2
    <3>2. QED
      BY <1>1, <1>4, <2>2, <3>1, LeaveMaps
  <2>3. CASE ~stop
    <3>1. Upcoming' = Upcoming
      BY <1>4, <1>6, <2>1, <2>3
    <3>2. QED
      BY <1>1, <3>1, StutterMaps
  <2>4. QED
    BY <2>2, <2>3
<1>7. CASE cur' = t /\ pc' = "call" /\ UNCHANGED kept
  <2>1. Upcoming' = Upcoming
    BY <1>1, <1>2, <1>3, <1>4, <1>7 DEF Upcoming
  <2>2. QED
    BY <1>1, <2>1, StutterMaps
<1>8. QED
  BY <1>2, <1>5, <1>6, <1>7

(* The entries kept back return to the queue but for those it refuses.     *)
LEMMA MergeMaps == StepInv /\ Merge => Board!Next
<1> SUFFICES ASSUME StepInv, Merge PROVE Board!Next
  OBVIOUS
<1> USE SchedulerAssumption DEF StepInv, TypeOK, Apart
<1> DEFINE refused == {t \in kept : Clashes(t, at[t])}
<1>1. UNCHANGED BoardRest
  BY DEF Merge, BoardRest, entryVars
<1>2. batch = {} /\ batch' = {} /\ cur = NoTask /\ cur' = NoTask /\ kept' = {}
      /\ queue' = queue \union (kept \ refused)
  BY DEF Merge
<1>3. Upcoming = queue \union kept /\ Upcoming' = queue \union (kept \ refused)
  BY <1>2 DEF Upcoming
<1>4. refused \in SUBSET Upcoming /\ Upcoming' = Upcoming \ refused
  BY <1>3
<1>5. \A t \in refused : \E u \in Upcoming' : at[u] = at[t]
  BY <1>3 DEF Clashes
<1>6. QED
  BY <1>1, <1>4, <1>5, LeaveMaps

(* Every step of the scheduler is one of the board, or none.               *)
LEMMA StepMaps == StepInv /\ [Next]_vars => [Board!Next]_(Board!vars)
<1> SUFFICES ASSUME StepInv, [Next]_vars PROVE [Board!Next]_(Board!vars)
  OBVIOUS
<1> USE SchedulerAssumption DEF StepInv
<1>1. CASE RemoteSchedule
  <2>1. PICK t \in Tasks, d \in RemoteDelays, p \in Periods : pc \in Unlocked /\ Schedule(t, d, p)
    BY <1>1 DEF RemoteSchedule
  <2>2. Board!Post(t, d, p)
    BY <2>1, ScheduleMaps
  <2>3. QED
    BY <2>2 DEF Board!Next
<1>2. CASE LocalSchedule
  <2>1. PICK t \in Tasks, d \in LocalDelays, p \in Periods : pc \in Unlocked /\ Schedule(t, d, p)
    BY <1>2 DEF LocalSchedule, Unlocked
  <2>2. Board!Post(t, d, p)
    BY <2>1, ScheduleMaps
  <2>3. QED
    BY <2>2 DEF Board!Next
<1>3. ASSUME NEW t \in Tasks, Drop(t), revoked' \in {revoked, revoked \union {t}}
      PROVE  Board!Next
  <2>1. Upcoming' = Upcoming /\ {u \in issued : Immediate(u)}' = {u \in issued : Immediate(u)}
    BY <1>3 DEF Drop, loopVars, entryVars, Upcoming, Immediate
  <2>2. Board!Drop(t)
    BY <1>3, <2>1 DEF Drop, entryVars, Board!Drop, Board!taskVars
  <2>3. QED
    BY <2>2 DEF Board!Next
<1>4. CASE RemoteDrop \/ LocalDrop
  BY <1>3, <1>4 DEF RemoteDrop, LocalDrop
<1>5. CASE Stop
  <2>1. Upcoming' = Upcoming /\ {u \in issued : Immediate(u)}' = {u \in issued : Immediate(u)}
    BY <1>5 DEF Stop, loopVars, entryVars, history, Upcoming, Immediate
  <2>2. Board!Close
    BY <1>5, <2>1 DEF Stop, entryVars, history, Board!Close, Board!taskVars
  <2>3. QED
    BY <2>2 DEF Board!Next
<1>6. CASE LoopHead \/ Check \/ Block \/ WakeNotified \/ WakeTimeout \/ Swap \/ ReadClock
  <2>1. UNCHANGED BoardRest
    BY <1>6 DEF LoopHead, Check, Block, WakeNotified, WakeTimeout, Swap, ReadClock, BoardRest,
                loopVars, entryVars, history
  <2>2. cur = NoTask /\ cur' = NoTask
    BY <1>6 DEF LoopHead, Check, Block, WakeNotified, WakeTimeout, Swap, ReadClock, TypeOK, loopVars
  <2>3. queue' \union batch' \union kept' = queue \union batch \union kept
    <3>1. CASE Swap
      BY <3>1 DEF Swap, TypeOK, Locked, Unlocked
    <3>2. CASE ~Swap
      BY <1>6, <3>2 DEF LoopHead, Check, Block, WakeNotified, WakeTimeout, ReadClock, loopVars
    <3>3. QED
      BY <3>1, <3>2
  <2>4. QED
    BY <2>1, <2>2, <2>3, StutterMaps DEF Upcoming
<1>7. CASE Examine
  BY <1>7, ExamineMaps
<1>8. CASE Call
  BY <1>8, CallMaps DEF Call, TypeOK, Board!Next
<1>9. CASE Return
  BY <1>9, ReturnMaps
<1>10. CASE Merge
  BY <1>10, MergeMaps
<1>11. CASE Tick
  <2>1. Upcoming' = Upcoming /\ {u \in issued : Immediate(u)}' = {u \in issued : Immediate(u)}
    BY <1>11 DEF Tick, loopVars, entryVars, history, Upcoming, Immediate
  <2>2. Board!Tick
    BY <1>11, <2>1 DEF Tick, entryVars, history, Board!Tick, Board!taskVars
  <2>3. QED
    BY <2>2 DEF Board!Next
<1>12. CASE UNCHANGED vars
  <2>1. UNCHANGED BoardRest /\ Upcoming' = Upcoming
    BY <1>12 DEF vars, loopVars, entryVars, history, BoardRest, Upcoming
  <2>2. QED
    BY <2>1, StutterMaps
<1>13. QED
  BY <1>1, <1>2, <1>4, <1>5, <1>6, <1>7, <1>8, <1>9, <1>10, <1>11, <1>12 DEF Next, Worker

(* A scheduler that nobody has used is an empty board.                     *)
LEMMA InitMaps == Init => Board!Init
<1> SUFFICES ASSUME Init PROVE Board!Init
  OBVIOUS
<1>1. {u \in issued : Immediate(u)} = {} /\ Upcoming = {}
  BY DEF Init, Upcoming
<1>2. QED
  BY <1>1 DEF Init, Board!Init

(* The queue, the local queue of run(), the mutex that is not held while   *)
(* callbacks run, and the notifications that others send implement a board *)
(* from which each task is started when it is due, in order, once, and     *)
(* never after a task has revoked it.                                      *)
THEOREM Refinement == Spec => ImplementsTaskBoard
<1>1. Init => Board!Init
  BY InitMaps
<1>2. StepInv /\ [Next]_vars => [Board!Next]_(Board!vars)
  BY StepMaps
<1>3. QED
  BY <1>1, <1>2, StepInvAlways, PTL DEF Spec, Board!Spec, ImplementsTaskBoard
=============================================================================
