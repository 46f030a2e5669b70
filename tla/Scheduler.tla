------------------------------ MODULE Scheduler ------------------------------
(***************************************************************************)
(* The task scheduler of src/src/async/scheduler.cpp: one worker thread    *)
(* that executes SchedulerImpl::run() and any number of other threads that *)
(* call schedule(), drop a Lifetime or destroy the Thread.                 *)
(*                                                                         *)
(* A task is one call of schedule().  Its Entry lives in `queue` (the      *)
(* member _queue), in `batch` or `kept` (the local queue of run(): entries *)
(* not examined yet, entries examined and left in place) or is `cur`.      *)
(*                                                                         *)
(* The mutex is not a variable: the worker holds it exactly at the control *)
(* points in Locked, and every other critical section is a single step     *)
(* that is disabled there.  schedule() is one step although it notifies    *)
(* after unlocking: until the notification a worker that sleeps goes on    *)
(* sleeping, and one that does not will look at _queue again, under the    *)
(* mutex, before it sleeps.  stop() takes no mutex and can fall anywhere.  *)
(***************************************************************************)
EXTENDS Integers, FiniteSets

CONSTANTS
    Tasks,          \* the calls of schedule() that may happen
    NoTask,         \* what `cur` is when the worker runs no task
    MaxTime,        \* bound: the clock stops here
    RemoteDelays,   \* the Options::delay other threads pass
    LocalDelays,    \* the Options::delay tasks pass when they schedule
    Periods         \* the Options::period in use; 0 is a one-shot task

ASSUME SchedulerAssumption ==
    /\ NoTask \notin Tasks
    /\ MaxTime \in Nat
    /\ RemoteDelays \subseteq Nat
    /\ LocalDelays \subseteq Nat
    /\ Periods \subseteq Nat

VARIABLES
    now,        \* system_clock::now()
    pc,         \* where the worker is in run()
    queue,      \* SchedulerImpl::_queue
    batch,      \* local queue of run(), from `it` to the end
    kept,       \* local queue of run(), what `it` has passed and left in place
    batchNow,   \* local `now` of run()
    cur,        \* the entry whose callback is being called
    deadline,   \* what the current wait was called with
    woken,      \* a notification has reached the sleeping worker
    stop,       \* SchedulerImpl::_stop
    at,         \* Entry::at
    period,     \* Entry::period
    delay,      \* Options::delay, as passed
    held,       \* tasks whose Lifetime somebody still holds
    issued,     \* history: tasks handed to schedule()
    starts,     \* history: how often each callback was called
    revoked,    \* history: tasks whose Lifetime the worker itself dropped
    discarded   \* history: entries std::set::insert refused

entryVars == <<at, period, delay>>
loopVars  == <<batch, kept, batchNow, cur, deadline>>
history   == <<issued, starts, revoked, discarded>>
vars == <<now, pc, queue, loopVars, woken, stop, entryVars, held, history>>

-----------------------------------------------------------------------------
(* The wait without a deadline, a point in time the clock never reaches.   *)
Forever == MaxTime + 1

Locked   == {"head", "check", "block", "swap"}
Unlocked == {"wait", "unlocked", "examine", "call", "run", "done"}

(* Entry::operator< orders by `at` alone, so two entries with the same `at`  *)
(* are the same element to the set and the second one is not inserted.     *)
Clashes(t, time) == \E u \in queue \ {t} : at[u] = time

Insert(t, time) ==
    IF Clashes(t, time)
    THEN /\ discarded' = discarded \union {t}
         /\ UNCHANGED queue
    ELSE /\ queue' = queue \union {t}
         /\ UNCHANGED discarded

IsFirst(t, S) == t \in S /\ \A u \in S : at[t] <= at[u]

(* condition_variable::notify_all(): only a sleeping worker hears it.      *)
NotifyAll_Missing == UNCHANGED woken

NotifyAll == woken' = (woken \/ pc = "wait")

(* The predicate of both waits.                                            *)
StopWaiting == stop \/ \E t \in queue : at[t] <= now

-----------------------------------------------------------------------------
Init ==
    /\ now = 0
    /\ pc = "head"
    /\ queue = {} /\ batch = {} /\ kept = {}
    /\ batchNow = 0
    /\ cur = NoTask
    /\ deadline = Forever
    /\ woken = FALSE
    /\ stop = FALSE
    /\ at = [t \in Tasks |-> 0]
    /\ period = [t \in Tasks |-> 0]
    /\ delay = [t \in Tasks |-> 0]
    /\ held = {} /\ issued = {} /\ revoked = {} /\ discarded = {}
    /\ starts = [t \in Tasks |-> 0]

(* schedule(fn, {delay, period}), called by a task or by another thread.   *)
Schedule(t, d, p) ==
    /\ t \notin issued
    /\ now + d <= MaxTime
    /\ at' = [at EXCEPT ![t] = now + d]
    /\ period' = [period EXCEPT ![t] = p]
    /\ delay' = [delay EXCEPT ![t] = d]
    /\ Insert(t, now + d)
    /\ held' = held \union {t}
    /\ issued' = issued \union {t}
    /\ NotifyAll
    /\ UNCHANGED <<now, pc, loopVars, stop, starts, revoked>>

RemoteSchedule ==
    /\ pc \in Unlocked
    /\ \E t \in Tasks, d \in RemoteDelays, p \in Periods : Schedule(t, d, p)

LocalSchedule ==
    /\ pc = "run"
    /\ \E t \in Tasks, d \in LocalDelays, p \in Periods : Schedule(t, d, p)

(* The last copy of a Lifetime goes away: the entry's weak_ptr expires and *)
(* ~CVNotifier notifies.  No mutex is taken.  The worker does it in a      *)
(* callback, or where erase() destroys what a finished callback captured.  *)
Drop(t) ==
    /\ t \in held
    /\ held' = held \ {t}
    /\ NotifyAll
    /\ UNCHANGED <<now, pc, queue, loopVars, stop, entryVars, issued, starts, discarded>>

RemoteDrop == \E t \in Tasks : Drop(t) /\ UNCHANGED revoked

LocalDrop ==
    /\ pc \in {"run", "examine"}
    /\ \E t \in Tasks : Drop(t) /\ revoked' = revoked \union {t}

(* SchedulerImpl::stop(), called by ~ThreadImpl; no mutex either.          *)
Stop ==
    /\ ~stop
    /\ stop' = TRUE
    /\ NotifyAll
    /\ UNCHANGED <<now, pc, queue, loopVars, entryVars, held, history>>

-----------------------------------------------------------------------------
(* The worker: one step per segment of run() that others can observe.      *)

(* Choose between wait() and wait_until().  The time point is that of the  *)
(* first entry now; later insertions do not move it.                       *)
LoopHead ==
    /\ pc = "head"
    /\ \/ queue = {} /\ deadline' = Forever
       \/ \E t \in queue : IsFirst(t, queue) /\ deadline' = at[t]
    /\ pc' = "check"
    /\ UNCHANGED <<now, queue, batch, kept, batchNow, cur, woken, stop, entryVars, held, history>>

Check ==
    /\ pc = "check"
    /\ pc' = IF StopWaiting THEN "swap" ELSE "block"
    /\ UNCHANGED <<now, queue, loopVars, woken, stop, entryVars, held, history>>

(* Falling asleep and releasing the mutex is atomic, but comes after the   *)
(* evaluation of the predicate.                                            *)
Block ==
    /\ pc = "block"
    /\ pc' = "wait"
    /\ woken' = FALSE
    /\ UNCHANGED <<now, queue, loopVars, stop, entryVars, held, history>>

(* Notified: the mutex is taken again and the predicate evaluated.         *)
WakeNotified ==
    /\ pc = "wait" /\ woken
    /\ pc' = "check"
    /\ woken' = FALSE
    /\ UNCHANGED <<now, queue, loopVars, stop, entryVars, held, history>>

(* Timed out: wait_until returns whatever the predicate says.              *)
WakeTimeout ==
    /\ pc = "wait" /\ now >= deadline
    /\ pc' = "swap"
    /\ woken' = FALSE
    /\ UNCHANGED <<now, queue, loopVars, stop, entryVars, held, history>>

(* Leave the loop, or take the whole queue and unlock.  (The wait is over:  *)
(* `deadline` is reset, as is `batchNow` after the batch, to save states.) *)
Swap ==
    /\ pc = "swap"
    /\ deadline' = Forever
    /\ IF stop /\ queue = {}
       THEN pc' = "done" /\ UNCHANGED <<queue, batch>>
       ELSE pc' = "unlocked" /\ batch' = queue /\ queue' = {}
    /\ UNCHANGED <<now, kept, batchNow, cur, woken, stop, entryVars, held, history>>

ReadClock ==
    /\ pc = "unlocked"
    /\ pc' = "examine"
    /\ batchNow' = now
    /\ UNCHANGED <<now, queue, batch, kept, cur, deadline, woken, stop, entryVars, held, history>>

Due(t) == at[t] <= batchNow

(* sentinel.lock() *)
Alive(t) == t \in held

(* One turn of the for loop up to the call of the callback.                *)
Examine ==
    /\ pc = "examine"
    /\ \E t \in batch :
          /\ IsFirst(t, batch)
          /\ batch' = batch \ {t}
          /\ \/ ~Alive(t) /\ UNCHANGED <<pc, kept, cur>>
             \/ /\ Alive(t) /\ ~Due(t)
                /\ kept' = IF stop THEN kept ELSE kept \union {t}
                /\ UNCHANGED <<pc, cur>>
             \/ /\ Alive(t) /\ Due(t)
                /\ cur' = t
                /\ pc' = "call"
                /\ UNCHANGED kept
    /\ UNCHANGED <<now, queue, batchNow, deadline, woken, stop, entryVars, held, history>>

Call ==
    /\ pc = "call"
    /\ pc' = "run"
    /\ starts' = [starts EXCEPT ![cur] = @ + 1]
    /\ UNCHANGED <<now, queue, loopVars, woken, stop, entryVars, held, issued, revoked, discarded>>

(* The callback returns; scheduleNext() puts a copy of a periodic entry    *)
(* back, one period after the time it was due.                             *)
Repeats(t) == ~stop /\ period[t] > 0

Return ==
    /\ pc = "run"
    /\ pc' = "examine"
    /\ cur' = NoTask
    /\ IF Repeats(cur)
       THEN /\ Insert(cur, at[cur] + period[cur])
            /\ at' = [at EXCEPT ![cur] = @ + period[cur]]
       ELSE UNCHANGED <<queue, at, discarded>>
    /\ UNCHANGED <<now, batch, kept, batchNow, deadline, woken, stop, period, delay, held,
                   issued, starts, revoked>>

(* The end of the batch: lock, and put the entries that were kept back.    *)
Merge_Overwrites ==
    /\ pc = "examine" /\ batch = {}
    /\ pc' = "head"
    /\ kept' = {}
    /\ batchNow' = 0
    /\ queue' = kept
    /\ UNCHANGED <<now, batch, cur, deadline, woken, stop, entryVars, held, history>>

Merge ==
    /\ pc = "examine" /\ batch = {}
    /\ pc' = "head"
    /\ kept' = {}
    /\ batchNow' = 0
    /\ LET refused == {t \in kept : Clashes(t, at[t])} IN
       /\ queue' = queue \union (kept \ refused)
       /\ discarded' = discarded \union refused
    /\ UNCHANGED <<now, batch, cur, deadline, woken, stop, entryVars, held,
                   issued, starts, revoked>>

Worker ==
    \/ LoopHead \/ Check \/ Block \/ WakeNotified \/ WakeTimeout
    \/ Swap \/ ReadClock \/ Examine \/ Call \/ Return \/ Merge

Tick ==
    /\ now < MaxTime
    /\ now' = now + 1
    /\ UNCHANGED <<pc, queue, loopVars, woken, stop, entryVars, held, history>>

Next ==
    \/ RemoteSchedule \/ LocalSchedule
    \/ RemoteDrop \/ LocalDrop
    \/ Stop
    \/ Worker
    \/ Tick

Spec == Init /\ [][Next]_vars

(* Threads that can run do run, callbacks return, and the clock advances.  *)
FairSpec == Spec /\ WF_vars(Worker) /\ WF_vars(Tick)

-----------------------------------------------------------------------------
(* Where a task that may still be started is.                              *)
Pending == queue \union batch \union kept \union {cur}

(* Every variable has its type; there is a current task exactly while a    *)
(* callback is called, and a local queue only while the mutex is free.     *)
TypeOK ==
    /\ now \in 0..MaxTime /\ batchNow \in 0..MaxTime
    /\ pc \in Locked \union Unlocked
    /\ queue \subseteq Tasks /\ batch \subseteq Tasks /\ kept \subseteq Tasks
    /\ cur \in Tasks \union {NoTask}
    /\ (cur # NoTask) <=> (pc \in {"call", "run"})
    /\ (batch \union kept # {}) => (pc \in Unlocked \ {"wait", "done"})
    /\ deadline \in Nat
    /\ woken \in BOOLEAN /\ stop \in BOOLEAN
    /\ at \in [Tasks -> Nat] /\ period \in [Tasks -> Nat] /\ delay \in [Tasks -> Nat]
    /\ held \subseteq issued /\ issued \subseteq Tasks
    /\ revoked \subseteq Tasks /\ discarded \subseteq Tasks
    /\ starts \in [Tasks -> Nat]

(* No callback is called before now() + delay, nor a periodic one before   *)
(* its next period, although the clock is read once for a whole batch.     *)
NotBeforeDue == pc \in {"call", "run"} => at[cur] <= now

(* A one-shot callback is called at most once: the moves of its entry      *)
(* between _queue and the local queue of run() never copy it.              *)
OneShotOnce == \A t \in issued : period[t] = 0 => starts[t] <= 1

(* What all code on the worker thread relies on when it resets a Lifetime  *)
(* (`state.work = ...`, `_render = ...`): once a callback has dropped the  *)
(* Lifetime of a task, also of one in the batch being processed, that task *)
(* is never started again.                                                 *)
RevokedStaysSilent == [][\A t \in revoked : starts'[t] = starts[t]]_vars

(* One-shot tasks without delay start in the order they were scheduled in, *)
(* across threads and batches: what still waits was scheduled no earlier   *)
(* than what runs.  (The clock is read under the mutex, so that is the     *)
(* order of `at`.)                                                         *)
Immediate(t) == t \in issued /\ delay[t] = 0 /\ period[t] = 0

FirstComeFirstServed ==
    (cur # NoTask /\ Immediate(cur)) =>
        \A t \in queue \union batch \union kept : Immediate(t) => at[cur] <= at[t]

(* Until stop(), a task whose Lifetime is held and which has not run, or   *)
(* is periodic, is still in one of the queues, unless std::set refused it  *)
(* because an entry with the very same time point was there.               *)
NoSilentLoss ==
    \A t \in held \ discarded :
        (starts[t] = 0 \/ period[t] > 0) => stop \/ t \in Pending

(* A worker that sleeps with no notification on its way will wake up for   *)
(* the first entry of the queue: wait_until was called with a time point   *)
(* that is not later than any `at`.                                        *)
NoOversleep == (pc = "wait" /\ ~woken) => \A t \in queue : deadline <= at[t]

(* What callers are promised: a task is on the board until its callback is *)
(* called for the last time, wherever its entry is.                        *)
Upcoming == queue \union batch \union kept \union
                {t \in {cur} \ {NoTask} : pc = "call" \/ period[t] > 0}

Board == INSTANCE TaskBoard WITH
             Delays <- RemoteDelays \union LocalDelays, posted <- issued,
             board <- Upcoming, due <- at, prompt <- {t \in issued : Immediate(t)},
             kept <- held, closed <- stop

(* The scheduler implements the board: each step of the worker, with the   *)
(* mutex or without it, is one of the board's steps or none.               *)
ImplementsTaskBoard == Board!Spec

(* Every task whose Lifetime is kept is called at last, or stop() comes.   *)
DueTaskRuns ==
    \A t \in Tasks :
        (t \in held /\ starts[t] = 0) ~>
            (starts[t] > 0 \/ t \notin held \/ t \in discarded \/ stop)

(* ~ThreadImpl joins the worker after stop(): it returns, unless stop()    *)
(* fell between the worker's look at _stop and its sleep, when there is    *)
(* nobody to hear the notification.                                        *)
StopReturnsUnlessMissed == <>(stop /\ pc = "block") \/ (stop ~> (pc = "done"))
=============================================================================
