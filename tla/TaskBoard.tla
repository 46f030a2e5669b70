------------------------------ MODULE TaskBoard ------------------------------
(***************************************************************************)
(* What async::Scheduler (src/src/async/scheduler.h) promises to those who *)
(* schedule tasks, with nothing of how it is done: a board of tasks, each  *)
(* with the time it is due at.  A task is started when it is due, unless   *)
(* it has left the board before.                                           *)
(***************************************************************************)
EXTENDS Integers

CONSTANTS
    Tasks,      \* the calls of schedule() that may happen
    Delays,     \* Options::delay
    Periods     \* Options::period; 0 is a one-shot task

VARIABLES
    now,        \* the clock
    posted,     \* tasks handed to schedule()
    board,      \* tasks that are still to be started
    due,        \* when
    prompt,     \* tasks without delay and period
    period,     \* Options::period
    starts,     \* how often a task was started
    kept,       \* tasks whose Lifetime somebody holds
    revoked,    \* tasks whose Lifetime was dropped by a task
    closed      \* the scheduler is being destroyed

taskVars == <<posted, due, prompt, period>>
vars == <<now, taskVars, board, starts, kept, revoked, closed>>

Init ==
    /\ now = 0
    /\ posted = {} /\ board = {} /\ prompt = {} /\ kept = {} /\ revoked = {}
    /\ due = [t \in Tasks |-> 0]
    /\ period = [t \in Tasks |-> 0]
    /\ starts = [t \in Tasks |-> 0]
    /\ closed = FALSE

(* Two tasks that are due at the very same time: the second is refused.    *)
Refusable(t, time) == \E u \in board \ {t} : due[u] = time

Post(t, d, p) ==
    /\ t \in Tasks \ posted
    /\ posted' = posted \union {t}
    /\ due' = [due EXCEPT ![t] = now + d]
    /\ period' = [period EXCEPT ![t] = p]
    /\ prompt' = IF d = 0 /\ p = 0 THEN prompt \union {t} ELSE prompt
    /\ kept' = kept \union {t}
    /\ \/ board' = board \union {t}
       \/ Refusable(t, now + d) /\ UNCHANGED board
    /\ UNCHANGED <<now, starts, revoked, closed>>

(* Never early, never after a task has revoked it, the prompt ones in the  *)
(* order in which they were posted, and a one-shot task once.              *)
Start(t) ==
    /\ t \in board \ revoked
    /\ due[t] <= now
    /\ t \in prompt => \A u \in board \intersect prompt : due[t] <= due[u]
    /\ starts' = [starts EXCEPT ![t] = @ + 1]
    /\ board' = IF period[t] = 0 THEN board \ {t} ELSE board
    /\ UNCHANGED <<now, taskVars, kept, revoked, closed>>

(* A periodic task that was started is due again a period later.           *)
Renew(t) ==
    /\ t \in board
    /\ period[t] > 0 /\ starts[t] > 0
    /\ due' = [due EXCEPT ![t] = @ + period[t]]
    /\ \/ UNCHANGED board
       \/ Refusable(t, due'[t]) /\ board' = board \ {t}
    /\ UNCHANGED <<now, posted, prompt, period, starts, kept, revoked, closed>>

Drop(t) ==
    /\ t \in kept
    /\ kept' = kept \ {t}
    /\ revoked' \in {revoked, revoked \union {t}}
    /\ UNCHANGED <<now, taskVars, board, starts, closed>>

(* Tasks go unstarted: nobody keeps them, the board is closed, or one with *)
(* the same time stays.                                                    *)
Leave(S) ==
    /\ board' = board \ S
    /\ \A t \in S : t \notin kept \/ closed \/ \E u \in board' : due[u] = due[t]
    /\ UNCHANGED <<now, taskVars, starts, kept, revoked, closed>>

Close ==
    /\ closed' = TRUE
    /\ UNCHANGED <<now, taskVars, board, starts, kept, revoked>>

Tick ==
    /\ now' = now + 1
    /\ UNCHANGED <<taskVars, board, starts, kept, revoked, closed>>

Next ==
    \/ \E t \in Tasks :
          \/ \E d \in Delays, p \in Periods : Post(t, d, p)
          \/ Start(t) \/ Renew(t) \/ Drop(t)
    \/ \E S \in SUBSET board : Leave(S)
    \/ Close
    \/ Tick

Spec == Init /\ [][Next]_vars
=============================================================================
