----------------------------- MODULE Lifecycle ------------------------------
(***************************************************************************)
(* From the start of a program to its end: main() of                       *)
(* src/src/spotiled/main.cpp and src/src/ikea/main.cpp, the signal handler *)
(* of src/src/csignal, the button of src/src/ikea/button_reader.cpp, and   *)
(* the destructors of the HTTP server and the HTTP client.                 *)
(*                                                                         *)
(* Five threads: the "waiter" in main(), the "worker" of the main          *)
(* scheduler, those of the schedulers of the server and of the client,     *)
(* "asio" and "http", and the "button" thread of pigpio.  A signal is      *)
(* caught on any thread, which does nothing else until the catcher         *)
(* returns, even if it was holding the mutex of the main scheduler.        *)
(*                                                                         *)
(* Of the schedulers (module Scheduler) there is what matters here: the    *)
(* mutex, the look at _stop, the sleep.  An entry is in queue or batch as  *)
(* long as its Lifetime is kept.  A program that uses an object that is    *)
(* not there, or not any more, goes on or crashes.                         *)
(***************************************************************************)
EXTENDS Integers, Sequences, SequencesExt

CONSTANTS
    Receivers,  \* the threads that the system may choose to catch a signal
    MaxSignals, \* bound: how many signals are sent
    MaxInputs   \* bound: how often clients and the button do something

ASSUME LifecycleAssumption ==
    /\ Receivers \subseteq {"waiter", "worker", "asio", "button"}
    /\ MaxSignals \in Nat /\ MaxInputs \in Nat

VARIABLES
    pc,         \* where each thread is; the worker: its task, or its place in that of SIGINT
    signals,    \* kind, thread and progress of the signals, in the order they are sent
    trapped,    \* the kinds for which std::signal() has the catcher
    lifetime,   \* SignalHandler::_lifetime: the number of the signal
    queue, batch,   \* the entries of the main scheduler
    stop,       \* the schedulers of which stop() was called
    alive,      \* the objects that are there
    httpTask,   \* process() is scheduled
    proxied,    \* a request of a connection is with the HTTP client
    pressed,    \* history: a press that no task has seen
    unsaved,    \* a state has changed since the states were saved
    inputs,     \* history: how often a client or the button did something
    exit        \* "no", "status 0", "killed", or the object that crashed it

entries   == <<queue, batch>>
sigVars   == <<signals, trapped, lifetime>>
httpVars  == <<httpTask, proxied>>
data == <<sigVars, entries, stop, alive, httpVars, pressed, unsaved, exit>>
vars == <<pc, data, inputs>>

-----------------------------------------------------------------------------
(* The SignalHandler and what the callback captured, the ServerImpl and its *)
(* context (with its _handler), the main scheduler, HttpImpl::_thread.     *)
Objects == {"handler", "closure", "server", "context", "scheduler", "thread"}

Signal(n) == <<"signal", n>>
Entry(name) == <<name, 0>>

At(t, place) == pc[t] = place

Go(t, from, to) == pc[t] = from /\ pc' = [pc EXCEPT ![t] = to]

Catching(n) == signals[n].at \in {"caught", "posted"}

Interrupted(t) == \E n \in DOMAIN signals : Catching(n) /\ signals[n].on = t

(* The mutex of the main scheduler.                                        *)
Holds(t) == <<t, pc[t]>> \in {<<"worker", "looked">>, <<"asio", "post">>}

MutexFree == \A t \in DOMAIN pc : ~Holds(t)

Use(object) ==
    IF object \in alive
    THEN UNCHANGED exit
    ELSE exit' \in {"no", object}

(* notify_all(), and schedule() on the main scheduler: the places become p. *)
Awake(place) == IF place = "asleep" THEN "ready" ELSE place

Post(entry, p) ==
    /\ queue' = Append(queue, entry)
    /\ pc' = [p EXCEPT !["worker"] = Awake(@)]

(* The Lifetime of an entry, of one at most, goes away.                    *)
Revoke(entry) ==
    /\ queue' = RemoveFirst(queue, entry)
    /\ batch' = RemoveFirst(batch, entry)

(* main(), up to get().  The program is ikea's; spotiled has no button.    *)
Init ==
    /\ pc = [waiter |-> "get", worker |-> "ready", asio |-> "run", http |-> "ready",
             button |-> "unmade"]
    /\ signals = <<>> /\ trapped = {} /\ lifetime = 0
    /\ queue = <<Entry("start")>> /\ batch = <<>>
    /\ stop = {} /\ alive = {"scheduler", "thread"}
    /\ httpTask = FALSE /\ proxied = FALSE /\ pressed = FALSE /\ unsaved = FALSE
    /\ inputs = 0 /\ exit = "no"

-----------------------------------------------------------------------------
(* Signals.  While the catcher of a kind runs, that kind is blocked.       *)
Exists(t) ==
    CASE t = "waiter" -> TRUE
      [] t = "button" -> pc[t] \in {"idle", "assign"}
      [] t = "asio"   -> "context" \in alive /\ ~At(t, "done")
      [] OTHER        -> ~At(t, "done")

Send(kind, t) ==
    /\ Len(signals) < MaxSignals /\ Exists(t)
    /\ ~\E n \in DOMAIN signals : Catching(n) /\ signals[n].on = t /\ signals[n].kind = kind
    /\ signals' = Append(signals, [kind |-> kind, on |-> t,
                                   at |-> IF kind \in trapped THEN "caught" ELSE "default"])
    /\ exit' = IF kind \in trapped THEN "no" ELSE "killed"
    /\ UNCHANGED <<pc, trapped, lifetime, entries, stop, alive, httpVars, pressed, unsaved>>

(* A later signal on the same thread goes first.                           *)
CatchStep(n, from, to) ==
    /\ signals[n].at = from
    /\ ~\E m \in n + 1..Len(signals) : Catching(m) /\ signals[m].on = signals[n].on
    /\ signals' = [signals EXCEPT ![n].at = to]

(* s_handler->schedule(sig) schedules a task ...                           *)
CatchPost(n) ==
    /\ MutexFree
    /\ Use("handler")
    /\ IF "handler" \in alive
       THEN CatchStep(n, "caught", "posted") /\ Post(Signal(n), pc)
       ELSE CatchStep(n, "caught", "done") /\ UNCHANGED <<pc, queue>>
    /\ UNCHANGED <<trapped, lifetime, batch, stop, alive, httpVars, pressed, unsaved>>

(* ... and what it returns replaces what an earlier signal has scheduled.  *)
CatchAssign_KeepsOld(n) ==
    /\ CatchStep(n, "posted", "done")
    /\ lifetime' = n
    /\ UNCHANGED <<pc, trapped, entries, stop, alive, httpVars, pressed, unsaved, exit>>

CatchAssign(n) ==
    /\ CatchStep(n, "posted", "done")
    /\ IF "handler" \in alive
       THEN lifetime' = n /\ Revoke(Signal(lifetime))
       ELSE UNCHANGED <<lifetime, entries>>
    /\ Use("handler")
    /\ UNCHANGED <<pc, trapped, stop, alive, httpVars, pressed, unsaved>>

Catch(n) == n \in DOMAIN signals /\ (CatchPost(n) \/ CatchAssign(n))

-----------------------------------------------------------------------------
(* The thread of a scheduler that has nothing to do evaluates stop_waiting *)
(* with its mutex, and falls asleep unless it has seen _stop.              *)
Idle(t) ==
    CASE t = "worker" -> queue = <<>> /\ batch = <<>> /\ MutexFree
      [] t = "http"   -> ~httpTask
      [] OTHER        -> TRUE

Sleep(t) ==
    /\ \/ Idle(t) /\ Go(t, "ready", IF t \in stop THEN "done" ELSE "looked")
       \/ Go(t, "looked", "asleep")
    /\ UNCHANGED data

(* ~ThreadImpl: stop(), called on thread u; then the join.                 *)
StopThread(t, u, from, to) ==
    /\ At(u, from)
    /\ stop' = stop \union {t}
    /\ pc' = [pc EXCEPT ![t] = Awake(@), ![u] = to]
    /\ UNCHANGED <<sigVars, entries, alive, httpVars, pressed, unsaved, exit>>

-----------------------------------------------------------------------------
(* The worker of the main scheduler.                                       *)
Swap ==
    /\ At("worker", "ready") /\ batch = <<>> /\ queue # <<>> /\ MutexFree
    /\ batch' = queue /\ queue' = <<>>
    /\ UNCHANGED <<pc, sigVars, stop, alive, httpVars, pressed, unsaved, exit>>

(* maybeTrigger(): the signals of main() are {SIGINT}.                     *)
Handled(kind) == kind = "INT"

(* The entry of a signal runs SignalHandler::_callback.                    *)
Take ==
    /\ batch # <<>>
    /\ batch' = Tail(batch)
    /\ LET entry == Head(batch)
           task == IF entry[1] # "signal" THEN entry[1]
                   ELSE IF "handler" \notin alive THEN "ready"
                   ELSE IF Handled(signals[entry[2]].kind) THEN "interrupt" ELSE "raise"
       IN
       /\ Go("worker", "ready", task)
       /\ IF entry[1] = "signal" THEN Use("handler") ELSE UNCHANGED exit
    /\ UNCHANGED <<sigVars, queue, stop, alive, httpVars, pressed, unsaved>>

(* The first task of main(): the parts of the stack.  The states that were *)
(* saved are asked for.                                                    *)
Start ==
    /\ At("worker", "start")
    /\ pc' = [pc EXCEPT !["worker"] = "ready", !["http"] = Awake(@), !["button"] = "idle"]
    /\ alive' = alive \union {"handler", "closure", "server", "context"}
    /\ trapped' = {"INT", "TERM"}
    /\ httpTask' = TRUE
    /\ UNCHANGED <<signals, lifetime, entries, stop, proxied, pressed, unsaved, exit>>

(* updateState("/button")                                                  *)
Press ==
    /\ At("worker", "press") /\ ~At("http", "looked")
    /\ pc' = [pc EXCEPT !["worker"] = "ready", !["http"] = Awake(@)]
    /\ pressed' = FALSE /\ httpTask' = TRUE
    /\ UNCHANGED <<sigVars, entries, stop, alive, proxied, unsaved, exit>>

(* A request changes a state or is passed on to the service.  The task is  *)
(* kept by the connection, which the task keeps, so that it outlives the   *)
(* server and then calls the _handler that the server had.                 *)
Request ==
    /\ At("worker", "request") /\ Use("context")
    /\ \/ Go("worker", "request", "ready") /\ UNCHANGED httpVars
          /\ unsaved' = ("context" \in alive \/ unsaved)
       \/ /\ "context" \in alive /\ ~At("http", "looked")
          /\ pc' = [pc EXCEPT !["worker"] = "ready", !["http"] = Awake(@)]
          /\ httpTask' = TRUE /\ proxied' = TRUE /\ UNCHANGED unsaved
    /\ UNCHANGED <<sigVars, entries, stop, alive, pressed>>

(* The answer to a proxied request is posted to the server's _ctx.         *)
Answer ==
    /\ Go("worker", "answer", "ready") /\ Use("context")
    /\ UNCHANGED <<sigVars, entries, stop, alive, httpVars, pressed, unsaved>>

(* SIG_DFL and raise().                                                    *)
Raise ==
    /\ At("worker", "raise")
    /\ exit' = "killed"
    /\ UNCHANGED <<pc, sigVars, entries, stop, alive, httpVars, pressed, unsaved>>

(* The callback of main(): stack.reset(), that is ~SignalHandler, ...      *)
Untrap ==
    /\ Go("worker", "interrupt", "untrapped")
    /\ trapped' = trapped \ {"TERM"}
    /\ UNCHANGED <<signals, lifetime, entries, stop, alive, httpVars, pressed, unsaved, exit>>

FreeHandler ==
    /\ Go("worker", "untrapped", "close")
    /\ trapped' = {} /\ lifetime' = 0
    /\ Revoke(Signal(lifetime))
    /\ alive' = alive \ {"handler", "closure"}
    /\ UNCHANGED <<signals, stop, httpVars, pressed, unsaved, exit>>

(* ... ~ServerImpl, which stops the io_context and destroys _connections,  *)
(* _thread and the context, ...                                            *)
CloseServer ==
    /\ Go("worker", "close", "stop asio")
    /\ alive' = alive \ {"server"}
    /\ UNCHANGED <<sigVars, entries, stop, httpVars, pressed, unsaved, exit>>

JoinAsio ==
    /\ At("asio", "done") /\ Go("worker", "join asio", "button")
    /\ alive' = alive \ {"context"}
    /\ UNCHANGED <<sigVars, entries, stop, httpVars, pressed, unsaved, exit>>

(* ... ~ButtonReader: pigpio_stop() joins the button's thread, and _work   *)
(* is dropped; ...                                                         *)
FreeButton ==
    /\ At("worker", "button") /\ At("button", "idle") /\ ~Interrupted("button")
    /\ pc' = [pc EXCEPT !["worker"] = "save", !["button"] = "freed"]
    /\ pressed' = FALSE
    /\ Revoke(Entry("press"))
    /\ UNCHANGED <<sigVars, stop, alive, httpVars, unsaved, exit>>

(* ... ~StateThingy saves the states.                                      *)
SaveStates_Skipped ==
    /\ Go("worker", "save", "promise")
    /\ UNCHANGED data

SaveStates ==
    /\ Go("worker", "save", "promise")
    /\ unsaved' = FALSE
    /\ UNCHANGED <<sigVars, entries, stop, alive, httpVars, pressed, exit>>

(* interrupt.set_value(0), through a reference of the closure, which was   *)
(* in the SignalCatcher.                                                   *)
SetValue ==
    /\ At("worker", "promise")
    /\ pc' = [pc EXCEPT !["worker"] = "ready", !["waiter"] = "stop main"]
    /\ Use("closure")
    /\ UNCHANGED <<sigVars, entries, stop, alive, httpVars, pressed, unsaved>>

Worker ==
    /\ ~Interrupted("worker")
    /\ \/ Sleep("worker") \/ Swap \/ Take
       \/ Start \/ Press \/ Request \/ Answer \/ Raise
       \/ Untrap \/ FreeHandler
       \/ CloseServer \/ StopThread("asio", "worker", "stop asio", "join asio") \/ JoinAsio
       \/ FreeButton \/ SaveStates \/ SetValue

-----------------------------------------------------------------------------
(* The asio thread.  A handler of the io_context accepts or closes a       *)
(* connection, for which it uses _acceptor and _connections, or it has     *)
(* read a request and schedules its task.                                  *)
Handle ==
    /\ "server" \in alive /\ ~Interrupted("asio")
    /\ \/ Go("asio", "run", "accept")
       \/ Go("asio", "run", "post") /\ MutexFree
    /\ UNCHANGED data

Accept ==
    /\ Go("asio", "accept", "run") /\ Use("server")
    /\ UNCHANGED <<sigVars, entries, stop, alive, httpVars, pressed, unsaved>>

PostRequest ==
    /\ At("asio", "post")
    /\ Post(Entry("request"), [pc EXCEPT !["asio"] = "run"])
    /\ UNCHANGED <<sigVars, batch, stop, alive, httpVars, pressed, unsaved, exit>>

(* _ctx.run() returns after _ctx.stop().                                   *)
LeaveContext ==
    /\ {"server", "context"} \intersect alive = {"context"}
    /\ Go("asio", "run", "ready")
    /\ UNCHANGED data

Asio ==
    /\ ~Interrupted("asio")
    /\ Accept \/ PostRequest \/ LeaveContext \/ Sleep("asio")

-----------------------------------------------------------------------------
(* The button's thread: ButtonReader::onPress() schedules, then the        *)
(* assignment to _work drops the press before, if that has not begun.      *)
Push ==
    /\ At("button", "idle") /\ MutexFree /\ ~Interrupted("button")
    /\ Post(Entry("press"), [pc EXCEPT !["button"] = "assign"])
    /\ pressed' = TRUE
    /\ UNCHANGED <<sigVars, batch, stop, alive, httpVars, unsaved, exit>>

Presses == SelectSeq(batch \o queue, LAMBDA e : e = Entry("press"))

AssignPress_DropsAll ==
    /\ Go("button", "assign", "idle")
    /\ IF Len(Presses) < 2
       THEN UNCHANGED entries
       ELSE /\ queue' = SelectSeq(queue, LAMBDA e : e # Entry("press"))
            /\ batch' = SelectSeq(batch, LAMBDA e : e # Entry("press"))
    /\ UNCHANGED <<sigVars, stop, alive, httpVars, pressed, unsaved, exit>>

AssignPress ==
    /\ Go("button", "assign", "idle")
    /\ IF Len(Presses) < 2
       THEN UNCHANGED entries
       ELSE IF Entry("press") \in Range(batch)
       THEN batch' = RemoveFirst(batch, Entry("press")) /\ UNCHANGED queue
       ELSE queue' = RemoveFirst(queue, Entry("press")) /\ UNCHANGED batch
    /\ UNCHANGED <<sigVars, stop, alive, httpVars, pressed, unsaved, exit>>

Button == ~Interrupted("button") /\ AssignPress

-----------------------------------------------------------------------------
(* The http thread.  process() ends a transfer, whose answer it posts to   *)
(* the main scheduler, or polls, and then looks at _thread twice.  (How    *)
(* far it is, and whether the thread sleeps, does not matter before main() *)
(* has come to the HTTP client.)                                           *)
FinishTransfer ==
    /\ At("http", "ready") /\ httpTask /\ proxied /\ MutexFree
    /\ httpTask' = FALSE /\ proxied' = FALSE
    /\ Use("scheduler")
    /\ IF "scheduler" \in alive THEN Post(Entry("answer"), pc) ELSE UNCHANGED <<pc, queue>>
    /\ UNCHANGED <<sigVars, batch, stop, alive, pressed, unsaved>>

Process ==
    /\ httpTask /\ "scheduler" \notin alive
    /\ httpTask' = FALSE
    /\ \/ ~proxied /\ Go("http", "ready", "ready")
       \/ Go("http", "ready", IF "thread" \in alive THEN "again" ELSE "ready")
    /\ UNCHANGED <<sigVars, entries, stop, alive, proxied, pressed, unsaved, exit>>

ProcessAgain ==
    /\ Go("http", "again", "ready") /\ Use("thread")
    /\ httpTask' = ("thread" \in alive)
    /\ UNCHANGED <<sigVars, entries, stop, alive, proxied, pressed, unsaved>>

Http ==
    \/ FinishTransfer \/ Process \/ ProcessAgain
    \/ "thread" \notin alive /\ Sleep("http")

-----------------------------------------------------------------------------
(* main(): get() has returned, and the locals are destroyed: main_thread,  *)
(* then http, whose _thread is null before it is stopped.                  *)
JoinMain ==
    /\ At("worker", "done") /\ Go("waiter", "join main", "reset http")
    /\ alive' = alive \ {"scheduler"}
    /\ UNCHANGED <<sigVars, entries, stop, httpVars, pressed, unsaved, exit>>

ResetThread_StopsOnly ==
    /\ Go("waiter", "reset http", "stop http")
    /\ UNCHANGED data

ResetThread ==
    /\ Go("waiter", "reset http", "stop http")
    /\ alive' = alive \ {"thread"}
    /\ UNCHANGED <<sigVars, entries, stop, httpVars, pressed, unsaved, exit>>

Return ==
    /\ At("http", "done") /\ Go("waiter", "join http", "returned")
    /\ exit' = "status 0"
    /\ UNCHANGED <<sigVars, entries, stop, alive, httpVars, pressed, unsaved>>

Waiter ==
    /\ ~Interrupted("waiter")
    /\ \/ StopThread("worker", "waiter", "stop main", "join main") \/ JoinMain
       \/ ResetThread \/ StopThread("http", "waiter", "stop http", "join http") \/ Return

-----------------------------------------------------------------------------
Input == inputs < MaxInputs /\ inputs' = inputs + 1 /\ (Handle \/ Push)

Running(A) == exit = "no" /\ A /\ UNCHANGED inputs

Next ==
    \/ exit = "no" /\ Input
    \/ \E kind \in {"INT", "TERM"}, t \in Receivers : Running(Send(kind, t))
    \/ \E n \in 1..MaxSignals : Running(Catch(n))
    \/ Running(Worker) \/ Running(Asio) \/ Running(Button) \/ Running(Http) \/ Running(Waiter)

Spec == Init /\ [][Next]_vars

(* The threads run, and so does a catcher.  (The mutex is held for a few    *)
(* instructions, and no input comes in for ever.)                          *)
FairSpec ==
    /\ Spec
    /\ WF_vars(Running(Worker)) /\ WF_vars(Running(Asio)) /\ WF_vars(Running(Button))
    /\ WF_vars(Running(Http)) /\ WF_vars(Running(Waiter))
    /\ \A n \in 1..MaxSignals : WF_vars(Running(Catch(n)))

-----------------------------------------------------------------------------
(* Types; and of the tasks of signals only the one in _lifetime remains,   *)
(* or one that its catcher has still to put there.                         *)
TypeOK ==
    /\ DOMAIN pc = {"waiter", "worker", "asio", "http", "button"}
    /\ Len(signals) <= MaxSignals /\ lifetime \in 0..Len(signals)
    /\ trapped \subseteq {"INT", "TERM"}
    /\ (Range(queue) \union Range(batch)) \subseteq
           {Signal(n) : n \in DOMAIN signals}
               \union {Entry(e) : e \in {"start", "press", "request", "answer"}}
    /\ stop \subseteq {"worker", "asio", "http"}
    /\ alive \subseteq Objects
    /\ {httpTask, proxied, pressed, unsaved} \subseteq BOOLEAN
    /\ inputs \in 0..MaxInputs
    /\ exit \in {"no", "status 0", "killed"} \union Objects
    /\ \A n \in DOMAIN signals :
          Signal(n) \in Range(queue \o batch) =>
              n = lifetime \/ signals[n].at = "posted" \/ "handler" \notin alive

(* However the program ends, no change of a state is lost: if it returns,  *)
(* they were all saved, whatever came in while it was stopping; and what   *)
(* it uses after its end in the destruction that a SIGINT starts (the      *)
(* closure of the callback, the server by the tasks it leaves behind, both *)
(* schedulers) is used when they are.  The exceptions: a SIGTERM, which is *)
(* not handled; a second SIGINT, which finds the handler removed before    *)
(* the save; a handler of the io_context that runs into ~ServerImpl; and a *)
(* catcher, on another thread, that runs into ~SignalHandler.              *)
StatesOutlive ==
    exit # "no" /\ unsaved =>
        \/ exit = "killed" /\ (Len(signals) > 1 \/ signals[1].kind = "TERM")
        \/ exit = "server"
        \/ exit = "handler" /\ \E n \in DOMAIN signals : signals[n].on # "worker"

(* A thread that caught a signal holding the mutex waits for itself.       *)
SelfLocked == \E n \in DOMAIN signals : signals[n].at = "caught" /\ Holds(signals[n].on)

(* A stop() that fell between the look at _stop and the sleep, see         *)
(* StopReturnsUnlessMissed of Scheduler.                                   *)
StopMissed == \E t \in stop : At(t, "looked") \/ At(t, "asleep")

(* A SIGINT ends the program, through five threads that are destroyed in   *)
(* turn, but for the two ways to wait for ever.                            *)
InterruptEnds ==
    \A n \in 1..MaxSignals :
        (n \in DOMAIN signals /\ signals[n].kind = "INT") ~>
            (exit # "no" \/ SelfLocked \/ StopMissed)

(* A press of the button is followed by an update that comes after it,     *)
(* although each press revokes the task of the one before.                 *)
PressHandled == pressed ~> (~pressed \/ exit # "no" \/ SelfLocked \/ StopMissed)
=============================================================================
