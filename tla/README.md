# A formal model of led-client

led-client drives a small LED panel (or one in an Ikea frame). It keeps a table
of *states* that a web service supplies, shows the one with the highest
priority, and relays HTTP requests between its own server and the service.
It is C++ with one main thread, one thread for libcurl, one for asio, and a
render timer; almost everything that can go wrong is a matter of which callback
runs when, and which object it still finds.

All paths below are those of the repository; `scheduler.cpp:53` stands for line
53 of `src/src/async/scheduler.cpp`, and so on.

## 1. Inventory

| Component | State it keeps | Operations | Talks to |
|---|---|---|---|
| Task scheduler (`async/scheduler.cpp`) | `_queue` ordered by time, `_stop`, mutex and condition variable; local queue of `run()` | `schedule`, drop of a `Lifetime`, `run`, `stop`, `~ThreadImpl` | everybody: main thread, http thread |
| State table and display arbitration (`web_proxy/state_thingy.cpp`) | `_states` (data, display, work, backoff per id), `_displaying`, `_snapshot` | GET, POST, `handleStateUpdate`, `onServiceResponse`, `onRender`, load and save | main scheduler, renderer, web proxy, file |
| Web proxy (`web_proxy/web_proxy.cpp`) | base URL, device id, the state table | `handleRequest` (forwards what is not a state), `requestStateUpdate`, `updateState` | HTTP client, HTTP server |
| Renderer (`render/renderer_impl.cpp`) | the callbacks, one slot `_render` | `add`, `notify`, `renderFrame` | main scheduler, panel driver |
| HTTP client (`http/http.cpp`) | multi handle, request states with a 16 KiB buffer | `request`, abort by dropping the lifetime, `process`, flow control by `onData`'s continuation | its own scheduler thread, main scheduler |
| HTTP server (`http/server/server.cpp`) | acceptor, connections, one parser each | accept, read, parse, `handleRequest`, write, timeout | asio thread, main scheduler |
| States file (`storage/string_set.cpp`, `state_thingy.cpp:58-89`) | the file, `_snapshot` | load at start, save each minute and at the end | file system |
| Signals (`csignal/*`) | one static slot of callbacks and the scheduled callback | `SIGINT`/`SIGTERM` to a main-thread callback | main scheduler |
| Entry points (`spotiled/main.cpp`, `ikea/main.cpp`) | the stack of all objects | start, stop on signal | all |
| Ikea button (`ikea/button_reader.cpp`) | a thread polling a GPIO line, one slot | press, to a main-thread callback | web proxy |
| Panel drivers (`apa102`, `ikea`, `spotiled`, `led`) | the pixel buffer | set, blend, clear, show | SPI, GPIO |
| Drawing (`web_proxy/display.cpp`), URI, base64, jq | none | pure functions | state table, client, server |

### What is hard, and what makes each part correct

* **Scheduler.** Three kinds of actors, one mutex, and two operations (`stop`
  and the notifier of a `Lifetime`) that do not take it. `run()` works on a
  private batch, with a clock reading taken once, while callbacks insert and
  revoke entries. Correct: no task early, doubled, lost, or started after the
  worker has revoked it; order kept; every kept task runs at last; the join
  returns.
* **State table.** One slot `work` holds the request, retry, timeout or poll of
  a state; each assignment silently cancels the previous content. There are four
  ways to take a state off the panel. `_displaying` is a raw pointer into a map.
  Correct: the pointer is valid, the panel follows it, nothing that was to end is
  forgotten, a dark panel is being taken care of, retries are paced.
* **HTTP client.** A request lives on two threads; its buffer is bounded and
  pauses the transfer; completion, chunk delivery, abort and continuation can
  overtake one another. Correct: bytes delivered are a prefix of the body, one
  terminal answer at most and none after abort, no use of a freed handle.
* **HTTP server.** A connection is owned by whichever callback is pending; it
  crosses to the main thread and back. Correct: what is written is what the
  handler gave, in order; every connection is freed.
* **States file.** Saving truncates before it writes; the length prefix is
  binary. Correct: what was saved is what is loaded; a change is saved within a
  minute.
* **Lifecycle.** A signal handler takes a mutex, on whatever thread it interrupts;
  the callback that stops the program destroys what it was called from; objects are
  destroyed on one thread while the tasks of four others may still use them. Correct:
  a signal ends the program, no saved state is lost by how it ends, a press of
  the button is followed by an update.
* **Pure functions.** Base64, URIs and the arithmetic of pixels work on any text
  and picture the service or a client sends. Correct: decoding inverts encoding and
  refuses what is no base64; a URI is taken apart as it was composed; a picture
  lands on the LEDs its pixels name, also while it scrolls or waves.

The hazards, each at its line with the properties that watch it, are the list
`hazards` of PROJECT.json.

## 2. Modules

| Module | Models | State and actions against the code |
|---|---|---|
| `Scheduler` | `async/scheduler.cpp` whole | `queue` is `_queue`; `batch`, `kept`, `cur`, `batchNow`, `deadline` are the locals of `run()`; `pc` is the place in `run()`. One action per segment of `run()` that other threads can observe (`LoopHead`, `Check`, `Block`, `WakeNotified`, `WakeTimeout`, `Swap`, `ReadClock`, `Examine`, `Call`, `Return`, `Merge`), and `RemoteSchedule`, `LocalSchedule`, `RemoteDrop`, `LocalDrop`, `Stop`, `Tick` for everybody else |
| `StateThingy` | `web_proxy/state_thingy.cpp` without file and data, the slot of the renderer, what `WebProxy` adds to it | `live`, `display`, `work`, `backoff` are the four parts of a `State`; `displaying` the raw pointer, with a value for "dangling"; `render` the renderer's slot; `shown` the panel. One action per handler; `handleStateUpdate()` is one action per member of the JSON object, with the rest in `todo` |
| `StatesFile` | `loadStates()`, `saveStates()`, the destructor, `storage/string_set.cpp` | `states`, `snapshot`, `file`, and `out` for what the `ofstream` has not written; `LoadSet` and `Written` are the two functions of `string_set.cpp` on bytes |
| `HttpClient` | `http/http.cpp` | `request`, `httpWork`, `mainWork`, `buffer` are the members of a `RequestState` and its handle; `transfer` is libcurl's side; `lease` the `BufferHandle`s that a receiver holds |
| `Connection` | `struct Connection` in `http/server/server.cpp` | each member that refers to a pending callback is a variable (`read`, `handlerWork`, `mainWork`, `posted`, `sending`, `pending`); `main` tells whether the main thread has begun the handler's task |
| `TaskBoard` | the promises of `async/scheduler.h` | abstract: `board` holds the tasks still to be started, `due` their times; `Post`, `Start`, `Renew`, `Drop`, `Leave` and `Close` say when a task may come and go. `Scheduler` implements it (`ImplementsTaskBoard`: the board is everything in the queues or under way) |
| `RequestParser` | `RequestParser` of the same file, with the reads | `phase` is the `std::variant`, `buffer` the string in it, `want` the pending read |
| `Exchange` | `parseSome()`, `handleRequest()` and `handleError()` where they join the two | extends `Connection` and `RequestParser`; the steps of the parser are taken while `read` is `"parse"` |
| `ProxyStream` | `WebProxy::handleRequest()` (`web_proxy.cpp:41-71`), `requestStateUpdate()` | `Connection` and an instance of `HttpClient`: each step is of one or, where one calls the other, of both. What the client delivers is mapped to the connection's numbered pieces |
| `Lifecycle` | both `main.cpp`, `csignal/*`, `button_reader.cpp`, `~ServerImpl`, `~HttpImpl`, `ThreadImpl` as far as they meet | `pc` is the place of each of five threads, `alive` the objects that are there, `signals` the catchers and what they interrupted; one action per step of a destructor, catcher or task that another thread can fall between |
| `Base64`, `Uri` | `encoding/base64.h`, `uri/uri.h`, `uri/uri.cpp` | operators, one for each function |
| `Codec` | | inputs that grow symbol by symbol, and the definitions that `Base64` and `Uri` are compared with |
| `Panel` | `onRenderPass()` of `web_proxy/display.cpp`, `renderFrame()`, `apa102.cpp`, `spotiled.cpp` and `ikea.cpp` without I/O | `leds` and `bits` are the buffers of the two panels after a frame; one action, `Frame` |
| `SchedulerProofs`, `StateThingyProofs`, `ConnectionProofs`, `ExchangeProofs`, `HttpClientProofs`, `ProxyProofs`, `LifecycleProofs`, `DataProofs` | | the theorems; those of `StatesFile`, `Panel` and `Codec` are in `DataProofs` |
| `MC*` | | model values, symmetry and small inputs for TLC; `MCFunctions` runs `Codec` and `Panel` side by side |

How they fit together: `Scheduler` is the ground of all the others. They take
from it that tasks of one scheduler run one by one and in the order they were
scheduled in (`FirstComeFirstServed`), that a task whose `Lifetime` was dropped
on the scheduler's own thread is not started (`RevokedStaysSilent`), and that a
task whose `Lifetime` is kept is started at last (`DueTaskRuns`). These are
proved or checked of `Scheduler` (the first two are promises of `TaskBoard`), and
they are why a slot such as `State::work` or `_main_work` may be a single value in
the other modules.
`Connection` assumes of its service that a response arrives as its head, then
pieces, the next one only after the lifetime of the one before was let go.
`ProxyStream` puts `HttpClient` in the place of that service, and `ImplementsConnection`
is proved of it: what the connection sees is a behaviour of `Connection`, so that what
is proved of `Connection` holds of proxied requests as well.
`Exchange` puts `RequestParser` before it, and is proved to be a behaviour of `Connection`
as well.
`Lifecycle` takes from `Scheduler` the three points that matter when it is stopped: the
mutex, the look at `_stop`, the sleep.
`StatesFile` has one action `Update` for everything `StateThingy` does.

### Choices a reader should know

* *Scheduler.* The mutex is not a variable: the worker holds it at the control
  points in `Locked`. Spurious wakeups are left out; they can only help. Two
  entries with the same time point are one to `std::set`, so the second is
  refused; refused entries are kept in `discarded` and the properties say
  "unless refused". With a clock in nanoseconds this is rare but the code
  allows it. The clock of the model only goes forward.
* *States.* The order of an `unordered_map` or of a JSON object is a free
  choice. After a 404 for the displayed state the pointer has the value
  `Dangling`, and whatever is read through it is a free choice. 204 and 404
  are part of the model, but the run `states`, which shows what holds without
  them, leaves them out of its `Answers`. `paced` is history: whether the program,
  a header or a negative header has set `retry_backoff`. Of a negative delay only the sign
  is kept, and the overflow that some fifty doublings of it would lead to is left out.
* *HTTP client.* Bytes are their own numbers. Redirects, uploads and empty
  bodies are left out. A chunk is not larger than the buffer, since
  `CURL_MAX_WRITE_SIZE` is 16 KiB, as `kMaxBufferSize` is. What libcurl does
  with a chunk it was told to pause on (keep it and offer it again, perhaps with
  more behind it) is modelled from how `onBytes()` uses `skip`.
* *Connection.* The pieces of a response are numbered; a send succeeds, fails
  or, with `Partial`, writes a part. asio's sockets are modelled from their use.
  A transfer that fails ends with what the client's buffer holds: a `Part` of a
  piece, the next piece, or `Again` the last one.
* *Proxy.* The client's buffer is read when a send succeeds, not when it is posted,
  since the socket writes from the buffer itself. One proxied request shares the
  http thread with the request of a state.
* *Lifecycle.* `schedule()` inside the catcher is one step: it waits for the mutex, and
  waits for ever if its own thread holds it. Objects are used after their destruction
  in a free choice between going on and crashing. A signal that Linux delivers to the
  thread of `main()` is caught as on the asio thread outside `post`, neither holding the
  mutex, so `Receivers` needs only one of them. How far the http thread is in
  its loop does not matter before the main scheduler is gone, and is left out until
  then. The program is ikea's; the other has no button.
* *Functions.* A `char` is signed or unsigned by a parameter. Floating point
  numbers are rationals; a channel that leaves its byte, which C++ leaves undefined,
  keeps its low byte. The cosine of the wave is any fraction, the same for all
  columns. Both panels are driven at once, and the time is that since the
  program began, as there is one render callback.
* *Parser.* Text is a sequence of units rather than characters, and a line break is
  one unit: a lone `\r` or `\n` is left out. A header line without a colon
  (`server.cpp:96`) and a content-length that does not begin with a number
  (`server.cpp:107`) end the program, as nobody catches the exception (`Crash`);
  a negative content-length is left out, and so is the same exception in the client's
  `onHeader()` (`http.cpp:274`). In the inputs, a client tells the length of its body once.
* *File.* A digit has `Base` values instead of 128, so that entries of a few
  bytes have a prefix of two digits.

## 3. What the runs show

Every bound is a constant of the run's configuration.

| Run | Asks | Bounds, and why they do |
|---|---|---|
| `scheduler` | does the scheduler keep the promises of `TaskBoard` (no task early, double, out of order or revived); is one lost; does each kept task run; does `stop()` end the worker | two tasks, with and without period, four time points (three periods, clashes of time points); one task in the batch while the other is scheduled, dropped or kept back is the smallest case of each hazard, and the theorems cover every number. Delays only from the worker itself, which is how the program uses it |
| `scheduler_remote_delay` | violation below | |
| `states` | the pointer, the panel, the single slot of work | three states: the displayed, the next, and one that interferes; two priorities, so that displays differ and ties occur. An object has one member: two members one after the other are two objects |
| `states_answers` | all answers, also about other ids: the pace of retries, and what makes the pointer dangle | every kind of answer, requests with a query; delays that a header asks for: none, negative, zero, below and above the cap; backoff 1, cap 2: one failure reaches the cap, the next would pass it |
| `states_not_found` | violation below | |
| `http_stream` | is the body delivered intact, whatever fails or is dropped | a buffer of 3, chunks of 1 to 3, bodies of 2, 3, 4 and 7: below, at and above one buffer, and three buffers; two requests that share the loop |
| `exchange` | is a request parsed as sent, and when does one end the program; what is on the wire; is each connection answered, closed when complete, freed | reads of 2 to 5 units, so that each part of a request is cut; headers with a key that is repeated in other case, a value with a colon, a line without one, a content-length without a number; four pieces: one sent, one pending, one posted, one to come; clients that leave in both ways, failing transfers, partial sends |
| `proxy` | the composition of server and client: does it behave as `Connection` assumes, is the body relayed, does everybody get an answer, what does a hang-up end | a buffer of 2 and bodies of 1, 2 and 5: one that comes with the head, one buffer, and three pieces; one other request, which shares the http thread |
| `lifecycle` | does a SIGINT end the program through all its destructors, what is lost, is a press handled | two signals of either kind on two threads, the second within the catcher, the task or the destructors of the first; two inputs, of clients or the button: two presses are the smallest case of the overwritten slot |
| `functions` | base64 and URI against reference definitions, pictures against the pixels they name | up to 5 bytes (one group, two groups, both remainders), texts of two groups, URIs with each part present, empty or absent, paths and queries of 6 characters; pictures narrower than, as wide as and wider than the panel, still, scrolling both ways, waving; 52 frames of half a second, a full round of the longest tape |
| `parser_segments` | violation below | reads of 8 to 16 |
| `file_crash` | what survives | two states, entries of one and two digits, one kill at any byte |

Deadlock is checked where the system never stops (the state table, the states
file). The other configurations say `CHECK_DEADLOCK FALSE`: a worker ends after
`stop()`, a request is parsed, a connection is closed, the bounded clock and the
bounded number of requests run out.

### Where the code does not do what it says

Each is a run that is expected to find a violation, with the quotation in
`findings` of PROJECT.json.

1. `scheduler_remote_delay`: a task with a delay that another thread schedules
   on an idle scheduler never runs; the deadline of the wait is taken once
   (`scheduler.cpp:53`). The scheduler's own test schedules this way. The
   program itself passes delays on the worker's own thread only, where all is well
   (run `scheduler`, theorem `SleepsNoLonger`).
2. `states_not_found`: a 404 for the state on the panel erases it and leaves
   `_displaying` pointing to freed memory. None of the other steps that erase, hide or
   replace a display does (`DanglesOnlyByNotFound`).
3. `parser_segments`: a read that gets less than it has room for leaves zero
   bytes in the text, because the callback trims a copy of the string. Where the
   parser takes them for a header line without a colon, the program ends.

More is in the models, and the properties name it as an exception:

* `Scheduler`: `stop()` takes no mutex, so its notification may fall between the
  worker's look at `_stop` and its sleep; then the join does not return
  (`StopReturnsUnlessMissed`, and `StopMissed` in `Lifecycle`).
* `HttpClient`: if a transfer fails while a full buffer is with the receiver,
  `finishRequest()` delivers that piece a second time, and giving it back uses a
  curl handle that was cleaned up (`StreamIntact`, `LeaseStable` and
  `StaleOnlyIfBroken` say "unless broken"; `NothingTakenIsLost` and
  `SilentAfterAbort` hold even then).
* `Connection`: `async_send` may write a part; the callback counts it as a whole
  and the connection closes with a truncated response (`cut` in `WireIntact` and
  `ClosedWhenComplete`).
* `StateThingy`: a 204 ends an update without a retry (`state_thingy.cpp:279`). If
  `updateState()` of another state had overwritten a timeout or poll for it, that is gone
  for good and the state stays for ever; if the panel was dark and waiting for it, it
  stays dark. `NothingForgotten`, `DarkOnlyWhileAsking` and their theorems are
  stated for a service that does not answer 204.
* `StateThingy`: after a 429 or 503 the delay is what `Retry-After` says, immediate or over
  the cap though it be, and without a number there what it was before, immediate if
  nothing was; and a negative one is
  doubled by each failure after it and never reset but by a 200 or another header.
  `RetryPaced` names these, and says that every other delay is positive and at
  most the cap.
* `StateThingy`: a 404 for a posted form, or a URL with a query, erases an id that
  is no key; the state that the POST created stays, with no work.
* `Connection`: a piece that is delivered a second time after a failure is taken for
  the one that is missing, and may overwrite the one that waits (`Again` in
  `PendingKept`, `WireIntact` and `ClosedWhenComplete`).
* `RequestParser`: a field that repeats another one takes its place; a header line without
  a colon ends the program, and so does a content-length that is no number
  (`ParsedAsSent`).
* `Lifecycle`: each SIGINT calls `interrupt.set_value()` through a closure that its
  own call has destroyed; a request or an answer that is still queued then uses
  the server that is gone, a handler of the io_context runs into `~ServerImpl`, a
  catcher runs into `~SignalHandler`. `StatesOutlive` says what this cannot do: lose
  changes that the destructors have saved. A SIGTERM, or a second SIGINT before the
  save, loses what was not saved. A catcher that interrupts a thread holding the
  scheduler's mutex waits for itself (`SelfLocked`).
* `Base64`: `decode()` accepts `xx=y`, and throws an exception nobody catches for
  anything else that is no base64; `encode()` of bytes from 0x80 is wrong where `char`
  is signed. `Uri`: without a scheme, any `:` is taken for the end of one.
* `Panel`: blending leaves the range of a channel (two white pixels in one place);
  a tape as wide as the panel is never seen in its leftmost column, and a picture
  that scrolls right is never seen.

And two limits that the properties name: a connection that the service answered
is kept alive by the callbacks of its own request (`FreedUnlessProxied`) and is
freed only if the server has read the end of the client's stream (`server.cpp:214`,
`HangUpEndsTransfer`): a client that goes by a reset, or whose first sign of going is a
send that fails (`server.cpp:306-309`), leaves the connection, and its transfer runs to its
end for nobody; and a file whose save was cut
is loaded as it is, with what was in it lost (`Durable` says "unless torn").

### Fairness

* `Scheduler`: the worker thread is scheduled and the clock advances
  (`WF(Worker)`, `WF(Tick)`). Nothing is assumed of those who call it.
* `Exchange`: `WF(Talk)` and `WF(Main)`, the two threads; the operating system
  completes reads and sends, the client sends what it has begun, and the service
  answers. It is not assumed that the service breaks or that a client leaves.
* `ProxyStream`: the threads of asio, of the main scheduler and of libcurl run
  (`WF`). `ProcessAgain` reschedules itself for ever, so that weak fairness does not
  carry a new request past it; that the scheduler takes immediate tasks in the order
  they were scheduled in does (`InOrder`), and is expressed as strong fairness of
  the http thread's tasks, among them `Receive`: a transfer that is polled again and
  again makes progress.
* `Lifecycle`: the five threads run, and so does a catcher, each by weak fairness.
  The mutex is held for a few instructions and the inputs are bounded, so nothing
  stronger is needed. No signal and no input is assumed to come.

## 4. What is proved

`SchedulerProofs` proves of `Spec` of `Scheduler`, for any number of tasks, any
delays and periods and any bound of the clock, from `SchedulerAssumption` alone
(`NoTask` is no task; time points and delays are naturals): type correctness,
`NotBeforeDue`, `OneShotOnce`, `NoSilentLoss`, `RevokedStaysSilent`,
`FirstComeFirstServed`, and `NoOversleep` under the further hypothesis that other
threads pass no delay. `NotBeforeDue`, `OneShotOnce`, `RevokedStaysSilent` and
`FirstComeFirstServed` are what the steps of `TaskBoard` allow, so the run checks them
through `ImplementsTaskBoard`. The inductive invariant is made of named parts:

* `Apart`: the places an entry can be in are disjoint. Without it a move between the
  queues could copy an entry.
* `DueInv`: the clock reading of the batch is not in the future.
* `StartsInv`: a one-shot entry that was started is nowhere any more. `OneShotOnce`
  alone is not inductive: it says nothing of the queues.
* `RevokedInv`: what the worker dropped is not held, and is not the entry that it
  has already found alive.
* `OrderInv`: immediate entries of the batch are older than those of the queue,
  and none is ever kept back. This needs `DueInv`, as the one clock reading must
  be late enough for all of them.
* `SleepInv`: at each point before the sleep, what the deadline does not cover is
  already due.

The theorem `Refinement` of the same module proves that `Spec` of `Scheduler`
implements `TaskBoard!Spec` under the mapping of `Board`: initial states map to
initial states, and each action to a step of the board or to none. The invariants
above say what the mapped steps need: `DueInv` that a task that is called is due,
`RevokedInv` that it was not revoked, `OrderInv` that no older immediate task is
passed over.

`StateThingyProofs` proves of `Spec` of `StateThingy`, for any sets of ids,
priorities and pictures: type correctness, `DanglesOnlyByNotFound` and `RetryPaced`
unconditionally; `DisplayingLive` and `FrameFresh` when the service answers no
404; `NothingForgotten` and `DarkOnlyWhileAsking` when moreover it does not
answer 204, and answers a request about an id with that id. The runs `states` and
`states_answers` check the same properties under the same hypotheses. `WorkInv`
and `DarkInv` are the properties strengthened to the middle of a JSON object, where
a state whose member is still to come counts as taken care of; `PaceInv` bounds
the backoff of all states, whether or not they are in a retry, by who has set it.
`PointerStep` shows for each step but a 404 for the displayed state that a valid
pointer stays valid; both `DisplayingLive` and `DanglesOnlyByNotFound` follow.

`ConnectionProofs` proves of `Spec` of `Connection`, for any number of pieces, any
kinds of handlers and ways to leave, with transfers that break and sends that are
cut, from `ConnectionAssumption` alone: type correctness, `PendingKept`,
`WireIntact` and `ClosedWhenComplete`. Its invariant:

* `OneAnswer`: whatever could still give an answer (a read, a task, a local handler)
  excludes the others, and before the answer nothing is posted, sent or waiting.
  Without it a second head could follow the first.
* `InFlight`: no piece is in two places, the head comes first and the last word of
  a failed transfer last, and the connection holds the lifetime of one piece at a time,
  but for that last word. This is why one place for the next send is enough:
  what comes while one piece is sent and one waits can only be `Again`
  (`Overtakes`).
* `InOrder`: while the other end is there and nothing was cut, what is being sent,
  what waits and what is posted are numbered on from what was sent. `WireIntact`
  alone says nothing of what is still to be sent.

`ExchangeProofs` proves of `ExchangeSpec` of `Exchange`, for requests of any length with
any number of header fields, and for any sizes of reads, from `ParserAssumption` (what a
client may send: a URL has no blank and no line break, a field no line break; a body's
length is told by one field and by no other, which may yet be a content-length without a
number, have no colon or repeat others):

* `ParsedAsSent`, if each read gets all that it has room for or all that is left
  (`Bulk`). The hypothesis is not for the proof's sake: without it the property is false of
  the code, as the run `parser_segments` shows. The run `exchange` has the same
  bound. The inductive invariant is `ParserInv`: besides types, `SoFar`, that the parts of
  the request that were parsed are those that were sent, where for some number d of lines
  the map holds of each key among the first d the last value (`Fields`); and `Carried`, that the buffer and what was not read yet are together the rest of
  the text, with padding behind it only when all was read. `LastLines` is unfolded one line
  at a time, as the parser reads them. In `ParseBody` the content-length is found again in
  the map, which is where "by no other" is needed (`LengthRight`).
* `ExchangeIsConnection`: each step is one of `Connection` or leaves it alone. So the
  theorems of `ConnectionProofs` hold of an exchange (`ExchangeInOrder`).

`HttpClientProofs` proves of `Spec` of `HttpClient`, for any number of requests, bodies,
buffers and chunks of any size, any schedule of the two threads and transfers that fail,
from `HttpAssumption` alone (a chunk is not larger than the buffer, sizes are
positive): type correctness, `StreamIntact`, `NothingTakenIsLost`, `LeaseStable`,
`StaleOnlyIfBroken` and `SilentAfterAbort`. Its invariant says of each request:

* `Begins`: until the http thread takes it, there is no transfer and nothing in the buffer.
* `Intact`: the buffer holds consecutive bytes of the body, which end where curl is or,
  when curl keeps a chunk, as far into it as `skip` says. `StreamIntact` alone says
  nothing of the buffer, and `skip` is the one thing that joins the two sides of a pause.
* `Paused`, `OnePiece`: a chunk is kept only while its transfer is live; a piece is in
  one place of three (on its way to the main thread, with the receiver, on its way back),
  and while it is in one of them the buffer is full and not written to. This is
  `LeaseStable`.
* `Ends`: the last piece comes when the transfer is over and no other is under way, unless
  it failed: the exception of `StreamIntact` is here.
* `Got`: what the receiver has got is what was in the buffers before, and what is in this
  one if the piece was delivered (`Delivered`).

`ProxyProofs` proves of `ProxySpec` of `ProxyStream`, for bodies, buffers and chunks of
any size, any number of other requests on the same http thread, and transfers that
fail at any point: `ImplementsConnection` and `BodyRelayed`. It assumes
`ConnectionAssumption` and `ProxyAssumption`, whose part that is not about the code says
that the bound `MaxPieces` leaves room for the largest body. It builds on the two proofs
above: `HttpClientProofs` is instantiated, with its assumption as a lemma
(`ClientAssumption`), and `Inv` of `ConnectionProofs` holds since each step is one of
`Connection` (`StepMaps`). What neither of the two knows is `Link`, which joins them:

* `Owned`: the connection holds the request exactly as long as it is not dropped, and
  it was given an answer exactly when `on_response` was called.
* `Arrived`, `Ended`: a streamed body is one that does not fit the buffer, and the last
  callback is the last: after it there is no transfer, and the connection knows of a
  failure.
* `Lent`: the lifetimes that the client has given away are those of the pieces that the
  connection still has to write, which neither side can see alone.
* `Placed`: the piece in the buffer begins `MaxBufferSize` times its number into the body.
  Without it a piece could have the number the connection expects and the
  wrong bytes.

`Relayed` strengthens `BodyRelayed`: as long as the other end is there, what it got
ends where the piece that the connection holds begins (`UpToSpot`). That the buffer still
has that piece when the socket writes it is `PieceHeld`; that the end was reached when the
connection is closed is `ClosedComplete` of `Connection`, by the refinement.

`DataProofs` proves of `Spec` of `StatesFile`, for all ids and data (any sequences of
bytes, an id without a line break), any base of the length prefix and any number of
saves, stops and crashes, from `FileAssumption` alone: `StartKeepsFile`, `Durable` and
`SnapshotIsFile`. Two things are proved for it.

* The encoding: whatever list of strings `saveSet()` writes, `loadSet()` finds these and
  no others (`Decoded`), and of any other file, torn or not, it finds finitely many
  (`LoadSetTyped`). `PrefixSpells` says that the digits of a length give it back and
  that its last digit is the only one below `Base`; `LoadOneReads` that one string is read
  with what follows it untouched, and that what `scratch` held before does not matter when
  the string is whole; `ReadSoFar` that after k readings what is left of the file are the
  records from the k-th on; `NothingMore` that nothing is found in what is left at the end.
* The process: `Midway` carries the properties over a save: what is in the file and
  what is still in the `ofstream` are together what is to be written.

The model's recursions (a length into digits, a list of strings into a file) are functions
on an interval of naturals. The library's theorems on recursion and induction take an
operator, so `DataProofs` states both for sets: `Induction` of sets of naturals, from the
well-foundedness of their order, and `Recursion`, that a function defined by recursion on
such an interval exists and obeys its definition. `ExchangeProofs` does the same for the
text of a request.

`LifecycleProofs` proves of `Spec` of `Lifecycle`, for any number of signals, sent to any
threads, and any number of inputs, from `LifecycleAssumption`: type correctness and
`StatesOutlive`. Its invariant:

* `Destroyed`: what can change a state (the handler of the button, the io_context) is
  destroyed before the states are saved, and `main()` goes on only after that. This
  is the order of the members in `main.cpp` and the core of the argument.
* `InCallback`: the callback that destroys them runs in this order, once, and only
  after a signal.
* `PostedOnce`, `OnlyTheLast`: a signal's task is queued once, and only that of the last
  signal is alive. Without them a second task could begin the destruction anew.
* `Early`: before the first task nothing of this is made.
* `Caught`: signals are caught as long as there is a handler, so that a SIGINT that
  finds none has come after another one, or after the save.

`DataProofs` proves of `PanelSpec` of `Panel`, for any set of pictures of any size and
speed, any number of frames and any resolution of the wave, from `PanelAssumption` (a
picture has the types of `Display`): `ShownAsDrawn` and `MotionKeepsOrder`. The
invariants are small (`Drawn`, `Framed`); the work is arithmetic:

* `ColumnOnTape`: the remainder of C++, which is negative before a column comes in, puts a
  column where the tape has it, by the uniqueness of quotient and remainder
  (`AroundTheTape`), but for column 0 of a tape as wide as the panel.
* `RowMoved`, `MovedSteps`: rows of both halves move by the same amounts, by
  at most one more than their neighbour nearer to the middle, and never over it.
* `OpaqueIsExact`: what `set()` takes away by scaling to a luminance it gives back, for
  every colour, because no colour but black has luminance 0.
* `WiredAsTold`, `BitsApart`, `LedsApart`: the formulas of the drivers are the wiring that
  is told, and two places never share a bit or an LED.

* `FrameShowsLast`, `FrameIsExact`: of the pixels put in one place the last one is what
  the Ikea panel shows, and an opaque one that is alone there keeps its colour.

`DataProofs` proves of `CodecSpec` of `Codec`, for texts of any length and both signs of
`char`: `EncodeRoundTrips` and `DecodesAsWritten`; and for URIs, paths and queries of any
length and characters: `UriTakenApart`. It assumes only that bytes and characters of base64
are below 256 (`CodecAssumption`) and that the URIs that are composed are the ones RFC 3986
composes, in which no part has a character that would end it (`ComposedAssumption`).
A group of three bytes is a number, and its digits are what is left over by nested divisions
(`Nested`); where `char` is signed, a byte of 0x80 or more in the second or third place
takes one from the place before it (`Borrowed`), and this is never undone by another byte
of the group (`TempKeeps`, `GroupReadsBack`). `Flattened` and `GroupsFound` carry the
argument from one group to a text. For `decode()`, the shifts and masks of a group yield
what the bits of its digits spell (`BytesAreOctets`, `ByteIsOctet`), a group is read
exactly if digits reach to its end or, in the last group, to a '=' (`GroupDecoded`,
`GroupsEnd`), and this is so exactly if the text is as RFC 4648 has it, but for what follows
a '=' in the last place but one (`ReadAlike`).

`Parse` cuts a text where two parts meet (`SplitsWhereTheyMeet`), so each cut gives back one
part of the composed URI (`RestIs`, `AuthorityIs`, `ParsedAsMeant`). Without a scheme a ':'
anywhere is taken for the end of one, and then the result is never what was meant
(`TakenApartAsComposed`). The iterators go on with a shorter text each time, which is
recursion with a variant (`Descent`); by induction on the length of what is left, their
pieces begin at the first character and after each separator, in order, and nowhere else
(`Cuts`, `PiecesAre`). From this follow the segments of a path, by counting
(`PiecesByRank`), and the pair that `find()` stops at (`KeyIs`, `FindIs`).

*Only model-checked*: all liveness
(`DueTaskRuns`, `StopReturnsUnlessMissed`, `EveryClientAnswered`, `FreedUnlessProxied`,
`EveryClientServed`, `HangUpEndsTransfer`, `StatesAnswered`, `InterruptEnds`,
`PressHandled`): TLAPS proves nothing about `ENABLED`, hence about fairness.

## 5. Not modelled, and why

* The renderer with several callbacks and deadlines: the program has one callback.
* SPI and GPIO output, brightness by time of day, the simulators in a window: I/O.
* `color/color.h`: its arithmetic is called by no part of the program. jq: a wrapper of
  a library that nothing calls. Deployment: shell and Python around the binary.
* What fails in `main()` before it waits, and its flags.
* A negative `content-length`, bytes that a client sends after its request,
  a file that cannot be written (`state_thingy.cpp:83-85`), loss of power, redirects and empty bodies of responses.
* The contents of `State::data` and the headers that `WebProxy` copies: data that
  no property tells apart.

## 6. Plan

Done: the modules of section 2, in this order: `Scheduler` with its proofs,
`StateThingy` with its proofs, `HttpClient`, `Connection`, `RequestParser`, `StatesFile`;
then the abstract `TaskBoard` with the proof of the refinement, the compositions
`Exchange` and `ProxyStream`, `Lifecycle`, the functions, and the proofs of `Connection`,
`HttpClient`, `StatesFile`, `Lifecycle`, `ProxyStream` with its refinement, `Panel`,
`Exchange` with its parser, and `Base64`.

To come, models:

1. `LatestWins`, the slot of which only the last content runs, as the abstract
   specification of `State::work`, `_main_work` and `_render`.
2. `Renderer` with several callbacks and deadlines, if the program ever adds a
   second one.
3. Redirects and empty bodies in `HttpClient`; header lines without a colon in
   `HttpClient` (`http.cpp:274`).

