# A TLA+ verification of cczoecpp

cczoecpp is a C++ network framework built on user-level threads. Fibers
(ucontext) are executed by the worker threads of a scheduler; an IO manager
adds epoll events and timers; hooks replace blocking system calls by
"register, yield, retry"; sockets, a TCP server and an HTTP server sit on top.
The hard part is at the bottom: who may run a fiber when, who wakes it, and
what the threads do to each other between two lines of code. Above that, what is
hard is bytes that arrive in pieces: reads, writes, blocks and buffers that end
anywhere. The project models both.

## Inventory

| Part | State | Operations | What makes it hard | What makes it correct |
| --- | --- | --- | --- | --- |
| Fiber (`Fiber/`) | `m_state`, `m_ucp`, per thread `t_fiber` | `resume`, `yield`, `reset`, `setIdle`, `mainFunc` | state changes and the context switch are separate, without a lock | one thread per stack, only saved contexts are entered |
| Scheduler (`Scheduler/scheduler.*`) | task list, stop flag, idle count | `start`, `run`, `schedule`, `stop`, `idle` | several workers, wake-ups from anywhere, stop against late tasks | no task lost, doubled or run twice at once; stop terminates |
| TimerManager (`Timer/`) | ordered set of timers, rwlock | `addTimer`, `cancel`, `reset`, `refresh`, `getExpiredCb` | collection is several steps, cancel races it | cancel is final, one-shot runs once, never early, eventually |
| IOManager (`Scheduler/iomanager.*`) | table of fd contexts, registered events, pending count, epoll | `addEvent`, `delEvent`, `cancelEvent`, `cancelAll`, `idle`, `tickle` | outdated epoll results, edge triggering, growing table | one registration, one wake-up; nobody stranded |
| Hook, FdManager (`Net/Hook/`) | hook flag, fd contexts, timeouts | `do_io`, `connect`, `sleep`, `close`, ... | timeout against event, close against registration | every waiting call returns |
| ByteArray (`Net/ByteArray/`) | block list, position, capacity, size | typed reads and writes, growth | block boundaries, variable-length integers | what is written is read back |
| Socket, Stream (`Net/Socket/`) | descriptor, connected flag | `connect`, `accept`, `send`, `recv`, `readFixSize`, ... | partial reads and writes | exact lengths or an error |
| TcpServer, HttpServer, servlets (`Net/Server/`) | listening sockets, stop flag, servlet table | `bind`, `start`, `accept`, `stop`, `handle` | stop against accept | accepted clients are handled |
| HttpSession, HttpParser, messages (`Net/Http/`) | read buffer, parser result | `recvRequest`, `sendResponse` | requests that arrive in pieces | one request per parse |
| Thread, mutexes, semaphore (`Thread/`) | pthread handles | create, join, lock | start-up of a thread | joins, mutual exclusion |
| http_parser (`Net/Http/parser/`) | state, flags, lengths, counters | `http_parser_execute`, `http_parser_parse_url` | 60 states, items cut anywhere, two ways to frame a body | every byte is delivered once, in order; lengths are kept |
| Log, Config (`Log/`, `Config/`) | appenders, levels; variables, listeners | log, `addAppender`; `Lookup`, `setValue` | lists changed while read | - |
| Address, utils | none of their own | conversions | - | - |

How the parts call each other: a worker thread executes `Scheduler::run`, which
takes fibers from the list and resumes them; when the list is empty it resumes
the thread's idle fiber, which for an `IOManager` is the epoll loop. A hooked
system call registers the running fiber with `addEvent`, and a timeout with
`addTimer`, and yields. The epoll loop calls `getExpiredCb` and `triggerEvent`,
which call `schedule`. `TcpServer` schedules an accept loop, which schedules a
handler for every client.

`PROJECT.json` lists the same parts with their status, and the hazards (what is
hard to test, at its line).

## Modules

`Scheduler.tla` - the scheduler and its fibers. Per thread: `pc` (where it is in
`run`, `resume`, `yield` or a callback), `stack` (on whose stack it executes),
`t_fiber` and the local `task`; per fiber: `m_state` and `m_ucp`, which keeps of
a saved context only where it continues. `Poll`, `Resume`, `SwapIn` are `run` and
`resume`; `TaskArm`, `TaskYield`, `SwapOut` are a callback that registers itself
somewhere and yields; `TaskFinish` is `mainFunc`; `IdleResume` and `IdleYield` are
the idle fiber; `Start`, `Stop`, `StopDrained`, `StopJoin`, `Destroy` are the
owner. `Wake` is whoever schedules a suspended fiber, and nothing keeps it from
acting at once: before the fiber has yielded, or while it is yielding. A second
thread then finds the fiber RUNNING, and `resume` aborts the process, or READY and
not yet swapped out, and executes on a stack that is in use (`proc = "corrupt"`, after
which the model says nothing). `ExitOutcomes` names what the end of a context
without `uc_link` does: end the thread (as the manual says) or the process (as glibc
does it); every run allows both. One rule is the caller's: `reset` is called, as the
tests do it, when the last thread has left the terminated fiber (`OwnerReset`).

`TaskPool.tla` - what the scheduler promises: tasks are taken in order, each by one
worker, which is its only executor until the task suspends itself or finishes. A
worker needs some time to leave a suspended task, and if a second worker takes the
task meanwhile the pool may fail; nothing else makes it fail. `Scheduler` refines it
(`ImplementsPool`): a task is active from the moment `run` takes it until it gives
itself to a waker or its last `swapcontext` is complete, and is being left up to the
end of that `swapcontext`.

`TimerManager.tla` - timers, their callbacks, the clock and the pollers.
`getExpiredCb` is `ReadNow`, `TestEmpty`, `Collect`; `ScheduleExpired` is the loop in
`idle` that schedules the result. As the set is ordered by `m_next` and the expired
timers are a prefix of it, a plain set is enough. `reset` releases the write lock
twice; `DoubleUnlock` names what that may do to the lock.

`IOManager.tla` - the table of contexts, registered events with the scheduler,
callback and fiber of each, the callers of `addEvent`, and the pollers with the
results `epoll_wait` gave them. `AddEvent`, `AddResize`, `AddBody` are the three
locked sections of `addEvent`; `DelEvent`, `CancelEvent`, `CancelAll` are one step
each, since looking up a context and using it commute with a change of the table;
`EpollWait` and `ProcessEvent` are the loop of `idle`. The kernel (`EpollCtl`,
`BecomeReady`, `Reported`) is external: edge-triggered, with hang-ups reported
unasked. A context is a pair of fd and number because the table can drop and remake
one. The pending count wraps at `CountMod` as a `size_t` does at 2^64; the history
variable `drift` counts the events that a poller counted off although they were not
registered.

`Hook.tla` - the hooked system calls with `FdManager`. Per fiber: where it is in its
call, which call, and `timeInfo->cancelled`; per descriptor: its `FdCtx`, who waits
for which event, and the kernel's view (open, `O_NONBLOCK`, ready, watched by epoll).
A descriptor number is used again; `gen` counts its uses. `Call`, `TryReturns`,
`TryAgain`, `Register`, `Resume` are `do_io` and `connectWithTimeout`, cut where
another thread, the poller or a timer can come between; `Close`, `CloseDel`, `CloseFd`
are `close`; `Report`, `Collect`, `RunTimer` are the poller; `SetFl`, `SetNbio`,
`SetTimeout`, `Sleep`, `Usleep` the rest. `SetFl` gives the kernel `O_NONBLOCK`
whatever the user asked for, as the hooked `fcntl` does; a registration that fails in
`connectWithTimeout` throws, and nobody catches it (`proc`). The variable `workers`
says whether all fibers share one thread, so that a call is only interrupted where it
yields. Of `IOManager` it keeps who waits and what epoll watches. `Dangling` names
what a condition timer may do whose callback refers to parameters that are gone.
`Disciplined` states rules the code leaves to its user: one reader and one writer per
socket, nobody uses a descriptor that is being made or closed, with many workers
nobody closes one in use, numbers are not reused before the calls on the former use
have returned, and `start()` is not called while a `stop()` takes effect.

`TcpServer.tla` - composes `Hook` with the accept loop, the task of `stop()` and
handlers that make any hooked call on the accepted sockets.

`bytearray.tla` - `ByteArray` as operators on a record. Blocks are put one behind the
other, the current block is a number and null the number after the last; `write`,
`read`, `addCapacity`, `setPosition`, the socket buffers and files move the current
block and the position as the code does, separately. Integers are encoded with `Radix`
in place of 0x80; `Power`, `Number` and `Digit` are what its shifts and masks compute,
as recursive functions. `FlatBytes.tla` is what it promises, a sequence of bytes with
a position; `ByteArrayUse.tla` is a caller, whose array refines it (`IsFlat`).
`Receive` is `SocketStream::read`: the socket fills the blocks behind the data, with
an item that a peer encoded or with anything, and the position stays, so that an item
in a later block, or across two, is read back next. `Careful` states the rules under
which that holds: no operation ends exactly with a block, `setPosition` only from the
first block, `writeToFile` only from the start of a block, receiving only at the end
of the data. The rule for `setPosition` is what the code can do (it counts blocks from
the current one): data that was written past the first block cannot be gone back to.

`http_parser.tla` - `http_parser_execute`: every state of the switch as an operator on
the parser's record; `Consume` is one turn of the loop, `StartCall` and `FinishCall`
its beginning and end, `EndOfInput` a call with no bytes. A symbol is a character, a
letter for its class, or the rest of a keyword that is compared letter by letter.
Callbacks are collected in `out`. The loops inside `s_header_field` and
`s_header_value` count their bytes when they end: `run` is how far such a loop has
come, and `COUNT_HEADER_SIZE` adds it at once, as the code adds `p - start`.
`ParserCalls.tla` feeds it inputs put together from pieces in any order, in buffers
that end anywhere, with callbacks that fail.

`http_parser_url.tla` - `http_parser_parse_url` and `http_parse_host`. Offsets and
lengths are cut to `OffMod`, which stands for the 2^16 of their `uint16_t`; the port
is added up digit by digit and checked behind each. `UrlFields.tla` applies them to
every text up to a length.

`HttpMessage.tla` - requests and responses as objects and as text, and
`HttpRequestParser`: its callbacks applied to `http_parser`. `HttpSession.tla` is one
connection of an `HttpServer`: `recvRequest`, `sendResponse` with `writeFixSize`, the loop
of `handleClient`, and a client that writes with `HttpRequest::dump` and reads with an
`http_parser` of its own.

`MC*.tla` - definitions for TLC: symmetry, which caller uses which events, the
pieces, URLs, requests and items.

`SchedulerProofs.tla` and `PlaceProofs.tla`, `TimerProofs.tla`, `IOManagerProofs.tla` and
`IOTableProofs.tla`, `HookProofs.tla`, `ByteArrayProofs.tla`, `ParserProofs.tla` - theorems
about the modules they extend (see Proofs).

Definitions headed "Fault" are mutated forms of the definition that follows; no
specification uses them. They show that a property notices the mistake they
make.

## Runs

| Run | Bounds | Shows |
| --- | --- | --- |
| `scheduler_safety` | 2 threads, 3 tasks, one suspension each, one reset; wake-ups at any moment, both `ExitOutcomes` | two threads share a stack, an unsaved context is entered and an assertion fails only inside the window from arming to `swapcontext`; every task in one place; refinement of `TaskPool` |
| `scheduler_live` | 2 threads, 2 tasks, one suspension, wake-ups at any moment, both `ExitOutcomes`, fair | tasks finish; stop terminates and returns last. Excepted by name in the properties: a task that has suspended itself when `stop()` comes, a wake-up so early that the process did not survive, and the process that glibc ends with the first idle fiber |
| `scheduler_doubleresume` (violation) | 2 threads, 2 tasks | the assertion of `resume` fails |
| `timer_safety` | 2 timers, 2 pollers, interval 1, clock to 2, one reset or refresh, fair | cancel is safe and final, not early, fires |
| `io_safety` | 2 callers with callbacks, 2 pollers; descriptor 5 shared, 9 and 5 beyond the table, 3 refused by epoll | no stranded waiter; a resize that comes late loses no context but those beyond the size it asked for (`Droppable`) |
| `io_hostile` | reader and writer on one descriptor, hang-ups, 2 pollers, fair | no stray wake-up; the pending count is off by exactly what pollers counted off unregistered; a crash needs a context with two users; events wake their waiter |
| `hook` | accept loop, stop task, 1 handler; 2 descriptor numbers used up to twice; one worker and many; fair | waiters are known to the IO manager, no worker blocks, contexts belong to the open socket, stop ends the accept loop |
| `bytearray` | blocks of 3 bytes of 4 values, data up to 5, items of five kinds, written or received, `Careful` | no null block, items read back, refinement of `FlatBytes` |
| `bytearray_blocks` (violation) | blocks of 3, data up to 6, not `Careful` | an item is read back wrong |
| `parser` | 18 pieces, up to 6 of them, all types, header limit 50, lengths to 30 | no assertion fails; bytes, order and lengths of callbacks; one framing; end of input |
| `url` | 12 characters, texts up to 5, alone, behind `x://` or behind `x://xx`; with and without CONNECT; `OffMod` and largest port 10 | fields lie in the text and put together are the URL; host; which ports are accepted, and as what |
| `session` | 3 requests, 2 of them sent, up to 3 reads or writes, buffer of 46 | requests received as sent or refused, responses readable, answered |

What the properties say is written above each of them. The less obvious ones:

- `ExclusiveStack`, `AbortsOnlyArmed`, `EntersSavedContext` (`scheduler_safety`): the
  code has one window in which a fiber can be resumed twice, and these say that it has
  no other. `NoAbort`, which denies the window too, is what `scheduler_doubleresume`
  refutes.
- `CrashNeedsBoth`, `PendingCount` (`io_hostile`), `Cancellable` (`io_safety`): the
  same for the IO manager. The null scheduler, the drifting count and the dropped
  context are in the model, and the properties say what it takes to meet them and how
  far they go.
- `PortValue` (`url`): with the port replaced by 1 the URL says whether everything
  else in it is right; then the port is accepted exactly if its number is not larger
  than the limit, whatever zeros it begins with, and is stored as that number.
- `WaiterKnown` (`hook`): a waiting fiber is registered for its event, on an open
  descriptor that epoll watches, and nobody else is registered. It takes a missed
  `cancelAll`, a timer that outlives its call or a reused number to break it.
- `OwnContext`, `NeverBlocks` (`hook`): what the user asked for (`FdCtx`) and what the
  kernel does are two flags that must never be confused, across reuse of numbers.
- `StopEnds` (`hook`): the accept loop waits, is about to wait, or has just been given
  a client when `stop()` comes; it ends in each case.
- `AllDelivered`, `BodyFramed`, `CallbackOrder` (`parser`): wherever buffers end, each
  byte of an item is delivered once, a message is complete when as many bytes were
  delivered as announced, and callbacks keep the order the request parser relies on.
- `Genuine` (`session`): `recvRequest` feeds the parser the whole buffer again after
  every read. That this never makes another request out of a cut one is not obvious;
  it holds when the body is not longer than the header.
- `OneForOne`, `ClientReads` (`session`): the client's parser is at a message boundary
  exactly when the server has written a response, whatever the writes took.

Why the bounds are enough to be interesting: two threads are what it takes for two to
hold the same fiber, timer or descriptor; a third task lets one be queued while two
run; one suspension and one reset bring every fiber through all its states and into
the list a second time. Two pollers with one result each reproduce outdated results. A
clock of two ticks lets a recurring timer fire twice. Two uses of a number are what
reuse takes; a timer of the first can meet a call of the second. Five bytes in blocks
of three make items cross a block, lie in the second one, and begin and end next to
the border. Texts behind `x://xx` are
longer than `OffMod`. A buffer of 46 holds the longest request, which has a query, a
fragment and two headers. Six pieces hold a first line, three fields, the empty line
and a body or a second message; the header limit, the largest length and the largest
port are scaled down so that inputs reach them. Three turns cut a request or response
twice, anywhere. The theorems below do not depend on these bounds.

`CHECK_DEADLOCK FALSE` is set where the system may really stop: after `stop()`, after
an abort, with a broken lock, when all callers have been dropped, at the end of
the input, or when a connection is closed. `bytearray` checks deadlock.

Each module also has a type invariant. It is listed in a run where it says more
than types (`parser`: the arithmetic on lengths stays in range). Those of the
scheduler, the timers, the IO manager, the hooks and `ParserCalls` are theorems; the
others hold on the same instances.

### Fairness

Only what the system's scheduling gives: weak fairness of every worker thread
(the kernel runs it; a blocked `epoll_wait` returns when something is ready), of
the steps inside `stop()`, of the wakers (an armed event or timer eventually
occurs) and of the clock. Calls the program may or may not make (schedule, add,
cancel, stop) are not fair. Callbacks are assumed to return.

In `hook` a handler's call that has the worker goes on (weak fairness), and the
accept loop and the stop task get a worker in the end (strong fairness): the
scheduler's list is a queue, so a fiber that is ready is not passed over for
ever although handlers come and go. No event and no timeout is assumed to
occur. In `session` the fiber of the connection takes steps until `handleClient`
returns; a blocked read ends with bytes, with the client leaving, or with the
receive timeout that `TcpServer::accept` sets.

## Proofs

TLAPS checks these for every value of the constants that satisfies the named
assumption of the module (finitely many threads or descriptors; threads, tasks
and the main fiber distinct; natural bounds). Some need a hypothesis on the
constants, which is stated in the theorem and met by the run that checks the same
property; what happens without it is listed under Known deviations. All others have
no hypothesis.

| Theorems | Hypothesis | Run that meets it |
| --- | --- | --- |
| `WaiterRegistered`, `WakesOnlyWaiters` | `SingleKind`: only fibers wait, or only callbacks | `io_safety`, `io_hostile` |
| `WaiterAlwaysKnown`, `ContextAlwaysOwn` | `Disciplined` (see `Hook.tla`) | `hook` |
| `CallsNeverBlock` | `Disciplined`, and nobody turns `FIONBIO` off | `hook` |
| `NeverCrashes`, `WrittenIsRead`, `BlocksAreFlat` | `Careful`; `ItemsFit`: an item has no more bytes than its encoding holds | `bytearray` |

`SchedulerProofs`:
- `TypeCorrect`, `IdleCountCorrect` (the idle count is the number of threads in their
  idle fiber), `ThisCorrect` (`GetThis()` in a callback is its own fiber). The
  inductive invariant `BaseInv` adds to the type invariant what each `pc` says about
  `stack`, `t_fiber` and `task`. The idle count needs that a step moves one thread
  into or out of the finite set of idle threads.
- `StackCorrect` (`ExclusiveStack`), `AssertionsHold` (`AbortsOnlyArmed`),
  `SavedContexts` (`EntersSavedContext`), `PoolRefinement` (`ImplementsPool`), for
  wakers that act at any moment. The inductive invariant `TaskInv` says for every task
  where it is: held by one thread, with `m_state` determined by the thread's place
  (`HolderInv`); or in the list, once; or fresh; or with its waker (`ListInv`); and
  besides, at most one thread is still leaving it (`LeaverInv`). A task that is due to
  be resumed is INIT or READY unless a thread is between arming and `yield`
  (`StateInv`), which is why only that window fails the assertion. `ExclusiveStack`
  alone is not inductive: it depends on the list having no duplicates and on wakers
  holding only tasks that gave themselves away.

`PlaceProofs`: `PlaceCorrect` (`OnePlace`: neither lost nor doubled) and `StopCorrect`
(`JoinedAllDone`). That a task is in at most one place follows from `TaskInv`;
`PlaceInv` adds that it is in at least one, and the counts of threads are turned
into statements about one thread. `StopInv` says that while the list holds a
task that never suspended itself, some thread is still going to look at the list
(`PollsAgain`): `stop()` leaves none behind although running tasks may still append.

`TimerProofs`: `TimerTypes`, `CancelIsSafe`, `CancelWins`, `OneShotCorrect`, `NeverEarly`,
from one invariant: a callback that is in flight or has run belongs to a timer
whose `m_cb` is gone (if one-shot), a timer with `m_cb` is in the set, and the
pollers' `now` is never ahead of the clock.

`IOManagerProofs`: `IOTypes`; `WaiterRegistered` (`NotStranded`) and `WakesOnlyWaiters`
(`NoStrayWake`). Every step is shown to have one of four effects on the
contexts (`Quiet`: none, `Registers`, `Triggers` some events, `Deletes` one), and the
invariants are proved per effect. `SlotInv` says that an event is registered exactly
when its slot has a scheduler, and that its handler then names a caller; `WakeInv`
that a caller waits exactly where a context would wake it, and at one place only.

`IOTableProofs`, without a hypothesis: `TriggerHasScheduler` (`CrashNeedsBoth`): a
poller triggers something only if an event of the context is registered, a registered
event has a scheduler (`SlotInv`), and an event that was never registered has nobody
to schedule; so a null scheduler needs one event registered and the other one
registered before. `CountExact` (`PendingCount`) counts pairs of context and event,
with a count that wraps at `CountMod` and a `drift` that takes up what
`iomanager.cpp:373` counts off too often. `RegisteredFound` (`Cancellable`): a size
that a caller computed may be old when it gets the write lock, but it is never below
the size at the start nor below what its descriptor needs (`SizeInv`, `LookupInv`), so
that only a `Droppable` descriptor can be cut off and no context is made twice below.

`HookProofs`: `HookTypes`, `WaiterAlwaysKnown` (`WaiterKnown`), `ContextAlwaysOwn`
(`OwnContext`), `CallsNeverBlock` (`NeverBlocks`), for the composition with
`TcpServer`. Steps are put into nine kinds by what they do to calls, registrations and
descriptors. `BaseInv` is what each `pc` says about the call of its fiber, its
registration and the task of `stop()`; `DisciplineInv` adds which uses of a number are
still in calls (`UseInv`), what epoll watches (`PollInv`), to whom contexts belong
(`ContextInv`), and that a fiber about to register still has its descriptor
(`ArmedInv`), so that `epoll_ctl` works and `connectWithTimeout` throws nothing;
`FlagInv` relates the two non-blocking flags. None of the three properties is
inductive without the uses: a call that outlives its descriptor would break them when
the number is opened again.

`ByteArrayProofs`: `NeverCrashes` (`NoCrash`), `WrittenIsRead` (`ReadBack`) and
`BlocksAreFlat` (`IsFlat`, the refinement of `FlatBytes`), for every size of a block,
radix, number of groups and width. The inductive invariant is `ArrayInv`: the array is
`Good` (current block and position are one address, and a byte is left behind the
data, so that the current block is never null), and every item of the history has its
bytes at its place. Items written and items received are in the history alike, in any
block and across several. On the way: the digits of a number put together are the
number (`NumberOfDigits`), so that `readF*` inverts `writeF*` and `readUint*` inverts
`writeUint*` for every width (`FixedBack`, `VarintBack`, `ItemBack`), a reader finds
the end of a variable-length integer (`VarintLenFacts`), `addCapacity` makes room and
keeps what is there (`Grown`), two writes are one (`WriteTwice`), and `writeToFile`
from the start of a block writes the data behind the position (`FileWritten`). Those
about recursive functions use induction in the form of `SetInduction`: the intervals
`0 .. n` of the counterexamples have a least one by inclusion, which the theorems
about finite sets provide.

`ParserProofs`: every property of `ParserCalls` that the run `parser` checks, without
a hypothesis: `ParserTypes` (`TypeOK`), `ParserAsserts` (`NoAssert`), `ParserDelivers`
(`AllDelivered`), `ParserFrames` (`BodyFramed`), `ParserOneFraming` (`OneFraming`),
`ParserEof` (`EofDetected`) and `ParserOrder` (`CallbackOrder`, an action property).
They hold for inputs of any bytes and any length, buffers that end anywhere, any
header limit, any largest length of 16 or more (`ParserBounds`) and any callbacks that
fail (`CallsAssumption`). All come from one inductive invariant, `ParserInv`, which
TLC found to hold on the instance of `parser` before it was proved. It says what each
state of the switch stands for: which callback can have been the last (`OrderInv`),
which flags are set (`FlagInv`: chunks are read under CHUNKED and without
CONTENTLENGTH, CHUNKED comes with a Transfer-Encoding), where `content_length` is
known and positive (`LengthInv`), which item is marked (`MarkInv`), and that the bytes
still wanted of a body are those not read yet and those marked (`Expected`). No
property is inductive without it: `BodyFramed` needs the length to agree with the
mark, `NoAssert` needs the header count to be 0 where a chunk size begins and at most
one mark where a buffer ends, `OneFraming` needs that CHUNKED is set only under a
Transfer-Encoding, since that is what the refusal of a second framing looks at.
`TypeOK` includes that a parser without error has counted no more than the limit,
however far an inner loop passes it before it counts. The proof follows the switch: a
parser that is `Ready` for a byte is `Fin` after it, one lemma per handler, and a
handler that goes on to another (REEXECUTE) uses the lemma of the other. `Linked`
carries the order of callbacks through several in one byte; `ByteStep`, `CallStep`,
`ReturnStep` and `CloseStep` turn that into the invariant's next step.

Only model-checked, and why:
- all liveness, which is out of the prover's reach;
- `HostIsHost`, `Reassembled` and `PortValue` of `UrlFields`: `http_parser_parse_url` and
  `http_parse_host` are folds over the whole text, so what they return for every text is
  an induction over the text, with an operator as the induction hypothesis;
- `Genuine` and `ClientReads` of `HttpSession`: they compare what a parser has made of a
  whole buffer with the message that was printed into it, which is again an
  induction over the text.

## Known deviations

Shown by a run:

- `Fiber.cpp:143` (`scheduler_doubleresume`): `do_io` registers the fiber before it
  yields; the event may schedule it while it still runs, and a second worker's
  `resume` fails its assertion. (If the fiber is already READY but not swapped
  out, the second worker even enters its old context: `proc = "corrupt"`.)
- `bytearray.cpp:695` (`bytearray_blocks`): `setPosition` walks from the current block
  instead of the first. (Also, though not in that trace: after a write that ends
  exactly with a block, `addCapacity` lets the next one overwrite that block.)

Met while modelling, and left to the reader or excluded by a rule or an
exception that the properties name. Scheduler, timers, IO manager:

- `Fiber.cpp:67`: after `stop()` a worker makes its terminated idle fiber INIT again
  and resumes it; `mainFunc` returns without `uc_link`, against `doc/04`. This is in
  fact how worker threads end (`NoContextEnds` fails in `Scheduler`). With glibc it
  ends the process, so that tasks that still run or wait in the list are cut off and
  `stop()` does not return: the exception `proc = "exited"` of `Finishes` and
  `StopTerminates`.
- `timer.cpp:81`: `refresh` clears the callback (`TimerFires` fails in
  `TimerManager`).
- `iomanager.cpp:44`: two pollers with results of one descriptor used in both
  directions; the second triggers an event that is no longer registered, through a
  null scheduler. `iomanager.cpp:142`: an old callback is preferred to the fiber that
  registers now. `iomanager.cpp:107`: two `addEvent` calls race and the table shrinks.
  (All three are in the model: the first is what `CrashNeedsBoth` allows, the third
  what `Droppable` excepts; `NotStranded` and `NoStrayWake` fail when `Kinds` has both
  fibers and callbacks.)
- A task that is suspended when `stop()` is called may be appended after the workers
  ended, so that it never runs or `stop()` spins for ever (the exception in `Finishes`
  and `StopTerminates`).
- A hang-up on a descriptor with one registered event decrements the pending count
  twice (the `drift` of `PendingCount`); `reset(ms, false)` keeps the old trigger
  time; `tickle` writes to the read end of its pipe; `epoll_wait` always waits up to 3
  seconds.

Hooks and servers:

- A condition timer captures its parameters by reference (`timerManager.cpp:42`,
  `hook.cpp:202`), which are gone when it runs: `Dangling`.
- The timeout may fire between `addTimer` and `addEvent`; the fiber then waits for
  its event without a timeout (`hook.h:75` counts two wake-up points).
- `sleep` yields before it arms its timer (`hook.cpp:101`): nobody wakes the fiber.
- `ioctl(FIONBIO, 0)` makes the descriptor blocking for the kernel too, so that the
  next hooked call blocks the worker (`NeverBlocks` fails with `FALSE` in `Fionbio`).
- With many workers, `close` may miss a fiber that is about to register; on any
  number of workers a number may be reused before a woken fiber of its former
  use has resumed (`WaiterKnown` and `OwnContext` fail without `Disciplined`).
- `connect` returns 0 without connecting when hooks are on; hooks are off unless a
  fiber turns them on (`scheduler.cpp:56` is a comment), but `accept` makes contexts,
  and so non-blocking sockets, anyway; `m_isClosed` is never set; `FdManager::get`
  with `autoCreate` reads beyond the table (`fdmanager.cpp:59`).
- `start()` between `stop()` and its task leaves an accept loop that spins on a closed
  socket.

Byte array and streams:

- Reading nothing at the end of a full block follows a null pointer; `writeToFile` is
  wrong in the middle of a block; `addWriteBuffers` takes `ncap > len` for
  `ncap >= len`; `readUint64` stops after five bytes; signed integers are never
  swapped; `writeStringF16` truncates the length; `bytearray.h` says big endian is the
  default, the constructor says little.
- `readFixSize` and `writeFixSize` for byte arrays return 0 on success.

HTTP:

- A request that is cut by a read is refused in most cases, as the parser goes on
  with the beginning of the buffer; a body longer than its header can be taken
  for the rest of one. Two requests in one read overwrite each other. `setBody`
  keeps the last fragment only. CONNECT requests are refused (`on_url` parses
  without `is_connect`). `m_close` of a request is never set, so responses always say
  keep-alive. The result of `sendResponse` is ignored.
- `HttpResponseParser` casts its object to `HttpRequestParser` (`HttpParser.cpp:121`);
  `ServletDispatcher` finds no servlet; `HttpConnection` is empty.

## Not modelled

- The length of waits (`epoll_wait`, `getNextTimer`, `tickle`): the models have an
  order of events and, for timers, ticks, not durations; with the fixed timeout the
  effect is delay.
- A clock that steps back. `getCurrentMs` is `gettimeofday` (`getInfo.cpp:18`), and
  `timerManager.cpp:8` has a TODO for it; the clock of `TimerManager` only goes
  forward, and `NotEarly` says nothing about one that does not.
- Descriptors 0 and 1 in `IOManager`. If one of them is the first for which the table
  has to grow, the size computed for it is 0 or 1 (`iomanager.cpp:106`) and the access
  in the next line is out of bounds. `IOAssumption` leaves them out.
- `Fiber::reset` by another thread between the last TERM and the `swapcontext` behind
  it; the model has the caller wait, as the tests do.
- Destruction while threads run, and lifetimes of captured references other than the
  condition timer's.
- `Thread`, mutexes, semaphore: a critical section, or the start of a thread, is one
  step. `Log`, `Config`, `Address`, utilities: conversions, formatting and tables
  without a second step that could meet the first.
- The rest of `Socket`: system calls with a log line. Servlets: `handleClient` never
  asks them. `TcpServer::bind`: one sequence before anything runs.
- Of `http_parser`: pausing, lenient headers, names of errors; the wrap of the 32-bit
  `nread` (a single buffer of 4 GB); and the bound of the innermost loop over a
  general header value (`http_parser.cpp:1516`), which passes over one character
  unseen in a value longer than `max_header_size` in one buffer, where the header
  overflows anyway. The rest of a keyword is one symbol and counts as one byte.
- URLs of 65536 bytes and more, beyond what the model says of them: fields still lie
  in the text, but they are cut, so that nothing else is claimed (`Exact` in
  `UrlFields`).

## Plan

1. *Done:* `Scheduler` with `TaskPool`, `TimerManager`, `IOManager`; theorems for the first
   two; `Hook` with `FdManager` and `TcpServer`; `bytearray` with `FlatBytes`; `http_parser`,
   `http_parser_url`, `HttpMessage`, `HttpSession`.
2. *Done:* theorems about the scheduler, timers, IO manager, hooks and the byte array:
   every safety property of these that a passing run checks, and both refinements, with
   early wake-ups, racing resizes and hang-ups in the model.
3. *Done:* theorems about `http_parser_execute` under any caller: every property of the run
   `parser`.
4. Left: the URL parser and the session for texts of every length, by a step-wise
   form of their folds (one action per character), about which an invariant can be
   stated as for `http_parser`.
