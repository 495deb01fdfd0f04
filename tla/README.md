# Pine: a verification project in TLA+

Pine is a small HTTP library in C++20 for Windows: a thread pool, coroutines that
run on it, a server and a client over blocking sockets, and the parsing and
formatting of HTTP messages. This directory holds TLA+ modules that model its
concurrent core, its messages, its ids and the type every function reports its
result with, TLC configurations that check them on small instances, and theorems
that TLAPS proves for every value of the constants.

## The system: inventory

| component | state | operations | hard behaviour |
|---|---|---|---|
| `thread_pool` (shared/include/thread_pool.h, shared/src/thread_pool.cpp) | task queue, `queue_mutex`, `condition`, `stop`, threads | constructor, `enqueue`, worker loop, destructor | wakeups, draining at stop, tasks that enqueue tasks |
| `async_operation` (shared/include/coroutine.h) | coroutine frame, promise, `cancelled`, the object itself | call, `co_await`, `cancel`, `await_resume`, destructor, two tasks in the pool | who resumes and who destroys a frame, futures taken twice, objects captured by `this` |
| `server` (server/) | `clients` and `mutate_clients_mutex`, listening socket, `address_info`, `is_listening`, four lists of callbacks | `start`, `accept_clients`, `stop`, `disconnect_client`, registrations | one thread accepts and serves with the mutex held, `stop` takes no lock |
| `server_connection`, `connection` | socket, `is_connected`, id | `start`, `receive_request`, `send_response`, raw receive and send, `close` | blocking `recv`, message framing by short reads, partial sends |
| `snowflake` (shared/include/snowflake.h, shared/src/snowflake.cpp) | fields of the id, `last_millisecond` | generation, packing, reading from a number, comparison | uniqueness under a clock that may be set, width of the fields |
| HTTP messages (http.cpp, http_request.\*, http_response.\*) | method, uri, status, version, headers, body | constructor, setters, `to_string`, `parse` | separators inside fields, texts that end early, messages cut or merged, offsets that wrap |
| `expected` (shared/include/expected.h) | a union of a value and an error, and the flag | constructors, assignments, `emplace`, `swap`, `value`, `and_then`, `map`, `map_error`, `or_else`, `==`, `!=`, destructor | operations of T and E that throw in the middle of a call |
| `client`, `client_connection` | connection, socket | `connect`, `listen`, `send_request`, `receive_response` | `connect` calls itself; the connection is never made |
| socket layer (wsa.cpp) | none | one function per socket call | errors of every call |
| errors (error.h) | none | codes and their texts | none |

How they interact: `server::start` calls `accept_clients`, which calls
`server_connection::start().await_resume()`; that coroutine awaits
`receive_request`, which awaits `receive_raw_message`. Every call of a coroutine
enqueues a task in the one `thread_pool`. Callbacks of the user run on the
accepting thread. A connection is given a snowflake when it is made; what it
receives is parsed, and what it sends is written, as an HTTP message. Every function
returns an `expected`. Everything else is calls.

What makes each component correct: the pool runs every task once, in order, loses
no wakeup and ends only when drained; an operation gives its caller its result and
its frame is resumed and destroyed once, in turn; the server's map agrees with the
clients it serves, `disconnect_client` disconnects, `stop` ends the accept loop and
frees each thing once; a connection delivers the bytes of a message whole; ids are
unique; parsing what was formatted gives it back; the flag of an `expected` names the
member that lives, also when a call has thrown.

## Modules

| module | what it is |
|---|---|
| `TaskExecutor` | abstract: tasks are accepted in an order, begun in it on free slots, and the executor leaves only when what it owed has finished |
| `ThreadPool` | `thread_pool` statement by statement: mutex, condition, worker loop, enqueue, destructor. Implements `TaskExecutor` (`ImplementsExecutor`) |
| `ThreadPoolProofs` | the theorems about `ThreadPool` |
| `AsyncOperation` | `async_operation`: a chain of operations, each awaiting the next, their promises, objects and frames, over the pool as `TaskExecutor` describes it |
| `AsyncOperationProofs` | the theorems about `AsyncOperation`: what a `co_await` delivers, who executes and who destroys a coroutine |
| `Server` | `start`, `accept_clients`, `stop`, `disconnect_client`, registrations, peers |
| `ServerProofs` | the theorems about `Server` |
| `Connection` | `receive_raw_message`, `send_raw_message` and `close` over a stream of bytes |
| `ConnectionProofs` | the theorems about `Connection` |
| `Http` | the parser and `to_string` of both kinds of message, as operators on texts |
| `HttpExchange` | one direction of a connection: a message is built with the setters, sent, received and parsed. Extends `Http` |
| `HttpParserProofs` | what `find`, the functions of the parser, `Lines` and `to_string` compute, for every text and message |
| `HttpProofs` | the theorems about `HttpExchange`, from those of `HttpParserProofs` |
| `Snowflake` | making, packing, reading and comparing ids |
| `SnowflakeProofs` | the theorems about `Snowflake` |
| `Expected` | `expected<T, E>` and `expected<void, E>`, for any choice of the operations of T and E that may throw |
| `ExpectedProofs` | the theorems about `Expected` |
| `MCAsyncOperation`, `MCHttp`, `MCExpected` | instances for TLC; the other modules need none |

The definitions whose names contain an underscore and a variation
(`Take_Back`, `Erase_Kept`) are mutants: plausible mistakes in the code that the
properties are shown to detect. No specification uses them.

### ThreadPool

A thread has a label in `pc`; an action is one access to shared state. `sleeping`
is the set of workers blocked in `condition.wait`: `Sleep` releases the mutex and
joins it in one step, `NotifyOne` removes any one member, `NotifyAll` all,
`SpuriousWakeup` one without reason, and a worker that left it must take the mutex
again (`Reacquire`) and test the predicate. A running task may call `enqueue`
itself (a worker at `run` may take the steps of a caller), as coroutines do.
`accepted`, `begun`, `finished` and `owed` are history and no guard reads them.

`enqueue` may be called until the destructor has returned, also after `stop`. The
code accepts such a task, and if every worker has exited nobody runs it. The model
reaches those states; no property is about them: `QueuedTaskRuns` speaks of a queue
with a worker left, and `DrainedBeforeDestroyed` of what was queued when `stop` was
set.

### AsyncOperation

Operation `i` of `1..Depth` awaits operation `i + 1`; the driver calls the first,
as `accept_clients` calls `start()`. `frame[o]` is the coroutine, `object[o]` the
`async_operation`, `promise[o]` the shared state of its future. Since
`initial_suspend` is `suspend_never` and no body of the library suspends other than
in an await of another operation, an inner call has ended when it returns, unless a
body of the user's awaits something else first (`Yields`). `cancel` is called by
whoever holds the object.

The constructor enqueues a task that resumes the coroutine if it is not cancelled
and then destroys the frame. When a worker begins that task, the coroutine is
normally running, or at `final_suspend`, or freed. All of that is undefined in
C++, so a behaviour of the model ends there and names the operation in
`undefined`. The run `async_lifetime` shows the shortest such behaviour. What
remains defined is what happens before a worker begins a task, what happens to
cancelled operations, and to those that suspended elsewhere. In all of it:

* a `co_await` never delivers: `await_ready` has taken the future that
  `await_resume` asks for again (`AwaitNeverDelivers`, proved; the run
  `async_result` shows the disagreement with the comment);
* no coroutine is leaked: one that has a frame has a live object, whose destructor will
  destroy it, and when the driver has dropped its object none of the chain is left,
  whoever ran, cancelled or suspended in the middle (`FramesOwned`);
* nothing undefined happens before a worker has taken a task
  (`UndefinedNeedsTask`).

The task of the constructor and the destructor of the object both destroy the frame.
Whichever comes second destroys one that is gone, or that runs: that too is undefined
and ends the behaviour (`Misdestroyed` says which), and the steps that destroy have no
guard that would keep it from happening. `LifetimeManaged` is violated by it as well,
later than in the shortest behaviour.

`server_connection::send_response` and `start` end with
`co_return make_error_code(error::success)`: the void operation reports success as an
error object whose code is 0 (in `Stored`, a void operation stores "error"). No await
delivers it, so no caller sees it.

Two steps of C++ are taken as one: suspending at an await that is not ready and
enqueueing the task of `await_suspend`; and unwinding the frame and storing
`operation_canceled`. The move operations are not modelled: nothing moves an
operation.

### Server

`Server` takes from `AsyncOperation` that an operation runs on its caller's thread
and that one that awaits another ends in an error, so `start()` of a connection is
one action, `Serve`, enabled when its first `recv` returns. It models the executions
in which no worker has yet begun a task of an operation: in the others the program
is undefined before the server's own behaviour matters.

The acceptor's labels follow the statements of `start` and `accept_clients`. Its
four loops over callbacks are the labels `ready`, `failed`, `attempt`,
`connection`, with `cursor` callbacks left. `stop` is five separate steps of
another thread, with no lock, and is called on a server that is ready, up to
`MaxStops` times; a `stop` made by a callback is the case in which the acceptor
takes no step meanwhile. `disconnect_client` is its lock and, under it, the lookup
with what follows. Peers may connect, and may send or close (`Speak`), and need do
neither. Two connections may have the same id.

`stop` deletes the address with `delete`, which `getaddrinfo` has not allocated with
`new`. That is undefined, and `DeleteAddress` has both outcomes a build may have: the
program breaks there, or the allocator takes the memory and the address is gone.

`undefined` again ends a behaviour: the address used or deleted after its delete,
the map accessed by two threads without a common lock (`Race`: one outcome beside
either order of the accesses), a vector of callbacks that grows under its loop, and
the mutex locked by its owner. Plain accesses to `is_listening` by two threads are
taken as atomic, as the compiler the project builds with makes them.

### Connection

One direction of a connection: a sender whose messages are only lengths (a byte is
the call that sent it and its place in the message), and a receiver that calls
`receive_raw_message` again after each message, as the loops of
`client_connection::listen` and `server_connection::start` do. `Recv(n)` is one turn
of the loop: `recv` may return any `n` bytes that fit the buffer and are on the wire.
`Send` is the one call of `send`, which may take a part: of as many bytes as the size
is when it is cast to an int (`Ints` values), while what it has taken is compared with
the size itself. It reports success, an error, or `message_size`. `Close` is called at either
end at any time, also during a `recv`; `Reset` loses what the line holds; a send may
still be taken after either. `close` is one step, so the reuse of a closed handle is
outside. The actions are the bodies of the coroutines: that a `co_await` of them
delivers nothing is the subject of `AsyncOperation`.

What a message is follows from the code alone: whatever ends in a read of less than
a chunk. So the model has no property that a message is received as it was sent
(none holds); it states what does hold: the stream is read in order and without
gaps (`StreamInOrder`), no message returned is a whole number of chunks
(`NoWholeChunks`), an orderly close loses such a tail and nothing else
(`EndLosesWholeChunks`), a send that reported success has brought all of its message to
a reader of the whole stream, and one of a size that fits no int never reports it
(`SuccessIsRead`), and a receive waits for ever only with whole chunks in hand
and a silent peer (`ReceiveStallsOnlyAtChunk`).

### Http and HttpExchange

A text is a sequence of members of the constant `Char`: a method, a version, a status
with its phrase, the name Content-Length and a number count as one character each, "CR",
"LF" and any other character as itself. `CharAssumption` says that those the parser
looks for are in `Char`, and `ToStringAssumption` that a number is one. The code
compares and copies them whole, except where `parse` skips one character of a first line
that it has not looked at, and so may split one of them: what is left then begins neither
a uri nor a status, and `parse` returns an error (`Splits`). A text cut within one of them
is outside the model. What `parse` does with a text is kept:
`find`, `substr` and `starts_with` on offsets from 0, a `find` that fails and gives
`npos`, differences that wrap (`% SizeMod`), and `at` and `substr` that throw past the
end. `try_get_headers` is a function from the offset, not a recursive operator.

`HttpExchange` builds a message with the setters (`edits` counts them), and sends its
text. At the other end there are two actions. `Receive(n)` is `receive_request` or
`receive_response` as the code has it: the `co_await` of `receive_raw_message` asks for
a future that was taken and throws (`AwaitNeverDelivers` of `AsyncOperation`), so every
receive, of whatever text, ends with `operation_canceled`, the text is lost and `parse`
is not reached. `Parse(n)` is the call of `parse` that stands behind that `co_await`,
on any first part of what was sent. That is more than `Connection` allows (there a part
ends at a short read); what holds for every part holds for those. A `std::string` holds
less than `npos` characters, hence its guard `n < npos`. An exception of `at` or `substr`
leaves `parse` as it is (`out_of_range`). Another program at the other end may send any
text of `PeerTexts`. There is one version, so `set_version` is left out. The setters and
a parse share no variable, so a setter after a parse is left out.

The properties are statements about `parse`, which is public and which the unit tests
call, and not about what a receive returns. They say what it makes of a message, whole,
cut or merged:

* a message is understood as it was built if no field has a separator in it, and
  otherwise only if one of its values runs on (`RoundTrip`; `WellFormed` says which
  separators count where, `RunsOn` which values);
* a message that was cut is refused, or taken for a whole one with the same first
  line, some of the headers and the beginning of the body (`CutIsPart`): nothing reads
  Content-Length;
* what arrives together with a message becomes part of its body (`RestIsBody`);
* `parse`, which returns its errors, throws for the texts `EndsTooSoon` describes and for
  no others (`ThrowsExactly`);
* a header takes nothing from outside its line, but where the colon is the last
  character of a line and the length of the value wraps (`HeadersStayInLine`);
* Content-Length is the size of the body, or absent with it, whatever the order of the
  setters, unless the caller set it or gave a body to the constructor
  (`ContentLengthTracksBody`). A message with one header set and a body has therefore two
  headers, where `SettersAndGetters` of http_request_tests.cpp expects one: a finding.

### Snowflake

The fields of an id have symbolic widths. `Tick` sets the clock to anything: it may
stand, go on or be set back. `last_millisecond` is a variable that no action changes,
as in the code; the sequence is therefore the uninitialised field, incremented, when
the timestamp is 0, and 0 otherwise. `CollideExactly` says which ids are equal: those
made in one millisecond, or a wrap of the timestamp apart, though the header calls an id
unique and says that the sequence counts those of one millisecond: a finding.
`NumberIsIdentity` says that
packing and reading are inverse and that both comparisons agree.

### Expected

An action is one call; its outcomes are built from four primitive steps (destroy,
construct in place, assign, set the flag) in the order of the statements, and which of
the operations of T and E throws is the choice. `Traits` are the pairs of types: void
or not, and the operations that may throw. A call ends "returned", "threw",
"terminated" (an exception left a noexcept function) or "undefined" (an operation on a
member that does not live); after the last two the program stops.

Of T and E nothing is assumed but which operations may throw. A copy that throws leaves
its source alone, as `const&` says. An assignment or a move that throws may have done a
part of its work: the content of either side is then kept or is `Gone`, which is all that
a type assigned member by member, like `http_request`, gives (`Garbled`).

The handlers of expected.h promise a strong guarantee that they do not keep:

* `construct` is noexcept: where a handler waits for an exception of T to put the old
  error back, the program is terminated (the run `expected_restore` shows it);
* the handlers that restore the old member, in `emplace` over an error and in `swap`,
  assign to one that was destroyed. The call ends "undefined"; `UndefinedNeedsThrow` says
  for which types that can be;
* `emplace` over a value destroys it first and leaves the flag set: `FlagTracksMember`
  shows that flag and member part in no other way;
* a converting constructor constructs over the T its base has made
  (`OnlyConvertOverwrites`);
* `!=` of two errors of an `expected<void, E>` compares with `==` (`DifferNegatesEqual`).

What does hold: however a call ended, no object has a member that its flag does not name
(in `TypeOK`, by `Slots`); an assignment that returns has taken the other object's place
over, and one that throws has kept flag and member of both (`AssignTakesOrKeeps`, which
also says which operation threw); a swap exchanges two objects or has changed no flag
(`SwapExchanges`).

## Runs

| run | instance | distinct states | shows |
|---|---|---|---|
| `pool` | 3 workers, 1 caller, 2 tasks | 20 697 | order, single runs, no lost wakeup, draining, the refinement of `TaskExecutor`; under fairness, `DestructorReturns` and `QueuedTaskRuns` |
| `async` | 3 operations, the inner two may suspend, 2 workers | 8 195 | the three properties above |
| `async_lifetime`, `async_result` | the same | | violations: the comments of coroutine.h |
| `server` | 2 connections that share 1 id, 1 disconnect, 1 callback of each kind, 2 stops | 177 104 | `ClientsOnlyWhileServed`, `UndefinedNeedsStop`, `OnlyStopCloses`; under fairness, `DisconnectReturns` and `AcceptorReturns` |
| `server_disconnect`, `server_stop` | 1 connection, 1 disconnect, 1 stop | | violations: the comments of server.h |
| `connection` | chunks of 2, an int of 10 values, lengths 0 to 3, 5 and 11, 3 sends | 308 432 | the five properties above |
| `http` | 3 uris, 3 names, 5 texts, 2 setters, 2 sends; 1 205 texts of another program | 1 476 639 | the six properties above |
| `snowflake` | 4 timestamps, clock to 5, fields of 2 values, 3 ids | 26 304 | the two properties above |
| `expected` | 2 objects, 2 values, 49 initial states: the pairs of types with at most two operations that throw, or all | 8 489 | the six properties above |
| `expected_restore` | the same | | violation: a comment of expected.h |

Each passing run checks the module's type invariant too, but for `snowflake`, whose
types are part of a theorem.

Why the bounds are enough to be interesting. Three workers allow one asleep, one
woken and one running at once, and with two tasks one can be enqueued by the other
after `stop`. A chain of three has an operation that both awaits and is awaited. Two
connections let one be served while the other waits in the backlog, is accepted, or is
refused by `stop`, and the one id they share is looked up for either; two stops reach the second delete. With chunks of two bytes the lengths are those of
an empty message, a part of a chunk, a chunk and a chunk with a part, of a size that is
negative as an int and of one that is cast to a smaller one; three sends let
one be split and two be merged. Two setters put a separator into any field beside
another field, or set the body twice; two sends can be merged and cut anywhere; the
other program's texts hold every sequence of up to three lines of five kinds, and all short
texts over the separators. `SizeMod` is above every length, so that a wrapped
difference is recognised as too long, as with 2^64. A clock that reaches 5 over 4
timestamps wraps, and three ids are made before, at and after a wrap. Two operations
that throw are needed to leave a handler by an exception as well; two objects are all
any call takes.

Deadlock is not checked where a system may rightly stop: a chain whose driver has
dropped its operation, a server that was stopped or whose peers are silent, a sender
that sends no more, a program that makes no more calls.

Findings are disagreements between what a comment or a test promises and what the code
does; PROJECT.json quotes each line. Five are runs that end in a violation: the comment on
the promise type's responsibility for the lifetime; `await_resume` "Get the result of the
coroutine"; `disconnect_client` and `accept_clients`, each "completed when"; and the
comment of `assign` in expected.h that an exception puts the error back and is rethrown.
Three are properties that pass and state the opposite of what is promised: nothing
but `stop` closes the socket of a client (`OnlyStopCloses`), whereas
`server_connection::start` is "completed when the connection has been closed"; ids of one
millisecond are equal (`CollideExactly`); and a body adds a header
(`ContentLengthTracksBody`).

## Fairness

`ThreadPool`: a thread that does not need the mutex goes on (weak fairness), one
that waits for it gets it if it is free again and again (strong), a task returns.
Nothing obliges anyone to enqueue, the program to end or a wait to wake
spuriously. For each thread the actions of the first kind are one fair action, and
those of the second another: its label enables one of them at a time. `Server`: the acceptor, a `stop` that has begun and a
`disconnect_client` that has begun go on when they can; the mutex as above. The
peers owe nothing, so the liveness properties except the behaviours in which the
acceptor is blocked for ever in the `recv` of a silent peer.
`AsyncOperation` is checked for safety only. `Connection`: `recv` returns when it can;
nobody has to send, to receive or to close. The other modules are checked for safety
only: they describe what calls do, and no one has to call.

## Proofs

All proofs hold for any finite set of workers and any sets and bounds of the other
constants, under the named assumptions of the modules (the identities of threads
differ, "none" values are not members).

`ThreadPoolProofs`. `PoolInv` is inductive. `FifoOrder` and `EachTaskOnce` alone are
not: that a popped task was not popped before needs that a task is emplaced once
(`FreshInv`), that a sleeping worker really saw an empty queue needs the mutex
(`MutexInv`, `DecisionInv`), and draining needs what a worker that exited saw
(`StopInv`: `owed` had been begun). For lost wakeups the invariant is a count,
`WakeupInv`: with a worker asleep, the queue is no longer than the number of woken
workers plus the one thread inside a critical section that has used up a wakeup or
owes one (`InHand`); the steps add or remove one element of the finite set
`Woken`. From these follow the four safety properties of the run `pool`, and, for a
pool with a worker, that every step is a step of `TaskExecutor` or a stutter
(`PoolImplementsExecutor`). A pool with no worker (where `hardware_concurrency()`
is 0) is excluded by the hypothesis.

`AsyncOperationProofs`. `AwaitInv`: an operation at its `await_resume` has had the
future of the awaited one taken. It gives `AwaitsAreCanceled`. `OpInv` gives the type
invariant and `FramesOwned`. Its main part, `StackInv`, says that a coroutine is in
one place of one stack exactly while its frame runs; three lemmas cover the three ways
a step may change the stacks (`StackKept`, `StackLeft`, `StackPushed`), so that each
action has only to say what it does to the frames. `LifeInv` orders the calls: an
operation that has not called the next one finds it not yet made. `OwnerInv` is the
strengthening of `FramesOwned`: an operation whose promise is set is at its end and calls
no other, so that objects that were destroyed with it have no successors. `CallersInv`
speaks of the time before the first task is taken: then only the driver executes, its stack holds the operations
`Top` to 1, and all that is alive beyond has suspended or ended, so that everything
it reads or destroys may be. Taken tasks stay taken (`FirstStaysTaken`), which gives
`UndefinedNeedsTask`.

`ServerProofs`. `ServerInv` ties the mutex to the labels and to how far `stop` is.
With it `ClientsOnlyWhileServed` is inductive; two threads about to access the map
that are not `stop` would both hold the mutex (`RaceNeedsStop`), which gives
`UndefinedNeedsStop`; a lookup finds nothing, which gives `OnlyStopCloses`.

`ConnectionProofs`. `ConnectionInv` is inductive: the stream is what was read and a
rest, which is the wire while the line is up (`OrderInv`; `StreamInOrder` alone does
not say what the next bytes are), and a receive that goes on has whole chunks in hand
(`ChunkInv`). Whole numbers of chunks are stated as multiples, since the provers have
no theory of `%` with a divisor that is not a number. It holds for every chunk size,
so for 1024.

`SnowflakeProofs`. Packing is a number with mixed bases, so the proofs are arithmetic
with symbolic divisors: that quotient and remainder are unique, and that dividing twice
is dividing by the product, proved from multiplication alone. They give that reading
inverts packing in both directions. `Inv` keeps what each id was made from.

`HttpParserProofs`. What the parser computes is proved for every text. The recursion of
`try_get_headers` goes from an offset to a larger one, and that of `FlattenSeq` (in
`Lines`) from a sequence to its front; both are met with induction over a *set* of
numbers (`Induction`, from the least element of a set of numbers,
`LeastElement`), which the provers can instantiate where the library's theorem, that
takes a predicate, is out of their reach. In one direction, each function of the parser
has a lemma that says which texts it succeeds on and what it then returns
(`TryGetHeader`, `TryGetHeaders`, `TryGetUri`, `LiteralAt`, `RestAt`, `ParseRequest`,
`ParseResponse`, together `Parsed`). In the other, the text of a message is laid out by
the places of its parts (`At`; `RequestText`, `ResponseText`, `LinesText`), and the
parser is followed over any beginning of it, from the last header line back to the
first (`HeadersBack`): this is `ParseToString`, for any number of headers in whatever
order the map keeps them.

`HttpProofs`. `BuildInv` adds to `ContentLengthTracksBody` that a message has the
fields of one; two lemmas say that setting or erasing a header leaves the others.
`ExchangeInv` is the inductive invariant for the rest: messages built and sent are
messages of the direction's kind, with the fields of the other kind unset, and a
result is what `parse` makes of the last text. It has no more than that, since the
five properties of the parser are about one text. `RestIsBody` is `RoundTrip` of a
longer message: a text that begins with that of a message is the text of the same
message with a longer body (`LongerBody`).

What a message must be for `RoundTrip` came out of its proof. That *only* well-formed
messages are understood as they were built is not so. A header with the name `n` and
the value LF CR LF `n` `:`, before the body `n` `:`, is read as two lines; the second
ends in its colon, so that the length of its value wraps, and the value takes in all the
rest of the text: LF CR LF `n` `:`, which replaces that of the first line and is what
was sent. The run `http` has texts that reach such a
message, and the property excludes it with `RunsOn`.

`ExpectedProofs`. The conjunction of the four invariants (`IndInv`) is inductive, with no other
part. The proof follows the calls downwards: for each primitive step a lemma says what
it makes of a result that is "good" (the flag names the member), "bare" (the member was
destroyed) or "made"; each function of expected.h then has a lemma of its own, and the
action lemmas cite them. Each of the six properties of the run, and the type
invariant, is a theorem, for any pairs of types, any objects and any contents.

Only model-checked:

* the liveness properties `DestructorReturns`, `QueuedTaskRuns`, `DisconnectReturns`,
  `AcceptorReturns` and `ReceiveStallsOnlyAtChunk`: out of the prover's reach;
* `SuccessIsRead`: that the bytes of one call, picked from a sequence (`SelectSeq`, a
  recursive definition), are all of them needs induction over that sequence.

Every other property of a passing run is a theorem.

## Not modelled

* `client::connect`, `client::disconnect` and `client_connection::connect`: the second
  calls itself with the same arguments for ever, and `client` never makes the
  connection it uses, so no state follows.
* `connect_socket` and `cleanup_wsa` (wsa.cpp), the move operations of
  `async_operation`: nothing in the repository calls them.
* In expected.h: the choice of overloads by `enable_if`, the branches for compilers
  before C++14, `value_or`, and comparisons with a bare value or error.
* That a handle may be reused after `close`: it is the operating system that gives
  handles out.
* The texts of error.h, the output to the console, the examples and the tests.
* In the models, but without a property: a pool without workers
  (`hardware_concurrency()` may be 0), or with none left when a task is enqueued; an operation that is cancelled while a thread
  waits in `get()`; callbacks that call back into the server (`CallbackDisconnects`,
  `Register`); what a failed `start` leaves allocated; and `on_connection_failed` being
  called with no client when `stop` closes the listening socket.
