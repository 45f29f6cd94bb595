# A TLA+ specification of kitserv

kitserv is a small multi-threaded HTTP/1.1 server in C: accept threads hand
connections to client workers, each worker drives many connections through an
edge-triggered epoll queue and a resumable state machine, and requests are
answered from an API tree of endpoints or from files. The modules here model
its core logic. They are model-checked with TLC on small instances. For
instances of every size TLAPS proves the safety of the connection pool, of a
connection, of the transaction, of the response body buffer and of the server start,
and that the pool and a connection implement the abstract specifications of what they
promise.

## Inventory

Paths are relative to the root of the repository (`src/src/`, `src/include/`).

| Part | State | Operations | Modelled in |
| --- | --- | --- | --- |
| Connection pool and threads (`kitserv.c`) | per worker: slots, free list, mutex; per accept thread: socket and choice of worker | accept, choose a worker, take a slot, register, serve, remove, close, reset, give back | `ConnPool`, `SlotPool` |
| Event queue wrapper (`queue.c`) | epoll registrations, ready lists, batches of events | add, wait, remove | `ConnPool` |
| Socket wrapper (`socket.c`) | descriptors | prepare step by step, accept, close | `ConnPool`, `Startup` |
| Command line (`main.c`) | configuration | options in any order | `Startup` |
| Server start (`kitserv.c`, `socket.c`) | bind flags, sockets, threads, barrier | check, open and bind with fallbacks, create, wait, stop | `Startup` |
| Connection state machine (`http.c`) | transaction state, header buffer, response buffers | receive, serve, prepare, send, send file, finalize | `ServeClient`, `Connection` |
| Request parser (`http.c`) | parse state and two iterators in the transaction | resume, seven parser states, decode the path, finalize | `RequestParser` |
| API tree (`http.c`, `kitserv.h`) | endpoint hit, method flags, saved state | walk, call, call again | `ApiTree`, `Transaction` |
| Static files and ranges (`http.c`) | descriptor, range, errno of the thread | look up, parse range, conditional get | `StaticPath`, `Transaction` |
| Response preparation (`http.c`) | header buffer, body, descriptor, flags | add a header, lay out, replace by a canned error | `Response`, run by `Transaction` and `ServeClient` |
| Response body buffer (`buffer.c`) | allocation, length, maximum | append, format, reset | `Buffer` |
| Endpoint interface (`api.c`) | fields of the transaction | read payload, write body, save state, send file | the module of the state each call changes |
| Cookies and range text (`http.c`, `api.c`) | cookie table, the header text | parse once, look up; parse in place each time | `RequestFields`, run by `Transaction` |
| Mime and status tables, logging, `sendfile` emulation | none, or output only | | not modelled |

### How the parts interact

`main` fills the configuration, `kitserv_server_start` checks it, binds the sockets, creates the workers and the accept
threads and opens a barrier (`Startup`). From there an accept thread and a
worker share only the worker's free list, under `conn_lock`, and the epoll queue
(`ConnPool`). For each event the worker calls `kitserv_http_serve_client`, which
`ConnPool` abstracts to its result, continue or close, and which `ServeClient`
models for one connection, as an implementation of `Connection`: it reads into the header buffer and parses
(`RequestParser`), finds the endpoint or the file (`ApiTree`, `StaticPath`), lets the endpoint ask for
cookies and the range (`RequestFields`),
prepares the response (`Response`) and sends it, and returns to the queue
whenever a system call would block. `Transaction` composes the four middle
parts for one request after another on the same worker thread.

### What is hard

- Two accept threads and a worker interleave on one linked free list; a worker's
  score is read under the mutex and used after it is released.
- Slots and descriptor numbers are reused at once, while batches of events hold
  bare slot pointers.
- Edge-triggered events come once: a return to the queue that is not caused by a
  blocked call loses the connection, and so does data of the next request that
  lies unseen in the header buffer.
- A connection may be left and entered at any system call: between CR and LF,
  inside a payload read of an endpoint, in the middle of a writev or sendfile.
- Bytes read beyond a request belong to the next one, unless the endpoint took
  them as payload.
- errno, the header buffer, the saved endpoint state and the descriptor outlive
  the step that set them; the error path restarts the preparation of a response
  with part of the state changed.
- Cookies are split in place when the first is asked for, into a table that
  outlives the request; the range text is cut in two while it is read and is read
  again by the static path.
- The barrier's parties are counted from flags the bind fallbacks have changed.

### What makes each part correct

- Pool: the free list is a chain of as many unused slots as it counts; a slot
  has one user and a descriptor one owner; events are for live slots; sockets
  are refused only for want of a slot; no event, slot or socket is forgotten.
- Start: a server that runs listens on what was asked or its fallback, keeps no
  other socket, and accepts only when all workers can serve.
- Connection: input is conserved, responses are whole and in order, no wakeup is
  lost, every request of a cooperating peer is answered, a connection whose peer
  has gone is dropped.
- Parser: its results depend on the input, not on how reads split it.
- Transaction: routing, file lookup, ranges and cookies agree with an independent
  definition; content-length tells the truth; no descriptor outlives its
  response; error responses keep what was asked; no state reaches the next request.
- Body buffer: small bodies are exact, a failed call changes nothing.

## The modules

**`ConnPool`** has one action per critical section or system call. `apc` and
`wpc` are the program counters of accept threads and workers. `Score`, `Lock`
and `Take` are `select_client_worker` and the two halves of `connection_accept`;
`Add` is `kitserv_queue_add`; `Wait`, `Serve`, `NextEvent`, `Remove`, `Close`,
`Reset`, `Link` and `Push` are the loop of `client_worker` and
`connection_close`. `TakeWild` is the dereference of the last `next_conn`, which
`connection_init` never assigns: `UninitNext` says what the heap may hold there.
`fresh` records that a slot's client has been reset, which the assertions of
`connection_accept` ask.

**`SlotPool`** is what the pool promises, without threads, lists or queues.
`PoolSpec` in `ConnPool` instantiates it: a free slot is one the list reaches in
`freelist_count` steps, and the client of a slot is its `sockfd` until the
worker has closed it.

**`ConnPoolProofs`** proves the inductive invariant of `ConnPool` and what rests on
it, the refinement of `SlotPool` included.

**`Startup`** is `main`'s options, the checks of `kitserv_server_start`, each step
of `find_and_bind_socket` with its failures (`Socket`, `BindTo`, `Listen`,
`SocketFails`), the main thread up to `sigwait`, and the beginning of the helper
threads up to their loops. A start is from the command line or from another
program's configuration. **`StartupProofs`** proves its invariants.

**`Connection`** is what a connection promises its peer: requests answered one by
one, in order, each not before enough of it is there; each response delivered to
the end before the next begins, unless its file turns out too short (`Cut`);
nothing after the last one.

**`ServeClient`** is one connection: a step of the worker is one system call and
the code up to the next. Data is counted in units tagged with the request and
the position they come from, so that loss, repetition and reordering show. The
peer sends, receives, shuts down and resets; `Splits`, `MayShutdown` and `MayReset`
switch the kernel's and the peer's worse manners on. A request has a head, a
payload and what its endpoint `reads` of it; what is left begins the next request,
which the model takes to be refused for it. A file may be shorter when it is sent
than when it was laid out. `ConnectionSpec` instantiates `Connection`: what is
promised is `due`, the responses laid out, what is delivered is `wire`.

**`ServeClientProofs`** has the lemmas on the input and its pieces and proves the
inductive invariant of `ServeClient` and its safety invariants from them;
**`ConnectionProofs`** proves that it implements `Connection`. **`ResponseProofs`** has
the lemmas on numbers and on the operators of `Response` that the modules share.

**`RequestParser`** is `kitserv_http_recv_request` over an alphabet of character
classes, with the states, labels and iterators of the code, and a reference
(`HeadsOf`) that finds the heads of a whole input from the positions of its
separators, and decodes the percent codes of a path (`Decoded`) from the set of
positions at which a code begins. `Decode` is the loop of `url_decode`.
**`RequestParserProofs`** proves that the parser finds what the reference says.

**`Response`** has the pure operators of `kitserv_http_prepare_response`. A
header line is one unit of the buffer, which holds `MaxHeaders`.

**`StaticPath`** has the pure operators of `kitserv_http_handle_static_path`
and `parse_range_request`. The file system is what stat and open of each
candidate give.

**`RequestFields`** has the pure operators of the cookie table and of
`kitserv_http_parse_range` over short texts, and the references for both: a jar of
cookies as a client writes it, and the number that digits spell.

**`ApiTree`** is `parse_api_tree`, one action per level, and the calls of the
endpoint it hits. It has the tree's memory layout as far as the walk depends on
it: the prefix letters it reads, and what lies behind the end of the path.

**`Transaction`** composes `ApiTree`, `StaticPath`, `RequestFields` and `Response` into the
worker's cycle from a parsed request to a prepared response, with errno, the
cookie table and the transaction's fields carried from one request to the next.
An endpoint asks for cookies and the range in any order, as often as its request
allows, before and between its calls. **`TransactionProofs`** has the lemmas on the
operators of `RequestFields` and `StaticPath` and proves the invariants of the cycle.

**`Buffer`** is `buffer.c`: the allocation is a sequence of cells, `max` what the
code believes of it, and `sound` turns false when a write leaves it.
**`BufferProofs`** proves its properties.

**`MC...`** modules name the instances: trees, file systems, input streams,
pipelines and symmetry. Operators named `...Fault` next to a definition are
faulty variants of it, used to make sure that the properties notice.

## The runs

| Run | Shows | Instance |
| --- | --- | --- |
| `pool` | free list, slot and descriptor ownership, live batches, reset before reuse, and refinement of `SlotPool` | one worker with two slots, two accept threads, three descriptors, batches of two, registrations that fail, heap with any content |
| `pool_live` | no slot is lost, every event served, every socket settled | one worker with two slots, one accept thread, batches of two, fair |
| `pool_choice` | refusal only when every worker was full | three workers of one slot, one accept thread, four descriptors |
| `serve` | input conserved, no lost wakeup, files owned and closed, right refusals, a payload the endpoint's own, everything answered up to the first response that ends the connection, hang-ups noticed, and refinement of `Connection` | six pipelined requests, buffer of three units, peer that shuts down or resets at any moment, fair |
| `parser` | results independent of the splits, none missed, paths decoded | two and three pipelined requests, all one-character changes of a request before another, all short paths with percent codes |
| `transaction` | routing, lookup, ranges, cookies, descriptors, lengths, errors, isolation of requests | every path of three segments in a tree of two levels of subtrees; every outcome of the candidates; all ranges of files of 0, 1 and 3 bytes; all endpoint responses; jars of cookies beyond the table and short range texts, asked for in any order |
| `buffer` | small bodies exact, failed calls harmless | initial size 6, texts of 1 to 9, twice the initial size in all |
| `startup` | a server listens where it should and only there, no early accept, no stuck barrier | three workers, every sequence of options or configuration, a failure of any socket call |
| `serve_short_write`, `serve_write_error`, `api_nested`, `buffer_grow` | expected violations, see below | |

### Bounds, and why they are enough

- Pool. Workers share nothing with each other, so the interleavings that matter
  are those of one worker with two accept threads; there are never more than two
  accept threads (one per family). Two slots give lists of length 0, 1 and 2,
  and three descriptors one more socket than slots, so that refusal, exhaustion
  and reuse of numbers occur. The choice between workers is the subject of
  `pool_choice`, which has three and a fourth socket to refuse. The theorems do
  not depend on these numbers.
- Connection. The buffer of three units is filled exactly by one head, and a
  payload that is left to the next request leaves it no room; the send buffer of
  seven blocks a writev between the responses of the pipeline and a sendfile in
  the middle of a file. Six requests take every route to a response: an endpoint,
  a file, an empty one, one that shrinks, HEAD, and an early answer.
- Parser. The buffer of 24 is the length of the longest good request and of two
  short ones, and damaged requests run into its end.
- Transaction. `MaxHeaders` is seven: a range response needs four headers and
  the automatic ones three, so every limit is met from both sides. Handlers add
  from none to all of them. `MaxCookies` is two, and jars have up to one more
  cookie than that; `MaxOff` is 41, so that range texts of two digits overflow
  and do not.
- Start. Slot counts of 0, 2 and 4 are refused by the option, refused for three
  workers, and accepted.
- Buffer. `Increment` and `Initial` keep the relation that the initial size is a
  multiple of the increment; `MaxAsked` bounds the bytes of a transaction.

`CHECK_DEADLOCK FALSE` appears where the system really stops: after a wild
pointer was followed (`pool`), when a connection is closed or idle with a silent
peer (`serve...`), at the end of a parser's input, when the process exits
(`startup`), and after a write outside the allocation (`buffer`).

### Fairness

`pool_live` assumes that threads are scheduled (weak fairness of each) and that
a thread waiting for a mutex gets it eventually (strong fairness of the lock
steps): the critical sections are a few instructions long and pthread mutexes
do not starve a waiter for ever under a preemptive scheduler. `serve` assumes
weak fairness of the worker, and of a peer that sends what it has and receives
what it is sent; shutdown and reset may happen but nothing makes a peer hang up. `startup` assumes that the main
thread, once it has its configuration, and the helper threads are scheduled. No fairness is assumed of clients
that connect, of events, or of failures.

## What is proved

`ConnPoolProofs` proves, for any number of workers, slots, accept threads,
descriptors and batch sizes:

- `InductiveInvariant`: `Spec => []IInv`.
- `TypeCorrect`, `FreeListIntact`, `SlotsNotShared`, `DescriptorsOwned` and
  `BatchesLive`: the invariants `TypeOK`, `FreeListOK`, `SlotExclusive`,
  `SocketOwned` and `BatchLive`.

The assumptions are those `ConnPool` names: at least one worker and as many
slots, a batch of at least one event, `NoFd` not a descriptor, finitely many
accept threads, and that what the heap leaves in the last `next_conn` is NULL or a
pointer to no connection.

None of the invariants is inductive alone. That the list is a chain needs the
mutex: the head an accept thread read is still the head when it writes
(`AccepterOK`), and the link a worker wrote still points to it (`WorkerOK`),
because `LockOK` lets one of them in at a time. That a slot has one user needs the
list to have no duplicates and users to be off it. That events of a batch are
live needs the descriptors to be owned, since a slot is registered through its
descriptor, and needs a ready list to hold registered descriptors once
(`ReadyOK`). `IInv` is the conjunction; the proof has a lemma per action, and in
each a step per conjunct the action can disturb. `FreeListOK` is stated with a
witness, the sequence of nodes, and the lemmas on pop and push build the witness
of the next state from that of this one.

It also proves three more invariants of the same specification, each inductive, or implied by a formula that is, once `IInv` is known, and the refinement:

- `ResetBeforeReuse` (`FreshOnAccept`), from `FreshOK`: a slot whose client has
  served anything is registered, or its worker is about to reset it. The head of a
  list is neither, because `FreeListOK` keeps used slots off it.
- `RefusalsJustified` (`RefusedOnlyWhenFull`), from `ScoreOK`: until a lone accept
  thread pops a slot itself, the count of the worker it remembers only grows, so
  the score it read under the mutex remains a floor after the unlock.
- `NoSlotLost` (`SlotsConserved`): a step that moves the count of a worker moves
  the number of its slots in use the other way, by the laws of cardinality;
  every other step keeps the count and the set. When registrations can fail it
  gives the bound only.
- `PoolRefinement` (`PoolSpec`): the pool implements `SlotPool`. Besides `IInv` it needs
  `HoldOK`: the socket of a slot that is neither free nor closed is open, also when
  its registration failed, and is with no other slot and no accept thread. `SlotPool`
  sees the list as the set of slots that are met by following its links, so the
  proof shows first (`FreeSlotsAre`) that this set is that of the witness of
  `FreeListOK`, by a least counterexample among the positions of the list. Then each
  action is a step of `SlotPool` or keeps its four variables; the lemmas `FreePopped`
  and `FreePushed` give what a pop and a push do to the set.

`ServeClientProofs` proves, for any sequence of requests and replies, any sizes of the
header buffer and the send buffer, and whether or not writes may be split and
the peer may shut down or reset:

- `Invariant`: `Spec => []IInv`.
- `TypeCorrect`, `InputIsConserved`, `WakeupNeverLost`, `DescriptorOwned`,
  `FilesClosed`, `RefusalsRight` and `PayloadSeen`: the seven invariants of the run
  `serve`.

The assumptions are those `ServeClient` and `Response` name. A reply sets a status
and adds no more headers than fit; an endpoint reads no more than its payload; a file is asked for with GET or HEAD and has no payload read; what an endpoint leaves of
its payload is followed by a request, of which it spoils the beginning
(`RequestAssumption`). The buffers hold at least one unit (`BufferAssumption`), and
the header buffer at least one line (`HeaderAssumption`). The switches are Booleans
(`KernelAssumption`).

Again the invariants are not inductive alone. `InputConserved` compares sequences;
its inductive form `InputOK` names, for each unit in the header buffer, in the
endpoint's hands beyond it and in the socket, its position in the stream, and
allows that a reset loses what the socket still held. That an endpoint sees its own
payload needs to know where the head of a served request ends and that it takes
what lies beyond the head before it reads the socket (`PayloadOK`). That no wakeup
is lost needs that what was parsed and found incomplete is not parsed again
(`ParsedOK`), and the state in which each system call can block (`ControlOK`). That
refusals are right needs where a response comes from, a refusal or an answer
(`ResponseOK`), since the canned errors of `kitserv_http_prepare_response` overwrite
the status; and that a descriptor is owned and closed needs which requests can have
left a file behind (`FileOK`, `Leaks`). The lemmas `HeadFacts` and `FirstUnit` tell from the
first unit in the buffer whether a request begins in the payload of another one,
and `PrepareFacts` what the preparation makes of any response. There is a lemma
per conjunct of `IInv`, with a step for each action that can disturb it.

`ConnectionProofs` proves, as long as no writev stops beyond the first unsent buffer
(`~ Splits`), which is what the run `serve` has and what the code needs, see below:

- `NothingLost`: `Spec => []PromiseOK`. What was promised and is not on the wire is
  what the buffers and the rest of the file hold, in this order, and the last
  response begun is that of the current request or of the one before it.
- `Refinement` (`ConnectionSpec`): serving a connection implements `Connection`. The
  response to a request begins when enough of it has arrived (`NeedMet`, from
  `InputOK` and `PayloadOK`) and the one before was not final (`GoesOn`); a writev
  or sendfile delivers a prefix of what is pending (`WritevDelivers`,
  `SendFileDelivers`); a file that turns out short is cut (`ShortCuts`); everything
  else is a step the peer cannot see. Without `~ Splits` the statement is false, as
  the run `serve_short_write` shows.

`TransactionProofs` proves, for any tree, any file system, any endpoints' responses, any
size of the header buffer and any sequence of requests:

- `Invariance`: `Spec => []IInv`.
- `TypeCorrect` (`TypeOK`), `StateIsOwn` (`OwnState`), `FirstFile`
  (`FirstFileServed`), `DescriptorIsKept` (`DescriptorKept`), `LengthIsHonest`
  (`LengthHonest`) and `ErrorIsAsAsked` (`ErrorAsAsked`).
- `RangeIsExact` (`RangeExact`) and `RangeIsRead` (`RangeRead`): for every text of a range
  header, whatever its length, and every file size.
- `CookieIsRight` (`CookieRight`): for every jar of cookies that can be written at all (names
  without `=` that do not begin with a space, values without `;`: `Writable`), and every other header.
- `RoutedAsTreeSays`: `LettersAgree => (Spec => []RoutedRight)`, for every path and every tree,
  of any depth, in which a subtree is called like the root's subtree of the same index
  (`LettersAgree`). In other trees the code compares the wrong letters, as the run
  `api_nested` shows, and `RoutedRight` does not hold. Every tree of one level with
  different names is such a tree, and so is that of the run `transaction`, whose second level
  repeats a name.

The assumptions are those the modules name. The API tree is a finite one: its nodes have
depths that grow by one along `Subtrees` (`TreeAssumption`), without which the walk need not
end. A request is one of the record set `Request`, its range header is a C string and so
has no NUL in it, and an endpoint that answers sets a
status and gives no descriptor, an open one, or `KITSERV_FD_HEAD` where the request is a
HEAD (`RequestAssumption`); a content-length would not be true without the last. open
does not give 0 (`StaticAssumption`: kitserv takes 0 for no file), the table of cookies
and the largest offset are natural numbers (`FieldsAssumption`), and the header buffer
holds a line (`HeaderAssumption`).

The invariants rest on each other. `ControlOK` says what a step finds from the one before
it: that a transaction that is being received or served is the zeroed one, that the
method is the request's own until a 304 has changed it, how deep the walk is. `PreparedOK`
names the response as what the preparation makes of the transaction, and `StaticOK`
ties a descriptor to a GET and a status that sends the file. `Base` is their conjunction
with `RangeKept` and `FirstFileServed`; `IInv` adds `RangeOK` and `AnswerOK`, which say that
a 206 and what an endpoint was told are those of this request's header, and which are
inductive once `Base` is known. The lemmas follow the
code: `ParseRangeFacts` shows that the text which was cut at its hyphen is put together
again on every way out of `kitserv_http_parse_range`. `SpelledFacts` shows, by induction on
the digits in both directions, that the number `strtonum` accumulates from the left is the
one whose remainders by ten are the digits from the right, and no other; with it
`RangeSelects` shows that the parser finds the range that the reference `Selects`, or that
there is none within `MaxOff`. `HandleSpans` follows the range through the headers and
If-Modified-Since to the response. `RoutedAsTreeSays` rests on `WalkOK`: the walk is at the only node that
the reference reaches with the segments so far (`LevelFacts`) and no level above has
an endpoint for the path; below a level without the next name nothing is reached
(`StandsAt`). `CookieIsRight` rests on `CookiesOK`: before the first
question the header is as it came and the table counts nothing, after it the table begins with
what `ParseCookies` finds in this request's header. For that, `MarksFacts` finds the marks that the parser
looks for around each cookie of a written jar, `RoundReads` says what the round of the loop makes of it, and
`JarParsed` goes round by round: what is stored are the cookies that count (`Ordinal`), up to the
size of the table. `TriedFacts` and `SearchFacts` show that
the search stops at the first candidate that settles it and reports that one's error,
as long as errno was not EACCES before; `TransferFacts` and `HandleFacts` that every
failure after the file was opened has closed it. Then `PreparedSource` shows that a response
that is laid out is the transaction's own or has the canned text of its status or of
the 507 that took its place, from which `LengthFacts` and `ErrorFacts` follow.

`RequestParserProofs` proves, for any set of inputs over the character classes, any size
of the header buffer, and any way the reads split the input:

- `ParserInvariant`: `Spec => []IInv`.
- `TypeCorrect` (`TypeOK`): the buffer is never overfilled and the saved pointers stay
  inside it.
- `ResultsCorrect` (`ResultsRight`): the requests and errors delivered are a prefix of
  what the reference `HeadsOf` finds in the whole input.
- `NothingIsMissed` (`NothingMissed`): a parser that waits with all the input read has
  delivered all of it.

The assumption is that inputs are sequences of the alphabet's classes and that the buffer has
room for a character (`InputAssumption`). The reference and the parser are written
apart: the one looks for separators in a whole text, the other advances an iterator and
starts again where it stopped. What ties them together is the window, as much of the
rest of the input as fits in the buffer, of which the buffer holds a prefix
(`BufferOK`). `Progress` says for each state of the parser that no separator between the
start of the block and the iterator has been passed over, and that the head the window
begins with (`HeadOf`) is what the fields saved so far come to with the rest of the
head: of the request line for `METHOD`, `PATH` and `VERSION`, of the header lines for `HEAD`
(`Made`). The two uses of `HEAD_LF` are told apart by whether the iterator is at the
start of the block or one behind it. `FoundOK` says that the heads of the input are the
results followed by the heads of what is left. It follows that a parser at the end of a
full buffer is right to give 431 (`AtEndIncomplete`), and one at the end of the input
to wait.

The reference is recursive, over the lines of a head (`HeadersFrom`) and the heads of an
input (`HeadsOf`), and so is `Decode`. Their defining equations (`HeadersUnfold`, `HeadsUnfold`,
`DecodeUnfold`) are proved from the right end of the text to the left, by the
induction over a set of numbers described below. `DecodeFacts` shows
that `url_decode`'s loop computes what `Decoded` says for texts of any length: that
percent codes cannot overlap is what makes the set of kept positions agree with the
steps of the loop.

`BufferProofs` proves, for any initial size, any increment and any lengths:

- `LengthsWithin` (`WithinBounds`), `SmallBodiesExact` (`SmallBodies`) and
  `FailureHarmless` (`FailureUnchanged`). The first is inductive as it stands, the
  second with the first: it carries the whole content of the body, and that the
  maximum the code believes in is the size of the allocation. `WithinBounds` bounds lengths only while no write has left
  the allocation: afterwards a formatted text may be longer than was asked, because
  the second attempt of `kitserv_buffer_appendva` reads a used `va_list`.

`StartupProofs` proves, for any number of workers:

- `StartInvariant`: `Spec => []IInv`, with what is bound at each step of the main
  thread (`BindOK`) and how many of the barrier's parties are missing (`BarrierOK`).
- `ListensAsWanted` (`SomeSocket`) and `NobodyAcceptsEarly` (`NoEarlyAccept`). The
  latter needs the count: the barrier opens at zero, the parties are the workers, the
  families still bound and the main thread, so at zero every worker has arrived,
  and a worker arrives after it has made its pool.

The strengthenings (each component's `IInv`, `FreshOK`, `ScoreOK`, `HoldOK`, `PromiseOK`, `WalkOK` and `CookiesOK`) are stated
in the component's module or before the proof that uses them; TLC found no violation of them on the instances of the
runs before they were proved. They are no properties of the runs, because what
they say besides the invariants is about the proof.

Only model-checked: all liveness. Liveness under fairness and ENABLED are
outside the prover's reach. The inductions on requests, on the free list, on the digits of
a number, on the levels of the tree, on the rounds of a loop and on the positions of a text
need no parameter: they are over a set of numbers and rest on `Induction` and `LeastNatural`, which follow from the
library's theorem that finite subsets are well-founded.

## Where code and documentation differ

Four differences are checked as violated properties:

- `serve_short_write`: after a short writev every length is compared with the
  whole count (`http.c:1332`), and bytes of later buffers are lost. The run `serve`
  has writes end inside the first unsent buffer only, where the code is right.
- `serve_write_error`: a writev that fails returns 0 whatever the error
  (`http.c:1324`), so a connection reset while its response is written waits for
  an event that does not come. The run `serve` shows that every other system call
  notices (`HangupNoticed`).
- `api_nested`: below the first level a subtree's prefix is compared with the
  letters of the root's subtree of the same index (`http.c:1052`).
- `buffer_grow`: a growing body is reallocated to the length of the new piece
  (`buffer.c:44`). The run `buffer` claims exact bodies below the initial size.

Others were met while modelling. The modules have the code's behaviour and the
passing properties leave these cases out by name:

- the last `next_conn` of a new container is not assigned (`kitserv.c:82`), so an
  exhausted list reads as NULL only on a zeroed heap;
- the share of a worker is rounded up, so up to `num_workers - 1` more
  connections than `num_slots` are served (`kitserv.c:280`);
- a payload read at the end of the input returns -1 without errno or status, so
  the endpoint is called again (`api.c:113`);
- a payload the endpoint does not read is taken for the next request
  (`http.c:97`), and requests already in the buffer when the peer has shut down
  are dropped (`http.c:641`);
- a cookie with an empty value counts as absent unless it is the last
  (`http.c:294`), where the manual has NULL for a cookie that does not exist, and
  a cookie header that is not understood leaves the number of cookies as it was;
- `kitserv_api_get_request_cookie_n` compares with the whole key, so its key must
  end with a NUL as well (`api.c:43`);
- `kitserv_api_get_request_range` sets errno to what `strtonum` leaves, where the
  manual says that it does not set it (`http.c:114`);
- a descriptor an endpoint gives to a HEAD request stays open (`http.c:1396`), and
  so does a file that shrinks while it is sent, whose response is cut short
  without the connection being closed (`http.c:1410`);
- when only the blank line does not fit, the status is assigned to `resp_fd`
  (`http.c:1279`), so the error response closes another number;
- an errno of EACCES left by an earlier call turns a directory into 403
  (`http.c:868`); a file that cannot be opened is 500 (`http.c:939`);
- a suffix range as long as the file or longer misses its first byte
  (`http.c:414`); a 304 announces the length of an empty body (`http.c:988`);
- an endpoint with another method ends the walk before the subtrees are tried
  (`http.c:1045`), and a path that ends at a subtree is continued in the query
  (`http.c:1055`);
- a formatted text as long as the room left loses its last character to the
  terminator (`buffer.c:70`).

## What is not modelled

Tables of mime types and status texts and logging have no state that outlives
them, and the abort paths of the start end the process. Of the header values
content-length, cookies and the range are read, the others are abstract; dates are
older, equal or bad; texts are counted. A path segment that
`attempted_path_traversal` refuses is a character class of the parser's alphabet.
The getters of `api.c` that return a field are not operations of their own. The
`sendfile` emulation is compiled only where the queue wrapper is not, and
`kitserv_queue_rearm` has no caller. The `-t` option is the constant `NumWorkers`.

## Plan

The order was: the pool and its proof; the connection; the parser; the
transaction; the buffer; the start; then the abstract connection, endpoints that
leave payload, cookies, range texts and percent codes, and the command line. What
is left:

1. Several connections of one worker in one model (`ConnPool` with
   `ServeClient`'s result), if the state space allows.
