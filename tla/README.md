# TLA+ models of LuaShell and the walleve library

LuaShell is a small program: a Lua console or script runner that calls a JSON-RPC
server over HTTP(S), synchronously from the main chunk of a script and
asynchronously from coroutines. Almost all that is hard in it lies in the `walleve`
library underneath (a docker of modules with a thread each, event queues between
them, an asynchronous network layer, timers, an HTTP client and an HTTP server) and
in the Lua 5.3 interpreter that is built with it. The modules in this directory model
those parts, TLC checks them on small instances, and TLAPS proves what fifteen of them
promise for every value of the constants.

Paths below are relative to `src/`; `w/` stands for `src/walleve/walleve/`.

## 1. Inventory

### Threads

| thread | started by | runs |
|---|---|---|
| main | the system | `CLuaShellEntry`: attaches modules, `CWalleveDocker::Run`, waits in the entry's io_service, `Exit` |
| timer | `CWalleveDocker::Initialize` | `TimerProc`: waits for the first timer, runs callbacks |
| io | `CHttpGet` (a `CIOProc`) | `IOThreadFunc`: every network handler, and events other threads dispatch |
| event | `CRPCClient` (a `CWalleveEventProc`) | `EventThreadFunc`: fetches and handles replies |
| interactive | `CInteractive` (a `CConsole`), delayed until all modules run | `ConsoleThreadFunc` (a console) or `CommandThreadFunc` (a script); the Lua interpreter runs here only |

### Components, their state and what makes them correct

| component | state | operations | correct when | model |
|---|---|---|---|---|
| docker life cycle (`w/docker/docker.cpp`, `w/base`) | module statuses, list of modules, `fActived`, `fShutdown`, threads | Attach, Run, Run(key), Halt, Halt(key), Detach, Exit | a module's thread exists only while it is invoked; delayed threads start after all modules; halts return | `Docker` |
| program entry (`src/entry.cpp`, `w/entry`, `src/luashell.cpp`) | where main is, stopped, waiting for a signal | InitializeService, Run, Exit, HandleSignal, Stop | a signal or the end of the script ends the program; no call is stranded by the halt | `LuaShell` |
| docker timers | `mapTimerById`, `mapTimerByExpiry`, work queue | SetTimer, CancelTimer, CancelTimers, TimerProc | indexes agree, the thread never oversleeps, no callback after the module is gone | `DockerTimers` |
| event queue and thread (`w/event`) | `que`, `fAbort`, thread | PostEvent, Fetch, Reset, Interrupt, Invoke, Halt | order kept, nothing stale after a restart, Halt returns | `EventQueue`, `EventProc` |
| RPC client and scripts (`src/rpcclient.cpp`, `src/interactive.cpp`, `script/lua/rpc.lua`) | nonces, coroutines, callbacks, ring of responses, the completion of synchronous calls | rpccall, rpcasynccall, rpcasyncwait, HandleEvent | every caller gets its own reply once, and gets it | `RpcClient` |
| arguments of calls (`rpc.lua`, `src/luajson.cpp`) | none | the checks of each method, L_JsonEncode, L_JsonDecode | a call is refused or sends what was given; a table survives JSON and back | `Codec` |
| HTTP client (`w/http/httpget.cpp`) | `mapRequest`, `mapGetClient` | requests, aborts, connect, resolve, transfer, timeout, LeaveLoop | every request is answered once | `HttpGet`, `HttpService` |
| io process (`w/netio`) | timers, pending connections, sockets, resolver | SetTimer, CancelTimer, ConnectTo, HandleConnect, Timeout, DispatchEvent | timers agree with what they time | `HttpGet` |
| HTTP server and inbound containers (`w/http/httpserver.cpp`, `w/netio/iocontainer.cpp`, `ioclient.cpp`) | idle client objects, reference counts, connections, events to the IO module | accept, handshake, read, write, Respond, RemoveClient, LeaveLoop | references exact, one connection accepted at a time, breaks reported once and last | `HttpServer` |
| HTTP text (`w/http/httputil.cpp`, cookies, chunked bodies) | the receive stream of one response | build and parse headers, queries, cookies; ReadUntil | parsing inverts building; a body is read whole however it is cut | `HttpText` |
| event streams (`w/http/httpsse.cpp`) | event ids, status and queue generators | RegisterEvent, UnregisterEvent, ResetData, UpdateEventData, ConstructResponse | an up-to-date client knows every status | `HttpSSE` |
| readers-writer lock (`w/rwlock.h`) | three counters, two condition variables | ReadLock, ReadUnlock, WriteLock, WriteUnlock | exclusion, no lost wake-up | `RWLock`, `LockPromise` |
| peer network (`w/peernet`) | scores, bans, connections per address, idle nodes | accept, connect, close, ban, retry, add, remove | counts agree with connections, nodes are kept, bans hold | `PeerNet` |
| data scheduler (`w/peernet/datasched.h`) | what each peer knows, what is asked of whom | AddKnownPeer, Remove, Schedule, ... | the two indexes and the assignments agree | `DataSched`, `SchedPromise` |
| peer streams (`w/peernet/peer.cpp`) | two send buffers and their indexes | WriteStream, Write, HandleWriten | messages arrive in order, once | `PeerStream`, `MsgChannel` |
| circular buffer and binary codings (`w/stream`, `w/compacttv.h`) | offsets into a ring | put, get, consume, seek; save and load | a bounded queue; loading inverts saving | `CircularBuf`, `ByteQueue`, `Codec` |
| network time, connection attempts | samples by address and sorted; a ring of counters | AddNew, offset; Attempt | the two agree; attempts are counted | `NetTime`, `ConnAttempt` |
| console (`w/console`) | readline, history, `mutexConsole`, strand | DispatchLine, DispatchOutput, DispatchEvent | lines in order, no self-deadlock | its thread only, in `Docker` and `LuaShell` |
| Lua collector (`lua/src/lgc.c`) | colours, grey lists, ages, the sweep's place | barriers, steps, full and emergency collection, finalizers | nothing live is freed, garbage is | `LuaGC` |
| Lua tables and strings (`ltable.c`, `lstring.c`) | array and nodes; the string table and cache | set, get, next, length, rehash; intern, sweep | a table is a map; one string per content | `LuaTable`, `LuaString` |
| Lua calls and coroutines (`ldo.c`, `lcorolib.c`) | call infos, the C stack, counters | call, pcall, yield, resume, error | errors go where they belong, counters are restored | `LuaDo`, `LuaThreads` |
| Lua libraries (`ltablib.c`, `lstrlib.c`, `lbitlib.c`, numbers) | none | each function | the result the manual describes | `LuaTableLib`, `LuaPattern`, `LuaPack`, `LuaNumber` |
| Lua compiler and machine (`lparser.c`, `lcode.c`, `lvm.c`) | registers, jump lists, blocks; stack, frames, upvalues | every construct; every instruction it generates | the code does what the program means | `LuaParser`, `LuaCode`, `LuaMachine`, `LuaPrograms` |
| configuration, log, database wrapper, other scripts | | | | not modelled, see section 7 |

### How they interact

A script calls `rpc.<method>`. `CInteractive` gives the request to `CRPCClient`, which
posts it to the io thread (`DispatchEvent`, which waits until the handler has taken
it). `CHttpGet` resolves, connects, transfers, and posts the answer as an event to
`CRPCClient`'s queue. The event thread completes the waiting synchronous call, or
pushes the reply of an asynchronous call into a ring that the console thread reads
in `rpcasyncwait`, where it resumes the coroutine. Timers of the network are in the
io process; the docker has timers of its own for modules. The docker halts the
modules in the reverse order of their attachment.

The server, the event streams, the lock and the peer network are part of the library
and are not attached by LuaShell.

### What is hard

* A reply may arrive before the call has stored what it needs to receive it; a nonce
  or a timer id may be given to somebody else while an old answer is under way.
* A failed reply resets the whole queue, at a moment when its caller already runs.
* Timers, connect handlers, resolver handlers and responses race one another, and
  several of them serve "the oldest request for this endpoint", not their own.
* Stopping races starting: a thread's first act is to reset what a halt has set.
* Notifications are sent after the mutex is released, or without it.
* Connections, client objects, responses and timers each have a limit and a reuse.
* The program changes the heap between any two steps of the collector, and an error
  jumps over functions that have counters and handlers to restore.

`PROJECT.json` lists these under `hazards`, each at its line.

## 2. The modules and how they correspond to the code

Every definition that models code is listed in `PROJECT.json` under `map` with the lines
it stands for. A handler, a method under one mutex, or a section between two points
where another thread can act is one action.

**EventQueue** has `CWalleveEventQueue` as operators on its two variables, one per
method (each holds the mutex throughout, so each is one step). **EventProc** adds the
event thread, posting, Invoke and Halt. The thread's steps are those between which
another thread can act: fetch, `Handle`, the `Reset` after a failure, the deletion
of the event. Events are numbered as they are posted.

**RpcClient** composes the same queue with `CRPCClient`, `CInteractive` and the nonce
and coroutine functions of `rpc.lua`. The Lua thread runs a script of the shape of
`script/lua/test.lua`: it starts coroutines, makes synchronous calls and calls
`rpcasyncwait`. `GetResponse` is two steps (dispatch, and the return from the wait);
registering a callback comes after the dispatch, as in `CallAsyncRPC`; the callback
itself is three steps, because it writes the ring, counts and notifies without the
mutex. A wait is: predicate, block, wake. HTTP is an environment that answers a request
once or never (which `HttpGet` shows of `CHttpGet`), with an object, another value or
an error.

**HttpService** is the abstract specification of the HTTP client: requests are accepted
and answered at most once, and the service may refuse, stop, or never answer.
**HttpGet** models `CHttpGet`, `CHttpGetClient` and the part of the network layer
that runs on the same thread: one action per handler, with all the calls it makes, and
the timers of `CIOProc` as operators on a record, with the reuse of ids. A
socket is named by the request that opened it. The connect timeout deletes a
connection whose connect handler is still queued; that handler then reads freed
memory, which the model gives as a choice of a crash or of the report that the bytes
still give (`OrphanConnect`, `OrphanCrash`). `HttpGet` implements `HttpService`, with
its variables `accepted`, `answers` and `loop` for the abstract ones.

**DockerTimers** models `SetTimer`, `CancelTimer`, `CancelTimers` and `TimerProc`:
each section under `mtxTimer` is a step, notifications travel in steps of their own,
callbacks run without the mutex and may set and cancel timers. It includes as much
of Halt, Run(key), Detach and Exit as the timers see.

**Docker** models the life of modules: one thread calls the docker; Run and Halt walk
their work queues with a step per module, any module may fail, and each module has a
thread that starts (at once, or when the docker is active), loses or keeps its stop,
makes a synchronous call, and ends. An event thread may at any time reset its queue after
a failed handler, which clears the flag of a halt too (`HandlerReset`). **LuaShell** composes it with `main`: attaching,
running, waiting in the entry's io_service, signals, the end of a script, Exit.

**HttpServer** models one service: the container's idle client objects, open sockets,
reference counts and pending operations, accepting with or without TLS, requests and
responses, keep-alive, removal, and the events and responses that pass between the
server and its IO module. The container is a record, and each of its methods an
operator from one value of the record to the next, so that a handler reads as the
chain of calls it makes. **HttpSSE** models an event stream with status and queue
generators and clients that may lose a response.

**RWLock** models `CWalleveRWAccess`, a step per section under its mutex; **LockPromise**
holds its state and what it promises.

**PeerNet** models `CPeerNet` with the endpoint manager, the node manager and the
outbound container. Times are relative to now, and an idle list is kept sorted, as
`mapIdle` is; `FetchOutBound` gives every result its loop may end with. **DataSched** models `CDataScheduler`
on the state of **SchedPromise**; `Schedule` walks the peers a step each. **PeerStream**
models the two buffers of `CPeer` and implements **MsgChannel**. **CircularBuf** models
the ring under `std::streambuf` and implements **ByteQueue**. A position, as `seekpos` takes and
returns it, is an index of the ring: to the queue it is the number of a byte, modulo the
size of the ring, and names that byte as long as it is kept, whatever was consumed before
it. **NetTime** and
**ConnAttempt** model one class each.

**Codec** has the binary codings (fundamental types, strings, vectors, pairs, maps,
variable-length integers, the compact coding of tagged values), L_JsonEncode and
L_JsonDecode between Lua tables and JSON values, and the checks that the methods of
`rpc.lua` make of their arguments. Integers are decoded to 32 bits and strings cut at a
NUL, as the code does. **HttpText** has headers, queries, cookies, percent and base64
coding, and, as a small state machine, the chunked body of a response that arrives in
any fragments: what came with the header is parsed at once, with or without its end, and
the rest after `ReadUntil`.

**LuaGC** models the incremental collector: marking, ephemerons and weak tables, the
atomic phase, sweeping in steps, finalizers, barriers and upvalues, beside a program
that changes a heap of a few objects. A node whose value is nil stays in its table with its
key until the node is used again or `removeentry` marks the key as dead. The program also
runs as a finalizer, which may ask for steps and full collections, and fail. **LuaTable** and **LuaString** model the table with its
array, nodes and chains, and the string table with its cache under collection. **LuaDo**
models calls, protected calls, yields across them, errors and message handlers on one
C stack, and implements **LuaThreads**, which knows no C stack. **LuaTableLib**,
**LuaPattern**, **LuaPack** and **LuaNumber** have the library functions beside reference
definitions. **LuaParser** and **LuaCode** turn the tokens of a program into code,
**LuaMachine** runs it, and **LuaPrograms** says what the program means by the manual,
without registers or jumps.

**MCLibrary** and **MCLua** put the small parts side by side: a behaviour is one of one
part, while the others stay as they begin. The instances of the others are at the end
of their modules. Definitions whose comment begins with "Mutant of" are not part of a
specification: they are plausible bugs, one for each property, and putting one in the
place of its original makes TLC find that property violated.

## 3. The runs

| run | bounds | states | shows |
|---|---|---|---|
| `RpcClient_answered` | 2 coroutines with a call each, 2 synchronous calls, ring of 2, object and error replies, or none | 214 thousand | synchronous calls return only their own reply; every call whose reply was posted returns |
| `RpcClient_faulty` | 2 coroutines with 2 calls each, 1 synchronous call, every kind of reply | 1.15 million | one reply per caller, the right one, and no overrun of the ring |
| `RpcClient_test_sync` | 2 synchronous calls, object or error replies | stops at the violation | finding 1 |
| `HttpGet_any` | 3 requests (synchronous, asynchronous, by name), 2 connections, one abort, everything may fail | 140 thousand | requests are held, not stranded and answered once; timers agree; `HttpService` is implemented |
| `HttpGet_async` | 3 asynchronous requests of 2 nonces, connections end in time | 5 thousand | every request is answered even by a silent server |
| `DockerTimers_all` | 2 modules, 2 timers, 3 instants | 567 thousand | indexes, sleep, late callbacks, and the end of the thread |
| `Docker_any` | 3 modules that use one another, 3 calls and an exit | 65 thousand | threads, delayed start and the return of halts |
| `HttpServer_all` | limit 2 (3 client objects), 3 connections, one unasked response, TLS or not | 149 thousand | references, accepting, reports and the return of client objects |
| `PeerNet_all` | 2 addresses with a node each, 1 outbound socket, 2 inbound slots, 2 node entries | 628 thousand | connection counts, nodes, bans |
| `MCLibrary` | 12 parts: 4 posts and 2 invocations; 3 threads at the lock; 2 events, 2 values, 2 subscribers; 3 peers and 2 data; 4 messages; a ring of 4 to 5 bytes and 8 in all; bodies of 2 chunks; 4 addresses; 2 intervals of 2; one Run and the Exit; codings of some thousand values | 71 thousand | each part keeps its promise |
| `MCLua` | 3 objects and 2 upvalues, one collection asked for; small tables and strings; 2 coroutines; inputs of the libraries up to 3 or 4 elements; some 20 thousand programs | 1.25 million | each part keeps its promise |
| `LuaGC_overtaken` | one object more to finalize than a sweep step visits | stops at the violation | finding 2 |

Why the bounds are enough to be interesting. Two coroutines are what it takes for a
nonce to be reused while another is in use; a ring of two slots wraps. Three requests
on two connections reach the limit while one waits, and a connect handler may serve a
request that is not its own. Two timers of which one may expire at once give every
order of setting, expiring, taking and cancelling for one pair, and a callback may
set the second while the first is in flight. Three modules are a chain of two uses.
Three connections over a limit of two reach the limit, reuse a client object while an
old completion is pending, and turn a connection away. Three threads are a reader
inside, a writer waiting and a third that arrives. Two addresses, of which one also
connects inbound, reach the limit of connections, erase a status that still counts, and
trim the idle nodes. Codings are checked on both sides of every limit of a length.

Bounds that name a counter (`MaxPosts`, `MaxInvokes`, `TaskCalls`, `SyncCalls`,
`MaxTimers`, `MaxTime`, `MaxCalls`, `MaxClients`, `MaxPushes`, `MaxEventId`, `MaxMsgs`,
`MaxBan`, `MaxEntries`, `MaxOps`, `MaxFull`) are in the guards of the actions that count.
`CHECK_DEADLOCK FALSE` stands where the system may stop: a module that is halted for
good, a program that has ended, a script that is done, a service whose bound is reached.
Symmetry is used in `RpcClient_faulty` and `PeerNet_all` only, which check no liveness.

Each module states its types (`TypeOK`); for the modules with proofs a theorem says that
they are kept. The runs are spent on properties that can be wrong in a program that
keeps its types.

### Properties with a condition, and why

* `HaltReturnsUnlessReset` excludes the case of the `Reset` after a failed handler
  that clears the abort flag of a concurrent Interrupt (`w/event/eventproc.cpp:47`): that
  Halt really does not return.
* `CallsReturn` speaks of calls whose reply was posted: HTTP owes no answer. It excuses a
  reply that was freed with the queue when another failed (`w/event/eventproc.cpp:47`), and
  one that met a race for its callback, which is stored after the dispatch
  (`src/rpcclient.cpp:110`) and erased after it has run (`:71`). It excuses by the cause: a
  reply that is lost in another way violates it. `SyncReplyIsOwn` is checked, and proved, where
  every reply is an object or an error: any other value leaves the last object in place.
* `RequestsKept` counts a connection the peer has reset at once as one that owes
  its request an answer: `GetRemote` fails there and nobody serves it.
* `TimersAgree` excepts connections whose timer was cancelled by an old id, possible
  only after a connect timeout (`robbed`). `ResponseWatched` shows that without
  connect timeouts, and with one host to each nonce, nobody's timer is ever taken.
* `AsyncAnswered` is for asynchronous requests: the timer of a synchronous one has
  nonce 0 and is routed to the outbound connections, where it does nothing.
* `TimersKept` and `CallbacksTimely` except the timer that was in flight when its
  module's timers were cancelled, and detached modules, whose timers nobody cancels.
* `ConnectionsServed` excepts an accept that failed: its error looks like an abort and
  no other accept is started; and is about one request at a time only while the module
  sends nothing unasked.
* `ConnectionsCounted` and `NodeKept` except addresses whose status was erased
  (ClearBanned, too many addresses) while connections counted in it, and connections
  that could not tell their endpoint.
* `HaltReturns` and `ProgramAlwaysEnds` except a thread that has undone the stop of the
  halt that joins it, by its initial reset or by the `Reset` after a failed handler, one that
  waits for an answer of the server, and, for `HaltReturns`, a delayed thread after a failed
  Run. Each is described below.
* `ChunkedBodyRead` excepts a reader that spins: the delimiter is inside a chunk that is not
  complete, and `ReadUntil` returns at once with the residue, for ever. Otherwise every body
  is read to its end, and in no case is a byte of it lost or another taken for one.
* `HeapSafe` excepts behaviours in which the sweep was overtaken (finding 2): what it
  missed is black when the next cycle marks, is not traversed, and what only it refers to
  is freed though the program can get at it. It allows a freed key in a node
  without a value of an all-weak table. Such a key is looked at again when the table
  becomes strong or weak in one way, or when a long string is compared with it; the model keeps
  an all-weak table all-weak and has no long strings.
* `SubscribersKnow` promises every queued event only to a single subscriber whose
  responses arrive: a queue forgets what it has generated.
* `LibrariesRight` leaves out a step of 0 in a numeric loop, limits that are no number, and
  displacements of `bit32` whose negation or sum overflows, which C leaves undefined.
* `CompiledRight` leaves out programs whose meaning the manual leaves open (orders of
  evaluation), and an `if ... goto L` followed at once by a label inside the `if`, for which
  this version of `test_then_block` is known to generate wrong code.

### Fairness

| module | weak fairness of | because |
|---|---|---|
| EventProc, RpcClient | the event thread; in RpcClient also the Lua thread | threads are scheduled; nothing is assumed of HTTP, which leaves synchronous and stranded requests without an answer |
| HttpGet | resolver, queued handlers, timer polling | the io thread runs ready handlers and polls its timers every second; servers owe nothing |
| HttpGet (`PromptSpec`) | also connection attempts | only where connect timers do not expire: an attempt ends before them |
| DockerTimers | the timer thread, its wait, notifications, the clock | callbacks are assumed to return |
| Docker, LuaShell | the docker's calls, the start of threads, and (strong) the end of a thread that is still told to stop | a console or script looks at its flag between two calls, so it is enabled again and again; answers are not assumed, nor that handlers succeed: a thread whose stop was undone owes no end |
| HttpServer | completion of an operation of a closed socket | asio completes it as aborted |
| HttpText, PeerStream | arrival of bytes; completion of writes | the network is assumed to go on for these two promises |
| RWLock | a thread that has called a lock operation or is inside | threads leave critical sections; none has to come back |

## 4. Findings and observations

**1. A synchronous call may hang after an error reply** (`RpcClient_test_sync`).
`CRPCClient::HandleEvent` completes the call and then returns false; the console thread
may make its next call and have that reply queued before the event thread, on the
false, resets the queue and frees it. `script/lua/test.lua:24-26` prints the result of each
call of a loop, error or not; the next `rpc.help` never returns.

**2. A finalizer may take the sweep's place with it** (`LuaGC_overtaken`). Finalizers run
between sweep steps. When the sweep of `tobefnz` stands behind the object that
`udata2finalize` takes out, object and place move to `allgc`, and the rest of `tobefnz` is
not swept: it stays black, against `lua/src/lgc.h:57`. It takes more objects to finalize than
`GCSWEEPMAX`. In the next cycle a black object counts as marked, is not traversed, and
what only it refers to is freed. `MCLua` reaches such behaviours too and excepts exactly them.

What else came up while modelling; no document of the repository says otherwise, so
these are described and excepted in the properties above rather than listed as
findings:

* A connect timeout deletes the client while its completion is queued
  (`w/netio/iocontainer.cpp:464-472`).
* A reply that is not an object leaves `jsonRsp` as it was: a successful synchronous call
  then returns the result of an earlier one (`src/rpcclient.cpp:60`).
* `ioService.reset()` at the start of the io thread and of the console thread undoes a
  stop that came first; `CommandThreadFunc` sets `running` likewise, and the `Reset` of the
  event queue after a failed handler clears the flag of an interrupt.
* The chunk data of a response may hold the text `ReadUntil` waits for
  (`w/http/httpget.cpp:179`): the io thread then spins on an incomplete chunk.
* `clearkeys` and `clearvalues` pass over nodes without a value (`lua/src/lgc.c:644`, `:668`), and
  all-weak tables are not traversed: such a node keeps a key that has been freed.
* A delayed thread waits for an active docker; the halt after a failed Run joins it.
* Exit joins the interactive thread, which may wait for a server that never answers; a
  first SIGINT does not end the program then.
* `Halt(key)` of an unknown key follows a null pointer (`w/docker/docker.cpp:237`); the
  model's `CallHaltKey` is for known keys.
* With a limit of N an inbound service admits N-1 connections, and a TLS handshake in
  progress, which has no timeout, holds up all others.
* Readers of `CWalleveRWAccess` starve as long as writers keep coming, by design.
* Ids of event streams restart at 0 with the program, and a status that becomes the
  default value is not told to clients.
* `script/lua/test.lua:18` calls `rpc:asyncstart(task)` with a colon, so its coroutine ends
  with an error and its nonce is lost.

## 5. What is proved

Each `*Proofs` module holds theorems of the form `Spec => []Inv` and, for the peer streams,
the circular buffer and the HTTP client, a refinement, checked by TLAPS for every value
of the constants under the named assumptions below. Each rests on an inductive invariant that is stated as a conjunction
of named parts, with one lemma for each action or kind of step; TLC has checked each
invariant on an instance before.

| module | theorem | property of a run | assumes |
|---|---|---|---|
| ThreadProofs | Typing, Order, Freshness, Ordered | `EventsInOrder` | the bounds are naturals, the switch is Boolean |
| ThreadProofs | LockTyping, Excludes, WriterAwake, ReaderAwake, LockHolds | `LockSafe` | the set of threads is finite |
| LibraryProofs | SchedulerSafe | `SchedulerAgrees` | the number of peers is a natural |
| LibraryProofs | StreamImplementsChannel | the safety part of `MessagesInOrder` | none |
| LibraryProofs | RingSafe | `RingIsQueue` | the size of the ring and the number of byte values are positive |
| LibraryProofs | SubscribersTyped, SubscribersSafe | `SubscribersKnow` | the bound on ids is a natural |
| LibraryProofs | SamplesSafe | `SamplesAgree` | addresses are naturals, differences integers, the limits naturals, the range of adjustment is not empty |
| LibraryProofs | AttemptsSafe | `AttemptsCounted` | the size and the length of the ring and the limit are positive |
| LibraryProofs | StringsTyped, StringsInterned | `Interned` | hashes are naturals, sizes positive, the bound on strings a natural |
| PeerNetProofs | NetHolds, CountsHold, NodesHold, BansHold | `ConnectionsCounted`, `NodeKept`, `BanHolds` | nodes, sockets and slots are finite sets, the limit and the retry interval are positive, the lowest score is negative, penalties and bases are naturals |
| DockerProofs | Types, Bounded | `ThreadsBounded` | the bound on calls is a natural |
| DockerTimersProofs | Types, Kept, Timely | `TimersKept`, `CallbacksTimely` | delays and bounds are naturals |
| RpcClientProofs | Types, Matched, SyncMatched | `RepliesMatched`, `SyncReplyIsOwn` | the set of tasks is finite, the ring has a slot for each task at least, the bounds are naturals |
| HttpServerProofs | Types, Exact, Served | `ClientsExact`, `ConnectionsServed` | the limit is at least 1, the bounds are naturals |
| HttpGetProofs | Types, Held, Agree, Implements | `RequestsKept`, `TimersAgree`, `HttpServiceKept` | the set of requests is finite, nonces and the limit are naturals, each request names a host, an address is not a name |
| HttpGetProofs | Watched | `ResponseWatched` | `AsyncOnly`: coroutines, each of which asks of one host, by its address, and asks again when it was answered; no connect timer expires and nothing is aborted |

*EventProc.* That events are handled in order says nothing of those still queued, so it
is not inductive. The invariant orders the whole pipeline: the history, then the event
in hand, then the queue, each increasing, all below the number posted last; and says
that the queue and the hand have nothing from before the mark of the last reset, except
while the module is down.

*RWLock.* The code decides from its counters, the properties speak of threads, so the
invariant says that each counter is the cardinality of the threads it counts. The
lost-wake-up proofs use it: when the last reader leaves and `nWrite` is not zero there
is a thread to wake, or one that will look by itself.

*DataSched.* The agreement of the records is inductive with the types. What it rests on
is that taking a datum from a list that holds it once leaves the others, each once.

*PeerStream.* The refinement mapping gives the channel the messages of both buffers and
those delivered; every step of the detailed specification is a step of the channel or
a stutter. The invariant says which buffer holds which range of numbers.

*CircularBuf.* The areas of `std::streambuf` are copies of the ring's offsets that each call
renews in part, so the invariant ties them to what may be read and what is free: the get
area never passes the write position, the put area never reaches the first byte kept, and
neither crosses the end of the ring. The read position of the queue is the number of a
byte, modulo the size of the ring (`NumberIs`). Positions are masked by cases (`MaskedIs`), and what
the bytes kept become when one is put or some are dropped is a lemma each (`FromAppended`,
`FromDropped`); every call is then a step of `ByteQueue`.

*HttpSSE.* With the types, `SubscribersKnow` is inductive, though each half rests on the
other's ids: a generator holds no id above the stream's, a client none it was not given.
What a response does to a queue is a lemma of its own (`QueueSends`): of the entries of any
sequence, those that are newer than the client's id are sent, and none is left.

*NetTime.* The addresses and the sorted vector must agree as bags, so the invariant counts:
each difference is in the vector as often as among the addresses, and both have the same size.
That `lower_bound` finds a sample to erase (`EraseIs`) needs the vector sorted and the sample
there; that the vector stays sorted needs the place of an insertion (`InsertIs`). Both rest on
`OneMore`, a bijection between the places of two sequences that differ by one element.

*ConnAttempt.* Each counter of the ring holds the attempts of its interval, so what the
counters hold together is what the count must be. The array is uninitialized memory until
the first attempt, which therefore must come after a pause (the clock is far from 0). When
the ring slides, what the leaving counters held is the attempts of the leaving intervals
(`LeftIs`, a sum by induction up to a bound, `UpTo`), each counter used again has been
cleared, and the latest attempt stays in the ring, which gives the bound of the property:
what fell out is older by all intervals but one.

*LuaString.* The invariant says what the table is: for some number of buckets, each chain is
the set of the unfreed strings of that bucket, and the count is theirs. So a lookup finds
every string of its content (`FoundIs`), and each of insertion, removal and resize leads from
one such table to another (`PutIn`, `TakenOut`, `ResizeIs`). That nothing referred to is swept
needs the colours: behind the sweep all is white again, and what the program or the cache
holds is never dead.

*PeerNet.* The three properties are one invariant, `NetInv`, because every handler moves a count, a
node and a ban together. Beside the types it says that a socket has one connect to a node at
a time (`Once`), so that a completion can be told from the connect it speaks for; that an idle
entry is not due before its address's ban is over (`BansBut`); that a CPeer which does not know
its endpoint has one that is still to be asked for, or an address that has lost track (`Told`);
and the counts (`Counted`) and nodes (`Kept`). The managers' operators are described by what they
move: `Moved(e, f, a, d, n, l)` says that only the count of a changed, by d, and only the idle list
of n, by l entries, and that no other address lost track. Each operator is such a move (`DismissMoves`,
`FetchMoves`, `CloseMoves`, ...), moves compose, and three lemmas (`ConnectKeeps`, `ClosingKeeps`,
and `StillKeeps`, where nothing moves) turn a move into `Counted` and `Kept`. Loops of the code
(trimming, skipping) are folded by induction over the naturals, as sets of states reached
in k rounds (`UpTo`).

*Docker.* The position in the work queue decides: modules before it in a Run are invoked,
those after it in a Halt are. The invariant ties position, statuses and threads; that
no delayed thread is woken early then follows from who sets `fActived`.

*DockerTimers.* The two indexes differ by the timers in the work queue, and by those
cancelled while in it. The thread's sleep is tied to the first expiry by what is
under way: a notice, a pass of the deadline, or the thread's own next look.

*RpcClient.* The code tells replies apart by nonce alone and hands a nonce out again when
its coroutine has returned. The invariant follows a call from its dispatch to the ring:
its request or reply is in one place, its caller waits for it and holds the nonce, and
nobody else does. From that, a ring with as many slots as tasks is never overrun.
`SyncMatched` needs that a reply of status 200 is a JSON object, as the server's are; the
condition is a hypothesis of the theorem and not an assumption of the module.

*HttpServer.* Five parts. `Steady` speaks of the container alone: the idle queue is
injective, not empty, and has exactly the objects without references; the count of an
object follows from its socket and operations; at most one connection is being made, on
an object on which nothing else is under way. That the idle queue is never empty is what
keeps `AcceptNext` from an empty queue, whatever the limit. `ClientInv` gives each live
socket one living client; `ReportInv` ties events to ended connections, `TurnInv` events
and debts to operations. The proof follows the code: what one container method does
(`StartIs`, `ReleaseIs`, `CloseIs`, `AcceptNextIs`), what a handler's chain of them does
(`Completed`, `Continued`, `Removed`, `Taken`, `TurnedAway`), what the handler does to the
invariant.

*HttpGet.* `NetInv` is about sockets and timers: every id somebody keeps was given out;
each connection has an open socket of its own; an attempt under way or a connection
carrying a request has its timer, unless another took it; and no timer is left
that belongs to nobody. `RequestInv` has the accounting (`OwedOnce`): what was accepted
and has no answer is exactly what waits or is carried, in one record of one place. That is
what makes each step one of `HttpService` or a stutter. `NoRequestStranded` counts,
host by host, as many handlers to come as requests that wait, and is inductive only with
`SocketsFresh`: a socket is not used before its request is resolved. `IdsCounted` shows that
the two timer ids per request the model has are never exceeded: each new id is
paid for by a socket used or a request settled. A lemma for each handler says what it
does to both halves; the lemmas `Net...` and `Owed...` are shared among them. `Watched`
has an invariant of its own, `WatchInv`: nobody was robbed of a timer, a nonce waits once
or has one connection and that to its host, and a client that carries a request holds its
live timer; so the search of `Timeout` by nonce and timer id can find no other. Its
hypothesis `AsyncOnly` is what this needs, not what the proof found convenient: resets,
failed allocations and any limit of connections are admitted, and TLC shows the property
false on three requests when hosts go by name or a coroutine asks of two hosts. A name is
always resolved and connected anew (`httpget.cpp:397`), so a nonce then has two
connections, the idle one may keep the id the other's timer was given, and `Timeout` finds
the idle one.

## 6. What is only model-checked, and why

* Liveness (`CallsReturn`, `AsyncAnswered`, `TimersEnd`, `HaltReturns`, `HaltReturnsUnlessReset`,
  `ClosedBecomesIdle`, `WritersProgress`, `ProgramAlwaysEnds`, and the liveness in
  `ChunkedBodyRead` and `MessagesInOrder`): the prover treats neither fairness nor `ENABLED`.
* What is computed by recursion over data:
  `ConversionsInvert`, `LibrariesRight`, `CompiledRight` and the operators of the collector.
  Induction over data is out of the prover's reach, and so is every module with a
  `RECURSIVE` operator.
* The refinement `LuaDo` of `LuaThreads`: not proved yet.

## 7. What is not modelled, and why

Contents of messages beyond their codings, options and TLS certificates: no property
depends on them. Allocation failures outside the HTTP client. Data races on standard
containers and on the Lua state (`mapAsyncCallback`, `nRead`/`nWrite`, `lua_setglobal` in
ExitCommand): each access is one atomic step here, what a race does to the container is
outside. The nested call of `rpcasyncwait` from a coroutine, which blocks on its own
mutex: no script of the repository does it. Wrap-around of 32-bit timer ids. A second
invocation of the HTTP server, several services, users and queries. The
configuration, the log, the database wrapper (no engine in the repository), the text of
JSON (third-party code): sequential code without shared state. JSON tables with float or
Boolean keys. The remaining Lua scripts are user commands over `rpc.lua`.

Of Lua: metatables as objects, the cache of prototypes, `luaC_fix`, `luaC_freeallobjects`
and the arithmetic of the debt in the collector; allocation failure inside
`luaH_resize`; long strings; hooks, the growth of the stack and the parser under a
protected call; floats, line information, the limits on registers, upvalues and
constants in the compiler; the call of a message handler and an error inside it (`LUA_ERRERR`), which
`LuaDo` gives as one step of the error; in `string.unpack` the wrap of `pos + len + size`, whose
string of that length is an error all the same; the lexer; the io, os, debug and package libraries, which are
calls of the system.

## 8. Plan

1. *Proofs.* `LuaDo` as `LuaThreads`.
2. *Composition.* `HttpGet` under `RpcClient` instead of its environment, with the stop of both
   threads: `DispatchEvent` waits for ever when the io_service is stopped
   (`w/netio/ioproc.cpp:100`). The plain outbound container.
3. *Console.* Lines, outputs and events through the strand, `mutexConsole`, the end of input.
