# A model of socket-programming-in-C

TLA+ modules, model-checking configurations and machine-checked proofs for the
programs of this repository. The core is the HTTP reverse proxy under
`src/req-res-parser`; the other directories hold small programs about threads,
sockets, epoll and caches, each modelled by a module of its own.

## 1. The system

| component | state | operations | talks to |
|---|---|---|---|
| main loop of the proxy (`main.c`, `server.c`, `proxy.c`) | routing table, the descriptors `client_id` and `targetfd`, the arrays `buffer` and `request`, the parsed `HttpRequest`, the heap | accept, read, parse, route, connect, rebuild, forward, relay, error response, cleanup | clients and a backend, over TCP, with blocking calls |
| parsing and rebuilding (`request_parser.c`, `rebuild_request.c`) | none; allocates the fields of `HttpRequest` | `parse_http_request`, `free_http_request`, `rebuild_request`, `get_client_ip` | called by the main loop |
| route lookup (`route_config.c: find_backend`) | none; reads the table | scan for the longest prefix | called by the main loop, returns a pointer into the table |
| start-up (`setup_server`, `route_config.c: load_routes`, `main.c`) | the listening socket, the table | `socket` to `listen`; `fgets`/`sscanf` per line | the configuration file |
| thread pool (`threadPool.c`) | `taskQueue`, `count`, one mutex, one condition variable | submit, take, execute | 5 workers and the main thread |
| producers and consumers, semaphores (`prod-cons-semaphore.c`) | `buffer`, `count`, semaphores `empty`, `full`, `allow` | produce, consume | 3 producers, 3 consumers |
| producer and consumer, condition variables (`conditionVar.c`) | `buffer`, `count`, mutex, two condition variables | produce, consume | 2 threads |
| counting semaphore (`semaphore.c`), thread results (`thread.c`) | `count`, `semaphore`; `mail`, `lock` | enter/leave, add mail | 10 and 3 threads |
| LRU caches (`lru1.c`, `lru2.c`) | an array in order of use; a doubly linked list in order of use with a hash table of chains | get, put | one caller |
| hash table (`hashTable.c`) | open-addressing slots | insert, search, delete | one caller |
| epoll servers (`epoll_practice.c`, `epoll_practice2.c`) | descriptors, the interest list, one batch of events | epoll_wait, accept, read, write, close | clients, the kernel's readiness events |
| thread-per-connection server (`socket-thread/server.c`) | descriptors, one heap block and one detached thread per connection, a global buffer | accept, create, send, read, close, free | clients, the allocator |
| single-page server (`socket-http-server-c/server.c`) | listening socket | accept, read, send, close | clients |

### What is hard

*The proxy* is one thread, so nothing interleaves inside it; what interleaves is
the outside world. A client may stop after any segment, close, or reset the
connection before, between or during the proxy's calls; a backend may refuse,
answer slowly, close early or reset. Each of the nine failure paths of `main.c`
jumps to one `cleanup` label with different things open and allocated. `send`
may take a part of what it is given. The array `request` is reused by every
connection without being cleared, and is not always terminated; the routing
table is written to while it is used. Everything waits for one `recv` that ends
only when the backend closes.

*The threads* share arrays under a mutex, semaphores or condition variables:
lost and spurious wakeups, the order of two `sem_wait`s, reads outside the lock.

*The servers* use descriptors whose numbers the kernel hands out again at once: an
event, a second `close` or a freed block may by then belong to somebody else.

*The caches and the table* are sequential: long sequences of legal calls that
reach a state in which a lookup fails or a link dangles.

### What makes each component correct

* proxy: a disconnect never stops it; it closes and frees on every path what it
  opened; what reaches the backend is the client's request, whole and in order,
  for the right backend; what reaches the client is one answer, never a mixture;
  clients are served in accept order and each in the end;
* route loading: the table holds the file's routes, in order, whatever lies between;
* route lookup: longest prefix, first of equals, for every table;
* thread pool: every task runs once, in order of start, and no task waits while
  workers that could run it sleep;
* bounded buffers: the index stays in the array, each item is consumed once,
  nobody waits for ever;
* LRU and hash table: what was put and not evicted is found, and what is evicted
  is the least recently used;
* servers: a descriptor and a block are released once, a reply goes to the client
  that asked, and every connection is served and closed.

## 2. The modules

| module | models | |
|---|---|---|
| `RouteTable` | the table of `route_config.h`; what a lookup promises (`IsBest`, `BestBackend`) | definitions |
| `RouteLookup` | the loop of `find_backend`, one action per iteration | state machine |
| `HttpRequest` | `parse_http_request`, `rebuild_request` on sequences of tokens | definitions |
| `Proxy` | the loop of `main.c` with `server.c` and `proxy.c`, clients and backend | state machine; uses `HttpRequest`, `RouteTable` |
| `Gateway` | what the proxy promises its clients | abstract specification |
| `ProxyProperties` | invariants, the refinement of `Gateway`, liveness | properties |
| `ProxyClaims` | what comments and documents say and the code does not do | properties that fail |
| `ProxyProofs` | the invariants of the proxy, and that it implements `Gateway` | proofs |
| `ThreadPool` | `threadPool.c`, one action between two mutex operations | state machine |
| `ThreadPoolProofs` | its invariants for any number of workers and tasks | proofs |
| `Startup` | from the start of `main.c` to its lookups: set-up, `load_routes`, `find_backend` on the loaded table | extends `RouteLookup` |
| `StartupProofs` | the loop returns `BestBackend`, for every table and path; the table is what the file says | proofs |
| `SemaphoreBuffer` | `prod-cons-semaphore.c`, one action per semaphore operation and access | state machine |
| `CondBuffer` | `conditionVar.c`, one action between two mutex operations | state machine |
| `SharedCounter` | `semaphore.c` and `thread.c`, one action per load and store | state machine |
| `ThreadPrograms` | the four thread programs, one of which is started | composition |
| `LRU` | what a least-recently-used cache promises | abstract specification |
| `ArrayLRU`, `ListLRU` | `lru1.c`, `lru2.c`, one action per call | state machines |
| `LRUCaches` | the same calls made to both caches | composition; `ArrayLRU` implements `LRU` |
| `HashTable` | `hashTable.c`, one action per call | state machine |
| `EpollServer` | both epoll programs and the kernel's ready list | state machine |
| `ThreadServer` | `socket-thread/server.c`, its descriptors and heap blocks | state machine |
| `ThreadProgramsProofs` | the invariants of all four thread programs | proofs |
| `LRUProofs` | `ArrayLRU` implements `LRU`; both caches agree; the list is in order | proofs |
| `HashTableProofs`, `EpollServerProofs`, `ThreadServerProofs` | their invariants for any table, clients, descriptors, threads | proofs |
| `MC*` | values of the constants | for TLC |

### How Proxy corresponds to the code

`pc` names the blocking call the thread is at. One action is what the thread
does between two of them:

| `pc` | call | actions |
|---|---|---|
| `accept` | `accept`, server.c:107 | `Accept` |
| `read` | `read`, main.c:53 | `ReadNothing` (0 or -1), `RejectRequest` (the parser returns -1), `TakeRequest` (parsed and routed) |
| `connect` | `connect`, proxy.c:44 | `ConnectFails` (502), `Connect` (also rebuilds the request, or 500) |
| `forward` | `send`, proxy.c:71 | `Forward`, `ForwardFails` (502) |
| `recv` | `recv`, proxy.c:129 | `Recv`, `RecvEnds` |
| `send` | `send`, proxy.c:157 | `RelaySend`, `RelayFails` |
| `error` | `write` of an error response | `WriteError` |
| `cleanup` | main.c:219-250 | `Cleanup` |
| `dead` | the process was killed by a signal | |

`heap` holds the *kinds* of blocks allocated, `link` and `target` the state of
the two descriptors, `request` the array of `main.c` cell by cell, including what
former requests and the stack left in it. A text is a sequence of tokens: a word
of the request line, a whole header line, a line end, a byte of a body, a NUL.
The kernel's receive buffers are `inbox` and `pipe`.

A failing `accept` and calls interrupted by a signal are retried by the code
without any effect and are stuttering steps.

The environment is as rough as TCP allows: a client sends its segments one by
one, closes (`fin`) or resets (`rst`) at any moment, in the accept queue too; the
backend refuses (`ConnectFails`), answers in pieces, closes early, resets.

### How Startup corresponds to the code

`phase` is where `main` stands: `setup`, `open` (`fopen`), `load`, `serve`. A file is
a sequence of lines; a line is what it says and the chunks in which `fgets` hands
it out. `line` has 32 bytes: of a line of 31 characters the newline comes as an
empty chunk of its own, and the rest of a longer line is parsed as a line, so
the rest of a comment may become a route and a port may lose digits; the inputs
contain each of these. `fgets` is called before `count < max_routes` is looked at,
so one chunk more is read than is used, which `EndLoad` includes. Then `main`
looks up paths, one after the other, with the actions of `RouteLookup`.

### How the thread programs correspond to the code

In `ThreadPool`, `pc` is a function from threads to the statement they are at; the
mutex is the variable `lock`; a worker that waits on `condVar` is at `wait`
(`Sleeping`), `pthread_cond_signal` moves one sleeping worker to `woken`, where it
asks for the mutex again, and so does a spurious wakeup, which POSIX allows at any
time. `task` is the local copy `Task task`; the array keeps stale elements behind
`count`, as the code's does. `main` creates workers while earlier ones run, a failed
`pthread_create` ends the process, and after the last task `main` is at `join` for
ever: workers never return. The code never compares `count` with
`TASK_QUEUE_SIZE`; it is right because it submits no more tasks than fit, which is
`SizesAssumption`.

In `SemaphoreBuffer` the three semaphores are `sem`; `Waits` and `Posts` give the
order in which a thread uses them. Items are told apart by their producer and
round, where the code has random numbers. `sleep`, `printf` and `sched_yield`
change no state and are left out: any delay is an interleaving.

In `CondBuffer` everything is accessed under the mutex, so a step is what a thread
does between two mutex operations; `pthread_cond_wait` ends one step and begins
another. The producer tests `count` in a `while`, the consumer in an `if`
(`MustWait`). When the consumer reads below the array, the behaviour of the program
is undefined, and the model ends.

In `SharedCounter` a mutex is a semaphore of one permit; `Steps` is the order in
which a thread of either program enters, loads, stores, leaves and reports.

### How the caches and the table correspond to the code

One action is one call. In `ArrayLRU`, `Shifted` is what each of the four loops does
that make room at the front. In `ListLRU` a node is named by its key; `removeFromList`
and `addToFront` map a list to a list, pointer by pointer, and do what the code
does when the node is the head: line 68 stores what is there already, so the node
ends up pointing to itself, and `tail` may become null. `crashed` is the null pointer
that line 141 may then pass on; `headRemoved` remembers that the head was ever
removed. `LRUCaches` makes every call to both caches at once.

In `HashTable`, `FirstStop` is where the loops of `insert` and `search` leave.
`delete` looks at the home slot only. `held` is what a caller should find; `sound`
remembers whether every delete so far left the other keys reachable (`Harmless`).

### How the servers correspond to the code

In `EpollServer`, `program` says which of the two programs runs: they differ in
`AfterAccept`. The kernel keeps a ready list in order of arrival; `epoll_wait` takes
`MAX_EVENTS` entries off its front and puts them back behind the others, as long as
they stay ready (level-triggered mode). An event carries, as history, the client it
was reported for. A descriptor is the lowest free one. Failures of `accept`
(`EMFILE`), `set_nonblocking` and `epoll_ctl` are actions; `write` to a reset client
may raise SIGPIPE, which ends the process (`dead`), because these programs, unlike
the proxy, do not ignore it.

In `ThreadServer`, `heap` holds what is written in each block; a freed block keeps
its address in main's or a thread's variable, and `malloc` may hand it out again.
`thread[w].reading` is the connection a blocked `read` holds on to even when its
descriptor is closed by another thread. `AfterClose` lists the three places from
which a thread closes; two of them follow each other. `starved`, `hungUp` and
`foreign` are history: accept has failed, a read found no request, a close hit
another client's connection.

## 3. What is checked

| run | question | states |
|---|---|---|
| `startup` | is the file's table loaded, and does the loop return the longest match in it? | 126,346 |
| `proxy_safety` | two clients, all failures, heads that do not fit: descriptors, heap, forwarded text, refinement of `Gateway` | 760,772 |
| `proxy_sizes` | one client after the other, requests around every limit: faithful delivery of well-formed requests, whole and right answers | 216,278 |
| `proxy_live` | is every queued connection served and closed, whatever the clients ask of the connection? | 95,208 |
| `thread_pool` | order, each task once, no lost wakeup, all executed in the end | 249,306 |
| `thread_programs` | bounded buffers in bounds and without loss, counters after lost updates and unlocked reads, every thread finishes | 153,526 |
| `lru_caches` | does the array implement `LRU`, does the list cache hold the same, when is its list sound? | 57,579 |
| `hash_table` | are searches faithful until a delete is harmful, is an inserted key found? | 4,272 |
| `epoll_servers` | stale events, leaked descriptors, starvation | 81,657 |
| `thread_server` | does a thread talk to its own client, when is the second close harmless, are blocks freed once, do connections end? | 787,909 |
| `claim_exchange`, `claim_split_body` | seven statements of comments and documents that the code does not keep | a violation each |

Every property of a passing run has a mutant: a faulty variant of one definition,
kept beside it in the module and marked "Faulty variant", under which TLC finds
the property violated.

### Bounds

* two clients (`Clients`), each connecting any number of times: one is served
  while the other waits, and the order of two in the queue matters; `Backlog` = 2
  holds both;
* `MaxMethod` = 1 piece instead of 7 characters: PROPFIND is two pieces, of which the
  second is cut;
* `MaxHeaders` = 2 and `MaxRequest` = 12 in `proxy_sizes` instead of 32 and 8192: requests of
  sizes below, at and above each limit, one with its Content-Length behind the headers
  that are kept; it fits once rebuilt, so it is delivered. `MaxHeaders` = 3 and
  `MaxRequest` = 11 in `proxy_safety`, where a request with a body and three headers
  outgrows the array while its head is written (error 500);
* `BufferSize` = 12 for the one read, which takes 11 tokens: the request of eight headers
  has 13, so the read ends before its blank line;
* `RelaySize` = 2 and responses of up to three parts: a response needs several
  `recv`s, and a chunk several `send`s;
* a send takes one token, all of them, or none (`ZeroSends`);
* `MaxOverread` = 1: what `strlen` finds behind an array that has no NUL in it;
* two routes: nested prefixes, one host with a colon;
* `thread_pool`: three workers and four tasks, so that workers sleep and are awake
  at once, tasks queue up behind busy workers, and two workers compete for one
  task; two spurious wakeups (`MaxSpurious`), more than one race needs;
* `startup`: a table of three routes, files of up to four lines, so that the file is
  longer than the table; every file of up to two lines, of every kind of line;
* `thread_programs`: two producers and two consumers, one of each in `conditionVar.c`,
  around an array of two, three rounds each: the array is full and empty again and again, and
  threads of either kind wait; four counting threads and three permits, so that
  one waits while three lose each other's increments;
* `lru_caches`: four keys in two buckets, three of them on one chain, and caches of
  one, two and three entries: heads, tails and entries in between are all moved and
  evicted, and a full cache of one is full at once;
* `hash_table`: three slots and five keys, two pairs of which collide: probing wraps
  around, the table gets full, and deletes leave holes;
* `epoll_servers`: three clients that come again and again, two descriptors and
  batches of two: clients have to wait for a descriptor, an event for a
  batch, and a number is used again within a batch; `Backlog` = 2;
* `thread_server`: three clients, two threads, two descriptors and three blocks:
  `accept` fails while two threads run, and a closed number is given to the third
  client. A client connects once. `Workers` bounds the threads alive at a time:
  main waits when they are used up, or fails to create one.

The runs of programs that end, or may be ended by a failure, a signal or a crash
(`startup`, `thread_pool`, `thread_programs`, `lru_caches`, `epoll_servers`,
`thread_server`) do not check for deadlock; where it matters their liveness
properties say that they stop nowhere else.

`proxy_sizes` and the claims allow the system to stop: with one client, a
body that never comes leaves proxy and backend waiting for each other. This is
the code's behaviour, and `claim_split_body` is the run about it. `proxy_safety`
and `proxy_live` check that there is no deadlock.

### Fairness

`proxy_live` assumes that the proxy's thread runs when its call can return
(weak fairness of `ProxyStep`; the thread is an ordinary thread of the OS), that a
client that neither closes nor resets sends the segments it has (`ClientSend`),
and that a backend that has received a complete request answers, sends its answer
and, asked to, closes (`BackendAnswer`, `BackendSend`, `BackendClose`). Nothing is
assumed of closes and resets: a client may always leave. The code sets no
timeout on any socket, so without these assumptions there is nothing to show; and
they are not enough when a request is split between two segments in or before its body
(`claim_split_body`), so the inputs of `proxy_live` leave such requests out. A backend
is asked to close when any Connection header it reads says close; the inputs of
`proxy_live` hold a client's keep-alive header beside the one that is added.

`thread_pool` and `thread_programs` assume weak fairness of every thread: a thread
that can run does. That is enough for a mutex that gives no guarantee to the one who
waits longest, because the other threads ask for it finitely often; spurious wakeups
must be finitely many in `thread_pool`. No fairness is assumed of `CreateFails` and
`SpuriousWakeup`.

`epoll_servers` assumes that the thread runs, that a connected client sends or
leaves (the servers set no timeout), and strong fairness of a successful accept:
`set_nonblocking` and `epoll_ctl` do not fail for ever. `thread_server` assumes that
main and the threads run, and that a connected client sends or leaves.

### What the claims show

| claim | statement | what the code does |
|---|---|---|
| `ExactBody` | rebuild_request.c:89 "EXACT BYTE PRESERVATION" | bytes left in the array follow the body: no NUL is written, `strlen` is forwarded |
| `BinaryBody` | rebuild_request.c:79 "BINARY DATA SAFETY" | the parser measures the body with `strlen`, so it ends at its first NUL |
| `MethodKept` | http_types.h:23 "HTTP method" | `strncpy` keeps seven characters and a longer method is forwarded cut, not refused |
| `ConnectionReplaced` | connection-issues.md:43 the proxy must replace the browser's Connection header | it is copied, and close is added behind it |
| `ClientToldToClose` | main.c:208 "It must add 'Connection: close' to backend request and client response" | nothing is added to a response |
| `NothingLeaks` | performance.md:20 "No crashes or memory leaks" | `request_line`, and `path`, stay allocated when a request is refused |
| `EventuallyClosed` (`claim_split_body`) | design-decisions.md:21 "Server closes connection after one request-response" | a body that comes after the one read stops the proxy |

The first six are said of every exchange that ends with a whole response, so
`DocumentedExchange`, that at least one of the six holds of each, is weaker than any of them.
`claim_exchange` refutes it: a client first sends a request line without an end, then a
PROPFIND with a keep-alive header and a NUL in its body. The one state it ends in
contradicts all six statements. The bytes that follow the body make up for those behind the
NUL, so that the backend, which waits for the length the client announced, does answer.

## 4. What is proved

`StartupProofs`. The lookup alone, from `TablesAssumption` and `PathsAssumption` (tables
are sequences of routes, paths are sequences of strings): `TypeCorrect`, `ScanCorrect`
and `LookupCorrect`, that is `LongestPrefixMatch` for every table and path. `ScanInv`
says that before iteration `i` the variable `best_match` is the best of the routes
before `i`; it is inductive, and at the end of the loop it is the promise. `TakeRequest`
of `Proxy` calls `find_backend` as the operator `BestBackend`, which this theorem
justifies.

The proxy from its start, from `FilesAssumption` (a file is a sequence of lines, a line
has a sequence of chunks) and `RoomAssumption` (the set `Tables` has every table that
the files' routes make up): `StartTypeCorrect`, `ServedLookupCorrect` and `RoutesLoaded`,
the three invariants of the run `startup`, for every file and every `MAX_ROUTES`.
`LoadedAsWritten` speaks of the table that is served and says nothing of a file half
read, so the inductive invariant is `LoadInv`: there is an `n` such that `rest` is the
chunks after the first `n` and `routes` the routes among the first `n`; when the loop
ends, `n` is the number of chunks or the table is full. The routes of the first `n`
chunks begin those of all chunks (`AmongBegins`), and the chunks of a file whose
lines fit have the routes that its lines say (`FittingFile`: an empty chunk adds none).
TLC finds no violation of `StartIInv` in the run's states.

`ProxyProofs`, from the named assumptions of `Proxy` and `HttpRequest`: for any
clients, requests, responses, routes and buffer sizes. There are four inductive
invariants.

* `IInv == TypeOK /\ OneConnection /\ Survives /\ OnlyRejectedRequestsLeak`.
  `OneConnection` alone is not inductive: the step to `accept` needs the type of
  `backlog`, and the sequence lemmas at the top of the module, to show that the
  queue loses exactly its head; `Survives` says that SIGPIPE stays ignored, so no step
  leaves the served connection behind in a dead process. `OnlyRejectedRequestsLeak` is
  about accepted requests; the blocks of refused ones do leak (`NothingLeaks`).
  `CutHostType` shows that cutting a host leaves the table well-formed.
* `RelayInv` is about the answer. `Stream` is what the client was sent, the chunk in
  `relay_response` and what waits in the socket; while the backend answers, `Stream`
  and the backend's `reply` together are one response, however `recv` and `send` split
  it (`Relaying`). From it `GatewayImplemented`: the initial state and each step of
  the proxy map to those of `Gateway` or to a stutter; `G!Spec` has no fairness, so
  this is all of `KeepsGatewayPromise`. `WholeAnswers` needs `Explained` besides:
  why the proxy is in the error or relay branch it is in; the response the client got is
  the backend's as it was sent (`AnsweredVerbatim`; that a close should be added to it is
  `ClientToldToClose`). It is stated of
  `Unfailing` constants, those of the run: a backend that does not fail, sends that
  take something.
* `ForwardInv` is about the request. While `forward_request` runs, what has arrived and
  what is unsent make up the rebuilt request, followed, if it has a body, by what lies
  behind the body in the array (`StillWhole`). The address in the rebuilt text is the
  client's, or the loopback only when the client was reset, and a reset is never taken back
  while it is served (`AddressesStay`). The hard lemma is that `Rebuild`
  establishes this: the texts behind an array that may not be terminated
  (`TextsIn`) start with the rebuilt request whatever the array held before, because
  no token of a parsed request is a NUL. That in turn needs `TextsAssumption`, that
  requests and responses are sequences of tokens, and inductions over the recursive
  functions that parse the headers.
* `DInv` joins `ForwardInv` with what `DeliveredFaithfully` relates besides, over two more
  stretches of time (`Faithful`). `Unread`, from the client to the parser: nothing is left
  over from a client's former connection, and what the request was parsed from and what is
  still to be read make up what the client sends. `Routed`: cutting a host changes no
  prefix, so the lookup goes by the configuration as it was loaded
  (`RoutedAsConfigured`). `AllArrived`, from the rebuilt text to the backend: once
  `forward_request` has returned, what has arrived begins with the rebuilt request,
  unless a `send` returned 0.
  `InvFaithful` then is about texts only: `ReadAsSent` says that a receiver who goes by
  `Content-Length` reads in the rebuilt text what the client wrote: the path, the body,
  the headers in their order, of the method a beginning not shorter than what `methode` holds
  (`MethodCut`), and nothing is said of a client's Connection header, which the proxy is to
  replace (`KeepsHeaders`). Its parts are the
  parser's header loop at its limit (`FillsCut`, `FillsLength`: the kept headers are the
  first `MaxHeaders` (`FirstHeadersStored`), the length is the first one announced), the same loop on the copied
  headers (`FillsCopy`), and where things are in the rebuilt text (`CellsOfRebuilt`,
  `BlankOfRebuilt`, `AnnouncedIs`). It uses `WordsAssumption`, that a token that is only a
  word is no header and a word is a sequence of pieces. `DeliversFaithfully` is stated of sends that take something
  (`~ZeroSends`, the constant of the run): `forward_request` treats a `send` that returns
  0 as the end, and `main` then waits for an answer to a part of the request.

`DeliveredFaithfully` speaks of requests that were read whole and are `WellFormed`: text
that begins with a request line and has as many bytes of body as it announces. The
proof needs this. The parser takes all that follows the blank line for the body: a client
that announces more than it sends has the receiver read on into what lies behind the body,
and one that announces less, in a header beyond the limit, has its length replaced by the
longer one; a NUL ends the request where the client did not. Every request of `proxy_sizes` that is delivered whole is well-formed, so
the run loses no behaviour by the condition.

`ThreadPoolProofs`, from `SizesAssumption` and `ThreadsAssumption`: for any finite set
of workers, any number of tasks that fit the queue and any number of spurious
wakeups. `IInv` joins four parts, none inductive alone. `MutexInv`: a thread between
lock and unlock holds the mutex. `QueueInv`: the queue holds consecutive task numbers
that end at `submitted`, at every step; it needs `MutexInv`, since a second worker in
`copy` or `shift` would find the queue moved. `HandsInv`: the tasks that left the queue
are `1 .. submitted - count`, each held by one worker or executed; it needs `QueueInv`
for the task that leaves. Then `TypeCorrect`, `StartedInOrder` and `ExecutedOnce`
follow. `NoWakeupLost` is a counting argument of its own (`AwakeInv`): `main` counts a
task before it wakes a worker for it, a worker only falls asleep when nothing is
queued, so the awake workers never fall behind the queue by more than the one signal
`main` is about to send.

`ThreadProgramsProofs`, from `SizesAssumption`, `ThreadsAssumption` and
`CountersAssumption` (arrays and permits are not zero, threads are finitely many): for any
sets of threads, any arrays, permits and rounds. A step of one program is a stutter of
the others (`StepOfOne`), so the four have an invariant each.

* `prod-cons-semaphore.c`: `UnitsInv` says what each semaphore stands for: its value,
  the threads that hold a unit of it and `count` add up at every step, not only when
  nobody is at the array. The lemma `Moved` counts the threads at some labels when one
  thread moves. `AccessInBounds` and `SemaphoresAgree` follow. `ConsumedOnce` needs a
  second invariant, `ItemsInv`: between its access and its recount a thread has put the
  stack one item ahead of or behind `count` (`Top`), and no other thread is at the array
  then (`Alone`, from `UnitsInv`). `ProgramsImplementSpec` carries these results,
  stated of `Spec`, over to `ProgramsSpec`.
* `conditionVar.c`: `CondInv`. The consumer tests with `if`, so `ConsumerFindsItem`
  says something of a woken consumer, between the signal and its turn for the mutex:
  nobody else takes an item in between (`CondLoops`). `StackInv` accounts for every
  number produced, in the array or taken, each once.
* `thread.c` and `semaphore.c`: `CountInv`. `Bounded` relates the permits to the threads
  inside, and the counter to those that have stored: it may have lost increments but
  is never ahead, nor zero after the first store. `Exact` is about the mutex: the counter
  is the number of those threads, a thread between load and store has its value, and for
  every `k` at most `k` threads returned `k` or less. A thread that returns adds to the
  sets of all `k` from the counter up, which hold no more than the counter's threads.

`LRUProofs`, from `CapacitiesAssumption`, `ValuesAssumption` and `NullAssumption`, for any
capacity, keys, values and hash function. *The array*: `Inv` is `TypeOK` and
`Distinct`, the keys in the array are distinct, so `indexKey` has one hit. All calls are uses
of one place (`Use`, `CallsUse`), and one lemma says what a use does to the
abstract state (`UseIsUsed`): `ArrayIsLRU`. *The list*: `Linked` is the invariant of the
pointers. Once `removeFromList` was called for the head, only a part of the list is
sound, from some place on to the tail (`Sound(.., m, ..)`): that is what keeps
evictions right although the head is lost, and it says when `tail` may be null.
`RemoveKeeps`, `FrontKeeps` and `MoveKeeps` go through both functions pointer by pointer.
`BothInv` joins it with the array's invariant and with the chains (`SameContents`); then
`CachesAgree` and, for a head that was never removed, `OrderKept` follow; the walks in
`ListInOrder` are recursive functions, and `WalkIs` is an induction over their length.

`EpollServerProofs`, from `FdsAssumption`, `LimitsAssumption` and `ClientsAssumption`, for
any clients, descriptors and batches. `EventsAreCurrent` is not inductive: `epoll_wait` needs
that the kernel's ready list has nothing twice and nothing that is not watched
(`ListsOnce`), and `accept` that the lowest free descriptor is in no event, which
`DescriptorsAgree` says (what is open is watched). `close` disturbs all four
and is called for the current event only. `Those` filters the ready list by a recursive function;
an induction shows what it keeps.

`ThreadServerProofs`, from `FdsAssumption`, `BlocksAssumption`, `LimitsAssumption` and
`ClientsAssumption` (clients and descriptors are numbers, the special values none of them),
for any clients, threads, descriptors and blocks. The invariant has a part for each thing
that may go wrong first. Always: pointers lead to blocks. Until `accept` has failed:
`Memory`, a block in use has one holder, main or one thread, which alone makes
`FreedOnce`; and `OnePlace`, a client is in the queue, with main or with one thread. Until a close has hit
another client: `OwnDescriptors`, the descriptor main and the threads work with is
their client's. The last case of it is `SecondCloseIsHarmless`: a thread
that comes to its last close without a hangup has not closed before.
TLC checked this invariant before it was proved; it needs the third clause of
`OwnClient` only for threads that have a client.

`HashTableProofs`, from `SizeAssumption`, `KeysAssumption` and `ValuesAssumption`: for a
table of any size. `ProbeSequence` shows that a probe sequence meets no slot twice,
the one fact about `%` that is needed. `PlaceInv` says where a key is: where its probe
sequence first stops, with its value if it is held, nowhere if it is not. A harmless
delete keeps it. `InsertedFound` needs no such history: the slots `insert` passed
still do not stop `search` when the last one is written.

Inductions over a number are made without the library's induction theorems, which take
an operator: the set of counterexamples below `n`, if not empty, has a least element
(`WFMin` with `NatLessThanWellFounded`).

## 5. What is only model-checked, and what is not modelled

Every invariant and action property of the passing runs is proved. Only liveness is not,
because `ENABLED` and fairness are out of the prover's reach: `EventuallyClosed`,
`AllExecuted`, `EveryThreadFinishes` and both `Served` stay with TLC. The claims
of section 3 are refuted, not proved.

The theorems about the proxy hold for the constants their hypotheses name:
`WholeAnswers` of `Unfailing` ones and `DeliversFaithfully` of `~ZeroSends`; all others
are unconditional.

`ScanInv` is proved and not among the properties of `startup`; its consequence
`LongestPrefixMatch` is.

Not modelled:

* the proxy: the version of a request, which the parser
  cuts and the rebuilt request replaces; a client that stops reading, so that `send`
  blocks; a reset caused by closing a socket with unread data; a read that ends
  inside a header line (a header line is one token);
* `socket-http-server-c/server.c`: one sequential loop of accept, read, two sends and
  close, without state between clients, a smaller form of the proxy's loop;
* the servers: answers are written whole (they are shorter than any send buffer);
  closing a socket whose request was not read completely may reset the connection
  and lose the answer; what the global buffer of `socket-thread/server.c` holds,
  on which only a log line depends;
* failures of `malloc`, which no program here handles; `hashTable.c` with negative keys,
  which its `main` does not use and whose `%` would leave the array.

## 6. Plan

Every program but the single-page server is modelled, and every safety property is
proved. What is left:

1. `socket-http-server-c/server.c`, whose loop is a part of the proxy's;
2. the hazards without a property (each has a note in `PROJECT.json`): the log line of
   `socket-thread/server.c` read from the shared buffer, its blocks after a failed `accept`,
   SIGPIPE in the epoll servers.
