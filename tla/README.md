# A TLA+ model of cq-kvstore

cq-kvstore is a key-value store in C: three storage engines behind a text
protocol, served over TCP by one of two single-threaded servers. Beside it the
repository keeps building blocks that the store does not use yet: thread pools,
a connection pool, memory pools, lock-free queues, a deadlock detector and
several network layers. Under `resources/yundisk` it carries the browser pages
of a cloud disk. This project models the store itself, the C thread pool and the
two pages with asynchronous state (upload and file list). It model-checks them
with TLC on small instances, and proves with TLAPS the safety properties of two
engines, both servers, the thread pool and both pages. Paths of C code below are
relative to `src/src/`, paths of scripts to `src/resources/yundisk/`.

## The system and its parts

A client sends one line such as `HSET key value` and reads one reply. The
server (`kv_engine/epoll_entry.c` or `kv_engine/ntyco_entry.c`) receives it
into a buffer; `kvstore_request` (`kv_engine/kvstore.c`) splits it into words,
finds the command, calls the engine and writes the reply into another buffer,
which the server sends. No prefix means the array engine, `R` the red-black
tree, `H` the hash table. All of this is one thread: an engine call is never
interrupted, and what interleaves is the connections.

The thread pool is on its own: users add tasks to a ring, workers take and run
them, and one or more users destroy the pool. The two pages talk to a web server
that is not in the repository. The upload page keeps the files a user selected
and sends each in a request of its own. The file list loads a list page by page;
a scroller (iScroll) calls the page back when a list is pulled beyond its end,
and Zepto's `$.ajax` carries the requests.

| Part | Code | Modules |
|---|---|---|
| array engine | `kv_engine/kvstore_array.c` | `ArrayEngine`, promise `PairStore`, proofs `ArrayEngineProofs` |
| hash engine | `kv_engine/kvstore_hash.c` | `HashEngine`, promise `KVMap`, proofs `HashEngineProofs` |
| red-black tree engine | `kv_engine/kvstore_rbtree.c` | `RBTreeEngine`, promise `KVMap` |
| protocol | `kv_engine/kvstore.c` | `KVProtocol` (with the clients), shared lemmas `KVProtocolProofs` |
| epoll server | `kv_engine/epoll_entry.c` | `EpollServer`, over `KVProtocol` and `KVMap`, proofs `EpollServerProofs` |
| coroutine server (the default build) | `kv_engine/ntyco_entry.c` | `NtycoServer`, over `KVProtocol` and `KVMap`, proofs `NtycoServerProofs` |
| C thread pool | `pool/thread_pool/thrd_pool_c.c` | `ThreadPool`, promise `TaskQueue`, proofs `ThreadPoolProofs` |
| upload page | `zyupload/zyupload-1.0.0.js` | `ZyUpload`, proofs `ZyUploadProofs` |
| file list page | `static/js/game_bar.js` | `FileList`, over `IScroll` and `ZeptoAjax`; its pull bars `PullBars`, proofs `FileListProofs` |
| scroller | `static/js/iscroll.js` | `IScroll`, over `PullBars` |
| requests of the file list | `static/js/ajax.js` | `ZeptoAjax` |

The `MC*` modules and `.cfg` files give the constants small values. Operators
named `X_Something` beside an operator `X` are deliberately wrong versions of
`X` (a dropped decrement, a lost link); no specification uses them. Putting one
in the place of `X` makes one property fail, which shows that the property
depends on that line of the code.

## How the models correspond to the code

**Engines.** One call is one step; `ret` is the result of the last call. An
allocation may fail at every call that allocates, and each failure path is an
alternative of its action. `strcmp(NULL, ...)`, a write through a failed
allocation and a failed assertion end the process (`status = "crashed"`), and
nothing happens afterwards; this is why the configurations do not check for
deadlock.

- *ArrayEngine* keeps the table slot by slot. `kvs_array_delete` empties a slot
  and decrements `array_idx`, which is the bound of every scan, so that holes
  lie below `array_idx` and pairs at or above it. `FirstFree`, `StopsAt` and
  `RunsOut` say where the three kinds of loop end. `allocs` counts heap blocks.
- *HashEngine* has a sequence of nodes per bucket. The hash function is the sum
  of the characters modulo the number of buckets; the sums are a constant.
- *RBTreeEngine* is the C code pointer by pointer: colours, children, parents
  and the sentinel `nil`, whose links are uninitialised until `rbtree_delete`
  writes its parent. Functions that come in mirror images are one operator with
  the side as a parameter.

**Promises.** `PairStore` is a bounded bag of pairs (the array engine stores a
key twice when asked twice). `KVMap` is a map in which set inserts and never
replaces; the tree engine answers 0 to a set of a stored key and counts it,
the hash engine answers 1 and does not, and that is its parameter `DupRet`.

**Servers.** Both use `KVMap` as the engine, so that what is checked of them
holds for the hash and the tree commands. A client connects, sends a request,
reads the reply, sends the next, and may leave at any moment, also with a
request or a reply under way; leaving with a reply unread resets the
connection.

- *EpollServer*: `epoll_wait` collects a batch of events, which the callbacks
  handle in any order. The read buffer is represented by the positions of its
  zero bytes, which decide where the last word of a request ends: a request
  shorter than an earlier one is read with the tail of the earlier one. A
  `recv` that returns -1 is treated as data, as in the code.
- *NtycoServer*: the accept loop passes the address of `cli_fd` to each reader;
  the reader fetches the descriptor in its first run. The NtyCo scheduler is not
  in the repository. It is assumed to resume every coroutine whose descriptor
  is ready, then run the newly created ones, then poll again.

**Thread pool.** What the threads share they touch with the mutex held, so that
what a thread does from `pthread_mutex_lock` to the unlock, or to
`pthread_cond_wait`, is one step. Two places do without the mutex:
`threadpool_create` counts the threads it starts, and `threadpool_free` runs when
all workers were joined. In neither can another thread write what they use. A worker is at the mutex (`lock`), in the wait
(`wait`), running a task (`work`) or gone (`exited`); waits may end spuriously.
`threadpool_create` may run out of memory, or fail at any of its threads and
then destroys the half-made pool. A second `threadpool_destroy` returns an error
without unlocking; `lock` names the caller that keeps the mutex for good. Users
have the pool only after `threadpool_create` returned it and do not touch a freed
pool. `TaskQueue` is the promise: a bounded first-in first-out queue that accepts
nothing once closed.

**Pages.** A browser runs one handler at a time, so that a handler is one step;
clicks, ends of file readers, timers, transitions and answers come in any order.

- *ZyUpload*: `funGetFiles` with the numbering of the files, the chain of readers
  that compose the previews, the delete button, the upload button and the two ends
  of a request. The loops that copy a list but for some of its files
  (`funFilterEligibleFile`, `funGetFiles`, `funDeleteFile`) are `Omit`.
  `funDealtPreviewHtml` assigns `file` without declaring it; the
  variable is one of the page, shared by all selections, and is modelled so.
- *FileList*: the tabs, `reloadGames`, `loaded`, the two pull actions behind their
  timers, the download counter, and the answer to a request, each with the
  `myScroll.refresh()` it ends in. An answer is appended whatever was requested
  since; `crossed` remembers that two list requests were under way at once. The
  server returns the files its list has from `fromId` on.
- *IScroll* keeps what decides when the scroller calls back: finger down, moved,
  position, transition. The position is one of seven places, told apart by the
  comparisons of the callbacks with the ends of the list. `_start` is also the
  second finger, and `_end` also the mouse that leaves the list, with or without
  its button down (`_mouseout`).
- *PullBars*: the two bars and their timers. Neither `onScrollMove` nor
  `onScrollEnd` asks whether a timer of the bar runs already, so that a bar can be
  flipped and released again within the second a timer takes; timers are counted.
- *ZeptoAjax*: `$.active` and the requests under way. The `success` callback runs
  before `ajaxComplete`, so that a callback that throws leaves the counter too high.
  The outcomes `error` and `abort` of a request take the same path and are one.

## What is checked

| Run | Instance | States | Shows |
|---|---|---|---|
| `array` | 4 slots, 3 keys, 2 values | 11 380 | `array_idx` is the number of occupied slots (`SlotAccounting`); nothing leaks (`HeapOwned`); no stored pair is overwritten although set writes at `array_idx` blindly (`NoLiveOverwritten`); what results tell the caller (`RepliesTruthful`); refinement of the bag (`ImplementsPairStore`) |
| `hash` | 3 buckets, 4 keys, 3 of them colliding | 1 955 | `ChainsWellFormed`, `CountExact`, `HeapOwned`, refinement of the map (`ImplementsKVMap`) |
| `rbtree` | 10 keys; failing modifications and 1 repeated set in trees of 5 | 31 325 | `LinksAgree`, `SearchOrder`, `Balanced` for every tree of up to ten keys that calls can build; refinement of the map (`ImplementsKVMap`) |
| `epoll` | 2 clients, 2 descriptors, 3 requests | 289 761 | a request is in exactly one place until it is answered (`RequestConserved`); every request is answered (`Answered`) |
| `ntyco` | 2 clients, 2 descriptors, 4 requests | 270 789 | each connection has one reader (`OwnReader`); `RequestConserved`; the store changes only by a request taken off the wire (`StoreFollowsRequests`); `Answered` |
| `threadpool` | 3 workers, 2 slots, 4 tasks, 2 destroyers | 60 386 | an accepted task is in one place and run once (`TaskConserved`); the pool is freed only when nobody uses it and, after a graceful shutdown, all is done (`FreedWhenDone`); refinement of the queue (`ImplementsTaskQueue`); no signal is lost (`AcceptedRuns`); a shutdown ends (`ShutdownEnds`) |
| `upload` | 2 names, 3 files, 2 per selection, 2 requests | 192 376 | what is left to upload is what was selected and neither removed nor answered (`FilesAccounted`); the status line (`StatusCounts`); previews in order unless selections overlap (`PreviewInOrder`); nothing uploaded or removed is sent again (`NeverResent`); `onComplete` comes (`Completes`) |
| `filelist` | 2 lists of 2 files, pages of 1, 2 requests | 674 110 | the rows are the selected list's first ones, unless list requests crossed (`ListIsPrefix`); `$.active` is zero, and `ajaxStop` comes, only when no request is under way (`StopsWhenIdle`); a bar that shows loading is waited for (`PullAwaited`) |
| `array_delete` | as `array` | | a disagreement, see below |
| `epoll_testcase` | 1 client, RSET and RCOUNT | | a disagreement, see below |
| `upload_preview` | as `upload` | | a disagreement, see below |
| `filelist_active` | as `filelist` | | a disagreement, see below |

**Bounds.** Four slots let holes and pairs above `array_idx` occur together
with a full table. Three colliding keys give a chain with a head, a middle and
an end. Ten keys are what it takes for `rbtree_delete_fixup` to climb two
levels; with nine it never does. `MaxSurplus` bounds how often a stored key is
set again, where the counter would grow for ever. A tree in which that happened, or
a value was lost to a failed allocation, has its keys in `Few`, five of the ten:
neither changes links or colours, so that the combination with the larger trees
would show nothing new. Two descriptors suffice for a
descriptor to be used again by another client while an event is pending. The
word lengths of the epoll runs are those of the test cases, and
`BUFFER_LENGTH = 18` holds the longest request and its end. Keys and values are
interchangeable, so that the array and hash runs use symmetry (in the hash run
among colliding keys only); the tree run identifies states that differ in node
addresses only, and the `filelist` run states that differ in the numbers of the
requests only (`VIEW`). Runs with liveness use neither.

Four tasks through two slots make the ring fill and wrap; three workers give one
that runs, one that waits and one at the mutex; two destroyers are a shutdown
and a second call. `MaxFiles`, `MaxBatch` and `MaxXhr` of the upload page allow
two overlapping selections, one of them of two files, with two requests under
way, and the same file requested twice. In the file list, two files and pages of
one file give a first, a next and an empty page; two requests are what it takes
to cross. `Room` keeps one of them for `loaded`, for a flipped lower bar and for
each of its timers, so that no step the code takes is refused for want of a number;
what is bounded is tapping and flipping. `MaxThrown` bounds the callbacks that
throw, which leave `$.active` high for good. `MaxTimer` bounds the timers of the
upper bar, which need no request: with two, one fires while the bar loads again.
`Place` lists where a gesture may leave the scroller: beyond the top, beyond the
end. The places between are those the scroller moves to by itself.

**Fairness.** `WF_vars(ServerStep)` and `WF_vars(SchedulerStep)`: the one thread
of the server goes on as long as it has something to do. Nothing is assumed of
the clients, and nothing of single connections: that no connection starves
follows from the batches of `epoll_wait` and of the scheduler. In the thread pool
each worker is scheduled while it can go on, tasks end, and the destroyer goes on
when it has joined; nothing is assumed of users, and a signalled worker is any
that waits. On the upload page the browser ends each request and each reader,
which its events guarantee; the user need not do anything. The file list is
checked for safety only: `PullAwaited` says that something is under way that will
end the loading, not that it ends. It does not check for deadlock because the page
may be left; the thread pool, because it may be freed or kept locked.

**Disagreements.**

- `array_delete`: `kvs_array_delete` returns the scan index when it finds
  nothing, and the comment above it says `i > 0 : no exist`. On an empty array
  the index is 0, which means deleted, and the client reads `SUCCESS`.
- `epoll_testcase`: `rbtree_testcase_5w_node` sends `RSET Name0 King0` and then
  `RCOUNT` on one connection and expects the count. `recv_cb` neither clears the
  buffer nor ends it with a zero, so that the second request is read as
  `RCOUNTame0`, which is no command, and the process ends in `assert(0)`. The
  coroutine server, the default, clears its buffer.
- `upload_preview`: a comment in `funDealtPreviewHtml` says that at that point the
  html of the files is complete and is to be added to the preview area. When files
  are selected while readers of the selection before are at work, the shared
  `file` names another file or none: a preview is composed for the wrong file, or
  the reader's handler throws, and files stay that have no preview and with it no
  delete button.
- `filelist_active`: the comment above `$.active` in `ajax.js` says "Number of
  active Ajax requests". A tap on a tab before `loaded` sends a request; when its
  answer arrives first, the callback appends the rows and throws, as `myScroll` is
  undefined. `ajaxComplete` does not run, and `$.active` counts a request that has
  ended, for good. An empty body does the same at any time. `StopsWhenIdle` is the
  half that holds: the counter is never too low.

**Observed while modelling.** These are in the models as the code has them, and the
properties say so where they matter.

- Thread pool: after a second `threadpool_destroy` the mutex stays locked and
  neither tasks nor the shutdown go on; `AcceptedRuns` and `ShutdownEnds` except
  it. `thrd_pool_c.h` says that one slot of the ring is reserved; all are used.
- Epoll server: a `recv` that fails on a reset connection has the old request
  executed again. `RequestConserved` and `Answered` follow the request that was
  sent; no property is about what the second execution does to the store.
- Upload page: a second click on the upload button sends again what is still under
  way; `NeverResent` is about files that were answered or removed. The `load` event fires for every HTTP status, so that an answer
  with an error status counts as a success. Removing a file does not cancel its
  request. Without `finishDel` the status line does not notice uploads.
- File list: on the tab of shared files a pull at the end asks for nothing, and
  the bar shows loading until something else refreshes the list; so it does after
  a request that failed (`stuck`). When list requests cross, rows of two tabs mix
  or a page is appended twice.

## What is proved

A theorem holds for every value of the constants that its assumptions allow;
these are named in the modules that declare the constants.

| Theorems about | hold for every | from the assumptions |
|---|---|---|
| array engine | table size, keys, values | `ArrayAssumption`: a slot exists, NULL is no key and no value |
| hash engine | number of buckets, hash function, keys, values | `HashAssumption`: a bucket exists, NULL as above, character sums are natural numbers |
| thread pool | number of threads, slots, tasks, callers | `ThreadsAssumption`, `QueueAssumption` (at least one thread and one slot), `NullAssumption` |
| both servers | clients, descriptors, keys, values, requests, answer to a repeated set | `ProtocolAssumption`, `RequestAssumption`, `ReplyAssumption`: descriptors are positive, clients send requests, NULL is none of these |
| epoll server | also lengths of words and of the buffer | `BufferAssumption`, `ShortAssumption`: a request fits into the buffer, as those of `testcase.c` do |
| upload page | number of files taken over, of files in a selection, of requests under way, names | `BoundsAssumption` (each at least one), `NullAssumption` (undefined is no file) |
| file list | lengths of the lists, of a page and of the screen, number of requests under way | `PageAssumption` (a page has rows), `BoundAssumption`, `SlotAssumption`, `NoRequestAssumption`, `PlaceAssumption` |

*ArrayEngineProofs.* Every step fills, empties or revalues one slot or keeps the
table (`TableStep`). `TypeOK` is inductive by itself: a slot is emptied only
below `array_idx`, and filled only when `array_idx` is not at its limit.
`SlotAccounting` is inductive on top of it. Its point is `kvs_array_set`: when
there is no hole below `array_idx`, the slots below it are all the occupied ones,
so that the slot at `array_idx` is free and filling it adds one
(`CompactWhenNoHole`). `NoLiveOverwritten` and `RepliesTruthful` are consequences:
by the same lemma a scan that runs out has passed every occupied slot.
`HeapOwned` has an induction of its own
over the same steps. `ImplementsPairStore`, the refinement of the bag, counts how
often each pair is stored (`PairsOf`). A write to one slot changes that count by
one for the pair that goes and the pair that comes; the rest
is that a write that adds goes to an empty slot and that a scan that misses has
seen every pair, which the lemmas above say.

*HashEngineProofs.* The inductive invariant is `IInv`: types, `ChainsWellFormed`,
the counter being the number of stored keys while the engine runs, and
`HeapOwned`. `TypeOK` is not inductive alone: the counter stays a natural
number because it is the number of stored keys. That in turn needs well-formed
chains: unlinking one node removes its key only if the key has no second node.
What is left over at shutdown needs the counter.
The lemmas say what linking, unlinking and revaluing a node does to one chain
(`ChainEdits`), then to the set of present keys and to the
value of each (`EditEffects`). The effects give
both the preservation of `IInv` and the step simulation of `ImplementsKVMap`,
the refinement of the map.

*ThreadPoolProofs.* The inductive invariant is `PoolInv`, in three layers.
`TypeInv` adds to the types that `started` is the number of live threads and that
threads are created in turn; without it `started` could leave its range. `RingInv`
says that `tail` is `count` slots after `head`, modulo the size; it makes the slot
at `tail` free unless the ring is full, so that adding is an append and taking is
a tail (`AddRing`, `TakeRing`). On it rests `Places`: an accepted task is in one
slot, or with one worker, or was run, and these exclude each other; counting gives
`TaskConserved`. `Life` relates shutdown and threads: users have the pool, and
close it gracefully, only when all threads exist; none leaves before the shutdown,
none leaves a graceful one before the ring is empty; a freed pool has no thread.
With `Places` it gives `FreedWhenDone`: an empty ring and no worker at work leave
only tasks that were run. `RingImplementsQueue` maps every step to an accept, a
hand-out, a close or a stutter of `TaskQueue`.

*KVProtocolProofs.* The two servers share the engine, the clients and the
sockets, and so the invariants about them: `EngineInv` (the store is finite, the
counter is a natural number) and `ClientsInv` (a client has a descriptor exactly
while it is connected, no two have the same, and its end is open). The lemmas say
what an engine call (`EngineKeeps`), a step of a client (`ClientKeeps`) and what
the server does to a socket (`ServerKeeps`) do to them.

*NtycoServerProofs.* The inductive invariant is `ServerInv`. `OwnReader` alone is
not inductive: it says nothing about `cli_fd`, through which a reader gets its
descriptor. `ReadersInv` adds that at most one reader waits for its first run,
that `cli_fd` still holds its descriptor, and that the accept loop is not resumed
before it ran. This is what makes passing the address of a local variable safe
here, and it rests on the order in which the scheduler is assumed to run
coroutines. A descriptor in use is open, so that `accept` cannot return it again;
hence requests and replies of two clients never meet (`RequestConserved`).
`StoreFollowsRequests` is an action property: from the same invariant, a step that
changes the store takes a request off a wire and changes only the key it names.

*EpollServerProofs.* The inductive invariant, again `ServerInv`, says of events
what `RequestConserved` leaves out: an event that `epoll_wait` returned is still
true when its callback runs (`EventsInv`). The connection is open and registered
for that event, because only its own callback changes either. So `send_cb` finds
a reply, and `recv_cb` never runs while one is in `wbuffer`. Without it a second
event of the same batch could overwrite a reply.

*FileListProofs.* The inductive invariant is `FileListInv`. `ListIsPrefix` needs
`PageInv`: unless requests crossed, at most one list request is under way, of the
selected tab and from the row that comes next, so that its answer extends the
prefix. `StopsWhenIdle` needs `RequestsInv`: the requests under way are at most
`$.active`, and their number goes down by one whenever `$.active` does.
`PullAwaited` needs `BarsInv` and `PullInv`: `refresh` resets the upper bar before
it looks at the lower one and then leaves that as it is, so that what is to come
is a timer of the lower bar, the answer to a pulled request, or a timer of the
upper bar beyond the one that the upper bar, if it loads, will need itself.

*ZyUploadProofs.* The inductive invariant is `UploadInv`. `FilesAccounted` alone is
not inductive. A selection takes the names of the files still to upload and
appends at the ends of two lists, so that `uploadFile` is again what is left of
`perUploadFile` only if the new files are none of those answered or removed;
`ListsInv` says that files are numbered in the order of `perUploadFile` and that
answered and removed ones are among them. `StatusInv` relates the status line to
the lists: a removal lowers it by the one file that goes, which needs that no file
is in the list twice. `RequestsInv` is the bound of the requests, which are counted
over all files. `ReadersInv` says what a chain of readers has composed so far and
has its types; `OrderInv` adds, while selections do not overlap, that at most one
chain is at work, that `file` names the file it reads, and that preview area, html
composed and files still to read are together the files taken over. From it
follows `PreviewInOrder`, and no weaker statement about the finished previews is
kept by `reader.onload`. `NeverResent` follows from `FilesAccounted`: a request is
made for a file of `uploadFile` only.

All of this rests on what the loop `Omit` returns for every sequence. Library
theorems that take a predicate as a parameter cannot be instantiated by the
installed provers, so that induction is stated for a set of numbers (`Induction`,
from the well-foundedness of `<`), and gives the existence of the function that
follows a loop (`Recursion`), the rounds of `Omit` (`OmitSteps`) and its laws
(`OmitLaws`: what it keeps, in which order, how it goes with concatenation and with
leaving out more).

Proving the epoll server showed a flaw of its model. The branches for COUNT, GET
and DEL in the operators that give the length of a request overlapped, and which
one a CASE takes then is not determined; TLC took the first. The guards now
exclude each other.

*Only model-checked:*

- every liveness property (`Answered`, `AcceptedRuns`, `ShutdownEnds`,
  `Completes`), which this prover does not support under fairness;
- the red-black tree: its operators are declared `RECURSIVE`, which takes the SMT
  solver from every proof that reaches them.

## What is not modelled

- Requests that TCP splits or joins, and requests that fill the buffer: both
  servers take one `recv` for one request, and the clients keep to that.
- The array commands behind the servers: they differ in the engine they call.
- What NtyCo does when `accept` fails.
- Keys with bytes above 127, whose character sum may be negative.
- Memory that is leaked by the tree engine: its nodes are never freed.
- Calls on mutexes, condition variables and `pthread_join` in the thread pool that
  report an error: they do not fail on objects that are initialised and in use.
- Of the pages: layout, hover effects, progress bars, cropping (zyPopup, Jcrop),
  the drag area's styling, the second menu of the file list and its pages by kind
  (the tap that would open it is commented out), zoom, snap, scroll bars and the
  horizontal direction of iScroll, JSONP and timeouts of `$.ajax`.
- `zyupload.drag-1.0.0.js` and `zyupload.tailor-1.0.0.js` are the code of
  `zyupload-1.0.0.js` again; `zyupload.basic-1.0.0.js` is a shorter relative.
- jQuery (two releases) and the core of Zepto: third-party libraries of synchronous
  DOM work. They are most of the script lines of the repository, so that the
  modelled scripts are a small share of all script lines (about one in
  twenty-five) although they are most of the stateful code of the two pages.
- `login.js`, `touch.js`, `weixinAPI.js`: cookies and forms, recognition of taps,
  the bridge of a chat client.
- The thread pool in `pool/thread_pool/0voice`, the C++11 thread pool, the
  connection pool, the lock-free queues, the memory pools and the deadlock
  detector: see the plan.
- `kv_engine/hash.c` (an older copy with a mutex, not built), the C++ interface
  headers, the network layers under `network/` (they echo or print and are not
  connected to the store), the leak demonstrations, and vendored code.

## Plan

1. `hpc/zmq/ArrayLockFreeQueueImp.h` as a bounded FIFO, access by access, and
   `hpc/zmq/ypipe.hpp` with its wake-up contract.
2. `pool/mysql_pool/connection_pool.cpp`: producer, consumers with timeout,
   returned connections, idle scanner.
3. `pool/thread_pool/0voice/thread_pool.c`, the memory pools, the lock of
   `kv_engine/hash.c`, and `hpc/deadlock/deadlock.c`.
