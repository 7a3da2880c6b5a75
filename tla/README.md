# downloadFile in TLA+

The repository holds a download client (`clienta`), a server for it in classes
(`Server`), and an older server in one file (`servera`). This directory holds
TLA+ modules of these programs, the TLC configurations that check them, and
proofs of their main properties.

## 1. The system

| part | state it keeps | operations | correct when |
|---|---|---|---|
| client `clienta/main.cpp` | `breakCount`, `fileSize`, `p`, the socket; on disk the part `<name>.tmp`, `./.tmpFile`, the final file | fresh start, `-C` resume, handshake, open/ftruncate/mmap, receive loop, mv, the SIGINT handler | a finished file is the source; the saved offset never exceeds the data; a run ends |
| frame handlers `Server/analytical.cpp` | none; they add download tasks | Normal, Ensure, BreakPointContinue | the task starts where the client is and has what the client misses |
| downloader `Server/download.cpp` | `downloadTask`, one entry per transfer; the thread's `errno` | addDownTask, the loop, `run` | each transfer gets its bytes in order; one transfer's end leaves the others alone |
| pool `Server/threadpool` (same text in `servera`) | `tasks`, `vWork`, `list_mutex`, `condition`, `bStop` | addThread, addTask, worker loop, destructor | FIFO, each task once; no worker sleeps on work; destruction ends |
| event loop `Server/wrapper.cpp`, `protocol.cpp` | the epoll set, the descriptors | accept, recv, parse one frame, write to the pipe | every connection and frame is seen, no descriptor closed twice |
| pipe `Server/ypipe` (from libzmq) | chunks, the atomic pointer `c` | write, flush, read (polled) | FIFO without loss between two threads |
| parser `Server/parsing.cpp` | the table of handlers | attach, the loop | each frame handled once, in order |
| `servera/main.cpp` | as the four above, in lambdas | the same protocol; a pool task per transfer | as above |

Interaction: the client sends frames of 47 bytes; the event loop thread reads
them and writes one record per frame into the pipe; the parser thread (a pool
task that never ends) reads the pipe and calls the handler; the handlers answer
on the socket and append to the downloader's list; the downloader thread (the
second endless pool task) sends from each mapped file in turn and closes the
socket when everything is sent. The client counts bytes and renames the part
when its own count says that it is complete. `^C` makes it save the count.

What is hard: the two ends count independently; `^C` may come between any two
statements; part and offset survive kills; reply and data may share a recv; the
pool's wait has no mutex in common with its notify; the list of the downloader
is used by two threads without a lock; `errno`, descriptors and mappings are
shared by all transfers; descriptors run out; TCP cuts frames anywhere, and the
buffer they are looked for in keeps what it held. PROJECT.json lists these
hazards at their lines.

## 2. Modules

| module | models |
|---|---|
| `Connection` | one TCP connection as both ends use it: frames as units, file data as a byte count in order |
| `Transfer` | the server's side of one connection: the three handlers, the `usleep` of a resume, `Download::run`; and what may end the connection |
| `Client` | `clienta`: one run after another on one disk, with `^C`, kill and resume |
| `Session` | composes the three; properties |
| `Delivery` | the abstract promise: received bytes are kept, only a complete file is handed over |
| `SessionInv`, `SessionProofs` | the inductive invariant of `Session`, and the proofs |
| `ThreadPool`, `ThreadPoolProofs` | the pool and the proofs about it |
| `YQueue`, `YPipe`, `YPipeProofs` | the chunked queue, and the pipe on it between the event loop and the parser |
| `Fifo` | the abstract promise of the pipe |
| `TaskList`, `TaskListProofs` | `downloadTask`, a std::list that two threads change without a lock, access by access |
| `Peers`, `PeersProofs` | what the two servers share: clients that ask for a file each, the table of descriptors, accept, open, reply and send |
| `Server`, `ServerProofs` | the event loop, the parser and the downloader over all connections, with one table of descriptors |
| `ServerA`, `ServerAProofs` | `servera`: pool tasks that read the parser's record through a pointer |
| `Framing`, `FramingProofs` | how either server finds frames in what recv returns |
| `Transfers` | the abstract promise of both servers to their clients; what follows from it is in `PeersProofs` |

`Session` looks at one connection in depth (every byte, every statement of the
client), `Server` at many connections with the client reduced to what the
server sees. `Server` takes the pipe for a FIFO, which `YPipe` shows, the
list for a sequence, which `TaskList` shows as far as it is one, and a frame for
something that arrives whole, which is what `Framing` does not assume.

    Session = Client + Connection + Transfer   implements   Delivery
    Server  = Peers + event loop, parser, downloader   implements   Transfers
    ServerA = Peers + LWork, parser, pool tasks        implements   Transfers
    YPipe   = YQueue + the pointers of ypipe_t         implements   Fifo

### Session

A byte of a file is the source offset it was read at, so "right" is
`partData[i] = i`; `Hole` is the zero of ftruncate. `cpc` is the place in
`main`; a step ends where `^C` makes a difference (recv, the update of
`breakCount` and the update of `fileSize` are three steps; `Stop` is two, with
the removal of `./.tmpFile` in the first). The data in flight is a number,
because TCP keeps the order: `Head` is the source offset of the next byte read.
`recv` and `send` return any number of bytes from 1 to what is possible, as a
non-blocking socket may; EAGAIN is no step. `ReadReply` reads up to
`HandshakeRoom` bytes of data behind the reply, which the program drops.

The file is the same during all runs, and one name is downloaded. The server's
other transfers appear as `ServerGone`, `SendFails` and `ConnectionReset`: a
transfer may end at any time for reasons outside it.

Two constants name what the code relies on:

- `AckInTime`: the client reads the reply to a resume within the server's
  `usleep(30000)` (analytical.cpp:101). TCP does not promise it.
- `CarefulUser`: the user resumes only if the last interrupted run of this
  part saved the offset (`saveMatches`). `./.tmpFile` is never removed after a
  completed or fresh download, so the program does not check it.

Without the first, `FinalCorrect` and `RunEnds` fail (data is dropped with the
reply, the client waits for what never comes, and a resume after that starts
from an offset that the data does not match); without the second,
`FinalCorrect` fails (a resume with a stale offset takes an empty or partly
received part for complete). What still holds then is checked by
`session_late_ack` and `session_any_user`.

### ThreadPool

One action per statement that another thread can tell apart. `gap` is the place
between the test of the wait's predicate and the wait itself; a notify that
finds somebody there and nobody waiting is counted in `missed`, a history
variable, and the liveness properties say what holds while it is 0. The
unlocked read of the list in the predicate is a data race; on libstdc++ it
yields the list before or after an update, so the action reads `tasks`. Tasks in
`Endless` never return, as the two loops of `Server`. In `servera` a pool task
calls addTask itself; this is a caller next to a worker in an endless task.

### YQueue and YPipe

A step is one access that the other thread can see: the store into a slot, the
advance of the back, the exchange of `spare_chunk`, the link of a chunk, the
compare-and-swap of `c`, its plain store, `free`. An address is a chunk and a
slot, and malloc may return any address that is free, so one address stands for
several places of the stream in turn; `AddressTellsPlace` says that comparing
addresses is nevertheless right. The order of memory accesses is sequential:
the fields that are not atomic are published by the acquire-release operations
on `c` and `spare_chunk`. `written`, `flushed` and `got` are histories.

The pipe comes from libzmq, where a reader that finds nothing sleeps until the
writer wakes it. Here it polls and the result of `flush` is ignored, which is
outside what the comments of ypipe.hpp provide for; `NullMeansDrained` and
`ImplementsFifo` show that it is safe nevertheless, `ypipe_doc` that the comment
on `r` is not true of this program.

### TaskList

A step is one access to a link that both threads use, in the order of
libstdc++. Without optimisation (the build of CMakeLists.txt sets none)
`begin ()`, `empty ()` and the range-based for each read the first node; with
optimisation the compiler may read it once, since nothing in the loop
synchronises. `rereads` holds which of the two the build is; both are checked.
In the second the downloader that finds an empty list never looks again
(`hung`).

Two histories name the races: `lagged` (an append between `begin ()` and the
loop leaves `iter` behind the loop, and `erase (iter)` then removes another
task or the end) and `collided` (an append overlaps the erase of the last
node). Both happen; the properties say what holds short of them.

### Peers

`table` maps a descriptor number to the client whose socket or file it is; a new
socket or file gets the lowest free number, as from the kernel. The number of
descriptors is one of `Limits`, chosen at the start, so that one run has both
servers that run out of them and servers that do not. `open` may fail although
`access` has found the file: it is opened for writing too, and a descriptor may be
missing. It then yields -1 (`NoFd`), which goes on through `fstat`, `mmap`, the
task and `close`, as in the code, which tests it nowhere.

A client is `clienta` as a server sees it: it asks for its file from the start or
from a place, confirms an offer with the number it was sent, and may close its end
at any time. `got` holds for each byte which file and place it is from, `from` the
place asked for.

### Server

Frames, resumes and tasks keep bare numbers, as the records of the code do, beside
a `name` that only the histories read: the name of the client for whom they were
made. `strayed` becomes true when a number is used that has changed hands since,
`missed` when a waiting connection has lost its edge of the listening socket:
because another came on the same edge, or because accept had no descriptor for it.

The edges of epoll are a set of clients, `batch` is `events[]`. An event may be
about a number that has changed hands in the meantime. `eagain` and `errno` are
the errno of the event loop and of the downloader, as far as the code asks: the
code tests errno after calls that succeeded, too.

`munmap (p, 4294967295)` (download.cpp:43, 54) has three outcomes, and each end of a
task may have any of them:

- it fails (`MunmapFails`: nothing is mapped, or addresses have 32 bits), and its
  EINVAL replaces the errno before it;
- it succeeds and the process lives (`Munmap`). errno stays what it was, so an EPIPE
  ends the next healthy transfer (`SendStaleErrno`; the history `cut` holds its
  client). The files of any other transfers may be gone (the history `taken`): their
  `p` is `Hole`, and their sends fail with EFAULT for ever, or, when a later `mmap` is
  placed there (`Remap` in `AddDownTask`), take another client's bytes;
- it takes away what the process needs, which dies (`Die`).

A mapping that loses only bytes already sent is as good as whole, and one that loses
its next bytes counts as lost; nothing else is possible, because what munmap takes of
a mapping is its beginning. `HoleAssumption` says that `Hole` is no client.

The pool has started both loops, or the parser's only, or neither (`running`,
`PoolStarts`): the notify of either may have been missed (`ThreadPool`). The sequence
`tasks` stands for the list as long as the parser does not append while the downloader
is at the beginning of its walk or erases the last node. `Race` may happen whenever the
parser appends; the list is then undefined in the ways `TaskList` shows, and `Server`
ends there (`raced`).

### ServerA

Each transfer is a task of the pool that reads `data`, the parser's local
record, through a pointer, at its start and for `clientFd` at each send.
`overwritten` becomes true when the parser reads a frame while a task is queued
or running; the copy is two steps, because the tasks may read between them.
After that anything may happen: bytes go to another client, a task that sends to
a closed descriptor never ends. A task that finds a request where it expects a
confirmation (`MapConfirmed`) takes the place in it for a descriptor number; 0
would be the standard input there and is no descriptor here, which makes no
difference, since neither can be mapped.

The event loop is that of the code without the edges, which are `Server`'s: it
accepts while there is a free number, and leaves `main` when there is none or when
`epoll_wait` fails (main.cpp:263, 284; `exited`): the process ends with everything it
had. It never closes a socket, also when its client has left. A client that stays may
stop reading (`stalled`); a task that sends to it stays in its loop and keeps its
thread.

The pool has one of `Pools` threads beside the parser. A thread without a task waits,
and as in `ThreadPool` there is a gap between the test of the list and the wait: a
notify that comes when no thread is blocked passes those in the gap by. Such a thread
is `passed`, and `lost` once it is blocked; it then sleeps beside a task until another
notify, or a spurious wakeup, finds it. While the list is empty, idle threads come into
the gap and out of it without changing anything else, so `Waiting` decides where each
of them is at the moment a task is added. The parser is a task as well, and
`unstarted` if its own notify was missed.

### Framing

The unit is a part of a frame: each half of the magic number (so that a torn one may
be completed by what lies behind it), version and function, the body. Recv takes any
number of units that have arrived, also a part of a frame or the end of one and the
next, and puts them at the front of a buffer that is never cleared. In `servera` it
is a global; in `Server` it is on the stack, at the place of the previous call's, so
it is what it was, or a stretch of it has been written over (`Stale`). The server takes the first
magic number it finds, wherever it comes from; if there is none, its last comparison
is of a byte behind the buffer, and what it finds there is a free choice, which
yields a record with any function (`junk`).

`torn` is the set of clients of whom a recv has not taken whole frames. `clienta`
sends its second frame only after an answer, so it never has two whole frames under
way; with a torn first frame and the answer to what was taken for it, it may.

### Transfers

`Transfers` is what both servers promise: a client's own bytes in order from where
it asked to start, the connection closed behind the last of them or when the
client is released (it has left, or there is no such file), and nothing after that.
`Server` and `ServerA` implement it step by step (`ImplementsTransfers`). The promise
is `broken` once an open fails, and in `Server` once a number strays, a munmap takes
another transfer's file, an old errno ends a transfer, the list is raced for, or the
process dies; in `ServerA` once the record is overwritten or main returns.

## 3. Runs

| run | checks | bounds |
|---|---|---|
| `session` | types, `FinalCorrect`, `SavedPrefixCorrect`, the inductive invariant, `RunEnds`, refinement of `Delivery` | 4 bytes, 3 runs, socket buffer 3, send at most 2, recv at most 3 |
| `session_any_user` | `NoMisplacedByte` for any user | the same with 4 runs |
| `session_late_ack` | `SwallowedNeverFinishes` without `AckInTime` | the same with 3 runs |
| `session_doc` | a violation: the server sends function 4, which the protocol's comment gives to the client only | 2 bytes, 2 runs |
| `pool` | FIFO, no pop from an empty list, `NoOversleep`, `TaskStarts` | 2 workers, 2 callers, 3 tasks, one endless |
| `pool_destroy` | `DestroyEnds` | 2 workers, 1 caller, 2 tasks |
| `ypipe` | ownership of chunks, addresses against places, refinement of `Fifo` with its liveness | 6 items, 2 slots a chunk, 5 addresses |
| `ypipe_doc` | a violation: `r` is null during the pipe's lifetime | 2 slots, few items |
| `task_list` | `ListIntact`, `EndedOnce`, `EveryTaskEnds` | 3 tasks, 3 nodes, 2 sends a task, both builds |
| `server` | `OwnBytes`, `CutShortHasCause`, `NothingUnseen`, `EveryClientServed`, refinement of `Transfers` | 2 clients, 2 or 4 descriptors, files of 2 bytes; every outcome of munmap; both loops of the pool, one or none |
| `servera` | `OwnBytes`, `EveryClientServed`, `WaitsOnlyForKept`, refinement of `Transfers` | 2 clients, 2 or 4 descriptors, 1 or 2 pool threads, files of 2 bytes; missed notifies and spurious wakeups |
| `framing` | `OwnFrames`, `NextFrameFound` | 2 clients with 2 frames each, a buffer of 9 units |

The bounds of `session` are the least with which a transfer takes several sends and
several recvs of different sizes, the socket buffer fills, a run can be interrupted
with something received and something missing, and a resumed run can be interrupted
again. The fourth run of `session_any_user` is needed for a stale offset: one run to
save it, one to complete, one to start afresh, one to resume. In `pool` two workers
are needed for two to see one task, two callers for pushes and notifies to
interleave, three tasks for one to be left when the others are taken. Every bound is
a constant; `MaxRuns` is the only bound that cuts behaviours off (with `MaxItems` in
`ypipe`), and deadlock is not checked because after the last run, or when all
workers sleep, nothing has to happen.

In `ypipe` six items fill three chunks of two slots, so a chunk is emptied, kept
as the spare, taken again and replaced while the other thread is anywhere; five
addresses are more than are ever allocated at once, so malloc has a choice, and
freed addresses come back. In `task_list` three tasks give a first, a middle and a
last node.

In `server` and `servera` two clients suffice for a number to change hands, for an
edge to be shared, and for a task to read another client's record. With four
descriptors both clients have a socket and a file; with two, one client takes both
and the accept or the open of the other fails. Two bytes let a transfer take two
sends. In `servera` one thread shows a task that waits for another client's, two
show transfers side by side, and a notify missed by one while the other is kept. With
two clients every thread that is kept for ever in `WaitsOnlyForKept` is kept by a
client that does not read; the other two ways (no file mapped, no socket behind the
number) take a third client to keep a task waiting, and only their guards are
exercised. Likewise in `server` a file that is mapped into the hole of another's takes
a third client, whose task made the hole; with two the hole stays, and only the proofs
cover what is mapped there. Each of `server` and `servera` has more than a million
states, and two to three minutes of TLC. In `framing` nine units are
two frames and one more, so a frame can lie behind the rest of another with stale
units on both sides, and the scan can reach the end.

Only `ypipe` is checked for deadlock; it has no end, because the reader polls.

Fairness: each thread that can take a step of its own takes it at last (weak
fairness of the client, the event loop, the parser, the downloader, each worker, each
caller in addTask, the destructor). All are loops that the operating system schedules.
A thread has this fairness only if the pool runs it. In `server` a loop that is not in
`running` never steps; in `servera` a thread of the pool that is blocked has no step
but a spurious wakeup, for which nothing is assumed, and the parser none while it is
`unstarted`. So the fairness is that of `ThreadPool` short of its `missed`, and
`EveryClientServed` and `WaitsOnlyForKept` name the missed notify (`running # Both`,
`unstarted`, `Lost`) where it keeps a client waiting. They also name what else does:
the clients in `taken` and `cut`, and everything in `Broken`, of which `raced` makes
`EveryClientServed` a statement about runs in which the two threads of the list never
meet.
`server` and `servera` also assume that `clienta` confirms an offer, and the first
that it empties its receive buffer, so that a socket to which the server goes on
sending is not full for ever (strong fairness of a send that takes something; one
condition for all clients, because none takes more than its file, so the others have
their turn).
`servera` makes no such assumption, but excepts the clients that stop reading. Its
accepts have no fairness, because the edge of a connection may be lost
(`NothingUnseen` of `Server`); the frames of a connection do not depend on that.
Nothing is assumed of users, the network, spurious wakeups or the start of an
addTask. The spin lock needs no strong fairness: between them the threads take it a
bounded number of times.

## 4. Proofs

`SessionProofs` proves for every file size, buffer size and number of runs:
`TypeOK` (no assumption), `NoMisplacedByte` (from `AckInTime`),
`SwallowedNeverFinishes` (from `CarefulUser`), `SavedPrefixCorrect`,
`FinalCorrect` and the refinement of `Delivery` (from both). All follow from
`InductiveInv`, whose parts are

- `LinkInv`: what the server will send is what the client lacks. Its heart is
  `InStep`: while there is anything to receive, `Head = Got + swallowed`, where
  `Got` counts a recv from the moment its data is stored. Neither end's
  counters alone are inductive, because each is computed from a number the
  other sent before.
- `CounterInv`: `fileSize`, `length`, `breakCount` and the part's size agree at
  each place of the loop.
- `PlacedInv` (with `AckInTime`): nothing is swallowed, so a stored byte is at
  its place.
- `SizeInv` (with `CarefulUser`): only a part of the full size is received
  into, so the client's count completes when the file does.
- `DataInv` (with both): the counted bytes of the part are right, and stay
  right while a process saves, dies, or a later run overwrites them.

There is one lemma per part, and in it one step per action.

`ThreadPoolProofs` proves for any sets of workers, callers and tasks: `TypeOK`,
`NoEmptyPop`, `FifoOnce` from `PoolInv` (the lock excludes; a task is added by
one caller, once; what the worker in the lock holds is the head of the list),
and `NoOversleep` from a balance: a push adds a caller that will tell, a notify
turns it into a worker on its way or into a missed notify, a worker that takes
a task leaves the way, and a worker goes to sleep only on an empty list.

`PeersProofs` holds the lemmas that both servers need: what a new descriptor, a close
and a reply do to the table and the types, sequences as sets of records, `ConnInv` (a
client is away, then waits for accept, then has at most one socket), and `PartGrows`:
a part of a file and the bytes behind it are again a part. It also proves for any
clients and file length that `Transfers` keeps `OwnBytes` and `ClosedComplete`
(`Promised`): a client has a prefix of its own file from where it asked to start, and
its connection is closed behind the last byte only, unless it is released or the
promise broken.

`ServerProofs` proves for any finite set of clients, any file length and any numbers
of descriptors `TypeOK`, `OwnBytes`, `NothingUnseen`, `CutShortHasCause` and
`ImplementsTransfers`, so `Promised` holds of `Server`. `OwnBytes` alone is not
inductive: nothing in it says that the bytes a task is about to send are the next
ones. `ServerInv` adds

- `ConnInv`, and `EdgeInv` (two connections wait only after they shared an edge);
- `Orderly`, while nothing strayed: what has to be done for a client is in one place
  (a frame in its socket, a record in the pipe, a resume in `usleep`, a task), the
  start it asked for goes with it, a task is as far as its client, and its own file is
  mapped for it, unless a munmap has taken it (`taken`). The three threads hand a
  client on from place to place, which is why none of their interleavings gives it
  two tasks, and the end of one task leaves the places of the others as they are
  (`TearDownTasks`), whatever it unmaps;
- `InRange`: no task goes behind the end of the file, also when it sends from what is
  mapped in the place of its own;
- `CauseInv`, while no open has failed either: every task has its file, errno is EPIPE
  only after a client has left (`ErrnoInv`) and never EBADF, and a shut socket had a
  reason, which may be such an EPIPE.

The types hold without these, also after numbers have changed hands. `Orderly` speaks
of names, not numbers: a number in a record is good for its client as long as using it
does not set `strayed`.

`ServerAProofs` proves the same for `servera`: `TypeOK`, `OwnBytes` and
`ImplementsTransfers`, for any numbers of threads, wherever each of them is in its wait
(`WaitStep`). Its `Orderly`, while nothing was
overwritten, says that one transfer at most is queued or running (`OneTask`: a
second frame read would have overwritten the record), that it is for the frame in
`data`, and that the number a client was told is that of its file (`FileOf`). Here
descriptors are owned, because no socket is ever closed early. When main returns all
of it is gone at once, and what the clients have stays a prefix.

`YPipeProofs` proves for every size of a chunk, every heap and any number of items
`TypeOK`, `AddressTellsPlace`, `NullMeansDrained`, `ChunksOwnedOnce` and the safety
part of `ImplementsFifo` (initial states and every step). An address stands for many
places in turn, so the invariant numbers the chunks: there are `lo`, `hi` and a `ch`
such that the `ch[m]` are linked from the front to the end, and slot `s` of `ch[m]` is
place `m * N + s` of the stream. `Pointers` says which place each pointer is at,
`Stored` that a place holds its item until it is read, `Owned` that every other chunk
is the spare or with one of the threads, `Progress` what `c` says of the two counts.
`FollowsNext` leads from this `ch` to the set of chunks that `ChunksOwnedOnce`
computes by following `next`.

`TaskListProofs` proves for any numbers of nodes, tasks and sends `TypeOK`,
`ListIntact` and `EndedOnce`. `next` is a ring `ch` through the members while nothing
has collided; an append and an erase change it by one store each, and `prev` may lag
behind by the store that is still to come. That no pointer leads to a node without a
task (`Known`) holds even after a race, and gives the types. `EndInv` says that what
has ended is being erased, short of both races.

`FramingProofs` proves for any finite set of clients and any buffer that holds two
frames `TypeOK`, `OwnFrames` and the action property `NextFrameFound`. The invariant
is short (`WholeInv`: a client received whole has had each frame handled, and has not
two under way); the work is in the scan, which must find the magic number of the
new frame before any that stale units form, also behind the rest of a torn frame.

That a set of numbers has a least element (`LeastNumber`: the lowest free descriptor,
the first magic number, the first repeated chunk) is derived from the
well-foundedness of inclusion among finite sets, since induction over the numbers is
out of the prover's reach; four modules with nothing else in common each hold it.

Every safety property that a passing run checks is proved. Only model-checked:
`RunEnds`, `TaskStarts`, `DestroyEnds`, `EveryTaskEnds`, `EveryClientServed`,
`WaitsOnlyForKept` and the liveness part of `ImplementsFifo` (liveness under fairness
is out of the prover's reach). The assumptions of the proofs are the named ASSUMEs on the constants: finite
sets of clients, workers, callers and nodes; sizes that are natural numbers, and not 0
where the code divides or loops by them; at least one task; chunks of more than one
slot; a header, a null, an empty value and a hole that are none of the real ones; a buffer
that holds two frames (1024 bytes in `Server`, 2048 in `servera`; a frame has 47).

## 5. Not modelled, and the plan

Not modelled:

- The text of frames and of `./.tmpFile`: a number is a number, names are one name
  per client. A record from a torn frame, whose function may be any number, is
  counted in `Framing` and goes nowhere: the table of handlers is indexed with it
  unchecked, which is undefined.
- Progress output, and `connect` or `socket` that fail in the client: it exits
  before it has touched a file.
- `epoll_wait` that fails in `Server`: the exception is caught inside the loop, which
  goes round again, and no state changes. In `servera` it ends the process, and
  `EpollWaitFails` models that.
- What becomes of a list after a race, beyond `TaskList`: `Server` ends there.
- Of the pipe `unwrite`, `unpush` and `probe`, which nobody calls, and its
  destructor; the copies of the pipe in `servera` are the same text.
- `ParseError`, which carries a message to a print statement, and the build files.

What is left to do is to make the proofs shorter: the step lemmas of `ServerProofs` and
`ServerAProofs` go through the same actions of `Peers`, and the cases of clients that
come, confirm and leave could be stated once in `PeersProofs`. A model of the
undefined handler of a torn frame, and of more than one name, would widen what is
checked.
