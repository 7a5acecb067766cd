# A TLA+ model of fkserver

fkserver is a game server: the skynet actor framework (C, with Lua services on
top), a layer of cluster services (`src/common`), and the game servers of the
company (`src/geek`): gates, login, lobbies, tables, clubs, and the services
they share.  This directory models the kernel, the sockets, the services and
libraries messages go through, and the encoders, matchers and tables of the
runtime; it checks them with TLC on small instances, and proves the most
important properties of the core with TLAPS for every size.

1. [The system](#1-the-system)
2. [Modules](#2-modules)
3. [Runs](#3-runs)
4. [Bounds and fairness](#4-bounds-and-fairness)
5. [Proofs](#5-proofs)
6. [What the checks found](#6-what-the-checks-found)
7. [What is not modelled](#7-what-is-not-modelled)
8. [Plan](#8-plan)

`PROJECT.json` has the same in machine-readable form: for every definition the
lines of the source it stands for, for every property mutations of the model
that break it, and the hazards of the code with the properties that cover
them.

## 1. The system

### Kernel (src/skynet-src, src/service-src/service_snlua.c)

| component | state | operations | what is hard |
|---|---|---|---|
| reader/writer lock, `rwlock.h` | `write`, `read` | lock and unlock, by spinning | a reader and a writer pass each other between two atomic accesses; the meaning of `ATOM_CAS` depends on the build |
| handle table, `skynet_handle.c` | slots, `handle_index`, names | register, grab, retire, retireall, name, find | the table grows while contexts do not know their handle yet; handles wrap; names must go with their handle |
| contexts, `skynet_server.c` | `ref`, `init`, the queue of each context, `G_NODE.total` | launch, send, dispatch, exit, kill, commands | no lock: reference counts decide when a context dies; launch can fail, and a service can be killed during it |
| message queues, `skynet_mq.c` | ring, `in_global`, `release`; the global queue | push, pop, mark, release, drop | a queue must be with exactly one worker or in the global queue, whatever pushes and deletions race |
| timer, `skynet_timer.c` | five-level wheel, `time` | timeout, updatetime | the lock is released while a list is dispatched; 32-bit wrap |
| threads, `skynet_start.c` | `sleep`, `quit`, condition variable | worker, timer, socket and monitor loops | signals without the mutex; the end of the process |
| endless monitor, `skynet_monitor.c` | `version`, `check_version`, `destination` | trigger, check | fields read and written without a lock |
| commands, modules, environment, logs | module table, variables, log files, names | the commands of `skynet_command`, `skynet_send` and `sendname`, `lua-skynet.c` | who owns a message or a file when a step in the middle fails |
| memory hook, `malloc_hook.c` | totals, `mem_stats` by handle | malloc, free, realloc, the limit of a Lua service | counters without a lock, two handles in one slot, blocks freed by another service |
| snlua, `service_snlua.c` | the running coroutine, `trap`, CPU times | resume, signal, profile | a signal from another thread while coroutines resume each other |

They interact through shared memory.  A worker takes a queue from the global
queue, finds its context in the handle table, pops a message and runs the
callback; the callback sends (grab by handle, push, release), launches and
kills other services.  The timer and socket threads send in the same way and
wake sleeping workers.  The monitor thread looks at the workers.

### Sockets (src/skynet-src/socket_server.c, lua-socket.c, lua-netpack.c, ltls.c)

One socket thread polls; workers put requests into a pipe, and when nothing waits
to be sent they write to the descriptor themselves, under a lock of the socket
that covers only part of its state.  A slot serves one id after the other.  What
comes in is cut anywhere: `lua-socket.c` keeps a list of fragments from which
services read sizes and lines, `lua-netpack.c` and the gate's `databuffer.h` find
packages in it, `ltls.c` passes it through OpenSSL.  Correct means: each packet is
on the wire once, in one piece and in order; its buffer is freed once; close is
reported once and after everything was sent; a reader gets the stream.

### Services (src/service, src/service-src, src/lualib, src/lualib-src)

* The **harbor** connects processes: messages are queued until the handshake and
  until a name is known.
* The **gate** holds connections, a hash of their ids, and forwards packages to
  agent, broker or watchdog.
* The **cluster** sends requests and pushes over one connection, large ones in parts
  between which small ones overtake; a connection may break at any time.
* **multicast** shares one package among the subscribers of a node; subscribe and
  unsubscribe race with publications on their way.
* **stm**, **sharedata**, **sharetable** and **datasheet** share data between Lua states;
  versions live while somebody refers to them.
* The **debug channel** connects a console to a service that is stopped.
* **mutexd** is the lock of the game servers: `mutex(id)` and `mutex_batch(ids)`; a
  request runs in a pooled coroutine of `lualib/skynet.lua`.

### Runtime (src/lualib-src, src/3rd/lua, src/3rd/lpeg)

Every message is encoded by `lua-seri.c`, `sproto`, `lua-bson.c` or `string.pack`,
and parsed with Lua patterns or lpeg.  These are sequential, but at the limits of
widths, depths and buffers; they are checked against references.  The Lua here is
changed for shared tables, so its table and its collector are modelled too: there
the program changes the heap between any two steps of the collector.

### Game servers (src/common, src/geek/script)

`channel` and `brokerd` route calls to named services anywhere; `configd` holds
the configuration; gates accept connections, `logind` authenticates, lobbies hold
players, rooms and tables; clubs move money under `utils.lock_action`, which is
`mutex_batch`.  Of them only the mutex service is modelled.

### Properties that make each part correct

* lock: a writer is alone; it gets in.
* handle table: a service is found by its handle from launch to retirement; no
  name outlives it; ABORT retires everything.
* contexts and queues: counts are exact; nothing is used after it was freed;
  nothing is deleted twice; a queue is never dispatched by two workers nor
  forgotten; per-sender order; every message is handled or reported; a killed
  service is freed.  Together: each service is an actor.
* ring: a FIFO.  Timer: exactly on time, in the order set, across the wrap.
* threads: waiting work is taken; the process ends when it should.
* monitor: an endless callback is reported; what is marked was at least run since the last
  round.
* mutex: exclusion, no lost wakeup, no deadlock between overlapping batches.
* sockets: packets whole, once, in order; nothing waits without a write event.
* services: streams in order, memory with one owner, nobody forgotten, tables that
  agree.
* runtime: what is written is read back; what matches is what the pattern means;
  what is collected was garbage.

## 2. Modules

| module | models |
|---|---|
| `RWLock` | `rwlock.h`, `atomic.h`: each atomic access of lock and unlock; `StdAtomic` chooses the meaning of `ATOM_CAS`; with its proofs |
| `SkynetServer`, `SkynetServerProofs` | `skynet_server.c`, the flags of `skynet_mq.c`, membership of `skynet_handle.c`: each critical section and each atomic operation on a reference count, for every thread; with the inductive invariant |
| `ActorSystem` | what the scheduler promises: a service starts, is up, gets a message, begins and ends a callback, is closed, loses the rest of its mail |
| `MessageQueue` | the storage of `skynet_mq.c`: push, pop, overload; with its proofs |
| `SkynetHandle` | `skynet_handle.c`: slots, growth, wrap, names, retireall slot by slot |
| `SkynetTimer` | `skynet_timer.c`: timeout, and the timer thread between two releases of its lock |
| `SkynetStart` | `skynet_start.c`: the loops of all threads; with the proof about the sleeping workers |
| `SkynetMonitor` | `skynet_monitor.c`, `thread_monitor`: each access to a shared field |
| `SkynetCommand` | the commands of `skynet_server.c`, `skynet_module.c`, `skynet_env.c`, `skynet_log.c`, `skynet_error.c`, the logger, `lua-skynet.c`, the start of a Lua service |
| `MallocHook` | `malloc_hook.c` and the allocator of `service_snlua.c` |
| `Snlua` | `lua_resumeX`, signals and the profile of `service_snlua.c` |
| `SocketServer`, `SocketServerTypes`, `SocketServerProofs` | `socket_server.c`; its types, the invariants of slots, requests and locks, and what follows for the state of a slot; those of buffers, counters and the addresses of datagrams, and what follows for packets |
| `SocketBuffer`, `Netpack`, `Tls` | `lua-socket.c` (buffers), `lua-netpack.c`, `ltls.c` with `tlshelper.lua` |
| `Harbor`, `Gate` | `service_harbor.c` with the part of `cslave.lua` that connects; `service_gate.c`, `databuffer.h`, `hashid.h` |
| `Cluster` | `lua-cluster.c`, `clustersender.lua`, the session mode of `socketchannel.lua`, `clusteragent.lua` |
| `Multicast` | `lua-multicast.c`, `multicastd.lua`, `multicast.lua` |
| `Stm`, `Sharedata`, `ShareTable`, `DebugChannel` | `lua-stm.c`, with its proofs; `sharedatad.lua` and `sharedata.lua`; `lua-sharetable.c` and `sharetable.lua`; `lua-debugchannel.c` |
| `Mutexd` | `mutexd.lua`, `mutex.lua`, `mutex_batch.lua`, pool and wakeup of `skynet.lua` |
| `Seri`, `Sproto`, `SprotoSchema`, `Bson`, `Mongo`, `Crypt`, `LuaPack` | the encoders `lua-seri.c`, `sproto.c` with `lsproto.c` and `sprotoparser.lua`, `lua-bson.c`, `lua-mongo.c`, `lua-crypt.c`, `string.pack` |
| `SharedataTable`, `Datasheet` | the tables of `lua-sharedata.c`; `lua-datasheet.c` with `dump.lua` |
| `LpegCode`, `LpegMatch`, `LuaPattern` | `lptree.c` and `lpcode.c`; `lpvm.c` and `lpcap.c`; the patterns of `lstrlib.c` |
| `LuaTable`, `LuaGC` | `ltable.c`; `lgc.c` with the calls of `lapi.c` that steer it |
| `MCKernel`, `MCServices`, `MCRuntime`, `MCSkynetServer`, `MCSocketServer` | instances for TLC |

Definitions have the names of the functions they model; an action that is a
piece of a function has a name of its own and its lines in `PROJECT.json`.
Operators with a suffix (`PushGrab_NoRef`) are variants: the same code with a
plausible bug, used to see that a property can fail.

**Sums.**  `MCKernel`, `MCServices` and `MCRuntime` each instantiate many
independent modules.  A variable `part` says which of them a behaviour is about;
the parts share the variables `s1`..., `v1`... or `r1`..., and those a part does not
use stay empty.  So a behaviour of the sum is a behaviour of exactly one module
under its own constants, the number of states is the sum and not the product, and a
property of the sum (`StreamsInOrder`, say) is the conjunction of what the modules
promise on one subject, each conjunct stated and explained in its module.  No
interaction between parts is claimed by a sum.

How the layers fit: `SkynetServer` uses the handle table as a set and a queue
as a sequence.  `SkynetHandle` shows when the table is that set,
`MessageQueue` that the ring is that sequence.  The lock under the handle table
is `RWLock`; each section under it is one step because of `MutualExclusion`
(under the hypothesis `SafeCas`, see section 6).  `SkynetStart` takes a dispatch
as one step.  The services (`Harbor`, `Gate`, `Multicast`, `Mutexd` ...) take from
`SkynetServer` that messages come one at a time, per sender in order, and are all
handled; `SocketBuffer`, `Netpack`, `Tls` and `Cluster` take from `SocketServer` that
a connection is a stream cut anywhere, and `Cluster` that a packet of low priority
may be overtaken.

### SkynetServer in more detail

`hold[<<t, v>>]` is the reference thread `t` keeps in the C variable `v`: `ctx`
in the dispatch loop, `tgt` in `skynet_context_push`, `skynet_handle_retire` and
the commands, `new` in `skynet_context_new`.  `own[<<t, v>>]` is a queue only
`t` may put back: `q`, `nq` and the queue of a launch.  `pc`, `ret`, `rel`, `dying`
are the position in the code: the loop calls `skynet_send`, which calls
`skynet_context_push`, which calls `skynet_context_release`, which may run
`delete_context`; each returns where it was called.  Memory has the states
`none`, `alive`, `freed`, so that a use after free is a state.  One service launching
another inside an init function (a launch inside a launch) is left out; so are
handles that are issued twice (see the hazard at `skynet_server.c:342`).  The
harbor branch of `skynet_send` is in `SkynetCommand`.

### Abstractions and decisions worth knowing

* `SkynetHandle`: names are numbers in the order of `strcmp`; the harbor bits of
  handles are left out.
* `SkynetTimer`: `rem` and `order` are history variables (when each timer is due, in
  which order they were set), only for the properties; `MessageQueue`: `fifo`,
  `popped`, `peak` and `warned` likewise.
* `SkynetMonitor`: of the two version counters only whether they differ.  The monitor's two
  readings of `destination`, the grab of the context and the mark are separate steps; `ran`
  is a history variable.
* `SkynetStart`: `gq` is a set of services; a context is gone when its callback
  returned after an exit.
* `SkynetCommand`: a context runs one command at a time, and commands are atomic but
  for LOGON, LOGOFF, the writing of a log, the module query and the end of a launch;
  TIMEOUT with a positive time is `SkynetTimer`'s business; `setenv` is called for
  unset keys, as the assertion demands.  The pairs of commands that can disturb each
  other are explored together (the sets of commands of the instance), not all at once.
* `MallocHook`: a behaviour is one of `malloc` or one of a Lua state; a free address
  is the first one.  `Snlua`: a behaviour has signals or clock readings, not both.
* `SocketServer`: a TCP packet has two units, so that a write can be partial.
  `reserve_id` (its CAS and the store of the id) and the request that follows it are one
  step, and a call of the API that finds no slot returns without a trace.  A slot that is
  `INVALID` can be reserved at any time, also while an event the thread has already taken
  refers to it: `ClearEvent` is `clear_closed_event` with what it overlooks then, and
  `ReservedEvent` what the event does to the reserved slot.  `NoCommand` is the test of the
  pipe by itself, as a request may come between it and the next event.  An assertion that
  fails ends the process (`failed = {}` in `Next`).  `epoll_ctl` may refuse a descriptor where that changes
  the state (`new_fd`, `listen`, `bind`, `resume`), and `socket_trylock` may fail although
  no worker has the lock, as the socket thread takes it too.  Addresses are numbers; that a
  request for the address of a datagram socket is of the other family is a choice, and a
  datagram sent with an address of its own has one of its socket's family.  Services use
  an id once they were told it is open and do not send on listeners.  Raw pointers kept by
  a clone, warnings, statistics, information and options are left out.
* `Tls`: OpenSSL takes a record when all of it is there; the client writes first;
  shutdown is left out.
* `Cluster`: trace tags are left out; the size from which a message is sent in parts is
  scaled down.  `DebugChannel`: the hooks are left out and the agent is not killed.
  `Sharedata`: `check_watch` is left out.
* `Mutexd`: clients answer at once and do not die; failing `channel.pcall`s are left
  out.
* Encoders: digits have a base of 4 to 8 instead of 256 and limits (cookies, buffers,
  depths) are scaled with it, so that every branch has an input.  Floats are the
  sequence of their bytes.  `Mongo`: a document is its length; in a reply the lengths found
  are inputs (`ReadLens`), whatever the number of bytes (`ReplySizes`).  `Crypt`: S-boxes and
  subkey choice are stood for by other functions, which the round trip does not depend
  on; hashes are left out.
* `LpegCode`/`LpegMatch`: one slot per instruction, small alphabets, a fixed set of
  functions; match-time captures return no extra values.  `LuaPattern`: letters,
  one back reference.
* `LuaGC`: a table has one entry; no prototypes or open upvalues; whether an object
  has a metatable is part of its type; finalizers do nothing.

## 3. Runs

| run | instance | distinct states | shows |
|---|---|---|---|
| `kernel` | 3 writers and a reader; a 5-bit time with 2 timers; 2 workers beside an endless service, lost signals; the monitor of 2 workers; 2 batches in opposite order and 2 plain clients | 134,591 | exclusion and the inductive invariant of the lock; timers exact and in order; sleepers counted; the process ends; endless callbacks are reported; nobody waits for ever |
| `scheduler` | 2 workers, 1 external thread, 2 services, 3 calls | 438,687 | counts, life of contexts and queues, exclusive dispatch; the scheduler implements `ActorSystem` |
| `scheduler_liveness` | 2 workers, 3 services, one of them the exit monitor without callback, 2 calls | 134,013 | the inductive invariant and per-sender order; every message is handled, every retired context freed |
| `sockets` | 2 workers and the socket thread in six scenes: sends and close on a connection; a peer that shuts down or resets; datagrams; accepted connections; a slot used again; a slot used again while an event waits for it | 1,284,239 | packets whole, in order and not lost; buffers freed once; close told once and after everything was sent; the write event is armed; the assertions about lists and counters hold |
| `services` | one small instance of each of 15 parts, but two of the handle table and two of multicast | 1,433,483 | streams in order, memory owned, nobody forgotten, tables agree, names go with their handle |
| `runtime` | inputs at the limits of every branch; the table and the collector explored | 368,287 | round trips, tables kept, matchers agree with references, the collector is safe and complete |
| `rwlock_stdatomic` | 2 writers, stdatomic CAS | violation | finding 1 |
| `handles_race` | 2 launches at once | violation | finding 2 |
| `mutex_plain` | 3 clients of one plain mutex | violation | finding 3 |
| `socket_sending` | as `sockets` | violation | finding 4 |
| `socket_reused` | the last scene of `sockets` | violation | finding 5 |
| `stm_release` | 2 readers | violation | finding 6 |

What the properties mean is stated above each of them.  The less obvious ones:

* `RefCount`: `ctx->ref` equals the number of references C variables hold, plus
  one for the handle table.  Every path that grabs or releases once too often
  breaks it: failed launch, kill during init, kill of oneself.
* `QueueInOnePlace`: the comment on `in_global` made precise, including
  `release`: a queue is in exactly one place if and only if one of the flags is
  set.  It is what makes dispatch exclusive *and* no queue forgotten.
* `ImplementsActors`: the refinement mapping takes `mq` as the mailbox,
  `release` as closed, and the services some thread executes as running.
* `NoSilentGrowth`: doubling thresholds and the reset on empty give at least one
  warning for each doubling, although `overload` is read without the lock.
* `KernelSteps`: two timers due in one tick fire in the order set even if they came
  down different levels of the wheel; the monitor, which reads `destination` after comparing
  versions and marks the service still later, marks only what the worker has run since the
  comparison.  The callback may have just begun then, or have returned (section 6).
* `MutexBatches`: a coroutine waits in several queues at once and may be woken several
  times before it runs; the wakeups and waits balance.
* `TablesAgree`: the handle table may grow and be refilled during retireall.
* `WireIsPackets`, `Flushed`: a worker that wrote part of a packet leaves the rest in a
  buffer of its own, which the socket thread must send before both lists; a close that
  comes meanwhile has to wait for it.
* `NoListAssertFails`: `NoSocketAssertFails` but for the one assertion that does fail
  (finding 5), so that the others are checked, and proved, in the same behaviours.
* `MemoryOwned`, the commands: each open log file belongs to one context or to the command
  that opens or closes it, and whoever dispatches a context, or changes its log, holds it.
  The exceptions are named in `LogFilesOwned` and `ContextsHeld` (section 6).
* `NobodyForgotten`, `cluster`: each call waits under one session or has its one answer or
  error, and nobody waits when neither its request nor its answer is on its way, although
  connections break, names change while requests wait for them, session numbers are
  used again and parts of old answers are still around.  `sharedata`: who waits for the next
  version of a table is among its watchers, but for those a failing update drops (section 6).
* `RoundTrips`, `bson`: what consists of `Kept` values is written and read back or refused;
  `Kept` names the values the code does not keep (section 6), which are among the inputs.
  `mongo`: a reply is taken exactly when the documents, by the lengths found in it, fill it.
* `HeapSafe`: the tricolour and age invariants together with what a program can reach,
  under barriers, resurrected objects and switches between the two modes.
* `MatchersAgree`: the code with all optimizations (head fail, test sets, tail calls,
  full captures) gives the result and the captures of a direct reading of the tree.  The
  machine keeps as many values as match-time captures are recorded, until an and-predicate
  leaves one behind (section 6); the answers are right after that, too.

## 4. Bounds and fairness

Bounds are constants: `MaxCalls` (sends, kills and borrows; launches go on until
the services are used up), `MaxPosts`, `MaxLength`, `Delays`, `Jumps`, `Nameable`,
the scenes of `SocketServer`, and those in the instances of the sums.

* Three calls (two in `scheduler_liveness`) let a service kill another while a third
  party has a reference and a message is on its way, or launch a service that is killed
  in its init.  Two workers and an external thread are the smallest set where a queue
  can be wanted by two while a third pushes.  The proofs cover all other sizes.
* A ring of 2 expands to 8 within 4 messages, from every position of head.
* A table of 2 with a mask of 3 grows to 4 and its handles wrap; a second instance gives
  three names to one handle, enough for a retired handle to have several names, for the
  array of names to grow and for the handle to be issued again.
* A time of 5 bits with 4 levels takes the wheel round: the delays reach each level,
  and 15 is the largest one of an `int` (half the range).
* Four sends of two units let a partial direct write, its remainder and both lists meet
  on one socket; two ids on one slot let requests for the old one arrive at the new.
* In `services` two peers, two or three messages and one break or deletion are enough
  for a message to be on its way when what it refers to is gone, which is what the
  properties are about.
* A reply of at most 11 bytes is read as up to three documents (`MaxReads`), with bytes left,
  too few, or a length that is not positive at each.
* In `runtime` the inputs are listed in `MCRuntime` by the branch they are for.  The
  programs the collector runs beside are nine short scripts over one object of each type,
  with a step, a full collection or a change of mode between any two operations.
* Symmetry is used for the workers of `SocketServer` only, where they are
  interchangeable; that run has no liveness property.

Deadlock is checked in `kernel`.  In the other runs the inputs are used up or all
messages were handled: the process then waits for the outside.

Fairness: threads are scheduled (`WF` on what a thread does by itself), callbacks
and init functions return (a service that does not is the subject of
`SkynetMonitor` and of `Endless` in `SkynetStart`, where nothing is assumed of
it), and a thread that asks for a mutex gets it.  No fairness is assumed of
sending, sockets, signals, spurious wakeups, garbage collection, clients that
ask.  `Mutexd` assumes that the service runs, which `EveryMessageHandled` shows,
and that protected functions return.  `NobodyForgotten` states what must eventually
happen in the services as safety: when nothing is on its way any more, nobody waits.

## 5. Proofs

For every value of the constants, from the named ASSUMEs of each module
(finite sets, disjoint kinds of threads, positive sizes):

**`RWLock`** `LockInvariant`, `Exclusion`.  Under `SafeCas`: CAS leaves its
expected value alone, or there is at most one writer.  Exclusion itself is not
inductive: `LockInv` adds that `read` counts the readers past their increment,
that the flag is up exactly while a writer is past its CAS, that no thread expects
to find the flag up (what the stdatomic build breaks), and that only one writer is
past the flag.  A reader that enters after the writer saw `read = 0` has seen the
flag; one that entered before is in the count.

**`SkynetServerProofs`** `ServerInvariant`, and from it `ReferencesCounted`,
`NoUseAfterFree`, `ContextDeletedOnce`, `OnePlacePerQueue`, `DispatchExclusive`.
`ServerInv` consists of

* `Local`: which references and queues a thread has at each place of the code,
  also in the middle of a nested call;
* `RefCount`, `HeldIsUsable`, `QueueInOnePlace`, the properties themselves;
* `Dying`: the context a thread deletes has no references, and only it deletes;
* `DropsReleased`: a queue being dropped is marked, so its context is gone;
* `SlotInit`: a context in the table is initialised or its queue is with the
  launching thread, so no worker can have it;
* `Unborn`: nothing of a context exists before its launch.

The parts depend on each other: that nothing is used after free needs the exact
count, the count needs to know who holds what (`Local`), that a dropped queue is not
reachable needs `DropsReleased`, and exclusive dispatch follows from the single
place of a queue.  There is one lemma per action, on facts about reference counts
and about the global queue that are proved once.

`SenderOrder` (`PerSenderOrder`) adds `OrderInv` to it: messages are numbered by a
counter of calls (`CallsCount`), a call that is still pushing carries the newest
number of its thread (`NewestPending`), and what is in a queue or was received is in
the order of those numbers (`PerSenderOrder` itself).

`SchedulerImplementsActors` (`ImplementsActors`) is the refinement of `ActorSystem`,
under the mapping named in section 3.  Initial states map to initial states; each action
is shown to map to the step of `ActorSystem` it is the last part of (a launch that
succeeds, a push, the start and end of a callback, the mark of a queue, the drop of a
message), or to change nothing there.  What the mapping needs beyond `ServerInv` is
in `MapInv`: `init` is not set before the context exists (`BornInit`), and no nested
call returns to a place between two callbacks (`ReturnsInside`), so that a service
runs on while its callback sends, launches or kills.

**`MessageQueue`** `RingCorrect`, `OldestFirst`: for every initial size the
ring is a FIFO.  The invariant is `RingIsFifo` with the types; the core is
that unrolling the ring from its head, when it is expanded, keeps every message
at its place in the order.  `GrowthReported` (`NoSilentGrowth`): `GrowthInv` relates
the threshold to the longest length since the queue was last empty and to the last
warning, for every initial threshold.

**`SkynetStart`** `SleepersCounted` (`SleepCounted`): for any number of workers and services,
`m->sleep` is the number of workers that have gone to sleep and not yet left
`pthread_cond_wait`.  `SleepInv` adds that whoever a signal can reach is one of them, so
that all of them have left when the threads have ended.  It needs only that there are
finitely many workers (`StartAssumption`).

**`Stm`** `StmCopiesFreedOnce` (`StmFreedOnce`, a part of `MemoryOwned`): for any number of
readers and updates no copy and no field of the object is touched after it was freed, no copy
is freed twice, and nothing is left when all are gone.  `CopyInv` names the places a copy can
be kept at - the object, the writer on its way in or out, a reader's box, a reader that
has just counted it - and says that the count of a copy is the number of the places that
hold it, and that it was freed exactly when that is zero.  `ObjectInv` says the same of the
object and its owners, `BoxInv` that a reader is at a step only while it has its box.
A release then empties one place, an update exchanges two, and so does a read after its
release (`CountedReleased`, `CountedSwapped`, `CountedCopied`, `CountedNew`).  What it does not say is
that nobody unlocks a freed object, which is false (section 6).

**`SocketServerTypes`, `SocketServerProofs`** for any number of workers, slots, ids,
events per wait, and any scene.  The first module holds the four theorems about the state of
slots, the second the three about packets.

* `SocketTypes`: the type invariant.  It is not only a matter of form: that the
  records sent through the pipe are read with the fields they were written with, that
  a write list holds buffers of packets that exist, and that ids stay within bounds,
  is part of it.
* `SocketBase`: `BaseInv`, which the others stand on.  `SlotInv`: an id is in the slot
  it hashes to, and a slot that serves none has no buffers.  `PipeInv`: the one request
  that opens an id finds its slot reserved, and no request for the id overtakes it.
  `ForceInv`: the slot that is being closed by force is in use and its lists are
  empty.  (Of events it says nothing: one may meet any state of its slot.)  `LockInv`: who
  holds a `dw_lock` is in a direct write on the socket whose lock it is, so a slot
  cannot be closed and given to another id under it.
* `SocketCloseOnce` (`CloseOnce`): `CloseInv` says for which states of a slot the owner
  has been told, and what the forced close under way will tell.
* `SocketWriteArmed` (`WriteArmed`): `ArmedInv` says which types of a slot have empty lists
  (`Tame`), and that what waits while the write event is off has a request `W` in the pipe
  or a worker about to put it there (`Waits` and `Pending`).
* `SocketBufferOnce` (`BufferOnce`): `OwnInv` says which packets each worker, request
  and socket owns, that these are pairwise disjoint, that no socket has one twice, and
  that exactly the packets owned are not freed.  A step then moves a set of packets
  from one owner to another (`HandsOver`, `Takes`) and frees what is left over.  That a
  direct write finds no rest of an earlier one in its way is from `BaseInv`; that the
  worker still owns its packet then, from `ArmedInv`.

* `SocketAssertions` (`NoListAssertFails`): the assertions of `new_fd`, `force_close`,
  `dec_sending_ref` and `send_buffer_`, by one invariant each.  `LoadInv`: `wb_size` is the
  number of bytes in the two lists, also after a write that took whole buffers, a part of
  the next one and moved the rest of a low packet,
  and no low packet is begun.  `OpenedInv`: packets are handed
  over only for ids whose owner was told they are open, so none is under way for an id whose
  opening request is still in the pipe.  `CountInv`: while a slot serves an id over TCP it
  has the tag of the id, and `sending` is at least the number of packets of the id that were
  counted and wait for the socket thread; those of an earlier id of the slot are not
  counted down.
* `SocketUdpAddress` (`UdpAddress`): `UdpInv`, in five parts.  `KindInv`: an id is served as
  UDP exactly when it was made so.  `SentInv`: a packet in the pipe or with a worker was
  handed over for that id by that kind of call, after the connects its worker knows of.
  `ConnInv`: the pipe brings the connects of an id in the order of their numbers, above the
  one that is stored, and the connect a queued datagram relies on is stored or stands before
  it.  `PendInv`: `udpconnecting` is at least the number of connects that are in the pipe
  or still resolve their name, counted as cardinalities of two sets; so when a worker finds
  it zero the last connect it knows of is stored, and a direct write cannot overtake one.
  `ToInv`: what waits in a list, is about to be written directly, or is on the wire may go
  where it goes (`MayGo`); in a direct write buffer there are only datagrams whose first write failed, which the
  property excepts because their address is not set (section 6).

Every theorem holds for all values of the constants, but the constants include the
bounds of the model (calls, ids), so what is proved is for any finite use.

Only model-checked, and why:

* all liveness properties, and what rests on ENABLED: out of reach of the prover;
* sockets: `WireIsPackets`, `NoneLost` and `Flushed` speak of the history of
  what is on the wire.  They need, on top of the invariants above, that the wire of an id
  followed by its `dw` buffer, lists and requests is a sequence of whole packets in the
  order of each sender; this was not attempted.  `NoSocketAssertFails` is false;
* kernel: `TimerExact` (a bound on the bits of each level of the wheel, by induction over
  the levels) and `MutexBatches` (it counts the wakeups of a coroutine in a queue, which is a
  recursion over the queue).  `MCKernel` runs its modules in a sum, so that there the
  `SleepCounted` proved of `SkynetStart` speaks of one `part`;
* services: `StreamsInOrder`, `MemoryOwned`, `NobodyForgotten`, `TablesAgree`: each is a
  conjunction over up to a dozen modules, several of which use recursive operators
  (`StmFreedOnce` of `MemoryOwned` is proved, above);
* runtime: `RoundTrips`, `TablesKept`, `HeapSafe`, `MatchersAgree`: what recursive functions
  compute, which needs induction over data.

## 6. What the checks found

1. `rwlock.h:35`: in the build with `<stdatomic.h>` a failed `ATOM_CAS` overwrites
   the local variable `clear`, so the second attempt of a waiting writer expects
   the lock to be taken, and succeeds.  Two launches or exits at once can be inside
   the handle table's write lock.  Run `rwlock_stdatomic`.
2. `skynet_handle.c:64`: while one launch has registered its context and not yet
   stored the handle, another one may double the table; the context is then hashed
   with handle 0, and the assertion on the new slot can fail.  Run `handles_race`.
3. `mutexd.lua:30`: the plain mutex identifies its holder by the coroutine that
   served it, which is back in the pool; the next request often runs in the same one
   and is let in at once.  A later release then finds no queue, which the service
   logs as an error.  Run `mutex_plain`.  `mutex_batch` does not have the flaw
   (run `kernel`).
4. `socket_server.c:1368`: after a partial direct write the request `W` is counted in
   `sending` and never counted down.  From then on no packet of the connection is
   written directly, and after 65535 of them `inc_sending_ref` waits for ever.  Run
   `socket_sending`.
5. `socket_server.c:489`: `force_close` asserts that a slot is not reserved.  A socket is
   closed and its slot freed while an event for it has been taken from the kernel and waits
   in `ss->ev`; a worker reserves the slot at once; `clear_closed_event` (line 1623) looks
   for slots that are still free and keeps the event.  The event then meets the reserved slot
   in the default branch of the poll loop, and with an end of file `force_close` is called on
   it.  Run `socket_reused`.
6. `lua-stm.c:77`: the last reader frees the object although another one, counted out
   before, still has to unlock it.  Run `stm_release`.

Met while modelling, and part of the models though no run is about them:

* `service_harbor.c:365`: the messages of a name that is resolved before the harbor is
  connected are queued without the handle; one resolved during the handshake is sent at
  once (`HandshakeFirst` in `Harbor` says what the comment at the top of the file does).
* `sharedata`: a client is refused the new version when the name was deleted and made
  again meanwhile (`OnlyDirtyUpdated` in `Sharedata`); `service_snlua.c`: a signal that
  comes just after `lua_resumeX` looked at the trap may set a hook on a coroutine that was
  left (`HooksLive` in `Snlua`).
* `socket_server.c`: the second write of a datagram whose first one failed takes its
  address from memory that was not set (`retried` in `SocketServer`).
* `skynet_monitor.c:40`: between the second reading of `destination` and the store of
  `endless` (`skynet_server.c:248`) the worker may leave the callback or enter the next one, so
  a service that is done, or has just begun, may be marked (`Pass`, `Grab`, `Mark` in
  `SkynetMonitor`).
* `skynet_server.c:268`: a dispatch loads `logfile` and writes to it; a LOGOFF by another
  service may close the file in between (line 617).  Lines 164 to 171: the launcher has given
  up its reference when it sets `init` and writes the LAUNCH line, and the new service may
  have exited (`late` in `SkynetCommand`).
* `skynet_error.c:63`: a line that cannot be pushed because the logger has gone is not freed
  (`lost` in `SkynetCommand`).
* `sharedatad.lua:105`: an update that fails in `CMD.new` has already removed the name; its
  watchers are never answered, and their clients keep the old version (`lost` in `Sharedata`).
* `lua-bson.c`: a key or an expression with a zero byte is written whole and read up to the
  zero; a regular expression that has no zero byte before its last is written with a length of
  `(size_t)-1` (line 391); a binary without its subtype gets the length -1 (line 315), and is
  refused when it is read; JavaScript, symbols and pointers are copied as they are, whatever the
  length they begin with (line 356).
* `lua-mongo.c:264`: without a table only the first document's length is looked at, and with
  an empty body and a number that is not zero a pointer behind the reply is returned
  (`mongo.lua` always passes a table).  A document of 4 bytes or less is accepted but as
  the last one.
* `lpvm.c:269`: at the end of an and-predicate the captures go and the values of match-time
  captures among them stay on the Lua stack, so the assertion of line 168 may fail; it is
  compiled out (`lptypes.h:13`), and the match goes on with one value too many (`left` in
  `LpegMatch`).  `lpvm.c:51`: when the values of a match-time capture make the array of captures
  grow, the start of their group is not copied to the new one (line 318 adds the rest), and a
  substitution that meets the group reads garbage; `MatchIsReference` excepts this.

All other properties hold in the instances above.

## 7. What is not modelled

Listed with reasons in `PROJECT.json`, "components".

* Sequential I/O with the operating system: `daemon`, `main`, reading configuration;
  formatting and logging; database statements.
* Parser, code generator and interpreter loop of Lua, md5 and other vendored code.
* The rest of `lualib/skynet.lua`: sessions, errors, `sleep`, `fork`; with it
  `launcher`, `service_mgr`, `socket.lua`, `skynet.queue`.  `cmaster` and most of
  `cslave`; `clusterd`; the Lua variants under `src/common`.
* The game servers but for the mutex service: their state is in redis and in calls
  between nodes, and most of it is rules of the games.

## 8. Plan

Done: lock, scheduler with its abstract specification, ring, handle table, timer,
threads, monitor, mutex service, commands, memory, snlua; sockets; harbor, gate,
netpack, buffers, TLS, cluster, multicast, stm, sharedata, sharetable, datasheet, debug
channel; encoders, matchers, tables and collector; proofs of lock, scheduler, ring and
sockets, and of the refinement of `ActorSystem`.

Next, by importance:

1. Theorems: the properties of the wire of `SocketServer`;
   `RefExact` of `Sharedata`; `FoundByHandle` of the handle table with one launch at a time.
2. `SkynetLua`: sessions, `call`/`ret`, `sleep`, `wakeup`, `timeout`, errors from
   dead services and the error queue of `lualib/skynet.lua`; `Mutexd` composed with
   it; `skynet.queue`; then `launcher` and `service_mgr`.
3. The gates and lobbies of the game servers: kick and re-login, seats, players offline
   and back.
