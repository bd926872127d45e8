# Verification of the multiplayer game server engine

TLA+ models of the server, the TLC configurations that check them and the
theorems TLAPS proves about them. Paths are those of the repository
(`src/network/...`, `src/game/...`); the modules name the functions they model.

## 1. The system

One process. The main thread boots, starts the server and then waits; a pool of
threads runs one `io_context`, and every handler of every socket runs on some
thread of that pool. **No lock, no strand and no atomic exists anywhere in the
code**, so with more than one thread (the default is 2, the example file says
10) any two handlers overlap. With one thread handlers are serial.

| Component | State | Operations | Talks to |
|---|---|---|---|
| `AsioServer` (`network/asio_server.cpp`) | `status_`, `acceptor_`, the pool, the `io_context` | `start`, `stop`, `wait`, `handle_tcp_accept` | kernel (listen, accept), `GameMain::on_client_connected` as a callback, `AsioTcpConnection::start_receive` |
| `AsioTcpConnection` (`network/asio_tcp_connection.cpp`), sending | `send_buffer_`, `is_sending_` | `async_send`, `handle_send` | socket |
| `AsioTcpConnection`, the rest | `status_`, `socket_`, `receive_buffer_` | `connect`, `async_connect`, `handle_connect`, `start_receive`, `handle_receive`, `close` | socket, three callbacks |
| `GameMain` (`game/game_main.cpp`) | address, concurrency, `game_services_`, handlers that create services | constructor, `init_all_game_services`, `on_client_connected` | `GameConfig`, `EntityFactory`, `LoginService` |
| `LoginService` (`game/service/login_service.cpp`) | the configuration | `on_client_connected`, `on_client_disconnected` (no caller) | `EntityFactory`, `NetworkComponent` |
| `EntityFactory`, `UUID` (`game/basic`) | map of entities, the id generated last | `create_entity`, `create_entity_with_id`, `get_entity`, `destroy_entity` | `Entity` |
| `Entity`, `Component`, `NetworkComponent` | components by type, owner, connection, disconnect handlers | add, attach, delete, `handle_disconnect` | each other |
| `GameConfig` (`config/game_config.cpp`) | `config_`, by section | `load_config`, `reload_config` (no caller), `get` | `GameMain`, `LoginService` |
| `main`, `ArgParser` | | command line, order of the boot | all of the above |
| `LoggerManager`, `SpdlogLoggerImp` | loggers by name, their levels | `create_logger`, `get_logger`, `set_logger_level` | spdlog |
| `EntityProxy`, `ServerEntity`, `ClientEntity` | address and id of an entity | `get_pos`, `parse_pos`, `is_local` | |

A client's way through the process: the kernel queues it on the listening
socket; the accept completes; a pool thread runs `handle_tcp_accept`, which
starts the next accept and then calls the game; the game creates an entity whose
`NetworkComponent` becomes the only owner of the connection; the handler starts
the first read and drops its reference. From then on the connection lives on its
pending read; a failed read closes it.

What is hard here, and what would make each part correct:

- **accept chain**: `acceptor_` is replaced by whatever thread handles an accept.
  Only the shape of the chain (one accept, then its handler, then the next one)
  keeps two threads apart. Correct: one thread at a time in `start_tcp_accept`,
  the chain never ends while the server runs, `stop()` returns, and the closed
  callback is the last thing that happens.
- **login**: two threads create entities at once. Correct: ids are unique, every
  entity can be found, and no connection is destroyed under a pending read.
- **send queue**: callers and `handle_send` share a list and a flag. Correct:
  what is queued is written, once, in order.
- **status and receiving**: `close()` can be called by the game while a read
  fails. Correct: the callback runs once, one read at a time, the status says
  what the connection is, data arrives as it was read.
- **entities as a library**: an entity, a component and the connection it holds are
  kept alive by whoever has a `shared_ptr`, and found by an id or by an owner.
  Correct: a component names the entity that has it, an entity lives as long as
  somebody has it, and the id a disconnect is given leads to the right entity.
- **loggers**: a level can be asked for by name, for all, at creation or on a logger
  somebody holds. Correct: it reaches everybody who has a logger of that name; and no
  thread of the pool ever writes the map, which has no lock.
- **boot**: a section of the file that cannot be loaded ends the load, or does
  not, depending on the section. Correct: what runs afterwards is what the file
  says or nothing.

## 2. The modules

| Module | Models | Relation |
|---|---|---|
| `AcceptDispatch` | what the network layer promises the game: each client handed over at most once, one client per thread | abstract specification |
| `AsioServer` | accept chain, pool, `start`, `stop`, `wait` | implements `AcceptDispatch` |
| `LoginService` | `GameMain` and `LoginService::on_client_connected`, `UUID`, the map of entities, who owns the connection | is built on the actions of `AcceptDispatch` |
| `Channel` | what a connection promises who sends: order, at most once, only while open, losses allowed | abstract specification |
| `SendQueue` | `async_send` / `handle_send` | with one thread, implements `Channel` |
| `TcpConnection` | status, connecting, reading, closing | |
| `EntityPos` | `EntityProxy`: the text of a position and its parsing (`find`, `rfind`, `stoi`, `to_string` included), as operators | |
| `Entities` | `EntityFactory`, `Entity`, `Component`, `NetworkComponent`'s disconnect handler: every operation, in any order, on one thread | uses `EntityPos` |
| `Loggers` | `LoggerManager`, and what file and level a logger gets | one thread, which `Boot` justifies |
| `Boot` | `main`, `ArgParser`, `GameConfig`, `GameMain`'s services, the first accept, the number of threads, which thread creates which logger | |
| `...Proofs` | the theorems about the module named before | extends that module |
| `MC...` | instances for TLC | extend the module or its proofs |

`AsioServer` and `LoginService` meet in `AcceptDispatch`: the first is shown to
implement it (by TLC and by proof), the second starts from its `Deliver` and
`Finish`. What `LoginService` establishes therefore holds behind the real accept
chain, not behind an invented one.

`LoginService` and `Entities` look at the same factory twice: `LoginService` cuts
`create_entity` where two threads meet and follows one use of it, a client's entity;
`Entities` takes every operation as one step and follows all uses, the ones without a
caller in the repository included. `Loggers` is sequential as well. That is enough
because of `PoolOnlyFinds` in `Boot`: every logger the pool asks for exists before
the first thread serves, so that `create_logger` of two threads only reads.

How state and code correspond:

- A **thread** is a program counter. A function is cut where another thread can
  read or write what it uses: every step accesses the shared members at one point.
  In `AsioServer`, `start_tcp_accept` is *construct, store, arm*. In `LoginService`,
  `UUID::get` replaces the string (`Generate`) and `generate_id` copies it later
  (`Copy`), and `emplace` searches (`Find`) and links (`Link`). In `SendQueue` and
  `TcpConnection` the cuts are at `send_buffer_`, `is_sending_` and `status_`.
- A **data race** has the outcomes a build can produce short of a crash: a copied
  id may be torn (`Torn`) while it is being replaced. `std::map` rebalances, so that a
  node linked where it was found before the tree changed may overwrite the pointer to
  any other node: `nodes` is all that was ever linked, `entities` what a search still
  reaches. Once a node was linked below something stale (`intact` is false), every
  further one may leave any part of the nodes reachable, the login service and the
  thread's own entity included, and a search during or after a race may miss any node
  (`Found`). Left out are a crash and a search that never ends.
- **Undefined behaviour**: `front()` of the empty list in `async_send` is a write
  of `Garbage`, which may succeed or fail; an ill-typed JSON value ends the process
  or is read as anything (`Boot`); what `destroy_entity` reads through the iterator it
  has erased is what the node held, or anything (`AfterErase`).
- A **`shared_ptr`** outside the factory is counted per entity (`held`); a component's
  only matters as one the program can still use (`handles`). An expired `weak_ptr` is
  an owner in `freed`.
- A **logger** and an **entity** are the numbers of their construction. The **text** of
  a position is the sequence of its characters, because its parsing is about them; every
  other text is a value.
- **boost and the kernel** are external actions: an accept, a read, a write or a
  connect ends, well or not; closing a socket ends everything it has in hand with
  an error; whether a listening port can be bound again depends on the platform
  (`env.rebind`: Windows yes, Linux and macOS no), and an accept into an open socket
  completes with `already_open` (`env.literal`: the constructor of the connection
  opens it when the configured ip is numeric). Anything else in `start_tcp_accept` may
  throw as well, a name that does not resolve or descriptors that run out, and ends the
  process (`StartAcceptThrows`).
- A **message** or a chunk is a number; a **client** a model value; the text of an
  id the number of its generation.

Definitions called "a mutated form" are not part of any specification; they are
the bugs each property was tried against.

## 3. The runs

Passing runs:

| Run | Instance | Shows |
|---|---|---|
| `asio_server` | 2 threads, 3 clients, all platforms and addresses, 1 failed accept, 2 stops, fair | `AcceptBaton`, `ArmedAcceptorIsCurrent`, `ChainUnbroken`, `QuietAfterClosed`, the inductive invariant `IndInv`; that the chain implements `AcceptDispatch`; `StopReturns`, `QueueDrains` |
| `login_pool` | 2 threads, 3 clients, all 16 configurations; symmetric in threads and clients | ids collide only across threads; the map loses an entity, any of them, only once two threads have linked nodes; a read outlives its connection only for a named cause; `IndInv` |
| `send_serial` | 1 thread, 5 messages, failing writes, close, fair | the queue is served, the flag is exact, bounded loss; all of it implements `Channel`; the queue drains while the connection is open |
| `tcp` | pools of 1 and of 2 threads, accepted (2 calls of `close()`) and connecting (2 attempts, 1 call), 3 chunks, fair | for every pool: one read under way, what a thread hands over is in order, a disconnect is called back once per thread at most; with one thread no stale `kConnecting`; a failed read closes and an attempt leaves `kConnecting` |
| `entities` | 2 entities, 2 components, 2 references to each, 2 ids, 3 addresses | owners are exact, lifetimes are shared, a disconnect finds its entity, each with the exceptions the code has; a position leads back exactly when nothing in it has an underscore |
| `loggers` | 3 names (one of them empty) and the default, 3 levels, 4 loggers, every kind of configuration | a level asked for, by name or of all, reaches everybody who has the logger, but for the default logger when it is asked of all |
| `boot` | every path, every file, 5 threads at most, 2 clients | services only with their configuration, `front()` is safe, the default address runs nothing, the pool has the configured size, the pool adds no logger |

Runs that find what the code does against what it says (the finding of each
quotes the line):

| Run | The code |
|---|---|
| `asio_server_deaf` | numeric ip: the first accept fails, the chain ends, nobody is served |
| `login_ids` | two threads: equal ids |
| `send_stuck` | two threads: a queued message with no write under way |
| `tcp_data` | the next read overwrites the data before the callback sees it |
| `boot_services` | no login section: the process serves with no service |

### Seen in the source, in the models, without a run of its own

The models contain these steps too, and the properties above are stated so that they
hold beside them. Most are among the hazards `PROJECT.json` lists.

- Linux, macOS: the second acceptor cannot bind the port of the first, and the
  exception of its constructor ends the process (`asio_server.cpp`, `start_tcp_accept`;
  `env.rebind` is false), as any other exception there does on every system. Windows: replacing the acceptor resets the clients queued
  on the old one.
- `stop()` never sets `kStopped`, so that a second `stop()` (the destructor's) goes
  through the whole of it again and the closed callback runs again.
- `UUID::get` is documented to return the current id and returns the id it has just made.
- Two threads in `emplace` can cut any entities off the map, the login service's
  included. `LossAcrossThreadsOnly` says that one thread loses none.
- The first `async_send` of a busy period does not queue its message and writes the
  front of the empty list; `handle_send` then drops the first message queued
  meanwhile, unsent. `LossIsBounded` says that this is all that is lost.
- A failed write starts the next one and does not close the connection.
- `kConnecting` can be set by one thread after another has handled the end of the
  attempt; hence `Serial` in `ConnectingIsPending`. The disconnected callback can run
  on every thread that passed the test of the status before it was set, and two chunks
  can be handed over on two threads in either order: `OneDisconnectPerThread` and
  `HandedInOrder` say what is left.
- An accepted connection never becomes `kConnected`.
- A second service of one name replaces the list that records the first.
- A path without a dot ends in an exception instead of the error exit.
- `destroy_entity` may take the program's only reference away with the factory's, or
  leave an entity somebody holds without marking it invalid (`entity_factory.cpp`, the
  iterator after `erase`). `LifetimeIsShared` names that one exception (`robbed`).
- `create_entity_with_id` with a taken id returns an entity nobody will find; deleting
  by type, or all, leaves the owner of a component behind, and attaching takes it from an
  entity that goes on having it (`displaced`, `moved`).
- A position whose ip or id has an underscore is parsed into another one; a text that is
  no position may be accepted, and one that is refused leaves its ip behind.
- `set_logger_level("", ...)` leaves the default logger as it is, where
  `logger_manager.h:41` says all loggers: the one exception `LevelReaches` names. The
  level in a configuration is overridden by
  the one `create_logger` sets; a configuration without `log_file_name` takes the
  path it was given away; an option of a wrong type throws.

### Bounds, and why they are enough

Two threads give every pairwise race; no step of any module looks at more than
one other thread. Three clients let one be served while one is accepted and one
is queued. Two calls of `stop()` are the program's and the destructor's. One
failed accept is all the chain survives. In `LoginService` a third client is what
can collide with a pair that already did. Five messages let `SendQueue` lose the
first, drop the second, order the next two, and begin a second busy period. Two
attempts to connect let a handler of the first meet the second; two calls of `close()`
by the program and the close of a failed read are one more than the threads, which
`OneDisconnectPerThread` counts; three chunks are one handed over, one
read and one under way. `SizeValues = 8` makes a negative thread
count (7 threads wanted) exceed what the system gives (5) as 64 bits do.

Two entities are the two ends of every confusion the code allows (a component taken,
an id taken, an owner exchanged); two components are one moved and one not; two
references tell "the last", "the last but the factory's" and "more" apart, which is
what `destroy_entity` does. There is one type of component because the program has one,
`NetworkComponent`; the theorems hold for any number. The levels are treated alike by the
code, so three of the five are one asked for, one before and one after. Of the loggers
there is one per name and one default. The addresses have a host name, one with an
underscore, and two ports: one with two digits, and the least int (`MaxInt` is 99),
whose digits alone are no int.

Deadlock is not checked: every instance really ends, when the clients, messages
or calls its bounds allow are used up.

### Fairness

Weak fairness of a thread that is inside a function or can pick up a completion:
the operating system schedules threads and `io_context::run` takes handlers off
its queue. Weak fairness of the socket operations whose end the kernel guarantees
(an accept with a peer in the queue, a write, an attempt to connect). Nothing else:
nobody has to connect, send, close, stop or fail.

## 4. What is proved

For every value of the constants, with the assumptions the modules name: the main
thread is none of the pool, the "no client" value is no client, the bounds are
naturals, the kinds of a section are distinct, `"Debug"` is a level, ids and ips are
texts and ports are ints. One is about the machine: the counts of the file are ints, a
`size_t` has more values than an int has non-negative ones, and a negative count read as
`size_t` is above the number of threads the system gives (`CountsAreInts`). Every
invariant of the passing runs is proved, with "one thread" as a hypothesis where the
property needs it.

`AsioServerProofs` proves `TypeOK`, `AcceptBaton`, `ArmedAcceptorIsCurrent`,
`ChainUnbroken`, `QuietAfterClosed` and the refinement of `AcceptDispatch`.
None of them is inductive. `IndInv` adds: `Lifecycle` (which states of the pool, of
`stopped` and of the main thread go together), `AcceptorInHand` (what the thread
between *construct* and *arm* holds, and that only it does), `ClosedIsStopped` (the
callback runs after the pool was joined), `ErrorsHaveCauses` (a failed completion
comes from a numeric address or a fault of the system), and `HandsAreDistinct` (a
client is in one place: a queue, a completion or one thread's hands). The argument
is that of a baton: an armed accept, a completion or a thread in
`start_tcp_accept` exclude one another, and each action passes the baton on.
The promises of `AcceptDispatch` (`ServedByOne`: no two threads have one client;
`GivenOnce`: a client is given to the game once) are proved of it and carried over by the
refinement. `DispatchImplemented` maps `worker[t]` to the client of a thread in its callback
and `phase` to how far the client got; every step is `Deliver`, `Finish` or a
stutter, because of `HandsAreDistinct`.

`LoginServiceProofs` proves `TypeOK`, `IdsCollideAcrossThreadsOnly`,
`LossAcrossThreadsOnly` and `DanglingReadHasCause` for any pool, and, for a pool of
one thread, unique ids, a complete map, and, where the configuration names an owner,
that no read dangles (these three by proof only: no run has a pool of one thread).
Its `IndInv` ties a thread's program counter to the client it serves (`Calls`), orders
ids by generation (`Ids`: an id already handed out whole is not above the generator's,
and a thread that copied it has moved on), keeps the login service's id apart
(`BootIds`), and says which nodes were linked and for whom (`Entries`), what a thread
about to link has seen of them (`Views`), which connections have an owner (`Owners`), and
what a loss needs (`Losses`: the map has all its nodes as long as no node was linked by
a view that others had outdated, and a view is outdated by another thread only).
`DispatchIsFollowed` closes the circle: the steps of `LoginService` are those of
`AcceptDispatch` or stutter, so that what it assumes is what `AsioServer` provides.

`SendQueueProofs` proves `TypeOK` for any threads, and for one thread (`OneThread`)
`QueueIsServed`, `FlagIsExact`, `LossIsBounded` and the refinement of `Channel`. The
invariant `SerialInv` says that `is_sending_` counts the write in hand at every step
(`FlagCounts`), that what a function has found out stays true until it acts on it
(`TestsHold`), that the buffer under way is still the front of the queue
(`FrontIsWritten`), that the message of a call comes after all others (`CallIsLast`) and
what waits after what is on the wire, save a front that was just sent (`InOrder`), and
that the messages in none of these places are at most two per write of `Garbage`, one
as long as its handler is to come (`LossIsCounted`). A finished write is a `Deliver` of
the channel because of that order. What the channel promises who sends
(`InSendingOrder`, and `OnlyGrowsOpen`: what reached the peer stays, and nothing is added
once closed) is proved of `Channel` and carried over.

`TcpConnectionProofs` proves of any pool `OneReader`: a pending read, a completion
and a thread between them exclude one another, as the accept does (`ReaderInv`). On it
rests `HandedInOrder` (`ChunksAhead`: a chunk that nobody has in hand is ahead of
everything handed over, one that a thread has in hand ahead of what that thread handed
over). `OneDisconnectPerThread` counts threads (`ClosersPassed`: until the status is
`kClosed` nobody has called back, and from then on those who did and those who still
will, having passed the test before, are no more than the pool). For pools of one thread
it proves `ConnectingIsPending` (`AttemptPends`), stated for every pool with "one
thread" (`Serial`) as its hypothesis. `FiniteSetTheorems` gives that a pool of
cardinality one has one thread.

For any pool and either role it proves three more. `TypeOK`, whose bounds count threads:
reads, attempts and closes under way are counted over sets of threads, connects and
completions, of which every step moves at most one (`CountInv`). `ChunksAreHandedOnce`:
no chunk is handed over twice (`ChunkOnce`: a chunk is in one completion, in one thread's
hands or received). `OnlyLaterDataIsFound`: what a callback finds in the buffer is the
chunk that was read or a later one, so that the finding of `tcp_data` is the only way the
data can be wrong.

`BootProofs` proves `TypeOK`, `FrontExists`, `ServicesKnowLogin`,
`DefaultAddressRunsNothing`, `PoolIsConcurrency` and `PoolOnlyFinds`, for all files. The
invariant follows the order of the boot: nothing is constructed while the file is loaded
(`NotYet`), the services are stored after the login section (`Sections`), handlers,
services and the logger of entities come from what is there (`Causes`), and threads come
after the first connection (`PoolComesLast`). The size of the pool (`PoolCounts`) rests
on two facts of the conversion to `size_t`: a positive count is itself (`SmallIsItself`),
a negative one wraps above the system's limit (`NegativeWraps`).
`OnlyLoginLosesServices` finds the one cause of the finding of `boot_services`: with a
login section that is not refused, every service of the file runs, whatever else is
missing or ill typed (`ServicesLoaded`).

`LoggersProofs` proves `TypeOK` and `LevelReaches`, for any names, levels and number
of loggers: who has a logger has the one its name stands for (`HandlesAreCurrent`), no
two names share one (`NamesAreApart`), and it has the level last asked of its name or of
all, the default logger where that was not asked of all (`LevelsAreWanted`).

`EntitiesProofs` proves `TypeOK`, `OwnerIsExact`, `LifetimeIsShared`,
`DisconnectFindsOwner` and `PositionLeadsBack`, for any number of entities, components,
references, ids and types. The first three need one another and: the factory has an entity under the id the
entity has (`IdsLead`, so that no entity is in it twice), one that was not displaced is
there (`IsFindable`), a component that was not moved is under one type (`TypeIsOne`), and
a new entity starts empty. The operations on components are two lemmas: `AttachInv`, of
putting a component under a free type, and `DropInv`, of taking some away.

`EntityPosProofs` is about the recursive definitions `Digits` (of `std::to_string`) and
`Number` (of `std::stoi`). The prover has no induction rule it can instantiate, so the
module gets induction from the library's well-foundedness of `<`: a non-empty set of
naturals has a least element (`LeastNumber`), and a counterexample is the least one. On
that rest three steps. The recursive functions exist and are unique (`SumExists`,
`SumIsOne`, `WritingExists`, `WritingIsOne`), and so obey their equations. The digits of n
are read as n (`DigitsStand`), hence `StoiReadsToString`. A text of three parts without
bars is cut where `get_pos` joined it (`ThreeParts`), hence `PositionIsParsed`; a bar
inside the ip or the id makes one of the parts shorter (`BarsBound`), hence
`OnlyUnbarredIsParsed`. `EntitiesProofs` takes `PositionLeadsBack` from these two.

Only model-checked: all liveness (`StopReturns`, `QueueDrains` and the others of section
3), which is outside the prover's reach, as is `ENABLED`. That the runs with a finding
violate their property is TLC's to show as well.

## 5. What is not modelled

- The blocking `send` and `receive`: no caller, no state. Socket options.
- `UDP`: the handlers are empty.
- `reload_config`: private, no caller. The lookups of services by id and by address
  (`get_game_service` with an id, `get_local_game_service`, `ServerEntity::is_local`) and
  the types of server entities only they read: no caller.
- `update` and `render`: empty, or empty calls.
- Log messages, patterns and the rotation of files: no property is about them. The
  properties of a logger in the configuration file are read by `GameConfig` and used by
  nobody.
- A write of part of a buffer: the code drops the rest with the buffer and only logs the
  count, so that a message on the wire is "in part at least".
- The memory behind a buffer: `send_buffer_` holds pointers to what the caller passed,
  and nobody calls `async_send`, so there is no caller whose memory could be followed.
- A crash through undefined behaviour: the models go on with the other outcomes.
- That nobody calls `handle_disconnect` or `destroy_entity`: the entities of closed
  connections stay. `Entities` shows what the calls would do.

## 6. What would come next

1. A version of `SendQueue` in which the first message of a busy period is queued
   before it is written, with `Channel` without loss as what it implements.
2. Byte counts in `SendQueue` (partial writes), and a caller of `async_send` whose
   memory ends.
3. The path from `close()` through the disconnected callback to
   `LoginService::on_client_disconnected`, once the source connects them: `TcpConnection`
   composed with `Entities`, with the pool's threads.
