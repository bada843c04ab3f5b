# TLA+ verification of MUSGoS

MUSGoS is a Go re-implementation of the Shockwave Multiuser Server. This
directory models the parts of it that run concurrently and share state, checks
them with TLC on small instances, and proves the central invariants with TLAPS
for every size.

## The system

A listener accepts sockets; one goroutine per socket (`handleConnection`)
registers it in the **connection pool**, reads messages, runs each handler to
completion and tears down. A *Logon* moves the socket from its address to a
user id, in the pool and in the **session store** (who is connected, with which
attributes, in which rooms). Movies and groups are rooms of that store plus
in-process objects that hold a group's attributes. From other goroutines, the
idle checker, kill timers and `System.User.Delete` remove sessions and close
sockets; scripts, jobs and group fan-out write to sockets. Scripts run in a
fresh Lua VM under a deadline and serialize themselves with keyed **cache
locks**. Pool, store, cache and movie list have a lock each; nothing covers two
of them. Database, cache, sessions and queue are behind ports, with in-memory,
SQL, Redis and RabbitMQ adapters. `main` starts all of it in one order and stops
it in another.

`PROJECT.json` lists every component with its sources and status, and every
hazard with the line where it bites.

## Modules

| Module | Code | State and actions |
|---|---|---|
| `ConnPool` | `conn_pool.go` | the maps `clients`, `connToID`, `writeMu`; one action per operation, called as `handleConnection` and `establishSession` call them |
| `ConnCallers` | `WriteToClient`, `DisconnectClient`, `CloseAll` | extends `ConnPool` with callers that use a socket and its mutex after the pool's lock is released |
| `SessionStore` | the `SessionStore` port | abstract: what the getters answer |
| `MemorySessionStore` | `memory_session_store.go` | the four nested maps; refines `SessionStore` |
| `SessionLifecycle` | `tcp_server.go`, `logon_service.go`, the reapers | composes `ConnPool` and `MemorySessionStore`; one action per call on either of them |
| `TCPServer` | `Start`, `handleConnection`, `Shutdown` | accept loop, connection goroutines with their WaitGroup, shutdown |
| `MovieGroups` | `mus/movie.go`, `mus/group.go`, group commands | group objects, rooms, the commands step by step |
| `CacheLock` | `memory_cache_lock.go` | entries, reference counts, gates, calls with deadlines |
| `ScriptLocks` | `lua_cache_module.go`, `Execute` | extends `CacheLock`: leases, nested scopes, release at exit |
| `RedisSessionStore` | `redis_session_store.go` | every operation as the Redis commands it sends; commands of other callers come in between, an operation may stop half way, hashes expire |
| `RedisCacheLock` | `redis_cache_lock.go` | the process's own lock, the lease in Redis, its renewals, the loss of a lease |
| `CacheStore` | the `Cache` port | abstract: entries with a time to live, counters, sets; where the two adapters differ, either behaviour |
| `MemoryCache` | `memory_cache.go` | maps with expired entries and a periodic sweep; refines `CacheStore` |
| `RedisCache` | `redis_cache.go` | one value of one type per key, one command per call; refines `CacheStore` |
| `TokenStore`, `BanChecker` | `cache_token_store.go`, `ban_checker.go` | extend `CacheStore` with callers that make several calls on it |
| `Migrations` | `migration_runner.go`, `sql_migration.go` | servers that start on one database, with failures and kills, on both paths of `apply` |
| `Transactions` | `mus.db.transaction`, `sql_query_builder.go` | scripts with builders and queries they keep; savepoints inside a migration |
| `DBCommands` | `sql_db.go`, the `system_service_db_*` handlers, the schema | tables with foreign keys, commands statement by statement |
| `Permissions` | `authorizer.go`, `loadCommandLevels`, `handleDBCommand`, `establishSession` | the level table, levels kept under a user's name while connections log on, are torn down and are removed; the checks of a command |
| `MessageStream` | `nextFrame`, the read loop | a client's bytes arriving in pieces of any size, cut into frames |
| `MessageRelay` | `types/lingo`, `types/smus`, parser and relay | extends `MessageStream`: reading and writing of values and messages as operators over byte sequences, what the handler does with each frame |
| `Delivery` | `sender.go` | a message on its way to the members of a group while they come, go, move and hang |
| `UDPServer` | `udp_server.go` | the read loop, packets handled on it, `Shutdown` |
| `ServerMain` | `cmd/gameserver/main.go` | the start of every part, and the stops: direct, deferred, with and without a wait |
| `TimerManager` | `timer_manager.go` | timers, their callbacks in goroutines, the signal to `main` |
| `IdleChecker` | `idle_checker.go` | ticks, snapshots, the clock, `Stop` |
| `Scheduler` | `scheduler.go`, `job_discovery.go` | discovery, one loop per job, panics, `Stop` |
| `RateLimiter` | `rate_limiter.go` | lazily refilled buckets and the cleanup, beside an exact bucket |
| `FileLogger` | `file_logger.go` | bounded channel, drain goroutine, `Flush`, `Fatal` |
| `MemoryQueue`, `RedisQueue`, `RabbitQueue` | the three queues | publishers, subscriptions, consumers, `Close` |
| `*Proofs` | | theorems about the modules they extend |
| `MC*` | | instances for TLC |

`MCSessionStores`, `MCLocks`, `MCServers`, `MCBackground` and `MCData` hold
several components that share no state. Their first state chooses one, whose
steps are then the only ones; fairness is stated for the chosen one, so that no
component's liveness rests on another's steps.

How the models abstract:

* What a mutex covers is one step; everything else interleaves.
* A Go map entry that is absent is a distinguished value (`NoConn`, `Void`, ...)
  or is outside the function's domain, as the code of that module needs.
* Objects reached by pointer (`Obj`, mutex numbers) are model values; one that
  nobody refers to is reused, which is what the collector allows.
* `SessionLifecycle` leaves out the pool's write mutexes, on which nothing in it
  depends; `ConnPool` and `ConnCallers` have them.
* `SessionLifecycle` replaces credential checks by a verdict: a rejected Logon
  changes nothing, an accepted one goes on. A user level is represented by the
  connection that stamped it. All messages concern one movie and one group.
* A remote address is any client id (`ConnAssumption`): it may come back before the
  goroutine of its old socket has torn down, and a Logon may have chosen it as a
  user id. `Register` then takes the id from the socket bound to it. `ConnPool`
  records such ids in `clobbered`, `SessionLifecycle` in `shared`, and the properties
  say what still holds of all others.
* `Permissions` has its own small pool and store, with one step for each call that
  `establishSession` and the teardown make on either. The store's calls do not fail,
  as those of the in-memory store do not. Logon, group membership and the queries
  about users, groups, movies and the server ask for no level and are left out.
* Redis cache calls that fail change nothing and are no step of `RedisCache`; the
  callers in `TokenStore` and `BanChecker` meet failing calls.
* An in-memory store never returns an error, so error branches on store calls
  that only log are not distinguished. The Redis store's errors are in
  `RedisSessionStore`.
* Redis executes one command at a time; a database runs one statement at a time
  and undoes what a lost connection had not committed; RabbitMQ delivers a queue
  in order. These are external and modelled as the code uses them.
* Time is a count of ticks up to the first value the code tells apart. Ages in
  `RateLimiter` are scaled so that a token is a whole number.
* Storing a value as JSON refuses floats that are not numbers and replaces bytes that
  are no UTF-8, for scalars; a container is stored as base64 and keeps every byte.
* Bytes are sequences of small numbers. A scalar is its bytes; lengths, padding,
  type codes and nesting are exact, and `MaxMessageSize` is scaled down. The
  relay is modelled with encryption off.
* `DBCommands` has one attribute per kind of table; ids grow, as both dialects'
  do, and are never used twice.
* Operators named `Mut...` are deliberately wrong variants of the operator that
  follows them; no specification uses them. They show that the properties can
  fail.

## Runs

| Run | Bounds | Shows |
|---|---|---|
| `session_store` | memory: 2 clients, 2 rooms, 2 values; Redis: 1 client, 2 rooms, 2 callers | memory: `ImplementsPort`; Redis: `GettersAgree`, `UnregisteredIsGone` |
| `lifecycle_reapers` | 2 sockets, 1 user, 1 reaper | `NoOrphanedState` |
| `lifecycle_admin` | 2 sockets, 2 users, 1 administrator | `NoOrphanedState` and `LevelIsOwn` with removals from inside connections |
| `lifecycle_live` | 2 sockets, 1 user, administrator | `ClosedIsTornDown` |
| `script_locks` | memory: 2 scripts, 2 keys, depth 2; Redis: 3 calls in 2 processes, a lease of 2 renewals | memory: `MutualExclusion`, `ScopeKeepsLease`, `NothingHeldAfterExit`, `ExecutionsEnd`; Redis: `LostOnlyBySilence`, `LossIsNoticed` |
| `servers` | 3 clients; 3 packets; 5 sets of optional parts; streams of 1 or 2 frames in any pieces; 2 users, 2 groups; 2 users, 2 movies | TCP: `SweptAreFlushed`, `ShutdownWaitsForStragglers`; UDP: `PacketCountedOnce`; main: `WaitedFindOpen`; stream: `FramesAsSent`, `RelayKeepsMessage`, `StoredComesBack`; groups: `RoomHasGroup`; delivery: `StayersGetOneCopy` |
| `background` | 2 users, 3 timers; 2 users; 7 job files; 2 clients; a buffer of 2, 4 entries; 3 messages and 2 handlers (memory, Redis), 2 messages and 2 channels (RabbitMQ); 2 sockets, one with a user id as its address, 2 callers | `TimersAreTracked`; `IdleIsRemoved`; `JobsRunAsScheduled`; `LazyBucketIsExact`; `FatalLosesNothing`; `DeliveredOnceToAll`, `HandledOnceInOrder`, `NoForgottenChannel`; `OneToOne`, `FramesNeverInterleave`, `CloseFreesCallers` |
| `data` | 2 keys, integers up to 2; 3 callers of Validate, 2 of the ban check; 2 servers, 2 migrations of 2 calls; 1 application, 1 user, 2 commands at once; 2 connections, 2 users; 2 scripts, 2 rows; 3 savepoints | `AdaptersImplementCache`; `NoReuseAfterReturn`; `BanTakesEffect`; `SchemaMatchesTracker`; `NothingCrossesReCreation`; `ActsWithOwnLevel`; `AllOrNothing` |

Four runs are expected to fail. Each states what a comment or a test says and
shows a behaviour of the code that differs; `PROJECT.json` quotes the lines:

* `lifecycle_logonok`: a late teardown removes the session of the Logon that
  followed it, so *LogonOK* is answered without a session.
* `movie_groups_overwrite`: the race the comment in `movie.go` calls benign
  loses the attributes of `@AllUsers`.
* `nested_property_lists`: a list reads each element twice, to create it and to
  measure it, and a property list appends its pairs on each reading, so a nested
  property list arrives with every pair doubled.
* `token_single_use`: `Validate` reads a token and deletes it in two cache calls, so
  two calls that overlap both return it. For a Logon, the takeover guard refuses the
  second while the session of the first lives; `mus.token.validate` has no such
  second check.

What the conditions in some properties stand for:

* `ShutdownWaitsForStragglers`: a connection that was accepted before the
  listener closed and registered after `CloseAll` keeps its socket, and
  `Shutdown` waits for as long as its peer stays.
* `OneToOne`: a socket whose id `Register` gave to another one still names that id,
  which answers for the other socket or for none. `NoOrphanedState` and `LevelIsOwn`
  leave out ids that two sockets shared in this way.
* `GettersAgree` and `UnregisteredIsGone` leave out clients whose own operations
  overlapped or failed half way. A join between the reading and the deletion of an
  unregistration leaves a member in a room for good; the keys of a connection are
  written anew by its next registration, which makes it one of the clients the
  property speaks of again. A message after a connection's hash expired, or after the
  unregistration of its id, brings back a hash with one field.
* `WaitedFindOpen` is about work that `main` waits for. A socket that the accept loop
  had in hand when the listener was closed (`inHand`) may become a connection after
  `Shutdown` has stopped waiting, and a request may outlast its five seconds; such
  work (`unwaited`) may find the database closed.
* `StayersGetOneCopy`: a member stays as long as the socket works. A reaper takes the
  rooms, then the session, and closes the socket last; until then the member still
  gets the message.
* `NoReuseAfterReturn` is what remains of single use: a call that begins after another
  returned the token is refused, unless the deletion failed, which the code ignores.
* `TimersAreTracked`: the callback of a user's timer that `Stop` came too late for
  (`missed`) deletes the entry of the timer set since (`takenBy`), which nothing can
  cancel any more. No other armed timer is untracked.
* `HandledOnceInOrder`: a message may be lost to a `BRPop` whose answer does not
  arrive, or dropped as unreadable; the loop then goes on with the next.
* `AdaptersImplementCache` is about a contract both adapters keep. In memory a value
  and a set may stand under one key and `Close` drops everything; in Redis a value
  replaces a set and `Close` only ends the client.
* `MigrationNotAborted`, which is proved, asks that savepoints be finalized from the
  inside out; nothing in the code holds a caller to that.
* `NothingCrossesReCreation` speaks of what refers to a user or an application by its
  id. Player attributes refer to the user by name and have no foreign key: those of
  a deleted user are there for the next one of that name.
* `BanTakesEffect` asks that the database stay up. The cache may fail at any call: a
  failing read goes to the database, a failing write is ignored.
* `NoForgottenChannel`: a channel of the RabbitMQ queue that `Unsubscribe` does
  not close comes only from a second `Subscribe` to its topic.
* `SchemaMatchesTracker` is about the path with a transactor; the other one runs
  `Up` and writes the tracker in separate statements. One transaction at a time
  writes, which is SQLite's rule; in PostgreSQL two servers at the same migration wait
  for each other too, and only two at different migrations may alternate.
* `RelayKeepsMessage` and `StoredComesBack` leave out nested property lists and
  media values. A media value is written without its bytes and read without them,
  although `lua_convert.go:81-86` says that scripts can store, echo and re-send
  it.
* `StoredComesBack` also leaves out a point or rect cut short: it keeps empty
  coordinates, and writing it panics; the panic ends that connection and nothing
  else.

**Why the bounds suffice.** The races here need two parties and one thing they
compete for: two connections and a user id, two creators and a group, two
scripts and two keys in opposite order. A third socket in `servers` adds a
bystander. What is proved holds for any number. `Obj` is one
larger than the number of objects that can be referred to at once, so that an
allocation always finds one (`GroupAssumption`). `MaxDepth`
bounds how deep `withLock` nests: two levels have an owner and a borrower.
Connections are not reused, so a run with two sockets covers every pair of
consecutive or overlapping sessions of a user.

In the other models, two callers, servers, scripts or commands are what the races
need; the third caller of Validate sees a token after two that overlapped. A
lease of 2 ticks can miss one renewal and survive. The log's buffer of 2 with 4
entries can be full when `Fatal` flushes. Two rate-limited requests in a window
of 3 make refills that are not whole tokens. Streams hold one value of each kind,
nested where that matters, every cut of three of them, a frame at the size limit
and one above it. `MaxId`, `MaxPackets`, `MaxEntries`, `MaxFailures` and
`MaxSavepoints` bound what would otherwise go on.

**Fairness.** Goroutines that can run do run (WF on their own steps). Go's mutex
does not starve a waiter (SF on locking, `ConnCallers`). Contexts with a deadline
expire. A connection whose socket is closed eventually reads from it and fails
(SF, because complete frames may still be buffered). Tickers tick, and the session
store does not fail for ever (SF on the idle checker's read). A call to Redis or
to the database ends, well or badly, and the lease of a lost lock is refused at a
later renewal. Time passes. Nothing obliges a peer to read or to close, a lock's
owner to release, or a script to end before its deadline. Components whose
properties are invariants are checked without fairness.

## Proofs

The proofs are in seven modules that extend what they are about, and at the end
of `ConnCallers`. Each theorem states an inductive invariant and shows that every
action preserves it. What the invariant adds to the property is what makes it
inductive.

`ConnCallers`, for any sockets, ids and callers:

* `PoolSafety`, `PoolNoTakeover`. `OneToOne` is not inductive, because `Register`
  binds its socket without looking. `PoolInv` adds that only accepted sockets are
  bound, so a socket not yet accepted has no other id; and that mutexes in use are
  older than the next one.
* `WritesAreSerial` (`FramesNeverInterleave`). A caller keeps a mutex after the
  pool's lock is released. `CallersInv` adds that the mutex found for a socket is
  still the socket's only one: sockets are registered once, `RemapClientID` keeps
  the mutex, and `Unregister` drops it without making another.

`LifecycleProofs`, for any stream of frames:

* `FramesAreCutAsSent` (`FramesAsSent`). The header is not there before the sixth
  byte, and a read may end anywhere. `StreamInv` adds that what has been received
  and not been taken is the piece of the stream from the end of the last frame
  taken to the last byte read, so it begins with the header of the next frame as
  soon as it is long enough. The theorem is about `StreamSpec`, in which a handler
  may end in any way; every action of `MessageRelay` is a step of it by definition
  (`ReadStep`, or `Take` with more conjuncts) or leaves its variables alone.

and for any sockets, users and reapers, composed of the pool and the memory store
call by call:

* `NoGhosts` (`NoOrphanedState`) and `LevelsDoNotLeak` (`LevelIsOwn`). `LifeInv`
  says, for each place in a goroutine's code, which id its socket is bound to and
  which ids its local variables hold; that the two maps of the pool are inverse to
  each other up to shared ids, and so are the two indexes of the store; and that
  from its stamp on until it is bound to another id, a socket whose id is not shared
  finds its own level or none.

`LocksProofs`, for any scripts, keys, nesting, calls and processes:

* `ScriptsUseTheLock`: the specification of scripts implements that of the keyed
  lock, step by step, so `LockSafety` holds for scripts. `ScopesRunUnderLease`
  and `ScriptsLeaveNothing`: `ScriptInv` says where the lock's call on a key is,
  as seen from the script's own table of leases, and that inner scopes of a key
  borrow the lease of the outermost.
* `LockLostOnlyBySilence`, `LockLocalExclusion`, `LockOnlyOwnerDeletes` for Redis.
  `LeaseInv` says that whoever is past the local lock is its holder, and that the
  age of a lease is the time its holder has been silent.

`CacheProofs`, for any keys, values, tokens and calls:

* `LockSafety`. `LockInv` says that an entry in the map is the one every call on
  its key refers to, that the token is either in the gate or with exactly one
  call, and that the reference count is the number of calls.
* `AdaptersImplementPort` (`AdaptersImplementCache`): every operation of either cache
  maps to the port's or to a stutter. In memory an entry that has expired shows as
  absent, so the sweep, which the code runs at every so many writes, does not show.
  In Redis a key holds a value or a set, and what expires had one tick left.
* `TokensAreSpentOnce` (`NoReuseAfterReturn`). `TokenInv` adds that a token some
  call has returned is out of the cache, or its deletion was refused, and that
  `Issue` never picks an id that was issued before.

`ServersProofs`, for any sockets, packets, clients, jobs and configurations:

* `WaitedWorkFindsParts` (`WaitedFindOpen`). `SmInv` says that the four base parts
  are at the bottom of the stack of deferred calls in the order of their start,
  that whoever is waited for is deferred above them or is the TCP server, whose
  connections that are waited for end before the stack is run, and that nothing is
  started twice.
* `ShutdownFlushes` (`SweptAreFlushed`). The WaitGroup's count is the number of
  goroutines between `Add` and `Done`, of which there are finitely many at any time
  although `Conn` may be infinite; a socket in the pool has one of them.
* `LazyRefillIsExact` (`LazyBucketIsExact`), for every rate and window: a bucket is
  between empty and full, and a tick adds the same to the lazy and the exact one,
  the tick that fills them included.
* `NoEntryIsLost` (`FatalLosesNothing`), for any buffer size. `LogInv` says that
  what is written, in the drain goroutine's hands and in the channel follow each
  other in the order of the calls, and that a flush stands in the channel behind
  every entry its caller waits for.
* `PacketsAreCountedOnce` (`PacketCountedOnce`) and `ScheduledJobsRunUntilStop`
  (`JobsRunAsScheduled`). The first header among the lines of a file is found by
  the least-element theorem for well-founded relations.

`MessagingProofs`, for any users, groups, movies, handlers, channels and timers:

* `RoomsHaveGroups` (`RoomHasGroup`). A handler that is about to join a room has
  seen or added its group, and groups are never removed; an added object may
  displace another one, never leave none.
* `FanOutReachesStayers` (`StayersGetOneCopy`). `DInv` ties, in each phase of the
  fan-out, the copies a stayer has to whether the fan-out has still to reach it, and
  adds that stayers are in the pool and their sockets work.
* `EveryHandlerGetsItOnce` (`DeliveredOnceToAll`): the goroutines of a message are
  started once, when it is published. `ChannelsAreTracked` (`NoForgottenChannel`).
* `RedisQueueIsAQueue` (`HandledOnceInOrder`), for any messages and consumers.
  `RqInv` adds that whatever has been popped was pushed before all that waits, and
  that what a consumer has handled was pushed before what it is handling.
* `ArmedTimersAreTracked` (`TimersAreTracked`). An entry of the manager is the
  newest timer of its user, and every other timer of the user that has yet to call
  back is one its setting missed, so a callback that finds another timer's entry is
  that of a timer missed when the entry was made.

`SessionStoreProofs`, for any clients, rooms, attributes and goroutines:

* `StoreSafety`, that the two indexes of the memory store are inverse to each other
  and hold no empty room, and `StoreImplementsPort`, that every operation maps to
  the abstract operation or a stutter. Inverse indexes are what makes the deletion
  that walks one index complete in the other.
* `StoreGettersAgree` (`GettersAgree`) and `UnregistrationLeavesNothing`
  (`UnregisteredIsGone`) of the Redis store, whose properties hold only between
  operations. `RsInv` says what holds within one: unless calls have raced, one call
  at a time changes a kind of key of a client, and the number of its next command
  tells how far the client's keys are apart. An unregistration's own copy of the
  rooms is, from `SMEMBERS` on, the set of rooms that still list the client.

`DatabaseProofs`, for any users, names, connections, commands, scripts, rows,
servers, migrations and failures:

* `CommandsUseOwnLevel` (`ActsWithOwnLevel`). `PeInv` says that no two connections are
  bound to one user, and that the level kept under a bound user's name is the one
  stamped by the Logon of that connection, or none, except between the remap and the
  stamp of a Logon, when that connection runs no command. It is the pool's slot, kept
  until the handler returns, that holds other Logons off after a reaper has removed
  the session. The table has exactly the commands of `defaultCommandLevels`, so the
  administrator's level never falls back.
* `TransactionsAreAtomic`, `TransactionsAreClosed`, `SavepointsNeverAbort`. A
  script's builder is the transaction's exactly while its callback runs, so queries
  made inside never write through the pool; unless one was finalized before one
  inside it, the savepoints that exist are those made and not yet finalized, so no
  statement names one that is gone.
* `ReCreationIsClean`, `BansAreLiftedOnce`. Ids are not used twice, so a row with
  the id that a command looked up is the row it looked up; and a ban is active
  exactly as long as nobody has been told of its revocation.
* `MigrationsAreAtomic`, `MigrationsAreOrdered`. A server in the middle of a
  migration has all earlier ones in the tracker, and what it has not committed is
  its own. Tracker and schema grow together, which keeps this true while other
  servers commit.

**Assumptions.** Most say that values standing for "absent" are not among the
things they stand beside (`VoidAssumption`, `TxAssumption`, `MgAssumption`,
`PeAssumption`, `DBAssumption`, `LifecycleAssumption`, `CallerAssumption`,
`ScriptCalls`, `CacheAssumption`, `EntryAssumption`, `ChannelAssumption`,
`NilAssumption`, `NoConnAssumption`, `DeliveryAssumption`, `QAssumption`,
`RsAssumption`, `LAssumption`, which also says that entries are numbers and the
buffer has a size, and `TimerAssumption`, which also numbers the timers). The others:
every call has a key or a process (`CallAssumption`, which makes the set of calls
finite for the count of users, and `LkAssumption`, with a lease of at least one
tick); an address and a user id are client ids (`ConnAssumption`); the rate and
its window are positive (`RateAssumption`, what `NewRateLimiter` is given); a job
file is a sequence of lines (`DirAssumption`); a stream is cut into frames of at
least a header, and one that has the header is as long as it says
(`StreamAssumption`); an allocation finds an object
nothing refers to (`GroupAssumption`). TLC evaluates all of them in the runs.

**Only model-checked**, and why:

* Liveness (`CloseFreesCallers`, `ClosedIsTornDown`, `ExecutionsEnd`,
  `LossIsNoticed`, `ShutdownWaitsForStragglers`, `IdleIsRemoved`,
  `BanTakesEffect`): fairness and `ENABLED` are out of the prover's reach.
* `RelayKeepsMessage` and `StoredComesBack` (`MessageRelay`): what a codec computes
  for every input needs induction over data, and values hold values, so its
  operators are recursive.

## Not modelled

* The cipher: table-driven arithmetic without state the properties speak of.
* Lua value conversion, and the bindings that only convert and call a component
  above. What a script does is its own choice, as far as it holds locks, makes
  transactions, validates tokens or sends messages.
* Email, and the answers of HTTP, metrics and console requests: input and output.
  When these adapters start and stop is in `ServerMain`.
* The text of SQL statements, the dialects' types and the query builder's
  clauses. Their effect on the tables is in `DBCommands` and `Transactions`.
* The credential checks of the Logon's auth modes, which are a verdict.
* Replies of System commands and of scripts on their way back to the client; they
  take the path of `WriteToClient`, which `ConnCallers` models.
* Configuration other than the command levels, factories, and boot hooks beyond
  their place in the order of `main`.
* Logging, except the logger itself.
* `LeaveMovie`, `LeaveAllGroups` and `RemoveGroup`, which nothing calls.
