# FluxCache in TLA+

TLA+ models of FluxCache (`../src`), checked with TLC on small instances and,
where marked, proved with TLAPS for every value of the constants. Line numbers
are in `PROJECT.json`: `map` gives the source lines of every definition,
`hazards` the places in the code where something hard to test can go wrong.

## The system

A process reads a configuration, builds a store, a log and a transport, replays
the log into the store, and serves commands until a signal arrives.

| Part | Source | State and operations that change it | Model |
|---|---|---|---|
| `main` | `main.go` | configuration, replay; select, shutdown, `onWrite` | `Lifecycle`, `Server` |
| RESP transports | `network/tcp.go`, `tls.go`, `unix.go` | listener, semaphore, a goroutine per connection | `Server` |
| HTTP, gRPC | `network/http.go`, `grpc.go` | a library's server, one call per request | `Server` |
| Handlers | `handler/handler.go` | none of their own; call the store | `Lifecycle` (the ones that write), `TTLStore` (deadlines) |
| `TTLStore` | `store/ttl.go` | deadlines, set of keys, eviction, sweeper goroutine | `TTLStore` |
| Eviction | `evict/*.go` | a map of timestamps or counts | `EvictPolicies`, `EvictLoops` |
| `MapStore` | `store/map.go` | two maps under one mutex | `MapStore` |
| `LockFreeStore` | `store/lockfree.go` | buckets replaced by compare-and-swap | `LockFreeStore` |
| `ShardedStore`, `SyncMapStore` | `store/sharded.go`, `syncmap.go` | maps under a lock each; `sync.Map`s | `ShardedStore`, `SyncMapStore` |
| Ordered stores | `store/skiplist.go`, `bptree.go`, `art.go` | a list or tree under one lock | `SkipList`, `BPTree`, `ART`, `OrderedStore` |
| `CRDTStore` | `store/crdt.go` | entries with timestamps, a clock, `Merge` | `CRDTStore` |
| `BitcaskStore` | `store/bitcask.go` | maps and a log file | `Bitcask` |
| `WAL` | `persistence/wal.go` | buffer, file, flush loop | `WAL`, `WALCodec` |
| `AOF`, `RDB`, `Dual`, `Null` | `persistence/*.go` | file and its offset; maps, snapshot loop | `Lifecycle` |
| RESP codec | `resp/*.go` | a buffered reader | `RESP` |
| Config | `config/config.go` | none after start | `Config` |
| Telemetry, health, logging, generated gRPC code | | counters and I/O | not modelled |

A connection's goroutine reads a command, gives writes to the log, calls the
handler, and replies. The handler calls `TTLStore`, which calls the policy and
the inner store, each under a mutex of its own and none across the calls. The
sweeper and the flush loop are goroutines beside them. So the questions are
what happens between two critical sections, and what a crash or a shutdown
leaves behind.

## Modules

**`MapStore`** is the reference: strings and hashes, and `Set`, `Get`, `Del`,
`HSet`, `HGet`, `HGetAll` as atomic steps. It is the inner store of `TTLStore`
and the abstract specification that `LockFreeStore` and `ShardedStore`
implement and that the ordered stores are compared with.

**`EvictPolicies`** gives each policy as operators: what `Record` and `Delete`
do to its map and the set of keys `Evict` may return. LRU timestamps are
abstracted to ranks, so that the state stays finite. **`EvictLoops`** keeps both
the timestamps and the ranks, runs the code's loops over every order of every
set of candidates, and checks that the operators allow exactly the loops'
results. It assumes that the clock advances with every access, as the
monotonic clock does in practice.

**`TTLStore`** has one action per critical section of every method: `pc[c]`
names the next one of client `c`, and the local variables the code carries
across an unlock (`exp`, `cands`, `target`) are variables of the model. `meter`
is the policy's map, `pending` and `sweeping` the sweeper's progress. Policy and
limit are constants, as `SetEvictionPolicy` is called once, before the server
listens.

**`LockFreeStore`** has one action per load, successful swap and retry. A
pointer is a bucket with a number no earlier bucket of the slot had, since the
garbage collector does not reuse memory a goroutine still holds.

**`WAL`** models the buffer, the file, `Write` in its two critical sections, the
flush loop, `Close`, `Replay`, kills of the process at any point (in the middle
of a write too, which leaves a torn frame) and, with `PowerLoss`, the loss of
any unsynced end of the file. It is the backend that is replayed: the file is
not opened for appending, and only `Replay` moves its offset to the end, so a
`WAL` that is the secondary of a dual backend overwrites its file after a
restart. Writes that fail for want of space are left out.
**`WALCodec`** is the same file on bytes: `marshalCommand`, `unmarshalCommand`
and the loop of `Replay`. A byte has `Base` values; with 2 instead of 256, the
16-bit counts wrap around at 4.

**`ShardedStore`** is a function from shards to maps; the shard of a key is a
constant function, so the theorem holds for any hash. **`SyncMapStore`** has one
action per operation on a `sync.Map`: `HSet` and `Del` are two steps each, and
`cut` remembers the `HSet`s whose hash a `Del` unlinked meanwhile.

**`SkipList`**, **`BPTree`** and **`ART`** give the three ordered structures as
operators on values (`KeyOrder` has Go's order of strings): searches, splits,
node growth, deletion and scans as in the code, with the node sizes as
constants. **`OrderedStore`** runs one of them beside a `MapStore`. A `Set` of the
radix tree whose key ends inside a node's prefix calls itself under its own
lock; that is the action `SetBlocks`, after which nothing more happens.

**`CRDTStore`** has several replicas. `Merge` is one step per lock it takes, and
keeps the read lock of its source that the code does not give back. **`Bitcask`**
is the file on bytes and the maps beside it. `Bytes` (integers as bytes) is shared
with `WALCodec`, and `Loops` gives the code's loops over files and lists as
recursive functions, which the theorems can speak of.

**`ConcurrentStores`** puts the lock-free, sharded, `sync.Map` and CRDT stores
side by side as `buildStore` does: `which` is chosen at the start, one of them
moves and the others stay. They share no state, so this is a sum of the modules
and no more. **`Stores`** adds Bitcask and the ordered stores. The operators of the
latter are `RECURSIVE`, which the prover cannot handle, so the theorems are about
`ConcurrentStores` and `Bitcask`.
**`Algorithms`** is the same kind of sum for `EvictLoops`, `WALCodec` and `RESP`.

**`RESP`** is `Marshal` and `Read` on bytes (`Decimal` is `strconv`). The input is
cut where one `Read` of the connection ends: `reader.Read` then returns fewer
bytes than asked for, and the rest of the argument stays zero. A length below -1
makes the reader panic (`Panicked`).

**`Config`** has `FromEnv`, `Load`, `Validate`, `parseBytes`, `Build` and
`BuildNetwork` as operators on a record. An RDB interval of zero or less makes
the snapshot loop panic unless it reads the interval before it is set
(`MayPanic`); an RDB file that cannot be opened is noticed by nobody, and the
backend keeps nothing.

**`Lifecycle`** runs `main` with them: load, build, replay, serve, close; then a
kill or the end of the process, and a new start on the same files. A command goes
to each backend and then to its handler, one step each, so the commands of two
clients interleave.
- The AOF file is a sequence of commands and `pos` its offset. `NewAOF` opens the
  file at its beginning and not for appending; only `Replay` goes to the end, and
  `Dual` replays its primary only. So the log of a secondary is overwritten after
  a restart, the last command that is reached perhaps in part (`Torn`).
- AOF's `Replay` reads through a buffer of 4096 bytes. A text that lies across the
  end of the buffer is read as the part that is there, filled up with zeros, and a
  command whose name that happens to is not known to `main`. `Readings` has all
  the ways to read a command; `Padded` gives what a text may become.
- The RDB file is a sequence of counts and strings; a kill may cut it after any
  write. RDB's loop runs from `NewRDB` on, before `Replay` too.
- The store is a `MapStore` from which expiry or eviction may take a key at any
  time (`Drop`). With Bitcask it has a file (`disk`), which follows it until
  `s.Close` and which the next process starts with.

**`Server`** has the main goroutine from its `select` to its exit, the goroutine
of `Listen`, a goroutine per connection, and clients that dial, send and leave
as they like. `calls` holds the commands under way. A connection has one at a time
over RESP and HTTP; over gRPC every call has a goroutine of its own, and the calls
of one connection run side by side. `log` and `applied` hold the writes in the
order in which the log and the store took them. With RESP, reading a command takes
any number of the commands that wait in the socket and uses the first, because
every command is read with a new buffered reader. A read-ahead that ends inside a
command, which makes the next reader start in the middle of one, is left out.
`t.ln` is set and read without synchronisation; seeing half of the two-word value
has the effect of seeing `nil`, so one step is enough. With HTTP, `Close` closes
the connections and the handlers run on; with gRPC, `GracefulStop` waits for them.

`MC*` modules give constants their values. `*Proofs` modules hold theorems.

## What the runs show

Passing runs:

| Run | Shows |
|---|---|
| `ttl_interleaving` | `NoUntrackedValue`, `NoUnrecordedValue`: two clients, the sweeper and `Close` on one key never leave data that bookkeeping has lost; `ExpiredValueRemoved` (liveness): expired data goes |
| `ttl_limit` | one client, LRU, no TTLs. `KeyLimit`: the limit holds after every call; `OwnWriteSurvives`: the key just written is never evicted; `KeyCountExact`: `KeyCount` is exact |
| `wal` | `LogIsFileThenBuffer`, `FullBatchIsFlushed`, `BatchCommitted`, `ReplayRestores`, `EventuallyOnDisk` (liveness), with kills and power failures |
| `server` | `SlotsHeld`: the semaphore's tokens are the connections served; `LogIsAhead`: every write is logged and applied once, while the log is open it has exactly the writes that were applied and those about to be, and over RESP and HTTP those of a connection are in the order sent; `RepliesInOrder`: no command is answered twice, and over RESP and HTTP replies are in order; `ShutdownFromListening` (liveness): a shutdown that finds `Listen` accepting ends the process |
| `stores` | `ImplementsMapStore` (refinement), `NoStaleSwap`, `CallReturns` (liveness) of the lock-free store; `ShardsAreOneMap` (refinement); `GetIsMapGet`, `ScansAreSorted`: the ordered stores find and list what a map holds; `WriteReachesHash`: concurrent `HSet`s lose no field; `LastWriterWins`, `MergedIsPast`: entries only get newer, and the clock passes what is merged; `RecoverIsMemory`, `CutLosesLastOnly`: the Bitcask file gives back the maps, and cut in its last record everything but the keys that the rest of this record spells |
| `algorithms` | `RanksOrderAccess`, `VictimsAreLoopResults`: the policy operators are the code's loops; `RoundTrip`, `CutIsNoticed`: WAL frames are read back, and a file cut at any byte up to the cut frame; `MarshalledIsRead`, `CutKeepsStep`: RESP values are read as they were written, and a command that arrives in pieces is read to its end |
| `lifecycle` | `NoLateFailure`: what `Load` accepts fails to start for named reasons only; `LiveIsLogged`: what clients can read is in the AOF that is replayed, as `Replay` may read it; `LogIsKept`: an AOF that is replayed is only appended to; `BackendsAgree`: `Dual`'s backends hold the same keys, as far as AOF's offset goes; `SnapshotIsRead`: a snapshot replays to what it was taken of, and cut by a kill to parts of it |

`BatchCommitted` and `ReplayRestores` are about what a crash leaves: a kill keeps
the file, so a committed batch stays; the file is never synced, so a power
failure may take committed batches too, and the promise is withdrawn.

Runs in which the code does not do what a comment or the README of the
repository says (`findings` quotes the lines):

| Run | What happens |
|---|---|
| `ttl_limit_race` | two writers over the limit evict the same key, and the store stays over it |
| `ttl_key_count` | a `Set` between a sweep's untracking and its `inner.Del` loses its data and stays counted |
| `wal_torn` | after a kill during a write, `Replay` never returns |
| `server_listen_error` | after an error of `Listen`, `main` waits for a second one |
| `server_pipeline` | a command read ahead with the last one is dropped |

The passing properties stop where the code stops giving a guarantee:
- `KeyLimit` holds for one client, with or without TTLs (the theorem below), and
  without the key `""`, which the code takes for no victim; `KeyCountExact` holds
  for one client without TTLs. The first two runs of this table show what a second
  client and the sweeper do to them.
- `ShutdownFromListening` says nothing of a signal before `Listen` has its
  listener: `Close` then closes nothing and `main` waits for ever.
- `LogIsAhead` says nothing of what RESP and HTTP apply after the log is closed,
  nor of the order of two connections or of the calls of a gRPC connection. The
  store may apply two writes in another order than the log has them.
- `RoundTrip` is checked below the count at which 16 bits wrap.
- `GetIsMapGet` ends where the radix tree waits for itself.
- `CutLosesLastOnly` excepts the empty key, which a cut record may write, and the
  keys on which the bytes that are left of the record spell an operation
  (`Spells`): the record's own key, and any that its strings happen to spell, as
  `recover` goes on inside the cut record. It says nothing of records appended
  behind the cut.
- `CutKeepsStep` is about the number and lengths of arguments: their bytes after a
  cut are zeros.
- `NoLateFailure` excepts files that cannot be opened, intervals, and a dual
  backend inside a dual one, none of which `Validate` looks at (`Excuse`).
- `LiveIsLogged` says that nothing readable is missing from the log, for stores
  without a file of their own: Bitcask starts with its own contents, whatever the
  log says. What a replay has put into the store is there as it was read, padding
  included. The log also has keys that are deleted, since `DEL` is not logged, and
  perhaps a later value than the store.
- `LogIsKept` is about the log that is replayed. As a secondary, AOF writes over
  its old log after a restart, and `BackendsAgree` speaks of the part that the
  process has read or written.
- `SnapshotIsRead` is about what RDB has noted in this process: `Replay` does not
  note what it replays, so the first snapshot after a restart drops what was there
  before.

`hazards` names each of these places.

### Bounds

Two clients are enough for every race named above, which are between two
goroutines, one of which is often the sweeper or the flush loop.
`ttl_interleaving`: one key, and a TTL of 0 expires with the next tick, so one
tick makes it overdue; one key never exceeds a limit, so evictions that race
are left to the theorems, which cover every policy and limit. `ttl_limit`: three
keys for a limit of two.
`MaxMeter` and `MaxSwaps` bound counters when a call starts, never inside it.
`wal`: frames of lengths 1
and 2 and a batch of 3, so that a batch may be hit exactly or overshot; four
writes give two batches. `server`: two clients, over RESP with one token and a
password, HTTP or gRPC (`cfg` is chosen in `Init`), and two commands per client,
which may both wait in the socket; the two violation runs use RESP without
either. `stores`: two keys share a bucket of the lock-free store and one is alone;
keys of one to three bytes that share prefixes, with node sizes of 2 to 4, make
the trees split, grow and empty in all orders, and two values show a stale one;
three shards with a mask that
reaches two of them; two replicas and
two goroutines that merge, with timestamps up to 1, so that ties happen; three
Bitcask records with empty strings and with a value that spells a deletion.
`algorithms`: empty, one-byte and two-byte arguments with bytes that look like
lengths; texts that hold a line end. `lifecycle`: 14 files with 25 environments
around the limits of `Validate`, with an `int64` that wraps at 127; two calls and
one restart, which two clients need to meet in every order at the two backends;
empty texts, and texts of two bytes that may be padded after the first (`"ab"` to
`"a0"`, `"xy"` to `"x0"`). `ttl_limit` sets `SYMMETRY` on clients and keys and
`lifecycle` on clients, which the models use symmetrically; no run with a liveness
property does.

Deadlock is checked in the runs of `TTLStore`. Elsewhere nobody has to call, and
a bound or the end of the process stops the model, so it is off there; so does
the radix tree's lock, which is in the list above.

### Fairness

`ttl_interleaving`, `wal`, `server` and, for the lock-free store, `stores` assume
weak fairness of a goroutine that is inside a method or has work: Go's scheduler
and mutexes starve none. The sweeper's and the flush loop's tickers fire again
and again. Clients need not call, time need not pass, nobody need crash, signal
or close, and a client may leave at any time.

## What is proved

TLAPS proves these for all values of the constants that satisfy the named
assumptions. TLC evaluates each assumption on the instances of the runs.

| Assumption | Says |
|---|---|
| `KeysAssumption` | the keys are finitely many; `None` is no number |
| `TTLAssumption`, `NoMethod` | `None` is no key, value or method; types of policy, limit and bounds |
| `LoopAssumption` | the bounds are numbers |
| `LockFreeAssumption`, `ConcurrentAssumption` | every key has a bucket and a shard; `None` is no map |
| `WALAssumption` | frames and batches are not empty |
| `BytesAssumption` | a byte has at least two values |
| `CodecAssumption`, `BitcaskAssumption` | strings are bytes whose lengths (and the number of arguments) fit into their fields; command names are not empty; the three operation codes differ |
| `ServerAssumption` | the clients are finitely many; only RESP has a limit and a password |
| `ConfigAssumption` | the value for a failed build is not the name of a backend; positive intervals are durations, the empty one is none |
| `LifecycleAssumption` | commands are SET, HSET or DEL with any number of texts, over the keys and fields of the model; a padded key is a key, a padded field a field |
| `OneOfEachKind` | no dual backend has two logs or two snapshot files |

**`TTLStoreProofs`**, for any clients, keys and policy: `TypeCorrect`;
`StoredIsTracked` and `StoredIsRecorded`, from the inductive `SafetyInv`: stored
data is in `allKeys` (in the policy's map), *or* a goroutine has written it and
has yet to track it, *or* one has untracked it and has yet to delete it. The
order of the calls in `ttl.go` makes this inductive: writes come before tracking,
untracking before deletion.

For any keys, calls and deadlines, to justify the operators and the ranks that
`TTLStore` uses:
- `RanksAreTimestamps` (`RanksOrderAccess`), from `LoopInv`: no timestamp is in the
  future, and ranks never exceed the number of entries (`Ranked`, kept by
  `LRURecord` and `LRUDelete`), so that the next entry is the newest by both.
- `EvictReturnsVictims` (`VictimsAreLoopResults`). The three loops are one
  (`IsEvictLoop`) with different weights. It ends with a candidate that no
  candidate with an entry is below, and with the first candidate if that is one
  (`EvictLoopResult`); any candidate can come first (`AnyFirst`).

For a single client, beside whom the sweeper runs:
- `SingleClientLimit` (`KeyLimit`), from `LimitInv`: how far over the limit the
  client may be at each step, and that stale candidates contain all of `allKeys`,
  since only the sweeper can have removed one. It needs an `allkeys` policy and no
  key `""`: the code takes the victim `""` for no victim. `ttl_limit_race` shows
  why one client.
- `SingleClientCount` (`KeyCountExact`), from `CountInv`: `allKeys` is the set of
  stored keys but for the key being written or removed. No deadlines may be set;
  `ttl_key_count` shows why.
- `SingleClientOwnWrite` (`OwnWriteSurvives`), for LRU, `volatile-ttl` and no
  eviction. Under LRU the victim is the oldest candidate, so the proof needs that
  the key just recorded has the highest rank (`RankInv`, by `Ranked` again), and
  that over the limit there is another candidate (`EvictInv`). LFU and the random
  policy do evict the key just written.

**`ConcurrentProofs`**, about `ConcurrentStores`:
- `SwapIsFresh` (`NoStaleSwap`), that an unchanged pointer means unchanged data;
  from it `Linearizable` (`ImplementsMapStore`): a swap is one whole call of
  `MapStore`, every other step a stutter.
- `ShardedImplementsMap` (`ShardsAreOneMap`), for any number of shards and any
  hash: `ShardsOK` gives the shape, and a write to the key's shard is the same
  write to the one map.
- `FieldIsNotLost` (`WriteReachesHash`), inductive with the types, since only
  `DeleteHash` unlinks a map and it marks the writers it cuts off.
- `MergeStaysBehind` (`MergedIsPast`) and `NewestEntryStays` (`LastWriterWins`),
  from `CRDTInv`, which adds that no entry is newer than its store's clock, and
  that a running `Merge` holds the read lock of its source, so that nobody writes
  there.

**`WALProofs`**: `TypeCorrect`; `LogIsKept` (`LogIsFileThenBuffer`) from the
inductive `LogInv`, which adds
what holds while the process is down or replaying; `NoFullBatchWaits`,
`BatchesSurvive` (kills of the process), `ReplayIsComplete`.

**`ServerProofs`**, for any connections, commands and configurations, from
the inductive `ServerInv` (`ServerInvariant`): `TypeCorrect`, `SlotsAreHeld`
(`SlotsHeld`) and its corollary `ConnectionLimit`, `LogLeads` (`LogIsAhead`),
`RepliesAreInOrder`
(`RepliesInOrder`), and `GracefulStopLosesNothing`: a gRPC server that was stopped
has logged exactly what it applied. `LogIsAhead` is not inductive: that the next
write of a connection comes after its earlier ones needs
- `SocketInv`: what waits in the socket is increasing and not beyond `sent`, and
  what was answered or is under way is before all of it;
- `CallsInv`: a command is under way once and has no reply yet, and over RESP and
  HTTP a connection has one at a time and has answered only earlier ones;
- `WritesInv`: what is logged or applied differs from what has yet to be, and over
  RESP and HTTP is before it.

That it holds to the end with gRPC needs `MainInv`: once `GracefulStop` has
returned no call is in progress, and only then is the log closed.

**`LifecycleProofs`** and **`SnapshotProofs`**, for any configurations, keys,
clients, commands, paddings, and any number of kills and restarts:
- `ValidatedStarts` (`NoLateFailure`), from `ConfigInv`: what `main` holds after
  `Load` passed `Validate`, and a builder then fails only for an `Excuse`.
- `LogIsAppended` (`LogIsKept`), from `LifeInv` and `OffsetInv`: from `Replay` on the
  offset of a log that is replayed is at its end, and until then nobody writes.
- `ServedIsLogged` (`LiveIsLogged`), from these and `LogInv`: every string or field
  of the store is some reading of a command in the log, and a command that has
  passed the first backend is in the log, since the handler comes after it.
- `DualAgrees` (`BackendsAgree`), from `DualInv`, which follows each string and
  field through both orders of the backends (`LogFirst`, `LogSecond`): an entry of
  RDB's maps is in the log before the offset or its command is on the way there; a
  command between the backends is in the first one; and an entry of that part of
  the log is in RDB's maps or on the way there. RDB's maps are not filled by
  `Replay`, so with the log first this last part ends with the first restart; with
  the log second the offset begins again, and it goes on.
- `SnapshotsAreRead` (`SnapshotIsRead`), from `SnapInv`: RDB's maps stay as they are
  while a snapshot is written, and a finished file is a snapshot of `last`. The
  rest is about the file: where each entry stands for any orders of the maps
  (`LaidOut`), what `Replay` gives for a file that goes on as a snapshot does, as
  far as it goes (`CutOff`), and that each cell gets its value from one command.

A string or a field is a *cell* (`Cells`) there. What a replay leaves in a cell is
shown to come from some command of the log (`RestoredCells`); the handler's loop
over the keys of DEL is treated in the same way (`DelCells`).

**`FormatProofs`**, for any byte size and any strings that fit into their length
fields:
- `ReplayGivesAll` (`RoundTrip`) and `CutsAreNoticed` (`CutIsNoticed`), from
  `FileInvariant`: the WAL file is the frames of the commands written, one after
  the other. `FrameLaid` says where the parts of a frame stand; of data that agrees
  with a frame as far as it goes, `unmarshalCommand` reads the command if the frame
  is whole and nothing otherwise (`Parsed`).
- `RecoverGivesMemory` (`RecoverIsMemory`) and `CutsLoseLastOnly`
  (`CutLosesLastOnly`), from `RecordsInvariant`: the Bitcask file is the magic bytes
  and one record per operation, and the maps are what the operations give. A cut
  file is read as before up to the cut record; an operation that `recover` finds
  after that is on the empty key or on one whose bytes stand there (`EntryNames`,
  `StandsAt`), so every other key keeps what it had.

**`LoopProofs`** has the lemmas they share. The code's loops are recursive functions
(`Loops`), and the prover can use no induction theorem whose parameter is an
operator; the lemmas take sets and functions in its place and argue from the least
position at which a claim would fail. They give the existence of a loop's values,
properties that hold in every round, and where `AppendAll` puts each piece.

Only model-checked:
- liveness (`ExpiredValueRemoved`, `CallReturns`, `EventuallyOnDisk`,
  `ShutdownFromListening`), since fairness and `ENABLED` are out of the prover's
  reach;
- `GetIsMapGet`, `ScansAreSorted` (trees), `MarshalledIsRead`, `CutKeepsStep`
  (RESP): their operators are `RECURSIVE`, which the prover does not handle.

## Not modelled

- Telemetry, the health endpoint, logging and the generated gRPC code: counters,
  fixed answers and output. `KeyCount`, which a gauge shows, is in `TTLStore`.
- Of the handlers, the replies, among them `TTL`'s conversion to seconds, and the
  ones that only read. `DEL` leaves hashes alone, and is modelled so.
- Loss of power for AOF, RDB and Bitcask, an AOF file that ends inside a command,
  and writes that fail for want of space.
- Texts with a carriage return in the AOF: behind a padded text the reader goes on
  after the next line end, and such a text would have one too early.
- A WAL that is the secondary of a dual backend, after a restart, and the two
  backends of one kind that a dual backend may have.
- Keys with a zero byte in the radix tree, a store that is merged into itself,
  a Bitcask file with records behind a cut one.
- `Save` of the configuration, YAML, JSON, TLS: libraries, or output only.
- What `SetMemoryLimit` does with a limit that `parseBytes` has let overflow.
- The races inside `SetWithTTL`, `Expire` and `Get` (deadlines without data, data
  without a deadline, expired data served) are in `TTLStore`; no property is
  stated of them, as the repository says nothing.
