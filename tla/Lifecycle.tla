----------------------------- MODULE Lifecycle -----------------------------
(***************************************************************************)
(* One process of the server from main to its end, and the next one on the *)
(* same files: configuration, replay, commands that are logged and then    *)
(* handled, snapshots, shutdown, kill.  The log file of AOF is the sequence *)
(* of its commands, the file of RDB a sequence of counts and strings, each *)
(* put there by a write of its own.  A kill keeps what was written; loss of *)
(* power is left out.  WAL and the file of Bitcask have modules of their   *)
(* own: here Bitcask is a store that keeps its contents.                   *)
(***************************************************************************)
EXTENDS Config, Loops, FiniteSets

CONSTANTS
  Ended, Torn, Yamls, Envs, Commands, Keys, Fields, Clients, MaxCalls, MaxRestarts,
  Texts,    \* the keys, fields and values that commands carry
  Padded    \* what a text may be read as when the reader's buffer ends inside it

VARIABLES
  phase,    \* how far main is
  cfg,      \* the configuration, until it is built
  persist,  \* the backends that p.Write writes to, in order
  db,       \* the store
  disk,     \* what the store's own file holds, or None if it has none
  aof,      \* the log file
  pos,      \* how many of its commands are before the offset of AOF's file
  mem,      \* RDB's strings and hashes
  file,     \* the snapshot file
  snap,     \* the snapshot being written, None, or Ended
  last,     \* the contents of mem that file holds, if it holds all of it
  pc,       \* 0 if a client has no command, i before p.Write reaches backend i
  call,
  calls, restarts

ASSUME LifecycleAssumption ==
  /\ None \notin Texts \cup {""}
  /\ None \notin [strings : [Keys -> Texts \cup {"", None}], hashes : [Keys -> [Fields -> Texts \cup {"", None}]]]
  /\ Padded \in [Texts -> SUBSET Texts]
  /\ \A k \in Keys \cap Texts : Padded[k] \subseteq Keys
  /\ \A f \in Fields \cap Texts : Padded[f] \subseteq Fields
  /\ Commands \subseteq [name : {"SET", "HSET", "DEL"}, args : Seq(Texts)]
  /\ \A cmd \in Commands : \A i \in DOMAIN cmd.args :
       /\ i = 1 \/ cmd.name = "DEL" => cmd.args[i] \in Keys
       /\ i = 2 /\ cmd.name = "HSET" => cmd.args[i] \in Fields
  /\ MaxCalls \in Nat /\ MaxRestarts \in Nat

(* There is one log and one snapshot file here. *)
ASSUME OneOfEachKind ==
  \A y \in Yamls, e \in Envs :
    LET backends == IF Load(y, e) = Error THEN <<>> ELSE Build(Load(y, e))
    IN  \A i, j \in DOMAIN backends : backends[i] = backends[j] /\ backends[i] \in {"aof", "rdb"} => i = j

vars == <<phase, cfg, persist, db, disk, aof, pos, mem, file, snap, last, pc, call, calls, restarts>>

Empty == [strings |-> [k \in Keys |-> None], hashes |-> [k \in Keys |-> [f \in Fields |-> None]]]

PutString(d, k, v) == [d EXCEPT !.strings[k] = v]

PutField(d, k, f, v) == [d EXCEPT !.hashes[k][f] = v]

(* Store.Del takes the string and the hash. *)
RemoveKey(d, k) == [strings |-> [d.strings EXCEPT ![k] = None], hashes |-> [d.hashes EXCEPT ![k] = Empty.hashes[k]]]

(* The handlers that write.  set takes two arguments or more, hset exactly *)
(* three, and del removes only keys for which Get finds a string.          *)
HandleSet(d, a) == IF Len(a) >= 2 THEN PutString(d, a[1], a[2]) ELSE d

HandleHSet(d, a) == IF Len(a) = 3 THEN PutField(d, a[1], a[2], a[3]) ELSE d

DelString(d, k) == IF d.strings[k] = None THEN d ELSE RemoveKey(d, k)

HandleDel(d, a) ==
  LET upto[n \in 0 .. Len(a)] == IF n = 0 THEN d ELSE DelString(upto[n - 1], a[n])
  IN  upto[Len(a)]

Handle(d, cmd) ==
  CASE cmd.name = "SET" -> HandleSet(d, cmd.args)
    [] cmd.name = "HSET" -> HandleHSet(d, cmd.args)
    [] cmd.name = "DEL" -> HandleDel(d, cmd.args)

(* What main does with a command of the log. *)
ReplayCommand(d, cmd) ==
  LET a == cmd.args
  IN  CASE cmd.name = "SET" /\ Len(a) >= 2 -> PutString(d, a[1], a[2])
        [] cmd.name = "HSET" /\ Len(a) >= 3 -> PutField(d, a[1], a[2], a[3])
        [] OTHER -> d

(* What replaying cmds makes of d. *)
Restored(d, cmds) ==
  LET upto[n \in 0 .. Len(cmds)] == IF n = 0 THEN d ELSE ReplayCommand(upto[n - 1], cmds[n])
  IN  upto[Len(cmds)]

(* Mutant: hashes are not logged. *)
OnWriteStrings(cmd) == cmd.name = "SET"

OnWrite(cmd) == cmd.name \in {"SET", "HSET"}

(* What can be left of the commands after the offset when one is written   *)
(* over them: the last one that it reaches may be overwritten in part.     *)
Remains(rest) ==
  LET whole == {SubSeq(rest, n + 1, Len(rest)) : n \in 1 .. Len(rest)}
  IN  IF rest = <<>> THEN {<<>>} ELSE whole \cup {<<Torn>> \o t : t \in whole}

(* AOF writes at its offset.  The write fails once the file is closed, and *)
(* nobody looks at the error.                                              *)
AOFWrite(cmd) ==
  IF phase = "up"
  THEN /\ \E rest \in Remains(SubSeq(aof, pos + 1, Len(aof))) : aof' = Append(SubSeq(aof, 1, pos), cmd) \o rest
       /\ pos' = pos + 1
  ELSE UNCHANGED <<aof, pos>>

(* What AOF's Replay may read a command as.  It reads through a buffer, and *)
(* readBulk takes a text that is not all in the buffer for as much of it as *)
(* is there, filled up with zeros, and goes on after it.  main does not    *)
(* know a command whose name that happens to.                              *)
Readings ==
  [cmd \in Commands |->
     {r \in [name : {cmd.name, "OTHER"}, args : [DOMAIN cmd.args -> Texts]] :
        \A i \in DOMAIN cmd.args : r.args[i] \in {cmd.args[i]} \cup Padded[cmd.args[i]]}]

(* The lists of commands that Replay may pass on. *)
AOFReplay(log) ==
  {cmds \in [DOMAIN log -> UNION Range(Readings)] : \A i \in DOMAIN log : cmds[i] \in Readings[log[i]]}

(* Mutant: Replay goes back to the beginning. *)
SeekStart(log) == 0

(* Where Replay leaves the offset. *)
SeekEnd(log) == Len(log)

(* Mutant: a hash is noted with its first field only. *)
RDBWriteFirst(m, cmd) ==
  LET a == cmd.args
  IN  CASE cmd.name = "SET" /\ Len(a) >= 2 -> PutString(m, a[1], a[2])
        [] cmd.name = "HSET" /\ Len(a) >= 3 /\ m.hashes[a[1]] = Empty.hashes[a[1]] -> PutField(m, a[1], a[2], a[3])
        [] OTHER -> m

RDBWrite(m, cmd) ==
  LET a == cmd.args
  IN  CASE cmd.name = "SET" /\ Len(a) >= 2 -> PutString(m, a[1], a[2])
        [] cmd.name = "HSET" /\ Len(a) >= 3 -> PutField(m, a[1], a[2], a[3])
        [] OTHER -> m

-----------------------------------------------------------------------------
(* The snapshot file. *)

Present(f) == {k \in DOMAIN f : f[k] # None}

HashKeys(d) == {k \in Keys : Present(d.hashes[k]) # {}}

Count(n) == [count |-> n]

Str(s) == [string |-> s]

(* The orders in which range may go through a map with these keys. *)
Orders(S) == Bijection(1 .. Cardinality(S), S)

(* The count of the entries of f, and the entries in the order of keys. *)
WriteEntries(f, keys) ==
  <<Count(Len(keys))>> \o AppendAll([i \in DOMAIN keys |-> <<Str(keys[i]), Str(f[keys[i]])>>])

WriteHash(h, k, fields) == <<Str(k)>> \o WriteEntries(h, fields)

(* A snapshot of m with its keys, and the fields of each hash, in these    *)
(* orders.                                                                 *)
SnapshotInOrder(m, strings, hashes, fields) ==
  <<Str("FLXCRDB"), Count(1)>> \o WriteEntries(m.strings, strings) \o <<Count(Len(hashes))>> \o
  AppendAll([i \in DOMAIN hashes |-> WriteHash(m.hashes[hashes[i]], hashes[i], fields[hashes[i]])])

FieldOrders(m) ==
  {g \in [Keys -> UNION {Orders(F) : F \in SUBSET Fields}] : \A k \in Keys : g[k] \in Orders(Present(m.hashes[k]))}

(* All that writeSnapshot may write for m: maps are in no fixed order. *)
WriteSnapshot(m) ==
  {SnapshotInOrder(m, strings, hashes, fields) :
     strings \in Orders(Present(m.strings)), hashes \in Orders(HashKeys(m)), fields \in FieldOrders(m)}

(* Mutant: the length of the last string is not counted. *)
ReadStringShort(f, i) == IF i < Len(f) THEN f[i].string ELSE ""

(* readString at i: past the end it gives the empty string. *)
ReadString(f, i) == IF i <= Len(f) THEN f[i].string ELSE ""

SetCommand(k, v) == [name |-> "SET", args |-> <<k, v>>]

HSetCommand(h, f, v) == [name |-> "HSET", args |-> <<h, f, v>>]

(* The commands of the hash that begins at i, unless its count is missing, *)
(* and where the next one begins.                                          *)
ReadHash(f, i) ==
  [j \in 1 .. IF i + 1 > Len(f) THEN 0 ELSE f[i + 1].count |->
     HSetCommand(ReadString(f, i), ReadString(f, i + 2 * j), ReadString(f, i + 2 * j + 1))]

NextHash(f, i) == IF i + 1 > Len(f) THEN i ELSE i + 2 + 2 * f[i + 1].count

ReadHashes(f, first, number) ==
  LET start[n \in 0 .. number] == IF n = 0 THEN first ELSE NextHash(f, start[n - 1])
  IN  AppendAll([n \in 1 .. number |-> ReadHash(f, start[n - 1])])

(* An entry of two empty strings is passed over. *)
ReadEntry(f, i) ==
  LET cmd == SetCommand(ReadString(f, i), ReadString(f, i + 1))
  IN  IF cmd = SetCommand("", "") THEN <<>> ELSE <<cmd>>

(* The commands that RDB's Replay gives. *)
RDBReplay(f) ==
  LET n == f[3].count
      entries == AppendAll([j \in 1 .. n |-> ReadEntry(f, 2 + 2 * j)])
      next == 4 + 2 * n
  IN  IF Len(f) < 3 THEN <<>>
      ELSE IF Len(f) < next THEN entries
      ELSE entries \o ReadHashes(f, next + 1, f[next].count)

-----------------------------------------------------------------------------
(* main *)

Init ==
  /\ phase = "start"
  /\ cfg \in [yaml : Yamls, env : Envs]
  /\ persist = <<>>
  /\ db = Empty /\ disk = None /\ aof = <<>> /\ pos = 0 /\ mem = Empty /\ file = <<>> /\ snap = None /\ last = None
  /\ pc = [c \in Clients |-> 0] /\ call = [c \in Clients |-> None]
  /\ calls = 0 /\ restarts = 0

Backends == Range(persist)

data == <<db, aof, pos, mem, file, snap, last, pc, call, calls, restarts>>

LoadConfig ==
  /\ phase = "start"
  /\ cfg' = Load(cfg.yaml, cfg.env)
  /\ phase' = IF cfg' = Error THEN "failed" ELSE "loaded"
  /\ UNCHANGED <<persist, disk, data>>

BuildAll ==
  /\ phase = "loaded"
  /\ persist' = Build(cfg)
  /\ phase' \in IF persist' = <<>> THEN {"failed"} ELSE IF MayPanic(cfg) THEN {"failed", "built"} ELSE {"built"}
  /\ disk' = IF cfg.store_type = "bitcask" THEN Empty ELSE None
  /\ UNCHANGED <<cfg, data>>

(* p.Replay: a dual backend replays its primary only, and RDB's Replay     *)
(* waits for a snapshot that is being written.  AOF's leaves the offset at *)
(* the end of the file.                                                    *)
Replay ==
  /\ phase = "built"
  /\ Head(persist) = "rdb" => snap = None
  /\ \E cmds \in CASE Head(persist) = "aof" -> AOFReplay(aof)
                   [] Head(persist) = "rdb" -> {RDBReplay(file)}
                   [] OTHER -> {<<>>} :
       db' = Restored(db, cmds)
  /\ disk' = IF disk = None THEN None ELSE db'
  /\ pos' = IF Head(persist) = "aof" THEN SeekEnd(aof) ELSE pos
  /\ phase' = "replayed"
  /\ UNCHANGED <<cfg, persist, aof, mem, file, snap, last, pc, call, calls, restarts>>

(* Listen follows; the configuration is not read again. *)
StartNetwork ==
  /\ phase = "replayed"
  /\ IF cfg = None \/ BuildNetwork(cfg) THEN phase' = "up" /\ cfg' = None
                                         ELSE phase' = "failed" /\ UNCHANGED cfg
  /\ UNCHANGED <<persist, disk, data>>

(* n.Close stops new connections; commands under way go on after p.Close. *)
Shutdown ==
  /\ phase = "up"
  /\ phase' = "closing"
  /\ UNCHANGED <<cfg, persist, disk, data>>

(* s.Close: a store with a file writes to it no longer. *)
CloseStore ==
  /\ phase = "closing"
  /\ phase' = "closed"
  /\ UNCHANGED <<cfg, persist, disk, data>>

Written(n) == IF snap \in {None, Ended} THEN file ELSE SubSeq(snap.tokens, 1, n)

Alive == phase \in {"built", "replayed", "up", "closing", "closed"}

(* The process ends, by a kill or because main returns: neither waits for  *)
(* the snapshot loop.  The next one begins with what a store with a file   *)
(* has kept, and without anything in the others.                           *)
Stop ==
  /\ Alive
  /\ phase' = "down"
  /\ \E n \in 0 .. (IF snap \in {None, Ended} THEN 0 ELSE Len(snap.tokens)) : file' = Written(n)
  /\ snap' = None
  /\ db' = IF disk = None THEN Empty ELSE disk
  /\ mem' = Empty
  /\ pc' = [c \in Clients |-> 0] /\ call' = [c \in Clients |-> None]
  /\ UNCHANGED <<cfg, persist, disk, aof, pos, last, calls, restarts>>

(* Load and Build as before.  NewAOF opens the file at its beginning. *)
Restart ==
  /\ phase = "down"
  /\ restarts < MaxRestarts
  /\ restarts' = restarts + 1
  /\ phase' = "built"
  /\ pos' = 0
  /\ UNCHANGED <<cfg, persist, db, disk, aof, mem, file, snap, last, pc, call, calls>>

-----------------------------------------------------------------------------
(* Commands: onWrite, then the handler *)

Closing == phase \in {"closing", "closed"}

Running == phase \in {"up", "closing", "closed"}

Call(c) ==
  /\ Running /\ pc[c] = 0
  /\ calls < MaxCalls
  /\ calls' = calls + 1
  /\ \E cmd \in Commands :
       /\ call' = [call EXCEPT ![c] = cmd]
       /\ pc' = [pc EXCEPT ![c] = IF OnWrite(cmd) THEN 1 ELSE Len(persist) + 1]
  /\ UNCHANGED <<phase, cfg, persist, db, disk, aof, pos, mem, file, snap, last, restarts>>

(* One backend of p.Write; RDB's Write waits for a snapshot. *)
WriteBackend(c) ==
  /\ Running /\ pc[c] \in 1 .. Len(persist)
  /\ LET b == persist[pc[c]]
     IN  /\ b = "rdb" => snap \in {None, Ended}
         /\ IF b = "aof" THEN AOFWrite(call[c]) ELSE UNCHANGED <<aof, pos>>
         /\ mem' = IF b = "rdb" THEN RDBWrite(mem, call[c]) ELSE mem
  /\ pc' = [pc EXCEPT ![c] = @ + 1]
  /\ UNCHANGED <<phase, cfg, persist, db, disk, file, snap, last, call, calls, restarts>>

(* Bitcask writes each change to its file, under the lock of its maps. *)
StoreWrites == disk' = IF disk = None \/ phase = "closed" THEN disk ELSE db'

HandleCall(c) ==
  /\ Running /\ pc[c] = Len(persist) + 1
  /\ db' = Handle(db, call[c])
  /\ StoreWrites
  /\ pc' = [pc EXCEPT ![c] = 0]
  /\ call' = [call EXCEPT ![c] = None]
  /\ UNCHANGED <<phase, cfg, persist, aof, pos, mem, file, snap, last, calls, restarts>>

(* Expiry and eviction, which are TTLStore's. *)
Drop(k) ==
  /\ Running
  /\ db' = RemoveKey(db, k)
  /\ db' # db
  /\ StoreWrites
  /\ UNCHANGED <<phase, cfg, persist, aof, pos, mem, file, snap, last, pc, call, calls, restarts>>

-----------------------------------------------------------------------------
(* RDB's snapshot loop, from NewRDB on *)

(* os.Create truncates the file.  After Close the loop takes one snapshot  *)
(* and ends, unless the select takes a tick before.                        *)
BeginSnapshot ==
  /\ Alive
  /\ "rdb" \in Backends /\ snap = None
  /\ \E tokens \in WriteSnapshot(mem), final \in {FALSE, Closing} :
       snap' = [tokens |-> tokens, final |-> final]
  /\ file' = <<>> /\ last' = None
  /\ UNCHANGED <<phase, cfg, persist, db, disk, aof, pos, mem, pc, call, calls, restarts>>

EndSnapshot ==
  /\ snap \notin {None, Ended}
  /\ file' = Written(Len(snap.tokens))
  /\ last' = mem
  /\ snap' = IF snap.final THEN Ended ELSE None
  /\ UNCHANGED <<phase, cfg, persist, db, disk, aof, pos, mem, pc, call, calls, restarts>>

Next ==
  \/ LoadConfig \/ BuildAll \/ Replay \/ StartNetwork \/ Shutdown \/ CloseStore \/ Stop \/ Restart
  \/ BeginSnapshot \/ EndSnapshot
  \/ \E c \in Clients : Call(c) \/ WriteBackend(c) \/ HandleCall(c)
  \/ \E k \in Keys : Drop(k)

Spec == Init /\ [][Next]_vars

-----------------------------------------------------------------------------
(* What can keep a configuration that Load has accepted from starting:     *)
(* a file that cannot be opened, an interval, of which Validate knows      *)
(* nothing, and a dual backend inside a dual backend.                      *)
Excuse(f) ==
  \/ f.store_type = "bitcask" /\ f.store_file \in Unopenable
  \/ \E s \in Range(Sections(f)) :
       \/ s.type \in {"aof", "wal"} /\ s.file \in Unopenable
       \/ s.type = "rdb" /\ s.interval \notin Positive \cup {""}
       \/ s.type = "dual"

(* "Validate checks all configuration fields" (config.go): once Load has   *)
(* accepted the file and the environment, Build and BuildNetwork refuse    *)
(* the result for no other reason than an Excuse, whatever the environment *)
(* has overridden, and the memory limit that main sets can be read.        *)
NoLateFailure ==
  cfg \notin {None, Error} /\ phase # "start" =>
    /\ phase = "failed" => Excuse(cfg)
    /\ cfg.max_memory # <<>> => ParseBytes(cfg.max_memory) # <<>>

(* Every entry of d, a store or RDB's maps, is what one of cmds gives it. *)
GivenBy(d, cmds) ==
  LET given == {ReplayCommand(Empty, cmd) : cmd \in cmds}
  IN  /\ \A k \in Present(d.strings) : \E r \in given : r.strings[k] = d.strings[k]
      /\ \A k \in Keys : \A f \in Present(d.hashes[k]) : \E r \in given : r.hashes[k][f] = d.hashes[k][f]

(* main's onWrite runs before the handler and AOF keeps every command, so  *)
(* with AOF as the backend that is replayed, and a store without a file of *)
(* its own, every string and field a client can read is in the log: across *)
(* restarts, with calls of several clients in any order and with commands  *)
(* that are logged and then refused by their handler.  It is there with the *)
(* value it has now, or for what Replay has put there, as one that Replay  *)
(* may read it as.  (It need not be the last value in the log, and the log *)
(* also has keys that are deleted or expired.)                             *)
LiveIsLogged ==
  phase = "up" /\ Head(persist) = "aof" /\ disk = None =>
    GivenBy(db, UNION {Readings[aof[i]] : i \in DOMAIN aof})

(* AOF's file is not opened for appending, and only Replay moves its offset *)
(* to the end.  A log that is replayed is only ever appended to, whatever  *)
(* processes come after one another.  (As the secondary of a dual backend  *)
(* the log is overwritten from its beginning after a restart.)             *)
LogIsKept == [][Backends # {} /\ Head(persist) = "aof" => aof = SubSeq(aof', 1, Len(aof))]_vars

(* Dual writes to one backend after the other without a lock.  Between     *)
(* calls RDB still has no entry that is not in the part of the log before  *)
(* the offset of AOF, and unless AOF has begun with a log of earlier       *)
(* processes, exactly the keys and fields of that part; the values may     *)
(* differ, since two calls may reach the backends in different orders.     *)
BackendsAgree ==
  phase = "up" /\ Backends = {"aof", "rdb"} /\ (\A c \in Clients : pc[c] = 0) =>
    /\ GivenBy(mem, {aof[i] : i \in 1 .. pos})
    /\ restarts = 0 \/ Head(persist) = "rdb" =>
         LET log == Restored(Empty, SubSeq(aof, 1, pos))
         IN  /\ Present(mem.strings) = Present(log.strings)
             /\ \A k \in Keys : Present(mem.hashes[k]) = Present(log.hashes[k])

(* What Replay can give back of m. *)
Readable(m) == IF "" \in Keys /\ m.strings[""] = "" THEN PutString(m, "", None) ELSE m

(* RDB: a snapshot that was finished replays to what Write had noted when  *)
(* it was taken, but for an empty key with an empty string, and one that a *)
(* kill has cut off at any write to parts of it and empty strings, never   *)
(* to the value of another key.                                            *)
SnapshotIsRead ==
  /\ last # None => Restored(Empty, RDBReplay(file)) = Readable(last)
  /\ snap \notin {None, Ended} =>
       \A n \in 0 .. Len(snap.tokens) :
         LET r == Restored(Empty, RDBReplay(Written(n)))
         IN  /\ \A k \in Present(r.strings) : r.strings[k] \in {mem.strings[k], ""} /\ mem.strings[k] # None
             /\ \A k \in Keys : \A f \in Present(r.hashes[k]) : r.hashes[k][f] \in {mem.hashes[k][f], ""}
=============================================================================
