-------------------------- MODULE LifecycleProofs --------------------------
(***************************************************************************)
(* Proofs about Lifecycle, for any configurations, environments, keys,     *)
(* commands and clients, and any number of calls and restarts: a start     *)
(* that Load has accepted does not fail later, and the files have the data *)
(* that is served (the log of AOF, and RDB's maps beside it).              *)
(***************************************************************************)
EXTENDS Lifecycle, LoopProofs

-----------------------------------------------------------------------------
(* A configuration that Load has accepted.                                 *)

(* What the builders rely on of Validate. *)
LEMMA ValidParts ==
  ASSUME NEW f, Validate(f)
  PROVE  /\ f.network \in ValidNetworks /\ f.eviction_policy \in ValidEvictions
         /\ f.network = "tls" => f.cert_file # "" /\ f.key_file # ""
         /\ f.network = "unix" => f.socket_path # ""
         /\ f.persistence_type = "dual" => f.primary # None /\ f.secondary # None
         /\ f.max_memory # <<>> => ParseBytes(f.max_memory) # <<>>
BY Zenon DEF Validate

(* A backend is refused only over its file, its interval or its nesting. *)
LEMMA BackendError ==
  ASSUME NEW s, BuildBackend(s) = Error
  PROVE  \/ s.type \in {"aof", "wal"} /\ s.file \in Unopenable
         \/ s.type = "rdb" /\ s.interval \notin Durations \cup {""}
         \/ s.type = "dual"
BY Zenon, ConfigAssumption DEF BuildBackend, ValidPersistence

(* Build refuses a configuration that Validate accepts only with an Excuse, *)
(* and RDB's loop panics only with one.                                    *)
LEMMA BuildExcuse ==
  ASSUME NEW f, Validate(f), Build(f) = <<>> \/ MayPanic(f)
  PROVE  Excuse(f)
<1>1. CASE ~BuildStore(f)
  BY Zenon, <1>1 DEF BuildStore, Excuse
<1>2. CASE BuildPersistence(f) = <<>>
  <2> DEFINE sections == Sections(f)
             parts == [i \in DOMAIN sections |-> BuildBackend(sections[i])]
  <2>1. sections # <<>> /\ DOMAIN sections # {}
    BY DEF Sections
  <2>2. parts # <<>>
    <3> HIDE DEF sections
    <3>1. DOMAIN parts # DOMAIN <<>>
      BY <2>1
    <3> QED BY Zenon, <3>1
  <2>3. Error \in Range(parts)
    BY Zenon, <1>2, <2>2 DEF BuildPersistence
  <2>4. PICK i \in DOMAIN sections : BuildBackend(sections[i]) = Error
    <3> HIDE DEF sections
    <3> QED BY Zenon, <2>3 DEF Range
  <2>5. sections[i] \in Range(sections)
    BY Zenon DEF Range
  <2>6. Durations \cup {""} \subseteq Durations \cup {""} /\ Positive \subseteq Durations
    BY Zenon, ConfigAssumption
  <2> QED BY Zenon, <2>4, <2>5, <2>6, BackendError DEF Excuse
<1>3. BuildEvictionPolicy(f)
  BY Zenon, ValidParts DEF BuildEvictionPolicy
<1>4. CASE MayPanic(f)
  BY Zenon, <1>4, ConfigAssumption DEF MayPanic, Excuse
<1> QED BY Zenon, <1>1, <1>2, <1>3, <1>4 DEF Build

(* BuildNetwork accepts what Validate accepts. *)
LEMMA NetworkBuilt ==
  ASSUME NEW f, Validate(f)
  PROVE  BuildNetwork(f)
BY Zenon, ValidParts DEF ValidNetworks, BuildNetwork

(* What main holds is valid from Load on, until it is not needed any more. *)
ConfigInv ==
  /\ phase \notin {"start", "failed"} => cfg = None \/ Validate(cfg)
  /\ phase = "failed" => cfg \in {None, Error} \/ (Validate(cfg) /\ Excuse(cfg))

(* ConfigInv is inductive. *)
LEMMA ConfigStep == ConfigInv /\ [Next]_vars => ConfigInv'
<1> SUFFICES ASSUME ConfigInv, [Next]_vars PROVE ConfigInv'
  OBVIOUS
<1>1. CASE LoadConfig
  <2>1. cfg' = Error \/ Validate(cfg')
    BY Zenon, <1>1 DEF LoadConfig, Load
  <2> QED BY Zenon, <1>1, <2>1 DEF LoadConfig, ConfigInv
<1>2. CASE BuildAll
  <2>1. phase' = "failed" => persist' = <<>> \/ MayPanic(cfg)
    BY Zenon, <1>2 DEF BuildAll
  <2>2. phase = "loaded" /\ phase' \in {"failed", "built"} /\ persist' = Build(cfg) /\ cfg' = cfg
    BY Zenon, <1>2 DEF BuildAll
  <2>3. cfg = None \/ Validate(cfg)
    BY Zenon, <2>2 DEF ConfigInv
  <2> QED BY Zenon, <2>1, <2>2, <2>3, BuildExcuse DEF ConfigInv
<1>3. CASE StartNetwork
  BY Zenon, <1>3, NetworkBuilt DEF StartNetwork, ConfigInv
<1>4. CASE Replay \/ Shutdown \/ CloseStore \/ Stop \/ Restart
  BY Zenon, <1>4 DEF Replay, Shutdown, CloseStore, Stop, Alive, Restart, ConfigInv
<1>5. CASE UNCHANGED <<phase, cfg>>
  BY Zenon, <1>5 DEF ConfigInv
<1> QED BY Zenon, <1>1, <1>2, <1>3, <1>4, <1>5
    DEF Next, vars, BeginSnapshot, EndSnapshot, Call, WriteBackend, HandleCall, Drop

(* Once Load has accepted the file and the environment, only an Excuse can *)
(* keep the server from starting, and the memory limit can be read.        *)
THEOREM ValidatedStarts == Spec => []NoLateFailure
<1>1. Init => ConfigInv
  BY Zenon DEF Init, ConfigInv
<1>2. ConfigInv => NoLateFailure
  BY Zenon, ValidParts DEF ConfigInv, NoLateFailure
<1> QED BY <1>1, <1>2, ConfigStep, PTL DEF Spec

-----------------------------------------------------------------------------
(* What the commands of a log give.                                        *)

(* The values that are stored; a snapshot that was cut off gives "". *)
Values == Texts \cup {""}

Slot == Values \cup {None}

Stored == [strings : [Keys -> Slot], hashes : [Keys -> [Fields -> Slot]]]

(* A place where a store has a value: a string, or a field of a hash. *)
Cells == ({"string"} \X Keys \X {None}) \cup ({"field"} \X Keys \X Fields)

Cell(d, x) == IF x[1] = "string" THEN d.strings[x[2]] ELSE d.hashes[x[2]][x[3]]

(* The commands that a log may give, or a snapshot. *)
Writes ==
  {cmd \in [name : {"SET", "HSET", "DEL", "OTHER"}, args : Seq(Texts \cup Keys \cup Fields \cup {""})] :
     LET a == cmd.args
     IN  /\ cmd.name = "SET" /\ Len(a) >= 2 => a[1] \in Keys /\ a[2] \in Values
         /\ cmd.name = "HSET" /\ Len(a) >= 3 => a[1] \in Keys /\ a[3] \in Values}

(* What one command gives to the store that replays it. *)
Given(cmd) == ReplayCommand(Empty, cmd)

(* What is known of the arguments of the commands. *)
LEMMA Arguments ==
  ASSUME NEW cmd \in Commands
  PROVE  /\ cmd.name \in {"SET", "HSET", "DEL"} /\ cmd.args \in Seq(Texts) /\ Len(cmd.args) \in Nat
         /\ cmd.name = "SET" /\ Len(cmd.args) >= 2 => cmd.args[1] \in Keys /\ cmd.args[2] \in Texts
         /\ cmd.name = "HSET" /\ Len(cmd.args) >= 3 =>
              cmd.args[1] \in Keys /\ cmd.args[2] \in Fields /\ cmd.args[3] \in Texts
         /\ cmd.name = "DEL" => \A i \in 1 .. Len(cmd.args) : cmd.args[i] \in Keys
<1>1. cmd.name \in {"SET", "HSET", "DEL"} /\ cmd.args \in Seq(Texts)
  BY Zenon, LifecycleAssumption
<1>2. /\ Len(cmd.args) \in Nat /\ DOMAIN cmd.args = 1 .. Len(cmd.args)
      /\ \A i \in 1 .. Len(cmd.args) : cmd.args[i] \in Texts
  BY <1>1
<1>3. \A i \in 1 .. Len(cmd.args) :
        /\ i = 1 \/ cmd.name = "DEL" => cmd.args[i] \in Keys
        /\ i = 2 /\ cmd.name = "HSET" => cmd.args[i] \in Fields
  BY Zenon, <1>2, LifecycleAssumption
<1> QED BY SMTT(30), <1>1, <1>2, <1>3

(* So a log of them can be replayed. *)
LEMMA LoggedWrites == Commands \subseteq Writes /\ Seq(Commands) \subseteq Seq(Writes)
<1>1. ASSUME NEW cmd \in Commands PROVE cmd \in Writes
  <2>1. cmd \in [name : {"SET", "HSET", "DEL"}, args : Seq(Texts)]
    BY Zenon, LifecycleAssumption
  <2>2. cmd \in [name : {"SET", "HSET", "DEL", "OTHER"}, args : Seq(Texts \cup Keys \cup Fields \cup {""})]
    <3> DEFINE S == Texts \cup Keys \cup Fields \cup {""}
    <3>1. Texts \subseteq S /\ cmd.args \in Seq(Texts)
      BY Zenon, <2>1
    <3> HIDE DEF S
    <3>2. cmd.args \in Seq(S)
      BY Zenon, <3>1, SeqMonotonic
    <3> QED BY Zenon, <2>1, <3>2 DEF S
  <2> QED BY Zenon, <2>2, Arguments DEF Writes, Values
<1>2. ASSUME NEW cmds \in Seq(Commands) PROVE cmds \in Seq(Writes)
  <2> HIDE DEF Writes
  <2> QED BY <1>1
<1> QED BY Zenon, <1>1, <1>2

(* What Replay may read a command as can be replayed too, and one reading  *)
(* is the command as it was written.                                       *)
LEMMA ReadingWrites ==
  ASSUME NEW cmd \in Commands
  PROVE  Readings[cmd] \subseteq Writes /\ cmd \in Readings[cmd]
<1> DEFINE a == cmd.args
           n == Len(a)
<1>1. /\ cmd \in [name : {"SET", "HSET", "DEL"}, args : Seq(Texts)] /\ a \in Seq(Texts)
      /\ n \in Nat /\ DOMAIN a = 1 .. n /\ a \in [1 .. n -> Texts]
  <2>1. cmd \in [name : {"SET", "HSET", "DEL"}, args : Seq(Texts)]
    BY Zenon, LifecycleAssumption
  <2> QED BY <2>1
<1>2. Readings[cmd] = {r \in [name : {cmd.name, "OTHER"}, args : [1 .. n -> Texts]] :
                         \A i \in 1 .. n : r.args[i] \in {a[i]} \cup Padded[a[i]]}
  BY Zenon, <1>1 DEF Readings
<1>3. cmd \in Readings[cmd]
  BY Zenon, <1>1, <1>2
<1>4. ASSUME NEW r \in Readings[cmd] PROVE r \in Writes
  <2> DEFINE b == r.args
             S == Texts \cup Keys \cup Fields \cup {""}
  <2>1. /\ r \in [name : {cmd.name, "OTHER"}, args : [1 .. n -> Texts]]
        /\ \A i \in 1 .. n : b[i] \in {a[i]} \cup Padded[a[i]]
    BY Zenon, <1>2
  <2>2. b \in Seq(Texts) /\ Len(b) = n
    BY SMTT(30), <1>1, <2>1
  <2>3. b \in Seq(S)
    <3>1. Texts \subseteq S
      OBVIOUS
    <3> HIDE DEF S
    <3> QED BY Zenon, <2>2, <3>1, SeqMonotonic
  <2>4. r \in [name : {"SET", "HSET", "DEL", "OTHER"}, args : Seq(S)]
    BY Zenon, <1>1, <2>1, <2>3
  <2>5. \A i \in 1 .. n : b[i] \in Texts
    BY Zenon, <2>1
  <2>6. 1 \in 1 .. n /\ a[1] \in Keys => b[1] \in Keys
    BY Zenon, <1>1, <2>1, LifecycleAssumption
  <2>7. r.name \in {cmd.name, "OTHER"}
    BY Zenon, <2>1
  <2> HIDE DEF b, a
  <2>8. r.name = "SET" /\ n >= 2 => b[1] \in Keys /\ b[2] \in Texts
    <3>1. r.name = "SET" /\ n >= 2 => a[1] \in Keys
      BY Zenon, <2>7, Arguments DEF a
    <3> QED BY <1>1, <2>5, <2>6, <3>1
  <2>9. r.name = "HSET" /\ n >= 3 => b[1] \in Keys /\ b[3] \in Texts
    <3>1. r.name = "HSET" /\ n >= 3 => a[1] \in Keys
      BY Zenon, <2>7, Arguments DEF a
    <3> QED BY <1>1, <2>5, <2>6, <3>1
  <2> QED BY Zenon, <2>2, <2>4, <2>8, <2>9 DEF Writes, Values, b
<1> QED BY Zenon, <1>3, <1>4

(* What Replay passes on of a log are readings of its commands, in order. *)
LEMMA ReplayReads ==
  ASSUME NEW log \in Seq(Commands), NEW cmds \in AOFReplay(log)
  PROVE  /\ cmds \in Seq(Writes) /\ Len(cmds) = Len(log)
         /\ \A i \in 1 .. Len(log) : log[i] \in Commands /\ cmds[i] \in Readings[log[i]]
<1>1. Len(log) \in Nat /\ DOMAIN log = 1 .. Len(log) /\ \A i \in 1 .. Len(log) : log[i] \in Commands
  OBVIOUS
<1>2. DOMAIN cmds = DOMAIN log /\ (\A i \in DOMAIN log : cmds[i] \in Readings[log[i]])
      /\ cmds = [i \in DOMAIN log |-> cmds[i]]
  BY Zenon DEF AOFReplay
<1>3. \A i \in 1 .. Len(log) : cmds[i] \in Writes
  BY Zenon, <1>1, <1>2, ReadingWrites
<1>4. cmds \in [1 .. Len(log) -> Writes]
  BY Zenon, <1>1, <1>2, <1>3
<1>5. cmds \in Seq(Writes) /\ Len(cmds) = Len(log)
  <2> HIDE DEF Writes
  <2> QED BY <1>1, <1>4
<1> QED BY Zenon, <1>1, <1>2, <1>5

(* The empty store has nothing in any cell. *)
LEMMA EmptyCells == Empty \in Stored /\ \A x \in Cells : Cell(Empty, x) = None
BY Zenon DEF Empty, Stored, Slot, Cells, Cell

(* Cells of a store hold texts or nothing. *)
LEMMA CellType ==
  ASSUME NEW d \in Stored, NEW x \in Cells
  PROVE  Cell(d, x) \in Slot
BY SMTT(30) DEF Stored, Cells, Cell

(* Set and HSet change one cell. *)
LEMMA PutCells ==
  ASSUME NEW d \in Stored, NEW k \in Keys, NEW v \in Values
  PROVE  /\ PutString(d, k, v) \in Stored
         /\ \A x \in Cells : Cell(PutString(d, k, v), x) =
              IF x = <<"string", k, None>> THEN v ELSE Cell(d, x)
         /\ \A f :
              /\ PutField(d, k, f, v) \in Stored
              /\ \A x \in Cells : Cell(PutField(d, k, f, v), x) =
                   IF x = <<"field", k, f>> THEN v ELSE Cell(d, x)
<1>1. PutString(d, k, v) \in Stored
  BY Zenon DEF PutString, Stored, Slot
<1>2. \A x \in Cells : Cell(PutString(d, k, v), x) = IF x = <<"string", k, None>> THEN v ELSE Cell(d, x)
  BY DEF PutString, Stored, Cells, Cell
<1>3. ASSUME NEW f
      PROVE  /\ PutField(d, k, f, v) \in Stored
             /\ \A x \in Cells : Cell(PutField(d, k, f, v), x) =
                  IF x = <<"field", k, f>> THEN v ELSE Cell(d, x)
  <2> DEFINE e == PutField(d, k, f, v)
  <2> DEFINE h == [d.hashes EXCEPT ![k] = [d.hashes[k] EXCEPT ![f] = v]]
  <2>1. d.hashes \in [Keys -> [Fields -> Slot]] /\ v \in Slot
    BY Zenon DEF Stored, Slot
  <2>2. /\ h \in [Keys -> [Fields -> Slot]]
        /\ \A j \in Keys, g \in Fields : h[j][g] = IF j = k /\ g = f THEN v ELSE d.hashes[j][g]
    BY Zenon, <2>1
  <2>3. e = [d EXCEPT !.hashes = h]
    BY Zenon DEF PutField
  <2> HIDE DEF e, h
  <2>4. e \in Stored /\ e.strings = d.strings /\ e.hashes = h
    BY Zenon, <2>2, <2>3 DEF Stored
  <2> HIDE DEF e
  <2>5. ASSUME NEW x \in Cells PROVE Cell(e, x) = IF x = <<"field", k, f>> THEN v ELSE Cell(d, x)
    BY <2>2, <2>4 DEF Cells, Cell
  <2> QED BY Zenon, <2>4, <2>5 DEF e
<1> QED BY Zenon, <1>1, <1>2, <1>3

(* A command of the log writes its own cell and leaves the others. *)
LEMMA Overlay ==
  ASSUME NEW d \in Stored, NEW cmd \in Writes
  PROVE  /\ ReplayCommand(d, cmd) \in Stored /\ Given(cmd) \in Stored
         /\ \A x \in Cells : Cell(ReplayCommand(d, cmd), x) =
              IF Cell(Given(cmd), x) = None THEN Cell(d, x) ELSE Cell(Given(cmd), x)
<1> DEFINE a == cmd.args
<1>t. None \notin Values
  BY Zenon, LifecycleAssumption DEF Values
<1>1. CASE cmd.name = "SET" /\ Len(a) >= 2
  <2>1. a[1] \in Keys /\ a[2] \in Values
    BY Zenon, <1>1 DEF Writes
  <2>2. \A e : ReplayCommand(e, cmd) = PutString(e, a[1], a[2])
    BY Zenon, <1>1 DEF ReplayCommand
  <2> HIDE DEF a
  <2> QED BY <1>t, <2>1, <2>2, PutCells, EmptyCells DEF Given
<1>2. CASE cmd.name = "HSET" /\ Len(a) >= 3
  <2>1. a[1] \in Keys /\ a[3] \in Values
    BY Zenon, <1>2 DEF Writes
  <2>2. \A e : ReplayCommand(e, cmd) = PutField(e, a[1], a[2], a[3])
    BY Zenon, <1>2 DEF ReplayCommand
  <2> HIDE DEF a
  <2> QED BY <1>t, <2>1, <2>2, PutCells, EmptyCells DEF Given
<1>3. CASE ~(cmd.name = "SET" /\ Len(a) >= 2) /\ ~(cmd.name = "HSET" /\ Len(a) >= 3)
  <2>1. \A e : ReplayCommand(e, cmd) = e
    BY Zenon, <1>3 DEF ReplayCommand
  <2> QED BY <2>1, EmptyCells DEF Given
<1> QED BY Zenon, <1>1, <1>2, <1>3

(* RDB's Write notes what main's replay would restore. *)
LEMMA NotedIsReplayed ==
  ASSUME NEW d, NEW cmd
  PROVE  RDBWrite(d, cmd) = ReplayCommand(d, cmd)
BY Zenon DEF RDBWrite, ReplayCommand

(* Store.Del only empties cells. *)
LEMMA RemoveCells ==
  ASSUME NEW d \in Stored, NEW k \in Keys
  PROVE  /\ RemoveKey(d, k) \in Stored
         /\ \A x \in Cells : Cell(RemoveKey(d, k), x) \in {None, Cell(d, x)}
<1>1. RemoveKey(d, k) \in Stored
  BY Zenon DEF RemoveKey, Stored, Slot, Empty
<1>2. \A x \in Cells : Cell(RemoveKey(d, k), x) \in {None, Cell(d, x)}
  BY Zenon DEF RemoveKey, Stored, Cells, Cell, Empty
<1> QED BY Zenon, <1>1, <1>2

(* Replaying a log goes through the log's prefixes. *)
LEMMA RestoredLoop ==
  ASSUME NEW d \in Stored, NEW cmds \in Seq(Writes)
  PROVE  \E upto \in [0 .. Len(cmds) -> Stored] :
           /\ upto[0] = d
           /\ \A n \in 1 .. Len(cmds) : upto[n] = ReplayCommand(upto[n - 1], cmds[n])
           /\ Restored(d, cmds) = upto[Len(cmds)]
<1> DEFINE N == Len(cmds)
           Body(f) == [n \in 0 .. N |-> IF n = 0 THEN d ELSE ReplayCommand(f[n - 1], cmds[n])]
           upto == CHOOSE f : f = Body(f)
           step == [n \in 1 .. N |-> [e \in Stored |-> ReplayCommand(e, cmds[n])]]
<1>1. N \in Nat /\ \A n \in 1 .. N : cmds[n] \in Writes
  OBVIOUS
<1>2. Restored(d, cmds) = upto[N]
  BY Zenon DEF Restored
<1>3. \E f : f = Body(f)
  <2>1. \A n \in 1 .. N : step[n] \in [Stored -> Stored]
    BY Zenon, <1>1, Overlay
  <2>2. PICK f \in [0 .. N -> Stored] : IsLoop(f, d, N, step)
    <3>1. d \in Stored /\ N \in Nat /\ Rounds(step, N, Stored)
      BY Zenon, <1>1, <2>1 DEF Rounds
    <3> HIDE DEF step, N
    <3> QED BY ONLY Zenon, <3>1, LoopExists
  <2>3. ASSUME NEW n \in 1 .. N PROVE f[n] = ReplayCommand(f[n - 1], cmds[n])
    <3>1. f[n - 1] \in Stored
      BY SMTT(30), <1>1
    <3>2. f[n] = step[n][f[n - 1]]
      BY Zenon, <2>2 DEF IsLoop
    <3> QED BY ONLY Zenon, <3>1, <3>2, n \in 1 .. N
  <2>4. f = Body(f)
    BY <1>1, <2>2, <2>3 DEF IsLoop
  <2> QED BY Zenon, <2>4
<1>4. upto = Body(upto)
  <2> HIDE DEF Body
  <2> QED BY Zenon, <1>3
<1> HIDE DEF upto, N
<1>5. upto[0] = d /\ \A n \in 1 .. N : upto[n] = ReplayCommand(upto[n - 1], cmds[n])
  BY <1>1, <1>4
<1>6. \A n \in 0 .. N : upto[n] \in Stored
  <2> DEFINE T == {n \in 0 .. N : upto[n] \notin Stored}
  <2> SUFFICES ASSUME T # {} PROVE FALSE
    OBVIOUS
  <2>1. PICK m \in T : \A n \in T : ~(n < m)
    <3>1. T \in SUBSET Nat
      BY <1>1
    <3> HIDE DEF T
    <3> QED BY Zenon, <3>1, LeastElement
  <2>2. m \in 1 .. N
    BY <1>1, <1>5
  <2>3. upto[m - 1] \in Stored
    BY <1>1, <2>1, <2>2
  <2> QED BY Zenon, <1>1, <1>5, <2>1, <2>2, <2>3, Overlay
<1>7. upto \in [0 .. N -> Stored]
  BY Zenon, <1>4, <1>6
<1> QED BY Zenon, <1>2, <1>5, <1>7 DEF N

(* What a replay restores was there or is in the log with that value, and  *)
(* whatever the log gives is restored.                                     *)
LEMMA RestoredCells ==
  ASSUME NEW d \in Stored, NEW cmds \in Seq(Writes)
  PROVE  /\ Restored(d, cmds) \in Stored
         /\ \A x \in Cells :
              /\ \/ Cell(Restored(d, cmds), x) = Cell(d, x)
                 \/ \E i \in 1 .. Len(cmds) : Cell(Given(cmds[i]), x) = Cell(Restored(d, cmds), x)
              /\ \A i \in 1 .. Len(cmds) : Cell(Given(cmds[i]), x) # None => Cell(Restored(d, cmds), x) # None
<1> DEFINE N == Len(cmds)
<1>1. PICK upto \in [0 .. N -> Stored] :
        /\ upto[0] = d
        /\ \A n \in 1 .. N : upto[n] = ReplayCommand(upto[n - 1], cmds[n])
        /\ Restored(d, cmds) = upto[N]
  BY Zenon, RestoredLoop
<1>2. N \in Nat /\ \A n \in 1 .. N : cmds[n] \in Writes
  OBVIOUS
<1> HIDE DEF N
<1> SUFFICES ASSUME NEW x \in Cells
             PROVE  /\ \/ Cell(Restored(d, cmds), x) = Cell(d, x)
                       \/ \E i \in 1 .. N : Cell(Given(cmds[i]), x) = Cell(Restored(d, cmds), x)
                    /\ \A i \in 1 .. N : Cell(Given(cmds[i]), x) # None => Cell(Restored(d, cmds), x) # None
  BY <1>1, <1>2 DEF N
<1> DEFINE Good(n) ==
             /\ \/ Cell(upto[n], x) = Cell(d, x)
                \/ \E i \in 1 .. n : Cell(Given(cmds[i]), x) = Cell(upto[n], x)
             /\ \A i \in 1 .. n : Cell(Given(cmds[i]), x) # None => Cell(upto[n], x) # None
           T == {n \in 0 .. N : ~Good(n)}
<1>s. SUFFICES Good(N)
  <2>1. upto[N] = Restored(d, cmds)
    BY Zenon, <1>1
  <2> QED BY Zenon, <2>1
<1>3. SUFFICES ASSUME T # {} PROVE FALSE
  <2>1. N \in 0 .. N
    BY SMTT(30), <1>2
  <2> HIDE DEF Good
  <2> QED BY Zenon, <2>1
<1>4. PICK m \in T : \A n \in T : ~(n < m)
  <2>1. T \in SUBSET Nat
    BY <1>2
  <2> HIDE DEF T
  <2> QED BY Zenon, <1>3, <2>1, LeastElement
<1>5. m \in 0 .. N /\ ~Good(m)
  OBVIOUS
<1>6. m # 0
  BY SMTT(30), <1>1, <1>5
<1>7. m - 1 \in 0 .. N /\ m - 1 < m /\ m \in 1 .. N
  BY SMTT(30), <1>2, <1>5, <1>6
<1>8. Good(m - 1)
  <2> HIDE DEF Good
  <2> QED BY Zenon, <1>4, <1>7
<1>9. Cell(upto[m], x) = IF Cell(Given(cmds[m]), x) = None THEN Cell(upto[m - 1], x)
                                                          ELSE Cell(Given(cmds[m]), x)
  BY SMTT(30), <1>1, <1>2, <1>7, Overlay
<1>10. \A i \in 1 .. m : i = m \/ i \in 1 .. m - 1
  BY SMTT(30), <1>2, <1>7
<1>11. \A i \in 1 .. m - 1 : i \in 1 .. m
  BY SMTT(30), <1>2, <1>7
<1>12. m \in 1 .. m
  BY SMTT(30), <1>2, <1>7
<1>13. Good(m)
  <2>1. \/ Cell(upto[m], x) = Cell(d, x)
        \/ \E i \in 1 .. m : Cell(Given(cmds[i]), x) = Cell(upto[m], x)
    BY ONLY Zenon, <1>8, <1>9, <1>11, <1>12
  <2>2. ASSUME NEW i \in 1 .. m, Cell(Given(cmds[i]), x) # None PROVE Cell(upto[m], x) # None
    BY ONLY Zenon, <2>2, <1>8, <1>9, <1>10
  <2> QED BY ONLY Zenon, <2>1, <2>2
<1> QED BY Zenon, <1>5, <1>13

(* DEL goes through its arguments and only empties cells. *)
LEMMA DelCells ==
  ASSUME NEW d \in Stored, NEW a, Len(a) \in Nat, \A i \in 1 .. Len(a) : a[i] \in Keys
  PROVE  /\ HandleDel(d, a) \in Stored
         /\ \A x \in Cells : Cell(HandleDel(d, a), x) \in {None, Cell(d, x)}
<1> DEFINE N == Len(a)
           Good(e) == e \in Stored /\ \A x \in Cells : Cell(e, x) \in {None, Cell(d, x)}
           S == {e \in Stored : Good(e)}
           Body(f) == [n \in 0 .. N |-> IF n = 0 THEN d ELSE DelString(f[n - 1], a[n])]
           upto == CHOOSE f : f = Body(f)
           step == [n \in 1 .. N |-> [e \in S |-> DelString(e, a[n])]]
<1>1. HandleDel(d, a) = upto[N]
  BY Zenon DEF HandleDel
<1>2. \A e \in S, k \in Keys : DelString(e, k) \in S
  BY RemoveCells DEF DelString
<1>3. d \in S
  OBVIOUS
<1> HIDE DEF S
<1>4. \E f : f = Body(f)
  <2>1. Rounds(step, N, S)
    BY Zenon, <1>2 DEF Rounds
  <2>2. PICK f \in [0 .. N -> S] : IsLoop(f, d, N, step)
    <3> HIDE DEF step
    <3> QED BY ONLY Zenon, Len(a) \in Nat, <1>3, <2>1, LoopExists
  <2>3. ASSUME NEW n \in 1 .. N PROVE f[n] = DelString(f[n - 1], a[n])
    <3>1. f[n - 1] \in S
      OBVIOUS
    <3>2. f[n] = step[n][f[n - 1]]
      BY Zenon, <2>2 DEF IsLoop
    <3> QED BY ONLY Zenon, <3>1, <3>2, n \in 1 .. N
  <2>4. f = Body(f)
    BY <2>2, <2>3 DEF IsLoop
  <2> QED BY Zenon, <2>4
<1>5. upto = Body(upto)
  <2> HIDE DEF Body
  <2> QED BY Zenon, <1>4
<1> HIDE DEF upto
<1>6. upto[0] = d /\ \A n \in 1 .. N : upto[n] = DelString(upto[n - 1], a[n])
  BY SMTT(30), <1>5
<1>7. \A n \in 0 .. N : upto[n] \in S
  <2> DEFINE T == {n \in 0 .. N : upto[n] \notin S}
  <2> SUFFICES ASSUME T # {} PROVE FALSE
    OBVIOUS
  <2>1. PICK m \in T : \A n \in T : ~(n < m)
    <3>1. T \in SUBSET Nat
      OBVIOUS
    <3> HIDE DEF T
    <3> QED BY Zenon, <3>1, LeastElement
  <2>2. m \in 1 .. N
    BY <1>3, <1>6
  <2>3. upto[m - 1] \in S
    BY <2>1, <2>2
  <2> QED BY Zenon, <1>2, <1>6, <2>1, <2>2, <2>3
<1> QED BY <1>1, <1>7 DEF S

(* A handler gives a cell the value the log gives it, leaves it or empties *)
(* it.  (HSET with more than three arguments is logged and then refused.)  *)
LEMMA HandleCells ==
  ASSUME NEW d \in Stored, NEW cmd \in Commands
  PROVE  /\ Handle(d, cmd) \in Stored
         /\ \A x \in Cells :
              \/ Cell(Handle(d, cmd), x) \in {None, Cell(d, x)}
              \/ OnWrite(cmd) /\ Cell(Handle(d, cmd), x) = Cell(Given(cmd), x)
<1> DEFINE a == cmd.args
<1>1. CASE cmd.name = "DEL"
  <2>1. Handle(d, cmd) = HandleDel(d, a)
    BY Zenon, <1>1 DEF Handle
  <2>2. Len(a) \in Nat /\ \A i \in 1 .. Len(a) : a[i] \in Keys
    BY Zenon, <1>1, Arguments
  <2> HIDE DEF a
  <2> QED BY Zenon, <2>1, <2>2, DelCells
<1>2. CASE OnWrite(cmd) /\ Handle(d, cmd) = ReplayCommand(d, cmd)
  <2>1. cmd \in Writes
    BY Zenon, LoggedWrites
  <2> QED BY <1>2, <2>1, Overlay
<1>3. CASE Handle(d, cmd) = d
  BY Zenon, <1>3
<1>4. CASE cmd.name = "SET"
  <2>1. Handle(d, cmd) = HandleSet(d, a)
    BY Zenon, <1>4 DEF Handle
  <2> QED BY Zenon, <1>2, <1>3, <1>4, <2>1 DEF HandleSet, ReplayCommand, OnWrite
<1>5. CASE cmd.name = "HSET"
  <2>1. Handle(d, cmd) = HandleHSet(d, a)
    BY Zenon, <1>5 DEF Handle
  <2> QED BY <1>2, <1>3, <1>5, <2>1 DEF HandleHSet, ReplayCommand, OnWrite
<1> QED BY Zenon, <1>1, <1>4, <1>5, Arguments

(* GivenBy, cell by cell. *)
LEMMA GivenCells ==
  ASSUME NEW d \in Stored, NEW cmds,
         \A x \in Cells : Cell(d, x) # None => \E cmd \in cmds : Cell(Given(cmd), x) = Cell(d, x)
  PROVE  GivenBy(d, cmds)
<1> DEFINE given == {ReplayCommand(Empty, cmd) : cmd \in cmds}
<1>1. ASSUME NEW x \in Cells, Cell(d, x) # None
      PROVE  \E r \in given : Cell(r, x) = Cell(d, x)
  BY Zenon, <1>1 DEF Given
<1> HIDE DEF given
<1>2. ASSUME NEW k \in Present(d.strings) PROVE \E r \in given : r.strings[k] = d.strings[k]
  <2> DEFINE x == <<"string", k, None>>
  <2>1. k \in Keys /\ d.strings[k] # None
    BY Zenon DEF Present, Stored
  <2>2. x \in Cells /\ \A r : Cell(r, x) = r.strings[k]
    BY Zenon, <2>1 DEF Cells, Cell
  <2> HIDE DEF x
  <2> QED BY Zenon, <1>1, <2>1, <2>2
<1>3. ASSUME NEW k \in Keys, NEW f \in Present(d.hashes[k])
      PROVE  \E r \in given : r.hashes[k][f] = d.hashes[k][f]
  <2> DEFINE x == <<"field", k, f>>
  <2>1. f \in Fields /\ d.hashes[k][f] # None
    BY Zenon DEF Present, Stored
  <2>2. x \in Cells /\ \A r : Cell(r, x) = r.hashes[k][f]
    BY Zenon, <2>1 DEF Cells, Cell
  <2> HIDE DEF x
  <2> QED BY Zenon, <1>1, <2>1, <2>2
<1> QED BY Zenon, <1>2, <1>3 DEF GivenBy, given

-----------------------------------------------------------------------------
(* The process and its files.                                              *)

Serving == phase \in {"built", "replayed", "up", "closing", "closed", "down"}

Kinds == {"null", "aof", "wal", "rdb"}

(* The part of the log file that AOF has read or written. *)
Log == SubSeq(aof, 1, pos)

(* The types of the state, and what the phase says of it.  The store has   *)
(* its type only if it does not come from a snapshot file.                 *)
LifeInv ==
  /\ aof \in Seq(Commands \cup {Torn}) /\ pos \in 0 .. Len(aof) /\ Log \in Seq(Commands)
  /\ mem \in Stored
  /\ restarts \in Nat
  /\ pc \in [Clients -> Nat] /\ call \in [Clients -> Commands \cup {None}]
  /\ \A c \in Clients : pc[c] # 0 => call[c] \in Commands
  /\ persist \in Seq(Kinds) /\ Len(persist) <= 2
  /\ Serving => Len(persist) >= 1
  /\ ~Running => mem = Empty /\ \A c \in Clients : pc[c] = 0
  /\ phase \in {"start", "loaded"} => db = Empty
  /\ phase \in {"built", "down"} /\ disk = None => db = Empty
  /\ Serving /\ persist[1] = "aof" => db \in Stored /\ disk \in Stored \cup {None}

(* Where AOF's offset is.  A log that is not replayed is not touched       *)
(* before the network is up.                                               *)
OffsetInv ==
  /\ phase \in {"start", "loaded", "built"} => pos = 0
  /\ phase = "replayed" /\ persist[1] # "aof" => pos = 0
  /\ phase \in {"start", "loaded"} \/ (phase \in {"built", "replayed"} /\ restarts = 0) => aof = <<>>
  /\ Serving /\ persist[1] = "aof" => aof \in Seq(Commands)
  /\ phase \in {"replayed", "up", "closing", "closed"} /\ persist[1] = "aof" => pos = Len(aof)

(* A log that ends in what is left of others is still a file of commands.  *)
LEMMA RemainsType ==
  ASSUME NEW rest \in Seq(Commands \cup {Torn}), NEW t \in Remains(rest)
  PROVE  t \in Seq(Commands \cup {Torn}) /\ (rest = <<>> => t = <<>>)
<1> DEFINE S == Commands \cup {Torn}
           whole == {SubSeq(rest, n + 1, Len(rest)) : n \in 1 .. Len(rest)}
<1>1. Remains(rest) = IF rest = <<>> THEN {<<>>} ELSE whole \cup {<<Torn>> \o u : u \in whole}
  BY Zenon DEF Remains
<1>2. Torn \in S /\ rest \in Seq(S)
  OBVIOUS
<1> HIDE DEF S
<1>3. <<>> \in Seq(S) /\ <<Torn>> \in Seq(S)
  BY <1>2
<1>4. \A u \in whole : u \in Seq(S)
  <2>1. ASSUME NEW n \in 1 .. Len(rest) PROVE SubSeq(rest, n + 1, Len(rest)) \in Seq(S)
    BY <1>2
  <2> QED BY Zenon, <2>1
<1> HIDE DEF whole
<1>5. \A u \in whole : <<Torn>> \o u \in Seq(S)
  BY <1>3, <1>4
<1>6. CASE rest = <<>>
  <2>1. t = <<>>
    BY <1>1, <1>6
  <2> QED BY Zenon, <1>3, <2>1 DEF S
<1>7. CASE rest # <<>>
  <2>1. t \in whole \/ \E u \in whole : t = <<Torn>> \o u
    BY <1>1, <1>7
  <2>2. t \in Seq(S)
    BY Zenon, <1>4, <1>5, <2>1
  <2> QED BY Zenon, <1>7, <2>2 DEF S
<1> QED BY Zenon, <1>6, <1>7

(* AOF's Write appends to the part that it has read or written, and to the *)
(* file if that is all of it.                                              *)
LEMMA WriteAppends ==
  ASSUME LifeInv, NEW cmd \in Commands, phase = "up", AOFWrite(cmd)
  PROVE  /\ Log' = Append(Log, cmd) /\ Log' \in Seq(Commands)
         /\ aof' \in Seq(Commands \cup {Torn}) /\ pos' \in 0 .. Len(aof')
         /\ pos = Len(aof) => aof' = Append(aof, cmd) /\ pos' = Len(aof')
<1> DEFINE S == Commands \cup {Torn}
           rest == SubSeq(aof, pos + 1, Len(aof))
<1>1. PICK t \in Remains(rest) : aof' = Append(Log, cmd) \o t
  BY Zenon DEF AOFWrite, Log
<1>2. pos' = pos + 1
  BY Zenon DEF AOFWrite
<1>3. aof \in Seq(S) /\ pos \in 0 .. Len(aof) /\ Len(aof) \in Nat /\ Log \in Seq(Commands) /\ Len(Log) = pos
  BY DEF LifeInv, Log
<1>4. rest \in Seq(S) /\ (pos = Len(aof) => rest = <<>> /\ Log = aof)
  BY <1>3 DEF Log
<1>5. t \in Seq(S) /\ (pos = Len(aof) => t = <<>>)
  BY Zenon, <1>4, RemainsType
<1> HIDE DEF rest
<1>6. Append(Log, cmd) \in Seq(Commands) /\ Len(Append(Log, cmd)) = pos + 1
  BY <1>3
<1>7. Append(Log, cmd) \in Seq(S)
  <2>1. Commands \subseteq S
    OBVIOUS
  <2> HIDE DEF S
  <2> QED BY Zenon, <1>6, <2>1, SeqMonotonic
<1> DEFINE l == Append(Log, cmd)
<1> HIDE DEF l, S
<1>8. /\ aof' \in Seq(S) /\ Len(aof') = pos + 1 + Len(t) /\ Len(t) \in Nat
      /\ SubSeq(aof', 1, pos + 1) = l
  <2>1. aof' = l \o t /\ l \in Seq(S) /\ t \in Seq(S) /\ Len(l) = pos + 1 /\ pos \in Nat
    BY <1>1, <1>3, <1>5, <1>6, <1>7 DEF l
  <2>2. aof' \in Seq(S) /\ Len(aof') = pos + 1 + Len(t) /\ Len(t) \in Nat
    <3>1. l \o t \in Seq(S) /\ Len(l \o t) = Len(l) + Len(t) /\ Len(t) \in Nat
      BY Zenon, <2>1, ConcatProperties, LenProperties
    <3> QED BY Zenon, <2>1, <3>1
  <2>3. SubSeq(l \o t, 1, Len(l)) = l
    BY <2>1
  <2> QED BY <2>1, <2>2, <2>3
<1>9. pos = Len(aof) => aof' = l /\ Len(t) = 0
  BY <1>1, <1>5, <1>7 DEF l
<1>10. Log' = l /\ pos' \in 0 .. Len(aof')
  BY <1>2, <1>3, <1>8 DEF Log
<1>11. ASSUME pos = Len(aof) PROVE aof' = Append(aof, cmd) /\ pos' = Len(aof')
  <2>1. aof' = Append(aof, cmd) /\ Len(t) = 0
    BY Zenon, <1>4, <1>9, <1>11 DEF l
  <2> QED BY <1>2, <1>3, <1>8, <2>1
<1> QED BY Zenon, <1>6, <1>8, <1>10, <1>11 DEF l, S

(* Build makes one or two backends. *)
LEMMA Backending ==
  ASSUME NEW f
  PROVE  Build(f) \in Seq(Kinds) /\ Len(Build(f)) <= 2
<1> DEFINE sections == Sections(f)
           parts == [i \in DOMAIN sections |-> BuildBackend(sections[i])]
<1>1. PICK n \in {1, 2} : DOMAIN sections = 1 .. n
  BY DEF Sections
<1>2. \A s : BuildBackend(s) \in Kinds \cup {Error}
  BY Zenon DEF BuildBackend, Kinds
<1>3. ASSUME Error \notin Range(parts) PROVE parts \in Seq(Kinds) /\ Len(parts) <= 2
  <2> HIDE DEF sections
  <2>1. ASSUME NEW i \in 1 .. n PROVE parts[i] \in Kinds
    <3>1. i \in DOMAIN parts /\ parts[i] = BuildBackend(sections[i])
      BY Zenon, <1>1
    <3> HIDE DEF parts
    <3>2. parts[i] # Error
      BY Zenon, <1>3, <3>1 DEF Range
    <3> QED BY Zenon, <1>2, <3>1, <3>2
  <2>2. parts \in [1 .. n -> Kinds]
    BY Zenon, <1>1, <2>1
  <2> HIDE DEF parts
  <2> QED BY <2>2
<1>4. BuildPersistence(f) = IF Error \in Range(parts) THEN <<>> ELSE parts
  BY Zenon DEF BuildPersistence
<1>5. <<>> \in Seq(Kinds) /\ Len(<<>>) <= 2
  OBVIOUS
<1> HIDE DEF parts
<1>6. BuildPersistence(f) \in Seq(Kinds) /\ Len(BuildPersistence(f)) <= 2
  BY <1>3, <1>4, <1>5
<1> QED BY <1>5, <1>6 DEF Build

(* Head of the backends is the first. *)
LEMMA FirstBackend ==
  ASSUME NEW s \in Seq(Kinds), Len(s) >= 1
  PROVE  Head(s) = s[1]
OBVIOUS

(* Replay makes a store of what the log can be read as. *)
LEMMA Replaying ==
  ASSUME LifeInv, OffsetInv, Replay, persist[1] = "aof"
  PROVE  /\ aof \in Seq(Commands) /\ db \in Stored
         /\ \E cmds \in AOFReplay(aof) : db' = Restored(db, cmds)
         /\ db' \in Stored /\ disk' \in Stored \cup {None} /\ pos' = Len(aof)
<1>1. phase = "built" /\ Serving /\ Head(persist) = "aof"
  <2>1. phase = "built"
    BY Zenon DEF Replay
  <2> QED BY Zenon, <2>1, FirstBackend DEF LifeInv, Serving
<1>2. aof \in Seq(Commands) /\ db \in Stored
  BY Zenon, <1>1 DEF LifeInv, OffsetInv
<1>3. /\ \E cmds \in AOFReplay(aof) : db' = Restored(db, cmds)
      /\ disk' = IF disk = None THEN None ELSE db'
      /\ pos' = SeekEnd(aof)
  BY <1>1 DEF Replay
<1>4. db' \in Stored
  BY Zenon, <1>2, <1>3, ReplayReads, RestoredCells
<1> QED BY Zenon, <1>2, <1>3, <1>4 DEF SeekEnd

(* LifeInv is inductive. *)
LEMMA LifeStep == LifeInv /\ OffsetInv /\ [Next]_vars => LifeInv'
<1> SUFFICES ASSUME LifeInv, OffsetInv, [Next]_vars PROVE LifeInv'
  OBVIOUS
<1> USE DEF LifeInv, Serving, Running
<1>0. Empty \in Stored
  BY Zenon, EmptyCells
<1>1. CASE LoadConfig
  BY Zenon, <1>1 DEF LoadConfig, data, Log
<1>2. CASE BuildAll
  <2>1. persist' \in Seq(Kinds) /\ Len(persist') <= 2
    BY Zenon, <1>2, Backending DEF BuildAll
  <2>2. phase' = "built" => Len(persist') >= 1
    <3>1. phase' = "built" => persist' # <<>>
      BY Zenon, <1>2 DEF BuildAll
    <3> QED BY <2>1, <3>1
  <2>3. phase = "loaded" /\ phase' \in {"built", "failed"} /\ UNCHANGED data /\ disk' \in {Empty, None}
    BY Zenon, <1>2 DEF BuildAll
  <2>4. Log' = Log
    BY Zenon, <2>3 DEF data, Log
  <2> QED BY Zenon, <1>0, <2>1, <2>2, <2>3, <2>4 DEF data
<1>3. CASE Replay
  <2>1. /\ phase = "built" /\ phase' = "replayed"
        /\ UNCHANGED <<persist, aof, mem, pc, call, restarts>>
    BY Zenon, <1>3 DEF Replay
  <2>2. persist[1] = "aof" => db' \in Stored /\ disk' \in Stored \cup {None}
    BY Zenon, <1>3, Replaying
  <2>3. pos' \in 0 .. Len(aof') /\ Log' \in Seq(Commands)
    <3>1. CASE persist[1] = "aof"
      <4>1. aof \in Seq(Commands) /\ pos' = Len(aof)
        BY Zenon, <1>3, <3>1, Replaying
      <4> QED BY <2>1, <4>1 DEF Log
    <3>2. CASE persist[1] # "aof"
      <4>1. pos' = pos
        BY Zenon, <1>3, <2>1, <3>2, FirstBackend DEF Replay
      <4> QED BY Zenon, <2>1, <4>1 DEF Log
    <3> QED BY Zenon, <3>1, <3>2
  <2> QED BY Zenon, <2>1, <2>2, <2>3
<1>4. CASE StartNetwork
  <2>1. phase = "replayed" /\ phase' \in {"up", "failed"} /\ UNCHANGED <<persist, disk, data>>
    BY Zenon, <1>4 DEF StartNetwork
  <2> QED BY Zenon, <2>1 DEF data, Log
<1>5. CASE Shutdown \/ CloseStore
  BY Zenon, <1>5 DEF Shutdown, CloseStore, data, Log
<1>6. CASE Stop
  <2>1. /\ Alive /\ phase' = "down" /\ db' = (IF disk = None THEN Empty ELSE disk) /\ mem' = Empty
        /\ pc' = [c \in Clients |-> 0] /\ call' = [c \in Clients |-> None]
        /\ UNCHANGED <<persist, disk, aof, pos, restarts>>
    BY Zenon, <1>6 DEF Stop
  <2>2. pc' \in [Clients -> Nat] /\ call' \in [Clients -> Commands \cup {None}]
        /\ \A c \in Clients : pc'[c] = 0
    BY <2>1
  <2>3. persist[1] = "aof" => db' \in Stored
    BY Zenon, <1>0, <2>1 DEF Alive
  <2>4. disk' = None => db' = Empty
    BY Zenon, <2>1
  <2>5. Serving
    BY Zenon, <2>1 DEF Alive
  <2> QED BY Zenon, <1>0, <2>1, <2>2, <2>3, <2>4, <2>5 DEF Log
<1>7. CASE Restart
  <2>1. /\ phase = "down" /\ phase' = "built" /\ restarts' = restarts + 1 /\ pos' = 0
        /\ UNCHANGED <<persist, db, disk, aof, mem, pc, call>>
    BY Zenon, <1>7 DEF Restart
  <2>2. pos' \in 0 .. Len(aof') /\ Log' \in Seq(Commands) /\ restarts' \in Nat
    BY <2>1 DEF Log
  <2> QED BY Zenon, <2>1, <2>2
<1>8. CASE BeginSnapshot \/ EndSnapshot
  <2>1. UNCHANGED <<phase, persist, db, disk, aof, pos, mem, pc, call, restarts>>
    BY Zenon, <1>8 DEF BeginSnapshot, EndSnapshot
  <2> QED BY Zenon, <2>1 DEF Log
<1>9. ASSUME NEW c \in Clients, Call(c) PROVE LifeInv'
  <2>1. PICK cmd \in Commands :
          /\ call' = [call EXCEPT ![c] = cmd]
          /\ pc' = [pc EXCEPT ![c] = IF OnWrite(cmd) THEN 1 ELSE Len(persist) + 1]
    BY Zenon, <1>9 DEF Call
  <2>2. Running /\ UNCHANGED <<phase, persist, db, disk, aof, pos, mem, restarts>>
    BY Zenon, <1>9 DEF Call
  <2>3. /\ pc' \in [Clients -> Nat] /\ call' \in [Clients -> Commands \cup {None}]
        /\ \A e \in Clients : pc'[e] # 0 => call'[e] \in Commands
    BY <2>1
  <2> QED BY Zenon, <2>2, <2>3 DEF Log
<1>10. ASSUME NEW c \in Clients, WriteBackend(c) PROVE LifeInv'
  <2>1. /\ Running /\ pc[c] # 0 /\ pc' = [pc EXCEPT ![c] = pc[c] + 1]
        /\ UNCHANGED <<phase, persist, db, disk, call, restarts>>
    BY SMTT(30), <1>10 DEF WriteBackend
  <2>2. call[c] \in Commands
    BY Zenon, <2>1
  <2>3. aof' \in Seq(Commands \cup {Torn}) /\ pos' \in 0 .. Len(aof') /\ Log' \in Seq(Commands)
    <3>1. CASE UNCHANGED <<aof, pos>>
      BY Zenon, <3>1 DEF Log
    <3>2. CASE phase = "up" /\ AOFWrite(call[c])
      BY Zenon, <2>2, <3>2, WriteAppends
    <3>3. AOFWrite(call[c]) \/ UNCHANGED <<aof, pos>>
      BY Zenon, <1>10 DEF WriteBackend
    <3> QED BY Zenon, <3>1, <3>2, <3>3 DEF AOFWrite
  <2>4. mem' \in Stored
    <3>1. mem' \in {mem, ReplayCommand(mem, call[c])}
      BY Zenon, <1>10, NotedIsReplayed DEF WriteBackend
    <3>2. ReplayCommand(mem, call[c]) \in Stored
      BY Zenon, <2>2, LoggedWrites, Overlay
    <3> QED BY Zenon, <3>1, <3>2
  <2>5. /\ pc' \in [Clients -> Nat]
        /\ \A e \in Clients : pc'[e] # 0 => call'[e] \in Commands
    BY SMTT(30), <2>1, <2>2
  <2> QED BY Zenon, <2>1, <2>3, <2>4, <2>5
<1>11. ASSUME NEW c \in Clients, HandleCall(c) PROVE LifeInv'
  <2>1. /\ Running /\ pc[c] = Len(persist) + 1 /\ pc' = [pc EXCEPT ![c] = 0]
        /\ call' = [call EXCEPT ![c] = None] /\ db' = Handle(db, call[c]) /\ disk' \in {disk, db'}
        /\ UNCHANGED <<phase, persist, aof, pos, mem, restarts>>
    BY Zenon, <1>11 DEF HandleCall, StoreWrites
  <2>2. call[c] \in Commands
    BY <2>1
  <2>3. persist[1] = "aof" => db' \in Stored /\ disk' \in Stored \cup {None}
    <3>1. persist[1] = "aof" => db \in Stored /\ disk \in Stored \cup {None}
      BY Zenon, <2>1
    <3>2. persist[1] = "aof" => Handle(db, call[c]) \in Stored
      BY Zenon, <2>2, <3>1, HandleCells
    <3> QED BY Zenon, <2>1, <3>1, <3>2
  <2>4. /\ pc' \in [Clients -> Nat] /\ call' \in [Clients -> Commands \cup {None}]
        /\ \A e \in Clients : pc'[e] # 0 => call'[e] \in Commands
    BY Zenon, <2>1
  <2> QED BY Zenon, <2>1, <2>3, <2>4 DEF Log
<1>12. ASSUME NEW k \in Keys, Drop(k) PROVE LifeInv'
  <2>1. /\ Running /\ db' = RemoveKey(db, k) /\ disk' \in {disk, db'}
        /\ UNCHANGED <<phase, persist, aof, pos, mem, pc, call, restarts>>
    BY Zenon, <1>12 DEF Drop, StoreWrites
  <2>2. persist[1] = "aof" => db' \in Stored /\ disk' \in Stored \cup {None}
    <3>1. persist[1] = "aof" => db \in Stored /\ disk \in Stored \cup {None}
      BY Zenon, <2>1
    <3> QED BY ONLY Zenon, k \in Keys, <2>1, <3>1, RemoveCells
  <2> QED BY Zenon, <2>1, <2>2 DEF Log
<1>13. CASE UNCHANGED vars
  BY Zenon, <1>13 DEF vars, Log
<1> QED BY Zenon, <1>1, <1>2, <1>3, <1>4, <1>5, <1>6, <1>7, <1>8, <1>9, <1>10, <1>11, <1>12, <1>13 DEF Next

(* OffsetInv is inductive. *)
LEMMA OffsetStep == LifeInv /\ OffsetInv /\ [Next]_vars => OffsetInv'
<1> SUFFICES ASSUME LifeInv, OffsetInv, [Next]_vars PROVE OffsetInv'
  OBVIOUS
<1> USE DEF OffsetInv, Serving
<1>1. CASE LoadConfig
  BY Zenon, <1>1 DEF LoadConfig, data
<1>2. CASE BuildAll
  <2>1. phase = "loaded" /\ phase' \in {"built", "failed"} /\ UNCHANGED data
    BY Zenon, <1>2 DEF BuildAll
  <2>2. aof = <<>> /\ <<>> \in Seq(Commands)
    BY <2>1
  <2> QED BY Zenon, <2>1, <2>2 DEF data
<1>3. CASE Replay
  <2>1. phase = "built" /\ phase' = "replayed" /\ UNCHANGED <<persist, aof, restarts>>
    BY Zenon, <1>3 DEF Replay
  <2>2. persist[1] = "aof" => pos' = Len(aof)
    BY Zenon, <1>3, Replaying
  <2>3. persist[1] # "aof" => pos' = pos
    BY Zenon, <1>3, <2>1, FirstBackend DEF Replay, LifeInv
  <2> QED BY Zenon, <2>1, <2>2, <2>3
<1>4. CASE StartNetwork
  <2>1. phase = "replayed" /\ phase' \in {"up", "failed"} /\ UNCHANGED <<persist, data>>
    BY Zenon, <1>4 DEF StartNetwork
  <2> QED BY Zenon, <2>1 DEF data
<1>5. CASE Shutdown \/ CloseStore
  BY Zenon, <1>5 DEF Shutdown, CloseStore, data
<1>6. CASE Stop
  BY Zenon, <1>6 DEF Stop, Alive
<1>7. CASE Restart
  <2>1. /\ phase = "down" /\ phase' = "built" /\ pos' = 0 /\ restarts' = restarts + 1
        /\ UNCHANGED <<persist, aof>>
    BY Zenon, <1>7 DEF Restart
  <2>2. restarts' # 0
    BY <2>1 DEF LifeInv
  <2> QED BY Zenon, <2>1, <2>2
<1>8. ASSUME UNCHANGED <<phase, persist, aof, pos, restarts>> PROVE OffsetInv'
  BY Zenon, <1>8
<1>9. CASE BeginSnapshot \/ EndSnapshot
  BY Zenon, <1>8, <1>9 DEF BeginSnapshot, EndSnapshot
<1>10. ASSUME NEW c \in Clients, Call(c) \/ HandleCall(c) PROVE OffsetInv'
  BY Zenon, <1>8, <1>10 DEF Call, HandleCall
<1>11. ASSUME NEW c \in Clients, WriteBackend(c) PROVE OffsetInv'
  <2>1. Running /\ UNCHANGED <<phase, persist, restarts>> /\ pc[c] # 0
    BY SMTT(30), <1>11 DEF WriteBackend
  <2>2. CASE UNCHANGED <<aof, pos>>
    BY Zenon, <1>8, <2>1, <2>2
  <2>3. CASE phase = "up" /\ AOFWrite(call[c])
    <3>1. call[c] \in Commands
      BY Zenon, <2>1 DEF LifeInv
    <3>2. /\ Log' \in Seq(Commands)
          /\ pos = Len(aof) => aof' = Append(aof, call[c]) /\ pos' = Len(aof')
      BY Zenon, <2>3, <3>1, WriteAppends
    <3>3. aof \in Seq(Commands) => Append(aof, call[c]) \in Seq(Commands)
      BY <3>1
    <3> QED BY Zenon, <2>1, <2>3, <3>2, <3>3
  <2>4. AOFWrite(call[c]) \/ UNCHANGED <<aof, pos>>
    BY Zenon, <1>11 DEF WriteBackend
  <2> QED BY Zenon, <2>2, <2>3, <2>4 DEF AOFWrite
<1>12. ASSUME NEW k \in Keys, Drop(k) PROVE OffsetInv'
  BY Zenon, <1>8, <1>12 DEF Drop
<1>13. CASE UNCHANGED vars
  BY Zenon, <1>13 DEF vars
<1> QED BY Zenon, <1>1, <1>2, <1>3, <1>4, <1>5, <1>6, <1>7, <1>9, <1>10, <1>11, <1>12, <1>13 DEF Next

(* The first process starts with empty files. *)
LEMMA LifeInit == Init => LifeInv /\ OffsetInv
<1> SUFFICES ASSUME Init PROVE LifeInv /\ OffsetInv
  OBVIOUS
<1>1. aof = <<>> /\ pos = 0 /\ Log \in Seq(Commands) /\ aof \in Seq(Commands \cup {Torn}) /\ pos \in 0 .. Len(aof)
  BY DEF Init, Log
<1>2. LifeInv
  BY SMTT(30), <1>1, EmptyCells DEF Init, LifeInv, Serving, Running
<1> QED BY Zenon, <1>1, <1>2 DEF Init, OffsetInv, Serving

(* A log that is replayed when the server starts is only ever appended to, *)
(* in this process and in all later ones.                                  *)
THEOREM LogIsAppended == Spec => LogIsKept
<1> DEFINE Kept == Backends # {} /\ Head(persist) = "aof" => aof = SubSeq(aof', 1, Len(aof))
<1>1. LifeInv /\ OffsetInv /\ [Next]_vars => [Kept]_vars
  <2> SUFFICES ASSUME LifeInv, OffsetInv, Next, Backends # {}, Head(persist) = "aof"
               PROVE  aof = SubSeq(aof', 1, Len(aof))
    BY Zenon
  <2>1. aof \in Seq(Commands \cup {Torn})
    BY Zenon DEF LifeInv
  <2>2. CASE aof' = aof
    BY <2>1, <2>2
  <2>3. ASSUME NEW c \in Clients, WriteBackend(c), aof' # aof PROVE aof = SubSeq(aof', 1, Len(aof))
    <3>1. AOFWrite(call[c]) /\ phase = "up" /\ pc[c] # 0
      <4>1. AOFWrite(call[c]) /\ pc[c] \in 1 .. Len(persist)
        BY Zenon, <2>3 DEF WriteBackend
      <4>2. phase = "up"
        BY Zenon, <2>3, <4>1 DEF AOFWrite
      <4>3. pc[c] # 0
        BY <4>1
      <4> QED BY Zenon, <4>1, <4>2, <4>3
    <3>2. persist[1] = "aof" /\ call[c] \in Commands
      BY Zenon, <3>1, FirstBackend DEF LifeInv, Serving
    <3>3. aof' = Append(aof, call[c])
      BY Zenon, <3>1, <3>2, WriteAppends DEF OffsetInv
    <3> QED BY <2>1, <3>2, <3>3
  <2>4. aof' = aof \/ \E c \in Clients : WriteBackend(c)
    BY Zenon DEF Next, LoadConfig, BuildAll, Replay, StartNetwork, Shutdown, CloseStore, Stop, Restart, data,
       BeginSnapshot, EndSnapshot, Call, HandleCall, Drop
  <2> QED BY Zenon, <2>2, <2>3, <2>4
<1> QED BY <1>1, LifeInit, LifeStep, OffsetStep, PTL DEF Spec, LogIsKept

(* What Replay may read some command of the log as gives the cell this     *)
(* value.                                                                  *)
Replayable(v, x) == \E i \in DOMAIN aof : \E r \in Readings[aof[i]] : Cell(Given(r), x) = v

(* LiveIsLogged as it is kept: the cells of the store can be read in the   *)
(* log, and a command that has passed the first backend is there.          *)
LogInv ==
  persist[1] = "aof" /\ disk = None =>
    /\ phase \in {"replayed", "up"} => \A x \in Cells : Cell(db, x) # None => Replayable(Cell(db, x), x)
    /\ phase = "up" => \A c \in Clients :
         pc[c] > 1 /\ OnWrite(call[c]) => \E i \in DOMAIN aof : aof[i] = call[c]

(* A log that grows keeps its commands. *)
LEMMA LogGrows ==
  ASSUME NEW s \in Seq(Commands), NEW cmd \in Commands
  PROVE  /\ \A i \in DOMAIN s : i \in DOMAIN Append(s, cmd) /\ Append(s, cmd)[i] = s[i]
         /\ \E i \in DOMAIN Append(s, cmd) : Append(s, cmd)[i] = cmd
         /\ \A i \in DOMAIN Append(s, cmd) : i \in DOMAIN s \/ Append(s, cmd)[i] = cmd
<1>1. Len(s) \in Nat /\ DOMAIN s = 1 .. Len(s) /\ DOMAIN Append(s, cmd) = 1 .. Len(s) + 1
  OBVIOUS
<1>2. Append(s, cmd)[Len(s) + 1] = cmd /\ \A i \in 1 .. Len(s) : Append(s, cmd)[i] = s[i]
  OBVIOUS
<1> QED BY <1>1, <1>2

(* A store without a file does not get one. *)
LEMMA NoDisk ==
  ASSUME LifeInv', Serving', persist'[1] = "aof", disk' = None, disk' \in {disk, db'} \/ StoreWrites
  PROVE  disk = None
<1>1. db' \in Stored
  BY Zenon DEF LifeInv
<1>2. None \notin Stored
  BY Zenon, LifecycleAssumption DEF Stored, Slot, Values
<1>3. disk' \in {disk, db'}
  BY Zenon DEF StoreWrites
<1> QED BY Zenon, <1>1, <1>2, <1>3

(* LogInv is inductive. *)
LEMMA LogStep == LifeInv /\ LifeInv' /\ OffsetInv /\ LogInv /\ [Next]_vars => LogInv'
<1> SUFFICES ASSUME LifeInv, LifeInv', OffsetInv, LogInv, [Next]_vars, persist'[1] = "aof", disk' = None PROVE LogInv'
  BY Zenon DEF LogInv
<1>1. CASE Replay
  <2>1. phase = "built" /\ phase' = "replayed" /\ UNCHANGED <<persist, aof>> /\ (disk' \in {disk, db'} \/ disk = None)
    BY Zenon, <1>1 DEF Replay
  <2>2. disk = None
    BY Zenon, <2>1, NoDisk DEF Serving
  <2>3. db = Empty /\ aof \in Seq(Commands)
    BY Zenon, <1>1, <2>1, <2>2, Replaying DEF LifeInv
  <2>4. PICK cmds \in AOFReplay(aof) : db' = Restored(Empty, cmds)
    BY Zenon, <1>1, <2>1, <2>3, Replaying
  <2>5. /\ cmds \in Seq(Writes) /\ Len(cmds) = Len(aof)
        /\ \A i \in 1 .. Len(aof) : cmds[i] \in Readings[aof[i]]
    BY Zenon, <2>3, ReplayReads
  <2>6. \A x \in Cells : Cell(db', x) # None => \E i \in 1 .. Len(aof) : Cell(Given(cmds[i]), x) = Cell(db', x)
    BY Zenon, <2>4, <2>5, EmptyCells, RestoredCells
  <2>7. DOMAIN aof = 1 .. Len(aof)
    BY <2>3
  <2> QED BY Zenon, <2>1, <2>5, <2>6, <2>7 DEF LogInv, Replayable
<1>2. CASE StartNetwork
  <2>1. phase = "replayed" /\ UNCHANGED <<persist, disk, db, aof, pc>> /\ \A c \in Clients : pc[c] = 0
    BY Zenon, <1>2 DEF StartNetwork, data, LifeInv, Running
  <2>2. \A c \in Clients : ~(pc'[c] > 1)
    BY <2>1
  <2> QED BY Zenon, <2>1, <2>2 DEF LogInv, Replayable
<1>3. CASE LoadConfig \/ BuildAll \/ Shutdown \/ CloseStore \/ Stop \/ Restart
  <2>1. phase' \notin {"replayed", "up"}
    BY Zenon, <1>3 DEF LoadConfig, BuildAll, Shutdown, CloseStore, Stop, Restart
  <2> QED BY Zenon, <2>1 DEF LogInv
<1>4. CASE BeginSnapshot \/ EndSnapshot
  BY Zenon, <1>4 DEF BeginSnapshot, EndSnapshot, LogInv, Replayable
<1>5. ASSUME NEW c \in Clients, Call(c) PROVE LogInv'
  <2>1. UNCHANGED <<phase, persist, disk, db, aof>>
    BY Zenon, <1>5 DEF Call
  <2>2. \A e \in Clients \ {c} : pc'[e] = pc[e] /\ call'[e] = call[e]
    BY Zenon, <1>5 DEF Call, LifeInv
  <2>3. ~(pc'[c] > 1 /\ OnWrite(call'[c]))
    BY <1>5 DEF Call, LifeInv
  <2>4. \A e \in Clients : pc'[e] > 1 /\ OnWrite(call'[e]) => e # c
    BY Zenon, <2>3
  <2> QED BY ZenonT(60), <2>1, <2>2, <2>4 DEF LogInv, Replayable
<1>6. ASSUME NEW c \in Clients, WriteBackend(c), phase = "up" PROVE LogInv'
  <2>1. /\ UNCHANGED <<phase, persist, disk, db, call>> /\ pc[c] \in 1 .. Len(persist)
        /\ \A e \in Clients : e # c => pc'[e] = pc[e]
    BY Zenon, <1>6 DEF WriteBackend, LifeInv
  <2>2. call[c] \in Commands /\ aof \in Seq(Commands) /\ pos = Len(aof)
    <3>1. call[c] \in Commands
      BY <2>1 DEF LifeInv
    <3> QED BY Zenon, <1>6, <2>1, <3>1 DEF OffsetInv, Serving
  <2>3. IF persist[pc[c]] = "aof" THEN aof' = Append(aof, call[c]) ELSE aof' = aof
    <3>1. CASE persist[pc[c]] = "aof"
      <4>1. AOFWrite(call[c])
        BY Zenon, <1>6, <3>1 DEF WriteBackend
      <4>2. aof' = Append(aof, call[c])
        BY Zenon, <1>6, <2>2, <4>1, WriteAppends
      <4> QED BY <3>1, <4>2
    <3>2. CASE persist[pc[c]] # "aof"
      <4>1. aof' = aof
        BY Zenon, <1>6, <3>2 DEF WriteBackend
      <4> QED BY <3>2, <4>1
    <3> QED BY Zenon, <3>1, <3>2
  <2>4. \A i \in DOMAIN aof : i \in DOMAIN aof' /\ aof'[i] = aof[i]
    BY <2>2, <2>3, LogGrows
  <2>5. persist[pc[c]] = "aof" => \E i \in DOMAIN aof' : aof'[i] = call[c]
    BY <2>2, <2>3, LogGrows
  <2>6. pc[c] = 1 \/ pc[c] > 1
    BY <2>1 DEF LifeInv
  <2>7. \A e \in Clients : pc'[e] > 1 /\ OnWrite(call'[e]) => \E i \in DOMAIN aof' : aof'[i] = call'[e]
    BY SMTT(30), <1>6, <2>1, <2>4, <2>5, <2>6 DEF LogInv
  <2>8. \A x \in Cells : Cell(db', x) # None => Replayable(Cell(db, x), x)'
    BY Zenon, <1>6, <2>1, <2>4 DEF LogInv, Replayable
  <2> QED BY Zenon, <2>7, <2>8 DEF LogInv
<1>7. ASSUME NEW c \in Clients, HandleCall(c), phase = "up" PROVE LogInv'
  <2>1. /\ UNCHANGED <<phase, persist, aof>> /\ pc[c] = Len(persist) + 1 /\ pc'[c] = 0
        /\ db' = Handle(db, call[c]) /\ StoreWrites
        /\ \A e \in Clients : e # c => pc'[e] = pc[e] /\ call'[e] = call[e]
    BY Zenon, <1>7 DEF HandleCall, LifeInv
  <2>2. pc[c] > 1 /\ call[c] \in Commands /\ db \in Stored /\ aof \in Seq(Commands)
    <3>1. pc[c] > 1 /\ call[c] \in Commands
      BY SMTT(30), <1>7, <2>1 DEF LifeInv, Serving
    <3> QED BY Zenon, <1>7, <2>1, <3>1 DEF LifeInv, OffsetInv, Serving
  <2>3. disk = None
    BY Zenon, <1>7, <2>1, NoDisk DEF Serving
  <2>4. OnWrite(call[c]) => \E i \in DOMAIN aof : aof[i] = call[c]
    BY Zenon, <1>7, <2>1, <2>2, <2>3 DEF LogInv
  <2>5. ASSUME NEW x \in Cells, Cell(db', x) # None PROVE Replayable(Cell(db, x), x)'
    <3>1. Cell(db', x) = Cell(db, x) \/ (OnWrite(call[c]) /\ Cell(db', x) = Cell(Given(call[c]), x))
      BY ZenonT(60), <2>1, <2>2, <2>5, HandleCells
    <3>2. CASE Cell(db', x) = Cell(db, x)
      BY Zenon, <1>7, <2>1, <2>3, <2>5, <3>2 DEF LogInv, Replayable
    <3>3. CASE OnWrite(call[c]) /\ Cell(db', x) = Cell(Given(call[c]), x)
      <4>1. call[c] \in Readings[call[c]]
        BY Zenon, <2>2, ReadingWrites
      <4> QED BY Zenon, <2>1, <2>4, <3>3, <4>1 DEF Replayable
    <3> QED BY Zenon, <3>1, <3>2, <3>3
  <2>6. ~(pc'[c] > 1)
    BY <2>1
  <2>7. \A e \in Clients : pc'[e] > 1 => e # c
    BY Zenon, <2>6
  <2> QED BY ZenonT(60), <1>7, <2>1, <2>3, <2>5, <2>7 DEF LogInv
<1>8. ASSUME NEW k \in Keys, Drop(k) PROVE LogInv'
  <2>1. UNCHANGED <<phase, persist, aof, pc, call>> /\ db' = RemoveKey(db, k) /\ db \in Stored /\ StoreWrites
    BY Zenon, <1>8 DEF Drop, LifeInv, Serving, Running
  <2>2. \A x \in Cells : Cell(db', x) \in {None, Cell(db, x)}
    BY Zenon, <2>1, RemoveCells
  <2>3. disk = None
    BY Zenon, <1>8, <2>1, NoDisk DEF Serving, Drop, Running
  <2> QED BY Zenon, <2>1, <2>2, <2>3 DEF LogInv, Replayable
<1>9. CASE UNCHANGED vars
  BY Zenon, <1>9 DEF vars, LogInv, Replayable
<1>10. ASSUME NEW c \in Clients, WriteBackend(c) \/ HandleCall(c), phase # "up" PROVE LogInv'
  <2>1. phase' \in {"closing", "closed"}
    BY Zenon, <1>10 DEF WriteBackend, HandleCall, Running
  <2> QED BY Zenon, <2>1 DEF LogInv
<1> QED BY Zenon, <1>1, <1>2, <1>3, <1>4, <1>5, <1>6, <1>7, <1>8, <1>9, <1>10 DEF Next

(* Every string and every field that a client can read from a store        *)
(* without a file of its own is in the log that the next process replays,  *)
(* as it is or as Replay has read it there.                                *)
THEOREM ServedIsLogged == Spec => []LiveIsLogged
<1>1. LifeInv /\ OffsetInv /\ LogInv => LiveIsLogged
  <2> DEFINE cmds == UNION {Readings[aof[i]] : i \in DOMAIN aof}
  <2> SUFFICES ASSUME LifeInv, LogInv, phase = "up", Head(persist) = "aof", disk = None PROVE GivenBy(db, cmds)
    BY Zenon DEF LiveIsLogged
  <2>1. persist[1] = "aof" /\ db \in Stored
    BY Zenon, FirstBackend DEF LifeInv, Serving
  <2>2. \A x \in Cells : Cell(db, x) # None => \E cmd \in cmds : Cell(Given(cmd), x) = Cell(db, x)
    BY Zenon, <2>1 DEF LogInv, Replayable
  <2> HIDE DEF cmds
  <2> QED BY Zenon, <2>1, <2>2, GivenCells
<1>2. Init => LogInv
  BY Zenon DEF Init, LogInv
<1> QED BY <1>1, <1>2, LifeInit, LifeStep, OffsetStep, LogStep, PTL DEF Spec

-----------------------------------------------------------------------------
(* The two backends of a dual one.                                         *)

(* Some command that AOF has read or written gives the cell this value. *)
InLog(v, x) == \E i \in DOMAIN Log : Cell(Given(Log[i]), x) = v

(* What a client's command gives to a cell. *)
Asked(c, x) == Cell(Given(call[c]), x)

(* Each cell when the log is written first.  After a restart it has more   *)
(* than RDB, which starts empty.                                           *)
LogFirst(x) ==
  /\ Cell(mem, x) # None => InLog(Cell(mem, x), x)
  /\ \A c \in Clients : pc[c] = 2 /\ Asked(c, x) # None => InLog(Asked(c, x), x)
  /\ restarts = 0 => \A i \in DOMAIN Log : Cell(Given(Log[i]), x) # None =>
       Cell(mem, x) # None \/ \E c \in Clients : pc[c] = 2 /\ Asked(c, x) # None

(* Each cell when RDB's Write comes first: AOF's begins again with each    *)
(* process, as RDB does.                                                   *)
LogSecond(x) ==
  /\ Cell(mem, x) # None =>
       InLog(Cell(mem, x), x) \/ \E c \in Clients : pc[c] = 2 /\ Asked(c, x) = Cell(mem, x)
  /\ \A c \in Clients : pc[c] = 2 /\ Asked(c, x) # None => Cell(mem, x) # None
  /\ \A i \in DOMAIN Log : Cell(Given(Log[i]), x) # None => Cell(mem, x) # None

(* BackendsAgree as it is kept, with commands on the way from one backend  *)
(* to the other.                                                           *)
DualInv ==
  phase = "up" =>
    /\ persist = <<"aof", "rdb">> => \A x \in Cells : LogFirst(x)
    /\ persist = <<"rdb", "aof">> => \A x \in Cells : LogSecond(x)

(* A command reaches the log. *)
LEMMA ReachesLog ==
  ASSUME NEW c \in Clients, NEW x \in Cells, Log \in Seq(Commands), call[c] \in Commands,
         Log' = Append(Log, call[c])
  PROVE  /\ \A v : InLog(v, x) => InLog(v, x)'
         /\ \A i \in DOMAIN Log' : \/ i \in DOMAIN Log /\ Log'[i] = Log[i]
                                   \/ Cell(Given(Log'[i]), x) = Asked(c, x)
         /\ \E i \in DOMAIN Log' : Cell(Given(Log'[i]), x) = Asked(c, x)
<1>1. Log' \in Seq(Commands) /\ DOMAIN Log' = DOMAIN Append(Log, call[c])
  BY LogGrows
<1>2. \A i \in DOMAIN Log : i \in DOMAIN Log' /\ Log'[i] = Log[i]
  BY Zenon, LogGrows
<1>3. \E i \in DOMAIN Log' : Log'[i] = call[c]
  <2> DEFINE l == Append(Log, call[c])
  <2>1. \E i \in DOMAIN l : l[i] = call[c]
    BY Zenon, LogGrows
  <2> HIDE DEF l
  <2> QED BY Zenon, <2>1 DEF l
<1>4. \A i \in DOMAIN Log' : i \in DOMAIN Log \/ Log'[i] = call[c]
  <2> DEFINE l == Append(Log, call[c])
  <2>1. \A i \in DOMAIN l : i \in DOMAIN Log \/ l[i] = call[c]
    BY Zenon, LogGrows
  <2>2. Log' = l
    OBVIOUS
  <2> HIDE DEF l
  <2> QED BY ONLY SMT, <2>1, <2>2
<1> QED BY Zenon, <1>2, <1>3, <1>4 DEF InLog, Asked

(* A command reaches RDB. *)
LEMMA ReachesRDB ==
  ASSUME NEW c \in Clients, NEW x \in Cells, mem \in Stored, call[c] \in Commands,
         mem' = ReplayCommand(mem, call[c])
  PROVE  Cell(mem', x) = IF Asked(c, x) = None THEN Cell(mem, x) ELSE Asked(c, x)
BY Zenon, LoggedWrites, Overlay DEF Asked

(* One backend of a client's command, in either order. *)
LEMMA DualWrite ==
  ASSUME LifeInv, phase = "up", Len(persist) = 2, NEW c \in Clients, WriteBackend(c), NEW x \in Cells
  PROVE  /\ persist = <<"aof", "rdb">> /\ LogFirst(x) => LogFirst(x)'
         /\ persist = <<"rdb", "aof">> /\ LogSecond(x) => LogSecond(x)'
<1>1. /\ UNCHANGED <<call, restarts>> /\ pc[c] \in {1, 2} /\ pc'[c] = pc[c] + 1
      /\ \A e \in Clients : e # c => pc'[e] = pc[e]
      /\ mem' = IF persist[pc[c]] = "rdb" THEN ReplayCommand(mem, call[c]) ELSE mem
  BY SMTT(30), NotedIsReplayed DEF WriteBackend, LifeInv
<1>2. call[c] \in Commands /\ Log \in Seq(Commands) /\ mem \in Stored
  BY <1>1 DEF LifeInv
<1>w. Log' = IF persist[pc[c]] = "aof" THEN Append(Log, call[c]) ELSE Log
  <2>1. CASE persist[pc[c]] = "aof"
    <3>1. AOFWrite(call[c])
      BY Zenon, <2>1 DEF WriteBackend
    <3>2. Log' = Append(Log, call[c])
      BY Zenon, <1>2, <3>1, WriteAppends
    <3> QED BY Zenon, <2>1, <3>2
  <2>2. CASE persist[pc[c]] # "aof"
    <3>1. UNCHANGED <<aof, pos>>
      BY Zenon, <2>2 DEF WriteBackend
    <3> QED BY Zenon, <2>2, <3>1 DEF Log
  <2> QED BY Zenon, <2>1, <2>2
<1>3. \A e \in Clients : Asked(e, x)' = Asked(e, x)
  BY Zenon, <1>1 DEF Asked
<1>4. /\ pc[c] = 1 => pc'[c] = 2
      /\ pc[c] = 2 => pc'[c] # 2
      /\ \A e \in Clients : e # c => (pc'[e] = 2 <=> pc[e] = 2)
  BY <1>1
<1> DEFINE ToLog == /\ mem' = mem
                    /\ \A v : InLog(v, x) => InLog(v, x)'
                    /\ \A i \in DOMAIN Log' : \/ i \in DOMAIN Log /\ Log'[i] = Log[i]
                                              \/ Cell(Given(Log'[i]), x) = Asked(c, x)
                    /\ \E i \in DOMAIN Log' : Cell(Given(Log'[i]), x) = Asked(c, x)
           ToRDB == /\ Log' = Log
                    /\ Cell(mem', x) = IF Asked(c, x) = None THEN Cell(mem, x) ELSE Asked(c, x)
<1>5. ASSUME persist[pc[c]] = "aof" PROVE ToLog
  BY Zenon, <1>1, <1>w, <1>2, <1>5, ReachesLog
<1>6. ASSUME persist[pc[c]] = "rdb" PROVE ToRDB
  BY Zenon, <1>1, <1>w, <1>2, <1>6, ReachesRDB
<1>7. ASSUME persist = <<"aof", "rdb">>, LogFirst(x) PROVE LogFirst(x)'
  <2>1. CASE pc[c] = 1
    <3>1. ToLog
      BY SMTT(30), <1>5, <1>7, <2>1
    <3>2. (Cell(mem, x) # None => InLog(Cell(mem, x), x))'
      BY Zenon, <1>7, <3>1 DEF LogFirst, InLog
    <3>3. (\A e \in Clients : pc[e] = 2 /\ Asked(e, x) # None => InLog(Asked(e, x), x))'
      BY Zenon, <1>3, <1>4, <1>7, <3>1 DEF LogFirst, InLog
    <3>4. (restarts = 0 => \A i \in DOMAIN Log : Cell(Given(Log[i]), x) # None =>
             Cell(mem, x) # None \/ \E e \in Clients : pc[e] = 2 /\ Asked(e, x) # None)'
      BY SMTT(30), <1>1, <1>3, <1>4, <1>7, <2>1, <3>1 DEF LogFirst
    <3> QED BY ONLY Zenon, <3>2, <3>3, <3>4 DEF LogFirst
  <2>2. CASE pc[c] = 2
    <3>1. ToRDB
      BY <1>6, <1>7, <2>2
    <3>2. (Cell(mem, x) # None => InLog(Cell(mem, x), x))'
      BY Zenon, <1>7, <2>2, <3>1 DEF LogFirst, InLog
    <3>3. (\A e \in Clients : pc[e] = 2 /\ Asked(e, x) # None => InLog(Asked(e, x), x))'
      BY Zenon, <1>3, <1>4, <1>7, <2>2, <3>1 DEF LogFirst, InLog
    <3>4. (restarts = 0 => \A i \in DOMAIN Log : Cell(Given(Log[i]), x) # None =>
             Cell(mem, x) # None \/ \E e \in Clients : pc[e] = 2 /\ Asked(e, x) # None)'
      BY Zenon, <1>1, <1>3, <1>4, <1>7, <2>2, <3>1 DEF LogFirst
    <3> QED BY ONLY Zenon, <3>2, <3>3, <3>4 DEF LogFirst
  <2> QED BY Zenon, <1>1, <2>1, <2>2
<1>8. ASSUME persist = <<"rdb", "aof">>, LogSecond(x) PROVE LogSecond(x)'
  <2>1. CASE pc[c] = 1
    <3>1. ToRDB
      BY <1>6, <1>8, <2>1
    <3>2. (Cell(mem, x) # None =>
             InLog(Cell(mem, x), x) \/ \E e \in Clients : pc[e] = 2 /\ Asked(e, x) = Cell(mem, x))'
      BY Zenon, <1>3, <1>4, <1>8, <2>1, <3>1 DEF LogSecond, InLog
    <3>3. (\A e \in Clients : pc[e] = 2 /\ Asked(e, x) # None => Cell(mem, x) # None)'
      BY Zenon, <1>3, <1>4, <1>8, <2>1, <3>1 DEF LogSecond
    <3>4. (\A i \in DOMAIN Log : Cell(Given(Log[i]), x) # None => Cell(mem, x) # None)'
      BY Zenon, <1>1, <1>8, <3>1 DEF LogSecond
    <3> QED BY ONLY Zenon, <3>2, <3>3, <3>4 DEF LogSecond
  <2>2. CASE pc[c] = 2
    <3>1. ToLog
      BY SMTT(30), <1>5, <1>8, <2>2
    <3>2. (Cell(mem, x) # None =>
             InLog(Cell(mem, x), x) \/ \E e \in Clients : pc[e] = 2 /\ Asked(e, x) = Cell(mem, x))'
      BY Zenon, <1>3, <1>4, <1>8, <2>2, <3>1 DEF LogSecond, InLog
    <3>3. (\A e \in Clients : pc[e] = 2 /\ Asked(e, x) # None => Cell(mem, x) # None)'
      BY Zenon, <1>3, <1>4, <1>8, <2>2, <3>1 DEF LogSecond
    <3>4. (\A i \in DOMAIN Log : Cell(Given(Log[i]), x) # None => Cell(mem, x) # None)'
      BY SMTT(30), <1>1, <1>8, <2>2, <3>1 DEF LogSecond
    <3> QED BY ONLY Zenon, <3>2, <3>3, <3>4 DEF LogSecond
  <2> QED BY Zenon, <1>1, <2>1, <2>2
<1> QED BY Zenon, <1>7, <1>8

(* DualInv is inductive. *)
LEMMA DualStep == LifeInv /\ OffsetInv /\ DualInv /\ [Next]_vars => DualInv'
<1> SUFFICES ASSUME LifeInv, OffsetInv, DualInv, [Next]_vars, phase' = "up" PROVE DualInv'
  BY Zenon DEF DualInv
<1>1. CASE StartNetwork
  <2>1. UNCHANGED <<persist, mem, aof, pos, pc, restarts>> /\ mem = Empty /\ \A c \in Clients : pc[c] = 0
    BY Zenon, <1>1 DEF StartNetwork, data, LifeInv, Running
  <2>2. phase = "replayed" /\ Log' = Log
    BY Zenon, <1>1, <2>1 DEF StartNetwork, Log
  <2>3. aof = <<>> \/ pos = 0 => DOMAIN Log' = {}
    <3>1. DOMAIN Log = 1 .. pos /\ pos \in 0 .. Len(aof)
      BY DEF LifeInv, Log
    <3>2. aof = <<>> => Len(aof) = 0
      OBVIOUS
    <3> QED BY <2>2, <3>1, <3>2
  <2>4. ASSUME NEW x \in Cells
        PROVE  /\ LogFirst(x)'
               /\ persist[1] # "aof" => LogSecond(x)'
    <3>1. Cell(mem', x) = None
      BY Zenon, <2>1, EmptyCells
    <3>2. \A c \in Clients : pc'[c] # 2
      BY <2>1
    <3>3. restarts' = 0 \/ persist[1] # "aof" => DOMAIN Log' = {}
      BY Zenon, <2>1, <2>2, <2>3 DEF OffsetInv
    <3> QED BY Zenon, <3>1, <3>2, <3>3 DEF LogFirst, LogSecond
  <2>5. persist = <<"rdb", "aof">> => persist[1] # "aof"
    OBVIOUS
  <2> QED BY Zenon, <2>1, <2>4, <2>5 DEF DualInv
<1>2. ASSUME NEW c \in Clients, WriteBackend(c), phase = "up" PROVE DualInv'
  <2>1. UNCHANGED <<phase, persist>>
    BY Zenon, <1>2 DEF WriteBackend
  <2>2. ASSUME Len(persist) = 2, NEW x \in Cells
        PROVE  /\ persist = <<"aof", "rdb">> /\ LogFirst(x) => LogFirst(x)'
               /\ persist = <<"rdb", "aof">> /\ LogSecond(x) => LogSecond(x)'
    BY Zenon, <1>2, <2>2, DualWrite
  <2>3. persist \in {<<"aof", "rdb">>, <<"rdb", "aof">>} => Len(persist) = 2
    OBVIOUS
  <2> QED BY Zenon, <1>2, <2>1, <2>2, <2>3 DEF DualInv
<1>3. ASSUME UNCHANGED <<phase, persist, aof, pos, mem, restarts>>, \A c \in Clients : pc'[c] = 2 <=> pc[c] = 2,
             \A c \in Clients : pc[c] = 2 => call'[c] = call[c]
      PROVE  DualInv'
  <2>1. ASSUME NEW x \in Cells, NEW c \in Clients, pc[c] = 2 PROVE Asked(c, x)' = Asked(c, x)
    BY Zenon, <1>3, <2>1 DEF Asked
  <2>2. ASSUME NEW x \in Cells, LogFirst(x) PROVE LogFirst(x)'
    <3>1. Log' = Log /\ mem' = mem /\ restarts' = restarts
      BY Zenon, <1>3 DEF Log
    <3>2. (Cell(mem, x) # None => InLog(Cell(mem, x), x))'
      BY Zenon, <2>2, <3>1 DEF LogFirst, InLog
    <3>3. (\A c \in Clients : pc[c] = 2 /\ Asked(c, x) # None => InLog(Asked(c, x), x))'
      BY Zenon, <1>3, <2>1, <2>2, <3>1 DEF LogFirst, InLog
    <3>4. (restarts = 0 => \A i \in DOMAIN Log : Cell(Given(Log[i]), x) # None =>
             Cell(mem, x) # None \/ \E e \in Clients : pc[e] = 2 /\ Asked(e, x) # None)'
      BY Zenon, <1>3, <2>1, <2>2, <3>1 DEF LogFirst
    <3> QED BY ONLY Zenon, <3>2, <3>3, <3>4 DEF LogFirst
  <2>3. ASSUME NEW x \in Cells, LogSecond(x) PROVE LogSecond(x)'
    BY Zenon, <1>3, <2>1, <2>3 DEF LogSecond, InLog, Log
  <2> QED BY Zenon, <1>3, <2>2, <2>3 DEF DualInv
<1>4. ASSUME NEW c \in Clients, Call(c), phase = "up" PROVE DualInv'
  <2>1. /\ UNCHANGED <<phase, persist, aof, pos, mem, restarts>> /\ pc[c] = 0
        /\ \A e \in Clients : e # c => pc'[e] = pc[e] /\ call'[e] = call[e]
        /\ pc'[c] \in {1, Len(persist) + 1}
    BY Zenon, <1>4 DEF Call, LifeInv
  <2>2. CASE Len(persist) = 2
    BY <1>3, <2>1, <2>2
  <2>3. CASE Len(persist) # 2
    <3>1. persist' \notin {<<"aof", "rdb">>, <<"rdb", "aof">>}
      BY Zenon, <2>1, <2>3
    <3> QED BY Zenon, <3>1 DEF DualInv
  <2> QED BY Zenon, <2>2, <2>3
<1>5. ASSUME NEW c \in Clients, HandleCall(c), phase = "up" PROVE DualInv'
  <2>1. /\ UNCHANGED <<phase, persist, aof, pos, mem, restarts>> /\ pc[c] = Len(persist) + 1
        /\ \A e \in Clients : e # c => pc'[e] = pc[e] /\ call'[e] = call[e]
        /\ pc'[c] = 0
    BY Zenon, <1>5 DEF HandleCall, LifeInv
  <2>2. CASE Len(persist) = 2
    BY <1>3, <2>1, <2>2
  <2>3. CASE Len(persist) # 2
    <3>1. persist' \notin {<<"aof", "rdb">>, <<"rdb", "aof">>}
      BY Zenon, <2>1, <2>3
    <3> QED BY Zenon, <3>1 DEF DualInv
  <2> QED BY Zenon, <2>2, <2>3
<1>6. ASSUME UNCHANGED <<phase, persist, aof, pos, mem, restarts, pc, call>> PROVE DualInv'
  BY Zenon, <1>3, <1>6
<1>7. CASE BeginSnapshot \/ EndSnapshot
  BY Zenon, <1>6, <1>7 DEF BeginSnapshot, EndSnapshot
<1>8. ASSUME NEW k \in Keys, Drop(k) PROVE DualInv'
  BY Zenon, <1>6, <1>8 DEF Drop
<1>9. CASE UNCHANGED vars
  BY Zenon, <1>6, <1>9 DEF vars
<1>10. ~LoadConfig /\ ~BuildAll /\ ~Replay /\ ~Shutdown /\ ~CloseStore /\ ~Stop /\ ~Restart
  BY Zenon DEF LoadConfig, BuildAll, Replay, Shutdown, CloseStore, Stop, Restart
<1>11. ASSUME NEW c \in Clients, Call(c) \/ WriteBackend(c) \/ HandleCall(c) PROVE phase = "up"
  BY Zenon, <1>11 DEF Call, WriteBackend, HandleCall
<1> QED BY Zenon, <1>1, <1>2, <1>4, <1>5, <1>7, <1>8, <1>9, <1>10, <1>11 DEF Next

(* RDB's maps and the log, cell by cell, when no command is under way. *)
LEMMA AgreeCells ==
  ASSUME LifeInv, DualInv, phase = "up", Backends = {"aof", "rdb"}, \A c \in Clients : pc[c] = 0,
         NEW x \in Cells
  PROVE  /\ Cell(mem, x) # None => InLog(Cell(mem, x), x)
         /\ restarts = 0 \/ Head(persist) = "rdb" =>
              (Cell(mem, x) # None <=> Cell(Restored(Empty, Log), x) # None)
<1>1. persist \in {<<"aof", "rdb">>, <<"rdb", "aof">>}
  <2>1. persist \in Seq(Kinds) /\ Len(persist) \in {0, 1, 2} /\ DOMAIN persist = 1 .. Len(persist)
    <3>1. persist \in Seq(Kinds) /\ Len(persist) <= 2
      BY Zenon DEF LifeInv
    <3>2. Len(persist) \in Nat /\ DOMAIN persist = 1 .. Len(persist)
      BY <3>1
    <3> QED BY <3>1, <3>2
  <2>2. {persist[i] : i \in 1 .. Len(persist)} = {"aof", "rdb"}
    BY Zenon, <2>1 DEF Backends, Range
  <2>3. Len(persist) = 2
    <3>1. PICK i \in 1 .. Len(persist), j \in 1 .. Len(persist) : persist[i] = "aof" /\ persist[j] = "rdb"
      BY Zenon, <2>2
    <3> QED BY <2>1, <3>1
  <2>4. persist = <<persist[1], persist[2]>>
    BY <2>1, <2>3
  <2>5. persist[1] \in {"aof", "rdb"} /\ persist[2] \in {"aof", "rdb"} /\ persist[1] # persist[2]
    BY <2>2, <2>3
  <2> QED BY Zenon, <2>4, <2>5
<1>2. \A c \in Clients : pc[c] # 2
  OBVIOUS
<1>h. persist = <<"aof", "rdb">> => Head(persist) # "rdb"
  OBVIOUS
<1>3. /\ Cell(mem, x) # None => InLog(Cell(mem, x), x)
      /\ restarts = 0 \/ Head(persist) = "rdb" =>
           \A i \in DOMAIN Log : Cell(Given(Log[i]), x) # None => Cell(mem, x) # None
  BY Zenon, <1>1, <1>2, <1>h DEF DualInv, LogFirst, LogSecond
<1>4. Log \in Seq(Commands) /\ DOMAIN Log = 1 .. Len(Log)
  BY DEF LifeInv
<1> HIDE DEF Log
<1>5. /\ Cell(Restored(Empty, Log), x) # None =>
           \E i \in DOMAIN Log : Cell(Given(Log[i]), x) = Cell(Restored(Empty, Log), x)
      /\ \A i \in DOMAIN Log : Cell(Given(Log[i]), x) # None => Cell(Restored(Empty, Log), x) # None
  BY Zenon, <1>4, LoggedWrites, EmptyCells, RestoredCells
<1> QED BY Zenon, <1>3, <1>5 DEF InLog

(* A dual backend: between calls RDB has no entry that the log up to AOF's *)
(* offset has not, and exactly its keys and fields unless AOF has begun    *)
(* with a log of earlier processes.                                        *)
THEOREM DualAgrees == Spec => []BackendsAgree
<1>1. LifeInv /\ OffsetInv /\ DualInv => BackendsAgree
  <2> DEFINE same == restarts = 0 \/ Head(persist) = "rdb"
             log == Restored(Empty, Log)
             written == {aof[i] : i \in 1 .. pos}
  <2> SUFFICES ASSUME LifeInv, DualInv, phase = "up", Backends = {"aof", "rdb"},
                      \A c \in Clients : pc[c] = 0
               PROVE  /\ GivenBy(mem, written)
                      /\ same => /\ Present(mem.strings) = Present(log.strings)
                                 /\ \A k \in Keys : Present(mem.hashes[k]) = Present(log.hashes[k])
    BY Zenon DEF BackendsAgree, Log
  <2>1. mem \in Stored /\ log \in Stored
    BY Zenon, LoggedWrites, EmptyCells, RestoredCells DEF LifeInv
  <2>2. ASSUME NEW x \in Cells
        PROVE  /\ Cell(mem, x) # None => InLog(Cell(mem, x), x)
               /\ same => (Cell(mem, x) # None <=> Cell(log, x) # None)
    BY Zenon, AgreeCells
  <2>3. GivenBy(mem, written)
    <3>1. DOMAIN Log = 1 .. pos /\ \A i \in 1 .. pos : Log[i] = aof[i]
      BY DEF LifeInv, Log
    <3>2. \A x \in Cells : Cell(mem, x) # None => \E cmd \in written : Cell(Given(cmd), x) = Cell(mem, x)
      BY Zenon, <2>2, <3>1 DEF InLog
    <3> HIDE DEF written
    <3> QED BY Zenon, <2>1, <3>2, GivenCells
  <2> HIDE DEF same, log, written
  <2>4. ASSUME same, NEW k \in Keys
        PROVE  mem.strings[k] # None <=> log.strings[k] # None
    <3> DEFINE x == <<"string", k, None>>
    <3>1. x \in Cells /\ \A d : Cell(d, x) = d.strings[k]
      BY Zenon DEF Cells, Cell
    <3> HIDE DEF x
    <3> QED BY Zenon, <2>2, <2>4, <3>1
  <2>5. ASSUME same, NEW k \in Keys, NEW f \in Fields
        PROVE  mem.hashes[k][f] # None <=> log.hashes[k][f] # None
    <3> DEFINE x == <<"field", k, f>>
    <3>1. x \in Cells /\ \A d : Cell(d, x) = d.hashes[k][f]
      BY Zenon DEF Cells, Cell
    <3> HIDE DEF x
    <3> QED BY Zenon, <2>2, <2>5, <3>1
  <2>6. ASSUME same PROVE Present(mem.strings) = Present(log.strings)
    <3>1. DOMAIN mem.strings = Keys /\ DOMAIN log.strings = Keys
      BY Zenon, <2>1 DEF Stored
    <3> QED BY Zenon, <2>4, <2>6, <3>1 DEF Present
  <2>7. ASSUME same, NEW k \in Keys PROVE Present(mem.hashes[k]) = Present(log.hashes[k])
    <3>1. DOMAIN mem.hashes[k] = Fields /\ DOMAIN log.hashes[k] = Fields
      BY Zenon, <2>1 DEF Stored
    <3> QED BY Zenon, <2>5, <2>7, <3>1 DEF Present
  <2> QED BY Zenon, <2>3, <2>6, <2>7
<1>2. Init => DualInv
  BY Zenon DEF Init, DualInv
<1> QED BY <1>1, <1>2, LifeInit, LifeStep, OffsetStep, DualStep, PTL DEF Spec
=============================================================================
