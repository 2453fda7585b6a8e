------------------------------- MODULE Config -------------------------------
(***************************************************************************)
(* config/config.go.  A Config is a record with the fields of its four     *)
(* sections side by side; the zero value of a text is "", that of          *)
(* max_memory <<>>, and a section that is missing is None.  The            *)
(* environment is a function from the names of the variables that are set, *)
(* without their prefix, to their values; numbers are decimal texts there. *)
(***************************************************************************)
EXTENDS Decimal

CONSTANTS
  None, Error,
  Unopenable,  \* paths that os.OpenFile refuses
  Durations,   \* texts that time.ParseDuration accepts
  Positive,    \* and those that time.NewTicker accepts of them
  Kilo,        \* 1 << 10
  MaxInt64     \* bound of int64

Numeric == {"port", "health_port", "metrics_port", "max_connections", "shard_count", "degree", "max_keys"}

Nested == {"primary", "secondary"}

(* The value of a variable if it is set, and otherwise the old one. *)
Override(old, name, env) == IF name \in DOMAIN env THEN env[name] ELSE old

FromEnv(cfg, env) ==
  [f \in DOMAIN cfg |->
     IF f \in Numeric
       THEN LET n == IF f \in DOMAIN env THEN ParseInt(env[f]) ELSE <<>>
            IN  IF n = <<>> THEN cfg[f] ELSE n[1]
     ELSE IF f \notin Nested THEN Override(cfg[f], f, env)
     ELSE IF cfg[f] = None THEN None
     ELSE [cfg[f] EXCEPT !.type = Override(@, f \o "_type", env),
                         !.file = Override(@, f \o "_file", env)]]

Default ==
  [port |-> 6379, health_port |-> 0, metrics_port |-> 0, max_connections |-> 0,
   network |-> "tcp", max_memory |-> <<>>, cert_file |-> "", key_file |-> "", socket_path |-> "",
   store_type |-> "map", store_file |-> "", shard_count |-> 0, degree |-> 0,
   persistence_type |-> "null", persistence_file |-> "", persistence_interval |-> "",
   primary |-> None, secondary |-> None,
   eviction_policy |-> "noeviction", max_keys |-> 0]

(* What Load fills in after the environment. *)
FillIn(cfg) ==
  [f \in DOMAIN cfg |->
     IF \/ f = "port" /\ cfg[f] = 0
        \/ f \in {"network", "store_type", "persistence_type", "eviction_policy"} /\ cfg[f] = ""
     THEN Default[f] ELSE cfg[f]]

Multipliers == <<"K", "M", "G", "T">>

Wrap(n) == ((n + MaxInt64 + 1) % (2 * (MaxInt64 + 1))) - (MaxInt64 + 1)

(* <<n>> for the text of a number of bytes, <<>> for any other text. *)
ParseBytes(s) ==
  LET n == Len(s)
      power(c) == IF c \in Range(Multipliers) THEN CHOOSE i \in 1 .. 4 : Multipliers[i] = c ELSE 0
      long == s[n] = "B"
      p == IF long THEN power(s[n - 1]) ELSE power(s[n])
      cut == IF p = 0 THEN 0 ELSE IF long THEN 2 ELSE 1
      num == ParseInt(SubSeq(s, 1, n - cut))
  IN  IF n < 2 \/ (long /\ p = 0) \/ num = <<>> THEN <<>>
      ELSE <<Wrap(num[1] * Kilo^p)>>

(* Mutant: a network that BuildNetwork does not know. *)
ValidNetworksExtra == {"tcp", "tls", "unix", "http", "grpc", "quic"}

ValidNetworks == {"tcp", "tls", "unix", "http", "grpc"}

ValidStores == {"map", "sharded", "syncmap", "lockfree", "skiplist", "bptree", "art", "crdt", "bitcask"}

ValidPersistence == {"null", "aof", "wal", "rdb", "dual"}

ValidEvictions == {"noeviction", "allkeys-lru", "allkeys-lfu", "allkeys-random", "volatile-ttl"}

MaxPort == 65535

ASSUME ConfigAssumption ==
  /\ Error \notin ValidPersistence
  /\ Positive \subseteq Durations /\ "" \notin Durations

Validate(cfg) ==
  /\ cfg.port \in 1 .. MaxPort
  /\ cfg.health_port \in 0 .. MaxPort
  /\ cfg.metrics_port \in 0 .. MaxPort
  /\ cfg.max_connections >= 0
  /\ cfg.max_memory # <<>> => ParseBytes(cfg.max_memory) # <<>>
  /\ cfg.network \in ValidNetworks
  /\ cfg.store_type \in ValidStores
  /\ cfg.persistence_type \in ValidPersistence
  /\ cfg.eviction_policy \in ValidEvictions
  /\ cfg.store_type = "bitcask" => cfg.store_file # ""
  /\ cfg.network = "tls" => cfg.cert_file # "" /\ cfg.key_file # ""
  /\ cfg.network = "unix" => cfg.socket_path # ""
  /\ cfg.persistence_type = "dual" => cfg.primary # None /\ cfg.secondary # None
  /\ cfg.persistence_type \in {"aof", "wal", "rdb"} => cfg.persistence_file # ""

Load(yaml, env) ==
  LET cfg == FillIn(FromEnv(yaml, env))
  IN  IF Validate(cfg) THEN cfg ELSE Error

(* Whether the store can be made: only Bitcask opens a file. *)
BuildStore(cfg) == cfg.store_type # "bitcask" \/ cfg.store_file \notin Unopenable

(* The sections that buildPersistence makes backends of: those of a dual   *)
(* one have no sections of their own.                                      *)
Sections(cfg) ==
  IF cfg.persistence_type = "dual" THEN <<cfg.primary, cfg.secondary>>
  ELSE <<[type |-> cfg.persistence_type, file |-> cfg.persistence_file, interval |-> cfg.persistence_interval]>>

(* One backend: a type that is not known gives the null one, and an RDB    *)
(* that can never create its file is as good as that.                      *)
BuildBackend(s) ==
  CASE s.type \in {"aof", "wal"} -> IF s.file \in Unopenable THEN Error ELSE s.type
    [] s.type = "rdb" -> IF s.interval \notin Durations \cup {""} THEN Error
                         ELSE IF s.file \in Unopenable THEN "null" ELSE "rdb"
    [] s.type = "dual" -> Error
    [] OTHER -> "null"

(* The backends that commands are written to, in order, or <<>>. *)
BuildPersistence(cfg) ==
  LET parts == [i \in DOMAIN Sections(cfg) |-> BuildBackend(Sections(cfg)[i])]
  IN  IF Error \in Range(parts) THEN <<>> ELSE parts

(* RDB's loop panics in time.NewTicker, unless it reads the interval       *)
(* before NewRDBWithInterval sets it.                                      *)
MayPanic(cfg) == \E s \in Range(Sections(cfg)) : s.type = "rdb" /\ s.interval \in Durations \ Positive

BuildEvictionPolicy(cfg) == cfg.eviction_policy \in ValidEvictions

(* Build gives the backends, or <<>> for an error. *)
Build(cfg) ==
  IF Validate(cfg) /\ BuildStore(cfg) /\ BuildEvictionPolicy(cfg) THEN BuildPersistence(cfg) ELSE <<>>

BuildNetwork(cfg) ==
  CASE cfg.network \in {"tcp", "http", "grpc"} -> TRUE
    [] cfg.network = "tls" -> cfg.cert_file # "" /\ cfg.key_file # ""
    [] cfg.network = "unix" -> cfg.socket_path # ""
    [] OTHER -> FALSE
=============================================================================
