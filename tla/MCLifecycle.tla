---------------------------- MODULE MCLifecycle ----------------------------
(* Configurations around the boundaries, and few commands with empty texts. *)
EXTENDS Lifecycle, TLC

MCSymmetry == Permutations(Clients)

Cmd(name, args) == [name |-> name, args |-> args]

(* "a0" and "x0" are "ab" and "xy" with a zero for the second byte. *)
MCKeys == {"", "ab", "a0"}
MCFields == {"", "f"}

MCTexts == MCKeys \cup MCFields \cup {"xy", "x0"}

MCPadded == [t \in MCTexts |-> CASE t = "ab" -> {"a0"} [] t = "xy" -> {"x0"} [] OTHER -> {}]

MCCommands ==
  {Cmd("SET", <<"ab", "xy">>), Cmd("SET", <<"ab", "">>), Cmd("SET", <<"", "">>), Cmd("SET", <<"ab">>),
   Cmd("HSET", <<"ab", "f", "xy">>), Cmd("HSET", <<"ab", "", "xy">>), Cmd("HSET", <<"ab", "f", "", "xy">>),
   Cmd("DEL", <<"ab">>)}

Backend(type, path, interval) == [type |-> type, file |-> path, interval |-> interval]

With(type, path, interval) ==
  [Default EXCEPT !.persistence_type = type, !.persistence_file = path, !.persistence_interval = interval]

Dual(p, s) == [With("dual", "", "") EXCEPT !.primary = p, !.secondary = s]

MCYamls ==
  {[Default EXCEPT !.port = 0, !.network = "", !.store_type = "", !.persistence_type = ""],
   With("aof", "log", ""), [With("aof", "log", "") EXCEPT !.store_type = "bitcask", !.store_file = "data"],
   With("aof", "", ""), With("aof", "locked", ""),
   With("rdb", "dump", "1s"), With("rdb", "dump", "soon"), With("rdb", "dump", "0s"),
   Dual(None, Backend("aof", "log", "")),
   Dual(Backend("aof", "log", ""), Backend("rdb", "dump", "soon")),
   Dual(Backend("rdb", "dump", ""), Backend("dual", "", "")),
   Dual(Backend("rdb", "", ""), Backend("aof", "", "")),
   Dual(Backend("aof", "log", ""), Backend("rdb", "dump", "")),
   Dual(Backend("rdb", "dump", ""), Backend("aof", "log", ""))}

NoEnv == [n \in {} |-> ""]

MCEnvs ==
  {NoEnv,
   [port |-> <<"0">>], [port |-> <<"-", "1">>], [port |-> <<"7", "0", "0", "0", "0">>], [port |-> <<"x">>],
   [health_port |-> <<"-", "1">>], [metrics_port |-> <<"9", "0">>], [max_connections |-> <<"-", "1">>],
   [network |-> "quic"], [network |-> "tls"], [network |-> "tls", cert_file |-> "c", key_file |-> "k"],
   [network |-> "unix"], [network |-> "unix", socket_path |-> "s"],
   [store_type |-> "bitcask"], [store_type |-> "bitcask", store_file |-> "locked"], [store_type |-> "heap"],
   [eviction_policy |-> "fifo"],
   [secondary_type |-> "null"], [primary_file |-> "locked"],
   [max_memory |-> <<"K">>], [max_memory |-> <<"9", "M", "B">>], [max_memory |-> <<"9", "B">>],
   [max_memory |-> <<"1", "T">>], [max_memory |-> <<"1", "2">>], [max_memory |-> <<"K", "B">>]}
=============================================================================
