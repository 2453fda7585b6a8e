------------------------------- MODULE Server -------------------------------
(***************************************************************************)
(* main.go and network/: the main goroutine from its select to its exit,   *)
(* the goroutine that runs Listen, and one goroutine per connection or, in *)
(* gRPC, per call.  The transport "resp" is tcp.go; TLS and Unix run the   *)
(* same loops.  With "http" a connection carries one request after         *)
(* another; with "grpc" its calls run side by side.  A command is numbered *)
(* by its client; its kind is "SET" for the commands onWrite logs, "GET"   *)
(* for the other commands that have a handler, "OTHER" for those that have *)
(* none, "AUTH" and "WRONG" for AUTH with the right and a wrong password.  *)
(* What the handlers do to the store is in TTLStore; here a handler that   *)
(* writes adds its command to `applied`.                                   *)
(***************************************************************************)
EXTENDS Integers, Sequences, FiniteSets, Functions

CONSTANTS
  Conns,          \* the connections, each of which may be dialled again
  Kinds,          \* the kinds of commands the clients send
  Configs,        \* the transports with maxConns (0 is no limit) and password,
                  \* and a bound on the commands each client sends
  ListenerFails,  \* whether net.Listen and Accept may fail by themselves
  MaxCommands,    \* bound on the commands of a connection
  MaxSent         \* bound on the commands that wait in a connection

VARIABLES
  cfg,        \* the transport, t.maxConns, whether t.password is set, the bound
  main,       \* where the main goroutine is
  listen,     \* where the goroutine of Listen is
  ln,         \* t.ln: "nil", "open" or "closed"
  errCh,      \* the number of errors in the channel, of capacity 1
  signalled,  \* whether SIGTERM or SIGINT has arrived
  sem,        \* the number of tokens in t.sem
  conn,       \* the state of each connection
  auth,       \* `authenticated` of each connection
  sent,       \* the number of commands each client has sent
  inbox,      \* the commands in each connection's socket
  calls,      \* the commands that are under way, and where they are
  logFile,    \* whether p is open
  log,        \* the commands p has taken
  applied,    \* the writes the handlers have made
  replied     \* the commands each client has a reply to

procVars == <<cfg, main, listen, ln, errCh, signalled>>
connVars == <<conn, auth, inbox, calls>>
dataVars == <<logFile, log, applied>>
vars == <<procVars, connVars, dataVars, sem, sent, replied>>

ASSUME ServerAssumption ==
  /\ IsFiniteSet(Conns)
  /\ Kinds \subseteq {"SET", "GET", "OTHER", "AUTH", "WRONG"}
  /\ Configs \subseteq [transport: {"resp", "http", "grpc"}, maxConns: Nat, password: BOOLEAN,
                           sends: [Conns -> 0 .. MaxCommands]]
  /\ \A c \in Configs : c.transport # "resp" => c.maxConns = 0 /\ ~c.password
  /\ ListenerFails \in BOOLEAN
  /\ {MaxCommands, MaxSent} \subseteq Nat

Ids == 1 .. MaxCommands
Writes == Conns \X Ids
Up == main # "exited"
(* The goroutine of handleConn runs, and holds its token. *)
Served(c) == conn[c] \in {"reading", "busy"}
(* HTTP has closed its connections, or gRPC has stopped: while it drains   *)
(* it takes the calls that were on their way.                              *)
Shut == cfg.transport # "resp" /\ ln = "closed" /\ main # "drain"

TypeOK ==
  /\ cfg \in Configs
  /\ main \in {"select", "close", "drain", "wait", "closeLog", "closeStore", "exited"}
  /\ listen \in {"start", "accepting", "returned"}
  /\ ln \in {"nil", "open", "closed"}
  /\ errCh \in 0 .. 1
  /\ signalled \in BOOLEAN
  /\ sem \in 0 .. cfg.maxConns
  /\ conn \in [Conns -> {"absent", "dialled", "reading", "busy", "leaving"}]
  /\ auth \in [Conns -> BOOLEAN]
  /\ sent \in [Conns -> 0 .. MaxCommands]
  /\ inbox \in [Conns -> Seq(Ids)]
  /\ calls \subseteq [conn: Conns, id: Ids, kind: Kinds, at: {"logging", "handling", "replying"}]
  /\ logFile \in {"open", "closed"}
  /\ log \in Seq(Writes)
  /\ applied \in Seq(Writes)
  /\ replied \in [Conns -> Seq(Ids)]

Init ==
  /\ cfg \in Configs
  /\ main = "select"
  /\ listen = "start"
  /\ ln = "nil"
  /\ errCh = 0
  /\ signalled = FALSE
  /\ sem = 0
  /\ conn = [c \in Conns |-> "absent"]
  /\ auth = [c \in Conns |-> FALSE]
  /\ sent = [c \in Conns |-> 0]
  /\ inbox = [c \in Conns |-> <<>>]
  /\ calls = {}
  /\ logFile = "open"
  /\ log = <<>>
  /\ applied = <<>>
  /\ replied = [c \in Conns |-> <<>>]

-----------------------------------------------------------------------------
(* The main goroutine. *)

Signal ==
  /\ Up /\ ~signalled
  /\ signalled' = TRUE
  /\ UNCHANGED <<cfg, main, listen, ln, errCh, connVars, dataVars, sem, sent, replied>>

(* The select; when both channels are ready Go chooses one. *)
SelectDone ==
  /\ main = "select" /\ signalled
  /\ main' = "close"
  /\ UNCHANGED <<cfg, listen, ln, errCh, signalled, connVars, dataVars, sem, sent, replied>>

SelectError ==
  /\ main = "select" /\ errCh > 0
  /\ main' = "close"
  /\ errCh' = errCh - 1
  /\ UNCHANGED <<cfg, listen, ln, signalled, connVars, dataVars, sem, sent, replied>>

(* Mutant: the listener stays open. *)
CloseNothing ==
  /\ main = "close" /\ cfg.transport = "resp"
  /\ main' = "wait"
  /\ UNCHANGED <<cfg, listen, ln, errCh, signalled, connVars, dataVars, sem, sent, replied>>

(* n.Close(): nothing to close before Listen has set t.ln. *)
CloseListener ==
  /\ main = "close" /\ cfg.transport = "resp"
  /\ main' = "wait"
  /\ ln' = IF ln = "nil" THEN "nil" ELSE "closed"
  /\ UNCHANGED <<cfg, listen, errCh, signalled, connVars, dataVars, sem, sent, replied>>

(* http.Server.Close also closes the connections; handlers go on. *)
CloseServer ==
  /\ main = "close" /\ cfg.transport = "http"
  /\ main' = "wait"
  /\ ln' = IF ln = "nil" THEN "nil" ELSE "closed"
  /\ UNCHANGED <<cfg, listen, errCh, signalled, connVars, dataVars, sem, sent, replied>>

(* GracefulStop takes no new connections and waits for the calls. *)
GracefulStop ==
  /\ main = "close" /\ cfg.transport = "grpc"
  /\ main' = IF ln = "nil" THEN "wait" ELSE "drain"
  /\ ln' = IF ln = "nil" THEN "nil" ELSE "closed"
  /\ UNCHANGED <<cfg, listen, errCh, signalled, connVars, dataVars, sem, sent, replied>>

(* Mutant: Stop, which does not wait. *)
StopNow ==
  /\ main = "drain"
  /\ main' = "wait"
  /\ UNCHANGED <<cfg, listen, ln, errCh, signalled, connVars, dataVars, sem, sent, replied>>

Drained ==
  /\ main = "drain"
  /\ calls = {}
  /\ main' = "wait"
  /\ UNCHANGED <<cfg, listen, ln, errCh, signalled, connVars, dataVars, sem, sent, replied>>

(* <-errCh *)
AwaitListen ==
  /\ main = "wait" /\ errCh > 0
  /\ main' = "closeLog"
  /\ errCh' = errCh - 1
  /\ UNCHANGED <<cfg, listen, ln, signalled, connVars, dataVars, sem, sent, replied>>

(* p.Close(): what is written to p from here on is lost. *)
CloseLog ==
  /\ main = "closeLog"
  /\ main' = "closeStore"
  /\ logFile' = "closed"
  /\ UNCHANGED <<cfg, listen, ln, errCh, signalled, connVars, log, applied, sem, sent, replied>>

(* s.Close() and the end of main, which ends every goroutine. *)
CloseStore ==
  /\ main = "closeStore"
  /\ main' = "exited"
  /\ UNCHANGED <<cfg, listen, ln, errCh, signalled, connVars, dataVars, sem, sent, replied>>

Main ==
  \/ SelectDone \/ SelectError
  \/ CloseListener \/ CloseServer \/ GracefulStop \/ Drained
  \/ AwaitListen \/ CloseLog \/ CloseStore

-----------------------------------------------------------------------------
(* The goroutine of Listen. *)

Bind ==
  /\ Up /\ listen = "start"
  /\ listen' = "accepting"
  /\ ln' = "open"
  /\ UNCHANGED <<cfg, main, errCh, signalled, connVars, dataVars, sem, sent, replied>>

Return ==
  /\ listen' = "returned"
  /\ errCh' = errCh + 1
  /\ UNCHANGED <<cfg, main, ln, signalled, connVars, dataVars, sem, sent, replied>>

BindFails == Up /\ listen = "start" /\ ListenerFails /\ Return

AcceptFails == Up /\ listen = "accepting" /\ ListenerFails /\ Return

(* The Serve of grpc returns after GracefulStop. *)
AcceptClosed == Up /\ listen = "accepting" /\ ln = "closed" /\ main # "drain" /\ Return

Admit(c) ==
  /\ cfg.maxConns = 0 \/ sem < cfg.maxConns
  /\ sem' = IF cfg.maxConns = 0 THEN 0 ELSE sem + 1
  /\ conn' = [conn EXCEPT ![c] = "reading"]
  /\ auth' = [auth EXCEPT ![c] = ~cfg.password]
  /\ UNCHANGED inbox

Refuse(c) ==
  /\ cfg.maxConns > 0 /\ sem = cfg.maxConns
  /\ conn' = [conn EXCEPT ![c] = "absent"]
  /\ inbox' = [inbox EXCEPT ![c] = <<>>]
  /\ UNCHANGED <<sem, auth>>

Accept(c) ==
  /\ Up /\ listen = "accepting" /\ ln = "open" /\ conn[c] = "dialled"
  /\ Admit(c) \/ Refuse(c)
  /\ UNCHANGED <<procVars, calls, dataVars, sent, replied>>

-----------------------------------------------------------------------------
(* The clients. *)

(* A connection whose calls still run keeps its name. *)
Dial(c) ==
  /\ Up /\ ln = "open" /\ conn[c] = "absent"
  /\ \A x \in calls : x.conn # c
  /\ conn' = [conn EXCEPT ![c] = "dialled"]
  /\ UNCHANGED <<procVars, auth, inbox, calls, dataVars, sem, sent, replied>>

Send(c) ==
  /\ Up
  /\ conn[c] = "dialled" \/ Served(c)
  /\ ~Shut
  /\ sent[c] < cfg.sends[c] /\ Len(inbox[c]) < MaxSent
  /\ sent' = [sent EXCEPT ![c] = @ + 1]
  /\ inbox' = [inbox EXCEPT ![c] = Append(@, sent[c] + 1)]
  /\ UNCHANGED <<procVars, conn, auth, calls, dataVars, sem, replied>>

-----------------------------------------------------------------------------
(* The goroutine of a connection: handleConn. *)

(* Mutant: the command that was read stays in the socket. *)
TakeKeep(c, n) ==
  /\ Up /\ conn[c] = "reading" /\ n <= Len(inbox[c])
  /\ inbox' = [inbox EXCEPT ![c] = SubSeq(@, n, Len(@))]

(* Every command is read by a new bufio.Reader: of what is in the socket   *)
(* it takes the first n commands, and only the first of these is used.     *)
Take(c, n) ==
  /\ Up /\ conn[c] = "reading" /\ n <= Len(inbox[c])
  /\ inbox' = [inbox EXCEPT ![c] = SubSeq(@, n + 1, Len(@))]

(* The goroutine of the connection is busy with the command, except in     *)
(* gRPC, where every call has a goroutine of its own.                      *)
Begin(c, kind, at) ==
  /\ calls' = calls \cup {[conn |-> c, id |-> inbox[c][1], kind |-> kind, at |-> at]}
  /\ conn' = [conn EXCEPT ![c] = IF cfg.transport = "grpc" THEN "reading" ELSE "busy"]

(* Before authentication every command is answered, and none is handled. *)
ReadAuth(c, n, kind) ==
  /\ Take(c, n)
  /\ ~auth[c]
  /\ auth' = [auth EXCEPT ![c] = (kind = "AUTH")]
  /\ replied' = [replied EXCEPT ![c] = Append(@, inbox[c][1])]
  /\ UNCHANGED <<procVars, conn, calls, dataVars, sem, sent>>

(* A command without a handler is skipped without a reply. *)
ReadUnknown(c, n, kind) ==
  /\ Take(c, n)
  /\ auth[c] /\ kind \notin {"SET", "GET"}
  /\ UNCHANGED <<procVars, conn, auth, calls, dataVars, sem, sent, replied>>

ReadCommand(c, n, kind) ==
  /\ Take(c, n)
  /\ auth[c] /\ kind \in {"SET", "GET"}
  /\ Begin(c, kind, "logging")
  /\ UNCHANGED <<procVars, auth, dataVars, sem, sent, replied>>

Read(c) ==
  /\ cfg.transport = "resp"
  /\ \E n \in 1 .. MaxSent, kind \in Kinds :
       ReadAuth(c, n, kind) \/ ReadUnknown(c, n, kind) \/ ReadCommand(c, n, kind)

(* A request that names a handler goes on to onWrite, and any other is     *)
(* answered with an error.                                                 *)
Request(c, kind) ==
  /\ ~Shut
  /\ Take(c, 1)
  /\ Begin(c, kind, IF kind \in {"SET", "GET"} THEN "logging" ELSE "replying")
  /\ UNCHANGED <<procVars, auth, dataVars, sem, sent, replied>>

(* "OTHER" is also a request that is no POST or has no command in it. *)
HandleCommand(c) == cfg.transport = "http" /\ \E kind \in Kinds : Request(c, kind)

(* A call of gRPC begins while others of its connection run. *)
Exec(c) == cfg.transport = "grpc" /\ \E kind \in Kinds : Request(c, kind)

GoesOn(x, at) == calls' = (calls \ {x}) \cup {[x EXCEPT !.at = at]}

(* onWrite: the error p.Write returns once p is closed is ignored. *)
OnWrite(x) ==
  /\ Up /\ x.at = "logging"
  /\ GoesOn(x, "handling")
  /\ log' = IF x.kind = "SET" /\ logFile = "open" THEN Append(log, <<x.conn, x.id>>) ELSE log
  /\ UNCHANGED <<procVars, conn, auth, inbox, logFile, applied, sem, sent, replied>>

Handle(x) ==
  /\ Up /\ x.at = "handling"
  /\ GoesOn(x, "replying")
  /\ applied' = IF x.kind = "SET" THEN Append(applied, <<x.conn, x.id>>) ELSE applied
  /\ UNCHANGED <<procVars, conn, auth, inbox, logFile, log, sem, sent, replied>>

(* The connection of an HTTP request may have been closed meanwhile, and   *)
(* the client of a gRPC call may have left.                                *)
Reply(x) ==
  /\ Up /\ x.at = "replying"
  /\ calls' = calls \ {x}
  /\ conn' = IF conn[x.conn] = "busy" THEN [conn EXCEPT ![x.conn] = "reading"] ELSE conn
  /\ replied' = IF Served(x.conn) /\ ~(Shut /\ cfg.transport = "http")
                THEN [replied EXCEPT ![x.conn] = Append(@, x.id)] ELSE replied
  /\ UNCHANGED <<procVars, auth, inbox, dataVars, sem, sent>>

(* Mutant: the token is not given back. *)
LeaveToken(c) ==
  /\ Up /\ conn[c] = "reading"
  /\ conn' = [conn EXCEPT ![c] = "leaving"]
  /\ UNCHANGED <<procVars, auth, inbox, calls, dataVars, sem, sent, replied>>

(* Mutant: the token is given back twice. *)
CloseConnToken(c) ==
  /\ Up /\ conn[c] = "leaving"
  /\ conn' = [conn EXCEPT ![c] = "absent"]
  /\ sem' = IF cfg.maxConns = 0 THEN 0 ELSE sem - 1
  /\ UNCHANGED <<procVars, auth, inbox, calls, dataVars, sent, replied>>

(* The client has gone: the deferred calls run, the token's first. *)
Leave(c) ==
  /\ Up /\ conn[c] = "reading"
  /\ conn' = [conn EXCEPT ![c] = "leaving"]
  /\ sem' = IF cfg.maxConns = 0 THEN 0 ELSE sem - 1
  /\ inbox' = [inbox EXCEPT ![c] = <<>>]
  /\ auth' = [auth EXCEPT ![c] = FALSE]
  /\ UNCHANGED <<procVars, calls, dataVars, sent, replied>>

CloseConn(c) ==
  /\ Up /\ conn[c] = "leaving"
  /\ conn' = [conn EXCEPT ![c] = "absent"]
  /\ UNCHANGED <<procVars, auth, inbox, calls, dataVars, sem, sent, replied>>

Serve(c) ==
  \/ Read(c) \/ HandleCommand(c) \/ Exec(c) \/ CloseConn(c)
  \/ \E x \in calls : x.conn = c /\ (OnWrite(x) \/ Handle(x) \/ Reply(x))

-----------------------------------------------------------------------------

Next ==
  \/ Signal
  \/ Main
  \/ Bind \/ BindFails \/ AcceptFails \/ AcceptClosed
  \/ \E c \in Conns : Accept(c) \/ Dial(c) \/ Send(c) \/ Serve(c) \/ Leave(c)

Spec == Init /\ [][Next]_vars

(* Every goroutine that can go on does. *)
Fairness ==
  /\ WF_vars(Main)
  /\ WF_vars(Bind)
  /\ WF_vars(AcceptClosed)
  /\ \A c \in Conns : WF_vars(Serve(c))

FairSpec == Spec /\ Fairness

-----------------------------------------------------------------------------

Once(s) == \A i, j \in DOMAIN s : s[i] = s[j] => i = j

(* The commands of each connection are in the order in which it sent them. *)
InOrder(s) ==
  \A i, j \in DOMAIN s : i < j /\ s[i][1] = s[j][1] => s[i][2] < s[j][2]

(* The writes that are between onWrite and their handlers. *)
Unapplied == {<<x.conn, x.id>> : x \in {y \in calls : y.at = "handling" /\ y.kind = "SET"}}

(* The tokens in the semaphore are the connections being served, however   *)
(* connections are refused, dropped and dialled again: no token is lost    *)
(* and no connection is served without one (Listen, handleConn).           *)
SlotsHeld ==
  cfg.maxConns > 0 => sem = Cardinality({c \in Conns : Served(c)})

(* A write is logged, and applied, once; over RESP and HTTP the writes of  *)
(* a connection are in the order in which they were sent, and over gRPC,   *)
(* which runs the calls of a connection side by side, in any.  While p is  *)
(* open every transport logs before it applies: the log has the writes     *)
(* that were applied and those that are between onWrite and their handler. *)
(* With gRPC this holds to the end of a process whose Close found a server *)
(* to stop, since GracefulStop has waited for the calls that run when p is *)
(* closed; the others go on applying writes that are not in the log.       *)
LogIsAhead ==
  /\ Once(log) /\ Once(applied)
  /\ cfg.transport # "grpc" => InOrder(log) /\ InOrder(applied)
  /\ logFile = "open" \/ (Shut /\ cfg.transport = "grpc") =>
       /\ Range(log) = Range(applied) \cup Unapplied
       /\ Range(applied) \cap Unapplied = {}

(* No command is answered twice, over all the times the client dials and   *)
(* however many calls it has under way; over RESP and HTTP the replies     *)
(* come in the order of the commands (handleConn, handleCommand, Take).    *)
RepliesInOrder ==
  \A c \in Conns :
    /\ Once(replied[c])
    /\ cfg.transport # "grpc" =>
         \A i, j \in DOMAIN replied[c] : i < j => replied[c][i] < replied[c][j]

(* A shutdown that finds Listen accepting ends the process (main). *)
ShutdownFromListening ==
  (main = "close" /\ listen = "accepting") ~> (main = "exited")

(* When Listen returns an error the process ends (main). *)
StopsOnError == (listen = "returned") ~> (main = "exited")

(* A command that was sent is answered unless its client or the server     *)
(* goes away (handleConn).                                                 *)
SentIsAnswered ==
  \A c \in Conns : \A i \in Ids :
    (Served(c) /\ i \in Range(inbox[c]))
      ~> (i \in Range(replied[c]) \/ ~Served(c) \/ main # "select")
=============================================================================
