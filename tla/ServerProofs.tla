---------------------------- MODULE ServerProofs ----------------------------
(***************************************************************************)
(* Proofs about Server, for any set of connections, any configurations and *)
(* any bounds on what the clients send.                                    *)
(***************************************************************************)
EXTENDS Server, FiniteSetTheorems, TLAPS

-----------------------------------------------------------------------------
(* The inductive invariant.                                                *)

(* Listen sends one error and only when it returns; Close can only have    *)
(* closed a listener that Listen had opened; p is closed just before the   *)
(* end; and once GracefulStop has returned no call runs.                   *)
MainInv ==
  /\ listen # "returned" => errCh = 0
  /\ listen = "start" => ln = "nil"
  /\ ln = "closed" => main \notin {"select", "close"}
  /\ logFile = "closed" <=> main \in {"closeStore", "exited"}
  /\ cfg.transport = "grpc" /\ ln = "closed" /\ main # "drain" => calls = {}

(* The client has sent command n, and it is no longer in the socket, nor   *)
(* is any that was sent before it.                                         *)
Past(c, n) == n <= sent[c] /\ \A j \in DOMAIN inbox[c] : n < inbox[c][j]

SocketInv ==
  /\ \A c \in Conns :
       /\ \A i, j \in DOMAIN inbox[c] : i < j => inbox[c][i] < inbox[c][j]
       /\ \A j \in DOMAIN inbox[c] : inbox[c][j] <= sent[c]
       /\ \A i \in DOMAIN replied[c] : Past(c, replied[c][i])
  /\ \A x \in calls : Past(x.conn, x.id)

(* Command n of x's connection is another one and, except in gRPC, one     *)
(* that was sent before x.                                                 *)
Before(n, x) == n # x.id /\ (cfg.transport # "grpc" => n < x.id)

(* A command is under way once and has no reply yet, and a connection of   *)
(* RESP or HTTP has one command at a time.                                 *)
CallsInv ==
  \A x \in calls :
    /\ \A i \in DOMAIN replied[x.conn] : Before(replied[x.conn][i], x)
    /\ \A y \in calls : x.conn = y.conn /\ (x.id = y.id \/ cfg.transport # "grpc") => x = y
    /\ cfg.transport # "grpc" => conn[x.conn] = "busy"

(* A command is logged, and applied, after those of its connection that    *)
(* were before it.                                                         *)
WritesInv ==
  /\ \A i \in DOMAIN log :
       /\ Past(log[i][1], log[i][2])
       /\ \A x \in calls : x.conn = log[i][1] /\ x.at = "logging" => Before(log[i][2], x)
  /\ \A i \in DOMAIN applied :
       /\ Past(applied[i][1], applied[i][2])
       /\ \A x \in calls : x.conn = applied[i][1] /\ x.at # "replying" => Before(applied[i][2], x)

ServerInv ==
  TypeOK /\ SlotsHeld /\ MainInv /\ SocketInv /\ CallsInv /\ RepliesInOrder /\ WritesInv /\ LogIsAhead

-----------------------------------------------------------------------------
(* Steps of the main goroutine and of Listen, and steps of a connection.   *)

ProcStep ==
  Signal \/ Main \/ Bind \/ BindFails \/ AcceptFails \/ AcceptClosed \/ UNCHANGED vars

ConnStep(c) == Accept(c) \/ Dial(c) \/ Send(c) \/ Serve(c) \/ Leave(c)

(* The main goroutine and Listen touch no connection and no data; the file *)
(* of the log is what CloseLog closes.                                     *)
LEMMA ProcStepKeeps ==
  ASSUME ProcStep
  PROVE  UNCHANGED <<cfg, conn, auth, inbox, calls, log, applied, sem, sent, replied>>
BY Zenon DEF ProcStep, Signal, Main, SelectDone, SelectError, CloseListener, CloseServer, GracefulStop,
       Drained, AwaitListen, CloseLog, CloseStore, Bind, BindFails, AcceptFails, AcceptClosed,
       Return, vars, procVars, connVars, dataVars

(* A connection leaves the process and the log file alone. *)
LEMMA ConnStepKeeps ==
  ASSUME NEW c \in Conns, ConnStep(c)
  PROVE  UNCHANGED <<cfg, main, listen, ln, errCh, signalled, logFile>>
BY Zenon DEF ConnStep, Accept, Dial, Send, Serve, Read, ReadAuth, ReadUnknown, ReadCommand,
       HandleCommand, Exec, Request, OnWrite, Handle, Reply, CloseConn, Leave, procVars, dataVars

(* What the main goroutine and Listen do to the variables of the process. *)
LEMMA ProcInv ==
  ASSUME TypeOK, MainInv, ProcStep
  PROVE  TypeOK' /\ MainInv'
<1>u. UNCHANGED <<cfg, conn, auth, inbox, calls, log, applied, sem, sent, replied>>
  BY Zenon, ProcStepKeeps
<1>1. /\ main' \in {"select", "close", "drain", "wait", "closeLog", "closeStore", "exited"}
      /\ listen' \in {"start", "accepting", "returned"} /\ ln' \in {"nil", "open", "closed"}
      /\ errCh' \in 0 .. 1 /\ logFile' \in {"open", "closed"}
      /\ listen' # "returned" => errCh' = 0
  <2> USE DEF TypeOK, MainInv, dataVars
  <2>1. CASE Signal \/ SelectDone \/ SelectError
    BY <2>1 DEF Signal, SelectDone, SelectError
  <2>2. CASE CloseListener \/ CloseServer \/ GracefulStop \/ Drained
    BY Zenon, <2>2 DEF CloseListener, CloseServer, GracefulStop, Drained
  <2>3. CASE AwaitListen \/ CloseLog \/ CloseStore
    BY <2>3 DEF AwaitListen, CloseLog, CloseStore
  <2>4. CASE Bind \/ BindFails \/ AcceptFails \/ AcceptClosed
    BY <2>4 DEF Bind, BindFails, AcceptFails, AcceptClosed, Return
  <2>5. CASE UNCHANGED vars
    BY Zenon, <2>5 DEF vars, procVars
  <2> QED BY Zenon, <2>1, <2>2, <2>3, <2>4, <2>5 DEF ProcStep, Main
<1>4. signalled' \in BOOLEAN
  BY Zenon DEF TypeOK, ProcStep, Signal, Main, SelectDone, SelectError, CloseListener, CloseServer,
         GracefulStop, Drained, AwaitListen, CloseLog, CloseStore, Bind, BindFails, AcceptFails,
         AcceptClosed, Return, vars, procVars
<1>2. TypeOK'
  BY Zenon, <1>u, <1>1, <1>4 DEF TypeOK
<1>3. MainInv'
  BY SMTT(30), <1>u, <1>1 
  DEF TypeOK, MainInv, ProcStep, Signal, Main, SelectDone, SelectError, CloseListener, CloseServer,
         GracefulStop, Drained, AwaitListen, CloseLog, CloseStore, Bind, BindFails, AcceptFails,
         AcceptClosed, Return, vars, procVars, dataVars
<1> QED BY Zenon, <1>2, <1>3

-----------------------------------------------------------------------------
(* The steps of a connection, by what they do to its socket and to its     *)
(* commands.                                                               *)

States == {"absent", "dialled", "reading", "busy", "leaving"}

Underway == [conn: Conns, id: Ids, kind: Kinds, at: {"logging", "handling", "replying"}]

(* What is known of a command that is under way, and of what it is after   *)
(* its next step.                                                          *)
LEMMA Moved ==
  ASSUME NEW x \in Underway, NEW at \in {"logging", "handling", "replying"}
  PROVE  /\ x.conn \in Conns /\ x.id \in Ids /\ x.at \in {"logging", "handling", "replying"}
         /\ [x EXCEPT !.at = at] \in Underway
         /\ [x EXCEPT !.at = at].conn = x.conn /\ [x EXCEPT !.at = at].id = x.id
         /\ [x EXCEPT !.at = at].kind = x.kind /\ [x EXCEPT !.at = at].at = at
BY DEF Underway

(* A connection reads the first command in its socket, which loses it, and *)
(* skips it, answers it or begins it.                                      *)
Reads(c) ==
  /\ \E n \in Nat \ {0} : Take(c, n)
  /\ UNCHANGED <<sent, log, applied, sem>>
  /\ \/ UNCHANGED <<conn, calls, replied>>
     \/ /\ UNCHANGED <<conn, calls>>
        /\ replied' = [replied EXCEPT ![c] = Append(@, inbox[c][1])]
     \/ /\ \E kind \in Kinds, at \in {"logging", "replying"} : Begin(c, kind, at)
        /\ Shut => cfg.transport = "resp"
        /\ UNCHANGED replied

(* A command of the connection goes on. *)
Works(c) == \E x \in calls : x.conn = c /\ (OnWrite(x) \/ Handle(x) \/ Reply(x))

(* A connection comes or goes. *)
Comes(c) ==
  /\ inbox' = inbox \/ inbox' = [inbox EXCEPT ![c] = <<>>]
  /\ conn[c] # "busy" /\ \E state \in States \ {"busy"} : conn' = [conn EXCEPT ![c] = state]
  /\ UNCHANGED <<calls, sent, log, applied, replied>>

(* Every transport reads a command and then begins it, answers it or skips *)
(* it.                                                                     *)
LEMMA ReadSteps ==
  ASSUME NEW c \in Conns, Read(c) \/ HandleCommand(c) \/ Exec(c)
  PROVE  Reads(c)
<1>1. ASSUME NEW n \in Nat \ {0}, NEW kind \in Kinds, cfg.transport = "resp",
             ReadAuth(c, n, kind) \/ ReadUnknown(c, n, kind) \/ ReadCommand(c, n, kind)
      PROVE  Reads(c)
  BY Zenon, <1>1 DEF ReadAuth, ReadUnknown, ReadCommand, Reads, dataVars
<1>2. ASSUME NEW kind \in Kinds, Request(c, kind) PROVE Reads(c)
  <2>1. Take(c, 1) /\ 1 \in Nat \ {0} /\ ~Shut
    BY <1>2 DEF Request
  <2>2. \E at \in {"logging", "replying"} : Begin(c, kind, at)
    BY Zenon, <1>2 DEF Request
  <2> QED BY Zenon, <1>2, <2>1, <2>2 DEF Request, Reads, dataVars
<1>3. 1 .. MaxSent \subseteq Nat \ {0}
  BY ServerAssumption
<1> QED BY Zenon, <1>1, <1>2, <1>3 DEF Read, HandleCommand, Exec

(* The steps of handleConn, of its client and of Accept. *)
LEMMA ConnSteps ==
  ASSUME NEW c \in Conns, ConnStep(c)
  PROVE  Reads(c) \/ Works(c) \/ Send(c) \/ Comes(c)
<1>1. CASE Accept(c) \/ Dial(c) \/ CloseConn(c) \/ Leave(c)
  BY Zenon, <1>1 DEF Accept, Admit, Refuse, Dial, CloseConn, Leave, Comes, States, dataVars
<1> QED BY Zenon, <1>1, ReadSteps DEF ConnStep, Serve, Works

-----------------------------------------------------------------------------
(* The tokens.                                                             *)

(* What a step of a connection does to the tokens: Admit takes one and     *)
(* Leave gives it back, and the others neither start nor stop serving.     *)
LEMMA TokenStep ==
  ASSUME TypeOK, NEW c \in Conns, ConnStep(c)
  PROVE  \/ /\ ~Served(c) /\ Served(c)'
            /\ IF cfg.maxConns = 0 THEN sem' = 0 ELSE sem < cfg.maxConns /\ sem' = sem + 1
            /\ \A d \in Conns \ {c} : Served(d)' <=> Served(d)
         \/ /\ Served(c) /\ ~Served(c)'
            /\ sem' = IF cfg.maxConns = 0 THEN 0 ELSE sem - 1
            /\ \A d \in Conns \ {c} : Served(d)' <=> Served(d)
         \/ sem' = sem /\ \A d \in Conns : Served(d)' <=> Served(d)
<1>t. conn \in [Conns -> States] /\ sem \in 0 .. cfg.maxConns /\ cfg.maxConns \in Nat
  BY Zenon, ServerAssumption DEF TypeOK, States
<1> USE <1>t DEF Served, States
<1>1. CASE Accept(c) /\ Admit(c)
  BY Zenon, <1>1 DEF Accept, Admit
<1>2. CASE Leave(c)
  BY Zenon, <1>2 DEF Leave
<1>3. CASE (Accept(c) /\ Refuse(c)) \/ Dial(c) \/ Send(c) \/ CloseConn(c)
  BY ZenonT(60), <1>3 DEF Accept, Refuse, Dial, Send, CloseConn
<1>4. CASE Works(c)
  BY ZenonT(60), <1>4 DEF Works, OnWrite, Handle, Reply
<1>5. CASE Reads(c)
  <2>1. /\ sem' = sem /\ conn[c] = "reading"
        /\ \/ conn' = conn \/ conn' = [conn EXCEPT ![c] = "reading"]
           \/ conn' = [conn EXCEPT ![c] = "busy"]
    BY Zenon, <1>5 DEF Reads, Take, Begin
  <2> QED BY Zenon, <2>1
<1>6. Accept(c) \/ Dial(c) \/ Send(c) \/ CloseConn(c) \/ Leave(c) \/ Works(c) \/ Reads(c)
  BY Zenon, ReadSteps DEF ConnStep, Serve, Works
<1> QED BY Zenon, <1>1, <1>2, <1>3, <1>4, <1>5, <1>6 DEF Accept

(* However connections come and go, the semaphore counts those served, and *)
(* never more than maxConns.                                               *)
LEMMA SlotsConn ==
  ASSUME TypeOK, SlotsHeld, NEW c \in Conns, ConnStep(c)
  PROVE  SlotsHeld' /\ sem' \in 0 .. cfg.maxConns
<1> DEFINE S == {d \in Conns : Served(d)}
           T == {d \in Conns : Served(d)'}
<1>t. sem \in 0 .. cfg.maxConns /\ cfg.maxConns \in Nat /\ cfg' = cfg
  BY Zenon, ServerAssumption, ConnStepKeeps DEF TypeOK
<1>f. IsFiniteSet(S) /\ Cardinality(S) \in Nat
  BY Zenon, ServerAssumption, FS_Subset, FS_CardinalityType
<1>h. cfg.maxConns > 0 => sem = Cardinality(S)
  BY Zenon DEF SlotsHeld
<1>g. (cfg.maxConns > 0 => sem' = Cardinality(T)) => SlotsHeld'
  BY Zenon, <1>t DEF SlotsHeld
<1>1. ASSUME ~Served(c), Served(c)',
             IF cfg.maxConns = 0 THEN sem' = 0 ELSE sem < cfg.maxConns /\ sem' = sem + 1,
             \A d \in Conns \ {c} : Served(d)' <=> Served(d)
      PROVE  SlotsHeld' /\ sem' \in 0 .. cfg.maxConns
  <2>1. T = S \cup {c} /\ c \notin S
    BY Zenon, <1>1
  <2> HIDE DEF S, T
  <2>2. Cardinality(T) = Cardinality(S) + 1
    BY Zenon, <2>1, <1>f, FS_AddElement
  <2> QED BY <1>1, <1>t, <1>f, <1>h, <1>g, <2>2
<1>2. ASSUME Served(c), ~Served(c)', sem' = IF cfg.maxConns = 0 THEN 0 ELSE sem - 1,
             \A d \in Conns \ {c} : Served(d)' <=> Served(d)
      PROVE  SlotsHeld' /\ sem' \in 0 .. cfg.maxConns
  <2>1. T = S \ {c} /\ c \in S
    BY Zenon, <1>2
  <2> HIDE DEF S, T
  <2>2. Cardinality(T) = Cardinality(S) - 1 /\ Cardinality(T) \in Nat
    BY Zenon, <2>1, <1>f, FS_RemoveElement, FS_CardinalityType
  <2> QED BY <1>2, <1>t, <1>f, <1>h, <1>g, <2>2
<1>3. ASSUME sem' = sem, \A d \in Conns : Served(d)' <=> Served(d)
      PROVE  SlotsHeld' /\ sem' \in 0 .. cfg.maxConns
  <2>1. T = S
    BY Zenon, <1>3
  <2> HIDE DEF S, T
  <2> QED BY Zenon, <1>3, <1>t, <1>h, <1>g, <2>1
<1> QED BY Zenon, TokenStep, <1>1, <1>2, <1>3

-----------------------------------------------------------------------------
(* Types.                                                                  *)

(* A command that is read is the first in the socket, and leaves it with   *)
(* those that the same bufio.Reader had taken.                             *)
LEMMA TakeStep ==
  ASSUME TypeOK, NEW c \in Conns, NEW n \in Nat \ {0}, Take(c, n)
  PROVE  /\ inbox' \in [Conns -> Seq(Ids)]
         /\ \A d \in Conns \ {c} : inbox'[d] = inbox[d]
         /\ inbox[c][1] \in Ids /\ 1 \in DOMAIN inbox[c]
         /\ \A j \in DOMAIN inbox'[c] : j + n \in DOMAIN inbox[c] /\ inbox'[c][j] = inbox[c][j + n]
<1>1. inbox \in [Conns -> Seq(Ids)] /\ n <= Len(inbox[c])
  BY Zenon DEF TypeOK, Take
<1>2. inbox' = [inbox EXCEPT ![c] = SubSeq(inbox[c], n + 1, Len(inbox[c]))]
  BY Zenon DEF Take
<1>3. /\ SubSeq(inbox[c], n + 1, Len(inbox[c])) \in Seq(Ids)
      /\ DOMAIN SubSeq(inbox[c], n + 1, Len(inbox[c])) = 1 .. Len(inbox[c]) - n
      /\ \A j \in 1 .. Len(inbox[c]) - n : SubSeq(inbox[c], n + 1, Len(inbox[c]))[j] = inbox[c][j + n]
  BY <1>1
<1> QED BY <1>1, <1>2, <1>3

(* The type of a sequence to which a command or a write is added. *)
LEMMA AppendType ==
  ASSUME NEW S, NEW s \in Seq(S), NEW e \in S
  PROVE  Append(s, e) \in Seq(S)
OBVIOUS

(* A sequence of one connection to which a command is added. *)
LEMMA AppendAt ==
  ASSUME NEW f \in [Conns -> Seq(Ids)], NEW c \in Conns, NEW n \in Ids
  PROVE  [f EXCEPT ![c] = Append(@, n)] \in [Conns -> Seq(Ids)]
<1>1. Append(f[c], n) \in Seq(Ids)
  BY Zenon, AppendType
<1> QED BY ONLY Zenon, <1>1, f \in [Conns -> Seq(Ids)]

(* The steps of a connection keep the types of the variables they change. *)
LEMMA TypeConn ==
  ASSUME TypeOK, SlotsHeld, NEW c \in Conns, ConnStep(c)
  PROVE  TypeOK'
<1>k. UNCHANGED <<cfg, main, listen, ln, errCh, signalled, logFile>>
  BY Zenon, ConnStepKeeps
<1>s. sem' \in 0 .. cfg.maxConns
  BY Zenon, SlotsConn
<1> DEFINE Good == /\ conn' \in [Conns -> States]
                   /\ sent' \in [Conns -> 0 .. MaxCommands]
                   /\ inbox' \in [Conns -> Seq(Ids)]
                   /\ calls' \subseteq Underway
                   /\ log' \in Seq(Writes)
                   /\ applied' \in Seq(Writes)
                   /\ replied' \in [Conns -> Seq(Ids)]
<1>a. auth' \in [Conns -> BOOLEAN]
  <2>1. auth \in [Conns -> BOOLEAN]
    BY Zenon DEF TypeOK
  <2>2. \/ auth' = auth \/ auth' = [auth EXCEPT ![c] = FALSE]
        \/ auth' = [auth EXCEPT ![c] = ~cfg.password]
        \/ \E kind \in Kinds : auth' = [auth EXCEPT ![c] = (kind = "AUTH")]
    BY Zenon DEF ConnStep, Accept, Admit, Refuse, Dial, Send, Serve, Read, ReadAuth, ReadUnknown,
           ReadCommand, HandleCommand, Exec, Request, OnWrite, Handle, Reply, CloseConn, Leave
  <2> QED BY Zenon, <2>1, <2>2
<1>g. SUFFICES Good
  BY ZenonT(60), <1>k, <1>s, <1>a DEF TypeOK, States, Underway
<1>m. MaxCommands \in Nat
  BY Zenon, ServerAssumption
<1>t. /\ conn \in [Conns -> States]
      /\ sent \in [Conns -> 0 .. MaxCommands]
      /\ inbox \in [Conns -> Seq(Ids)]
      /\ calls \subseteq Underway
      /\ log \in Seq(Writes)
      /\ applied \in Seq(Writes)
      /\ replied \in [Conns -> Seq(Ids)]
      /\ cfg \in Configs
  BY Zenon DEF TypeOK, States, Underway
<1>1. CASE Comes(c)
  <2>1. <<>> \in Seq(Ids)
    BY ONLY TRUE
  <2> QED BY Zenon, <1>1, <1>t, <2>1 DEF Comes
<1>2. CASE Send(c)
  <2>1. sent[c] + 1 \in 1 .. MaxCommands
    <3>1. cfg.sends[c] \in 0 .. MaxCommands
      BY <1>t, ServerAssumption
    <3> QED BY <1>2, <1>t, <1>m, <3>1 DEF Send
  <2>2. sent[c] + 1 \in 0 .. MaxCommands /\ sent[c] + 1 \in Ids
    BY <2>1, <1>m DEF Ids
  <2>3. Append(inbox[c], sent[c] + 1) \in Seq(Ids)
    BY Zenon, <2>2, <1>t, AppendType
  <2> QED BY Zenon, <1>2, <1>t, <2>2, <2>3 DEF Send, dataVars
<1>3. ASSUME NEW x \in calls, x.conn = c, OnWrite(x) \/ Handle(x) \/ Reply(x) PROVE Good
  <2>1. x \in Underway /\ x.conn \in Conns /\ x.id \in Ids
    BY Zenon, <1>t, <1>3, Moved
  <2>2. /\ [x EXCEPT !.at = "handling"] \in Underway /\ [x EXCEPT !.at = "replying"] \in Underway
        /\ <<x.conn, x.id>> \in Writes
    BY Zenon, <2>1, Moved DEF Writes
  <2>3. Append(log, <<x.conn, x.id>>) \in Seq(Writes) /\ Append(applied, <<x.conn, x.id>>) \in Seq(Writes)
    BY Zenon, <1>t, <2>2, AppendType
  <2>4. [replied EXCEPT ![x.conn] = Append(@, x.id)] \in [Conns -> Seq(Ids)]
    BY Zenon, <1>t, <2>1, AppendAt
  <2>5. [conn EXCEPT ![x.conn] = "reading"] \in [Conns -> States]
    BY Zenon, <1>t DEF States
  <2>6. CASE OnWrite(x)
    BY Zenon, <2>6, <1>t, <2>2, <2>3 DEF OnWrite, GoesOn
  <2>7. CASE Handle(x)
    BY Zenon, <2>7, <1>t, <2>2, <2>3 DEF Handle, GoesOn
  <2>8. CASE Reply(x)
    BY Zenon, <2>8, <1>t, <2>4, <2>5 DEF Reply, dataVars
  <2> QED BY Zenon, <1>3, <2>6, <2>7, <2>8
<1>4. CASE Reads(c)
  <2>1. inbox' \in [Conns -> Seq(Ids)] /\ inbox[c][1] \in Ids /\ UNCHANGED <<sent, log, applied>>
    BY Zenon, <1>4, TakeStep DEF Reads
  <2>2. ASSUME NEW kind \in Kinds, NEW at \in {"logging", "replying"}, Begin(c, kind, at)
        PROVE  calls' \subseteq Underway /\ conn' \in [Conns -> States]
    <3>1. [conn |-> c, id |-> inbox[c][1], kind |-> kind, at |-> at] \in Underway
      BY <2>1 DEF Underway
    <3>2. conn' = [conn EXCEPT ![c] = "reading"] \/ conn' = [conn EXCEPT ![c] = "busy"]
      BY Zenon, <2>2 DEF Begin
    <3> QED BY Zenon, <2>2, <3>1, <3>2, <1>t DEF Begin, States
  <2>3. [replied EXCEPT ![c] = Append(@, inbox[c][1])] \in [Conns -> Seq(Ids)]
    BY Zenon, <1>t, <2>1, AppendAt
  <2> QED BY Zenon, <1>4, <1>t, <2>1, <2>2, <2>3 DEF Reads
<1> QED BY Zenon, ConnSteps, <1>1, <1>2, <1>3, <1>4 DEF Works

-----------------------------------------------------------------------------
(* The sockets and the commands that are under way.                        *)

(* A connection touches only its own socket and replies. *)
OthersStay(c) ==
  \A d \in Conns \ {c} :
    conn'[d] = conn[d] /\ inbox'[d] = inbox[d] /\ sent'[d] = sent[d] /\ replied'[d] = replied[d]

LEMMA OthersStayed ==
  ASSUME TypeOK, NEW c \in Conns, ConnStep(c)
  PROVE  OthersStay(c)
<1>t. /\ conn \in [Conns -> States] /\ sent \in [Conns -> 0 .. MaxCommands]
      /\ inbox \in [Conns -> Seq(Ids)] /\ replied \in [Conns -> Seq(Ids)]
  BY Zenon DEF TypeOK, States
<1>1. CASE Reads(c)
  <2>1. \A d \in Conns \ {c} : inbox'[d] = inbox[d]
    BY Zenon, <1>1, TakeStep DEF Reads
  <2>2. \/ conn' = conn \/ conn' = [conn EXCEPT ![c] = "reading"]
        \/ conn' = [conn EXCEPT ![c] = "busy"]
    BY Zenon, <1>1 DEF Reads, Begin
  <2>3. \A d \in Conns \ {c} : conn'[d] = conn[d]
    BY Zenon, <1>t, <2>2
  <2> QED BY Zenon, <1>1, <1>t, <2>1, <2>3 DEF Reads, OthersStay
<1>2. CASE Works(c)
  BY ZenonT(60), <1>2, <1>t DEF Works, OnWrite, Handle, Reply, OthersStay
<1>3. CASE Send(c)
  BY SMTT(30), <1>3, <1>t DEF Send, OthersStay
<1>4. CASE Comes(c)
  BY Zenon, <1>4, <1>t DEF Comes, OthersStay
<1> QED BY Zenon, <1>1, <1>2, <1>3, <1>4, ConnSteps

(* y was under way before the step, and no further on than it is now. *)
Came(y) ==
  \E x \in calls : /\ x.conn = y.conn /\ x.id = y.id
                   /\ y.at = "logging" => x.at = "logging"
                   /\ y.at # "replying" => x.at # "replying"

(* y is the command that was the first in the socket. *)
Fresh(c, y) ==
  /\ Reads(c) /\ UNCHANGED replied
  /\ y.conn = c /\ y.id = inbox[c][1] /\ ~(Shut /\ cfg.transport # "resp")
  /\ cfg.transport # "grpc" => conn'[c] = "busy"

(* Where the commands that are under way come from. *)
LEMMA Origin ==
  ASSUME TypeOK, NEW c \in Conns, ConnStep(c)
  PROVE  \A y \in calls' : y \in Underway /\ (Came(y) \/ Fresh(c, y))
<1>t. calls \subseteq Underway /\ conn \in [Conns -> States]
  BY Zenon DEF TypeOK, States, Underway
<1>0. \A y \in calls : y \in Underway /\ Came(y)
  BY Zenon, <1>t DEF Came
<1>1. CASE calls' \subseteq calls
  BY Zenon, <1>0, <1>1
<1>2. ASSUME NEW x \in calls, OnWrite(x) \/ Handle(x)
      PROVE  \A y \in calls' : y \in Underway /\ Came(y)
  <2>1. PICK at \in {"handling", "replying"} :
          calls' = (calls \ {x}) \cup {[x EXCEPT !.at = at]} /\ (at = "handling" => x.at = "logging")
    BY Zenon, <1>2 DEF OnWrite, Handle, GoesOn
  <2>2. [x EXCEPT !.at = at] \in Underway /\ Came([x EXCEPT !.at = at])
    <3>1. /\ [x EXCEPT !.at = at] \in Underway
          /\ [x EXCEPT !.at = at].conn = x.conn /\ [x EXCEPT !.at = at].id = x.id
          /\ [x EXCEPT !.at = at].at = at
      <4>1. x \in Underway /\ at \in {"logging", "handling", "replying"}
        BY Zenon, <1>2, <1>t
      <4> QED BY ONLY <4>1 DEF Underway
    <3>2. at # "logging" /\ (at # "replying" => x.at # "replying")
      BY Zenon, <2>1
    <3> QED BY Zenon, <1>2, <3>1, <3>2 DEF Came
  <2> QED BY Zenon, <1>0, <2>1, <2>2
<1>3. CASE Reads(c)
  <2>1. CASE calls' = calls
    BY Zenon, <1>0, <2>1
  <2>2. ASSUME NEW kind \in Kinds, NEW at \in {"logging", "replying"}, Begin(c, kind, at),
               Shut => cfg.transport = "resp", UNCHANGED replied
        PROVE  \A y \in calls' : y \in Underway /\ (Came(y) \/ Fresh(c, y))
    <3> DEFINE y == [conn |-> c, id |-> inbox[c][1], kind |-> kind, at |-> at]
    <3>1. inbox[c][1] \in Ids
      BY Zenon, <1>3, TakeStep DEF Reads
    <3>2. y \in Underway /\ y.conn = c /\ y.id = inbox[c][1]
      BY <3>1 DEF Underway
    <3>3. calls' = calls \cup {y}
      BY Zenon, <2>2 DEF Begin
    <3> HIDE DEF y
    <3>4. cfg.transport # "grpc" => conn'[c] = "busy"
      BY Zenon, <2>2, <1>t DEF Begin
    <3>5. Fresh(c, y)
      BY Zenon, <1>3, <2>2, <3>2, <3>4 DEF Fresh
    <3> QED BY Zenon, <1>0, <3>2, <3>3, <3>5
  <2> QED BY Zenon, <1>3, <2>1, <2>2 DEF Reads
<1>4. Send(c) \/ Comes(c) => calls' \subseteq calls
  BY Zenon DEF Send, Comes
<1>5. ASSUME NEW x \in calls, Reply(x) PROVE calls' \subseteq calls
  BY Zenon, <1>5 DEF Reply
<1> QED BY Zenon, ConnSteps, <1>1, <1>2, <1>3, <1>4, <1>5 DEF Works

(* Past after a step, of a number that may itself be primed. *)
PastAfter(c, n) == n <= sent'[c] /\ \A j \in DOMAIN inbox'[c] : n < inbox'[c][j]

(* A command that has been read stays read. *)
LEMMA PastStays ==
  ASSUME TypeOK, SocketInv, NEW c \in Conns, ConnStep(c), NEW d \in Conns, NEW n \in Nat, Past(d, n)
  PROVE  PastAfter(d, n)
<1>t. /\ inbox \in [Conns -> Seq(Ids)] /\ sent \in [Conns -> 0 .. MaxCommands]
      /\ MaxCommands \in Nat
  BY Zenon, ServerAssumption DEF TypeOK
<1>o. OthersStay(c) /\ (Reads(c) \/ Works(c) \/ Send(c) \/ Comes(c))
  BY Zenon, ConnSteps, OthersStayed
<1>1. CASE d # c
  BY Zenon, <1>1, <1>o DEF OthersStay, Past, PastAfter
<1>2. CASE d = c /\ Reads(c)
  BY <1>2, TakeStep DEF Reads, Past, PastAfter
<1>3. CASE d = c /\ (Works(c) \/ Comes(c))
  <2>1. sent' = sent /\ inbox'[c] \in {inbox[c], <<>>}
    BY Zenon, <1>3, <1>t DEF Works, OnWrite, Handle, Reply, Comes
  <2> QED BY <1>3, <2>1, <1>t DEF Past, PastAfter
<1>4. CASE d = c /\ Send(c)
  <2>1. /\ sent'[c] = sent[c] + 1 /\ Len(inbox'[c]) = Len(inbox[c]) + 1
        /\ \A j \in DOMAIN inbox'[c] : inbox'[c][j] = IF j \in DOMAIN inbox[c] THEN inbox[c][j] ELSE sent[c] + 1
    BY <1>4, <1>t DEF Send
  <2>2. n <= sent[c] /\ n <= sent[c] + 1 /\ n < sent[c] + 1
    BY <1>4, <1>t DEF Past, PastAfter
  <2>3. \A j \in DOMAIN inbox'[c] : n < inbox'[c][j]
    BY Zenon, <1>4, <2>1, <2>2 DEF Past, PastAfter
  <2> QED BY Zenon, <1>4, <2>1, <2>2, <2>3 DEF Past, PastAfter
<1> QED BY Zenon, <1>o, <1>1, <1>2, <1>3, <1>4

(* The command that is read comes after those read before, and is read. *)
LEMMA ReadIsNext ==
  ASSUME TypeOK, SocketInv, NEW c \in Conns, Reads(c)
  PROVE  /\ inbox[c][1] \in Ids /\ PastAfter(c, inbox[c][1])
         /\ \A n \in Nat : Past(c, n) => n < inbox[c][1]
<1>1. PICK n \in Nat \ {0} : Take(c, n)
  BY Zenon DEF Reads
<1>2. /\ inbox[c][1] \in Ids /\ 1 \in DOMAIN inbox[c]
      /\ \A j \in DOMAIN inbox'[c] : j + n \in DOMAIN inbox[c] /\ inbox'[c][j] = inbox[c][j + n]
      /\ inbox' \in [Conns -> Seq(Ids)]
  BY Zenon, <1>1, TakeStep
<1>3. \A j \in DOMAIN inbox'[c] : inbox[c][1] < inbox'[c][j]
  <2> SUFFICES ASSUME NEW j \in DOMAIN inbox'[c] PROVE inbox[c][1] < inbox'[c][j]
    OBVIOUS
  <2>1. j \in Nat \ {0}
    BY <1>2
  <2>2. 1 < j + n
    BY <2>1
  <2> QED BY Zenon, <1>2, <2>2 DEF SocketInv
<1>4. inbox[c][1] <= sent'[c]
  BY Zenon, <1>2 DEF SocketInv, Reads
<1> QED BY Zenon, <1>2, <1>3, <1>4 DEF Past, PastAfter

(* Commands are numbers. *)
LEMMA NumbersOf ==
  ASSUME NEW s \in Seq(Ids), NEW j \in DOMAIN s
  PROVE  s[j] \in Nat
<1>1. s[j] \in Ids
  OBVIOUS
<1> QED BY <1>1, ServerAssumption DEF Ids

(* The sockets, the commands and the replies stay in order. *)
LEMMA SocketConn ==
  ASSUME TypeOK, SocketInv, NEW c \in Conns, ConnStep(c)
  PROVE  SocketInv'
<1>t. /\ inbox \in [Conns -> Seq(Ids)] /\ sent \in [Conns -> 0 .. MaxCommands]
      /\ replied \in [Conns -> Seq(Ids)] /\ calls \subseteq Underway
      /\ MaxCommands \in Nat /\ Ids \subseteq Nat
  BY SMTT(30), ServerAssumption DEF TypeOK, Ids, Underway
<1>o. OthersStay(c) /\ (Reads(c) \/ Works(c) \/ Send(c) \/ Comes(c))
  BY Zenon, ConnSteps, OthersStayed
<1>p. \A d \in Conns, n \in Nat : Past(d, n) => PastAfter(d, n)
  BY Zenon, PastStays
<1>u. \A x \in Underway : x.conn \in Conns /\ x.id \in Ids /\ x.id \in Nat
  BY Zenon, Moved, <1>t
<1>c. \A y \in calls' : PastAfter(y.conn, y.id)
  <2> SUFFICES ASSUME NEW y \in calls' PROVE PastAfter(y.conn, y.id)
    OBVIOUS
  <2>1. CASE Came(y)
    <3>1. PICK x \in calls : x.conn = y.conn /\ x.id = y.id
      BY Zenon, <2>1 DEF Came
    <3> QED BY Zenon, <3>1, <1>p, <1>t, <1>u DEF SocketInv
  <2>2. CASE Fresh(c, y)
    BY Zenon, <2>2, ReadIsNext DEF Fresh
  <2> QED BY Zenon, <2>1, <2>2, Origin
<1> SUFFICES ASSUME NEW d \in Conns
             PROVE  /\ \A i, j \in DOMAIN inbox'[d] : i < j => inbox'[d][i] < inbox'[d][j]
                    /\ \A j \in DOMAIN inbox'[d] : inbox'[d][j] <= sent'[d]
                    /\ \A i \in DOMAIN replied'[d] : PastAfter(d, replied'[d][i])
  BY Zenon, <1>c DEF SocketInv, Past, PastAfter
<1>1. /\ \A i, j \in DOMAIN inbox'[d] : i < j => inbox'[d][i] < inbox'[d][j]
      /\ \A j \in DOMAIN inbox'[d] : inbox'[d][j] <= sent'[d]
  <2>1. CASE d # c
    BY Zenon, <2>1, <1>o DEF OthersStay, SocketInv
  <2>2. CASE d = c /\ Reads(c)
    <3>1. PICK n \in Nat \ {0} : Take(c, n)
      BY Zenon, <2>2 DEF Reads
    <3>2. /\ inbox' \in [Conns -> Seq(Ids)] /\ sent' = sent
          /\ \A j \in DOMAIN inbox'[c] : j + n \in DOMAIN inbox[c] /\ inbox'[c][j] = inbox[c][j + n]
      BY Zenon, <2>2, <3>1, TakeStep DEF Reads
    <3>3. \A i, j \in DOMAIN inbox'[c] : i < j => i + n < j + n
      BY <3>2
    <3> QED BY SMTT(30), <2>2, <3>2, <3>3 DEF SocketInv
  <2>3. CASE d = c /\ (Works(c) \/ Comes(c))
    <3>1. sent' = sent /\ inbox'[c] \in {inbox[c], <<>>}
      BY Zenon, <2>3, <1>t DEF Works, OnWrite, Handle, Reply, Comes
    <3> QED BY <2>3, <3>1 DEF SocketInv
  <2>4. CASE d = c /\ Send(c)
    <3>1. /\ sent'[c] = sent[c] + 1 /\ inbox'[c] = Append(inbox[c], sent[c] + 1)
          /\ sent[c] \in Nat
      BY <2>4, <1>t DEF Send
    <3>2. \A j \in DOMAIN inbox[c] : inbox[c][j] \in Nat /\ inbox[c][j] <= sent[c]
      <4>1. inbox[c] \in Seq(Ids) /\ \A j \in DOMAIN inbox[c] : inbox[c][j] <= sent[c]
        BY Zenon, <1>t DEF SocketInv
      <4> QED BY Zenon, <4>1, NumbersOf
    <3>3. inbox[c] \in Seq(Ids) /\ \A i, j \in DOMAIN inbox[c] : i < j => inbox[c][i] < inbox[c][j]
      BY Zenon, <1>t DEF SocketInv
    <3>4. \A j \in DOMAIN inbox'[c] :
            \/ j \in DOMAIN inbox[c] /\ inbox'[c][j] = inbox[c][j]
            \/ j = Len(inbox[c]) + 1 /\ inbox'[c][j] = sent[c] + 1
      BY ONLY <3>1, <3>3
    <3>5. \A j \in DOMAIN inbox[c] : j \in Nat /\ j <= Len(inbox[c]) /\ Len(inbox[c]) \in Nat
      BY ONLY <3>3
    <3>6. \A j \in DOMAIN inbox'[c] : inbox'[c][j] <= sent'[c]
      BY ONLY <3>1, <3>2, <3>4
    <3>7. \A i, j \in DOMAIN inbox'[c] : i < j => inbox'[c][i] < inbox'[c][j]
      BY ONLY <3>1, <3>2, <3>3, <3>4, <3>5
    <3> QED BY Zenon, <2>4, <3>6, <3>7
  <2> QED BY Zenon, <1>o, <2>1, <2>2, <2>3, <2>4
<1>3. \A i \in DOMAIN replied'[d] : PastAfter(d, replied'[d][i])
  <2> SUFFICES ASSUME NEW i \in DOMAIN replied'[d] PROVE PastAfter(d, replied'[d][i])
    BY Zenon
  <2>0. \A k \in DOMAIN replied[d] : PastAfter(d, replied[d][k])
    <3>1. \A k \in DOMAIN replied[d] : replied[d][k] \in Nat
      BY Zenon, <1>t, NumbersOf
    <3> QED BY Zenon, <3>1, <1>p DEF SocketInv
  <2>1. CASE replied'[d] = replied[d]
    BY Zenon, <2>0, <2>1
  <2>2. ASSUME NEW n \in Ids, replied'[d] = Append(replied[d], n), PastAfter(d, n)
        PROVE  PastAfter(d, replied'[d][i])
    <3>1. (i \in DOMAIN replied[d] /\ replied'[d][i] = replied[d][i]) \/ replied'[d][i] = n
      BY SMTT(30), <2>2, <1>t
    <3> QED BY Zenon, <2>0, <2>2, <3>1
  <2>3. CASE d = c /\ Reads(c)
    BY Zenon, <2>1, <2>2, <2>3, ReadIsNext, <1>t DEF Reads
  <2>4. ASSUME d = c, NEW x \in calls, x.conn = c, OnWrite(x) \/ Handle(x) \/ Reply(x)
        PROVE  PastAfter(d, replied'[d][i])
    <3>1. x.id \in Ids /\ PastAfter(c, x.id)
      BY Zenon, <2>4, <1>p, <1>t, <1>u DEF SocketInv
    <3>2. replied'[c] = replied[c] \/ replied'[c] = Append(replied[c], x.id)
      BY Zenon, <2>4, <1>t DEF OnWrite, Handle, Reply
    <3> QED BY Zenon, <2>1, <2>2, <2>4, <3>1, <3>2
  <2> QED BY Zenon, <2>1, <2>3, <2>4, <1>o DEF OthersStay, Works, Send, Comes
<1> QED BY Zenon, <1>1, <1>3

-----------------------------------------------------------------------------
(* The other parts of the invariant.                                       *)

(* No call starts once GracefulStop has closed the listener. *)
LEMMA MainConn ==
  ASSUME TypeOK, MainInv, NEW c \in Conns, ConnStep(c)
  PROVE  MainInv'
<1>k. UNCHANGED <<cfg, main, listen, ln, errCh, logFile>>
  BY Zenon, ConnStepKeeps
<1>1. ASSUME cfg.transport = "grpc", ln = "closed", main # "drain" PROVE calls' = {}
  <2>1. calls = {} /\ Shut /\ cfg.transport # "resp"
    BY Zenon, <1>1 DEF MainInv, Shut
  <2> SUFFICES ASSUME NEW y \in calls' PROVE FALSE
    BY Zenon
  <2> QED BY Zenon, <2>1, Origin DEF Came, Fresh
<1> QED BY Zenon, <1>k, <1>1 DEF MainInv

(* A command begins after those its connection had read, and it goes on    *)
(* and is answered once.                                                   *)
LEMMA CallsConn ==
  ASSUME TypeOK, SocketInv, CallsInv, NEW c \in Conns, ConnStep(c)
  PROVE  CallsInv'
<1>t. /\ replied \in [Conns -> Seq(Ids)] /\ calls \subseteq Underway /\ conn \in [Conns -> States]
  BY Zenon DEF TypeOK, Underway, States
<1>n. Ids \subseteq Nat
  BY ServerAssumption DEF Ids
<1>k. cfg' = cfg
  BY Zenon, ConnStepKeeps
<1>o. OthersStay(c) /\ (Reads(c) \/ Works(c) \/ Send(c) \/ Comes(c))
  BY Zenon, ConnSteps, OthersStayed
<1>u. \A x \in calls : x.conn \in Conns /\ x.id \in Ids /\ x.id \in Nat /\ Past(x.conn, x.id)
  BY Zenon, Moved, <1>t, <1>n DEF SocketInv
<1>r. \A d \in Conns : \A i \in DOMAIN replied[d] : replied[d][i] \in Nat /\ Past(d, replied[d][i])
  BY Zenon, <1>t, NumbersOf DEF SocketInv
<1>f. Reads(c) => /\ inbox[c][1] \in Ids /\ conn[c] = "reading"
                  /\ \A n \in Nat : Past(c, n) => n < inbox[c][1] /\ n # inbox[c][1]
  <2>1. Reads(c) => inbox[c][1] \in Nat
    BY Zenon, ReadIsNext, <1>n
  <2>2. \A m, n \in Nat : n < m => n # m
    OBVIOUS
  <2> QED BY Zenon, <2>1, <2>2, ReadIsNext DEF Reads, Take
<1>h. \A x \in calls :
        /\ \A i \in DOMAIN replied[x.conn] : Before(replied[x.conn][i], x)
        /\ \A y \in calls : x.conn = y.conn /\ (x.id = y.id \/ cfg.transport # "grpc") => x = y
        /\ cfg.transport # "grpc" => conn[x.conn] = "busy"
  BY Zenon DEF CallsInv
<1>1. ASSUME NEW y \in calls' PROVE \A i \in DOMAIN replied'[y.conn] : Before(replied'[y.conn][i], y)
  <2>1. \A i \in DOMAIN replied[y.conn] : Before(replied[y.conn][i], y)
    <3>1. CASE Came(y)
      <4>1. PICK x \in calls : x.conn = y.conn /\ x.id = y.id
        BY Zenon, <3>1 DEF Came
      <4>2. replied[x.conn] = replied[y.conn]
        BY Zenon, <4>1
      <4>3. \A i \in DOMAIN replied[y.conn] : Before(replied[y.conn][i], x)
        BY Zenon, <4>2, <1>h
      <4> QED BY Zenon, <4>1, <4>3 DEF Before
    <3>2. CASE Fresh(c, y)
      BY Zenon, <3>2, <1>f, <1>r DEF Fresh, Before
    <3> QED BY Zenon, <3>1, <3>2, <1>1, Origin
  <2>2. CASE replied'[y.conn] = replied[y.conn]
    BY Zenon, <2>1, <2>2
  <2>3. ASSUME NEW n \in Ids, y.conn \in Conns, replied'[y.conn] = Append(replied[y.conn], n), Before(n, y)
        PROVE  \A i \in DOMAIN replied'[y.conn] : Before(replied'[y.conn][i], y)
    <3>1. \A i \in DOMAIN replied'[y.conn] :
            (i \in DOMAIN replied[y.conn] /\ replied'[y.conn][i] = replied[y.conn][i])
              \/ replied'[y.conn][i] = n
      BY SMTT(30), <2>3, <1>t
    <3> QED BY Zenon, <2>1, <2>3, <3>1
  <2>u. y.conn \in Conns
    BY Zenon, <1>1, Origin, Moved
  <2>4. CASE y.conn # c
    BY Zenon, <2>2, <2>4, <2>u, <1>o DEF OthersStay
  <2>5. CASE y.conn = c /\ Reads(c) /\ calls' = calls /\ replied' = [replied EXCEPT ![c] = Append(@, inbox[c][1])]
    <3>1. replied'[c] = Append(replied[c], inbox[c][1]) /\ y \in calls
      BY Zenon, <2>5, <1>t
    <3>2. Before(inbox[c][1], y)
      BY Zenon, <2>5, <3>1, <1>f, <1>u, <1>h DEF Before
    <3> QED BY Zenon, <2>3, <2>5, <2>u, <3>1, <3>2, <1>f
  <2>6. ASSUME y.conn = c, NEW x \in calls, x.conn = c, Reply(x)
        PROVE  \A i \in DOMAIN replied'[y.conn] : Before(replied'[y.conn][i], y)
    <3>1. y \in calls /\ y # x /\ (replied'[c] = replied[c] \/ replied'[c] = Append(replied[c], x.id))
      BY Zenon, <2>6, <1>1, <1>t DEF Reply
    <3>2. Before(x.id, y)
      BY Zenon, <2>6, <3>1, <1>h DEF Before
    <3> QED BY Zenon, <2>2, <2>3, <2>6, <2>u, <3>1, <3>2, <1>u
  <2>7. CASE Reads(c) /\ ~(calls' = calls /\ replied' = [replied EXCEPT ![c] = Append(@, inbox[c][1])])
    BY Zenon, <2>2, <2>7 DEF Reads
  <2> QED BY Zenon, <2>2, <2>4, <2>5, <2>6, <2>7, <1>o DEF Works, OnWrite, Handle, Send, Comes
<1>2. ASSUME NEW x \in calls', NEW y \in calls', x.conn = y.conn, x.id = y.id \/ cfg.transport # "grpc"
      PROVE  x = y
  <2>1. CASE x \in calls /\ y \in calls
    BY Zenon, <2>1, <1>2, <1>h
  <2>2. ASSUME NEW z \in calls, OnWrite(z) \/ Handle(z) PROVE x = y
    <3>1. PICK at \in {"handling", "replying"} : calls' = (calls \ {z}) \cup {[z EXCEPT !.at = at]}
      BY Zenon, <2>2 DEF OnWrite, Handle, GoesOn
    <3> DEFINE m == [z EXCEPT !.at = at]
    <3>2. m.conn = z.conn /\ m.id = z.id
      BY <2>2, <1>t DEF Underway
    <3>3. calls' = (calls \ {z}) \cup {m}
      BY Zenon, <3>1
    <3> HIDE DEF m
    <3> QED BY ZenonT(60), <1>2, <2>1, <3>2, <3>3, <1>h
  <2>3. ASSUME NEW kind \in Kinds, NEW at \in {"logging", "replying"}, Reads(c), Begin(c, kind, at)
        PROVE  x = y
    <3> DEFINE m == [conn |-> c, id |-> inbox[c][1], kind |-> kind, at |-> at]
    <3>1. m.conn = c /\ m.id = inbox[c][1]
      OBVIOUS
    <3>2. calls' = calls \cup {m}
      BY Zenon, <2>3 DEF Begin
    <3> HIDE DEF m
    <3>3. \A z \in calls : z.conn = c => z.id # inbox[c][1] /\ cfg.transport = "grpc"
      BY Zenon, <2>3, <1>f, <1>u, <1>h
    <3> QED BY Zenon, <1>2, <2>1, <3>1, <3>2, <3>3
  <2>4. ASSUME NEW z \in calls, Reply(z) PROVE x = y
    BY Zenon, <1>2, <2>1, <2>4 DEF Reply
  <2> QED BY Zenon, <1>2, <2>1, <2>2, <2>3, <2>4, <1>o DEF Works, Reads, Send, Comes
<1>3. ASSUME NEW y \in calls', cfg.transport # "grpc" PROVE conn'[y.conn] = "busy"
  <2>1. ASSUME Came(y), y.conn # c PROVE conn'[y.conn] = "busy"
    <3>1. PICK x \in calls : x.conn = y.conn
      BY Zenon, <2>1 DEF Came
    <3>2. y.conn \in Conns /\ conn[y.conn] = "busy"
      BY Zenon, <3>1, <1>3, <1>h, <1>u
    <3> QED BY Zenon, <2>1, <3>2, <1>o DEF OthersStay
  <2>2. CASE Fresh(c, y)
    BY Zenon, <2>2, <1>3 DEF Fresh
  <2>3. ASSUME Came(y), y.conn = c PROVE conn'[y.conn] = "busy"
    <3>1. conn[c] = "busy"
      BY Zenon, <2>3, <1>3, <1>h DEF Came
    <3>2. CASE conn' = conn
      BY Zenon, <2>3, <3>1, <3>2
    <3>3. ~Reads(c) /\ ~Comes(c)
      BY Zenon, <3>1, <1>f DEF Comes
    <3>4. ASSUME NEW z \in calls, z.conn = c, Reply(z) PROVE FALSE
      BY Zenon, <3>4, <1>3, <2>3, <1>h DEF Reply
    <3> QED BY Zenon, <3>2, <3>3, <3>4, <1>o DEF Works, OnWrite, Handle, Send
  <2> QED BY Zenon, <1>3, <2>1, <2>2, <2>3, Origin
<1> QED BY Zenon, <1>k, <1>1, <1>2, <1>3 DEF CallsInv, Before

(* A sequence of commands to which another, or a later one, is added. *)
LEMMA AppendReply ==
  ASSUME NEW s \in Seq(Ids), NEW n \in Ids
  PROVE  /\ Once(s) /\ (\A i \in DOMAIN s : s[i] # n) => Once(Append(s, n))
         /\ (\A i, j \in DOMAIN s : i < j => s[i] < s[j]) /\ (\A i \in DOMAIN s : s[i] < n) =>
              \A i, j \in DOMAIN Append(s, n) : i < j => Append(s, n)[i] < Append(s, n)[j]
BY DEF Once

(* A command is answered once and, but in gRPC, after those before it. *)
LEMMA RepliesConn ==
  ASSUME TypeOK, SocketInv, CallsInv, RepliesInOrder, NEW c \in Conns, ConnStep(c)
  PROVE  RepliesInOrder'
<1>t. replied \in [Conns -> Seq(Ids)] /\ calls \subseteq Underway
  BY Zenon DEF TypeOK, Underway
<1>k. cfg' = cfg
  BY Zenon, ConnStepKeeps
<1>o. OthersStay(c) /\ (Reads(c) \/ Works(c) \/ Send(c) \/ Comes(c))
  BY Zenon, ConnSteps, OthersStayed
<1> DEFINE Ordered(s) == \A i, j \in DOMAIN s : i < j => s[i] < s[j]
           Good(s) == Once(s) /\ (cfg.transport # "grpc" => Ordered(s))
<1>g. SUFFICES ASSUME NEW d \in Conns PROVE Good(replied'[d])
  BY Zenon, <1>k DEF RepliesInOrder, Once
<1>h. Good(replied[d])
  BY Zenon DEF RepliesInOrder
<1>a. ASSUME NEW s \in Seq(Ids), NEW n \in Ids, Good(s),
             \A i \in DOMAIN s : s[i] # n /\ (cfg.transport # "grpc" => s[i] < n)
      PROVE  Good(Append(s, n))
  BY Zenon, <1>a, AppendReply
<1> HIDE DEF Good
<1>1. CASE replied'[d] = replied[d]
  BY Zenon, <1>1, <1>h
<1>2. ASSUME d = c, Reads(c), replied'[c] = Append(replied[c], inbox[c][1])
      PROVE  Good(replied'[d])
  <2>1. \A i \in DOMAIN replied[c] : replied[c][i] \in Nat /\ Past(c, replied[c][i])
    BY Zenon, <1>t, NumbersOf DEF SocketInv
  <2>2. inbox[c][1] \in Ids /\ \A i \in DOMAIN replied[c] : replied[c][i] < inbox[c][1]
    BY Zenon, <1>2, <2>1, ReadIsNext
  <2>3. \A i \in DOMAIN replied[c] : replied[c][i] # inbox[c][1]
    <3>1. inbox[c][1] \in Nat
      BY <2>2, ServerAssumption DEF Ids
    <3> QED BY <2>1, <2>2, <3>1
  <2> QED BY Zenon, <1>2, <1>t, <1>h, <1>a, <2>2, <2>3
<1>3. ASSUME d = c, NEW x \in calls, x.conn = c, Reply(x) PROVE Good(replied'[d])
  <2>1. replied'[c] = replied[c] \/ replied'[c] = Append(replied[c], x.id)
    BY Zenon, <1>3, <1>t DEF Reply
  <2>2. x.id \in Ids /\ \A i \in DOMAIN replied[c] : Before(replied[c][i], x)
    BY Zenon, <1>3, <1>t, Moved DEF CallsInv
  <2> QED BY Zenon, <1>1, <1>3, <1>t, <1>h, <1>a, <2>1, <2>2 DEF Before
<1>4. CASE d # c
  BY Zenon, <1>1, <1>4, <1>o DEF OthersStay
<1>5. CASE d = c /\ Reads(c)
  BY Zenon, <1>1, <1>2, <1>5, <1>t DEF Reads
<1> QED BY Zenon, <1>o, <1>1, <1>3, <1>4, <1>5 DEF Works, OnWrite, Handle, Send, Comes

-----------------------------------------------------------------------------
(* The log and the data.                                                   *)

(* An entry of the log is a connection and a number. *)
LEMMA EntriesOf ==
  ASSUME NEW s \in Seq(Writes), NEW i \in DOMAIN s
  PROVE  s[i][1] \in Conns /\ s[i][2] \in Nat /\ s[i] = <<s[i][1], s[i][2]>>
<1>1. s[i] \in Conns \X Ids
  BY DEF Writes
<1> QED BY <1>1, ServerAssumption DEF Ids

(* Adding a write to the log or to the data. *)
LEMMA AppendEntry ==
  ASSUME NEW s \in Seq(Writes), NEW w \in Writes
  PROVE  /\ Append(s, w) \in Seq(Writes)
         /\ Range(Append(s, w)) = Range(s) \cup {w}
         /\ DOMAIN Append(s, w) = DOMAIN s \cup {Len(s) + 1}
         /\ \A i \in DOMAIN s : Append(s, w)[i] = s[i] /\ i < Len(s) + 1
         /\ Append(s, w)[Len(s) + 1] = w
<1>1. /\ Append(s, w) \in Seq(Writes)
      /\ DOMAIN Append(s, w) = DOMAIN s \cup {Len(s) + 1}
      /\ \A i \in DOMAIN s : Append(s, w)[i] = s[i] /\ i < Len(s) + 1
      /\ Append(s, w)[Len(s) + 1] = w
  OBVIOUS
<1>2. Range(Append(s, w)) = Range(s) \cup {w}
  BY <1>1 DEF Range
<1> QED BY Zenon, <1>1, <1>2

(* Another write, and a later one of its connection, keep a sequence       *)
(* without repetitions and in order.                                       *)
LEMMA AppendWrite ==
  ASSUME NEW s \in Seq(Writes), NEW w \in Writes
  PROVE  /\ Once(s) /\ (\A i \in DOMAIN s : s[i] # w) => Once(Append(s, w))
         /\ InOrder(s) /\ (\A i \in DOMAIN s : s[i][1] = w[1] => s[i][2] < w[2]) => InOrder(Append(s, w))
<1> DEFINE t == Append(s, w)
<1>1. /\ DOMAIN t = DOMAIN s \cup {Len(s) + 1}
      /\ \A k \in DOMAIN s : t[k] = s[k] /\ k < Len(s) + 1
      /\ t[Len(s) + 1] = w
  BY Zenon, AppendEntry
<1> HIDE DEF t
<1>2. ASSUME Once(s), \A i \in DOMAIN s : s[i] # w PROVE Once(t)
  <2> SUFFICES ASSUME NEW i \in DOMAIN t, NEW j \in DOMAIN t, t[i] = t[j] PROVE i = j
    BY Zenon DEF Once
  <2> QED BY Zenon, <1>1, <1>2 DEF Once
<1>3. ASSUME InOrder(s), \A i \in DOMAIN s : s[i][1] = w[1] => s[i][2] < w[2] PROVE InOrder(t)
  <2> SUFFICES ASSUME NEW i \in DOMAIN t, NEW j \in DOMAIN t, i < j, t[i][1] = t[j][1]
               PROVE  t[i][2] < t[j][2]
    BY Zenon DEF InOrder
  <2>1. i \in DOMAIN s
    BY <1>1
  <2>2. CASE j \in DOMAIN s
    BY Zenon, <1>1, <1>3, <2>1, <2>2 DEF InOrder
  <2>3. CASE j = Len(s) + 1
    BY Zenon, <1>1, <1>3, <2>1, <2>3
  <2> QED BY Zenon, <1>1, <2>2, <2>3
<1> QED BY Zenon, <1>2, <1>3 DEF t

(* onWrite and the handler take a command that is under way, and which the *)
(* log, or the data, do not have.                                          *)
LEMMA WritesConn ==
  ASSUME TypeOK, SocketInv, CallsInv, WritesInv, NEW c \in Conns, ConnStep(c)
  PROVE  WritesInv'
<1>t. log \in Seq(Writes) /\ applied \in Seq(Writes) /\ calls \subseteq Underway
  BY Zenon DEF TypeOK, Underway
<1>n. Ids \subseteq Nat
  BY ServerAssumption DEF Ids
<1>k. cfg' = cfg
  BY Zenon, ConnStepKeeps
<1>o. Reads(c) \/ Works(c) \/ Send(c) \/ Comes(c)
  BY Zenon, ConnSteps
<1>p. \A d \in Conns, n \in Nat : Past(d, n) => PastAfter(d, n)
  BY Zenon, PastStays
<1>u. \A x \in calls : /\ x.conn \in Conns /\ x.id \in Ids /\ x.id \in Nat
                       /\ <<x.conn, x.id>> \in Writes /\ PastAfter(x.conn, x.id)
  BY Zenon, Moved, <1>t, <1>n, <1>p DEF SocketInv, Writes
<1>f. ASSUME NEW y \in calls', Fresh(c, y), NEW n \in Nat, Past(y.conn, n) PROVE Before(n, y)
  <2>1. n < inbox[c][1] /\ inbox[c][1] \in Nat /\ y.id = inbox[c][1]
    BY Zenon, <1>f, <1>n, ReadIsNext DEF Fresh
  <2> QED BY <2>1 DEF Before
<1>1. ASSUME NEW y \in calls', y.at = "logging", NEW n \in Nat, Past(y.conn, n),
             \A x \in calls : x.conn = y.conn /\ x.at = "logging" => Before(n, x)
      PROVE  Before(n, y)
  <2>1. CASE Came(y)
    BY Zenon, <1>1, <2>1 DEF Came, Before
  <2> QED BY Zenon, <1>1, <1>f, <2>1, Origin
<1>2. ASSUME NEW y \in calls', y.at # "replying", NEW n \in Nat, Past(y.conn, n),
             \A x \in calls : x.conn = y.conn /\ x.at # "replying" => Before(n, x)
      PROVE  Before(n, y)
  <2>1. CASE Came(y)
    BY Zenon, <1>2, <2>1 DEF Came, Before
  <2> QED BY Zenon, <1>2, <1>f, <2>1, Origin
<1>w. ASSUME NEW x \in calls, NEW y \in calls', OnWrite(x) \/ Handle(x), y.conn = x.conn,
             OnWrite(x) => y.at = "logging", Handle(x) => y.at # "replying"
      PROVE  Before(x.id, y)
  <2>1. y \in calls /\ y # x
    <3>1. PICK at \in {"handling", "replying"} :
            calls' = (calls \ {x}) \cup {[x EXCEPT !.at = at]} /\ (Handle(x) => at = "replying")
      BY Zenon, <1>w DEF OnWrite, Handle, GoesOn
    <3>2. [x EXCEPT !.at = at].at = at
      BY <1>w, <1>t DEF Underway
    <3>3. y # [x EXCEPT !.at = at]
      BY Zenon, <1>w, <3>1, <3>2
    <3> QED BY Zenon, <1>w, <3>1, <3>3
  <2> QED BY Zenon, <2>1, <1>w DEF CallsInv, Before
<1>3. ASSUME NEW i \in DOMAIN log'
      PROVE  /\ PastAfter(log'[i][1], log'[i][2])
             /\ \A y \in calls' : y.conn = log'[i][1] /\ y.at = "logging" => Before(log'[i][2], y)
  <2>1. CASE i \in DOMAIN log /\ log'[i] = log[i]
    <3>1. log[i][1] \in Conns /\ log[i][2] \in Nat /\ Past(log[i][1], log[i][2])
      BY Zenon, <2>1, <1>t, EntriesOf DEF WritesInv
    <3>2. \A x \in calls : x.conn = log[i][1] /\ x.at = "logging" => Before(log[i][2], x)
      BY Zenon, <2>1 DEF WritesInv
    <3> QED BY Zenon, <2>1, <3>1, <3>2, <1>p, <1>1
  <2>2. ASSUME NEW x \in calls, OnWrite(x), log' = Append(log, <<x.conn, x.id>>)
        PROVE  /\ PastAfter(log'[i][1], log'[i][2])
               /\ \A y \in calls' : y.conn = log'[i][1] /\ y.at = "logging" => Before(log'[i][2], y)
    <3>1. (i \in DOMAIN log /\ log'[i] = log[i]) \/ log'[i] = <<x.conn, x.id>>
      <4>1. <<x.conn, x.id>> \in Writes
        BY Zenon, <2>2, <1>u
      <4> QED BY SMTT(30), <2>2, <4>1, <1>3, <1>t, AppendEntry
    <3>2. CASE log'[i] = <<x.conn, x.id>>
      <4>1. log'[i][1] = x.conn /\ log'[i][2] = x.id
        BY <3>2
      <4>2. ~Handle(x)
        BY Zenon, <2>2 DEF OnWrite, Handle
      <4> QED BY Zenon, <2>2, <4>1, <4>2, <1>u, <1>w
    <3> QED BY Zenon, <2>1, <3>1, <3>2
  <2> QED BY Zenon, <1>3, <2>1, <2>2, <1>o DEF Reads, Works, OnWrite, Handle, Reply, Send, Comes, dataVars
<1>4. ASSUME NEW i \in DOMAIN applied'
      PROVE  /\ PastAfter(applied'[i][1], applied'[i][2])
             /\ \A y \in calls' : y.conn = applied'[i][1] /\ y.at # "replying" => Before(applied'[i][2], y)
  <2>1. CASE i \in DOMAIN applied /\ applied'[i] = applied[i]
    <3>1. applied[i][1] \in Conns /\ applied[i][2] \in Nat /\ Past(applied[i][1], applied[i][2])
      BY Zenon, <2>1, <1>t, EntriesOf DEF WritesInv
    <3>2. \A x \in calls : x.conn = applied[i][1] /\ x.at # "replying" => Before(applied[i][2], x)
      BY Zenon, <2>1 DEF WritesInv
    <3> QED BY Zenon, <2>1, <3>1, <3>2, <1>p, <1>2
  <2>2. ASSUME NEW x \in calls, Handle(x), applied' = Append(applied, <<x.conn, x.id>>)
        PROVE  /\ PastAfter(applied'[i][1], applied'[i][2])
               /\ \A y \in calls' : y.conn = applied'[i][1] /\ y.at # "replying" => Before(applied'[i][2], y)
    <3>1. (i \in DOMAIN applied /\ applied'[i] = applied[i]) \/ applied'[i] = <<x.conn, x.id>>
      <4>1. <<x.conn, x.id>> \in Writes
        BY Zenon, <2>2, <1>u
      <4> QED BY SMTT(30), <2>2, <4>1, <1>4, <1>t, AppendEntry
    <3>2. CASE applied'[i] = <<x.conn, x.id>>
      <4>1. applied'[i][1] = x.conn /\ applied'[i][2] = x.id
        BY <3>2
      <4>2. ~OnWrite(x)
        BY Zenon, <2>2 DEF OnWrite, Handle
      <4> QED BY Zenon, <2>2, <4>1, <4>2, <1>u, <1>w
    <3> QED BY Zenon, <2>1, <3>1, <3>2
  <2> QED BY Zenon, <1>4, <2>1, <2>2, <1>o DEF Reads, Works, OnWrite, Handle, Reply, Send, Comes, dataVars
<1> QED BY Zenon, <1>k, <1>3, <1>4 DEF WritesInv, Past, PastAfter, Before

(* Listen and the main goroutine close p, and the server before it. *)
LEMMA LogProc ==
  ASSUME TypeOK, MainInv, LogIsAhead, ProcStep
  PROVE  LogIsAhead'
<1>u. UNCHANGED <<cfg, conn, calls, log, applied>>
  BY Zenon, ProcStepKeeps
<1>1. logFile' = "open" => logFile = "open"
  BY Zenon DEF TypeOK, ProcStep, Signal, Main, SelectDone, SelectError, CloseListener, CloseServer, GracefulStop,
         Drained, AwaitListen, CloseLog, CloseStore, Bind, BindFails, AcceptFails, AcceptClosed,
         Return, vars, dataVars
<1>2. ln' = "closed" => (ln = "closed" /\ main # "drain") \/ logFile = "open"
  <2>1. ln' = "closed" => ln = "closed" \/ main = "close"
    BY Zenon DEF ProcStep, Signal, Main, SelectDone, SelectError, CloseListener, CloseServer, GracefulStop,
         Drained, AwaitListen, CloseLog, CloseStore, Bind, BindFails, AcceptFails, AcceptClosed,
         Return, vars, procVars
  <2> QED BY Zenon, <2>1 DEF TypeOK, MainInv
<1>3. Unapplied' = Unapplied /\ Range(log)' = Range(log) /\ Range(applied)' = Range(applied)
  BY Zenon, <1>u DEF Unapplied
<1>4. (/\ Once(log) /\ Once(applied)
       /\ cfg.transport # "grpc" => InOrder(log) /\ InOrder(applied))'
  BY Zenon, <1>u DEF LogIsAhead, InOrder, Once
<1> QED BY Zenon, <1>u, <1>1, <1>2, <1>3, <1>4 DEF LogIsAhead, Shut

(* What the steps of a command do to the writes that are not yet applied:  *)
(* onWrite adds its write, and the handler removes it.                     *)
LEMMA UnappliedStep ==
  ASSUME TypeOK, CallsInv, NEW c \in Conns, ConnStep(c)
  PROVE  /\ \A x \in calls : OnWrite(x) =>
              Unapplied' = IF x.kind = "SET" THEN Unapplied \cup {<<x.conn, x.id>>} ELSE Unapplied
         /\ \A x \in calls : Handle(x) =>
              /\ x.kind = "SET" => <<x.conn, x.id>> \in Unapplied
              /\ Unapplied' = IF x.kind = "SET" THEN Unapplied \ {<<x.conn, x.id>>} ELSE Unapplied
         /\ \A x \in calls : Reply(x) => Unapplied' = Unapplied
         /\ Reads(c) \/ Send(c) \/ Comes(c) => Unapplied' = Unapplied
<1>t. calls \subseteq Underway
  BY Zenon DEF TypeOK, Underway
<1>u. \A x, y \in calls : <<x.conn, x.id>> = <<y.conn, y.id>> => x = y
  <2> SUFFICES ASSUME NEW x \in calls, NEW y \in calls, <<x.conn, x.id>> = <<y.conn, y.id>>
               PROVE  x = y
    BY Zenon
  <2>1. x.conn = y.conn /\ x.id = y.id
    OBVIOUS
  <2> QED BY Zenon, <2>1 DEF CallsInv
<1> DEFINE Open(x, w) == x.at = "handling" /\ x.kind = "SET" /\ w = <<x.conn, x.id>>
<1>m. \A w : w \in Unapplied <=> \E x \in calls : Open(x, w)
  BY Zenon DEF Unapplied
<1>n. \A w : w \in Unapplied' <=> \E x \in calls' : Open(x, w)
  BY Zenon DEF Unapplied
<1> HIDE DEF Open
<1>1. ASSUME NEW x \in calls, OnWrite(x) \/ Handle(x)
      PROVE  /\ OnWrite(x) => Unapplied' = IF x.kind = "SET" THEN Unapplied \cup {<<x.conn, x.id>>} ELSE Unapplied
             /\ Handle(x) => /\ x.kind = "SET" => <<x.conn, x.id>> \in Unapplied
                             /\ Unapplied' = IF x.kind = "SET" THEN Unapplied \ {<<x.conn, x.id>>} ELSE Unapplied
  <2>1. PICK at \in {"handling", "replying"} :
          calls' = (calls \ {x}) \cup {[x EXCEPT !.at = at]} /\ (at = "handling" <=> OnWrite(x))
    BY Zenon, <1>1 DEF OnWrite, Handle, GoesOn
  <2> DEFINE m == [x EXCEPT !.at = at]
             v == <<x.conn, x.id>>
  <2>2. m.conn = x.conn /\ m.id = x.id /\ m.kind = x.kind /\ m.at = at
    BY <1>1, <1>t DEF Underway
  <2>3. calls' = (calls \ {x}) \cup {m}
    BY Zenon, <2>1
  <2> HIDE DEF m
  <2>4. \A w : w \in Unapplied' <=> (\E y \in calls : y # x /\ Open(y, w)) \/ Open(m, w)
    BY ONLY Zenon, <2>3, <1>n
  <2>5. ASSUME OnWrite(x)
        PROVE  Unapplied' = IF x.kind = "SET" THEN Unapplied \cup {v} ELSE Unapplied
    <3>1. \A w : ~Open(x, w) /\ (Open(m, w) <=> x.kind = "SET" /\ w = v)
      BY Zenon, <2>1, <2>2, <2>5 DEF OnWrite, Open
    <3> HIDE DEF v
    <3>2. \A w : w \in Unapplied' <=> w \in Unapplied \/ (x.kind = "SET" /\ w = v)
      BY ONLY Zenon, <3>1, <2>4, <1>m
    <3> QED BY ONLY Zenon, <3>2
  <2>6. ASSUME Handle(x)
        PROVE  /\ x.kind = "SET" => v \in Unapplied
               /\ Unapplied' = IF x.kind = "SET" THEN Unapplied \ {v} ELSE Unapplied
    <3>1. \A w : (Open(x, w) <=> x.kind = "SET" /\ w = v) /\ ~Open(m, w)
      BY Zenon, <2>1, <2>2, <2>6 DEF OnWrite, Handle, Open
    <3>2. \A y \in calls : Open(y, v) => y = x
      BY Zenon, <1>1, <1>u DEF Open
    <3> HIDE DEF v
    <3>3. x.kind = "SET" => v \in Unapplied
      BY Zenon, <1>1, <3>1, <1>m
    <3>4. \A w : w \in Unapplied' <=> w \in Unapplied /\ ~(x.kind = "SET" /\ w = v)
      <4> SUFFICES ASSUME NEW w PROVE w \in Unapplied' <=> w \in Unapplied /\ ~(x.kind = "SET" /\ w = v)
        BY Zenon
      <4>1. CASE x.kind = "SET" /\ w = v
        BY ONLY Zenon, <4>1, <3>1, <3>2, <2>4
      <4>2. CASE ~(x.kind = "SET" /\ w = v)
        BY ONLY Zenon, <4>2, <3>1, <2>4, <1>m
      <4> QED BY Zenon, <4>1, <4>2
    <3> QED BY ONLY Zenon, <3>3, <3>4
  <2> QED BY Zenon, <2>5, <2>6
<1>2. ASSUME NEW x \in calls, Reply(x) PROVE Unapplied' = Unapplied
  <2>1. (\A w : ~Open(x, w)) /\ calls' = calls \ {x}
    BY Zenon, <1>2 DEF Reply, Open
  <2> QED BY Zenon, <2>1, <1>m, <1>n
<1>3. ASSUME Reads(c) \/ Send(c) \/ Comes(c) PROVE Unapplied' = Unapplied
  <2>1. ASSUME NEW kind \in Kinds, NEW at \in {"logging", "replying"}, Begin(c, kind, at)
        PROVE  Unapplied' = Unapplied
    <3> DEFINE m == [conn |-> c, id |-> inbox[c][1], kind |-> kind, at |-> at]
    <3>1. m.at # "handling"
      OBVIOUS
    <3>2. calls' = calls \cup {m}
      BY Zenon, <2>1 DEF Begin
    <3> HIDE DEF m
    <3>3. \A w : ~Open(m, w)
      BY Zenon, <3>1 DEF Open
    <3> QED BY Zenon, <3>2, <3>3, <1>m, <1>n
  <2>2. CASE calls' = calls
    BY Zenon, <2>2, <1>m, <1>n
  <2> QED BY Zenon, <1>3, <2>1, <2>2 DEF Reads, Send, Comes
<1> QED BY Zenon, <1>1, <1>2, <1>3

(* A write is logged before it is applied. *)
LEMMA LogConn ==
  ASSUME TypeOK, MainInv, CallsInv, WritesInv, LogIsAhead, NEW c \in Conns, ConnStep(c)
  PROVE  LogIsAhead'
<1>t. log \in Seq(Writes) /\ applied \in Seq(Writes) /\ calls \subseteq Underway
  BY Zenon DEF TypeOK, Underway
<1>o. Reads(c) \/ Works(c) \/ Send(c) \/ Comes(c)
  BY Zenon, ConnSteps
<1>k. UNCHANGED <<cfg, main, ln, logFile>>
  BY Zenon, ConnStepKeeps
<1> DEFINE Ahead == logFile = "open" \/ (Shut /\ cfg.transport = "grpc")
           Good(s) == Once(s) /\ (cfg.transport # "grpc" => InOrder(s))
<1>a. Ahead' <=> Ahead
  BY Zenon, <1>k DEF Shut
<1>h. Good(log) /\ Good(applied) /\ (Ahead => Range(log) = Range(applied) \cup Unapplied
                                            /\ Range(applied) \cap Unapplied = {})
  BY Zenon DEF LogIsAhead
<1>p. ASSUME NEW s \in Seq(Writes), NEW x \in calls, Good(s),
             \A i \in DOMAIN s : s[i][1] = x.conn => Before(s[i][2], x)
      PROVE  /\ Good(Append(s, <<x.conn, x.id>>))
             /\ Range(Append(s, <<x.conn, x.id>>)) = Range(s) \cup {<<x.conn, x.id>>}
             /\ <<x.conn, x.id>> \notin Range(s)
  <2> DEFINE w == <<x.conn, x.id>>
  <2>1. w \in Writes
    BY Zenon, <1>p, <1>t, Moved DEF Writes
  <2>2. w[1] = x.conn /\ w[2] = x.id
    OBVIOUS
  <2> HIDE DEF w
  <2>3. \A i \in DOMAIN s : s[i] # w /\ (cfg.transport # "grpc" => (s[i][1] = w[1] => s[i][2] < w[2]))
    BY Zenon, <1>p, <2>2 DEF Before
  <2>4. w \notin Range(s)
    BY Zenon, <2>3 DEF Range
  <2> QED BY Zenon, <1>p, <2>1, <2>3, <2>4, AppendWrite, AppendEntry DEF w
<1> HIDE DEF Ahead, Good
<1>g. SUFFICES /\ Good(log') /\ Good(applied')
               /\ Ahead => /\ Range(log') = Range(applied') \cup Unapplied'
                           /\ Range(applied') \cap Unapplied' = {}
  BY Zenon, <1>a, <1>k DEF LogIsAhead, Ahead, Good, InOrder, Once
<1>1. ASSUME NEW x \in calls, OnWrite(x)
      PROVE  /\ Good(log') /\ Good(applied')
             /\ Ahead => /\ Range(log') = Range(applied') \cup Unapplied'
                         /\ Range(applied') \cap Unapplied' = {}
  <2> DEFINE w == <<x.conn, x.id>>
  <2>1. x.at = "logging" /\ applied' = applied
    BY Zenon, <1>1 DEF OnWrite
  <2>3. Unapplied' = IF x.kind = "SET" THEN Unapplied \cup {w} ELSE Unapplied
    BY Zenon, <1>1, UnappliedStep
  <2>4. Ahead => logFile = "open"
    <3>1. ~(cfg.transport = "grpc" /\ ln = "closed" /\ main # "drain")
      BY Zenon, <1>1 DEF MainInv
    <3> QED BY Zenon, <3>1 DEF Ahead, Shut
  <2>5. CASE x.kind = "SET" /\ logFile = "open"
    <3>1. log' = Append(log, w)
      BY Zenon, <1>1, <2>5 DEF OnWrite
    <3>2. /\ \A i \in DOMAIN log : log[i][1] = x.conn => Before(log[i][2], x)
          /\ \A i \in DOMAIN applied : applied[i][1] = x.conn => Before(applied[i][2], x)
      BY Zenon, <1>1, <2>1 DEF WritesInv
    <3>3. Good(log') /\ Range(log') = Range(log) \cup {w} /\ w \notin Range(applied)
      BY Zenon, <1>1, <3>1, <3>2, <1>t, <1>h, <1>p
    <3> HIDE DEF w
    <3> QED BY Zenon, <1>h, <2>1, <2>3, <2>5, <3>3
  <2>6. CASE ~(x.kind = "SET" /\ logFile = "open")
    <3>1. log' = log
      BY Zenon, <1>1, <2>6 DEF OnWrite
    <3> QED BY Zenon, <1>h, <2>1, <2>3, <2>4, <2>6, <3>1
  <2> QED BY Zenon, <2>5, <2>6
<1>2. ASSUME NEW x \in calls, Handle(x)
      PROVE  /\ Good(log') /\ Good(applied')
             /\ Ahead => /\ Range(log') = Range(applied') \cup Unapplied'
                         /\ Range(applied') \cap Unapplied' = {}
  <2> DEFINE w == <<x.conn, x.id>>
  <2>1. x.at # "replying" /\ log' = log
    BY Zenon, <1>2 DEF Handle
  <2>3. /\ x.kind = "SET" => w \in Unapplied
        /\ Unapplied' = IF x.kind = "SET" THEN Unapplied \ {w} ELSE Unapplied
    BY Zenon, <1>2, UnappliedStep
  <2>4. CASE x.kind = "SET"
    <3>1. applied' = Append(applied, w)
      BY Zenon, <1>2, <2>4 DEF Handle
    <3>2. \A i \in DOMAIN applied : applied[i][1] = x.conn => Before(applied[i][2], x)
      BY Zenon, <1>2, <2>1 DEF WritesInv
    <3>3. Good(applied') /\ Range(applied') = Range(applied) \cup {w}
      BY Zenon, <1>2, <3>1, <3>2, <1>t, <1>h, <1>p
    <3> HIDE DEF w
    <3> QED BY Zenon, <1>h, <2>1, <2>3, <2>4, <3>3
  <2>5. CASE x.kind # "SET"
    <3>1. applied' = applied
      BY Zenon, <1>2, <2>5 DEF Handle
    <3> QED BY Zenon, <1>h, <2>1, <2>3, <2>5, <3>1
  <2> QED BY Zenon, <2>4, <2>5
<1>3. ASSUME UNCHANGED <<log, applied>>, Unapplied' = Unapplied
      PROVE  /\ Good(log') /\ Good(applied')
             /\ Ahead => /\ Range(log') = Range(applied') \cup Unapplied'
                         /\ Range(applied') \cap Unapplied' = {}
  BY Zenon, <1>h, <1>3
<1>4. ASSUME NEW x \in calls, Reply(x) PROVE UNCHANGED <<log, applied>> /\ Unapplied' = Unapplied
  BY Zenon, <1>4, UnappliedStep DEF Reply, dataVars
<1>5. ASSUME Reads(c) \/ Send(c) \/ Comes(c) PROVE UNCHANGED <<log, applied>> /\ Unapplied' = Unapplied
  BY Zenon, <1>5, UnappliedStep DEF Reads, Send, Comes, dataVars
<1> QED BY Zenon, <1>o, <1>1, <1>2, <1>3, <1>4, <1>5 DEF Works

-----------------------------------------------------------------------------
(* The theorems.                                                           *)

(* The invariant of the main goroutine, Listen and the connections. *)
THEOREM ServerInvariant == Spec => []ServerInv
<1>1. Init => ServerInv
  <2> SUFFICES ASSUME Init PROVE ServerInv
    OBVIOUS
  <2>1. TypeOK
    <3>1. 0 \in 0 .. MaxCommands
      BY ServerAssumption
    <3>2. <<>> \in Seq(Ids) /\ <<>> \in Seq(Writes) /\ 0 \in 0 .. 1 /\ 0 \in 0 .. cfg.maxConns
      BY ServerAssumption DEF Init
    <3> QED BY Zenon, <3>1, <3>2 DEF Init, TypeOK
  <2>2. SlotsHeld
    <3>1. {c \in Conns : Served(c)} = {}
      BY Zenon DEF Init, Served
    <3> QED BY Zenon, <3>1, FS_EmptySet DEF Init, SlotsHeld
  <2>3. MainInv /\ SocketInv /\ CallsInv /\ RepliesInOrder /\ WritesInv
    BY SMTT(30) DEF Init, MainInv, SocketInv, CallsInv, RepliesInOrder, WritesInv, Once
  <2>4. LogIsAhead
    BY SMTT(30) DEF Init, LogIsAhead, InOrder, Once, Unapplied, Range
  <2> QED BY Zenon, <2>1, <2>2, <2>3, <2>4 DEF ServerInv
<1>2. ASSUME ServerInv, ProcStep PROVE ServerInv'
  <2>1. SlotsHeld' /\ SocketInv' /\ CallsInv' /\ RepliesInOrder' /\ WritesInv'
    <3> USE <1>2, ProcStepKeeps
    <3>1. SlotsHeld'
      BY Zenon DEF ServerInv, SlotsHeld, Served
    <3>2. SocketInv'
      BY Zenon DEF ServerInv, SocketInv, Past
    <3>3. CallsInv'
      BY Zenon DEF ServerInv, CallsInv, Before
    <3>4. RepliesInOrder'
      BY Zenon DEF ServerInv, RepliesInOrder, Once
    <3>5. WritesInv'
      BY Zenon DEF ServerInv, WritesInv, Past, Before
    <3> QED BY Zenon, <3>1, <3>2, <3>3, <3>4, <3>5
  <2> QED BY Zenon, <1>2, <2>1, ProcInv, LogProc DEF ServerInv
<1>3. ASSUME ServerInv, NEW c \in Conns, ConnStep(c) PROVE ServerInv'
  BY Zenon, <1>3, SlotsConn, TypeConn, MainConn, SocketConn, CallsConn, RepliesConn, WritesConn, LogConn
     DEF ServerInv
<1>4. ServerInv /\ [Next]_vars => ServerInv'
  BY Zenon, <1>2, <1>3 DEF Next, ProcStep, ConnStep
<1> QED BY <1>1, <1>4, PTL DEF Spec

(* Type correctness of the server; the semaphore of Listen never has more  *)
(* than maxConns tokens, nor errCh more than its capacity.                 *)
THEOREM TypeCorrect == Spec => []TypeOK
<1>1. ServerInv => TypeOK
  BY Zenon DEF ServerInv
<1> QED BY <1>1, ServerInvariant, PTL

(* The semaphore of Listen counts the connections that are served. *)
THEOREM SlotsAreHeld == Spec => []SlotsHeld
<1>1. ServerInv => SlotsHeld
  BY Zenon DEF ServerInv
<1> QED BY <1>1, ServerInvariant, PTL

(* Hence Listen never serves more than maxConns connections at once. *)
THEOREM ConnectionLimit ==
  Spec => [](cfg.maxConns > 0 => Cardinality({c \in Conns : Served(c)}) <= cfg.maxConns)
<1>1. ServerInv => (cfg.maxConns > 0 => Cardinality({c \in Conns : Served(c)}) <= cfg.maxConns)
  BY ServerAssumption DEF ServerInv, TypeOK, SlotsHeld
<1> QED BY <1>1, ServerInvariant, PTL

(* The three transports log a write before they apply it, and once; RESP   *)
(* and HTTP keep the order in which the client of a connection sent them,  *)
(* and gRPC, whose calls run side by side, need not.                       *)
THEOREM LogLeads == Spec => []LogIsAhead
<1>1. ServerInv => LogIsAhead
  BY Zenon DEF ServerInv
<1> QED BY <1>1, ServerInvariant, PTL

(* A gRPC server that GracefulStop has stopped ends with exactly the       *)
(* applied writes in its log.                                              *)
THEOREM GracefulStopLosesNothing ==
  Spec => [](main = "exited" /\ cfg.transport = "grpc" /\ ln = "closed" => Range(log) = Range(applied))
<1>1. ServerInv => (main = "exited" /\ cfg.transport = "grpc" /\ ln = "closed" => Range(log) = Range(applied))
  <2> SUFFICES ASSUME ServerInv, main = "exited", cfg.transport = "grpc", ln = "closed"
               PROVE  Range(log) = Range(applied)
    OBVIOUS
  <2>1. Unapplied = {}
    BY Zenon DEF ServerInv, MainInv, Unapplied
  <2> QED BY Zenon, <2>1 DEF ServerInv, LogIsAhead, Shut
<1> QED BY <1>1, ServerInvariant, PTL

(* No command is answered twice and, over RESP and HTTP, the replies come  *)
(* in the order of the commands.                                           *)
THEOREM RepliesAreInOrder == Spec => []RepliesInOrder
<1>1. ServerInv => RepliesInOrder
  BY Zenon DEF ServerInv
<1> QED BY <1>1, ServerInvariant, PTL
=============================================================================
