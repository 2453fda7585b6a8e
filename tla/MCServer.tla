------------------------------ MODULE MCServer ------------------------------
(* Server for TLC: RESP with one connection at a time and a password, and  *)
(* the two transports that have neither a limit nor a password.  gRPC has  *)
(* two calls of one connection, or a call of each of two.                  *)
EXTENDS Server

Each(n) == [c \in Conns |-> n]

OnlyOne == [c \in Conns |-> IF c = CHOOSE d \in Conns : TRUE THEN MaxCommands ELSE 0]

Open(transport, sends) == [transport |-> transport, maxConns |-> 0, password |-> FALSE, sends |-> sends]

MCConfigs ==
  {[transport |-> "resp", maxConns |-> 1, password |-> TRUE, sends |-> Each(MaxCommands)],
   Open("http", Each(MaxCommands)), Open("grpc", OnlyOne), Open("grpc", Each(1))}

MCOpen == {Open("resp", Each(MaxCommands))}
=============================================================================
