---------------------------- MODULE MCClientCommands ----------------------------
(* A small instance of ClientCommands: a command that opens the file, beside those that end,   *)
(* start or lose daemons, call servers and fail in ways of their own.                          *)
EXTENDS ClientCommands, TLC

CONSTANTS c1, c2

DoBeside == (c1 :> {"do"}) @@ (c2 :> {"mcp_call", "stop", "restart"})

================================================================================
