----------------------------- MODULE ClientCommands -----------------------------
(***************************************************************************)
(* The commands of lspee that talk to a daemon over its control socket     *)
(* (do, call, capabilities, status, stop, restart and the tools of the MCP *)
(* server), the control loop that answers them, and the socket file under  *)
(* which they find it: how a daemon is started, lost and stopped, and what *)
(* becomes of a command's lease and of the document it opened.             *)
(*                                                                         *)
(* A command is a script of requests, each answered before the next one is *)
(* sent.  All commands are for one session key and one file.  A daemon's   *)
(* registry is reduced to its session and its leases: SessionRegistry has  *)
(* the details.                                                            *)
(***************************************************************************)
EXTENDS Naturals, Sequences

CONSTANTS
    Clients, Daemons,
    KindsOf,        \* KindsOf[c]: the commands that c may be
    None,
    MaxKills        \* bound: processes that are killed

AllKinds == {"do", "call", "caps", "status", "stop", "restart",
             "mcp_call", "mcp_caps", "mcp_status"}

ASSUME KindsAssumption == KindsOf \in [Clients -> SUBSET AllKinds]
ASSUME KillsAssumption == MaxKills \in Nat

VARIABLES
    kind, step, phase,  \* a command, the request it is at, and what it is doing
    at, wire,           \* the daemon it is connected to, and the state of that connection
    req, resp,          \* the request in flight; answers not yet read
    opened,             \* commands whose didOpen was accepted
    dst, sock,          \* the daemons; whose socket the file is
    live, docs, lease,  \* daemons with a session, with the file open in it; lease[c]: the
                        \*   daemon that holds a lease of c
    kills,
    crossed             \* history: commands whose document another command closed

vars == <<kind, step, phase, at, wire, req, resp, opened, dst, sock, live, docs, lease,
          kills, crossed>>
tables == <<live, docs, lease, crossed>>

\* The requests: the type of the envelope and, of a notification, what it tells the server.
AttachSession == [type |-> "Attach", tells |-> "nothing"]
SendDidOpen   == [type |-> "Notify", tells |-> "didOpen"]
CallServer    == [type |-> "Call", tells |-> "nothing"]
SendDidClose  == [type |-> "Notify", tells |-> "didClose"]
ReleaseLease  == [type |-> "Release", tells |-> "nothing"]
QueryStats    == [type |-> "Stats", tells |-> "nothing"]
AskShutdown   == [type |-> "Shutdown", tells |-> "nothing"]
Asked         == [type |-> "asked", tells |-> "nothing"] \* a call that is with the server

ASSUME NoneAssumption == None # Asked

\* The requests of each command, in order, when nothing goes wrong.
DoScript      == <<AttachSession, SendDidOpen, CallServer, SendDidClose, ReleaseLease>>
CallScript    == <<AttachSession, CallServer, ReleaseLease>>
CapsScript    == <<AttachSession, ReleaseLease>>
StatusScript  == <<QueryStats>>
StopScript    == <<AskShutdown>>
RestartScript == <<AskShutdown, QueryStats>>
RawCall           == <<AttachSession, CallServer, ReleaseLease>>
QueryCapabilities == <<AttachSession, ReleaseLease>>
QueryStatus       == <<QueryStats>>

Script(k) ==
    CASE k = "do"         -> DoScript
      [] k = "call"       -> CallScript
      [] k = "caps"       -> CapsScript
      [] k = "status"     -> StatusScript
      [] k = "stop"       -> StopScript
      [] k = "restart"    -> RestartScript
      [] k = "mcp_call"   -> RawCall
      [] k = "mcp_caps"   -> QueryCapabilities
      [] k = "mcp_status" -> QueryStatus

Op(c)     == Script(kind[c])[step[c]]
Ended(c)  == phase[c] \in {"done", "failed", "killed"}
Up(d)     == dst[d] \in {"listening", "stopping"}
Reachable == sock # None /\ Up(sock)
Lessees(d) == {c \in Clients : lease[c] = d}

Init ==
    /\ kind \in {k \in [Clients -> AllKinds] : \A c \in Clients : k[c] \in KindsOf[c]}
    /\ step = [c \in Clients |-> 1] /\ phase = [c \in Clients |-> "connect"]
    /\ at = [c \in Clients |-> None] /\ wire = [c \in Clients |-> "none"]
    /\ req = [c \in Clients |-> None] /\ resp = [c \in Clients |-> <<>>]
    /\ opened = {}
    /\ dst = [d \in Daemons |-> "off"] /\ sock = None
    /\ live = {} /\ docs = {} /\ lease = [c \in Clients |-> None]
    /\ kills = 0 /\ crossed = {}

--------------------------------------------------------------------------------
\* Connecting

\* stop, and the first half of restart, never start a daemon.
AutoStart(c) == kind[c] # "stop" /\ ~(kind[c] = "restart" /\ step[c] = 1)

\* Whoever owns the file: a daemon that is stopping still has its listener.
Connect(c) ==
    /\ phase[c] \in {"connect", "retry"}
    /\ Reachable
    /\ at' = [at EXCEPT ![c] = sock]
    /\ wire' = [wire EXCEPT ![c] = "backlog"]
    /\ phase' = [phase EXCEPT ![c] = "ready"]
    /\ UNCHANGED <<kind, step, req, resp, opened, dst, sock, tables, kills>>

\* No file, or nobody behind it: spawn_daemon, and up to forty more attempts.
SpawnDaemon(c, d) ==
    /\ phase[c] = "connect" /\ ~Reachable
    /\ AutoStart(c)
    /\ dst[d] = "off"
    /\ dst' = [dst EXCEPT ![d] = "starting"]
    /\ phase' = [phase EXCEPT ![c] = "retry"]
    /\ UNCHANGED <<kind, step, at, wire, req, resp, opened, sock, tables, kills>>

\* --no-start-daemon, a failed spawn, or the last attempt.  A restart goes on to its second half.
ConnectFails(c) ==
    /\ phase[c] \in {"connect", "retry"} /\ ~Reachable
    /\ IF kind[c] = "restart" /\ step[c] = 1
       THEN step' = [step EXCEPT ![c] = 2] /\ UNCHANGED phase
       ELSE phase' = [phase EXCEPT ![c] = "failed"] /\ UNCHANGED step
    /\ UNCHANGED <<kind, at, wire, req, resp, opened, dst, sock, tables, kills>>

--------------------------------------------------------------------------------
\* A request and its answer, in the client

\* attach_session: without its answer there is no lease to go on with.
AttachFatal(outcome) == outcome # "ok"

\* A command whose only request is for the daemon itself.  A restart shuts down as well as it can.
DaemonFatal(c, outcome) == outcome # "ok" /\ ~(kind[c] = "restart" /\ Op(c) = AskShutdown)

\* Mutant: an error answered to the call ends the command.
CallErrorFatal(c, outcome) == outcome # "ok"

\* The answer to a call is looked at after the release, whether it came or not; but raw_call
\* of the MCP server needs one.
CallFatal(c, outcome) == outcome = "write" \/ (outcome = "eof" /\ kind[c] = "mcp_call")

\* Where the code leaves the command with `?`: the failure of a didOpen, a didClose or a release
\* is logged at most.
Fatal(c, outcome) ==
    \/ Op(c) = AttachSession /\ AttachFatal(outcome)
    \/ Op(c) = CallServer /\ CallFatal(c, outcome)
    \/ Op(c) \in {QueryStats, AskShutdown} /\ DaemonFatal(c, outcome)

\* send_did_open: the document is open when its notification was accepted.
HasOpened(c, outcome) == IF Op(c) = SendDidOpen THEN outcome = "ok" ELSE c \in opened

\* didClose is only sent for a document that was opened.
FollowingStep(c, isOpen) ==
    IF Op(c) = CallServer /\ kind[c] = "do" /\ ~isOpen THEN step[c] + 2 ELSE step[c] + 1

\* The connection is dropped.
Disconnect(c) ==
    /\ at' = [at EXCEPT ![c] = None] /\ wire' = [wire EXCEPT ![c] = "none"]
    /\ req' = [req EXCEPT ![c] = None] /\ resp' = [resp EXCEPT ![c] = <<>>]

\* The request ended with `outcome`: "ok" or "error" answered, "eof", "write" failed, "unsent".
\* A command has "failed" when its connection did not last.  A restart connects once more.
Advance(c, outcome) ==
    LET isOpen == HasOpened(c, outcome)
        next   == FollowingStep(c, isOpen)
        over   == Fatal(c, outcome) \/ next > Len(Script(kind[c]))
    IN  /\ opened' = IF isOpen /\ ~over THEN opened \cup {c} ELSE opened \ {c}
        /\ step' = [step EXCEPT ![c] = IF over THEN 1 ELSE next]
        /\ phase' = [phase EXCEPT ![c] = IF over THEN IF wire[c] = "served" THEN "done" ELSE "failed"
                                         ELSE IF kind[c] = "restart" THEN "connect" ELSE "ready"]
        /\ IF over \/ kind[c] = "restart" THEN Disconnect(c)
           ELSE /\ resp' = [resp EXCEPT ![c] = IF outcome \in {"ok", "error"} THEN Tail(@) ELSE @]
                /\ UNCHANGED <<at, wire, req>>

Send(c) ==
    /\ phase[c] = "ready"
    /\ wire[c] # "shut"
    /\ req' = [req EXCEPT ![c] = Op(c)]
    /\ phase' = [phase EXCEPT ![c] = "waiting"]
    /\ UNCHANGED <<kind, step, at, wire, resp, opened, dst, sock, tables, kills>>

WriteFails(c) ==
    /\ phase[c] = "ready"
    /\ wire[c] = "shut"
    /\ Advance(c, "write")
    /\ UNCHANGED <<kind, dst, sock, tables, kills>>

\* No didOpen is sent: the file cannot be read, or the method has none (workspace-symbol).
NothingToOpen(c) ==
    /\ phase[c] = "ready"
    /\ Op(c) = SendDidOpen
    /\ Advance(c, "unsent")
    /\ UNCHANGED <<kind, dst, sock, tables, kills>>

\* read_response_for_id: an answer without this request's id is passed over.
Read(c) ==
    /\ phase[c] = "waiting"
    /\ resp[c] # <<>>
    /\ IF Head(resp[c]).id = Op(c)
       THEN Advance(c, IF Head(resp[c]).ok THEN "ok" ELSE "error")
       ELSE resp' = [resp EXCEPT ![c] = Tail(@)] /\ UNCHANGED <<step, phase, at, wire, req, opened>>
    /\ UNCHANGED <<kind, dst, sock, tables, kills>>

\* Mutant: the end of the connection is no answer, and no error.
EofIgnored(c) ==
    /\ phase[c] = "waiting" /\ wire[c] = "shut" /\ resp[c] = <<>>
    /\ UNCHANGED vars

Eof(c) ==
    /\ phase[c] = "waiting" /\ wire[c] = "shut" /\ resp[c] = <<>>
    /\ Advance(c, "eof")
    /\ UNCHANGED <<kind, dst, sock, tables, kills>>

\* The process is killed; what it has sent is still handled.
KillClient(c) ==
    /\ ~Ended(c)
    /\ kills < MaxKills
    /\ kills' = kills + 1
    /\ phase' = [phase EXCEPT ![c] = "killed"]
    /\ resp' = [resp EXCEPT ![c] = <<>>] /\ opened' = opened \ {c}
    /\ UNCHANGED <<kind, step, at, wire, req, dst, sock, tables>>

--------------------------------------------------------------------------------
\* The control loop

\* The connection is in the hands of a task of a daemon that runs: one that was accepted in time,
\* or is now.
Served(c) ==
    \/ wire[c] = "served" /\ Up(at[c])
    \/ wire[c] = "backlog" /\ dst[at[c]] = "listening"

Reply(c, ok) ==
    /\ resp' = [resp EXCEPT ![c] = Append(@, [id |-> req[c], ok |-> ok])]
    /\ req' = [req EXCEPT ![c] = None]

\* The loop goes on to the connection's next request.
Keep(c) == wire' = [wire EXCEPT ![c] = "served"]

\* A text or a request makes the frame too large: it is answered without an id, and the connection is over.
HandleTooLarge(c) ==
    /\ resp' = [resp EXCEPT ![c] = Append(@, [id |-> None, ok |-> FALSE])]
    /\ req' = [req EXCEPT ![c] = None]
    /\ wire' = [wire EXCEPT ![c] = "shut"]
    /\ UNCHANGED <<dst, tables>>

\* The session is found or spawned; a bad key or a failed spawn is an error.
HandleAttach(c) ==
    /\ \/ /\ Reply(c, TRUE)
          /\ lease' = [lease EXCEPT ![c] = at[c]]
          /\ live' = live \cup {at[c]}
       \/ Reply(c, FALSE) /\ UNCHANGED <<lease, live>>
    /\ Keep(c)
    /\ UNCHANGED <<dst, docs, crossed>>

HasSession(c) == lease[c] = at[c] /\ at[c] \in live

\* didOpen and didClose are queued for the server, in one order with the calls.
HandleNotify(c) ==
    /\ \/ /\ HasSession(c)
          /\ Reply(c, TRUE)
          /\ docs' = IF req[c] = SendDidOpen THEN docs \cup {at[c]} ELSE docs \ {at[c]}
          /\ crossed' = IF req[c] = SendDidOpen THEN crossed \ {c}
                        ELSE crossed \cup {b \in Lessees(at[c]) \ {c} : kind[b] = "do"}
       \/ Reply(c, FALSE) /\ UNCHANGED <<docs, crossed>>
    /\ Keep(c)
    /\ UNCHANGED <<dst, live, lease>>

\* The call waits for the server as "asked"; without a lease or a session it is an error.
HandleCall(c) ==
    /\ IF HasSession(c)
       THEN req' = [req EXCEPT ![c] = Asked] /\ UNCHANGED resp
       ELSE Reply(c, FALSE)
    /\ Keep(c)
    /\ UNCHANGED <<dst, tables>>

HandleRelease(c) ==
    /\ Reply(c, lease[c] = at[c])
    /\ lease' = [lease EXCEPT ![c] = None]
    /\ Keep(c)
    /\ UNCHANGED <<dst, live, docs, crossed>>

HandleStats(c) == Reply(c, TRUE) /\ Keep(c) /\ UNCHANGED <<dst, tables>>

\* The signal is set, the answer written and the connection left.
HandleShutdown(c) ==
    /\ Reply(c, TRUE)
    /\ wire' = [wire EXCEPT ![c] = "shut"]
    /\ dst' = [dst EXCEPT ![at[c]] = "stopping"]
    /\ UNCHANGED tables

Handle(c) ==
    /\ Served(c) /\ req[c] \notin {None, Asked}
    /\ \/ req[c] \in {SendDidOpen, CallServer} /\ HandleTooLarge(c)
       \/ req[c].type = "Attach" /\ HandleAttach(c)
       \/ req[c].type = "Notify" /\ HandleNotify(c)
       \/ req[c].type = "Call" /\ HandleCall(c)
       \/ req[c].type = "Release" /\ HandleRelease(c)
       \/ req[c].type = "Stats" /\ HandleStats(c)
       \/ req[c].type = "Shutdown" /\ HandleShutdown(c)
    /\ UNCHANGED <<kind, step, phase, at, opened, sock, kills>>

\* The server answers, or the call fails with its session.
Answer(c) ==
    /\ req[c] = Asked
    /\ \E ok \in BOOLEAN :
          resp' = [resp EXCEPT ![c] = Append(@, [id |-> CallServer, ok |-> ok])]
    /\ req' = [req EXCEPT ![c] = None]
    /\ UNCHANGED <<kind, step, phase, at, wire, opened, dst, sock, tables, kills>>

--------------------------------------------------------------------------------
\* Sessions and daemons

\* Mutant: a removed session's leases are kept.
EvictSessionOnly(d) ==
    /\ d \in live
    /\ live' = live \ {d} /\ docs' = docs \ {d}
    /\ UNCHANGED <<kind, step, phase, at, wire, req, resp, opened, dst, sock, lease, kills, crossed>>

\* For its memory, whoever uses it, or because it is idle: the record goes and its leases with it.
Evict(d) ==
    /\ d \in live
    /\ live' = live \ {d} /\ docs' = docs \ {d}
    /\ lease' = [c \in Clients |-> IF lease[c] = d THEN None ELSE lease[c]]
    /\ UNCHANGED <<kind, step, phase, at, wire, req, resp, opened, dst, sock, kills, crossed>>

IdleEvict(d) == Lessees(d) = {} /\ Evict(d)

DaemonStep(d, from, to) == dst[d] = from /\ dst' = [dst EXCEPT ![d] = to]

\* lspee serve, by hand.
Serve(d) ==
    /\ DaemonStep(d, "off", "starting")
    /\ UNCHANGED <<kind, step, phase, at, wire, req, resp, opened, sock, tables, kills>>

\* Its configuration does not resolve, or its directory cannot be made.
StartFails(d) ==
    /\ DaemonStep(d, "starting", "exited")
    /\ UNCHANGED <<kind, step, phase, at, wire, req, resp, opened, sock, tables, kills>>

\* A socket file is taken for a leftover, whoever listens on it.
RemoveStale(d) ==
    /\ DaemonStep(d, "starting", "cleared")
    /\ sock' = None
    /\ UNCHANGED <<kind, step, phase, at, wire, req, resp, opened, tables, kills>>

\* bind fails when another daemon has bound the path since.
Bind(d) ==
    /\ DaemonStep(d, "cleared", IF sock = None THEN "listening" ELSE "exited")
    /\ sock' = IF sock = None THEN d ELSE sock
    /\ UNCHANGED <<kind, step, phase, at, wire, req, resp, opened, tables, kills>>

\* Mutant: the timer is left to the daemon that can be reached.
IdleStopReachable(d) ==
    /\ d \notin live /\ sock = d
    /\ DaemonStep(d, "listening", "stopping")
    /\ UNCHANGED <<kind, step, phase, at, wire, req, resp, opened, sock, tables, kills>>

\* The auto-shutdown timer of an empty daemon.  Its count and its signal, which DaemonLifecycle
\* keeps apart, are one step here: that a session made in between is stopped with the daemon is
\* what a Shutdown request of another client does to it as well.
IdleStop(d) ==
    /\ d \notin live
    /\ DaemonStep(d, "listening", "stopping")
    /\ UNCHANGED <<kind, step, phase, at, wire, req, resp, opened, sock, tables, kills>>

\* A process that ends takes its connections, its sessions and its leases along.
Gone(d) ==
    LET cut == {c \in Clients : at[c] = d /\ wire[c] \in {"backlog", "served"}}
    IN  /\ wire' = [c \in Clients |-> IF c \in cut THEN "shut" ELSE wire[c]]
        /\ req' = [c \in Clients |-> IF c \in cut THEN None ELSE req[c]]
        /\ live' = live \ {d} /\ docs' = docs \ {d}
        /\ lease' = [c \in Clients |-> IF lease[c] = d THEN None ELSE lease[c]]

\* The sessions are shut down and the file is removed, whosever it is by now.
Exit(d) ==
    /\ DaemonStep(d, "stopping", "exited")
    /\ sock' = None
    /\ Gone(d)
    /\ UNCHANGED <<kind, step, phase, at, resp, opened, kills, crossed>>

\* Killed: the file stays and refuses connections.
KillDaemon(d) ==
    /\ Up(d)
    /\ kills < MaxKills
    /\ kills' = kills + 1
    /\ dst' = [dst EXCEPT ![d] = "exited"]
    /\ Gone(d)
    /\ UNCHANGED <<kind, step, phase, at, resp, opened, sock, crossed>>

ClientStep(c) ==
    \/ Connect(c) \/ (\E d \in Daemons : SpawnDaemon(c, d)) \/ ConnectFails(c)
    \/ Send(c) \/ WriteFails(c) \/ NothingToOpen(c) \/ Read(c) \/ Eof(c)

ServingStep(c) == Handle(c) \/ Answer(c)

Next ==
    \/ \E c \in Clients : ClientStep(c) \/ ServingStep(c) \/ KillClient(c)
    \/ \E d \in Daemons :
          \/ Evict(d) \/ Serve(d) \/ StartFails(d) \/ RemoveStale(d) \/ Bind(d) \/ IdleStop(d) \/ Exit(d)
          \/ KillDaemon(d)

Spec == Init /\ [][Next]_vars

\* Processes run, servers answer, and an idle session and an empty daemon reach their deadlines.
Fairness ==
    /\ \A c \in Clients : WF_vars(ClientStep(c) \/ ServingStep(c))
    /\ \A d \in Daemons :
          WF_vars(StartFails(d) \/ RemoveStale(d) \/ Bind(d) \/ IdleEvict(d) \/ IdleStop(d) \/ Exit(d))

FairSpec == Spec /\ Fairness

--------------------------------------------------------------------------------
\* Properties

\* A command that ran to its end, with a connection that lasted as long, has given its lease
\* back, whatever was answered on the way (run_async of do, call and capabilities, raw_call).
ReleasedAtEnd ==
    \A c \in Clients : phase[c] = "done" => lease[c] = None

\* A request of `do` reaches a server in which its document is open: evictions and respawns
\* between the two never hand it to a server that has not seen the didOpen.  Only the didClose
\* of another command for the same file may come between.
RequestSeesDocument ==
    [][\A c \in opened \ crossed :
          req[c] = CallServer /\ req'[c] = Asked => at[c] \in docs]_vars

\* Every command ends, whatever becomes of the daemon it found or started.
CommandsEnd == <>(\A c \in Clients : Ended(c))

\* A daemon whose socket file was taken over or removed is never found again: unless somebody
\* holds a lease of it, it goes by itself, and such daemons do not pile up.
OrphansExit ==
    []<>(\A d \in Daemons : dst[d] = "listening" /\ sock # d => Lessees(d) # {})

================================================================================
