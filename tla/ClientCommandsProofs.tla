-------------------------- MODULE ClientCommandsProofs --------------------------
(***************************************************************************)
(* What becomes of the leases and of the documents of the commands that    *)
(* talk to a daemon, for every set of commands, of daemons and of kills.   *)
(***************************************************************************)
EXTENDS ClientCommands, TLAPS

Requests == {AttachSession, SendDidOpen, CallServer, SendDidClose, ReleaseLease, QueryStats,
             AskShutdown}
Phases   == {"connect", "retry", "ready", "waiting", "done", "failed", "killed"}
Wires    == {"none", "backlog", "served", "shut"}
Leaseless == {"status", "stop", "restart", "mcp_status"}

\* The domains of the variables; only the contents of `resp` are left to Answered and Cut.
Domains ==
    /\ kind \in [Clients -> AllKinds] /\ phase \in [Clients -> Phases]
    /\ step \in [Clients -> Nat]
    /\ at \in [Clients -> Daemons \cup {None}] /\ wire \in [Clients -> Wires]
    /\ req \in [Clients -> Requests \cup {Asked, None}]
    /\ DOMAIN resp = Clients
    /\ lease \in [Clients -> Daemons \cup {None}]
    /\ sock \in Daemons \cup {None}

\* A lease is one of a session: the two go together.
LeasesLive == \A c \in Clients : lease[c] # None => lease[c] \in live

\* The document of c is open in the session that its lease is for.
DocumentOpen(c) == c \notin crossed /\ lease[c] = at[c] => at[c] \in docs

\* A request waits for its daemon, or for the server ...
Pending(c) ==
    /\ resp[c] = <<>> /\ wire[c] # "shut"
    /\ req[c] = Op(c) \/ (req[c] = Asked /\ Op(c) = CallServer)
    /\ Op(c) = AttachSession => lease[c] = None

\* ... or is answered: no lease without an accepted attach, none after a release ...
Answered(c) ==
    /\ req[c] = None
    /\ resp[c] # <<>> /\ resp[c] = <<Head(resp[c])>>
    /\ Head(resp[c]).id = Op(c)
    /\ Head(resp[c]).ok \in BOOLEAN
    /\ Op(c) = AttachSession /\ ~Head(resp[c]).ok => lease[c] = None
    /\ Op(c) = ReleaseLease => lease[c] = None
    /\ Op(c) = SendDidOpen /\ Head(resp[c]).ok => DocumentOpen(c)

\* ... or its connection is over.
Cut(c) ==
    /\ req[c] = None /\ wire[c] = "shut"
    /\ resp[c] = <<>> \/ resp[c] = <<[id |-> None, ok |-> FALSE]>>

\* What a command that was not killed can rely on in each of its phases.
Progress(c) ==
    /\ kind[c] \in Leaseless => lease[c] = None
    /\ phase[c] \in {"connect", "retry", "ready", "done", "failed"} => req[c] = None /\ resp[c] = <<>>
    /\ phase[c] \in {"connect", "retry", "done"} => lease[c] = None
    /\ phase[c] \in {"connect", "retry"} => Op(c) \in {AttachSession, QueryStats, AskShutdown}
    /\ phase[c] \in {"ready", "waiting"} => at[c] # None
    /\ phase[c] = "ready" /\ Op(c) = AttachSession => lease[c] = None
    /\ phase[c] = "waiting" => Pending(c) \/ Answered(c) \/ Cut(c)

\* A command has a document only between its didOpen and its end, and the one it asks about is open.
Document(c) ==
    c \in opened =>
        /\ kind[c] = "do" /\ phase[c] \in {"ready", "waiting"} /\ step[c] > 2
        /\ Op(c) = CallServer => DocumentOpen(c)

ClientOK(c) ==
    /\ step[c] \in DOMAIN Script(kind[c])
    /\ phase[c] # "killed" => Progress(c)
    /\ Document(c)

CommandInv == Domains /\ LeasesLive /\ opened \subseteq Clients /\ \A c \in Clients : ClientOK(c)

--------------------------------------------------------------------------------
(* The scripts *)

\* The requests are told apart, and none is a call that is with the server.
LEMMA RequestsApart ==
    /\ Asked \notin Requests
    /\ AttachSession \notin {SendDidOpen, CallServer, SendDidClose, ReleaseLease, QueryStats, AskShutdown}
    /\ SendDidOpen \notin {CallServer, SendDidClose, ReleaseLease, QueryStats, AskShutdown}
    /\ CallServer \notin {SendDidClose, ReleaseLease, QueryStats, AskShutdown}
    /\ SendDidClose \notin {ReleaseLease, QueryStats, AskShutdown}
    /\ ReleaseLease \notin {QueryStats, AskShutdown} /\ QueryStats # AskShutdown
  BY DEF Requests, Asked, AttachSession, SendDidOpen, CallServer, SendDidClose, ReleaseLease,
         QueryStats, AskShutdown

\* Where each request stands in the script of a command: an attach comes first, a command with a
\* lease ends with its release, and only `do` has a document, which it asks about once.
LEMMA ScriptFacts ==
    ASSUME NEW k \in AllKinds
    PROVE  /\ Len(Script(k)) \in Nat \ {0} /\ DOMAIN Script(k) = 1..Len(Script(k))
           /\ \A i \in 1..Len(Script(k)) :
                 /\ Script(k)[i] \in Requests
                 /\ Script(k)[i] = AttachSession => i = 1
                 /\ Script(k)[i] \in {QueryStats, AskShutdown} <=> k \in Leaseless
                 /\ Script(k)[i] = SendDidOpen => k = "do" /\ i = 2
                 /\ k = "do" => Len(Script(k)) = 5 /\ (Script(k)[i] = CallServer <=> i = 3)
                                /\ (Script(k)[i] = SendDidOpen <=> i = 2)
                 /\ i = Len(Script(k)) => Script(k)[i] \in {ReleaseLease, QueryStats, AskShutdown}
           /\ Script(k)[1] \in {AttachSession, QueryStats, AskShutdown}
           /\ k = "restart" => Len(Script(k)) = 2
  <1> USE RequestsApart DEF Requests, Leaseless
  <1>1. CASE k = "do"
    <2>1. Script(k) = <<AttachSession, SendDidOpen, CallServer, SendDidClose, ReleaseLease>>
      BY <1>1 DEF Script, DoScript
    <2>. QED  BY <1>1, <2>1
  <1>2. CASE k \in {"call", "mcp_call"}
    <2>1. Script(k) = <<AttachSession, CallServer, ReleaseLease>>
      BY <1>2 DEF Script, CallScript, RawCall
    <2>. QED  BY <1>2, <2>1
  <1>3. CASE k \in {"caps", "mcp_caps"}
    <2>1. Script(k) = <<AttachSession, ReleaseLease>>
      BY <1>3 DEF Script, CapsScript, QueryCapabilities
    <2>. QED  BY <1>3, <2>1
  <1>4. CASE k \in {"status", "mcp_status"}
    <2>1. Script(k) = <<QueryStats>>
      BY <1>4 DEF Script, StatusScript, QueryStatus
    <2>. QED  BY <1>4, <2>1
  <1>5. CASE k = "stop"
    <2>1. Script(k) = <<AskShutdown>>
      BY <1>5 DEF Script, StopScript
    <2>. QED  BY <1>5, <2>1
  <1>6. CASE k = "restart"
    <2>1. Script(k) = <<AskShutdown, QueryStats>>
      BY <1>6 DEF Script, RestartScript
    <2>. QED  BY <1>6, <2>1
  <1>. QED  BY <1>1, <1>2, <1>3, <1>4, <1>5, <1>6 DEF AllKinds

--------------------------------------------------------------------------------
(* One command at a time *)

\* What a step of somebody else may do to a command that it is not about: take its lease away,
\* and close its document when it says so or takes the lease.
LEMMA Bystander ==
    ASSUME NEW b \in Clients, kind[b] \in AllKinds, ClientOK(b),
           lease[b] = lease'[b] \/ lease'[b] = None,
           UNCHANGED <<kind[b], step[b], phase[b], at[b], wire[b], req[b], resp[b]>>,
           b \in opened' => b \in opened,
           b \in crossed => b \in crossed',
           at[b] # None /\ lease'[b] = at[b] /\ b \notin crossed' /\ kind[b] = "do"
              /\ at[b] \in docs => at[b] \in docs'
    PROVE  ClientOK(b)'
  <1>1. Op(b)' = Op(b)
    BY DEF Op
  <1>2. ASSUME at[b] # None, kind[b] = "do", DocumentOpen(b) PROVE DocumentOpen(b)'
    BY <1>2 DEF DocumentOpen
  <1>3. Document(b)'
    BY <1>1, <1>2 DEF Document, ClientOK, Progress
  <1>4. ASSUME phase[b] = "waiting", Progress(b) PROVE Pending(b)' \/ Answered(b)' \/ Cut(b)'
    <2>1. CASE Pending(b)
      BY <1>1, <2>1 DEF Pending
    <2>2. CASE Answered(b)
      <3>1. Op(b) = SendDidOpen => kind[b] = "do"
        BY ScriptFacts DEF ClientOK, Op
      <3>2. at[b] # None
        BY <1>4 DEF Progress
      <3>. QED  BY <1>1, <1>2, <2>2, <3>1, <3>2 DEF Answered
    <2>3. CASE Cut(b)
      BY <2>3 DEF Cut
    <2>. QED  BY <1>4, <2>1, <2>2, <2>3 DEF Progress
  <1>5. phase'[b] # "killed" => Progress(b)'
    BY <1>1, <1>4 DEF Progress, ClientOK
  <1>. QED  BY <1>3, <1>5 DEF ClientOK

\* The command ends with this outcome, or with its last request.
Over(c, outcome) ==
    \/ Fatal(c, outcome)
    \/ FollowingStep(c, HasOpened(c, outcome)) > Len(Script(kind[c]))

\* A command with a connection goes on to its next request, connects once more, or ends: without
\* a lease, if its connection lasted.
LEMMA Advancing ==
    ASSUME CommandInv, NEW c \in Clients, NEW outcome, Advance(c, outcome), UNCHANGED <<kind, tables>>,
           phase[c] \in {"ready", "waiting"}, req[c] = None,
           \/ resp[c] = <<>> /\ outcome \notin {"ok", "error"}
           \/ resp[c] = <<Head(resp[c])>> /\ outcome \in {"ok", "error"},
           outcome = "ok" /\ Op(c) = SendDidOpen => DocumentOpen(c),
           wire[c] = "served" /\ Over(c, outcome) => lease[c] = None
    PROVE  ClientOK(c)'
  <1> DEFINE isOpen == HasOpened(c, outcome)
             next   == FollowingStep(c, isOpen)
             last   == Len(Script(kind[c]))
  <1>1. /\ kind[c] \in AllKinds /\ step[c] \in 1..last /\ last \in Nat \ {0}
        /\ DOMAIN Script(kind[c]) = 1..last
        /\ kind[c] \in Leaseless => lease[c] = None
        /\ at[c] # None
    BY ScriptFacts DEF CommandInv, Domains, ClientOK, Progress
  <1>2. next \in Nat /\ next >= 2 /\ next > step[c]
    BY <1>1 DEF FollowingStep
  <1>3. kind'[c] = kind[c] /\ lease'[c] = lease[c]
    BY DEF tables
  <1> HIDE DEF isOpen, next, last
  <1>4. CASE Over(c, outcome)
    <2>1. /\ step'[c] = 1 /\ c \notin opened' /\ req'[c] = None /\ resp'[c] = <<>>
          /\ phase'[c] = IF wire[c] = "served" THEN "done" ELSE "failed"
      BY <1>4 DEF Advance, Over, Disconnect, CommandInv, Domains
    <2>. QED  BY <1>1, <1>3, <1>4, <2>1 DEF ClientOK, Progress, Document
  <1>5. CASE ~Over(c, outcome)
    <2>1. next \in 1..last
      BY <1>1, <1>2, <1>5 DEF Over, isOpen, next, last
    <2>2. /\ step'[c] = next /\ req'[c] = None /\ resp'[c] = <<>>
          /\ phase'[c] = IF kind[c] = "restart" THEN "connect" ELSE "ready"
          /\ c \in opened' <=> isOpen
          /\ kind[c] # "restart" => at'[c] = at[c]
      <3>1. /\ step'[c] = next
            /\ phase'[c] = IF kind[c] = "restart" THEN "connect" ELSE "ready"
            /\ c \in opened' <=> isOpen
        BY <1>5 DEF Advance, Over, CommandInv, Domains, isOpen, next, last
      <3>2. CASE kind[c] = "restart"
        BY <1>5, <3>1, <3>2 DEF Advance, Over, Disconnect, CommandInv, Domains
      <3>3. CASE kind[c] # "restart"
        <4>1. /\ resp' = [resp EXCEPT ![c] = IF outcome \in {"ok", "error"} THEN Tail(@) ELSE @]
              /\ UNCHANGED <<at, wire, req>>
          BY <1>5, <3>3 DEF Advance, Over
        <4>2. resp'[c] = <<>>
          <5>1. Tail(<<Head(resp[c])>>) = <<>>
            OBVIOUS
          <5>. QED  BY <4>1, <5>1 DEF CommandInv, Domains
        <4>. QED  BY <3>1, <3>3, <4>1, <4>2
      <3>. QED  BY <3>2, <3>3
    <2>3. Op(c)' = Script(kind[c])[next] /\ Op(c)' # AttachSession
      BY <1>1, <1>2, <1>3, <2>1, <2>2, ScriptFacts DEF Op, last
    <2>4. kind[c] = "restart" => lease[c] = None /\ Op(c)' \in {QueryStats, AskShutdown}
      BY <1>1, <2>1, <2>3, ScriptFacts DEF Leaseless, last
    <2>5. Progress(c)'
      BY <1>1, <1>3, <2>2, <2>3, <2>4 DEF Progress
    <2>6. Document(c)'
      <3> SUFFICES ASSUME isOpen PROVE Document(c)'
        BY <2>2 DEF Document
      <3>1. CASE Op(c) = SendDidOpen
        <4>1. kind[c] = "do" /\ step[c] = 2 /\ outcome = "ok"
          BY <1>1, <3>1, ScriptFacts DEF Op, HasOpened, isOpen, last
        <4>2. next = 3
          BY <1>1, <4>1, <3>1, RequestsApart DEF FollowingStep, next
        <4>3. DocumentOpen(c)'
          BY <2>2, <3>1, <4>1 DEF DocumentOpen, tables
        <4>. QED  BY <1>3, <2>2, <4>1, <4>2, <4>3 DEF Document
      <3>2. CASE Op(c) # SendDidOpen
        <4>1. c \in opened /\ kind[c] = "do" /\ step[c] > 2
          BY <3>2 DEF isOpen, HasOpened, CommandInv, ClientOK, Document
        <4>2. next > 3
          BY <1>1, <1>2, <4>1
        <4>3. Op(c)' # CallServer
          BY <1>1, <2>1, <2>3, <4>1, <4>2, ScriptFacts DEF last
        <4>. QED  BY <1>2, <1>3, <2>2, <4>1, <4>2, <4>3 DEF Document
      <3>. QED  BY <3>1, <3>2
    <2>. QED  BY <1>1, <1>3, <2>1, <2>2, <2>5, <2>6 DEF ClientOK
  <1>. QED  BY <1>4, <1>5

\* Nothing but the state of command c changes, and none of the daemons' tables.
Alone(c) ==
    /\ UNCHANGED <<kind, live, docs, lease, crossed, sock>>
    /\ opened' \subseteq Clients
    /\ \A b \in Clients \ {c} :
          /\ UNCHANGED <<step[b], phase[b], at[b], wire[b], req[b], resp[b]>>
          /\ b \in opened' => b \in opened

\* A step of one client alone keeps what holds of the others.
LEMMA AloneOK ==
    ASSUME CommandInv, NEW c \in Clients, Alone(c), Domains', ClientOK(c)'
    PROVE  CommandInv'
  <1>1. ASSUME NEW b \in Clients \ {c} PROVE ClientOK(b)'
    <2>1. ClientOK(b) /\ kind[b] \in AllKinds
      BY DEF CommandInv, Domains
    <2>2. /\ UNCHANGED <<kind[b], step[b], phase[b], at[b], wire[b], req[b], resp[b], lease[b]>>
          /\ b \in opened' => b \in opened
          /\ crossed' = crossed /\ docs' = docs
      BY DEF Alone
    <2>. QED  BY <2>1, <2>2, Bystander
  <1>2. LeasesLive' /\ opened' \subseteq Clients
    BY DEF CommandInv, LeasesLive, Alone
  <1>. QED  BY <1>1, <1>2 DEF CommandInv

\* So it is when a request has ended.
LEMMA AdvancingAlone ==
    ASSUME CommandInv, NEW c \in Clients, NEW outcome, Advance(c, outcome),
           UNCHANGED <<kind, sock, tables>>
    PROVE  Alone(c) /\ Domains'
  <1>1. /\ opened' \in {opened \cup {c}, opened \ {c}}
        /\ step' \in {[step EXCEPT ![c] = 1],
                      [step EXCEPT ![c] = FollowingStep(c, HasOpened(c, outcome))]}
        /\ \E p \in {"done", "failed", "connect", "ready"} : phase' = [phase EXCEPT ![c] = p]
        /\ \/ Disconnect(c)
           \/ /\ \E r : resp' = [resp EXCEPT ![c] = r]
              /\ UNCHANGED <<at, wire, req>>
    <2>1. opened' \in {opened \cup {c}, opened \ {c}}
      BY DEF Advance
    <2>2. step' \in {[step EXCEPT ![c] = 1],
                      [step EXCEPT ![c] = FollowingStep(c, HasOpened(c, outcome))]}
      BY DEF Advance
    <2>3. \E p \in {"done", "failed", "connect", "ready"} : phase' = [phase EXCEPT ![c] = p]
      BY DEF Advance
    <2>4. \/ Disconnect(c)
          \/ /\ \E r : resp' = [resp EXCEPT ![c] = r]
             /\ UNCHANGED <<at, wire, req>>
      BY DEF Advance
    <2>. QED  BY <2>1, <2>2, <2>3, <2>4
  <1>2. FollowingStep(c, HasOpened(c, outcome)) \in Nat
    BY DEF FollowingStep, CommandInv, Domains
  <1>3. step' \in [Clients -> Nat] /\ \A b \in Clients \ {c} : step'[b] = step[b]
    BY <1>1, <1>2 DEF CommandInv, Domains
  <1>4. phase' \in [Clients -> Phases] /\ \A b \in Clients \ {c} : phase'[b] = phase[b]
    BY <1>1 DEF CommandInv, Domains, Phases
  <1>5. /\ at' \in [Clients -> Daemons \cup {None}] /\ wire' \in [Clients -> Wires]
        /\ req' \in [Clients -> Requests \cup {Asked, None}] /\ DOMAIN resp' = Clients
        /\ \A b \in Clients \ {c} : UNCHANGED <<at[b], wire[b], req[b], resp[b]>>
    BY <1>1 DEF CommandInv, Domains, Disconnect, Wires
  <1>6. opened' \subseteq Clients /\ \A b \in Clients \ {c} : b \in opened' => b \in opened
    BY <1>1 DEF CommandInv
  <1>7. kind' \in [Clients -> AllKinds] /\ lease' \in [Clients -> Daemons \cup {None}]
        /\ sock' \in Daemons \cup {None}
    BY DEF CommandInv, Domains, tables
  <1>. QED  BY <1>3, <1>4, <1>5, <1>6, <1>7 DEF Alone, Domains, tables

\* Connecting, or failing to, asks for nothing yet.
LEMMA StepConnect ==
    ASSUME CommandInv, NEW c \in Clients,
           Connect(c) \/ (\E d \in Daemons : SpawnDaemon(c, d)) \/ ConnectFails(c)
    PROVE  CommandInv'
  <1>1. Alone(c) /\ Domains'
    <2>1. CASE Connect(c)
      BY <2>1 DEF Connect, Reachable, Alone, CommandInv, Domains, tables, Phases, Wires
    <2>2. CASE \E d \in Daemons : SpawnDaemon(c, d)
      BY <2>2 DEF SpawnDaemon, Alone, CommandInv, Domains, tables, Phases
    <2>3. CASE ConnectFails(c)
      BY <2>3 DEF ConnectFails, Alone, CommandInv, Domains, tables, Phases
    <2>. QED  BY <2>1, <2>2, <2>3
  <1>2. /\ phase[c] \in {"connect", "retry"} /\ req[c] = None /\ resp[c] = <<>> /\ lease[c] = None
        /\ c \notin opened /\ Op(c) \in {AttachSession, QueryStats, AskShutdown}
        /\ step[c] \in DOMAIN Script(kind[c])
    BY DEF Connect, SpawnDaemon, ConnectFails, CommandInv, ClientOK, Progress, Document
  <1>3. UNCHANGED <<kind, req, resp, opened, lease>>
    BY DEF Connect, SpawnDaemon, ConnectFails, tables
  <1>4. CASE Connect(c)
    <2>1. step' = step /\ phase'[c] = "ready" /\ at'[c] # None
      BY <1>4 DEF Connect, Reachable, CommandInv, Domains
    <2>. QED  BY <1>1, <1>2, <1>3, <2>1, AloneOK DEF ClientOK, Progress, Document
  <1>5. CASE \E d \in Daemons : SpawnDaemon(c, d)
    <2>1. step' = step /\ phase'[c] = "retry" /\ Op(c)' = Op(c)
      BY <1>5 DEF SpawnDaemon, CommandInv, Domains, Op
    <2>. QED  BY <1>1, <1>2, <1>3, <2>1, AloneOK DEF ClientOK, Progress, Document
  <1>6. CASE ConnectFails(c)
    <2>1. CASE kind[c] = "restart" /\ step[c] = 1
      <3>1. phase' = phase /\ step'[c] = 2
        BY <1>6, <2>1 DEF ConnectFails, CommandInv, Domains
      <3>2. 2 \in DOMAIN Script(kind[c]) /\ Op(c)' \in {QueryStats, AskShutdown}
        <4>1. kind[c] \in AllKinds /\ kind[c] \in Leaseless
          BY <2>1 DEF AllKinds, Leaseless
        <4>2. Len(Script(kind[c])) = 2 /\ DOMAIN Script(kind[c]) = 1..2
          BY <2>1, <4>1, ScriptFacts
        <4>3. Script(kind[c])[2] \in {QueryStats, AskShutdown}
          BY <4>1, <4>2, ScriptFacts
        <4>. QED  BY <1>3, <3>1, <4>2, <4>3 DEF Op
      <3>. QED  BY <1>1, <1>2, <1>3, <3>1, <3>2, AloneOK DEF ClientOK, Progress, Document
    <2>2. CASE ~(kind[c] = "restart" /\ step[c] = 1)
      <3>1. phase'[c] = "failed" /\ step' = step
        BY <1>6, <2>2 DEF ConnectFails, CommandInv, Domains
      <3>. QED  BY <1>1, <1>2, <1>3, <3>1, AloneOK DEF ClientOK, Progress, Document
    <2>. QED  BY <2>1, <2>2
  <1>. QED  BY <1>4, <1>5, <1>6

\* A request that ends without an answer of its own ends no command that still has its lease, as
\* long as the connection lasts.
LEMMA StepUnanswered ==
    ASSUME CommandInv, NEW c \in Clients, WriteFails(c) \/ NothingToOpen(c) \/ Eof(c)
    PROVE  CommandInv'
  <1>1. PICK o \in {"write", "unsent", "eof"} :
           /\ Advance(c, o)
           /\ o # "unsent" => wire[c] = "shut"
           /\ o = "unsent" => Op(c) = SendDidOpen
    BY DEF WriteFails, NothingToOpen, Eof
  <1>2. /\ phase[c] \in {"ready", "waiting"} /\ resp[c] = <<>> /\ req[c] = None
        /\ UNCHANGED <<kind, sock, tables>>
    <2>1. CASE WriteFails(c) \/ NothingToOpen(c)
      BY <2>1 DEF WriteFails, NothingToOpen, CommandInv, ClientOK, Progress
    <2>2. CASE Eof(c)
      <3>1. phase[c] = "waiting" /\ resp[c] = <<>> /\ wire[c] = "shut" /\ UNCHANGED <<kind, sock, tables>>
        BY <2>2 DEF Eof
      <3>2. Pending(c) \/ Answered(c) \/ Cut(c)
        BY <3>1 DEF CommandInv, ClientOK, Progress
      <3>. QED  BY <3>1, <3>2 DEF Pending, Answered, Cut
    <2>. QED  BY <2>1, <2>2
  <1>3. o = "unsent" => ~Over(c, o)
    <2> SUFFICES ASSUME o = "unsent" PROVE ~Over(c, o)
      OBVIOUS
    <2>1. Op(c) = SendDidOpen /\ kind[c] = "do" /\ step[c] = 2 /\ Len(Script(kind[c])) = 5
      BY <1>1, ScriptFacts DEF Op, CommandInv, Domains, ClientOK
    <2>2. ~Fatal(c, o)
      BY <2>1, RequestsApart DEF Fatal
    <2>3. FollowingStep(c, HasOpened(c, o)) = 3
      BY <2>1, RequestsApart DEF FollowingStep
    <2>4. ~(FollowingStep(c, HasOpened(c, o)) > Len(Script(kind[c])))
      BY <2>1, <2>3
    <2>. QED  BY ONLY <2>2, <2>4 DEF Over
  <1>4. ClientOK(c)'
    BY <1>1, <1>2, <1>3, Advancing
  <1>. QED  BY <1>1, <1>2, <1>4, AdvancingAlone, AloneOK

\* A command that ends with an answer has no lease: the attach was refused, the lease released, or
\* the command never had one.
LEMMA AnsweredEnd ==
    ASSUME CommandInv, NEW c \in Clients, Answered(c), phase[c] = "waiting",
           NEW o \in {"ok", "error"}, o = "error" => ~Head(resp[c]).ok, Over(c, o)
    PROVE  lease[c] = None
  <1> DEFINE last == Len(Script(kind[c]))
  <1>1. /\ kind[c] \in AllKinds /\ step[c] \in 1..last /\ last \in Nat \ {0} /\ Op(c) \in Requests
        /\ kind[c] \in Leaseless => lease[c] = None
        /\ kind[c] \in Leaseless <=> Op(c) \in {QueryStats, AskShutdown}
        /\ step[c] = last => Op(c) \in {ReleaseLease, QueryStats, AskShutdown}
        /\ kind[c] = "do" /\ Op(c) = CallServer => step[c] = 3 /\ last = 5
    BY ScriptFacts DEF CommandInv, Domains, ClientOK, Progress, Op
  <1>2. CASE Fatal(c, o)
    <2>1. CASE Op(c) = AttachSession
      <3>1. o # "ok"
        BY <1>2, <2>1, RequestsApart DEF Fatal, AttachFatal
      <3>. QED  BY <2>1, <3>1 DEF Answered
    <2>2. CASE Op(c) \in {QueryStats, AskShutdown}
      BY <1>1, <2>2
    <2>3. CASE Op(c) = CallServer
      <3>1. CallFatal(c, o)
        BY <1>2, <2>3, RequestsApart DEF Fatal
      <3>. QED  BY <3>1 DEF CallFatal
    <2>4. CASE Op(c) \in {SendDidOpen, SendDidClose, ReleaseLease}
      <3>1. ~Fatal(c, o)
        BY <2>4, RequestsApart DEF Fatal
      <3>. QED  BY <1>2, <3>1
    <2>. QED  BY <1>1, <2>1, <2>2, <2>3, <2>4 DEF Requests
  <1>3. CASE FollowingStep(c, HasOpened(c, o)) > last
    <2>1. step[c] = last
      <3>1. CASE Op(c) = CallServer /\ kind[c] = "do"
        <4>1. FollowingStep(c, HasOpened(c, o)) \in {4, 5}
          BY <1>1, <3>1 DEF FollowingStep
        <4>2. ~(FollowingStep(c, HasOpened(c, o)) > last)
          BY <1>1, <3>1, <4>1
        <4>. QED  BY <1>3, <4>2
      <3>2. CASE ~(Op(c) = CallServer /\ kind[c] = "do")
        BY <1>1, <1>3, <3>2 DEF FollowingStep
      <3>. QED  BY <3>1, <3>2
    <2>2. Op(c) \in {ReleaseLease, QueryStats, AskShutdown}
      BY <1>1, <2>1
    <2>. QED  BY <1>1, <2>2 DEF Answered
  <1>. QED  BY <1>2, <1>3 DEF Over

\* A client reads an answer.
LEMMA StepRead ==
    ASSUME CommandInv, NEW c \in Clients, Read(c)
    PROVE  CommandInv'
  <1>1. /\ phase[c] = "waiting" /\ UNCHANGED <<kind, sock, tables>>
        /\ Answered(c) \/ (Cut(c) /\ resp[c] = <<[id |-> None, ok |-> FALSE]>>)
    <2>1. phase[c] = "waiting" /\ resp[c] # <<>> /\ UNCHANGED <<kind, sock, tables>>
      BY DEF Read
    <2>2. Pending(c) \/ Answered(c) \/ Cut(c)
      BY <2>1 DEF CommandInv, ClientOK, Progress
    <2>. QED  BY <2>1, <2>2 DEF Pending, Cut
  <1>2. req[c] = None /\ resp[c] = <<Head(resp[c])>> /\ Head(resp[c]).ok \in BOOLEAN
    <2>1. CASE Answered(c)
      BY <2>1 DEF Answered
    <2>2. CASE Cut(c) /\ resp[c] = <<[id |-> None, ok |-> FALSE]>>
      <3> DEFINE refusal == [id |-> None, ok |-> FALSE]
      <3>1. refusal.ok = FALSE /\ Head(<<refusal>>) = refusal
        OBVIOUS
      <3> HIDE DEF refusal
      <3>2. resp[c] = <<refusal>>
        BY <2>2 DEF refusal
      <3>. QED  BY <2>2, <3>1, <3>2 DEF Cut
    <2>. QED  BY <1>1, <2>1, <2>2
  <1>3. CASE Head(resp[c]).id = Op(c)
    <2> DEFINE o == IF Head(resp[c]).ok THEN "ok" ELSE "error"
    <2>1. Advance(c, o)
      BY <1>3 DEF Read
    <2>2. o = "ok" /\ Op(c) = SendDidOpen => DocumentOpen(c)
      BY <1>1, <1>2 DEF Answered
    <2>3. o \in {"ok", "error"} /\ (o = "error" => ~Head(resp[c]).ok)
      BY <1>2
    <2> HIDE DEF o
    <2>4. wire[c] = "served" /\ Over(c, o) => lease[c] = None
      BY <1>1, <2>3, AnsweredEnd DEF Cut
    <2>5. ClientOK(c)'
      BY <1>1, <1>2, <2>1, <2>2, <2>3, <2>4, Advancing
    <2>. QED  BY <1>1, <2>1, <2>5, AdvancingAlone, AloneOK
  <1>4. CASE Head(resp[c]).id # Op(c)
    <2>1. /\ resp' = [resp EXCEPT ![c] = Tail(@)]
          /\ UNCHANGED <<kind, step, phase, at, wire, req, opened, sock, tables>>
      BY <1>4 DEF Read
    <2>2. Cut(c) /\ resp[c] = <<[id |-> None, ok |-> FALSE]>>
      BY <1>1, <1>4 DEF Answered
    <2>3. resp'[c] = <<>>
      <3>1. Tail(<<Head(resp[c])>>) = <<>>
        OBVIOUS
      <3>. QED  BY <1>2, <2>1, <3>1 DEF CommandInv, Domains
    <2>4. Alone(c) /\ Domains'
      BY <2>1 DEF CommandInv, Domains, Alone, tables
    <2>5. Cut(c)'
      BY <2>1, <2>2, <2>3 DEF Cut
    <2>6. Op(c)' = Op(c) /\ (DocumentOpen(c)' <=> DocumentOpen(c))
      BY <2>1 DEF Op, DocumentOpen, tables
    <2>7. ClientOK(c)'
      BY <1>1, <2>1, <2>5, <2>6 DEF CommandInv, ClientOK, Progress, Document, tables
    <2>. QED  BY <2>4, <2>7, AloneOK
  <1>. QED  BY <1>3, <1>4

\* A request is sent on a connection that is open, and the process may be killed at any time.
LEMMA StepSend ==
    ASSUME CommandInv, NEW c \in Clients, Send(c) \/ KillClient(c)
    PROVE  CommandInv'
  <1>1. CASE Send(c)
    <2>1. /\ phase[c] = "ready" /\ wire[c] # "shut" /\ phase'[c] = "waiting" /\ req'[c] = Op(c)
          /\ UNCHANGED <<kind, step, at, wire, resp, opened, sock, tables>>
      BY <1>1 DEF Send, CommandInv, Domains
    <2>2. Op(c) \in Requests
      BY ScriptFacts DEF Op, CommandInv, Domains, ClientOK
    <2>3. Alone(c) /\ Domains'
      BY <1>1, <2>2 DEF Send, CommandInv, Domains, Alone, tables, Phases
    <2>4. Op(c)' = Op(c) /\ (DocumentOpen(c)' <=> DocumentOpen(c))
      BY <2>1 DEF Op, DocumentOpen, tables
    <2>5. Pending(c)'
      BY <2>1, <2>4 DEF Pending, CommandInv, ClientOK, Progress, tables
    <2>6. ClientOK(c)'
      BY <2>1, <2>4, <2>5 DEF CommandInv, ClientOK, Progress, Document, tables
    <2>. QED  BY <2>3, <2>6, AloneOK
  <1>2. CASE KillClient(c)
    <2>1. Alone(c) /\ Domains'
      BY <1>2 DEF KillClient, CommandInv, Domains, Alone, tables, Phases
    <2>2. ClientOK(c)'
      BY <1>2 DEF KillClient, CommandInv, Domains, ClientOK, Document
    <2>. QED  BY <2>1, <2>2, AloneOK
  <1>. QED  BY <1>1, <1>2

--------------------------------------------------------------------------------
(* The control loop *)

\* A handler touches its own client, and what it does to the document of another it reports.
Serving(c) ==
    /\ UNCHANGED <<kind, step, phase, at, opened, sock>>
    /\ \A b \in Clients \ {c} :
          /\ UNCHANGED <<wire[b], req[b], resp[b], lease[b]>>
          /\ b \in crossed => b \in crossed'
          /\ lease[b] = at[b] /\ b \notin crossed' /\ kind[b] = "do" /\ at[b] \in docs
                => at[b] \in docs'

\* What it has to do for its own: answer the request, pass it on, or end the connection.
LEMMA ServingOK ==
    ASSUME CommandInv, NEW c \in Clients, Serving(c), Domains', LeasesLive', req[c] # None,
           phase[c] # "killed" =>
              /\ kind[c] \in Leaseless => lease'[c] = None
              /\ Op(c) = CallServer => UNCHANGED <<lease, docs, crossed>>
              /\ phase[c] = "waiting" => Pending(c)' \/ Answered(c)' \/ Cut(c)'
    PROVE  CommandInv'
  <1>1. ASSUME NEW b \in Clients \ {c} PROVE ClientOK(b)'
    <2>1. ClientOK(b) /\ kind[b] \in AllKinds
      BY DEF CommandInv, Domains
    <2>2. /\ UNCHANGED <<kind[b], step[b], phase[b], at[b], wire[b], req[b], resp[b], lease[b]>>
          /\ opened' = opened
          /\ b \in crossed => b \in crossed'
          /\ lease[b] = at[b] /\ b \notin crossed' /\ kind[b] = "do" /\ at[b] \in docs
                => at[b] \in docs'
      BY DEF Serving
    <2>. QED  BY <2>1, <2>2, Bystander
  <1>2. ClientOK(c) /\ UNCHANGED <<kind, step, phase, at, opened>> /\ Op(c)' = Op(c)
    BY DEF CommandInv, Serving, Op
  <1>3. ClientOK(c)'
    <2>1. CASE phase[c] = "killed"
      BY <1>2, <2>1 DEF ClientOK, Document
    <2>2. CASE phase[c] # "killed"
      <3>1. phase[c] = "waiting"
        BY <1>2, <2>2 DEF ClientOK, Progress, CommandInv, Domains, Phases
      <3>2. Progress(c)'
        BY <1>2, <2>2, <3>1 DEF Progress, ClientOK
      <3>3. Document(c)'
        BY <1>2, <2>2 DEF Document, ClientOK, DocumentOpen
      <3>. QED  BY <1>2, <3>2, <3>3 DEF ClientOK
    <2>. QED  BY <2>1, <2>2
  <1>4. opened' \subseteq Clients
    BY <1>2 DEF CommandInv
  <1>. QED  BY <1>1, <1>3, <1>4 DEF CommandInv

\* The request that a daemon handles is the one that its client waits for.
LEMMA Handled ==
    ASSUME CommandInv, NEW c \in Clients, req[c] \notin {None, Asked}
    PROVE  /\ req[c] \in Requests
           /\ phase[c] # "killed" =>
                 /\ phase[c] = "waiting" /\ resp[c] = <<>> /\ req[c] = Op(c) /\ at[c] # None
                 /\ kind[c] \in Leaseless => lease[c] = None
                 /\ kind[c] \in Leaseless <=> req[c] \in {QueryStats, AskShutdown}
                 /\ req[c] = AttachSession => lease[c] = None
  <1>1. req[c] \in Requests /\ phase[c] \in Phases /\ kind[c] \in AllKinds /\ ClientOK(c)
    BY DEF CommandInv, Domains
  <1>2. ASSUME phase[c] # "killed" PROVE phase[c] = "waiting" /\ Pending(c)
    BY <1>1, <1>2 DEF ClientOK, Progress, Phases, Answered, Cut
  <1>3. ASSUME phase[c] # "killed" PROVE req[c] = Op(c) /\ resp[c] = <<>>
    BY <1>2, <1>3 DEF Pending
  <1>4. ASSUME phase[c] # "killed" PROVE kind[c] \in Leaseless <=> req[c] \in {QueryStats, AskShutdown}
    BY <1>1, <1>3, <1>4, ScriptFacts DEF ClientOK, Op
  <1>. QED  BY <1>1, <1>2, <1>3, <1>4 DEF Pending, ClientOK, Progress

\* An answer that a waiting client will find.
LEMMA Replied ==
    ASSUME CommandInv, NEW c \in Clients, NEW ok \in BOOLEAN, Reply(c, ok), phase[c] # "killed",
           resp[c] = <<>>, req[c] = Op(c), Op(c)' = Op(c),
           Op(c) = AttachSession /\ ~ok => lease'[c] = None,
           Op(c) = ReleaseLease => lease'[c] = None,
           Op(c) = SendDidOpen /\ ok => DocumentOpen(c)'
    PROVE  Answered(c)'
  <1> DEFINE r == [id |-> req[c], ok |-> ok]
  <1>1. resp'[c] = Append(<<>>, r) /\ req'[c] = None
    BY DEF Reply, CommandInv, Domains
  <1>2. r.id = Op(c) /\ r.ok = ok
    OBVIOUS
  <1> HIDE DEF r
  <1>3. Append(<<>>, r) = <<r>> /\ Head(<<r>>) = r /\ <<r>> # <<>>
    OBVIOUS
  <1>4. resp'[c] = <<r>>
    BY <1>1, <1>3
  <1>. QED  BY <1>1, <1>2, <1>3, <1>4 DEF Answered

\* What a request's type tells.
LEMMA ByType ==
    ASSUME NEW r \in Requests
    PROVE  /\ r.type = "Attach" => r = AttachSession
           /\ r.type = "Notify" => r \in {SendDidOpen, SendDidClose}
           /\ r.type = "Call" => r = CallServer
           /\ r.type = "Release" => r = ReleaseLease
           /\ r.type = "Stats" => r = QueryStats
           /\ r.type = "Shutdown" => r = AskShutdown
  BY DEF Requests, AttachSession, SendDidOpen, CallServer, SendDidClose, ReleaseLease, QueryStats,
         AskShutdown

\* The loop writes to its own client only.
LEMMA RepliedAlone ==
    ASSUME CommandInv, NEW c \in Clients, NEW ok, Reply(c, ok)
    PROVE  /\ req' \in [Clients -> Requests \cup {Asked, None}] /\ DOMAIN resp' = Clients
           /\ \A b \in Clients \ {c} : UNCHANGED <<req[b], resp[b]>>
  BY DEF Reply, CommandInv, Domains

\* Writing to one connection leaves the others alone.
LEMMA KeptAlone ==
    ASSUME CommandInv, NEW c \in Clients, NEW w \in Wires, wire' = [wire EXCEPT ![c] = w]
    PROVE  /\ wire' \in [Clients -> Wires] /\ wire'[c] = w
           /\ \A b \in Clients \ {c} : UNCHANGED wire[b]
  BY DEF CommandInv, Domains

\* The control loop answers an Attach ...
LEMMA StepAttach ==
    ASSUME CommandInv, NEW c \in Clients, req[c] = AttachSession, HandleAttach(c),
           UNCHANGED <<kind, step, phase, at, opened, sock>>, req[c] \notin {None, Asked}
    PROVE  CommandInv'
  <1>1. PICK ok \in BOOLEAN :
           /\ Reply(c, ok)
           /\ ok => lease' = [lease EXCEPT ![c] = at[c]] /\ live' = live \cup {at[c]}
           /\ ~ok => UNCHANGED <<lease, live>>
    BY DEF HandleAttach
  <1>2. Keep(c) /\ UNCHANGED <<docs, crossed>>
    BY DEF HandleAttach
  <1>3. /\ wire' \in [Clients -> Wires] /\ wire'[c] = "served"
        /\ \A b \in Clients \ {c} : UNCHANGED wire[b]
    BY <1>2, KeptAlone DEF Keep, Wires
  <1>4. lease' \in [Clients -> Daemons \cup {None}] /\ \A b \in Clients \ {c} : UNCHANGED lease[b]
    BY <1>1 DEF CommandInv, Domains
  <1>5. Serving(c) /\ Domains'
    BY <1>1, <1>2, <1>3, <1>4, RepliedAlone DEF Serving, CommandInv, Domains
  <1>6. LeasesLive'
    BY <1>1 DEF LeasesLive, CommandInv, Domains
  <1>7. ASSUME phase[c] # "killed"
        PROVE  Answered(c)' /\ Op(c) # CallServer /\ kind[c] \notin Leaseless
    <2>1. /\ req[c] = Op(c) /\ resp[c] = <<>> /\ lease[c] = None
          /\ kind[c] \in Leaseless <=> req[c] \in {QueryStats, AskShutdown}
      BY <1>7, Handled
    <2>2. ~ok => lease'[c] = None
      BY <1>1, <2>1
    <2>3. Op(c)' = Op(c)
      BY DEF Op
    <2>4. Op(c) \notin {CallServer, ReleaseLease, SendDidOpen, QueryStats, AskShutdown}
      BY <2>1, RequestsApart
    <2>5. Answered(c)'
      BY <1>1, <1>7, <2>1, <2>2, <2>3, <2>4, Replied
    <2>. QED  BY <2>1, <2>4, <2>5
  <1>. QED  BY <1>5, <1>6, <1>7, ServingOK

\* ... a Notify ...
LEMMA StepNotify ==
    ASSUME CommandInv, NEW c \in Clients, req[c] \in {SendDidOpen, SendDidClose}, HandleNotify(c),
           UNCHANGED <<kind, step, phase, at, opened, sock>>, req[c] \notin {None, Asked}
    PROVE  CommandInv'
  <1>1. PICK ok \in BOOLEAN :
           /\ Reply(c, ok)
           /\ ok => /\ docs' = IF req[c] = SendDidOpen THEN docs \cup {at[c]} ELSE docs \ {at[c]}
                    /\ crossed' = IF req[c] = SendDidOpen THEN crossed \ {c}
                                  ELSE crossed \cup {b \in Lessees(at[c]) \ {c} : kind[b] = "do"}
           /\ ~ok => UNCHANGED <<docs, crossed>>
    BY DEF HandleNotify
  <1>2. Keep(c) /\ UNCHANGED <<live, lease>>
    BY DEF HandleNotify
  <1>3. /\ wire' \in [Clients -> Wires] /\ wire'[c] = "served"
        /\ \A b \in Clients \ {c} : UNCHANGED wire[b]
    BY <1>2, KeptAlone DEF Keep, Wires
  <1>4. ASSUME NEW b \in Clients \ {c}
        PROVE  /\ b \in crossed => b \in crossed'
               /\ lease[b] = at[b] /\ b \notin crossed' /\ kind[b] = "do" /\ at[b] \in docs
                     => at[b] \in docs'
    BY <1>1 DEF Lessees
  <1>5. Serving(c) /\ Domains' /\ LeasesLive'
    BY <1>1, <1>2, <1>3, <1>4, RepliedAlone DEF Serving, CommandInv, Domains, LeasesLive
  <1>6. ASSUME phase[c] # "killed"
        PROVE  Answered(c)' /\ Op(c) # CallServer /\ kind[c] \notin Leaseless
    <2>1. /\ req[c] = Op(c) /\ resp[c] = <<>>
          /\ kind[c] \in Leaseless <=> req[c] \in {QueryStats, AskShutdown}
      BY <1>6, Handled
    <2>2. Op(c) = SendDidOpen /\ ok => DocumentOpen(c)'
      BY <1>1, <2>1 DEF DocumentOpen
    <2>3. Op(c)' = Op(c)
      BY DEF Op
    <2>4. Op(c) \notin {CallServer, ReleaseLease, AttachSession, QueryStats, AskShutdown}
      BY <2>1, RequestsApart
    <2>5. Answered(c)'
      BY <1>1, <1>6, <2>1, <2>2, <2>3, <2>4, Replied
    <2>. QED  BY <2>1, <2>4, <2>5
  <1>. QED  BY <1>5, <1>6, ServingOK

\* A call is with the server, or refused; a frame that is too large ends the connection.
LEMMA StepCall ==
    ASSUME CommandInv, NEW c \in Clients,
           \/ req[c] = CallServer /\ HandleCall(c)
           \/ req[c] \in {SendDidOpen, CallServer} /\ HandleTooLarge(c),
           UNCHANGED <<kind, step, phase, at, opened, sock>>, req[c] \notin {None, Asked}
    PROVE  CommandInv'
  <1>1. UNCHANGED <<live, docs, lease, crossed>>
    BY DEF HandleCall, HandleTooLarge, tables
  <1>2. PICK w \in Wires : wire' = [wire EXCEPT ![c] = w]
    BY DEF HandleCall, HandleTooLarge, Keep, Wires
  <1>3. /\ req' \in [Clients -> Requests \cup {Asked, None}] /\ DOMAIN resp' = Clients
        /\ \A b \in Clients \ {c} : UNCHANGED <<req[b], resp[b]>>
    <2>1. CASE HandleTooLarge(c)
      BY <2>1 DEF HandleTooLarge, CommandInv, Domains
    <2>2. CASE HandleCall(c) /\ HasSession(c)
      BY <2>2 DEF HandleCall, CommandInv, Domains
    <2>3. CASE HandleCall(c) /\ ~HasSession(c)
      BY <2>3, RepliedAlone DEF HandleCall
    <2>. QED  BY <2>1, <2>2, <2>3
  <1>4. Serving(c) /\ Domains' /\ LeasesLive'
    BY <1>1, <1>2, <1>3, KeptAlone DEF Serving, CommandInv, Domains, LeasesLive
  <1>5. ASSUME phase[c] # "killed"
        PROVE  (Pending(c)' \/ Answered(c)' \/ Cut(c)') /\ kind[c] \notin Leaseless
    <2>1. /\ req[c] = Op(c) /\ resp[c] = <<>> /\ Op(c)' = Op(c)
          /\ kind[c] \in Leaseless <=> req[c] \in {QueryStats, AskShutdown}
      BY <1>5, Handled DEF Op
    <2>2. kind[c] \notin Leaseless
      BY <2>1, RequestsApart
    <2>3. CASE HandleTooLarge(c)
      <3>1. resp'[c] = Append(<<>>, [id |-> None, ok |-> FALSE]) /\ req'[c] = None /\ wire'[c] = "shut"
        BY <2>1, <2>3 DEF HandleTooLarge, CommandInv, Domains
      <3>2. resp'[c] = <<[id |-> None, ok |-> FALSE]>>
        BY <3>1
      <3>. QED  BY <2>2, <3>1, <3>2 DEF Cut
    <2>4. CASE req[c] = CallServer /\ HandleCall(c) /\ HasSession(c)
      <3>1. req'[c] = Asked /\ resp' = resp /\ wire'[c] = "served"
        BY <2>4 DEF HandleCall, Keep, CommandInv, Domains
      <3>. QED  BY <2>1, <2>2, <2>4, <3>1, RequestsApart DEF Pending
    <2>5. CASE req[c] = CallServer /\ HandleCall(c) /\ ~HasSession(c)
      <3>1. Reply(c, FALSE)
        BY <2>5 DEF HandleCall
      <3>2. Op(c) \notin {AttachSession, ReleaseLease, SendDidOpen}
        BY <2>1, <2>5, RequestsApart
      <3>. QED  BY <1>5, <2>1, <2>2, <3>1, <3>2, Replied
    <2>. QED  BY <2>3, <2>4, <2>5
  <1>. QED  BY <1>1, <1>4, <1>5, ServingOK

\* The answers of the daemon itself.
LEMMA StepOwnAnswer ==
    ASSUME CommandInv, NEW c \in Clients,
           \/ req[c] = ReleaseLease /\ HandleRelease(c)
           \/ req[c] = QueryStats /\ HandleStats(c)
           \/ req[c] = AskShutdown /\ HandleShutdown(c),
           UNCHANGED <<kind, step, phase, at, opened, sock>>, req[c] \notin {None, Asked}
    PROVE  CommandInv'
  <1>1. PICK ok \in BOOLEAN : Reply(c, ok)
    BY DEF HandleRelease, HandleStats, HandleShutdown
  <1>2. PICK w \in Wires : wire' = [wire EXCEPT ![c] = w]
    BY DEF HandleRelease, HandleStats, HandleShutdown, Keep, Wires
  <1>3. /\ UNCHANGED <<live, docs, crossed>>
        /\ lease' \in {lease, [lease EXCEPT ![c] = None]}
        /\ req[c] = ReleaseLease => lease' = [lease EXCEPT ![c] = None]
    BY RequestsApart DEF HandleRelease, HandleStats, HandleShutdown, tables
  <1>4. Serving(c) /\ Domains' /\ LeasesLive'
    BY <1>1, <1>2, <1>3, KeptAlone, RepliedAlone DEF Serving, CommandInv, Domains, LeasesLive
  <1>5. ASSUME phase[c] # "killed"
        PROVE  /\ Answered(c)' /\ Op(c) # CallServer
               /\ kind[c] \in Leaseless => lease'[c] = None
    <2>1. /\ req[c] = Op(c) /\ resp[c] = <<>> /\ Op(c)' = Op(c)
          /\ kind[c] \in Leaseless => lease[c] = None
      BY <1>5, Handled DEF Op
    <2>2. Op(c) \notin {CallServer, SendDidOpen, AttachSession}
      BY <2>1, RequestsApart
    <2>3. /\ kind[c] \in Leaseless => lease'[c] = None
          /\ Op(c) = ReleaseLease => lease'[c] = None
      BY <1>3, <2>1 DEF CommandInv, Domains
    <2>4. Answered(c)'
      BY <1>1, <1>5, <2>1, <2>2, <2>3, Replied
    <2>. QED  BY <2>2, <2>3, <2>4
  <1>. QED  BY <1>4, <1>5, ServingOK

\* ... or any other request.
LEMMA StepHandle ==
    ASSUME CommandInv, NEW c \in Clients, Handle(c)
    PROVE  CommandInv'
  <1>1. req[c] \notin {None, Asked} /\ UNCHANGED <<kind, step, phase, at, opened, sock>>
    BY DEF Handle
  <1>2. req[c] \in Requests
    BY <1>1, Handled
  <1>3. \/ req[c] \in {SendDidOpen, CallServer} /\ HandleTooLarge(c)
        \/ req[c] = AttachSession /\ HandleAttach(c)
        \/ req[c] \in {SendDidOpen, SendDidClose} /\ HandleNotify(c)
        \/ req[c] = CallServer /\ HandleCall(c)
        \/ req[c] = ReleaseLease /\ HandleRelease(c)
        \/ req[c] = QueryStats /\ HandleStats(c)
        \/ req[c] = AskShutdown /\ HandleShutdown(c)
    BY <1>2, ByType DEF Handle
  <1>. QED  BY <1>1, <1>3, StepAttach, StepNotify, StepCall, StepOwnAnswer

\* The server's answer to a call.
LEMMA StepAnswer ==
    ASSUME CommandInv, NEW c \in Clients, Answer(c)
    PROVE  CommandInv'
  <1>1. PICK ok \in BOOLEAN :
           /\ resp' = [resp EXCEPT ![c] = Append(@, [id |-> CallServer, ok |-> ok])]
           /\ req' = [req EXCEPT ![c] = None] /\ req[c] = Asked
           /\ UNCHANGED <<kind, step, phase, at, wire, opened, sock, live, docs, lease, crossed>>
    BY DEF Answer, tables
  <1>2. Serving(c) /\ Domains' /\ LeasesLive'
    BY <1>1 DEF Serving, CommandInv, Domains, LeasesLive
  <1>3. ASSUME phase[c] = "waiting" PROVE Answered(c)'
    <2>1. Pending(c)
      BY <1>1, <1>3, NoneAssumption DEF CommandInv, ClientOK, Progress, Answered, Cut
    <2>2. resp[c] = <<>> /\ Op(c) = CallServer /\ Op(c)' = Op(c)
      <3>1. Op(c) \in Requests
        BY ScriptFacts DEF Op, CommandInv, Domains, ClientOK
      <3>. QED  BY <1>1, <2>1, <3>1, RequestsApart DEF Pending, Op
    <2> DEFINE r == [id |-> CallServer, ok |-> ok]
    <2>3. r.id = CallServer /\ r.ok = ok
      OBVIOUS
    <2>4. resp'[c] = Append(<<>>, r) /\ req'[c] = None
      BY <1>1, <2>2 DEF CommandInv, Domains
    <2> HIDE DEF r
    <2>5. Append(<<>>, r) = <<r>> /\ Head(<<r>>) = r /\ <<r>> # <<>>
      OBVIOUS
    <2>6. resp'[c] = <<r>>
      BY <2>4, <2>5
    <2>. QED  BY <2>2, <2>3, <2>4, <2>5, <2>6, RequestsApart DEF Answered
  <1>. QED  BY <1>1, <1>2, <1>3, NoneAssumption, ServingOK DEF CommandInv, ClientOK, Progress

--------------------------------------------------------------------------------
(* Sessions and daemons that go *)

\* A client whose daemon ends loses its request in flight and finds the end of the connection.
LEMMA CutOff ==
    ASSUME NEW b \in Clients, kind[b] \in AllKinds, ClientOK(b),
           lease[b] = lease'[b] \/ lease'[b] = None,
           UNCHANGED <<kind[b], step[b], phase[b], at[b], resp[b]>>, UNCHANGED <<opened, crossed>>,
           UNCHANGED <<wire[b], req[b]>> \/ (wire'[b] = "shut" /\ req'[b] = None),
           at[b] # None /\ lease'[b] = at[b] /\ at[b] \in docs => at[b] \in docs'
    PROVE  ClientOK(b)'
  <1>1. CASE UNCHANGED <<wire[b], req[b]>>
    BY <1>1, Bystander
  <1>2. CASE wire'[b] = "shut" /\ req'[b] = None
    <2>1. Op(b)' = Op(b)
      BY DEF Op
    <2>2. ASSUME at[b] # None, DocumentOpen(b) PROVE DocumentOpen(b)'
      BY <2>2 DEF DocumentOpen
    <2>3. Document(b)'
      BY <2>1, <2>2 DEF Document, ClientOK, Progress
    <2>4. ASSUME phase[b] = "waiting", Progress(b) PROVE Answered(b)' \/ Cut(b)'
      <3>1. CASE Pending(b) \/ Cut(b)
        BY <1>2, <3>1 DEF Pending, Cut
      <3>2. CASE Answered(b)
        <4>1. at[b] # None
          BY <2>4 DEF Progress
        <4>. QED  BY <1>2, <2>1, <2>2, <3>2, <4>1 DEF Answered
      <3>. QED  BY <2>4, <3>1, <3>2 DEF Progress
    <2>5. phase'[b] # "killed" => Progress(b)'
      BY <1>2, <2>1, <2>4 DEF Progress, ClientOK
    <2>. QED  BY <2>3, <2>5 DEF ClientOK
  <1>. QED  BY <1>1, <1>2

\* A session goes with its document and its leases, and a daemon's connections with the daemon.
LEMMA StepLoss ==
    ASSUME CommandInv, NEW d \in Daemons, Evict(d) \/ Exit(d) \/ KillDaemon(d)
    PROVE  CommandInv'
  <1>1. /\ live' = live \ {d} /\ docs' = docs \ {d}
        /\ lease' = [c \in Clients |-> IF lease[c] = d THEN None ELSE lease[c]]
        /\ UNCHANGED <<kind, step, phase, at, resp, opened, crossed>>
        /\ sock' \in {sock, None}
    BY DEF Evict, Exit, KillDaemon, Gone
  <1>2. UNCHANGED <<wire, req>> \/ Gone(d)
    BY DEF Evict, Exit, KillDaemon
  <1>3. /\ wire' \in [Clients -> Wires] /\ req' \in [Clients -> Requests \cup {Asked, None}]
        /\ \A b \in Clients : UNCHANGED <<wire[b], req[b]>> \/ (wire'[b] = "shut" /\ req'[b] = None)
    BY <1>2 DEF Gone, CommandInv, Domains, Wires
  <1>4. lease' \in [Clients -> Daemons \cup {None}]
    BY <1>1 DEF CommandInv, Domains
  <1>5. Domains' /\ LeasesLive' /\ opened' \subseteq Clients
    BY <1>1, <1>3, <1>4 DEF CommandInv, Domains, LeasesLive
  <1>6. ASSUME NEW b \in Clients PROVE ClientOK(b)'
    <2>1. kind[b] \in AllKinds /\ ClientOK(b)
      BY DEF CommandInv, Domains
    <2>2. lease'[b] = IF lease[b] = d THEN None ELSE lease[b]
      BY <1>1
    <2>3. at[b] # None /\ lease'[b] = at[b] /\ at[b] \in docs => at[b] \in docs'
      BY <1>1, <2>2
    <2>. QED  BY <1>1, <1>3, <2>1, <2>2, <2>3, CutOff
  <1>. QED  BY <1>5, <1>6 DEF CommandInv

\* A daemon that starts, takes the socket file over or begins to stop disturbs no connection.
LEMMA StepStart ==
    ASSUME CommandInv, NEW d \in Daemons,
           Serve(d) \/ StartFails(d) \/ RemoveStale(d) \/ Bind(d) \/ IdleStop(d)
    PROVE  CommandInv'
  <1>1. /\ UNCHANGED <<kind, step, phase, at, wire, req, resp, opened, live, docs, lease, crossed>>
        /\ sock' \in {sock, None, d}
    BY DEF Serve, StartFails, RemoveStale, Bind, IdleStop, tables
  <1>2. Domains' /\ LeasesLive' /\ opened' \subseteq Clients
    BY <1>1 DEF CommandInv, Domains, LeasesLive
  <1>3. ASSUME NEW b \in Clients PROVE ClientOK(b)'
    BY <1>1, Bystander DEF CommandInv, Domains
  <1>. QED  BY <1>2, <1>3 DEF CommandInv

\* No client has begun.
LEMMA InitCommand == Init => CommandInv
  <1> SUFFICES ASSUME Init PROVE CommandInv
    OBVIOUS
  <1>1. Domains /\ LeasesLive /\ opened \subseteq Clients
    BY DEF Init, Domains, LeasesLive, Phases, Wires
  <1>2. ASSUME NEW c \in Clients PROVE ClientOK(c)
    <2>1. /\ kind[c] \in AllKinds /\ step[c] = 1 /\ phase[c] = "connect" /\ c \notin opened
          /\ req[c] = None /\ resp[c] = <<>> /\ lease[c] = None
      BY DEF Init
    <2>2. 1 \in DOMAIN Script(kind[c]) /\ Op(c) \in {AttachSession, QueryStats, AskShutdown}
      BY <2>1, ScriptFacts DEF Op
    <2>. QED  BY <2>1, <2>2 DEF ClientOK, Progress, Document
  <1>. QED  BY <1>1, <1>2 DEF CommandInv

\* CommandInv is inductive.
LEMMA StepCommand == CommandInv /\ [Next]_vars => CommandInv'
  <1> SUFFICES ASSUME CommandInv, [Next]_vars PROVE CommandInv'
    OBVIOUS
  <1>1. ASSUME NEW c \in Clients, ClientStep(c) PROVE CommandInv'
    BY <1>1, StepConnect, StepSend, StepUnanswered, StepRead DEF ClientStep
  <1>2. ASSUME NEW c \in Clients, ServingStep(c) \/ KillClient(c) PROVE CommandInv'
    BY <1>2, StepHandle, StepAnswer, StepSend DEF ServingStep
  <1>3. ASSUME NEW d \in Daemons,
               \/ Evict(d) \/ Serve(d) \/ StartFails(d) \/ RemoveStale(d) \/ Bind(d) \/ IdleStop(d)
               \/ Exit(d) \/ KillDaemon(d)
        PROVE  CommandInv'
    BY <1>3, StepLoss, StepStart
  <1>4. CASE UNCHANGED vars
    <2>1. UNCHANGED <<kind, step, phase, at, wire, req, resp, opened, sock, live, docs, lease, crossed>>
      BY <1>4 DEF vars
    <2>2. Domains' /\ LeasesLive' /\ opened' \subseteq Clients
      BY <2>1 DEF CommandInv, Domains, LeasesLive
    <2>3. ASSUME NEW b \in Clients PROVE ClientOK(b)'
      BY <2>1, Bystander DEF CommandInv, Domains
    <2>. QED  BY <2>2, <2>3 DEF CommandInv
  <1>. QED  BY <1>1, <1>2, <1>3, <1>4 DEF Next

\* No command that ran to its end over a connection that lasted leaves a lease behind, whatever
\* was answered, evicted, restarted or killed on the way, for any number of clients and daemons.
THEOREM CommandsReleaseLeases == Spec => []ReleasedAtEnd
  <1>1. CommandInv => ReleasedAtEnd
    BY DEF CommandInv, ClientOK, Progress, ReleasedAtEnd
  <1>. QED  BY <1>1, InitCommand, StepCommand, PTL DEF Spec

\* Only HandleCall passes a call on to the server.
LEMMA OnlyHandlersAsk ==
    ASSUME CommandInv, [Next]_vars, NEW c \in Clients, req[c] # Asked, req'[c] = Asked
    PROVE  HandleCall(c) /\ HasSession(c) /\ req[c] \notin {None, Asked}
  <1>1. ASSUME NEW b \in Clients, Advance(b, "write") \/ Advance(b, "unsent") \/ Advance(b, "eof")
                  \/ Advance(b, "ok") \/ Advance(b, "error")
        PROVE  req' = req \/ req' = [req EXCEPT ![b] = None]
    BY <1>1 DEF Advance, Disconnect
  <1>2. ASSUME NEW b \in Clients, ClientStep(b) \/ KillClient(b) PROVE FALSE
    <2>1. CASE Send(b)
      <3>1. Op(b) \in Requests
        BY ScriptFacts DEF Op, CommandInv, Domains, ClientOK
      <3>. QED  BY <2>1, <3>1, RequestsApart DEF Send, CommandInv, Domains
    <2>2. CASE Connect(b) \/ (\E d \in Daemons : SpawnDaemon(b, d)) \/ ConnectFails(b) \/ KillClient(b)
      BY <2>2 DEF Connect, SpawnDaemon, ConnectFails, KillClient
    <2>3. CASE WriteFails(b) \/ NothingToOpen(b) \/ Read(b) \/ Eof(b)
      <3>1. req' = req \/ req' = [req EXCEPT ![b] = None]
        BY <1>1, <2>3 DEF WriteFails, NothingToOpen, Read, Eof
      <3>. QED  BY <3>1, NoneAssumption DEF CommandInv, Domains
    <2>. QED  BY <1>2, <2>1, <2>2, <2>3 DEF ClientStep
  <1>3. ASSUME NEW b \in Clients, Answer(b) PROVE FALSE
    BY <1>3, NoneAssumption DEF Answer, CommandInv, Domains
  <1>4. ASSUME NEW d \in Daemons,
               \/ Evict(d) \/ Serve(d) \/ StartFails(d) \/ RemoveStale(d) \/ Bind(d) \/ IdleStop(d)
               \/ Exit(d) \/ KillDaemon(d)
        PROVE  FALSE
    BY <1>4, NoneAssumption DEF Evict, Serve, StartFails, RemoveStale, Bind, IdleStop, Exit, KillDaemon, Gone
  <1>5. ASSUME NEW b \in Clients, Handle(b)
        PROVE  b = c /\ HandleCall(c) /\ HasSession(c) /\ req[c] \notin {None, Asked}
    <2>1. CASE req' = [req EXCEPT ![b] = None]
      BY <2>1, NoneAssumption DEF CommandInv, Domains
    <2>2. CASE ~(req' = [req EXCEPT ![b] = None])
      <3>1. HandleCall(b) /\ HasSession(b) /\ req[b] \notin {None, Asked}
        BY <1>5, <2>2 DEF Handle, HandleTooLarge, HandleAttach, HandleNotify, HandleCall, HandleRelease,
                          HandleStats, HandleShutdown, Reply
      <3>2. req' = [req EXCEPT ![b] = Asked]
        BY <3>1 DEF HandleCall
      <3>3. b = c
        BY <3>2 DEF CommandInv, Domains
      <3>. QED  BY <3>1, <3>3
    <2>. QED  BY <2>1, <2>2
  <1>6. ~UNCHANGED vars
    BY DEF vars
  <1>. QED  BY <1>2, <1>3, <1>4, <1>5, <1>6 DEF Next, ServingStep

\* A request of `do` is handed only to a server that has seen its didOpen, unless another command
\* closed the document in between: an eviction takes the lease along, so that a respawned server
\* never gets it.
THEOREM RequestsSeeTheirDocument == Spec => RequestSeesDocument
  <1>1. ASSUME CommandInv, [Next]_vars, NEW c \in opened \ crossed, req[c] = CallServer, req'[c] = Asked
        PROVE  at[c] \in docs
    <2>1. c \in Clients /\ CallServer # Asked
      BY <1>1, RequestsApart DEF CommandInv, Requests
    <2>2. HasSession(c) /\ req[c] \notin {None, Asked}
      BY <1>1, <2>1, OnlyHandlersAsk
    <2>3. Document(c) /\ phase[c] # "killed"
      BY <1>1, <2>1 DEF CommandInv, ClientOK, Document
    <2>4. Op(c) = CallServer
      BY <1>1, <2>1, <2>2, <2>3, Handled
    <2>. QED  BY <1>1, <2>2, <2>3, <2>4 DEF Document, DocumentOpen, HasSession
  <1>2. CommandInv /\ [Next]_vars =>
           \A c \in opened \ crossed : req[c] = CallServer /\ req'[c] = Asked => at[c] \in docs
    BY <1>1
  <1>. QED  BY <1>2, InitCommand, StepCommand, PTL DEF Spec, RequestSeesDocument

================================================================================
