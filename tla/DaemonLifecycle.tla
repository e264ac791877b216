--------------------------- MODULE DaemonLifecycle ---------------------------
(***************************************************************************)
(* The life of one daemon process around its session registry: the main    *)
(* task (Daemon::run), the eviction loop with its auto-shutdown timer, the *)
(* memory monitor, and the ordered stop.  Every step that touches the      *)
(* registry is a step of SessionRegistry, taken when the tasks of the      *)
(* daemon take it.                                                         *)
(*                                                                         *)
(* Handlers are the connections accepted before the daemon began to stop   *)
(* and the dedicated streams they opened: nothing closes those until the   *)
(* process exits.                                                          *)
(***************************************************************************)
EXTENDS SessionRegistry

CONSTANT DaemonIdleTtls  \* the values daemon_idle_ttl_secs may have been configured to

NoTtl   == -1  \* not set
NoTimer == -1
NoCount == 0

ASSUME TtlsAssumption == DaemonIdleTtls \subseteq Nat \cup {NoTtl}
ASSUME TasksAssumption == {IdleEvictor, ShutdownTask} \subseteq Evictors

VARIABLES
    daemon_idle_ttl, \* the configured value, which no step changes
    daemon,         \* where Daemon::run stands
    shutdown_sent,  \* the value of the watch channel
    loop,           \* where the eviction loop stands: "waiting"; "ticking"; "empty", it has
                    \* counted no session; "ended"
    counted,        \* history: lease_seq when the loop counted no session, NoCount otherwise
    due,            \* the loop's ticker has a tick to deliver
    idle_for,       \* whole seconds since daemon_idle_since, NoTimer for None; it
                    \* stops growing at daemon_idle_ttl, the only value it is compared with
    monitor,        \* whether the memory monitor's task runs
    table_at_stop   \* history: what all_handles returned

daemonVars == <<daemon_idle_ttl, daemon, shutdown_sent, loop, counted, due, idle_for, monitor,
                table_at_stop>>
lifeVars   == <<vars, daemonVars>>

Running    == daemon # "exited"
NoSessions == \A k \in Keys : ~HasSession(k)

\* run starts both background tasks before it listens; the first tick is immediate.
DaemonInit ==
    /\ Init
    /\ daemon_idle_ttl \in DaemonIdleTtls
    /\ daemon = "serving"
    /\ shutdown_sent = FALSE
    /\ loop = "waiting" /\ counted = NoCount
    /\ due = TRUE
    /\ idle_for = 0
    /\ monitor = "running"
    /\ table_at_stop = {}

--------------------------------------------------------------------------------
\* Connections and time

\* A connection is served until the process exits, whatever the main task is doing.
Serve ==
    /\ Running
    /\ \/ \E t \in Handlers : AttachStep(t) \/ RequestStep(t) \/ ClientStep(t)
       \/ \E k \in Keys : Expire(k)
    /\ UNCHANGED daemonVars

\* A Shutdown request: the channel is set, the answer sent, the connection left.
RequestShutdown ==
    /\ Running
    /\ \E t \in Handlers : pc[t] = "idle"
    /\ shutdown_sent' = TRUE
    /\ UNCHANGED <<vars, daemon_idle_ttl, daemon, loop, counted, due, idle_for, monitor,
                   table_at_stop>>

\* One second passes; a tick that was missed is not made up for (MissedTickBehavior::Skip).
PassSecond ==
    /\ Running
    /\ due' = TRUE
    /\ idle_for' = IF idle_for \in {NoTimer, daemon_idle_ttl} \/ daemon_idle_ttl = NoTtl
                   THEN idle_for ELSE idle_for + 1
    /\ UNCHANGED <<vars, daemon_idle_ttl, daemon, shutdown_sent, loop, counted, monitor,
                   table_at_stop>>

--------------------------------------------------------------------------------
\* The eviction loop

\* A tick: collect the idle sessions, which may be none.
Tick ==
    /\ Running
    /\ loop = "waiting" /\ due
    /\ \/ ScanIdle
       \/ (\A k \in Keys : ~IdleCandidate(k)) /\ UNCHANGED vars
    /\ due' = FALSE
    /\ loop' = "ticking"
    /\ UNCHANGED <<daemon_idle_ttl, daemon, shutdown_sent, counted, idle_for, monitor,
                   table_at_stop>>

EvictIdle ==
    /\ Running
    /\ EvictionStep(IdleEvictor)
    /\ UNCHANGED daemonVars

KeepServing(timer) ==
    /\ loop' = "waiting"
    /\ counted' = NoCount
    /\ idle_for' = timer
    /\ UNCHANGED <<vars, daemon_idle_ttl, daemon, shutdown_sent, due, monitor, table_at_stop>>

\* The candidates of this tick are gone: the sessions are to be counted.
CountSessions == Running /\ loop = "ticking" /\ epc[IdleEvictor] = "tick"

\* Without a time limit the sessions are not counted.
SkipCount == CountSessions /\ daemon_idle_ttl = NoTtl /\ KeepServing(idle_for)

ResetTimer == CountSessions /\ daemon_idle_ttl # NoTtl /\ ~NoSessions /\ KeepServing(NoTimer)

\* Mutant: the loop goes on to its timer whatever it counted.
CountAnything ==
    /\ CountSessions /\ daemon_idle_ttl # NoTtl
    /\ loop' = "empty"
    /\ counted' = lease_seq
    /\ UNCHANGED <<vars, daemon_idle_ttl, daemon, shutdown_sent, due, idle_for, monitor,
                   table_at_stop>>

\* session_count returns 0.  The sessions lock is free again while the loop looks at its timer,
\* and other workers of the runtime may insert sessions.
CountNone ==
    /\ CountSessions /\ daemon_idle_ttl # NoTtl /\ NoSessions
    /\ loop' = "empty"
    /\ counted' = lease_seq
    /\ UNCHANGED <<vars, daemon_idle_ttl, daemon, shutdown_sent, due, idle_for, monitor,
                   table_at_stop>>

\* daemon_idle_since.get_or_insert_with(Instant::now)
Countdown == IF idle_for = NoTimer THEN 0 ELSE idle_for

\* Mutant: every empty count restarts the timer.
RestartTimer == Running /\ loop = "empty" /\ Countdown < daemon_idle_ttl /\ KeepServing(0)

RunTimer == Running /\ loop = "empty" /\ Countdown < daemon_idle_ttl /\ KeepServing(Countdown)

\* Mutant: the loop ends without setting the channel.
AutoShutdownSilently ==
    /\ Running
    /\ loop = "empty" /\ Countdown >= daemon_idle_ttl
    /\ loop' = "ended"
    /\ counted' = NoCount
    /\ idle_for' = Countdown
    /\ UNCHANGED <<vars, daemon_idle_ttl, daemon, shutdown_sent, due, monitor, table_at_stop>>

\* The time is over: the loop sets the channel and ends by itself.
AutoShutdown ==
    /\ Running
    /\ loop = "empty" /\ Countdown >= daemon_idle_ttl
    /\ shutdown_sent' = TRUE
    /\ loop' = "ended"
    /\ counted' = NoCount
    /\ idle_for' = Countdown
    /\ UNCHANGED <<vars, daemon_idle_ttl, daemon, due, monitor, table_at_stop>>

EndTick == SkipCount \/ ResetTimer \/ CountNone \/ RunTimer \/ AutoShutdown

--------------------------------------------------------------------------------
\* The memory monitor

MemoryTick ==
    /\ Running
    /\ monitor = "running"
    /\ ScanMemory
    /\ UNCHANGED daemonVars

EvictOverBudget ==
    /\ Running
    /\ MemoryEvictor \in Evictors
    /\ EvictionStep(MemoryEvictor)
    /\ UNCHANGED daemonVars

--------------------------------------------------------------------------------
\* Daemon::run, once the channel is set

StopAccepting ==
    /\ daemon = "serving"
    /\ shutdown_sent
    /\ daemon' = "stop_monitor"
    /\ UNCHANGED <<vars, daemon_idle_ttl, shutdown_sent, loop, counted, due, idle_for, monitor,
                   table_at_stop>>

\* Mutant: the monitor is told to stop and not awaited.
ForgetMonitor ==
    /\ daemon = "stop_monitor"
    /\ monitor' = "ended"
    /\ daemon' = "stop_loop"
    /\ UNCHANGED <<vars, daemon_idle_ttl, shutdown_sent, loop, counted, due, idle_for,
                   table_at_stop>>

\* memory_monitor.shutdown(): the task sees the stop signal when it is back at its select.
StopMonitor ==
    /\ daemon = "stop_monitor"
    /\ MemoryEvictor \in Evictors => epc[MemoryEvictor] = "tick"
    /\ monitor' = "ended"
    /\ daemon' = "stop_loop"
    /\ UNCHANGED <<vars, daemon_idle_ttl, shutdown_sent, loop, counted, due, idle_for,
                   table_at_stop>>

\* Mutant: a loop that has ended by itself is waited for.
StopWaitingLoop ==
    /\ daemon = "stop_loop"
    /\ loop = "waiting"
    /\ loop' = "ended"
    /\ daemon' = "collect"
    /\ UNCHANGED <<vars, daemon_idle_ttl, shutdown_sent, counted, due, idle_for, monitor,
                   table_at_stop>>

\* eviction_loop.shutdown(): likewise, and a loop that has ended by itself is not waited for.
StopLoop ==
    /\ daemon = "stop_loop"
    /\ loop \in {"waiting", "ended"}
    /\ loop' = "ended"
    /\ daemon' = "collect"
    /\ UNCHANGED <<vars, daemon_idle_ttl, shutdown_sent, counted, due, idle_for, monitor,
                   table_at_stop>>

\* shutdown_all_sessions: the table is read once ...
CollectSessions ==
    /\ daemon = "collect"
    /\ \/ ScanAll
       \/ NoSessions /\ UNCHANGED vars
    /\ table_at_stop' = {[key |-> k, handle |-> sessions[k].handle] :
                            k \in {j \in Keys : HasSession(j)}}
    /\ daemon' = "stop_sessions"
    /\ UNCHANGED <<daemon_idle_ttl, shutdown_sent, loop, counted, due, idle_for, monitor>>

\* ... and its sessions are stopped and removed one after the other.
StopSession ==
    /\ Running
    /\ EvictionStep(ShutdownTask)
    /\ UNCHANGED daemonVars

\* Mutant: the process exits while sessions are being stopped.
ExitAtOnce ==
    /\ daemon = "stop_sessions"
    /\ daemon' = "exited"
    /\ UNCHANGED <<vars, daemon_idle_ttl, shutdown_sent, loop, counted, due, idle_for, monitor,
                   table_at_stop>>

\* The socket file is removed, run returns, and every other task dies with the runtime.
Exit ==
    /\ daemon = "stop_sessions"
    /\ epc[ShutdownTask] = "tick"
    /\ daemon' = "exited"
    /\ UNCHANGED <<vars, daemon_idle_ttl, shutdown_sent, loop, counted, due, idle_for, monitor,
                   table_at_stop>>

--------------------------------------------------------------------------------
DaemonNext ==
    \/ Serve \/ RequestShutdown \/ PassSecond
    \/ Tick \/ EvictIdle \/ EndTick
    \/ MemoryTick \/ EvictOverBudget
    \/ StopAccepting \/ StopMonitor \/ StopLoop \/ CollectSessions \/ StopSession \/ Exit

DaemonSpec == DaemonInit /\ [][DaemonNext]_lifeVars

\* The daemon's own tasks run; nothing is asked of clients.  A task that is told to stop while
\* a tick is ready too picks either at random (select!), and so stops in the end.
DaemonFairness ==
    /\ WF_lifeVars(PassSecond) /\ WF_lifeVars(Tick) /\ WF_lifeVars(EvictIdle)
    /\ WF_lifeVars(EndTick) /\ WF_lifeVars(EvictOverBudget)
    /\ WF_lifeVars(StopAccepting) /\ SF_lifeVars(StopMonitor) /\ SF_lifeVars(StopLoop)
    /\ WF_lifeVars(CollectSessions) /\ WF_lifeVars(StopSession) /\ WF_lifeVars(Exit)

DaemonFairSpec == DaemonSpec /\ DaemonFairness

--------------------------------------------------------------------------------
\* Properties

\* Every variable stays in its domain, and neither run nor the eviction loop stops before the
\* channel says so: a loop that ended by itself has told everybody.
DaemonTypeOK ==
    /\ daemon_idle_ttl \in DaemonIdleTtls
    /\ daemon \in {"serving", "stop_monitor", "stop_loop", "collect", "stop_sessions", "exited"}
    /\ shutdown_sent \in BOOLEAN
    /\ loop \in {"waiting", "ticking", "empty", "ended"}
    /\ counted \in 0..lease_seq
    /\ due \in BOOLEAN
    /\ idle_for \in {NoTimer} \cup Nat
    /\ daemon_idle_ttl # NoTtl => idle_for <= daemon_idle_ttl
    /\ monitor \in {"running", "ended"}
    /\ table_at_stop \subseteq Victims
    /\ daemon # "serving" \/ loop = "ended" => shutdown_sent

\* While Daemon::run stops the sessions, no other task holds a handle it is about to stop or a
\* key it is about to remove: the two evictors were awaited, not only told to stop.
ShutdownIsSoleEvictor ==
    epc[ShutdownTask] # "tick" => \A e \in Evictors \ {ShutdownTask} : epc[e] = "tick"

\* The stop of what was in the table when shutdown_all_sessions read it has been awaited and its
\* record is gone when the process exits, although connections go on attaching to it and
\* releasing it.
TableIsStoppedAtExit ==
    daemon = "exited" =>
        \A v \in table_at_stop :
            process[v.handle] = "stopped" /\ sessions[v.key].handle # v.handle

\* When the daemon shuts itself down, no lease that was granted before its last count of the
\* sessions is still held, except one that the memory monitor is about to purge: nothing of what
\* happens between the count and the decision on it brings such a lease back.  (A lease granted
\* in between is not spared.)
AutoShutdownSparesLeases ==
    [][loop = "empty" /\ loop' = "ended" =>
          \A l \in LeaseIds : l < counted /\ leases[l] # NoKey =>
              \E e \in Evictors \ {IdleEvictor} : e \in Purging(leases[l])]_lifeVars

\* A daemon that has been told to stop, by a client or by its own timer, exits; in particular
\* the eviction loop's own end does not leave run waiting for it, nor do busy connections.
ShutdownCompletes == shutdown_sent ~> daemon = "exited"

\* An abandoned daemon goes away: with a time limit, and with no session from some time on, the
\* countdown ends (EvictionLoop::start, auto-shutdown).  A limit of 0 is documented as no limit
\* and is left out, see ZeroNeverFires in MCDaemonLifecycle.
AbandonedDaemonExits ==
    daemon_idle_ttl \notin {NoTtl, 0} => ((<>[]NoSessions) => <>(daemon = "exited"))

================================================================================
