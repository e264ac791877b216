------------------------- MODULE DaemonLifecycleProofs -------------------------
(***************************************************************************)
(* What holds of the daemon for every value of the constants.  Every step  *)
(* of the daemon is a step of its registry or leaves it alone, so that the *)
(* theorems of SessionRegistryProofs carry over; the order in which run    *)
(* stops its tasks does the rest.                                          *)
(***************************************************************************)
EXTENDS DaemonLifecycle, SessionRegistryProofs

USE TasksAssumption

\* The daemon's tasks do to the registry what SessionRegistry lets them do, and nothing else:
\* Daemon::run, the eviction loop and the memory monitor use it through its operations only.
LEMMA DaemonStepIsRegistryStep == [DaemonNext]_lifeVars => [Next]_vars
  <1> SUFFICES ASSUME [DaemonNext]_lifeVars PROVE [Next]_vars
    OBVIOUS
  <1>1. CASE Serve
    BY <1>1 DEF Serve, Next
  <1>2. CASE Tick
    BY <1>2 DEF Tick, Next
  <1>3. CASE EvictIdle \/ EvictOverBudget \/ StopSession
    BY <1>3 DEF EvictIdle, EvictOverBudget, StopSession, Next
  <1>4. CASE MemoryTick
    BY <1>4 DEF MemoryTick, Next
  <1>5. CASE CollectSessions
    BY <1>5 DEF CollectSessions, Next
  <1>6. CASE UNCHANGED lifeVars
    BY <1>6 DEF lifeVars
  <1>7. CASE RequestShutdown \/ PassSecond \/ EndTick \/ StopAccepting \/ StopMonitor \/ StopLoop
             \/ Exit
    BY <1>7 DEF RequestShutdown, PassSecond, EndTick, SkipCount, ResetTimer, CountNone, RunTimer,
                AutoShutdown, KeepServing, StopAccepting, StopMonitor, StopLoop, Exit
  <1>. QED  BY <1>1, <1>2, <1>3, <1>4, <1>5, <1>6, <1>7 DEF DaemonNext

\* The daemon implements its registry.
THEOREM DaemonImplementsRegistry == DaemonSpec => Spec
  <1>1. DaemonInit => Init
    BY DEF DaemonInit
  <1>. QED  BY <1>1, DaemonStepIsRegistryStep, PTL DEF DaemonSpec, Spec

--------------------------------------------------------------------------------
(* What a step does to the leases *)

\* A lease that survives a step of the registry, and was numbered before it, is on the key it was
\* on, and an evictor that was about to purge that key still is.
Aged ==
    /\ lease_seq' \in {lease_seq, lease_seq + 1}
    /\ \A l \in LeaseIds : l < lease_seq /\ leases'[l] # NoKey =>
          /\ leases'[l] = leases[l]
          /\ \A e \in Purging(leases[l]) : epc'[e] = "purge" /\ victim'[e] = victim[e]

LEMMA LeasesAge ==
    ASSUME Typed, [Next]_vars
    PROVE  Aged
  <1> USE DEF Purging, evictorVars, registryVars
  <1>0. lease_seq \in Nat /\ leases \in [LeaseIds -> Keys \cup {NoKey}]
    BY DEF Typed, TypeOK
  \* a step that leaves the leases alone, and every evictor that is about to purge
  <1>1. ASSUME UNCHANGED <<lease_seq, leases>>,
               \A e \in Evictors : epc[e] = "purge" => epc'[e] = "purge" /\ victim'[e] = victim[e]
        PROVE  Aged
    BY <1>0, <1>1 DEF Aged
  <1>2. ASSUME NEW t \in Handlers, NEW r, Grant(t, r) PROVE Aged
    <2>1. /\ lease_seq' = lease_seq + 1 /\ leases' = [leases EXCEPT ![lease_seq] = key[t]]
          /\ UNCHANGED <<epc, victim>>
      BY <1>2 DEF Grant
    <2>2. \A l \in LeaseIds : l < lease_seq => leases'[l] = leases[l]
      BY <1>0, <2>1 DEF LeaseIds
    <2>. QED  BY <2>1, <2>2 DEF Aged
  <1>3. ASSUME NEW t \in Handlers, NEW l \in LeaseIds, TakeLease(t, l) PROVE Aged
    <2>1. /\ lease_seq' = lease_seq /\ leases' = [leases EXCEPT ![l] = NoKey]
          /\ UNCHANGED <<epc, victim>>
      BY <1>3 DEF TakeLease
    <2>2. \A m \in LeaseIds : leases'[m] # NoKey => leases'[m] = leases[m]
      BY <1>0, <2>1
    <2>. QED  BY <2>1, <2>2 DEF Aged
  <1>4. ASSUME NEW t \in Handlers, AttachStep(t) PROVE Aged
    <2>1. CASE Reuse(t) \/ InsertSession(t)
      BY <1>2, <2>1 DEF Reuse, InsertSession
    <2>2. CASE ReplyStreamFailed(t) /\ leases[lease[t]] # NoKey
      <3>1. lease[t] \in LeaseIds /\ TakeLease(t, lease[t])
        BY <2>2 DEF ReplyStreamFailed, Typed, LocalsOK
      <3>. QED  BY <1>3, <3>1
    <2>3. CASE ReplyStreamFailed(t) /\ leases[lease[t]] = NoKey
      BY <1>1, <2>3 DEF ReplyStreamFailed
    <2>4. CASE FindNoSession(t) \/ EnterGate(t) \/ SpawnOk(t) \/ SpawnError(t) \/ ReopenGate(t)
               \/ DropGate(t) \/ ReplyAttachOk(t) \/ ReplyHandleMissing(t)
      BY <1>1, <2>4 DEF FindNoSession, EnterGate, SpawnOk, SpawnError, ReopenGate, DropGate,
                        ReplyAttachOk, ReplyHandleMissing
    <2>. QED  BY <1>4, <2>1, <2>2, <2>3, <2>4 DEF AttachStep
  <1>5. ASSUME NEW t \in Handlers, RequestStep(t) \/ ClientStep(t) PROVE Aged
    <2>1. CASE \E l \in LeaseIds : Release(t, l)
      BY <1>3, <2>1 DEF Release
    <2>2. CASE RequestStep(t) \/ (\E k \in Keys : Attach(t, k)) \/ (\E l \in LeaseIds : Call(t, l))
               \/ CallAnswered(t) \/ CallFailed(t)
      BY <1>1, <2>2 DEF RequestStep, Decrement, RouteCall, TouchAfterCall, Attach, Call,
                        CallAnswered, CallFailed
    <2>. QED  BY <1>5, <2>1, <2>2 DEF ClientStep
  <1>6. ASSUME NEW e \in Evictors, EvictionStep(e) PROVE Aged
    <2>1. CASE StartEviction(e) \/ StopVictim(e) \/ RemoveSession(e)
      BY <1>1, <2>1 DEF StartEviction, StopVictim, RemoveSession, Typed, TypeOK
    <2>2. CASE PurgeLeases(e)
      <3>1. /\ lease_seq' = lease_seq
            /\ leases' = [l \in LeaseIds |-> IF leases[l] = victim[e].key THEN NoKey ELSE leases[l]]
            /\ \A f \in Evictors \ {e} : epc'[f] = epc[f] /\ victim'[f] = victim[f]
        BY <2>2 DEF PurgeLeases, Typed, TypeOK
      <3>2. \A l \in LeaseIds : leases'[l] # NoKey => leases'[l] = leases[l] /\ leases[l] # victim[e].key
        BY <1>0, <3>1
      <3>. QED  BY <3>1, <3>2 DEF Aged
    <2>. QED  BY <1>6, <2>1, <2>2 DEF EvictionStep
  <1>7. CASE (\E k \in Keys : Expire(k)) \/ ScanIdle \/ ScanMemory \/ ScanAll
    BY <1>1, <1>7 DEF Expire, ScanIdle, ScanMemory, ScanAll, Typed, TypeOK
  <1>8. CASE UNCHANGED vars
    BY <1>1, <1>8 DEF vars
  <1>. QED  BY <1>4, <1>5, <1>6, <1>7, <1>8 DEF Next

--------------------------------------------------------------------------------
(* The order of the stop *)

\* Where the tasks stand, relative to where run stands.
StopOrder ==
    /\ daemon \in {"collect", "stop_sessions", "exited"} => monitor = "ended" /\ loop = "ended"
    /\ daemon = "stop_loop" => monitor = "ended"
    /\ loop # "ticking" => epc[IdleEvictor] = "tick"
    /\ monitor = "ended" /\ MemoryEvictor \in Evictors => epc[MemoryEvictor] = "tick"
    /\ monitor \in {"running", "ended"}
    /\ epc[ShutdownTask] # "tick" => daemon = "stop_sessions"

\* At the start both background tasks run and no eviction is under way.
LEMMA InitStopOrder == DaemonInit => StopOrder
  BY DEF DaemonInit, Init, StopOrder

\* A step of one evictor leaves the others where they are.
LEMMA EvictorsApart ==
    ASSUME Typed, NEW e \in Evictors, EvictionStep(e)
    PROVE  \A f \in Evictors \ {e} : epc'[f] = epc[f]
  BY DEF Typed, TypeOK, EvictionStep, StartEviction, StopVictim, RemoveSession, PurgeLeases

\* An evictor that waits for its tick takes no eviction step.
LEMMA EvictorBusy ==
    ASSUME NEW e \in Evictors, EvictionStep(e)
    PROVE  epc[e] # "tick"
  BY DEF EvictionStep, StartEviction, StopVictim, RemoveSession, PurgeLeases

\* The handlers and the clock leave every evictor where it is.
LEMMA ServeKeepsEvictors == Serve => UNCHANGED evictorVars
  <1>1. ASSUME NEW t \in Handlers, AttachStep(t) PROVE UNCHANGED evictorVars
    BY <1>1 DEF AttachStep, Reuse, FindNoSession, EnterGate, SpawnOk, SpawnError, ReopenGate,
                InsertSession, DropGate, ReplyAttachOk, ReplyHandleMissing, ReplyStreamFailed,
                Grant, TakeLease
  <1>2. ASSUME NEW t \in Handlers, RequestStep(t) \/ ClientStep(t) PROVE UNCHANGED evictorVars
    BY <1>2 DEF RequestStep, ClientStep, Decrement, RouteCall, TouchAfterCall, Attach, Release,
                Call, CallAnswered, CallFailed, TakeLease
  <1>3. ASSUME NEW k \in Keys, Expire(k) PROVE UNCHANGED evictorVars
    BY <1>3 DEF Expire
  <1>. QED  BY <1>1, <1>2, <1>3 DEF Serve

\* Every step of the daemon keeps the order of the stop.
LEMMA StepStopOrder == Typed /\ StopOrder /\ [DaemonNext]_lifeVars => StopOrder'
  <1> SUFFICES ASSUME Typed, StopOrder, [DaemonNext]_lifeVars PROVE StopOrder'
    OBVIOUS
  <1> USE DEF StopOrder
  <1>1. CASE Serve
    BY <1>1, ServeKeepsEvictors DEF Serve, daemonVars, evictorVars
  <1>2. CASE Tick
    BY <1>2 DEF Tick, ScanIdle, vars, evictorVars, Typed, TypeOK, IdleEvictor, MemoryEvictor,
                ShutdownTask
  <1>3. CASE EvictIdle
    BY <1>3, EvictorsApart, EvictorBusy DEF EvictIdle, daemonVars, IdleEvictor, MemoryEvictor,
                ShutdownTask
  <1>4. CASE EvictOverBudget
    BY <1>4, EvictorsApart, EvictorBusy DEF EvictOverBudget, daemonVars, IdleEvictor,
                MemoryEvictor, ShutdownTask
  <1>5. CASE StopSession
    BY <1>5, EvictorsApart, EvictorBusy DEF StopSession, daemonVars, IdleEvictor, MemoryEvictor,
                ShutdownTask
  <1>6. CASE MemoryTick
    BY <1>6 DEF MemoryTick, ScanMemory, daemonVars, Typed, TypeOK, IdleEvictor, MemoryEvictor,
                ShutdownTask
  <1>7. CASE CollectSessions
    BY <1>7 DEF CollectSessions, ScanAll, vars, evictorVars, Typed, TypeOK, IdleEvictor,
                MemoryEvictor, ShutdownTask
  <1>8. CASE EndTick
    BY <1>8 DEF EndTick, SkipCount, ResetTimer, CountNone, RunTimer, AutoShutdown, KeepServing,
                CountSessions, vars, evictorVars
  <1>9. CASE RequestShutdown \/ PassSecond \/ StopAccepting \/ StopMonitor \/ StopLoop \/ Exit
    BY <1>9 DEF RequestShutdown, PassSecond, StopAccepting, StopMonitor, StopLoop, Exit, vars,
                evictorVars
  <1>10. CASE UNCHANGED lifeVars
    BY <1>10 DEF lifeVars, vars, evictorVars, daemonVars
  <1>. QED  BY <1>1, <1>2, <1>3, <1>4, <1>5, <1>6, <1>7, <1>8, <1>9, <1>10 DEF DaemonNext

\* The invariants of the registry hold of the daemon, and the order of the stop does.
LEMMA DaemonInvariants == DaemonSpec => [](Typed /\ LeaseInv /\ StopOrder)
  <1>1. DaemonInit => Init
    BY DEF DaemonInit
  <1>. QED  BY <1>1, InitTyped, StepTyped, InitLease, StepLease, InitStopOrder, StepStopOrder,
               DaemonStepIsRegistryStep, PTL DEF DaemonSpec

--------------------------------------------------------------------------------
(* Types, the timer and the channel *)

\* Every step keeps the daemon's variables in their domains, the timer at most at its limit, and
\* whoever has stopped, stopped after the channel was set.
LEMMA StepDaemonTyped == Typed /\ DaemonTypeOK /\ [DaemonNext]_lifeVars => DaemonTypeOK'
  <1> SUFFICES ASSUME Typed, DaemonTypeOK, [DaemonNext]_lifeVars PROVE DaemonTypeOK'
    OBVIOUS
  <1> USE TtlsAssumption DEF DaemonTypeOK, NoTtl, NoTimer
  <1>1. CASE Serve \/ EvictIdle \/ MemoryTick \/ EvictOverBudget \/ StopSession \/ UNCHANGED lifeVars
    <2>1. UNCHANGED daemonVars
      BY <1>1 DEF Serve, EvictIdle, MemoryTick, EvictOverBudget, StopSession, lifeVars
    <2>2. [Next]_vars
      BY DaemonStepIsRegistryStep
    <2>3. lease_seq' \in {lease_seq, lease_seq + 1} /\ lease_seq \in Nat
      BY <2>2, LeasesAge DEF Aged, Typed, TypeOK
    <2>4. counted' \in 0..lease_seq'
      BY <2>1, <2>3 DEF daemonVars
    <2>. QED  BY <2>1, <2>4 DEF daemonVars
  <1>2. CASE RequestShutdown \/ Tick \/ StopAccepting \/ StopMonitor \/ StopLoop \/ Exit
    <2>1. UNCHANGED <<lease_seq, counted>>
      BY <1>2 DEF RequestShutdown, Tick, ScanIdle, StopAccepting, StopMonitor, StopLoop, Exit, vars,
                  registryVars
    <2>. QED  BY <1>2, <2>1 DEF RequestShutdown, Tick, StopAccepting, StopMonitor, StopLoop, Exit
  <1>3. CASE PassSecond
    <2>1. UNCHANGED <<lease_seq, daemon_idle_ttl, daemon, shutdown_sent, loop, counted, monitor,
                      table_at_stop>>
      BY <1>3 DEF PassSecond, vars, registryVars
    <2>2. due' = TRUE
      BY <1>3 DEF PassSecond
    <2>3. idle_for' \in {NoTimer} \cup Nat /\ (daemon_idle_ttl # NoTtl => idle_for' <= daemon_idle_ttl)
      BY <1>3 DEF PassSecond
    <2>. QED  BY <2>1, <2>2, <2>3
  <1>4. CASE EndTick
    <2>1. /\ UNCHANGED <<daemon_idle_ttl, daemon, due, monitor, table_at_stop>>
          /\ \/ loop' \in {"waiting", "empty"} /\ shutdown_sent' = shutdown_sent
             \/ loop' = "ended" /\ shutdown_sent' = TRUE
          /\ lease_seq' = lease_seq /\ counted' \in {NoCount, lease_seq}
      BY <1>4 DEF EndTick, SkipCount, ResetTimer, CountNone, RunTimer, AutoShutdown, KeepServing, vars,
                  registryVars
    <2>2. idle_for' \in {idle_for, NoTimer, Countdown}
      BY <1>4 DEF EndTick, SkipCount, ResetTimer, CountNone, RunTimer, AutoShutdown, KeepServing
    <2>3. idle_for' \in {NoTimer} \cup Nat /\ (daemon_idle_ttl # NoTtl => idle_for' <= daemon_idle_ttl)
      BY <2>2 DEF Countdown
    <2>4. counted' \in 0..lease_seq'
      BY <2>1 DEF NoCount, Typed, TypeOK
    <2>5. /\ loop' \in {"waiting", "ticking", "empty", "ended"}
          /\ shutdown_sent' \in BOOLEAN
          /\ daemon' # "serving" \/ loop' = "ended" => shutdown_sent'
      <3>1. CASE loop' \in {"waiting", "empty"} /\ shutdown_sent' = shutdown_sent
        BY <2>1, <3>1
      <3>2. CASE loop' = "ended" /\ shutdown_sent' = TRUE
        BY <3>2
      <3>. QED  BY <2>1, <3>1, <3>2
    <2>. QED  BY <2>1, <2>3, <2>4, <2>5
  <1>5. CASE CollectSessions
    <2>1. UNCHANGED <<lease_seq, daemon_idle_ttl, shutdown_sent, loop, counted, due, idle_for, monitor>>
      BY <1>5 DEF CollectSessions, ScanAll, vars, registryVars
    <2>2. daemon' = "stop_sessions" /\ daemon # "serving"
      BY <1>5 DEF CollectSessions
    <2>3. table_at_stop' \subseteq Victims
      <3>1. ASSUME NEW k \in Keys, HasSession(k)
            PROVE  [key |-> k, handle |-> sessions[k].handle] \in Victims
        BY <3>1 DEF HasSession, Victims, Typed, TypeOK, SessionRecord
      <3>. QED  BY <1>5, <3>1 DEF CollectSessions
    <2>. QED  BY <2>1, <2>2, <2>3
  <1>. QED  BY <1>1, <1>2, <1>3, <1>4, <1>5 DEF DaemonNext

\* The daemon's variables keep their types, its idle timer never runs past its limit, and neither
\* run nor the eviction loop stops before the channel says so.
THEOREM DaemonTypeCorrect == DaemonSpec => []DaemonTypeOK
  <1>1. DaemonInit => DaemonTypeOK
    <2> SUFFICES ASSUME DaemonInit PROVE DaemonTypeOK
      OBVIOUS
    <2>1. /\ daemon_idle_ttl \in DaemonIdleTtls /\ daemon = "serving" /\ shutdown_sent = FALSE
          /\ loop = "waiting" /\ due = TRUE /\ idle_for = 0 /\ monitor = "running"
          /\ table_at_stop = {} /\ counted = 0 /\ lease_seq = 1
      BY DEF DaemonInit, Init, NoCount
    <2>2. daemon_idle_ttl # NoTtl => 0 <= daemon_idle_ttl
      BY <2>1, TtlsAssumption DEF NoTtl
    <2>3. counted \in 0..lease_seq /\ idle_for \in {NoTimer} \cup Nat
      BY <2>1
    <2>. QED  BY ONLY <2>1, <2>2, <2>3 DEF DaemonTypeOK
  <1>. QED  BY <1>1, DaemonInvariants, StepDaemonTyped, PTL DEF DaemonSpec

\* While Daemon::run stops the sessions of the table, no evictor is in the middle of a removal.
THEOREM ShutdownExcludesEvictors == DaemonSpec => []ShutdownIsSoleEvictor
  <1>1. StopOrder => ShutdownIsSoleEvictor
    BY EvictorsAssumption DEF StopOrder, ShutdownIsSoleEvictor
  <1>. QED  BY <1>1, DaemonInvariants, PTL

\* Between an empty count and the decision on it, what remains of the leases counted is on its way
\* out: the eviction loop purges nothing meanwhile, so the memory monitor does.
CountedLeasesGo ==
    loop = "empty" =>
        /\ counted \in Nat /\ counted <= lease_seq
        /\ \A l \in LeaseIds : l < counted /\ leases[l] # NoKey =>
              \E e \in Evictors \ {IdleEvictor} : e \in Purging(leases[l])

\* Every step of the daemon keeps it: leases granted since the count have higher numbers.
LEMMA StepCounted ==
    Typed /\ LeaseInv /\ StopOrder /\ CountedLeasesGo /\ [DaemonNext]_lifeVars => CountedLeasesGo'
  <1> SUFFICES ASSUME Typed, LeaseInv, StopOrder, CountedLeasesGo, [DaemonNext]_lifeVars, loop' = "empty"
               PROVE  CountedLeasesGo'
    BY DEF CountedLeasesGo
  <1>1. CASE CountNone
    <2>1. /\ counted' = lease_seq /\ UNCHANGED <<lease_seq, leases, epc, victim>>
          /\ epc[IdleEvictor] = "tick" /\ NoSessions
      BY <1>1 DEF CountNone, CountSessions, vars, registryVars, evictorVars
    <2>2. ASSUME NEW l \in LeaseIds, leases[l] # NoKey
          PROVE  \E e \in Evictors \ {IdleEvictor} : e \in Purging(leases[l])
      <3>1. ~HasSession(leases[l])
        BY <2>1, <2>2 DEF NoSessions, Typed, TypeOK
      <3>2. Purging(leases[l]) # {}
        BY <2>2, <3>1 DEF LeaseInv, DanglingLeaseIsPurged
      <3>. QED  BY <2>1, <3>2 DEF Purging
    <2>3. \A k : Purging(k)' = Purging(k)
      BY <2>1 DEF Purging
    <2>4. counted' \in Nat /\ counted' <= lease_seq'
      BY <2>1 DEF Typed, TypeOK
    <2>. QED  BY <2>1, <2>2, <2>3, <2>4 DEF CountedLeasesGo
  <1>2. CASE ~CountNone
    <2>1. loop = "empty" /\ counted' = counted
      BY <1>2 DEF DaemonNext, lifeVars, Serve, RequestShutdown, PassSecond, Tick, EvictIdle,
                  EndTick, SkipCount, ResetTimer, RunTimer, AutoShutdown, KeepServing, MemoryTick,
                  EvictOverBudget, StopAccepting, StopMonitor, StopLoop, CollectSessions,
                  StopSession, Exit, daemonVars
    <2>2. /\ counted \in Nat /\ counted <= lease_seq
          /\ \A l \in LeaseIds : l < counted /\ leases[l] # NoKey =>
                \E e \in Evictors \ {IdleEvictor} : e \in Purging(leases[l])
      BY <2>1 DEF CountedLeasesGo
    <2>3. lease_seq \in Nat /\ Aged
      BY DaemonStepIsRegistryStep, LeasesAge DEF Typed, TypeOK
    <2>4. ASSUME NEW l \in LeaseIds, l < counted, leases'[l] # NoKey
          PROVE  \E e \in Evictors \ {IdleEvictor} : e \in Purging(leases[l])'
      <3>1. l < lease_seq
        BY <2>2, <2>3, <2>4 DEF LeaseIds
      <3>2. /\ leases'[l] = leases[l]
            /\ \A e \in Purging(leases[l]) : epc'[e] = "purge" /\ victim'[e] = victim[e]
        BY <2>3, <2>4, <3>1 DEF Aged
      <3>. QED  BY <2>2, <2>4, <3>2 DEF Purging
    <2>5. counted <= lease_seq'
      BY <2>2, <2>3 DEF Aged
    <2>. QED  BY <2>1, <2>2, <2>4, <2>5 DEF CountedLeasesGo
  <1>. QED  BY <1>1, <1>2

\* No lease that was granted before the count on which the eviction loop ends the daemon is still
\* held when it does, but for leases the memory monitor is about to purge: whatever attaches,
\* releases and removals happen on other workers between the count and the signal.
THEOREM AutoShutdownIsSafe == DaemonSpec => AutoShutdownSparesLeases
  <1> DEFINE Spares == loop = "empty" /\ loop' = "ended" =>
                 \A l \in LeaseIds : l < counted /\ leases[l] # NoKey =>
                     \E e \in Evictors \ {IdleEvictor} : e \in Purging(leases[l])
  <1>1. CountedLeasesGo => [Spares]_lifeVars
    BY DEF CountedLeasesGo
  <1>2. DaemonInit => CountedLeasesGo
    BY DEF DaemonInit, CountedLeasesGo
  <1>3. []CountedLeasesGo /\ [][DaemonNext]_lifeVars => [][Spares]_lifeVars
    BY <1>1, PTL
  <1>4. DaemonSpec => []CountedLeasesGo
    BY <1>2, DaemonInvariants, StepCounted, PTL DEF DaemonSpec
  <1>. QED  BY <1>3, <1>4, PTL DEF DaemonSpec, AutoShutdownSparesLeases

--------------------------------------------------------------------------------
(* What the table held when the daemon began to stop its sessions *)

\* A member of that table waits, is being stopped, is being removed, or is gone for good.
Waiting(v)  == v \in todo[ShutdownTask]
Stopping(v) == victim[ShutdownTask] = v /\ epc[ShutdownTask] = "stop"
Removing(v) == /\ victim[ShutdownTask] = v /\ epc[ShutdownTask] = "remove"
               /\ process[v.handle] = "stopped"
Gone(v)     == process[v.handle] = "stopped" /\ sessions[v.key].handle # v.handle

\* No attach will bring the process of v into a session.
Spent(v)    == /\ process[v.handle] # "unborn"
               /\ \A t \in Handlers : Fresh(t) => child[t] # v.handle

TableProgress ==
    /\ table_at_stop \subseteq Victims
    /\ daemon \notin {"stop_sessions", "exited"} => table_at_stop = {}
    /\ \A v \in table_at_stop :
          Spent(v) /\ (Waiting(v) \/ Stopping(v) \/ Removing(v) \/ Gone(v))
    /\ epc[ShutdownTask] = "tick" => todo[ShutdownTask] = {}
    /\ daemon = "exited" => epc[ShutdownTask] = "tick"

\* What holds of a spent process goes on holding.
LEMMA SpentForGood ==
    ASSUME Typed, Childless, [Next]_vars, NEW v \in Victims, Spent(v)
    PROVE  Spent(v)' /\ (Gone(v) => Gone(v)')
  <1>1. v.key \in Keys /\ v.handle \in Processes
    BY DEF Victims
  <1>2. Spent(v)'
    BY <1>1, FreshChange, ProcessesAge DEF Spent
  <1>3. Gone(v) => Gone(v)'
    BY <1>1, HandleGoneForGood, ProcessesAge DEF Spent, Gone
  <1>. QED  BY <1>2, <1>3

\* A step that leaves the shutdown task where it is.
LEMMA TableFrame ==
    ASSUME Typed, Childless, TableProgress, [Next]_vars, daemon' = daemon,
           UNCHANGED table_at_stop,
           epc'[ShutdownTask] = epc[ShutdownTask], todo'[ShutdownTask] = todo[ShutdownTask],
           victim'[ShutdownTask] = victim[ShutdownTask]
    PROVE  TableProgress'
  <1>1. ASSUME NEW v \in table_at_stop
        PROVE  (Spent(v) /\ (Waiting(v) \/ Stopping(v) \/ Removing(v) \/ Gone(v)))'
    <2>1. v \in Victims /\ v.handle \in Processes
      BY DEF TableProgress, Victims
    <2>2. Spent(v)' /\ (Gone(v) => Gone(v)')
      BY <2>1, SpentForGood DEF TableProgress
    <2>3. Waiting(v) => Waiting(v)'
      BY DEF Waiting
    <2>4. Stopping(v) => Stopping(v)'
      BY DEF Stopping
    <2>5. Removing(v) => Removing(v)'
      BY <2>1, ProcessesAge DEF Removing
    <2>. QED  BY <2>2, <2>3, <2>4, <2>5 DEF TableProgress
  <1>. QED  BY <1>1 DEF TableProgress

\* A step of shutdown_all_sessions takes its session one stage further.
LEMMA TableStop ==
    ASSUME Typed, Childless, FreshInv, StopOrder, TableProgress, StopSession
    PROVE  TableProgress'
  <1> DEFINE s == ShutdownTask
  <1>1. /\ s \in Evictors /\ daemon = "stop_sessions" /\ EvictionStep(s) /\ [Next]_vars
        /\ UNCHANGED <<daemon, table_at_stop>>
    BY EvictorBusy DEF StopSession, StopOrder, Next, daemonVars
  <1>2. ASSUME NEW v \in table_at_stop
        PROVE  (Spent(v) /\ (Waiting(v) \/ Stopping(v) \/ Removing(v) \/ Gone(v)))'
    <2>1. v \in Victims /\ v.handle \in Processes /\ v.key \in Keys
      BY DEF TableProgress, Victims
    <2>2. Spent(v)' /\ (Gone(v) => Gone(v)')
      BY <1>1, <2>1, SpentForGood DEF TableProgress
    <2>3. CASE StartEviction(s)
      <3>1. Waiting(v) => Waiting(v)' \/ Stopping(v)'
        BY <1>1, <2>3 DEF StartEviction, Waiting, Stopping, Typed, TypeOK
      <3>. QED  BY <2>2, <2>3, <3>1 DEF TableProgress, StartEviction, Stopping, Removing
    <2>4. CASE StopVictim(s)
      <3>1. Waiting(v) => Waiting(v)'
        BY <2>4 DEF StopVictim, Waiting
      <3>2. Stopping(v) => Removing(v)'
        BY <1>1, <2>1, <2>4 DEF StopVictim, Stopping, Removing, Typed, TypeOK
      <3>. QED  BY <2>2, <2>4, <3>1, <3>2 DEF TableProgress, StopVictim, Removing
    <2>5. CASE RemoveSession(s)
      <3>1. Waiting(v) => Waiting(v)'
        BY <2>5 DEF RemoveSession, Waiting
      <3>2. Removing(v) => Gone(v)'
        BY <2>1, <2>5 DEF RemoveSession, Removing, Gone, Typed, TypeOK, NoSession, NewRecord,
                          Processes, NoProcess
      <3>. QED  BY <2>2, <2>5, <3>1, <3>2 DEF TableProgress, RemoveSession, Stopping
    <2>6. CASE PurgeLeases(s)
      <3>1. Waiting(v) => Waiting(v)'
        BY <2>6 DEF PurgeLeases, Waiting
      <3>. QED  BY <2>2, <2>6, <3>1 DEF TableProgress, PurgeLeases, Stopping, Removing
    <2>. QED  BY <1>1, <2>3, <2>4, <2>5, <2>6 DEF EvictionStep
  <1>3. epc'[s] = "tick" => todo'[s] = {}
    BY <1>1 DEF EvictionStep, StartEviction, StopVictim, RemoveSession, PurgeLeases, Typed, TypeOK
  <1>. QED  BY <1>1, <1>2, <1>3 DEF TableProgress

\* all_handles puts the whole table on the list of the shutdown task.
LEMMA TableCollect ==
    ASSUME Typed, FreshInv, StopOrder, TableProgress, CollectSessions
    PROVE  TableProgress'
  <1>1. table_at_stop' \subseteq Victims
    BY DEF CollectSessions, HasSession, Victims, Typed, TypeOK, SessionRecord
  <1>2. ASSUME NEW v \in table_at_stop' PROVE Spent(v)' /\ Waiting(v)'
    <2>1. PICK k \in Keys : HasSession(k) /\ v = [key |-> k, handle |-> sessions[k].handle]
      BY DEF CollectSessions
    <2>2. ScanAll
      BY <2>1 DEF CollectSessions, NoSessions
    <2>3. v.handle \in Processes /\ InUse(v.handle)
      BY <2>1 DEF HasSession, InUse, Typed, TypeOK, SessionRecord
    <2>4. \A t \in Handlers : Fresh(t)' = Fresh(t) /\ child'[t] = child[t]
      BY <2>2 DEF ScanAll, Fresh, handlerVars
    <2>5. Spent(v)'
      BY <2>2, <2>3, <2>4 DEF ScanAll, Spent, FreshInv
    <2>6. Waiting(v)'
      BY <2>1, <2>2 DEF ScanAll, Waiting, Typed, TypeOK
    <2>. QED  BY <2>5, <2>6
  <1>3. epc'[ShutdownTask] = "tick" => todo'[ShutdownTask] = {}
    BY DEF CollectSessions, ScanAll, vars, evictorVars, TableProgress, Typed, TypeOK
  <1>. QED  BY <1>1, <1>2, <1>3 DEF TableProgress, CollectSessions

\* Every step of the daemon keeps the progress of its last table.
LEMMA StepTable ==
    Typed /\ Childless /\ FreshInv /\ StopOrder /\ TableProgress /\ [DaemonNext]_lifeVars
        => TableProgress'
  <1> SUFFICES ASSUME Typed, Childless, FreshInv, StopOrder, TableProgress, [DaemonNext]_lifeVars
               PROVE  TableProgress'
    OBVIOUS
  <1> DEFINE s == ShutdownTask
             Keeps == /\ epc'[s] = epc[s] /\ todo'[s] = todo[s] /\ victim'[s] = victim[s]
                      /\ UNCHANGED <<daemon, table_at_stop>>
  <1>1. [Next]_vars
    BY DaemonStepIsRegistryStep
  <1>2. CASE Keeps
    BY <1>1, <1>2, TableFrame
  <1>3. CASE Serve
    <2>1. UNCHANGED evictorVars
      BY <1>3, ServeKeepsEvictors
    <2>. QED  BY <1>2, <1>3, <2>1 DEF Serve, daemonVars, evictorVars
  <1>4. CASE Tick \/ MemoryTick
    BY <1>2, <1>4 DEF Tick, MemoryTick, ScanIdle, ScanMemory, vars, evictorVars, daemonVars,
                      Typed, TypeOK, IdleEvictor, MemoryEvictor, ShutdownTask
  <1>5. CASE EvictIdle \/ EvictOverBudget
    <2>1. PICK e \in Evictors \ {s} : EvictionStep(e)
      BY <1>5 DEF EvictIdle, EvictOverBudget, IdleEvictor, MemoryEvictor, ShutdownTask
    <2>2. epc'[s] = epc[s] /\ todo'[s] = todo[s] /\ victim'[s] = victim[s]
      BY <2>1 DEF EvictionStep, StartEviction, StopVictim, RemoveSession, PurgeLeases, Typed, TypeOK
    <2>. QED  BY <1>2, <1>5, <2>2 DEF EvictIdle, EvictOverBudget, daemonVars
  <1>6. CASE StopSession
    BY <1>6, TableStop
  <1>7. CASE CollectSessions
    BY <1>7, TableCollect
  <1>8. CASE StopAccepting \/ StopMonitor \/ StopLoop \/ Exit
    <2>1. /\ UNCHANGED <<vars, table_at_stop>>
          /\ daemon' \in {"stop_sessions", "exited"} <=>
                daemon \in {"stop_sessions", "exited"}
          /\ daemon' = "exited" => epc[s] = "tick"
      BY <1>8 DEF StopAccepting, StopMonitor, StopLoop, Exit
    <2>2. UNCHANGED <<process, sessions, pc, child, epc, todo, victim>>
      BY <2>1 DEF vars, registryVars, handlerVars, evictorVars
    <2>. QED  BY <2>1, <2>2
              DEF TableProgress, Spent, Fresh, Waiting, Stopping, Removing, Gone
  <1>9. CASE RequestShutdown \/ PassSecond \/ EndTick \/ UNCHANGED lifeVars
    BY <1>2, <1>9 DEF RequestShutdown, PassSecond, EndTick, SkipCount, ResetTimer, CountNone, RunTimer,
                      AutoShutdown, KeepServing, lifeVars, daemonVars, vars, evictorVars
  <1>. QED  BY <1>3, <1>4, <1>5, <1>6, <1>7, <1>8, <1>9 DEF DaemonNext

\* Whatever session the table held when shutdown_all_sessions read it is stopped and out of the
\* table when the daemon exits, although connections go on using the registry.
THEOREM ShutdownStopsTheTable == DaemonSpec => []TableIsStoppedAtExit
  <1>1. DaemonInit => Childless /\ FreshInv /\ TableProgress
    BY InitFresh DEF DaemonInit, Init, TableProgress
  <1>2. Typed /\ TableProgress => TableIsStoppedAtExit
    BY DEF TableProgress, TableIsStoppedAtExit, Waiting, Stopping, Removing, Gone
  <1>. QED  BY <1>1, <1>2, DaemonInvariants, DaemonStepIsRegistryStep, StepChildless, StepFresh,
               StepTable, PTL DEF DaemonSpec

================================================================================
