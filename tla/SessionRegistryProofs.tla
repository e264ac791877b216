------------------------- MODULE SessionRegistryProofs -------------------------
(***************************************************************************)
(* Machine-checked proofs about SessionRegistry, for every set of keys,    *)
(* handlers, evictors and gates and every bound on the attach requests.    *)
(***************************************************************************)
EXTENDS SessionRegistry, FiniteSetTheorems, TLAPS

\* What the pc of a handler or an evictor says about its other locals.
LocalsOK ==
    /\ \A t \in Handlers :
          /\ pc[t] # "idle" => key[t] \in Keys
          /\ pc[t] \in {"session", "gate", "wait", "spawn", "open", "insert", "drop_gate"}
                => gate[t] \in Gates
          /\ pc[t] = "reply" => lease[t] \in LeaseIds
          /\ pc[t] = "insert" => child[t] \in Processes
    /\ \A e \in Evictors : epc[e] \in {"stop", "remove", "purge"} => victim[e] \in Victims

Typed == TypeOK /\ LocalsOK

USE EvictorsAssumption, NullsAssumption, MaxAttachAssumption

\* The updates of a record keep its type and its handle, and change its count as they say.
LEMMA RecordUpdates ==
    ASSUME NEW r \in SessionRecord
    PROVE  /\ Touch(r) \in SessionRecord
           /\ Touch(r).handle = r.handle
           /\ Touch(r).ref_count = r.ref_count
           /\ Admit(r) \in SessionRecord
           /\ Admit(r).handle = r.handle
           /\ Admit(r).ref_count = r.ref_count + 1
           /\ Drop(r) \in SessionRecord
           /\ Drop(r).handle = r.handle
           /\ Drop(r).ref_count = IF r.ref_count > 0 THEN r.ref_count - 1 ELSE 0
           /\ [r EXCEPT !.expired = TRUE] \in SessionRecord
           /\ [r EXCEPT !.expired = TRUE].handle = r.handle
           /\ [r EXCEPT !.expired = TRUE].ref_count = r.ref_count
           /\ \A w \in Terminations :
                 /\ [r EXCEPT !.terminating = w] \in SessionRecord
                 /\ [r EXCEPT !.terminating = w].handle = r.handle
                 /\ [r EXCEPT !.terminating = w].ref_count = r.ref_count
  <1>1. /\ Touch(r) \in SessionRecord
        /\ Touch(r).handle = r.handle
        /\ Touch(r).ref_count = r.ref_count
    BY DEF Touch, SessionRecord
  <1>2. /\ Admit(r) \in SessionRecord
        /\ Admit(r).handle = r.handle
        /\ Admit(r).ref_count = r.ref_count + 1
    BY DEF Admit, SessionRecord, Terminations, NotTerminating
  <1>3. ASSUME NEW q \in SessionRecord
        PROVE  LET d == [q EXCEPT !.ref_count = IF @ > 0 THEN @ - 1 ELSE 0]
               IN  /\ d \in SessionRecord
                   /\ d.handle = q.handle
                   /\ d.ref_count = IF q.ref_count > 0 THEN q.ref_count - 1 ELSE 0
    BY DEF SessionRecord
  <1>4. ASSUME NEW w \in Terminations
        PROVE  /\ [r EXCEPT !.terminating = w] \in SessionRecord
               /\ [r EXCEPT !.terminating = w].handle = r.handle
               /\ [r EXCEPT !.terminating = w].ref_count = r.ref_count
    BY DEF SessionRecord
  <1>5. /\ [r EXCEPT !.expired = TRUE] \in SessionRecord
        /\ [r EXCEPT !.expired = TRUE].handle = r.handle
        /\ [r EXCEPT !.expired = TRUE].ref_count = r.ref_count
    BY DEF SessionRecord
  <1>6. /\ Drop(r) \in SessionRecord
        /\ Drop(r).handle = r.handle
        /\ Drop(r).ref_count = IF r.ref_count > 0 THEN r.ref_count - 1 ELSE 0
    BY <1>1, <1>3 DEF Drop
  <1>. QED  BY <1>1, <1>2, <1>4, <1>5, <1>6

\* A record that insert makes for a child is typed, unreferenced and holds that child.
LEMMA NewRecordType ==
    ASSUME NEW p \in Processes \cup {NoProcess}
    PROVE  /\ NewRecord(p) \in SessionRecord
           /\ NewRecord(p).handle = p
           /\ NewRecord(p).ref_count = 0
  BY DEF NewRecord, SessionRecord, Terminations, NotTerminating

\* The empty registry (with_idle_ttl) is typed.
LEMMA InitTyped == Init => Typed
  <1> SUFFICES ASSUME Init PROVE Typed
    OBVIOUS
  <1>1. NoSession \in SessionRecord
    BY NewRecordType DEF NoSession
  <1>2. TypeOK
    BY <1>1 DEF Init, TypeOK, LeaseIds, Processes, AttachPcs
  <1>3. LocalsOK
    BY DEF Init, LocalsOK
  <1>. QED  BY <1>2, <1>3 DEF Typed

\* A handler that returns keeps its locals in their domains.
LEMMA ReturnTyped ==
    ASSUME Typed, NEW t \in Handlers, Return(t)
    PROVE  /\ pc' \in [Handlers -> {"idle", "decrement", "route", "call", "touch"} \cup AttachPcs]
           /\ key' \in [Handlers -> Keys \cup {NoKey}]
           /\ gate' \in [Handlers -> Gates \cup {NoGate}]
           /\ lease' \in [Handlers -> LeaseIds \cup {NoLease}]
           /\ child' \in [Handlers -> Processes \cup {NoProcess}]
  BY DEF Typed, TypeOK, Return

\* Taking or creating a gate (acquire_or_spawn) keeps the types.
LEMMA AttachTyped ==
    ASSUME Typed, NEW t \in Handlers, NEW k \in Keys, Attach(t, k)
    PROVE  Typed'
  <1>1. gate' \in [Handlers -> Gates \cup {NoGate}] /\ gate'[t] \in Gates
    BY DEF Typed, TypeOK, Attach
  <1>2. spawn_gates' \in [Keys -> Gates \cup {NoGate}] /\ started' \in [Gates -> BOOLEAN]
    BY DEF Typed, TypeOK, Attach
  <1>3. TypeOK'
    BY <1>1, <1>2 DEF Typed, TypeOK, Attach, AttachPcs, evictorVars
  <1>4. LocalsOK'
    BY <1>1 DEF Typed, TypeOK, LocalsOK, Attach, evictorVars
  <1>. QED  BY <1>3, <1>4 DEF Typed

\* Granting a lease on a record (acquire_or_spawn) keeps the types.
LEMMA GrantTyped ==
    ASSUME Typed, NEW t \in Handlers, key[t] \in Keys, NEW r \in SessionRecord, Grant(t, r)
    PROVE  Typed'
  <1>1. sessions' \in [Keys -> SessionRecord]
    BY RecordUpdates DEF Typed, TypeOK, Grant
  <1>2. /\ leases' \in [LeaseIds -> Keys \cup {NoKey}]
        /\ lease_seq' \in 1..(MaxAttach + 1)
        /\ lease' \in [Handlers -> LeaseIds \cup {NoLease}]
    BY DEF Typed, TypeOK, Grant, LeaseIds
  <1>3. TypeOK'
    BY <1>1, <1>2 DEF Typed, TypeOK, Grant, AttachPcs, evictorVars
  <1>4. LocalsOK'
    BY DEF Typed, TypeOK, LocalsOK, Grant, evictorVars
  <1>. QED  BY <1>3, <1>4 DEF Typed

\* The first half of release_by_lease_id keeps the types.
LEMMA TakeLeaseTyped ==
    ASSUME Typed, NEW t \in Handlers, NEW l \in LeaseIds, leases[l] # NoKey, TakeLease(t, l)
    PROVE  Typed'
  <1>1. TypeOK'
    BY DEF Typed, TypeOK, TakeLease, evictorVars
  <1>2. LocalsOK'
    BY DEF Typed, TypeOK, LocalsOK, TakeLease, evictorVars
  <1>. QED  BY <1>1, <1>2 DEF Typed

\* Steps of a handler that leave the registry's tables alone or update one record.
LEMMA HandlerTyped ==
    ASSUME Typed, NEW t \in Handlers, AttachStep(t) \/ RequestStep(t) \/ ClientStep(t)
    PROVE  Typed'
  <1> USE DEF Typed, TypeOK, LocalsOK, AttachPcs, registryVars, evictorVars
  <1>1. CASE Reuse(t)
    BY <1>1, GrantTyped DEF Reuse
  <1>2. CASE FindNoSession(t)
    BY <1>2 DEF FindNoSession, Goto
  <1>3. CASE EnterGate(t)
    BY <1>3 DEF EnterGate, Goto
  <1>4. CASE SpawnOk(t)
    <2>1. process' \in [Processes -> {"unborn", "up", "stopped"}]
      BY <1>4 DEF SpawnOk
    <2>2. child' \in [Handlers -> Processes \cup {NoProcess}]
      BY <1>4 DEF SpawnOk
    <2>. QED  BY <1>4, <2>1, <2>2 DEF SpawnOk
  <1>5. CASE SpawnError(t)
    BY <1>5 DEF SpawnError, Goto
  <1>6. CASE ReopenGate(t)
    BY <1>6 DEF ReopenGate, NoProcess
  <1>7. CASE InsertSession(t)
    <2>1. NewRecord(child[t]) \in SessionRecord
      BY <1>7, NewRecordType DEF InsertSession
    <2>. QED  BY <1>7, <2>1, GrantTyped DEF InsertSession
  <1>8. CASE DropGate(t)
    BY <1>8, ReturnTyped DEF DropGate, Return
  <1>9. CASE ReplyAttachOk(t)
    BY <1>9, ReturnTyped DEF ReplyAttachOk, Return
  <1>10. CASE ReplyHandleMissing(t)
    BY <1>10, ReturnTyped DEF ReplyHandleMissing, Return
  <1>11. CASE ReplyStreamFailed(t)
    <2>1. CASE leases[lease[t]] # NoKey
      BY <1>11, <2>1, TakeLeaseTyped DEF ReplyStreamFailed
    <2>2. CASE leases[lease[t]] = NoKey
      BY <1>11, <2>2, ReturnTyped DEF ReplyStreamFailed, Return
    <2>. QED  BY <2>1, <2>2
  <1>12. CASE Decrement(t)
    <2>1. sessions' \in [Keys -> SessionRecord]
      BY <1>12, RecordUpdates DEF Decrement
    <2>. QED  BY <1>12, <2>1, ReturnTyped DEF Decrement, Return
  <1>13. CASE RouteCall(t)
    <2>1. sessions' \in [Keys -> SessionRecord]
      <3>1. key[t] \in Keys /\ Touch(sessions[key[t]]) \in SessionRecord
        BY <1>13, RecordUpdates DEF RouteCall
      <3>2. \/ sessions' = sessions
            \/ sessions' = [sessions EXCEPT ![key[t]] = Touch(sessions[key[t]])]
        BY <1>13 DEF RouteCall
      <3>. QED  BY <3>1, <3>2
    <2>2. sessions[key[t]].handle \in Processes \cup {NoProcess}
      BY <1>13 DEF RouteCall, SessionRecord
    <2>3. child' \in [Handlers -> Processes \cup {NoProcess}]
      BY <1>13, <2>2 DEF RouteCall, Return
    <2>. QED  BY <1>13, <2>1, <2>3 DEF RouteCall, Return
  <1>14. CASE TouchAfterCall(t)
    <2>1. sessions' \in [Keys -> SessionRecord]
      BY <1>14, RecordUpdates DEF TouchAfterCall
    <2>. QED  BY <1>14, <2>1, ReturnTyped DEF TouchAfterCall, Return
  <1>15. ASSUME NEW k \in Keys, Attach(t, k) PROVE Typed'
    BY <1>15, AttachTyped
  <1>16. ASSUME NEW l \in LeaseIds, Release(t, l) PROVE Typed'
    BY <1>16, TakeLeaseTyped DEF Release
  <1>17. ASSUME NEW l \in LeaseIds, Call(t, l) PROVE Typed'
    BY <1>17 DEF Call
  <1>18. CASE CallAnswered(t)
    BY <1>18 DEF CallAnswered, Goto
  <1>19. CASE CallFailed(t)
    BY <1>19, ReturnTyped DEF CallFailed, Return
  <1>. HIDE DEF Typed
  <1>. QED
    BY <1>1, <1>2, <1>3, <1>4, <1>5, <1>6, <1>7, <1>8, <1>9, <1>10, <1>11, <1>12, <1>13,
       <1>14, <1>15, <1>16, <1>17, <1>18, <1>19
    DEF AttachStep, RequestStep, ClientStep

\* A step of an eviction (evict_session, the eviction loop, shutdown_all_sessions) keeps the types.
LEMMA EvictorTyped ==
    ASSUME Typed, NEW e \in Evictors, EvictionStep(e)
    PROVE  Typed'
  <1> USE DEF Typed, TypeOK, LocalsOK, registryVars, handlerVars
  <1>1. CASE StartEviction(e)
    <2>. PICK c \in todo[e] :
            /\ victim' = [victim EXCEPT ![e] = c]
            /\ todo' = [todo EXCEPT ![e] = @ \ {c}]
            /\ sessions' = IF e = MemoryEvictor /\ HasSession(c.key)
                           THEN [sessions EXCEPT ![c.key].terminating = MemoryEvictor]
                           ELSE sessions
      BY <1>1 DEF StartEviction
    <2>1. c \in Victims /\ c.key \in Keys
      BY DEF Victims
    <2>2. MemoryEvictor \in Terminations
      BY DEF Terminations
    <2>3. sessions' \in [Keys -> SessionRecord]
      BY <2>1, <2>2, RecordUpdates
    <2>4. todo' \in [Evictors -> SUBSET Victims] /\ victim' \in [Evictors -> Victims \cup {NoVictim}]
      BY <2>1
    <2>. QED  BY <1>1, <2>1, <2>3, <2>4 DEF StartEviction
  <1>2. CASE StopVictim(e)
    BY <1>2 DEF StopVictim, Victims
  <1>3. CASE RemoveSession(e)
    <2>1. victim[e].key \in Keys
      BY <1>3 DEF RemoveSession, Victims
    <2>2. NoSession \in SessionRecord
      BY NewRecordType DEF NoSession
    <2>. QED  BY <1>3, <2>1, <2>2 DEF RemoveSession
  <1>4. CASE PurgeLeases(e)
    BY <1>4 DEF PurgeLeases
  <1>. QED  BY <1>1, <1>2, <1>3, <1>4 DEF EvictionStep

\* The clock and the scans that fill an evictor's list keep the types.
LEMMA ClockTyped ==
    ASSUME Typed, (\E k \in Keys : Expire(k)) \/ ScanIdle \/ ScanMemory \/ ScanAll
    PROVE  Typed'
  <1> USE DEF Typed, TypeOK, LocalsOK, registryVars, handlerVars, evictorVars
  <1>1. ASSUME NEW k \in Keys, Expire(k) PROVE Typed'
    <2>1. sessions' \in [Keys -> SessionRecord]
      BY <1>1, RecordUpdates DEF Expire
    <2>. QED  BY <1>1, <2>1 DEF Expire
  <1>2. ASSUME NEW k \in Keys, HasSession(k)
        PROVE  [key |-> k, handle |-> sessions[k].handle] \in Victims
    BY <1>2 DEF HasSession, SessionRecord, Victims
  <1>3. CASE ScanIdle
    <2>1. IdleEvictor \in Terminations
      BY DEF Terminations
    <2>2. sessions' \in [Keys -> SessionRecord]
      BY <1>3, <2>1, RecordUpdates DEF ScanIdle
    <2>3. todo' \in [Evictors -> SUBSET Victims]
      BY <1>2, <1>3 DEF ScanIdle, IdleCandidate
    <2>. QED  BY <1>3, <2>2, <2>3 DEF ScanIdle
  <1>4. CASE ScanMemory \/ ScanAll
    <2>1. todo' \in [Evictors -> SUBSET Victims]
      BY <1>2, <1>4 DEF ScanMemory, ScanAll
    <2>. QED  BY <1>4, <2>1 DEF ScanMemory, ScanAll
  <1>. QED  BY <1>1, <1>3, <1>4

\* Every step keeps the types.
LEMMA StepTyped == Typed /\ [Next]_vars => Typed'
  <1> SUFFICES ASSUME Typed, [Next]_vars PROVE Typed'
    OBVIOUS
  <1>1. CASE UNCHANGED vars
    BY <1>1 DEF Typed, TypeOK, LocalsOK, vars, registryVars, handlerVars, evictorVars
  <1>2. CASE Next
    BY <1>2, HandlerTyped, EvictorTyped, ClockTyped DEF Next
  <1>. QED  BY <1>1, <1>2

\* Type correctness of every behaviour.
THEOREM TypeCorrect == Spec => []TypeOK
  <1>1. Typed => TypeOK
    BY DEF Typed
  <1>. QED  BY <1>1, InitTyped, StepTyped, PTL DEF Spec

\* The inductive form of TypeCorrect: the types of the registry's tables and, for each handler and
\* evictor, what its pc says of its other locals.
THEOREM AlwaysTyped == Spec => []Typed
  BY InitTyped, StepTyped, PTL DEF Spec

--------------------------------------------------------------------------------
(* The spawn gates *)

\* The flag of a gate is up exactly while one handler spawns under it, and nobody waits at a
\* gate whose flag is down.
GateInv ==
    /\ \A g \in Gates : started[g] <=> \E u \in Handlers : Spawner(u) /\ gate[u] = g
    /\ OneSpawnerPerGate
    /\ \A t \in Handlers : pc[t] = "wait" => started[gate[t]]

\* A step that moves one handler between points outside the gate keeps the invariant.
LEMMA GateFrame ==
    ASSUME GateInv, NEW t \in Handlers,
           started' = started,
           \A u \in Handlers \ {t} : pc'[u] = pc[u] /\ gate'[u] = gate[u],
           ~Spawner(t), ~Spawner(t)', pc'[t] # "wait"
    PROVE  GateInv'
  <1>1. \A u \in Handlers : Spawner(u)' <=> Spawner(u)
    BY DEF Spawner
  <1>2. \A u \in Handlers : Spawner(u) => gate'[u] = gate[u]
    OBVIOUS
  <1>3. \A g \in Gates : started'[g] <=> \E u \in Handlers : Spawner(u)' /\ gate'[u] = g
    BY <1>1, <1>2 DEF GateInv
  <1>4. OneSpawnerPerGate'
    BY <1>1, <1>2 DEF GateInv, OneSpawnerPerGate
  <1>5. \A u \in Handlers : pc'[u] = "wait" => started'[gate'[u]]
    BY DEF GateInv
  <1>. QED  BY <1>3, <1>4, <1>5 DEF GateInv

\* A spawner that gets its result stays the spawner of its gate.
LEMMA GateSpawn ==
    ASSUME Typed, GateInv, NEW t \in Handlers, pc[t] = "spawn",
           pc' = [pc EXCEPT ![t] = "open"], gate' = gate, started' = started
    PROVE  GateInv'
  <1>1. \A u \in Handlers : Spawner(u)' <=> Spawner(u)
    BY DEF Spawner, Typed, TypeOK
  <1>2. \A u \in Handlers : pc'[u] = "wait" => pc[u] = "wait"
    BY DEF Typed, TypeOK
  <1>. QED  BY <1>1, <1>2 DEF GateInv, OneSpawnerPerGate

\* An attach takes the gate stored for its key, or one that nobody holds.
LEMMA GateAttach ==
    ASSUME Typed, GateInv, NEW t \in Handlers, NEW k \in Keys, Attach(t, k)
    PROVE  GateInv'
  <1> USE DEF Typed, TypeOK
  <1>1. /\ ~Spawner(t) /\ ~Spawner(t)' /\ pc'[t] # "wait"
        /\ \A u \in Handlers \ {t} : pc'[u] = pc[u] /\ gate'[u] = gate[u]
    BY DEF Attach, Spawner
  <1>2. CASE spawn_gates[k] # NoGate
    BY <1>1, <1>2, GateFrame DEF Attach
  <1>3. CASE spawn_gates[k] = NoGate
    <2> DEFINE g == CHOOSE h \in Gates : ~GateHeld(h)
    <2>1. g \in Gates /\ ~GateHeld(g) /\ started' = [started EXCEPT ![g] = FALSE]
      BY <1>3 DEF Attach
    <2>2. \A u \in Handlers : gate[u] # g
      BY <2>1 DEF GateHeld
    <2>3. ~started[g]
      BY <2>1, <2>2 DEF GateInv
    <2>4. started' = started
      BY <2>1, <2>3
    <2>. QED  BY <1>1, <2>4, GateFrame
  <1>. QED  BY <1>2, <1>3

\* EnterGate lets a handler past a gate only when its flag is clear.
LEMMA GateEnter ==
    ASSUME Typed, GateInv, NEW t \in Handlers, EnterGate(t)
    PROVE  GateInv'
  <1> USE DEF Typed, TypeOK, LocalsOK, EnterGate, Goto
  <1>1. /\ gate[t] \in Gates /\ gate' = gate /\ ~Spawner(t)
        /\ started' = [started EXCEPT ![gate[t]] = TRUE]
        /\ \A u \in Handlers \ {t} : pc'[u] = pc[u] /\ (Spawner(u)' <=> Spawner(u))
    BY DEF Spawner
  <1>2. CASE started[gate[t]]
    <2>1. pc'[t] = "wait" /\ ~Spawner(t)' /\ started' = started
      BY <1>1, <1>2 DEF Spawner
    <2>. QED  BY <1>1, <1>2, <2>1 DEF GateInv, OneSpawnerPerGate
  <1>3. CASE ~started[gate[t]]
    <2>1. pc'[t] = "spawn" /\ Spawner(t)'
      BY <1>1, <1>3 DEF Spawner
    <2>2. \A u \in Handlers : Spawner(u) => gate[u] # gate[t]
      BY <1>1, <1>3 DEF GateInv
    <2>3. \A g \in Gates : started'[g] <=> \E u \in Handlers : Spawner(u)' /\ gate'[u] = g
      BY <1>1, <2>1 DEF GateInv
    <2>4. OneSpawnerPerGate'
      BY <1>1, <2>1, <2>2 DEF GateInv, OneSpawnerPerGate
    <2>5. \A u \in Handlers : pc'[u] = "wait" => started'[gate'[u]]
      BY <1>1, <2>1 DEF GateInv
    <2>. QED  BY <2>3, <2>4, <2>5 DEF GateInv
  <1>. QED  BY <1>2, <1>3

\* ReopenGate wakes every handler parked on the gate.
LEMMA GateReopen ==
    ASSUME Typed, GateInv, NEW t \in Handlers, ReopenGate(t)
    PROVE  GateInv'
  <1> USE DEF Typed, TypeOK, LocalsOK, ReopenGate
  <1>1. /\ gate[t] \in Gates /\ gate' = gate /\ Spawner(t) /\ ~Spawner(t)'
        /\ started' = [started EXCEPT ![gate[t]] = FALSE]
    BY DEF Spawner
  <1>2. \A u \in Handlers \ {t} : Spawner(u)' <=> Spawner(u)
    BY DEF Spawner
  <1>3. \A u \in Handlers \ {t} : Spawner(u) => gate[u] # gate[t]
    BY <1>1 DEF GateInv, OneSpawnerPerGate
  <1>4. \A g \in Gates : started'[g] <=> \E u \in Handlers : Spawner(u)' /\ gate'[u] = g
    BY <1>1, <1>2, <1>3 DEF GateInv
  <1>5. OneSpawnerPerGate'
    BY <1>1, <1>2 DEF GateInv, OneSpawnerPerGate
  <1>6. \A u \in Handlers : pc'[u] = "wait" => pc[u] = "wait" /\ gate[u] # gate[t]
    BY <1>1
  <1>7. \A u \in Handlers : pc'[u] = "wait" => started'[gate'[u]]
    BY <1>1, <1>6 DEF GateInv
  <1>. QED  BY <1>4, <1>5, <1>7 DEF GateInv

\* Every step keeps the gates exclusive and their waiters served.
LEMMA StepGate == Typed /\ GateInv /\ [Next]_vars => GateInv'
  <1> SUFFICES ASSUME Typed, GateInv, [Next]_vars PROVE GateInv'
    OBVIOUS
  <1> USE DEF registryVars, handlerVars
  <1>1. CASE pc' = pc /\ gate' = gate /\ started' = started
    BY <1>1 DEF GateInv, OneSpawnerPerGate, Spawner
  <1>2. CASE UNCHANGED vars
    BY <1>1, <1>2 DEF vars
  <1>3. ASSUME NEW t \in Handlers, AttachStep(t) PROVE GateInv'
    <2>1. CASE EnterGate(t)
      BY <2>1, GateEnter
    <2>2. CASE SpawnOk(t)
      BY <2>2, GateSpawn DEF SpawnOk
    <2>3. CASE SpawnError(t)
      BY <2>3, GateSpawn DEF SpawnError, Goto
    <2>4. CASE ReopenGate(t)
      BY <2>4, GateReopen
    <2>5. CASE Reuse(t) \/ FindNoSession(t) \/ InsertSession(t) \/ DropGate(t) \/ ReplyAttachOk(t)
               \/ ReplyHandleMissing(t) \/ ReplyStreamFailed(t)
      <3>1. /\ started' = started /\ ~Spawner(t) /\ ~Spawner(t)' /\ pc'[t] # "wait"
            /\ \A u \in Handlers \ {t} : pc'[u] = pc[u] /\ gate'[u] = gate[u]
        BY <2>5 DEF Typed, TypeOK, Spawner, Reuse, Grant, FindNoSession, Goto, InsertSession,
                    DropGate, Return, ReplyAttachOk, ReplyHandleMissing, ReplyStreamFailed, TakeLease
      <3>. QED  BY <3>1, GateFrame
    <2>. QED  BY <1>3, <2>1, <2>2, <2>3, <2>4, <2>5 DEF AttachStep
  <1>4. ASSUME NEW t \in Handlers, NEW k \in Keys, Attach(t, k) PROVE GateInv'
    BY <1>4, GateAttach
  <1>5. ASSUME NEW t \in Handlers,
               \/ RequestStep(t) \/ CallAnswered(t) \/ CallFailed(t)
               \/ \E l \in LeaseIds : Release(t, l) \/ Call(t, l)
        PROVE  GateInv'
    <2>1. /\ started' = started /\ ~Spawner(t) /\ ~Spawner(t)' /\ pc'[t] # "wait"
          /\ \A u \in Handlers \ {t} : pc'[u] = pc[u] /\ gate'[u] = gate[u]
      BY <1>5 DEF Typed, TypeOK, Spawner, RequestStep, Decrement, RouteCall, TouchAfterCall, Return,
                  CallAnswered, CallFailed, Goto, Release, TakeLease, Call
    <2>. QED  BY <2>1, GateFrame
  <1>6. ASSUME NEW e \in Evictors, EvictionStep(e) PROVE GateInv'
    BY <1>1, <1>6 DEF EvictionStep, StartEviction, StopVictim, RemoveSession, PurgeLeases
  <1>7. CASE (\E k \in Keys : Expire(k)) \/ ScanIdle \/ ScanMemory \/ ScanAll
    BY <1>1, <1>7 DEF Expire, ScanIdle, ScanMemory, ScanAll
  <1>. QED  BY <1>2, <1>3, <1>4, <1>5, <1>6, <1>7 DEF Next, ClientStep

\* No handler is at a gate at the start.
LEMMA InitGate == Init => GateInv
  BY DEF Init, GateInv, OneSpawnerPerGate, Spawner

\* At most one handler at a time is past a given gate.
THEOREM GateExclusion == Spec => []OneSpawnerPerGate
  <1>1. GateInv => OneSpawnerPerGate
    BY DEF GateInv
  <1>. QED  BY <1>1, AlwaysTyped, InitGate, StepGate, PTL DEF Spec

\* An attach never waits at a gate nobody will reopen, even when the gate has been dropped from
\* the map by a failed spawn or by a removal meanwhile.
THEOREM NoLostWakeup == Spec => []WaiterHasSpawner
  <1>1. Typed /\ GateInv => WaiterHasSpawner
    BY DEF Typed, LocalsOK, GateInv, WaiterHasSpawner
  <1>. QED  BY <1>1, AlwaysTyped, InitGate, StepGate, PTL DEF Spec

\* Both together: the gates serialise the spawns of a key's attaches and lose no waiter.
THEOREM GatesAreSound == Spec => []GatesSound
  <1>1. OneSpawnerPerGate /\ WaiterHasSpawner => GatesSound
    BY DEF GatesSound
  <1>. QED  BY <1>1, GateExclusion, NoLostWakeup, PTL

--------------------------------------------------------------------------------
(* The lease table *)

\* Leases are handed out in order, and a handler about to answer an attach holds one that is
\* still on its key, unless it has been purged or released.
LeaseLocals ==
    /\ \A l \in LeaseIds : l >= lease_seq => leases[l] = NoKey
    /\ \A t \in Handlers : pc[t] = "reply" =>
          /\ lease[t] < lease_seq
          /\ leases[lease[t]] \in {NoKey, key[t]}

LeaseInv ==
    /\ LeaseLocals
    /\ DanglingLeaseIsPurged
    /\ LeaseReachesClient

\* A step that only removes leases, keeps every session, evictor and handler about to answer.
LEMMA LeaseFrame ==
    ASSUME Typed, LeaseInv,
           lease_seq' = lease_seq,
           \A l \in LeaseIds : leases'[l] \in {leases[l], NoKey},
           \A k \in Keys : HasSession(k) => HasSession(k)',
           \A e \in Evictors : epc[e] = "purge" => epc'[e] = "purge" /\ victim'[e] = victim[e],
           known \subseteq known',
           \A t \in Handlers : pc'[t] = "reply" =>
               pc[t] = "reply" /\ lease'[t] = lease[t] /\ key'[t] = key[t],
           \A t \in Handlers : pc[t] = "reply" /\ leases'[lease[t]] # NoKey =>
               \/ pc'[t] = "reply" /\ lease'[t] = lease[t]
               \/ lease[t] \in known'
               \/ Purging(key[t]) # {}
    PROVE  LeaseInv'
  <1> USE DEF Typed, TypeOK, LocalsOK
  <1>1. LeaseLocals'
    BY DEF LeaseInv, LeaseLocals
  <1>2. \A l \in LeaseIds : leases'[l] # NoKey => leases'[l] = leases[l] /\ leases[l] \in Keys
    OBVIOUS
  <1>3. DanglingLeaseIsPurged'
    BY <1>2 DEF LeaseInv, DanglingLeaseIsPurged, Purging
  <1>4. ASSUME NEW l \in LeaseIds, (leases[l] # NoKey)'
        PROVE  (\/ l \in known
                \/ \E t \in Handlers : pc[t] = "reply" /\ lease[t] = l
                \/ Purging(leases[l]) # {})'
    <2>1. CASE l \in known \/ Purging(leases[l]) # {}
      BY <1>2, <1>4, <2>1 DEF Purging
    <2>2. CASE \E t \in Handlers : pc[t] = "reply" /\ lease[t] = l
      <3>1. PICK t \in Handlers : pc[t] = "reply" /\ lease[t] = l
        BY <2>2
      <3>2. leases[l] = key[t]
        BY <1>2, <1>4, <3>1 DEF LeaseInv, LeaseLocals
      <3>. QED  BY <1>2, <1>4, <3>1, <3>2 DEF Purging
    <2>. QED  BY <1>2, <1>4, <2>1, <2>2 DEF LeaseInv, LeaseReachesClient
  <1>5. LeaseReachesClient'
    BY <1>4 DEF LeaseReachesClient
  <1>. QED  BY <1>1, <1>3, <1>5 DEF LeaseInv

\* A lease that acquire_or_spawn grants is on a session and in the hands of its handler.
LEMMA LeaseGrant ==
    ASSUME Typed, LeaseInv, NEW t \in Handlers, key[t] \in Keys,
           pc[t] # "reply", NEW r \in SessionRecord, r.handle # NoProcess, Grant(t, r)
    PROVE  LeaseInv'
  <1> USE DEF Typed, TypeOK, LocalsOK, Grant, evictorVars
  <1>1. /\ lease_seq \in LeaseIds /\ lease_seq \in Int /\ lease_seq' = lease_seq + 1
        /\ leases' = [leases EXCEPT ![lease_seq] = key[t]]
        /\ \A l \in LeaseIds : l \in Int
    BY DEF LeaseIds
  <1>2. /\ \A k \in Keys : HasSession(k) => HasSession(k)'
        /\ HasSession(key[t])'
    BY RecordUpdates DEF HasSession
  <1>3. \A k : Purging(k)' = Purging(k)
    BY DEF Purging
  <1>4. pc'[t] = "reply" /\ lease'[t] = lease_seq
    OBVIOUS
  <1>5. LeaseLocals'
    <2>1. \A l \in LeaseIds : l >= lease_seq' => leases'[l] = NoKey
      BY <1>1 DEF LeaseInv, LeaseLocals
    <2>2. leases'[lease'[t]] = key'[t] /\ lease'[t] < lease_seq'
      BY <1>1, <1>4
    <2>3. ASSUME NEW u \in Handlers, u # t, pc'[u] = "reply"
          PROVE  lease'[u] < lease_seq' /\ leases'[lease'[u]] \in {NoKey, key'[u]}
      <3>1. pc[u] = "reply" /\ lease'[u] = lease[u] /\ key'[u] = key[u]
        BY <2>3
      <3>2. lease[u] \in LeaseIds /\ lease[u] < lease_seq /\ leases[lease[u]] \in {NoKey, key[u]}
        BY <3>1 DEF LeaseInv, LeaseLocals
      <3>3. leases'[lease[u]] = leases[lease[u]]
        BY <1>1, <3>2
      <3>4. lease[u] \in Int /\ lease_seq \in Int
        BY <1>1, <3>2
      <3>5. \A a, b \in Int : a < b => a < b + 1
        OBVIOUS
      <3>6. lease[u] < lease_seq + 1
        BY <3>2, <3>4, <3>5
      <3>. QED  BY <1>1, <3>1, <3>2, <3>3, <3>6
    <2>. QED  BY <2>1, <2>2, <2>3 DEF LeaseLocals
  <1>6. DanglingLeaseIsPurged'
    BY <1>1, <1>2, <1>3 DEF LeaseInv, DanglingLeaseIsPurged
  <1>7. LeaseReachesClient'
    BY <1>1, <1>3, <1>4 DEF LeaseInv, LeaseReachesClient
  <1>. QED  BY <1>5, <1>6, <1>7 DEF LeaseInv

\* Removal: the dangling leases are now the removing evictor's to purge.
LEMMA LeaseRemove ==
    ASSUME Typed, LeaseInv, NEW e \in Evictors, RemoveSession(e)
    PROVE  LeaseInv'
  <1> USE DEF Typed, TypeOK, LocalsOK, RemoveSession, registryVars, handlerVars
  <1>1. /\ e \in Purging(victim[e].key)'
        /\ \A k : Purging(k) \subseteq Purging(k)'
    BY DEF Purging
  <1>2. \A k \in Keys : k # victim[e].key => HasSession(k)' = HasSession(k)
    BY DEF HasSession
  <1>3. LeaseLocals'
    BY DEF LeaseInv, LeaseLocals
  <1>4. DanglingLeaseIsPurged'
    BY <1>1, <1>2 DEF LeaseInv, DanglingLeaseIsPurged
  <1>5. LeaseReachesClient'
    BY <1>1 DEF LeaseInv, LeaseReachesClient
  <1>. QED  BY <1>3, <1>4, <1>5 DEF LeaseInv

\* The second half of remove leaves no lease on its key.
LEMMA LeasePurge ==
    ASSUME Typed, LeaseInv, NEW e \in Evictors, PurgeLeases(e)
    PROVE  LeaseInv'
  <1> USE DEF Typed, TypeOK, LocalsOK, PurgeLeases, registryVars, handlerVars
  <1>1. \A k : k # victim[e].key => Purging(k) \subseteq Purging(k)'
    BY DEF Purging
  <1>2. \A l \in LeaseIds : leases'[l] # NoKey => leases'[l] = leases[l] /\ leases[l] # victim[e].key
    OBVIOUS
  <1>3. LeaseLocals'
    BY <1>2 DEF LeaseInv, LeaseLocals
  <1>4. DanglingLeaseIsPurged'
    BY <1>1, <1>2 DEF LeaseInv, DanglingLeaseIsPurged, HasSession
  <1>5. LeaseReachesClient'
    BY <1>1, <1>2 DEF LeaseInv, LeaseReachesClient
  <1>. QED  BY <1>3, <1>4, <1>5 DEF LeaseInv

\* A release takes its lease away from the table, and from the handler that was to answer with it.
LEMMA LeaseTake ==
    ASSUME Typed, LeaseInv, NEW t \in Handlers, NEW l \in LeaseIds, leases[l] # NoKey,
           pc[t] = "reply" => lease[t] = l, TakeLease(t, l)
    PROVE  LeaseInv'
  <1>. QED  BY LeaseFrame DEF TakeLease, Typed, TypeOK, HasSession, evictorVars

\* A handler that returns without answering an attach.
LEMMA LeaseReturn ==
    ASSUME Typed, LeaseInv, NEW t \in Handlers, pc[t] # "reply", Return(t),
           UNCHANGED <<leases, lease_seq, evictorVars, known>>,
           \A k \in Keys : HasSession(k) => HasSession(k)'
    PROVE  LeaseInv'
  <1>. QED  BY LeaseFrame DEF Return, Typed, TypeOK, evictorVars

\* A step that moves nobody to or from the point of answering an attach.
LEMMA LeaseElsewhere ==
    ASSUME Typed, LeaseInv,
           UNCHANGED <<leases, lease_seq, known, key, lease>>,
           \A t \in Handlers : pc'[t] = "reply" <=> pc[t] = "reply",
           \A e \in Evictors : epc[e] = "purge" => epc'[e] = "purge" /\ victim'[e] = victim[e],
           \A k \in Keys : HasSession(k) => HasSession(k)'
    PROVE  LeaseInv'
  <1>. QED  BY LeaseFrame DEF Typed, TypeOK

\* Every step keeps the lease invariant.
LEMMA StepLease == Typed /\ LeaseInv /\ [Next]_vars => LeaseInv'
  <1> SUFFICES ASSUME Typed, LeaseInv, [Next]_vars PROVE LeaseInv'
    OBVIOUS
  <1> USE DEF registryVars, handlerVars, evictorVars
  <1>1. ASSUME NEW k, sessions' = sessions PROVE HasSession(k)' = HasSession(k)
    BY <1>1 DEF HasSession
  <1>2. ASSUME NEW t \in Handlers, NEW k \in Keys, pc[t] # "reply",
               \/ sessions' = sessions
               \/ sessions' = [sessions EXCEPT ![key[t]] = Touch(sessions[key[t]])]
               \/ sessions' = [sessions EXCEPT ![key[t]] = Drop(sessions[key[t]])]
        PROVE  HasSession(k)' = HasSession(k)
    <2>1. sessions[k] \in SessionRecord /\ sessions \in [Keys -> SessionRecord]
      BY DEF Typed, TypeOK
    <2>2. CASE k # key[t]
      BY <1>2, <2>1, <2>2 DEF HasSession
    <2>3. CASE k = key[t]
      BY <1>2, <2>1, <2>3, RecordUpdates DEF HasSession
    <2>. QED  BY <2>2, <2>3
  <1>3. CASE UNCHANGED vars
    BY <1>1, <1>3, LeaseElsewhere DEF vars
  <1>4. ASSUME NEW t \in Handlers, AttachStep(t) PROVE LeaseInv'
    <2>1. CASE Reuse(t)
      BY <2>1, LeaseGrant DEF Reuse, HasSession, Typed, TypeOK, LocalsOK
    <2>2. CASE InsertSession(t)
      <3> DEFINE r == IF HasSession(key[t]) THEN sessions[key[t]] ELSE NewRecord(child[t])
      <3>1. key[t] \in Keys /\ child[t] \in Processes /\ pc[t] # "reply"
        BY <2>2 DEF InsertSession, Typed, LocalsOK
      <3>2. r \in SessionRecord /\ r.handle # NoProcess
        BY <3>1, NewRecordType DEF HasSession, Typed, TypeOK, Processes, NoProcess
      <3>. QED  BY <2>2, <3>1, <3>2, LeaseGrant DEF InsertSession
    <2>3. CASE FindNoSession(t) \/ EnterGate(t) \/ SpawnOk(t) \/ SpawnError(t) \/ ReopenGate(t)
      <3>1. \A u \in Handlers : pc'[u] = "reply" <=> pc[u] = "reply"
        BY <2>3 DEF FindNoSession, EnterGate, Goto, SpawnOk, SpawnError, ReopenGate, Typed, TypeOK
      <3>2. UNCHANGED <<sessions, leases, lease_seq, known, key, lease, epc, victim>>
        BY <2>3 DEF FindNoSession, EnterGate, Goto, SpawnOk, SpawnError, ReopenGate
      <3>. QED  BY <1>1, <3>1, <3>2, LeaseElsewhere
    <2>4. CASE DropGate(t)
      BY <1>1, <2>4, LeaseReturn DEF DropGate
    <2>5. CASE ReplyAttachOk(t)
      BY <1>1, <2>5, LeaseFrame DEF ReplyAttachOk, Return, Typed, TypeOK
    <2>6. CASE ReplyHandleMissing(t)
      <3>1. lease[t] \in LeaseIds /\ leases[lease[t]] \in {NoKey, key[t]}
        BY <2>6 DEF ReplyHandleMissing, Typed, LocalsOK, LeaseInv, LeaseLocals
      <3>2. leases[lease[t]] # NoKey => Purging(key[t]) # {}
        BY <2>6, <3>1 DEF ReplyHandleMissing, LeaseInv, DanglingLeaseIsPurged
      <3>3. \A u \in Handlers \ {t} : pc'[u] = pc[u] /\ lease'[u] = lease[u] /\ key'[u] = key[u]
        BY <2>6 DEF ReplyHandleMissing, Return, Typed, TypeOK
      <3>4. pc'[t] = "idle" /\ UNCHANGED <<sessions, leases, lease_seq, known, epc, victim>>
        BY <2>6 DEF ReplyHandleMissing, Return, Typed, TypeOK
      <3>. QED  BY <1>1, <3>2, <3>3, <3>4, LeaseFrame DEF Typed, TypeOK
    <2>7. CASE ReplyStreamFailed(t)
      <3>1. lease[t] \in LeaseIds /\ pc[t] = "reply"
        BY <2>7 DEF ReplyStreamFailed, Typed, LocalsOK
      <3>2. CASE leases[lease[t]] # NoKey
        BY <2>7, <3>1, <3>2, LeaseTake DEF ReplyStreamFailed
      <3>3. CASE leases[lease[t]] = NoKey
        BY <1>1, <2>7, <3>1, <3>3, LeaseFrame DEF ReplyStreamFailed, Return, Typed, TypeOK
      <3>. QED  BY <3>2, <3>3
    <2>. QED  BY <1>4, <2>1, <2>2, <2>3, <2>4, <2>5, <2>6, <2>7 DEF AttachStep
  <1>5. ASSUME NEW t \in Handlers, RequestStep(t) PROVE LeaseInv'
    <2>1. CASE Decrement(t)
      BY <1>2, <2>1, LeaseReturn DEF Decrement
    <2>2. CASE RouteCall(t)
      <3>1. /\ \A u \in Handlers : pc'[u] = "reply" =>
                  pc[u] = "reply" /\ lease'[u] = lease[u] /\ key'[u] = key[u]
            /\ \A u \in Handlers : pc[u] = "reply" => pc'[u] = "reply" /\ lease'[u] = lease[u]
            /\ UNCHANGED <<leases, lease_seq, known, epc, victim>>
        BY <2>2 DEF RouteCall, Return, Typed, TypeOK
      <3>2. \A k \in Keys : HasSession(k)' = HasSession(k)
        BY <1>2, <2>2 DEF RouteCall
      <3>. QED  BY <3>1, <3>2, LeaseFrame DEF Typed, TypeOK
    <2>3. CASE TouchAfterCall(t)
      BY <1>2, <2>3, LeaseReturn DEF TouchAfterCall
    <2>. QED  BY <1>5, <2>1, <2>2, <2>3 DEF RequestStep
  <1>6. ASSUME NEW t \in Handlers, ClientStep(t) PROVE LeaseInv'
    <2>1. ASSUME NEW k \in Keys, Attach(t, k) PROVE LeaseInv'
      <3>1. /\ \A u \in Handlers : pc'[u] = "reply" =>
                  pc[u] = "reply" /\ lease'[u] = lease[u] /\ key'[u] = key[u]
            /\ \A u \in Handlers : pc[u] = "reply" => pc'[u] = "reply" /\ lease'[u] = lease[u]
            /\ UNCHANGED <<sessions, leases, lease_seq, known, epc, victim>>
        BY <2>1 DEF Attach, Typed, TypeOK
      <3>. QED  BY <1>1, <3>1, LeaseFrame DEF Typed, TypeOK
    <2>2. ASSUME NEW l \in LeaseIds, Release(t, l) PROVE LeaseInv'
      BY <2>2, LeaseTake DEF Release
    <2>3. ASSUME NEW l \in LeaseIds, Call(t, l) PROVE LeaseInv'
      <3>1. /\ \A u \in Handlers : pc'[u] = "reply" =>
                  pc[u] = "reply" /\ lease'[u] = lease[u] /\ key'[u] = key[u]
            /\ \A u \in Handlers : pc[u] = "reply" => pc'[u] = "reply" /\ lease'[u] = lease[u]
            /\ UNCHANGED <<sessions, leases, lease_seq, known, epc, victim>>
        BY <2>3 DEF Call, Typed, TypeOK
      <3>. QED  BY <1>1, <3>1, LeaseFrame DEF Typed, TypeOK
    <2>4. CASE CallAnswered(t)
      BY <1>1, <2>4, LeaseElsewhere DEF CallAnswered, Goto, Typed, TypeOK
    <2>5. CASE CallFailed(t)
      BY <1>1, <2>5, LeaseReturn DEF CallFailed
    <2>. QED  BY <1>6, <2>1, <2>2, <2>3, <2>4, <2>5 DEF ClientStep
  <1>7. ASSUME NEW e \in Evictors, EvictionStep(e) PROVE LeaseInv'
    <2>1. CASE StartEviction(e)
      <3>1. \A k \in Keys : HasSession(k)' = HasSession(k)
        BY <2>1, RecordUpdates DEF StartEviction, HasSession, Typed, TypeOK, Terminations, Victims
      <3>2. /\ UNCHANGED <<leases, lease_seq, known, key, lease, pc>>
            /\ \A f \in Evictors : epc[f] = "purge" => epc'[f] = "purge" /\ victim'[f] = victim[f]
        BY <2>1 DEF StartEviction, Typed, TypeOK
      <3>. QED  BY <3>1, <3>2, LeaseElsewhere
    <2>2. CASE StopVictim(e)
      BY <1>1, <2>2, LeaseElsewhere DEF StopVictim, Typed, TypeOK
    <2>3. CASE RemoveSession(e)
      BY <2>3, LeaseRemove
    <2>4. CASE PurgeLeases(e)
      BY <2>4, LeasePurge
    <2>. QED  BY <1>7, <2>1, <2>2, <2>3, <2>4 DEF EvictionStep
  <1>8. ASSUME (\E k \in Keys : Expire(k)) \/ ScanIdle \/ ScanMemory \/ ScanAll PROVE LeaseInv'
    <2>1. \A k \in Keys : HasSession(k)' = HasSession(k)
      <3>1. sessions \in [Keys -> SessionRecord] /\ IdleEvictor \in Terminations
        BY DEF Typed, TypeOK, Terminations
      <3>2. ASSUME NEW k \in Keys, Expire(k)
            PROVE  \A j \in Keys : HasSession(j)' = HasSession(j)
        BY <3>1, <3>2, RecordUpdates DEF Expire, HasSession
      <3>3. CASE ScanIdle
        BY <3>1, <3>3, RecordUpdates DEF ScanIdle, HasSession
      <3>4. CASE ScanMemory \/ ScanAll
        BY <3>4, <1>1 DEF ScanMemory, ScanAll
      <3>. QED  BY <1>8, <3>2, <3>3, <3>4
    <2>2. /\ UNCHANGED <<leases, lease_seq, known, key, lease, pc, victim>>
          /\ \A f \in Evictors : epc[f] = "purge" => epc'[f] = "purge"
      BY <1>8 DEF Expire, ScanIdle, ScanMemory, ScanAll, Typed, TypeOK
    <2>. QED  BY <2>1, <2>2, LeaseElsewhere
  <1>. QED  BY <1>3, <1>4, <1>5, <1>6, <1>7, <1>8 DEF Next

\* There is no lease at the start.
LEMMA InitLease == Init => LeaseInv
  BY DEF Init, LeaseInv, LeaseLocals, DanglingLeaseIsPurged, LeaseReachesClient, LeaseIds

\* A lease found without its session is about to be purged.
THEOREM NoDanglingLease == Spec => []DanglingLeaseIsPurged
  <1>1. LeaseInv => DanglingLeaseIsPurged
    BY DEF LeaseInv
  <1>. QED  BY <1>1, AlwaysTyped, InitLease, StepLease, PTL DEF Spec

\* dispatch_attach loses no lease, on any of its four ways out.
THEOREM NoLeaseLost == Spec => []LeaseReachesClient
  <1>1. LeaseInv => LeaseReachesClient
    BY DEF LeaseInv
  <1>. QED  BY <1>1, AlwaysTyped, InitLease, StepLease, PTL DEF Spec

--------------------------------------------------------------------------------
(* Reference counts *)

\* The claim of RefCountExact for one key, strengthened: a session that exists although its key is
\* being purged was inserted meanwhile, and the key is marked.
KeyCount(k) ==
    k \notin overlapped =>
        IF HasSession(k)
        THEN /\ sessions[k].ref_count = Cardinality(LeasesOn(k)) + Cardinality(Releasing(k))
             /\ Purging(k) = {}
        ELSE Releasing(k) = {}

CountInv == \A k \in Keys : KeyCount(k)

\* What is counted is finite.
LEMMA FiniteCounts ==
    ASSUME NEW k
    PROVE  /\ IsFiniteSet(LeasesOn(k)) /\ Cardinality(LeasesOn(k)) \in Nat
           /\ IsFiniteSet(Releasing(k)) /\ Cardinality(Releasing(k)) \in Nat
  <1>1. IsFiniteSet(LeaseIds)
    BY FS_Interval DEF LeaseIds
  <1>2. LeasesOn(k) \in SUBSET LeaseIds /\ Releasing(k) \in SUBSET Handlers
    BY DEF LeasesOn, Releasing
  <1>. QED  BY <1>1, <1>2, HandlersAssumption, FS_Subset, FS_CardinalityType

\* A step that changes neither the count of a key nor what is counted.
LEMMA CountFrame ==
    ASSUME NEW k \in Keys, KeyCount(k),
           overlapped \subseteq overlapped',
           LeasesOn(k)' = LeasesOn(k), Releasing(k)' = Releasing(k),
           Purging(k)' \subseteq Purging(k),
           HasSession(k)' = HasSession(k),
           HasSession(k) => sessions'[k].ref_count = sessions[k].ref_count
    PROVE  KeyCount(k)'
  BY DEF KeyCount

\* A grant adds one lease and one reference to its key.
LEMMA CountGrant ==
    ASSUME Typed, LeaseInv, CountInv, NEW t \in Handlers, key[t] \in Keys,
           pc[t] # "decrement", NEW r \in SessionRecord, r.handle # NoProcess, Grant(t, r),
           IF HasSession(key[t]) THEN r = sessions[key[t]] ELSE r.ref_count = 0
    PROVE  CountInv'
  <1>1. /\ sessions \in [Keys -> SessionRecord] /\ leases \in [LeaseIds -> Keys \cup {NoKey}]
        /\ pc' = [pc EXCEPT ![t] = "reply"] /\ key' = key
        /\ sessions' = [sessions EXCEPT ![key[t]] = Admit(r)]
        /\ lease_seq \in LeaseIds /\ leases' = [leases EXCEPT ![lease_seq] = key[t]]
        /\ epc' = epc /\ victim' = victim
        /\ overlapped' = IF Purging(key[t]) # {} THEN overlapped \cup {key[t]} ELSE overlapped
        /\ pc \in [Handlers -> {"idle", "decrement", "route", "call", "touch"} \cup AttachPcs]
    BY DEF Typed, TypeOK, Grant, evictorVars
  <1>2. leases[lease_seq] = NoKey
    BY <1>1 DEF LeaseInv, LeaseLocals, LeaseIds
  <1>3. \A k : Releasing(k)' = Releasing(k)
    BY <1>1 DEF Releasing
  <1>4. \A k : Purging(k)' = Purging(k)
    BY <1>1 DEF Purging
  <1>5. ASSUME NEW k \in Keys, k # key[t] PROVE KeyCount(k)'
    <2>1. LeasesOn(k)' = LeasesOn(k)
      BY <1>1, <1>2, <1>5 DEF LeasesOn
    <2>2. sessions'[k] = sessions[k] /\ HasSession(k)' = HasSession(k)
      BY <1>1, <1>5 DEF HasSession
    <2>3. KeyCount(k) /\ overlapped \subseteq overlapped'
      BY <1>1 DEF CountInv
    <2>. QED  BY <1>3, <1>4, <2>1, <2>2, <2>3, CountFrame
  <1>6. ASSUME NEW k \in Keys, k = key[t] PROVE KeyCount(k)'
    <2> SUFFICES ASSUME k \notin overlapped'
                 PROVE  /\ HasSession(k)'
                        /\ sessions'[k].ref_count = Cardinality(LeasesOn(k)') + Cardinality(Releasing(k)')
                        /\ Purging(k)' = {}
      BY DEF KeyCount
    <2>1. k \notin overlapped /\ Purging(k) = {}
      BY <1>1, <1>6
    <2>2. HasSession(k)' /\ sessions'[k].ref_count = r.ref_count + 1
      BY <1>1, <1>6, RecordUpdates DEF HasSession
    <2>3. LeasesOn(k)' = LeasesOn(k) \cup {lease_seq} /\ lease_seq \notin LeasesOn(k)
      BY <1>1, <1>2, <1>6 DEF LeasesOn
    <2>4. Cardinality(LeasesOn(k)') = Cardinality(LeasesOn(k)) + 1
      BY <2>3, FiniteCounts, FS_AddElement
    <2>5. Releasing(k)' = Releasing(k) /\ Purging(k)' = Purging(k)
      BY <1>1 DEF Releasing, Purging
    <2>6. r.ref_count = Cardinality(LeasesOn(k)) + Cardinality(Releasing(k))
      <3>1. CASE HasSession(k)
        BY <2>1, <3>1, <1>6 DEF CountInv, KeyCount
      <3>2. CASE ~HasSession(k)
        <4>1. Releasing(k) = {}
          BY <2>1, <3>2 DEF CountInv, KeyCount
        <4>2. LeasesOn(k) = {}
          BY <2>1, <3>2 DEF LeaseInv, DanglingLeaseIsPurged, LeasesOn
        <4>. QED  BY <1>6, <3>2, <4>1, <4>2, FS_EmptySet
      <3>. QED  BY <3>1, <3>2
    <2>7. r.ref_count \in Nat
      BY DEF SessionRecord
    <2>. QED  BY <2>1, <2>2, <2>4, <2>5, <2>6, <2>7, FiniteCounts
  <1>. QED  BY <1>5, <1>6 DEF CountInv

\* The first half of a release turns a lease into a release on its way.
LEMMA CountTake ==
    ASSUME Typed, LeaseInv, CountInv, NEW t \in Handlers, pc[t] # "decrement",
           NEW l \in LeaseIds, leases[l] # NoKey, TakeLease(t, l)
    PROVE  CountInv'
  <1>1. /\ leases \in [LeaseIds -> Keys \cup {NoKey}] /\ key \in [Handlers -> Keys \cup {NoKey}]
        /\ pc \in [Handlers -> {"idle", "decrement", "route", "call", "touch"} \cup AttachPcs]
        /\ pc' = [pc EXCEPT ![t] = "decrement"] /\ key' = [key EXCEPT ![t] = leases[l]]
        /\ leases' = [leases EXCEPT ![l] = NoKey]
        /\ sessions' = sessions /\ epc' = epc /\ victim' = victim
        /\ overlapped' = IF Purging(leases[l]) # {} THEN overlapped \cup {leases[l]} ELSE overlapped
    BY DEF Typed, TypeOK, TakeLease, evictorVars
  <1>2. \A k : Purging(k)' = Purging(k) /\ HasSession(k)' = HasSession(k)
    BY <1>1 DEF Purging, HasSession
  <1>3. ASSUME NEW k \in Keys, k # leases[l] PROVE KeyCount(k)'
    <2>1. LeasesOn(k)' = LeasesOn(k) /\ Releasing(k)' = Releasing(k)
      BY <1>1, <1>3 DEF LeasesOn, Releasing
    <2>2. KeyCount(k) /\ overlapped \subseteq overlapped'
      BY <1>1 DEF CountInv
    <2>. QED  BY <1>1, <1>2, <2>1, <2>2, CountFrame
  <1>4. ASSUME NEW k \in Keys, k = leases[l] PROVE KeyCount(k)'
    <2> SUFFICES ASSUME k \notin overlapped'
                 PROVE  /\ HasSession(k)'
                        /\ sessions'[k].ref_count = Cardinality(LeasesOn(k)') + Cardinality(Releasing(k)')
                        /\ Purging(k)' = {}
      BY DEF KeyCount
    <2>1. k \notin overlapped /\ Purging(k) = {}
      BY <1>1, <1>4
    <2>2. HasSession(k)
      BY <1>4, <2>1 DEF LeaseInv, DanglingLeaseIsPurged
    <2>3. sessions[k].ref_count = Cardinality(LeasesOn(k)) + Cardinality(Releasing(k))
      BY <2>1, <2>2 DEF CountInv, KeyCount
    <2>4. LeasesOn(k)' = LeasesOn(k) \ {l} /\ l \in LeasesOn(k)
      BY <1>1, <1>4 DEF LeasesOn
    <2>5. Releasing(k)' = Releasing(k) \cup {t} /\ t \notin Releasing(k)
      BY <1>1, <1>4 DEF Releasing
    <2>6. Cardinality(LeasesOn(k)') = Cardinality(LeasesOn(k)) - 1
      BY <2>4, FiniteCounts, FS_RemoveElement
    <2>7. Cardinality(Releasing(k)') = Cardinality(Releasing(k)) + 1
      BY <2>5, FiniteCounts, FS_AddElement
    <2>. QED  BY <1>1, <1>2, <2>1, <2>2, <2>3, <2>6, <2>7, FiniteCounts
  <1>. QED  BY <1>3, <1>4 DEF CountInv

\* The second half of a release gives up the reference its lease stood for.
LEMMA CountDecrement ==
    ASSUME Typed, LeaseInv, CountInv, NEW t \in Handlers, Decrement(t)
    PROVE  CountInv'
  <1>1. /\ sessions \in [Keys -> SessionRecord] /\ key \in [Handlers -> Keys \cup {NoKey}]
        /\ pc \in [Handlers -> {"idle", "decrement", "route", "call", "touch"} \cup AttachPcs]
        /\ pc[t] = "decrement" /\ key[t] \in Keys
        /\ pc' = [pc EXCEPT ![t] = "idle"] /\ key' = [key EXCEPT ![t] = NoKey]
        /\ sessions' = IF HasSession(key[t])
                       THEN [sessions EXCEPT ![key[t]] = Drop(sessions[key[t]])] ELSE sessions
        /\ leases' = leases /\ epc' = epc /\ victim' = victim /\ overlapped' = overlapped
    BY DEF Typed, TypeOK, LocalsOK, Decrement, Return, evictorVars
  <1>2. \A k : Purging(k)' = Purging(k) /\ LeasesOn(k)' = LeasesOn(k)
    BY <1>1 DEF Purging, LeasesOn
  <1>3. ASSUME NEW k \in Keys, k # key[t] PROVE KeyCount(k)'
    <2>1. Releasing(k)' = Releasing(k)
      BY <1>1, <1>3 DEF Releasing
    <2>2. sessions'[k] = sessions[k] /\ HasSession(k)' = HasSession(k)
      BY <1>1, <1>3 DEF HasSession
    <2>. QED  BY <1>1, <1>2, <2>1, <2>2, CountFrame DEF CountInv
  <1>4. ASSUME NEW k \in Keys, k = key[t] PROVE KeyCount(k)'
    <2> SUFFICES ASSUME k \notin overlapped
                 PROVE  /\ HasSession(k)'
                        /\ sessions'[k].ref_count = Cardinality(LeasesOn(k)') + Cardinality(Releasing(k)')
                        /\ Purging(k)' = {}
      BY <1>1 DEF KeyCount
    <2>1. Releasing(k)' = Releasing(k) \ {t} /\ t \in Releasing(k)
      BY <1>1, <1>4, NullsAssumption DEF Releasing
    <2>2. /\ HasSession(k) /\ Purging(k) = {}
          /\ sessions[k].ref_count = Cardinality(LeasesOn(k)) + Cardinality(Releasing(k))
      BY <2>1 DEF CountInv, KeyCount
    <2>3. Cardinality(Releasing(k)') = Cardinality(Releasing(k)) - 1
      BY <2>1, FiniteCounts, FS_RemoveElement
    <2>4. Cardinality(Releasing(k)) > 0
      BY <2>1, FiniteCounts, FS_EmptySet
    <2>5. sessions[k] \in SessionRecord /\ sessions'[k] = Drop(sessions[k])
      BY <1>1, <1>4, <2>2
    <2>6. HasSession(k)' /\ sessions'[k].ref_count = sessions[k].ref_count - 1
      <3>1. HasSession(k)'
        BY <2>2, <2>5, RecordUpdates DEF HasSession
      <3>2. sessions[k].ref_count > 0
        BY <2>2, <2>4, FiniteCounts
      <3>3. Drop(sessions[k]).ref_count = sessions[k].ref_count - 1
        BY <2>5, <3>2, RecordUpdates
      <3>. QED  BY <2>5, <3>1, <3>3
    <2>. QED  BY <1>2, <2>2, <2>3, <2>6, FiniteCounts
  <1>. QED  BY <1>3, <1>4 DEF CountInv

\* A removal with no release on its way leaves no count behind.
LEMMA CountRemove ==
    ASSUME Typed, CountInv, NEW e \in Evictors, RemoveSession(e)
    PROVE  CountInv'
  <1>1. /\ sessions \in [Keys -> SessionRecord] /\ victim[e].key \in Keys
        /\ sessions' = [sessions EXCEPT ![victim[e].key] = NoSession]
        /\ epc' = [epc EXCEPT ![e] = "purge"] /\ victim' = victim
        /\ epc \in [Evictors -> {"tick", "next", "stop", "remove", "purge"}]
        /\ leases' = leases /\ pc' = pc /\ key' = key
        /\ overlapped' = IF Releasing(victim[e].key) # {} THEN overlapped \cup {victim[e].key}
                         ELSE overlapped
    BY DEF Typed, TypeOK, LocalsOK, RemoveSession, handlerVars, Victims
  <1>2. \A k : LeasesOn(k)' = LeasesOn(k) /\ Releasing(k)' = Releasing(k)
    BY <1>1 DEF LeasesOn, Releasing
  <1>3. ASSUME NEW k \in Keys, k # victim[e].key PROVE KeyCount(k)'
    <2>1. sessions'[k] = sessions[k] /\ HasSession(k)' = HasSession(k)
      BY <1>1, <1>3 DEF HasSession
    <2>2. Purging(k)' = Purging(k)
      BY <1>1, <1>3 DEF Purging
    <2>3. KeyCount(k) /\ overlapped \subseteq overlapped'
      BY <1>1 DEF CountInv
    <2>. QED  BY <1>2, <2>1, <2>2, <2>3, CountFrame
  <1>4. ASSUME NEW k \in Keys, k = victim[e].key PROVE KeyCount(k)'
    <2>1. ~HasSession(k)'
      BY <1>1, <1>4, NewRecordType DEF HasSession, NoSession
    <2>. QED  BY <1>1, <1>2, <1>4, <2>1 DEF KeyCount
  <1>. QED  BY <1>3, <1>4 DEF CountInv

\* The second half of remove takes leases of a key that has no session, or is overlapped.
LEMMA CountPurge ==
    ASSUME Typed, CountInv, NEW e \in Evictors, PurgeLeases(e)
    PROVE  CountInv'
  <1>1. /\ leases \in [LeaseIds -> Keys \cup {NoKey}] /\ victim[e].key \in Keys
        /\ leases' = [l \in LeaseIds |-> IF leases[l] = victim[e].key THEN NoKey ELSE leases[l]]
        /\ epc[e] = "purge"
        /\ epc' = [epc EXCEPT ![e] = IF todo[e] = {} THEN "tick" ELSE "next"]
        /\ victim' = [victim EXCEPT ![e] = NoVictim]
        /\ epc \in [Evictors -> {"tick", "next", "stop", "remove", "purge"}]
        /\ victim \in [Evictors -> Victims \cup {NoVictim}]
        /\ sessions' = sessions /\ pc' = pc /\ key' = key /\ overlapped' = overlapped
    BY DEF Typed, TypeOK, LocalsOK, PurgeLeases, handlerVars, Victims
  <1>2. \A k : /\ Releasing(k)' = Releasing(k) /\ HasSession(k)' = HasSession(k)
               /\ Purging(k)' \subseteq Purging(k)
    BY <1>1 DEF Releasing, HasSession, Purging
  <1>3. ASSUME NEW k \in Keys, k # victim[e].key PROVE KeyCount(k)'
    <2>1. LeasesOn(k)' = LeasesOn(k)
      BY <1>1, <1>3, NullsAssumption DEF LeasesOn
    <2>. QED  BY <1>1, <1>2, <2>1, CountFrame DEF CountInv
  <1>4. ASSUME NEW k \in Keys, k = victim[e].key PROVE KeyCount(k)'
    <2>1. Purging(k) # {}
      BY <1>1, <1>4 DEF Purging
    <2>2. k \in overlapped \/ (~HasSession(k) /\ Releasing(k) = {})
      BY <2>1 DEF CountInv, KeyCount
    <2>. QED  BY <1>1, <1>2, <2>2 DEF KeyCount
  <1>. QED  BY <1>3, <1>4 DEF CountInv

\* A step that takes no lease, gives none, removes nothing.
LEMMA CountElsewhere ==
    ASSUME CountInv, UNCHANGED <<leases, overlapped>>,
           \A k \in Keys : /\ Releasing(k)' = Releasing(k)
                           /\ Purging(k)' \subseteq Purging(k)
                           /\ HasSession(k)' = HasSession(k)
                           /\ sessions'[k].ref_count = sessions[k].ref_count
    PROVE  CountInv'
  <1>1. \A k : LeasesOn(k)' = LeasesOn(k)
    BY DEF LeasesOn
  <1>. QED  BY <1>1, CountFrame DEF CountInv

\* Every step keeps the counts.
LEMMA StepCount == Typed /\ LeaseInv /\ CountInv /\ [Next]_vars => CountInv'
  <1> SUFFICES ASSUME Typed, LeaseInv, CountInv, [Next]_vars PROVE CountInv'
    OBVIOUS
  <1> USE DEF registryVars, handlerVars, evictorVars
  <1>1. ASSUME NEW k, sessions' = sessions
        PROVE  HasSession(k)' = HasSession(k) /\ sessions'[k].ref_count = sessions[k].ref_count
    BY <1>1 DEF HasSession
  <1>2. ASSUME NEW k, UNCHANGED <<epc, victim>> PROVE Purging(k)' \subseteq Purging(k)
    BY <1>2 DEF Purging
  <1>3. ASSUME NEW k, UNCHANGED <<pc, key>> PROVE Releasing(k)' = Releasing(k)
    BY <1>3 DEF Releasing
  \* a handler that moves, neither from nor to the middle of a release
  <1>4. ASSUME NEW t \in Handlers, pc[t] # "decrement", pc'[t] # "decrement",
               \A u \in Handlers \ {t} : pc'[u] = pc[u] /\ key'[u] = key[u],
               NEW k
        PROVE  Releasing(k)' = Releasing(k)
    BY <1>4 DEF Releasing
  \* a touch of the record of a handler's key
  <1>5. ASSUME NEW t \in Handlers, NEW k \in Keys,
               \/ sessions' = sessions
               \/ sessions' = [sessions EXCEPT ![key[t]] = Touch(sessions[key[t]])]
        PROVE  HasSession(k)' = HasSession(k) /\ sessions'[k].ref_count = sessions[k].ref_count
    <2>1. sessions[k] \in SessionRecord /\ sessions \in [Keys -> SessionRecord]
      BY DEF Typed, TypeOK
    <2>2. CASE k # key[t]
      BY <1>5, <2>1, <2>2 DEF HasSession
    <2>3. CASE k = key[t]
      BY <1>5, <2>1, <2>3, RecordUpdates DEF HasSession
    <2>. QED  BY <2>2, <2>3
  <1>6. CASE UNCHANGED vars
    BY <1>1, <1>2, <1>3, <1>6, CountElsewhere DEF vars
  <1>7. ASSUME NEW t \in Handlers, AttachStep(t) PROVE CountInv'
    <2>1. CASE Reuse(t)
      BY <2>1, CountGrant DEF Reuse, HasSession, Typed, TypeOK, LocalsOK
    <2>2. CASE InsertSession(t)
      <3> DEFINE r == IF HasSession(key[t]) THEN sessions[key[t]] ELSE NewRecord(child[t])
      <3>1. key[t] \in Keys /\ child[t] \in Processes /\ pc[t] = "insert"
        BY <2>2 DEF InsertSession, Typed, LocalsOK
      <3>2. r \in SessionRecord /\ r.handle # NoProcess
        BY <3>1, NewRecordType DEF HasSession, Typed, TypeOK, Processes, NoProcess
      <3>3. IF HasSession(key[t]) THEN r = sessions[key[t]] ELSE r.ref_count = 0
        BY <3>1, NewRecordType
      <3>4. Grant(t, r)
        BY <2>2 DEF InsertSession
      <3> HIDE DEF r
      <3>. QED  BY <3>1, <3>2, <3>3, <3>4, CountGrant
    <2>3. CASE FindNoSession(t) \/ EnterGate(t) \/ SpawnOk(t) \/ SpawnError(t) \/ ReopenGate(t)
      <3>1. UNCHANGED <<sessions, leases, overlapped, key, epc, victim>>
        BY <2>3 DEF FindNoSession, EnterGate, Goto, SpawnOk, SpawnError, ReopenGate
      <3>2. \A u \in Handlers : pc'[u] = "decrement" <=> pc[u] = "decrement"
        BY <2>3 DEF FindNoSession, EnterGate, Goto, SpawnOk, SpawnError, ReopenGate, Typed, TypeOK
      <3>3. \A k : Releasing(k)' = Releasing(k)
        BY <3>1, <3>2 DEF Releasing
      <3>. QED  BY <1>1, <1>2, <3>1, <3>3, CountElsewhere
    <2>4. CASE DropGate(t) \/ ReplyAttachOk(t) \/ ReplyHandleMissing(t)
      <3>1. /\ UNCHANGED <<sessions, leases, overlapped, epc, victim>>
            /\ pc[t] # "decrement" /\ pc'[t] # "decrement"
            /\ \A u \in Handlers \ {t} : pc'[u] = pc[u] /\ key'[u] = key[u]
        BY <2>4 DEF DropGate, ReplyAttachOk, ReplyHandleMissing, Return, Typed, TypeOK
      <3>. QED  BY <1>1, <1>2, <1>4, <3>1, CountElsewhere
    <2>5. CASE ReplyStreamFailed(t)
      <3>1. lease[t] \in LeaseIds /\ pc[t] = "reply"
        BY <2>5 DEF ReplyStreamFailed, Typed, LocalsOK
      <3>2. CASE leases[lease[t]] # NoKey
        BY <2>5, <3>1, <3>2, CountTake DEF ReplyStreamFailed
      <3>3. CASE leases[lease[t]] = NoKey
        <4>1. /\ UNCHANGED <<sessions, leases, overlapped, epc, victim>>
              /\ pc'[t] # "decrement"
              /\ \A u \in Handlers \ {t} : pc'[u] = pc[u] /\ key'[u] = key[u]
          BY <2>5, <3>3 DEF ReplyStreamFailed, Return, Typed, TypeOK
        <4>. QED  BY <1>1, <1>2, <1>4, <3>1, <4>1, CountElsewhere
      <3>. QED  BY <3>2, <3>3
    <2>. QED  BY <1>7, <2>1, <2>2, <2>3, <2>4, <2>5 DEF AttachStep
  <1>8. ASSUME NEW t \in Handlers, RequestStep(t) PROVE CountInv'
    <2>1. CASE Decrement(t)
      BY <2>1, CountDecrement
    <2>2. CASE RouteCall(t) \/ TouchAfterCall(t)
      <3>1. /\ UNCHANGED <<leases, overlapped, epc, victim>>
            /\ pc[t] # "decrement" /\ pc'[t] # "decrement"
            /\ \A u \in Handlers \ {t} : pc'[u] = pc[u] /\ key'[u] = key[u]
        BY <2>2 DEF RouteCall, TouchAfterCall, Return, Typed, TypeOK
      <3>2. \/ sessions' = sessions
            \/ sessions' = [sessions EXCEPT ![key[t]] = Touch(sessions[key[t]])]
        BY <2>2 DEF RouteCall, TouchAfterCall
      <3>. QED  BY <1>2, <1>4, <1>5, <3>1, <3>2, CountElsewhere
    <2>. QED  BY <1>8, <2>1, <2>2 DEF RequestStep
  <1>9. ASSUME NEW t \in Handlers, ClientStep(t) PROVE CountInv'
    <2>1. ASSUME NEW l \in LeaseIds, Release(t, l) PROVE CountInv'
      BY <2>1, CountTake DEF Release
    <2>2. CASE \/ \E k \in Keys : Attach(t, k)
               \/ \E l \in LeaseIds : Call(t, l)
               \/ CallAnswered(t) \/ CallFailed(t)
      <3>1. /\ UNCHANGED <<sessions, leases, overlapped, epc, victim>>
            /\ pc[t] # "decrement" /\ pc'[t] # "decrement"
            /\ \A u \in Handlers \ {t} : pc'[u] = pc[u] /\ key'[u] = key[u]
        BY <2>2 DEF Attach, Call, CallAnswered, CallFailed, Goto, Return, Typed, TypeOK
      <3>. QED  BY <1>1, <1>2, <1>4, <3>1, CountElsewhere
    <2>. QED  BY <1>9, <2>1, <2>2 DEF ClientStep
  <1>10. ASSUME NEW e \in Evictors, EvictionStep(e) PROVE CountInv'
    <2>1. CASE StartEviction(e)
      <3>1. \A k \in Keys : HasSession(k)' = HasSession(k) /\ sessions'[k].ref_count = sessions[k].ref_count
        BY <2>1, RecordUpdates DEF StartEviction, HasSession, Typed, TypeOK, Terminations, Victims
      <3>2. UNCHANGED <<leases, overlapped, pc, key>>
        BY <2>1 DEF StartEviction
      <3>3. \A k : Purging(k)' \subseteq Purging(k)
        BY <2>1 DEF StartEviction, Purging, Typed, TypeOK
      <3>. QED  BY <1>3, <3>1, <3>2, <3>3, CountElsewhere
    <2>2. CASE StopVictim(e)
      <3>1. \A k : Purging(k)' \subseteq Purging(k)
        BY <2>2 DEF StopVictim, Purging, Typed, TypeOK
      <3>. QED  BY <1>1, <1>3, <2>2, <3>1, CountElsewhere DEF StopVictim
    <2>3. CASE RemoveSession(e)
      BY <2>3, CountRemove
    <2>4. CASE PurgeLeases(e)
      BY <2>4, CountPurge
    <2>. QED  BY <1>10, <2>1, <2>2, <2>3, <2>4 DEF EvictionStep
  <1>11. ASSUME (\E k \in Keys : Expire(k)) \/ ScanIdle \/ ScanMemory \/ ScanAll PROVE CountInv'
    <2>1. \A k \in Keys : HasSession(k)' = HasSession(k) /\ sessions'[k].ref_count = sessions[k].ref_count
      <3>1. sessions \in [Keys -> SessionRecord] /\ IdleEvictor \in Terminations
        BY DEF Typed, TypeOK, Terminations
      <3>2. ASSUME NEW k \in Keys, Expire(k), NEW j \in Keys
            PROVE  HasSession(j)' = HasSession(j) /\ sessions'[j].ref_count = sessions[j].ref_count
        BY <3>1, <3>2, RecordUpdates DEF Expire, HasSession
      <3>3. CASE ScanIdle
        BY <3>1, <3>3, RecordUpdates DEF ScanIdle, HasSession
      <3>4. CASE ScanMemory \/ ScanAll
        BY <3>4, <1>1 DEF ScanMemory, ScanAll
      <3>. QED  BY <1>11, <3>2, <3>3, <3>4
    <2>2. UNCHANGED <<leases, overlapped, pc, key, victim>>
      BY <1>11 DEF Expire, ScanIdle, ScanMemory, ScanAll
    <2>3. \A k : Purging(k)' \subseteq Purging(k)
      BY <1>11 DEF Expire, ScanIdle, ScanMemory, ScanAll, Purging, Typed, TypeOK
    <2>. QED  BY <1>3, <2>1, <2>2, <2>3, CountElsewhere
  <1>. QED  BY <1>6, <1>7, <1>8, <1>9, <1>10, <1>11 DEF Next

\* Nothing is counted at the start.
LEMMA InitCount == Init => CountInv
  BY NewRecordType DEF Init, CountInv, KeyCount, HasSession, NoSession, Releasing

\* The reference count of a session is its leases plus the releases on their way, but for the
\* keys whose removal was overlapped by an attach or a release.
THEOREM CountsExact == Spec => []RefCountExact
  <1>1. CountInv => RefCountExact
    BY DEF CountInv, KeyCount, RefCountExact
  <1>. QED  BY <1>1, AlwaysTyped, InitLease, StepLease, InitCount, StepCount, PTL DEF Spec

--------------------------------------------------------------------------------
(* The idle scan *)

\* What the updates do to the terminating mark.
LEMMA TerminatingUpdates ==
    ASSUME NEW r \in SessionRecord
    PROVE  /\ Touch(r).terminating = r.terminating
           /\ Drop(r).terminating = r.terminating
           /\ [r EXCEPT !.expired = TRUE].terminating = r.terminating
           /\ Admit(r).terminating # IdleEvictor
           /\ NoSession.terminating # IdleEvictor
           /\ [r EXCEPT !.terminating = MemoryEvictor].terminating # IdleEvictor
  <1>1. /\ Touch(r).terminating = r.terminating
        /\ [r EXCEPT !.expired = TRUE].terminating = r.terminating
    BY DEF Touch, SessionRecord
  <1>2. Drop(r).terminating = Touch(r).terminating
    BY RecordUpdates DEF Drop, SessionRecord
  <1>3. /\ Admit(r).terminating # IdleEvictor
        /\ NoSession.terminating # IdleEvictor
    BY DEF Admit, NoSession, NewRecord, NotTerminating, IdleEvictor
  <1>4. [r EXCEPT !.terminating = MemoryEvictor].terminating # IdleEvictor
    BY DEF SessionRecord, MemoryEvictor, IdleEvictor
  <1>. QED  BY <1>1, <1>2, <1>3, <1>4

\* Only the idle scan marks a record with the idle evictor's mark.
LEMMA OnlyScanCondemns ==
    ASSUME Typed, Next, NEW k \in Keys,
           sessions[k].terminating # IdleEvictor, sessions'[k].terminating = IdleEvictor
    PROVE  ScanIdle
  <1> SUFFICES ASSUME ~ScanIdle PROVE FALSE
    OBVIOUS
  <1> DEFINE r == sessions[k]
  <1>1. sessions \in [Keys -> SessionRecord] /\ r \in SessionRecord
    BY DEF Typed, TypeOK
  <1>2. sessions' # sessions
    OBVIOUS
  <1>3. ASSUME NEW t \in Handlers, AttachStep(t) PROVE FALSE
    <2>1. CASE Reuse(t)
      BY <1>1, <2>1, TerminatingUpdates DEF Reuse, Grant, HasSession
    <2>2. CASE InsertSession(t)
      <3> DEFINE q == IF HasSession(key[t]) THEN sessions[key[t]] ELSE NewRecord(child[t])
      <3>1. key[t] \in Keys /\ q \in SessionRecord
        BY <2>2, NewRecordType DEF InsertSession, Typed, TypeOK, LocalsOK
      <3>2. sessions' = [sessions EXCEPT ![key[t]] = Admit(q)]
        BY <2>2 DEF InsertSession, Grant
      <3> HIDE DEF q
      <3>. QED  BY <1>1, <3>1, <3>2, TerminatingUpdates
    <2>3. CASE ~Reuse(t) /\ ~InsertSession(t)
      BY <1>2, <1>3, <2>3 DEF AttachStep, FindNoSession, EnterGate, SpawnOk, SpawnError, ReopenGate,
           DropGate, ReplyAttachOk, ReplyHandleMissing, ReplyStreamFailed, TakeLease, registryVars
    <2>. QED  BY <2>1, <2>2, <2>3
  <1>4. ASSUME NEW t \in Handlers, RequestStep(t) PROVE FALSE
    <2>1. \/ sessions' = [sessions EXCEPT ![key[t]] = Drop(sessions[key[t]])]
          \/ sessions' = [sessions EXCEPT ![key[t]] = Touch(sessions[key[t]])]
      BY <1>2, <1>4 DEF RequestStep, Decrement, RouteCall, TouchAfterCall
    <2>2. CASE k = key[t]
      BY <1>1, <2>1, <2>2, TerminatingUpdates
    <2>3. CASE k # key[t]
      BY <1>1, <2>1, <2>3
    <2>. QED  BY <2>2, <2>3
  <1>5. ASSUME NEW t \in Handlers, ClientStep(t) PROVE FALSE
    BY <1>2, <1>5 DEF ClientStep, Attach, Release, TakeLease, Call, CallAnswered, CallFailed, registryVars
  <1>6. ASSUME NEW e \in Evictors, EvictionStep(e) PROVE FALSE
    <2>1. CASE StartEviction(e)
      <3>1. PICK c \in todo[e] :
               sessions' = [sessions EXCEPT ![c.key] = [@ EXCEPT !.terminating = MemoryEvictor]]
        BY <1>2, <2>1 DEF StartEviction
      <3>2. CASE k = c.key
        BY <1>1, <3>1, <3>2, TerminatingUpdates
      <3>3. CASE k # c.key
        BY <1>1, <3>1, <3>3
      <3>. QED  BY <3>2, <3>3
    <2>2. CASE RemoveSession(e)
      BY <1>1, <2>2, TerminatingUpdates DEF RemoveSession
    <2>3. CASE StopVictim(e) \/ PurgeLeases(e)
      BY <1>2, <2>3 DEF StopVictim, PurgeLeases, registryVars
    <2>. QED  BY <1>6, <2>1, <2>2, <2>3 DEF EvictionStep
  <1>7. ASSUME NEW j \in Keys, Expire(j) PROVE FALSE
    <2>1. sessions' = [sessions EXCEPT ![j] = [sessions[j] EXCEPT !.expired = TRUE]]
      BY <1>7 DEF Expire
    <2>2. CASE k = j
      BY <1>1, <2>1, <2>2, TerminatingUpdates
    <2>3. CASE k # j
      BY <1>1, <2>1, <2>3
    <2>. QED  BY <2>2, <2>3
  <1>8. CASE ScanMemory \/ ScanAll
    BY <1>2, <1>8 DEF ScanMemory, ScanAll, registryVars
  <1>. QED  BY <1>3, <1>4, <1>5, <1>6, <1>7, <1>8 DEF Next

\* A session the idle scan condemns is not leased, and no release of one of its leases is on the
\* way, but for the keys whose removal was overlapped.
THEOREM IdleScanIsSafe == Spec => IdleScanSparesLeased
  <1>1. Typed /\ CountInv /\ [Next]_vars =>
           [\A k \in Keys \ overlapped :
               sessions[k].terminating # IdleEvictor /\ sessions'[k].terminating = IdleEvictor
                  => LeasesOn(k) = {} /\ Releasing(k) = {}]_vars
    <2> SUFFICES ASSUME Typed, CountInv, Next, NEW k \in Keys \ overlapped,
                        sessions[k].terminating # IdleEvictor, sessions'[k].terminating = IdleEvictor
                 PROVE  LeasesOn(k) = {} /\ Releasing(k) = {}
      OBVIOUS
    <2>1. ScanIdle
      BY OnlyScanCondemns
    <2>2. IdleCandidate(k)
      BY <2>1 DEF ScanIdle
    <2>3. Cardinality(LeasesOn(k)) + Cardinality(Releasing(k)) = 0
      BY <2>2 DEF IdleCandidate, CountInv, KeyCount
    <2>4. Cardinality(LeasesOn(k)) = 0 /\ Cardinality(Releasing(k)) = 0
      BY <2>3, FiniteCounts
    <2>. QED  BY <2>4, FiniteCounts, FS_EmptySet
  <1>. QED
    BY <1>1, AlwaysTyped, InitLease, StepLease, InitCount, StepCount, PTL DEF Spec, IdleScanSparesLeased

--------------------------------------------------------------------------------
(* Handles *)

\* A step leaves the handle of a session alone, removes it, or inserts the child of an attach
\* where there was none.
HandleKept(k)     == sessions'[k].handle = sessions[k].handle
HandleRemoved(k)  == \E e \in Evictors :
                        RemoveSession(e) /\ victim[e].key = k /\ sessions'[k].handle = NoProcess
HandleInserted(k) == \E t \in Handlers :
                        /\ InsertSession(t) /\ key[t] = k
                        /\ ~HasSession(k) /\ sessions'[k].handle = child[t]

\* One step does at most one of the three to a session, whichever operation it belongs to.
LEMMA HandleChange ==
    ASSUME Typed, [Next]_vars, NEW k \in Keys
    PROVE  HandleKept(k) \/ HandleRemoved(k) \/ HandleInserted(k)
  <1> DEFINE r == sessions[k]
  <1>1. sessions \in [Keys -> SessionRecord] /\ r \in SessionRecord
    BY DEF Typed, TypeOK
  <1>2. ASSUME sessions' = sessions PROVE HandleKept(k)
    BY <1>2 DEF HandleKept
  <1>3. ASSUME NEW t \in Handlers, AttachStep(t) PROVE HandleKept(k) \/ HandleInserted(k)
    <2>1. CASE Reuse(t)
      BY <1>1, <2>1, RecordUpdates DEF Reuse, Grant, HandleKept
    <2>2. CASE InsertSession(t)
      <3> DEFINE q == IF HasSession(key[t]) THEN sessions[key[t]] ELSE NewRecord(child[t])
      <3>1. key[t] \in Keys /\ child[t] \in Processes
        BY <2>2 DEF InsertSession, Typed, LocalsOK
      <3>2. q \in SessionRecord
        BY <3>1, NewRecordType DEF Typed, TypeOK
      <3>3. Admit(q).handle = q.handle
        BY <3>2, RecordUpdates
      <3>4. sessions' = [sessions EXCEPT ![key[t]] = Admit(q)]
        BY <2>2 DEF InsertSession, Grant
      <3>5. CASE k # key[t]
        BY <1>1, <3>4, <3>5 DEF HandleKept
      <3>6. CASE k = key[t] /\ HasSession(k)
        BY <1>1, <3>3, <3>4, <3>6 DEF HandleKept
      <3>7. CASE k = key[t] /\ ~HasSession(k)
        <4>1. q.handle = child[t]
          BY <3>1, <3>7, NewRecordType
        <4>2. sessions'[k].handle = child[t]
          BY <1>1, <3>3, <3>4, <3>7, <4>1
        <4>. QED  BY <2>2, <3>7, <4>2 DEF HandleInserted
      <3>. QED  BY <3>5, <3>6, <3>7
    <2>3. CASE ~Reuse(t) /\ ~InsertSession(t)
      BY <1>2, <1>3, <2>3 DEF AttachStep, FindNoSession, EnterGate, SpawnOk, SpawnError, ReopenGate,
           DropGate, ReplyAttachOk, ReplyHandleMissing, ReplyStreamFailed, TakeLease, registryVars
    <2>. QED  BY <2>1, <2>2, <2>3
  <1>4. ASSUME NEW t \in Handlers, RequestStep(t) PROVE HandleKept(k)
    <2>1. \/ sessions' = [sessions EXCEPT ![key[t]] = Drop(sessions[key[t]])]
          \/ sessions' = [sessions EXCEPT ![key[t]] = Touch(sessions[key[t]])]
          \/ sessions' = sessions
      BY <1>4 DEF RequestStep, Decrement, RouteCall, TouchAfterCall
    <2>2. CASE k = key[t]
      BY <1>1, <2>1, <2>2, RecordUpdates DEF HandleKept
    <2>3. CASE k # key[t]
      BY <1>1, <2>1, <2>3 DEF HandleKept
    <2>. QED  BY <2>2, <2>3
  <1>5. ASSUME NEW t \in Handlers, ClientStep(t) PROVE HandleKept(k)
    BY <1>2, <1>5 DEF ClientStep, Attach, Release, TakeLease, Call, CallAnswered, CallFailed,
                      registryVars
  <1>6. ASSUME NEW e \in Evictors, EvictionStep(e) PROVE HandleKept(k) \/ HandleRemoved(k)
    <2>1. CASE StartEviction(e)
      BY <1>1, <2>1, RecordUpdates DEF StartEviction, HandleKept, Terminations
    <2>2. CASE RemoveSession(e)
      <3>1. CASE k = victim[e].key
        BY <1>1, <2>2, <3>1 DEF RemoveSession, HandleRemoved, NoSession, NewRecord
      <3>2. CASE k # victim[e].key
        BY <1>1, <2>2, <3>2 DEF RemoveSession, HandleKept
      <3>. QED  BY <3>1, <3>2
    <2>3. CASE StopVictim(e) \/ PurgeLeases(e)
      BY <1>2, <2>3 DEF StopVictim, PurgeLeases, registryVars
    <2>. QED  BY <1>6, <2>1, <2>2, <2>3 DEF EvictionStep
  <1>7. CASE (\E j \in Keys : Expire(j)) \/ ScanIdle
    <2>1. IdleEvictor \in Terminations
      BY DEF Terminations
    <2>2. CASE \E j \in Keys : Expire(j)
      BY <1>1, <2>2, RecordUpdates DEF Expire, HandleKept
    <2>3. CASE ScanIdle
      BY <1>1, <2>1, <2>3, RecordUpdates DEF ScanIdle, HandleKept
    <2>. QED  BY <1>7, <2>2, <2>3
  <1>8. CASE ScanMemory \/ ScanAll \/ UNCHANGED vars
    BY <1>2, <1>8 DEF ScanMemory, ScanAll, registryVars, vars
  <1>. QED  BY <1>3, <1>4, <1>5, <1>6, <1>7, <1>8 DEF Next

\* A stopped process stays stopped, and one that was spawned stays spawned.
LEMMA ProcessesAge ==
    ASSUME Typed, [Next]_vars, NEW p \in Processes
    PROVE  /\ process[p] = "stopped" => process'[p] = "stopped"
           /\ process[p] # "unborn" => process'[p] # "unborn"
  <1>1. process \in [Processes -> {"unborn", "up", "stopped"}]
    BY DEF Typed, TypeOK
  <1>2. ASSUME NEW t \in Handlers, SpawnOk(t)
        PROVE  \E q \in Processes : process[q] = "unborn" /\ process' = [process EXCEPT ![q] = "up"]
    BY <1>2 DEF SpawnOk
  <1>3. ASSUME NEW t \in Handlers, AttachStep(t), ~SpawnOk(t) PROVE process' = process
    BY <1>3 DEF AttachStep, Reuse, FindNoSession, EnterGate, SpawnError, ReopenGate, InsertSession,
                DropGate, ReplyAttachOk, ReplyHandleMissing, ReplyStreamFailed, Grant, TakeLease
  <1>4. ASSUME NEW t \in Handlers, RequestStep(t) \/ ClientStep(t) PROVE process' = process
    BY <1>4 DEF RequestStep, ClientStep, Decrement, RouteCall, TouchAfterCall, Attach, Release,
                Call, CallAnswered, CallFailed, TakeLease
  <1>5. ASSUME NEW e \in Evictors, EvictionStep(e)
        PROVE  \/ process' = process
               \/ \E q : process' = [process EXCEPT ![q] = "stopped"]
    BY <1>5 DEF EvictionStep, StartEviction, StopVictim, RemoveSession, PurgeLeases
  <1>6. CASE (\E k \in Keys : Expire(k)) \/ ScanIdle \/ ScanMemory \/ ScanAll \/ UNCHANGED vars
    BY <1>6 DEF Expire, ScanIdle, ScanMemory, ScanAll, vars
  <1>7. CASE process' = process
    BY <1>7
  <1>. QED  BY <1>1, <1>2, <1>3, <1>4, <1>5, <1>6, <1>7 DEF Next

--------------------------------------------------------------------------------
(* The eviction loop alone *)

\* What the only evictor is about to stop or remove is still in the table.
CandidatesStay ==
    \A e \in Evictors :
        /\ \A c \in todo[e] : sessions[c.key].handle = c.handle
        /\ epc[e] \in {"stop", "remove"} =>
              /\ sessions[victim[e].key].handle = victim[e].handle
              /\ \A c \in todo[e] : c.key # victim[e].key
        /\ epc[e] = "remove" => process[victim[e].handle] = "stopped"
        /\ epc[e] = "purge" => \A c \in todo[e] : c.key # victim[e].key

\* Every step of a registry with the eviction loop alone keeps its candidates in the table.
LEMMA StepCandidates ==
    ASSUME Typed, CandidatesStay, [Next]_vars, Evictors = {IdleEvictor}
    PROVE  CandidatesStay'
  <1> USE DEF CandidatesStay, Typed, TypeOK
  \* A step of a handler or of the clock takes no session out of the table.
  <1>1. ASSUME UNCHANGED <<epc, todo, victim>>,
               \A e \in Evictors : ~RemoveSession(e) /\ ~StopVictim(e)
        PROVE  CandidatesStay'
    <2>1. \A k \in Keys : HasSession(k) => HandleKept(k)
      BY <1>1, HandleChange DEF HandleRemoved, HandleInserted
    <2>2. \A e \in Evictors : \A c \in todo[e] : c.key \in Keys /\ HasSession(c.key)
      BY DEF Victims, HasSession, Processes, NoProcess
    <2>3. \A e \in Evictors : epc[e] \in {"stop", "remove"} =>
             /\ victim[e].key \in Keys /\ victim[e].handle \in Processes
             /\ HasSession(victim[e].key)
      BY DEF LocalsOK, Victims, HasSession, Processes, NoProcess
    <2>4. \A e \in Evictors : epc[e] = "remove" => process'[victim[e].handle] = "stopped"
      BY <2>3, ProcessesAge
    <2>. QED  BY <1>1, <2>1, <2>2, <2>3, <2>4 DEF HandleKept
  <1>2. ASSUME UNCHANGED epc PROVE \A e \in Evictors : ~RemoveSession(e) /\ ~StopVictim(e)
    BY <1>2 DEF RemoveSession, StopVictim
  <1>3. ASSUME NEW t \in Handlers, AttachStep(t) \/ RequestStep(t) \/ ClientStep(t)
        PROVE  UNCHANGED <<epc, todo, victim>>
    BY <1>3 DEF AttachStep, Reuse, FindNoSession, EnterGate, SpawnOk, SpawnError, ReopenGate,
                InsertSession, DropGate, ReplyAttachOk, ReplyHandleMissing, ReplyStreamFailed,
                Grant, TakeLease, evictorVars, RequestStep, ClientStep, Decrement, RouteCall,
                TouchAfterCall, Attach, Release, Call, CallAnswered, CallFailed
  <1>4. ASSUME NEW e \in Evictors, EvictionStep(e) PROVE CandidatesStay'
    <2>1. e = IdleEvictor /\ \A f \in Evictors : f = e
      BY <1>4
    <2>2. ASSUME NEW k \in Keys, HasSession(k), ~RemoveSession(e) PROVE HandleKept(k)
      BY <2>1, <2>2, HandleChange DEF HandleRemoved, HandleInserted
    <2>3. \A c \in todo[e] : c.key \in Keys /\ HasSession(c.key)
      BY DEF Victims, HasSession, Processes, NoProcess
    <2>4. CASE StartEviction(e)
      <3>1. PICK c \in todo[e] : victim' = [victim EXCEPT ![e] = c]
                                /\ todo' = [todo EXCEPT ![e] = @ \ {c}]
        BY <2>4 DEF StartEviction
      <3>2. \A b \in todo[e] \ {c} : b.key # c.key
        BY DEF Victims
      <3>3. ~RemoveSession(e) /\ epc'[e] = "stop"
        BY <2>4 DEF StartEviction, RemoveSession
      <3>4. \A b \in todo[e] : sessions'[b.key].handle = b.handle
        BY <2>2, <2>3, <3>3 DEF HandleKept
      <3>. QED  BY <2>1, <3>1, <3>2, <3>3, <3>4
    <2>5. CASE StopVictim(e)
      <3>1. victim[e].handle \in Processes
        BY <2>5 DEF StopVictim, LocalsOK, Victims
      <3>2. sessions' = sessions
        BY <2>5 DEF StopVictim, registryVars
      <3>. QED  BY <2>1, <2>5, <3>1, <3>2 DEF StopVictim
    <2>6. CASE RemoveSession(e)
      BY <2>1, <2>3, <2>6 DEF RemoveSession, LocalsOK, Victims
    <2>7. CASE PurgeLeases(e)
      BY <2>1, <2>7 DEF PurgeLeases
    <2>. QED  BY <1>4, <2>4, <2>5, <2>6, <2>7 DEF EvictionStep
  <1>5. CASE ScanIdle
    <2>1. \A k \in Keys : HasSession(k) => sessions'[k].handle = sessions[k].handle
      BY <1>5, HandleChange DEF ScanIdle, HandleKept, HandleRemoved, HandleInserted,
                                RemoveSession
    <2>2. todo'[IdleEvictor] = {[key |-> k, handle |-> sessions[k].handle] :
                                   k \in {j \in Keys : IdleCandidate(j)}}
      BY <1>5 DEF ScanIdle
    <2>3. \A c \in todo'[IdleEvictor] : sessions'[c.key].handle = c.handle
      BY <2>1, <2>2 DEF IdleCandidate
    <2>. QED  BY <1>5, <2>3 DEF ScanIdle
  <1>6. CASE ScanMemory \/ ScanAll
    BY <1>6 DEF ScanMemory, ScanAll, IdleEvictor, MemoryEvictor, ShutdownTask
  <1>7. CASE (\E k \in Keys : Expire(k)) \/ UNCHANGED vars
    BY <1>1, <1>2, <1>7 DEF Expire, vars, evictorVars
  <1>. QED  BY <1>1, <1>2, <1>3, <1>4, <1>5, <1>6, <1>7 DEF Next

\* When the eviction loop is the only task that removes sessions, a session leaves the table
\* only after its own process was stopped: the loop acts on a handle that is still the table's.
THEOREM LoneEvictorRemovesStopped ==
    ASSUME Evictors = {IdleEvictor}
    PROVE  Spec => RemovalFollowsStop
  <1>1. Init => CandidatesStay
    BY DEF Init, CandidatesStay
  <1>2. Typed /\ CandidatesStay /\ [Next]_vars => CandidatesStay'
    BY StepCandidates
  <1>3. Typed /\ CandidatesStay /\ [Next]_vars =>
           [\A k \in Keys : HasSession(k) /\ ~HasSession(k)'
                => process[sessions[k].handle] = "stopped"]_vars
    <2> SUFFICES ASSUME Typed, CandidatesStay, [Next]_vars,
                        NEW k \in Keys, HasSession(k), ~HasSession(k)'
                 PROVE  process[sessions[k].handle] = "stopped"
      OBVIOUS
    <2>1. HandleRemoved(k)
      BY HandleChange DEF HandleKept, HandleInserted, HasSession
    <2>. QED  BY <2>1 DEF HandleRemoved, RemoveSession, CandidatesStay
  <1>. QED
    BY <1>1, <1>2, <1>3, InitTyped, StepTyped, PTL DEF Spec, RemovalFollowsStop

--------------------------------------------------------------------------------
(* Fresh children *)

\* Only an attach past its spawn and a call hold on to a process.
Childless == \A t \in Handlers :
                pc[t] \notin {"open", "insert", "call", "touch"} => child[t] = NoProcess

\* Every step keeps the children with attaches past their spawn and with calls.
LEMMA StepChildless == Typed /\ Childless /\ [Next]_vars => Childless'
  <1> SUFFICES ASSUME Typed, Childless, [Next]_vars PROVE Childless'
    OBVIOUS
  <1> USE DEF Childless, Typed, TypeOK, Return, Goto
  <1>1. ASSUME NEW t \in Handlers, AttachStep(t) PROVE Childless'
    BY <1>1 DEF AttachStep, Reuse, FindNoSession, EnterGate, SpawnOk, SpawnError, ReopenGate,
                InsertSession, DropGate, ReplyAttachOk, ReplyHandleMissing, ReplyStreamFailed,
                Grant, TakeLease
  <1>2. ASSUME NEW t \in Handlers, RequestStep(t) \/ ClientStep(t) PROVE Childless'
    BY <1>2 DEF RequestStep, ClientStep, Decrement, RouteCall, TouchAfterCall, Attach, Release,
                Call, CallAnswered, CallFailed, TakeLease
  <1>3. ASSUME NEW e \in Evictors, EvictionStep(e) PROVE UNCHANGED <<pc, child>>
    BY <1>3 DEF EvictionStep, StartEviction, StopVictim, RemoveSession, PurgeLeases, handlerVars
  <1>4. CASE (\E k \in Keys : Expire(k)) \/ ScanIdle \/ ScanMemory \/ ScanAll \/ UNCHANGED vars
    BY <1>4 DEF Expire, ScanIdle, ScanMemory, ScanAll, handlerVars, vars
  <1>. QED  BY <1>1, <1>2, <1>3, <1>4 DEF Next

\* A child that its attach has not inserted yet.
Fresh(t) == pc[t] \in {"open", "insert"} /\ child[t] # NoProcess

\* A process that the table or an evictor knows.
InUse(p) == \/ \E k \in Keys : sessions[k].handle = p
            \/ \E e \in Evictors : \E c \in todo[e] : c.handle = p
            \/ \E e \in Evictors : victim[e].handle = p

\* The child of an attach is its own until it is inserted.
FreshInv ==
    /\ \A p \in Processes : InUse(p) => process[p] # "unborn"
    /\ \A t \in Handlers : Fresh(t) => process[child[t]] # "unborn" /\ ~InUse(child[t])
    /\ \A t, u \in Handlers : Fresh(t) /\ Fresh(u) /\ child[t] = child[u] => t = u

\* A step that brings no process into use and starts none.
LEMMA FreshFrame ==
    ASSUME Typed, FreshInv, [Next]_vars,
           \A p \in Processes : InUse(p)' => InUse(p),
           \A t \in Handlers : Fresh(t)' => Fresh(t) /\ child'[t] = child[t]
    PROVE  FreshInv'
  <1>1. \A t \in Handlers : Fresh(t) => child[t] \in Processes
    BY DEF Fresh, Typed, TypeOK
  <1>2. \A p \in Processes : process[p] # "unborn" => process'[p] # "unborn"
    BY ProcessesAge
  <1>3. \A p \in Processes : InUse(p)' => process'[p] # "unborn"
    BY <1>2 DEF FreshInv
  <1>4. \A t \in Handlers : Fresh(t)' => process'[child'[t]] # "unborn" /\ ~InUse(child[t])'
    BY <1>1, <1>2 DEF FreshInv
  <1>5. \A t, u \in Handlers : Fresh(t)' /\ Fresh(u)' /\ child'[t] = child'[u] => t = u
    BY DEF FreshInv
  <1>. QED  BY <1>3, <1>4, <1>5 DEF FreshInv

\* No step but an insertion or a scan brings a process into use.
LEMMA InUseFrame ==
    ASSUME Typed, [Next]_vars, UNCHANGED <<todo, victim>>,
           \A k \in Keys : HandleKept(k) \/ HandleRemoved(k), NEW p \in Processes, InUse(p)'
    PROVE  InUse(p)
  BY DEF InUse, HandleKept, HandleRemoved, Processes, NoProcess

\* Every step keeps the child of an attach its own until it is inserted.
LEMMA StepFresh == Typed /\ Childless /\ FreshInv /\ [Next]_vars => FreshInv'
  <1> SUFFICES ASSUME Typed, Childless, FreshInv, [Next]_vars PROVE FreshInv'
    OBVIOUS
  <1>1. ASSUME \A t \in Handlers : ~InsertSession(t)
        PROVE  \A k \in Keys : HandleKept(k) \/ HandleRemoved(k)
    BY <1>1, HandleChange DEF HandleInserted
  <1>2. ASSUME NEW t \in Handlers, AttachStep(t) PROVE FreshInv'
    <2>1. UNCHANGED <<todo, victim>>
      BY <1>2 DEF AttachStep, Reuse, FindNoSession, EnterGate, SpawnOk, SpawnError, ReopenGate,
                  InsertSession, DropGate, ReplyAttachOk, ReplyHandleMissing, ReplyStreamFailed,
                  Grant, TakeLease, evictorVars
    <2>2. CASE InsertSession(t)
      <3>1. child[t] \in Processes /\ Fresh(t) /\ ~Fresh(t)'
        BY <2>2 DEF InsertSession, Grant, Fresh, Typed, TypeOK, LocalsOK, Processes, NoProcess
      <3>2. \A u \in Handlers \ {t} : pc'[u] = pc[u] /\ child'[u] = child[u]
        BY <2>2 DEF InsertSession, Grant, Typed, TypeOK
      <3>3. ASSUME NEW p \in Processes, InUse(p)' PROVE InUse(p) \/ p = child[t]
        <4>1. \A k \in Keys : \/ sessions'[k].handle = sessions[k].handle
                              \/ sessions'[k].handle = child[t]
          <5>1. \A k \in Keys : ~HandleRemoved(k)
            BY <2>2 DEF HandleRemoved, RemoveSession, InsertSession, Grant, evictorVars, Typed,
                        TypeOK
          <5>2. \A u \in Handlers : InsertSession(u) => u = t
            BY <2>2, <3>2 DEF InsertSession, Grant, Typed, TypeOK
          <5>. QED  BY <5>1, <5>2, HandleChange DEF HandleKept, HandleInserted
        <4>. QED  BY <2>1, <3>3, <4>1 DEF InUse
      <3>4. process' = process
        BY <2>2 DEF InsertSession, Grant
      <3>5. \A p \in Processes : InUse(p)' => process'[p] # "unborn"
        BY <3>1, <3>3, <3>4 DEF FreshInv
      <3>6. \A u \in Handlers : Fresh(u)' => u # t /\ Fresh(u) /\ child[u] \in Processes
        BY <3>1, <3>2 DEF Fresh, Typed, TypeOK
      <3>7. \A u \in Handlers : Fresh(u)' => process'[child'[u]] # "unborn" /\ ~InUse(child[u])'
        BY <3>1, <3>2, <3>3, <3>4, <3>6 DEF FreshInv
      <3>8. \A u, w \in Handlers : Fresh(u)' /\ Fresh(w)' /\ child'[u] = child'[w] => u = w
        BY <3>2, <3>6 DEF FreshInv
      <3>. QED  BY <3>5, <3>7, <3>8 DEF FreshInv
    <2>3. CASE SpawnOk(t)
      <3>1. PICK q \in Processes : /\ process[q] = "unborn"
                                  /\ process' = [process EXCEPT ![q] = "up"]
                                  /\ child' = [child EXCEPT ![t] = q]
        BY <2>3 DEF SpawnOk
      <3>2. \A p : InUse(p)' = InUse(p)
        BY <2>3 DEF SpawnOk, InUse, registryVars, evictorVars
      <3>3. \A u \in Handlers \ {t} : Fresh(u)' = Fresh(u) /\ child'[u] = child[u]
        BY <2>3, <3>1 DEF SpawnOk, Fresh, Typed, TypeOK
      <3>4. child'[t] = q /\ process'[q] = "up" /\ ~InUse(q)
        BY <3>1 DEF FreshInv, Typed, TypeOK
      <3>5. \A u \in Handlers : Fresh(u) => child[u] \in Processes /\ child[u] # q
        BY <3>1 DEF FreshInv, Fresh, Typed, TypeOK
      <3>6. \A p \in Processes : process[p] # "unborn" => process'[p] # "unborn"
        BY ProcessesAge
      <3>7. \A p \in Processes : InUse(p)' => process'[p] # "unborn"
        BY <3>2, <3>6 DEF FreshInv
      <3>8. \A u \in Handlers : Fresh(u)' => process'[child'[u]] # "unborn" /\ ~InUse(child[u])'
        BY <3>2, <3>3, <3>4, <3>5, <3>6 DEF FreshInv
      <3>9. \A u, w \in Handlers : Fresh(u)' /\ Fresh(w)' /\ child'[u] = child'[w] => u = w
        BY <3>3, <3>4, <3>5 DEF FreshInv
      <3>. QED  BY <3>7, <3>8, <3>9 DEF FreshInv
    <2>4. CASE ~InsertSession(t) /\ ~SpawnOk(t)
      <3>1. \A u \in Handlers : Fresh(u)' => Fresh(u) /\ child'[u] = child[u]
        BY <1>2, <2>4 DEF AttachStep, Reuse, FindNoSession, EnterGate, SpawnError, ReopenGate,
             DropGate, ReplyAttachOk, ReplyHandleMissing, ReplyStreamFailed, Grant, TakeLease,
             Return, Goto, Fresh, Childless, Typed, TypeOK
      <3>2. \A u \in Handlers : ~InsertSession(u)
        BY <1>2, <2>4 DEF AttachStep, Reuse, FindNoSession, EnterGate, SpawnError, ReopenGate,
             DropGate, ReplyAttachOk, ReplyHandleMissing, ReplyStreamFailed, Grant, TakeLease,
             Return, Goto, InsertSession, Typed, TypeOK
      <3>. QED  BY <1>1, <2>1, <3>1, <3>2, InUseFrame, FreshFrame
    <2>. QED  BY <2>2, <2>3, <2>4
  <1>3. ASSUME NEW t \in Handlers, RequestStep(t) \/ ClientStep(t) PROVE FreshInv'
    <2>1. UNCHANGED <<todo, victim, lease_seq>>
      BY <1>3 DEF RequestStep, ClientStep, Decrement, RouteCall, TouchAfterCall, Attach, Release,
                  Call, CallAnswered, CallFailed, TakeLease, evictorVars, registryVars
    <2>2. \A u \in Handlers : ~InsertSession(u)
      BY <2>1 DEF InsertSession, Grant, Typed, TypeOK, LeaseIds
    <2>3. \A u \in Handlers : Fresh(u)' => Fresh(u) /\ child'[u] = child[u]
      BY <1>3 DEF RequestStep, ClientStep, Decrement, RouteCall, TouchAfterCall, Attach, Release,
                  Call, CallAnswered, CallFailed, TakeLease, Return, Goto, Fresh, Typed, TypeOK
    <2>. QED  BY <1>1, <2>1, <2>2, <2>3, InUseFrame, FreshFrame
  <1>4. ASSUME UNCHANGED <<pc, child>>,
               \A p \in Processes :
                   (\E e \in Evictors : \E c \in todo'[e] : c.handle = p)
                   \/ (\E e \in Evictors : victim'[e].handle = p) => InUse(p)
        PROVE  FreshInv'
    <2>1. \A u \in Handlers : ~InsertSession(u)
      BY <1>4 DEF InsertSession, Grant, Typed, TypeOK
    <2>2. \A k \in Keys : HandleKept(k) \/ HandleRemoved(k)
      BY <1>1, <2>1
    <2>3. \A p \in Processes : InUse(p)' => InUse(p)
      BY <1>4, <2>2 DEF InUse, HandleKept, HandleRemoved, Processes, NoProcess
    <2>4. \A t \in Handlers : Fresh(t)' = Fresh(t) /\ child'[t] = child[t]
      BY <1>4 DEF Fresh
    <2>. QED  BY <2>3, <2>4, FreshFrame
  <1>5. ASSUME NEW e \in Evictors, EvictionStep(e) PROVE FreshInv'
    <2>1. UNCHANGED <<pc, child>>
      BY <1>5 DEF EvictionStep, StartEviction, StopVictim, RemoveSession, PurgeLeases, handlerVars
    <2>2. \/ UNCHANGED <<todo, victim>>
          \/ todo' = todo /\ victim' = [victim EXCEPT ![e] = NoVictim]
          \/ \E c \in todo[e] : /\ victim' = [victim EXCEPT ![e] = c]
                               /\ todo' = [todo EXCEPT ![e] = @ \ {c}]
      BY <1>5 DEF EvictionStep, StartEviction, StopVictim, RemoveSession, PurgeLeases
    <2>3. \A f \in Evictors : todo'[f] \subseteq todo[f]
      BY <2>2 DEF Typed, TypeOK
    <2>4. \A f \in Evictors : victim'[f] \in {victim[f], NoVictim} \cup todo[e]
      BY <2>2 DEF Typed, TypeOK
    <2>5. \A p \in Processes : NoVictim.handle # p
      BY DEF NoVictim, Processes, NoProcess
    <2>. QED  BY <1>4, <2>1, <2>3, <2>4, <2>5 DEF InUse
  <1>6. CASE ScanIdle \/ ScanMemory \/ ScanAll
    <2>1. UNCHANGED <<pc, child, victim>>
      BY <1>6 DEF ScanIdle, ScanMemory, ScanAll, handlerVars
    <2>2. \A e \in Evictors : \A c \in todo'[e] :
             c \in todo[e] \/ \E k \in Keys : c.handle = sessions[k].handle
      BY <1>6 DEF ScanIdle, ScanMemory, ScanAll, Typed, TypeOK
    <2>. QED  BY <1>4, <2>1, <2>2 DEF InUse
  <1>7. CASE (\E k \in Keys : Expire(k)) \/ UNCHANGED vars
    BY <1>4, <1>7 DEF Expire, vars, evictorVars, handlerVars, InUse
  <1>. QED  BY <1>2, <1>3, <1>5, <1>6, <1>7 DEF Next

\* There is no process at the start.
LEMMA InitFresh == Init => Childless /\ FreshInv
  BY DEF Init, Childless, FreshInv, Fresh, InUse, NoSession, NewRecord, NoVictim, Processes, NoProcess

\* A fresh child was one before the step, or is spawned by it.
LEMMA FreshChange ==
    ASSUME Typed, Childless, [Next]_vars, NEW t \in Handlers, Fresh(t)'
    PROVE  \/ Fresh(t) /\ child'[t] = child[t]
           \/ child'[t] \in Processes /\ process[child'[t]] = "unborn"
  <1> USE DEF Fresh, Childless, Typed, TypeOK, Return, Goto
  <1>1. ASSUME NEW u \in Handlers, SpawnOk(u)
        PROVE  \/ Fresh(t) /\ child'[t] = child[t]
               \/ child'[t] \in Processes /\ process[child'[t]] = "unborn"
    <2>1. PICK q \in Processes : process[q] = "unborn" /\ child' = [child EXCEPT ![u] = q]
      BY <1>1 DEF SpawnOk
    <2>. QED  BY <1>1, <2>1 DEF SpawnOk
  <1>2. ASSUME NEW u \in Handlers, AttachStep(u), ~SpawnOk(u)
        PROVE  Fresh(t) /\ child'[t] = child[t]
    BY <1>2 DEF AttachStep, Reuse, FindNoSession, EnterGate, SpawnError, ReopenGate,
                InsertSession, DropGate, ReplyAttachOk, ReplyHandleMissing, ReplyStreamFailed,
                Grant, TakeLease
  <1>3. ASSUME NEW u \in Handlers, RequestStep(u) \/ ClientStep(u)
        PROVE  Fresh(t) /\ child'[t] = child[t]
    BY <1>3 DEF RequestStep, ClientStep, Decrement, RouteCall, TouchAfterCall, Attach, Release,
                Call, CallAnswered, CallFailed, TakeLease
  <1>4. ASSUME NEW e \in Evictors, EvictionStep(e) PROVE UNCHANGED <<pc, child>>
    BY <1>4 DEF EvictionStep, StartEviction, StopVictim, RemoveSession, PurgeLeases, handlerVars
  <1>5. CASE (\E k \in Keys : Expire(k)) \/ ScanIdle \/ ScanMemory \/ ScanAll \/ UNCHANGED vars
    BY <1>5 DEF Expire, ScanIdle, ScanMemory, ScanAll, handlerVars, vars
  <1>. QED  BY <1>1, <1>2, <1>3, <1>4, <1>5 DEF Next

\* A process no attach holds as its own child, and that is not to be spawned any more, does not
\* come back into a session it has left.
LEMMA HandleGoneForGood ==
    ASSUME Typed, Childless, [Next]_vars, NEW k \in Keys, NEW p \in Processes,
           sessions[k].handle # p, process[p] # "unborn",
           \A t \in Handlers : Fresh(t) => child[t] # p
    PROVE  /\ sessions'[k].handle # p
           /\ process'[p] # "unborn"
           /\ \A t \in Handlers : Fresh(t)' => child'[t] # p
  <1> SUFFICES sessions'[k].handle # p
    BY FreshChange, ProcessesAge
  <1>1. CASE HandleKept(k)
    BY <1>1 DEF HandleKept
  <1>2. CASE HandleRemoved(k)
    BY <1>2 DEF HandleRemoved, Processes, NoProcess
  <1>3. CASE HandleInserted(k)
    BY <1>3 DEF HandleInserted, InsertSession, Fresh, Typed, LocalsOK, Processes, NoProcess
  <1>. QED  BY <1>1, <1>2, <1>3, HandleChange

================================================================================
