---------------------------- MODULE SessionRegistry ----------------------------
(***************************************************************************)
(* The daemon's session registry: the table of live LSP sessions, the      *)
(* table of leases, the per-key spawn gates, and the tasks that share      *)
(* them: attach, release and call handlers, the idle evictor, the memory   *)
(* evictor and the daemon's final shutdown of all sessions.                *)
(*                                                                         *)
(* Every lock of the registry is held for one critical section, so an      *)
(* action is one critical section (or one awaited event between two), and  *)
(* a handler is a sequence of actions selected by its pc.  A critical      *)
(* section that nests locks (sessions, then leases) is one action.         *)
(*                                                                         *)
(* Time appears as one bit per session: `expired` says that at least       *)
(* idle_ttl has passed since last_used.                                    *)
(***************************************************************************)
EXTENDS Integers, FiniteSets

CONSTANTS
    Keys,        \* session keys: (project root, lsp id, config hash)
    Handlers,    \* request handlers, one per control or stream connection
    Evictors,    \* the tasks of the daemon that remove sessions
    Gates,       \* identities of SpawnGate objects
    MaxAttach,   \* bound: attach requests in a behaviour
    NoKey, NoGate

IdleEvictor   == "idle"
MemoryEvictor == "memory"
ShutdownTask  == "shutdown"

ASSUME EvictorsAssumption == Evictors \subseteq {IdleEvictor, MemoryEvictor, ShutdownTask}
ASSUME NullsAssumption    == NoKey \notin Keys /\ NoGate \notin Gates
ASSUME HandlersAssumption == IsFiniteSet(Handlers)
ASSUME MaxAttachAssumption == MaxAttach \in Nat

\* Lease ids are drawn from lease_seq, child processes are numbered in the order
\* they are spawned; an attach takes at most one of each.
LeaseIds  == 1..MaxAttach
Processes == 1..MaxAttach
NoLease   == 0
NoProcess == 0

VARIABLES
    sessions,    \* sessions[k]: the record of key k; absent when its handle is NoProcess
    leases,      \* leases[l]: the key lease l is on, or NoKey
    lease_seq,   \* next lease number
    spawn_gates, \* spawn_gates[k]: the gate stored for key k, or NoGate
    started,     \* started[g]: the flag inside gate g
    attach_requests_total,
    process,     \* process[p]: the LSP child p; "stopped" once a stop of it has been awaited
    \* the local state of a handler
    pc, key, gate, lease, child,
    \* the local state of an evictor
    epc, todo, victim,
    known,       \* lease ids that some AttachOk has told a client
    overlapped   \* history: keys whose removal overlapped an attach or a release

registryVars == <<sessions, leases, lease_seq, spawn_gates, started, attach_requests_total>>
handlerVars  == <<pc, key, gate, lease, child>>
evictorVars  == <<epc, todo, victim>>
vars == <<registryVars, process, handlerVars, evictorVars, known, overlapped>>

NoVictim == [key |-> NoKey, handle |-> NoProcess]
Victims  == [key : Keys, handle : Processes]

\* terminating and termination_notice together: only the memory evictor leaves a notice.
NotTerminating == "no"
Terminations   == {NotTerminating, IdleEvictor, MemoryEvictor}

SessionRecord == [handle : Processes \cup {NoProcess}, ref_count : Nat,
                  expired : BOOLEAN, terminating : Terminations]

NewRecord(p) ==
    [handle |-> p, ref_count |-> 0, expired |-> FALSE, terminating |-> NotTerminating]
NoSession == NewRecord(NoProcess)

HasSession(k)   == sessions[k].handle # NoProcess
LeasesOn(k)     == {l \in LeaseIds : leases[l] = k}
\* Handlers between the two halves of release_by_lease_id.
Releasing(k)    == {t \in Handlers : pc[t] = "decrement" /\ key[t] = k}
\* Evictors between the two halves of remove.
Purging(k)      == {e \in Evictors : epc[e] = "purge" /\ victim[e].key = k}
\* A gate object lives as long as the map or a handler holds its Arc.
GateHeld(g)     == \/ \E k \in Keys : spawn_gates[k] = g
                   \/ \E t \in Handlers : gate[t] = g
Spawner(t)      == pc[t] \in {"spawn", "open"}
AttachPcs       == {"session", "gate", "wait", "spawn", "open", "insert", "drop_gate", "reply"}

Init ==
    /\ sessions = [k \in Keys |-> NoSession]
    /\ leases = [l \in LeaseIds |-> NoKey]
    /\ lease_seq = 1
    /\ spawn_gates = [k \in Keys |-> NoGate]
    /\ started = [g \in Gates |-> FALSE]
    /\ attach_requests_total = 0
    /\ process = [p \in Processes |-> "unborn"]
    /\ pc = [t \in Handlers |-> "idle"]
    /\ key = [t \in Handlers |-> NoKey]
    /\ gate = [t \in Handlers |-> NoGate]
    /\ lease = [t \in Handlers |-> NoLease]
    /\ child = [t \in Handlers |-> NoProcess]
    /\ epc = [e \in Evictors |-> "tick"]
    /\ todo = [e \in Evictors |-> {}]
    /\ victim = [e \in Evictors |-> NoVictim]
    /\ known = {}
    /\ overlapped = {}

--------------------------------------------------------------------------------
\* Record updates shared by the handlers.

Touch(r) == [r EXCEPT !.expired = FALSE]

\* What an attach does to the record it takes a reference on.
Admit(r) == [handle |-> r.handle, ref_count |-> r.ref_count + 1,
             expired |-> FALSE, terminating |-> NotTerminating]

\* Mutant: the reference count is decremented even at zero.
DropPastZero(r) == [Touch(r) EXCEPT !.ref_count = @ - 1]

\* Mutant: a release only touches the record.
DropNothing(r) == Touch(r)

\* What a release does to the record it gives up a reference on.
Drop(r) == [Touch(r) EXCEPT !.ref_count = IF @ > 0 THEN @ - 1 ELSE 0]

\* The handler returns and forgets its locals.
Return(t) ==
    /\ pc' = [pc EXCEPT ![t] = "idle"]
    /\ key' = [key EXCEPT ![t] = NoKey]
    /\ gate' = [gate EXCEPT ![t] = NoGate]
    /\ lease' = [lease EXCEPT ![t] = NoLease]
    /\ child' = [child EXCEPT ![t] = NoProcess]

Goto(t, label) ==
    /\ pc' = [pc EXCEPT ![t] = label]
    /\ UNCHANGED <<key, gate, lease, child>>

--------------------------------------------------------------------------------
\* acquire_or_spawn

\* Count the request and take the gate of the key, creating it when the map has none.
Attach(t, k) ==
    /\ pc[t] = "idle"
    /\ attach_requests_total < MaxAttach
    /\ attach_requests_total' = attach_requests_total + 1
    /\ IF spawn_gates[k] # NoGate
       THEN /\ gate' = [gate EXCEPT ![t] = spawn_gates[k]]
            /\ UNCHANGED <<spawn_gates, started>>
       ELSE /\ \E g \in Gates : ~GateHeld(g)
            /\ LET g == CHOOSE g \in Gates : ~GateHeld(g)
               IN /\ gate' = [gate EXCEPT ![t] = g]
                  /\ spawn_gates' = [spawn_gates EXCEPT ![k] = g]
                  /\ started' = [started EXCEPT ![g] = FALSE]
    /\ pc' = [pc EXCEPT ![t] = "session"]
    /\ key' = [key EXCEPT ![t] = k]
    /\ UNCHANGED <<sessions, leases, lease_seq, lease, child, process,
                   evictorVars, known, overlapped>>

\* Under the sessions lock: take the reference, then the lease, on record r of handler t's key.
Grant(t, r) ==
    /\ lease_seq \in LeaseIds
    /\ sessions' = [sessions EXCEPT ![key[t]] = Admit(r)]
    /\ leases' = [leases EXCEPT ![lease_seq] = key[t]]
    /\ lease_seq' = lease_seq + 1
    /\ lease' = [lease EXCEPT ![t] = lease_seq]
    /\ pc' = [pc EXCEPT ![t] = "reply"]
    /\ gate' = [gate EXCEPT ![t] = NoGate]
    /\ child' = [child EXCEPT ![t] = NoProcess]
    /\ overlapped' = IF Purging(key[t]) # {} THEN overlapped \cup {key[t]} ELSE overlapped
    /\ UNCHANGED <<spawn_gates, started, attach_requests_total, key, process, evictorVars, known>>

Reuse(t) ==
    /\ pc[t] = "session"
    /\ HasSession(key[t])
    /\ Grant(t, sessions[key[t]])

FindNoSession(t) ==
    /\ pc[t] = "session"
    /\ ~HasSession(key[t])
    /\ Goto(t, "gate")
    /\ UNCHANGED <<registryVars, process, evictorVars, known, overlapped>>

\* Mutant: the flag is never consulted.
EnterGateAlways(t) ==
    /\ pc[t] = "gate"
    /\ started' = [started EXCEPT ![gate[t]] = TRUE]
    /\ Goto(t, "spawn")
    /\ UNCHANGED <<sessions, leases, lease_seq, spawn_gates, attach_requests_total,
                   process, evictorVars, known, overlapped>>

\* Under the gate's lock: claim the spawn, or register for its notification.
EnterGate(t) ==
    /\ pc[t] = "gate"
    /\ started' = [started EXCEPT ![gate[t]] = TRUE]
    /\ Goto(t, IF started[gate[t]] THEN "wait" ELSE "spawn")
    /\ UNCHANGED <<sessions, leases, lease_seq, spawn_gates, attach_requests_total,
                   process, evictorVars, known, overlapped>>

\* The awaited spawn closure returns a handle on a running, initialized server ...
SpawnOk(t) ==
    /\ pc[t] = "spawn"
    /\ \E p \in Processes : process[p] = "unborn"
    /\ LET p == CHOOSE p \in Processes : process[p] = "unborn"
       IN /\ process' = [process EXCEPT ![p] = "up"]
          /\ child' = [child EXCEPT ![t] = p]
    /\ pc' = [pc EXCEPT ![t] = "open"]
    /\ UNCHANGED <<registryVars, key, gate, lease, evictorVars, known, overlapped>>

\* ... or an error: no configuration, no executable, or a failed `initialize`.
SpawnError(t) ==
    /\ pc[t] = "spawn"
    /\ Goto(t, "open")
    /\ UNCHANGED <<registryVars, process, evictorVars, known, overlapped>>

\* Mutant: the waiters are not notified.
ReopenGateSilently(t) ==
    /\ pc[t] = "open"
    /\ started' = [started EXCEPT ![gate[t]] = FALSE]
    /\ Goto(t, IF child[t] = NoProcess THEN "drop_gate" ELSE "insert")
    /\ UNCHANGED <<sessions, leases, lease_seq, spawn_gates, attach_requests_total,
                   process, evictorVars, known, overlapped>>

\* Under the gate's lock: clear the flag and notify the registered waiters, who retry.
ReopenGate(t) ==
    /\ pc[t] = "open"
    /\ started' = [started EXCEPT ![gate[t]] = FALSE]
    /\ pc' = [u \in Handlers |->
                 IF u = t THEN IF child[t] = NoProcess THEN "drop_gate" ELSE "insert"
                 ELSE IF pc[u] = "wait" /\ gate[u] = gate[t] THEN "session"
                 ELSE pc[u]]
    /\ UNCHANGED <<sessions, leases, lease_seq, spawn_gates, attach_requests_total,
                   key, gate, lease, child, process, evictorVars, known, overlapped>>

\* Mutant: insert() instead of entry().or_insert_with().
InsertOverwriting(t) ==
    /\ pc[t] = "insert"
    /\ Grant(t, NewRecord(child[t]))

\* entry().or_insert_with(): an existing record keeps its handle and the new one is dropped.
InsertSession(t) ==
    /\ pc[t] = "insert"
    /\ Grant(t, IF HasSession(key[t]) THEN sessions[key[t]] ELSE NewRecord(child[t]))

\* The spawn failed: forget the gate and answer E_SESSION_SPAWN_FAILED.
DropGate(t) ==
    /\ pc[t] = "drop_gate"
    /\ spawn_gates' = [spawn_gates EXCEPT ![key[t]] = NoGate]
    /\ Return(t)
    /\ UNCHANGED <<sessions, leases, lease_seq, started, attach_requests_total,
                   process, evictorVars, known, overlapped>>

--------------------------------------------------------------------------------
\* release_by_lease_id, first half: the lease leaves the table, the reference stays.
TakeLease(t, l) ==
    /\ leases' = [leases EXCEPT ![l] = NoKey]
    /\ pc' = [pc EXCEPT ![t] = "decrement"]
    /\ key' = [key EXCEPT ![t] = leases[l]]
    /\ lease' = [lease EXCEPT ![t] = NoLease]
    /\ UNCHANGED <<gate, child>>
    /\ overlapped' = IF Purging(leases[l]) # {} THEN overlapped \cup {leases[l]} ELSE overlapped
    /\ UNCHANGED <<sessions, lease_seq, spawn_gates, started, attach_requests_total,
                   process, evictorVars, known>>

\* A Release request, or the end of a dedicated stream.  An unknown id is answered without
\* touching anything.
Release(t, l) ==
    /\ pc[t] = "idle"
    /\ l \in known
    /\ leases[l] # NoKey
    /\ TakeLease(t, l)

\* release_by_lease_id, second half: whatever record the key now has gives up a reference.
Decrement(t) ==
    /\ pc[t] = "decrement"
    /\ sessions' = IF HasSession(key[t]) THEN [sessions EXCEPT ![key[t]] = Drop(@)] ELSE sessions
    /\ Return(t)
    /\ UNCHANGED <<leases, lease_seq, spawn_gates, started, attach_requests_total,
                   process, evictorVars, known, overlapped>>

--------------------------------------------------------------------------------
\* dispatch_attach, once the lease is granted

\* Mutant: a failed stream endpoint is reported without giving the lease back.
KeepLeaseOfFailedStream(t) ==
    /\ pc[t] = "reply"
    /\ HasSession(key[t])
    /\ Return(t)
    /\ UNCHANGED <<registryVars, process, evictorVars, known, overlapped>>

ReplyAttachOk(t) ==
    /\ pc[t] = "reply"
    /\ HasSession(key[t])
    /\ known' = known \cup {lease[t]}
    /\ Return(t)
    /\ UNCHANGED <<registryVars, process, evictorVars, overlapped>>

\* session_handle found no record: E_INTERNAL, and the lease is not released.
ReplyHandleMissing(t) ==
    /\ pc[t] = "reply"
    /\ ~HasSession(key[t])
    /\ Return(t)
    /\ UNCHANGED <<registryVars, process, evictorVars, known, overlapped>>

\* The dedicated stream endpoint could not be created: the lease is released.
ReplyStreamFailed(t) ==
    /\ pc[t] = "reply"
    /\ HasSession(key[t])
    /\ IF leases[lease[t]] # NoKey
       THEN TakeLease(t, lease[t])
       ELSE /\ Return(t)
            /\ UNCHANGED <<registryVars, process, evictorVars, known, overlapped>>

--------------------------------------------------------------------------------
\* call_by_lease_id and notify_by_lease_id

\* The lease is looked up; an unknown one is answered without touching anything.
Call(t, l) ==
    /\ pc[t] = "idle"
    /\ l \in known
    /\ leases[l] # NoKey
    /\ pc' = [pc EXCEPT ![t] = "route"]
    /\ key' = [key EXCEPT ![t] = leases[l]]
    /\ UNCHANGED <<registryVars, gate, lease, child, process, evictorVars, known, overlapped>>

\* Under the sessions lock: refuse a missing or terminating session, else touch it and
\* clone its runtime.
RouteCall(t) ==
    /\ pc[t] = "route"
    /\ IF HasSession(key[t]) /\ sessions[key[t]].terminating = NotTerminating
       THEN /\ sessions' = [sessions EXCEPT ![key[t]] = Touch(@)]
            /\ pc' = [pc EXCEPT ![t] = "call"]
            /\ child' = [child EXCEPT ![t] = sessions[key[t]].handle]
            /\ UNCHANGED <<key, gate, lease>>
       ELSE /\ Return(t)
            /\ UNCHANGED sessions
    /\ UNCHANGED <<leases, lease_seq, spawn_gates, started, attach_requests_total,
                   process, evictorVars, known, overlapped>>

\* The runtime answers (or, for a notification, has taken the message) ...
CallAnswered(t) ==
    /\ pc[t] = "call"
    /\ Goto(t, "touch")
    /\ UNCHANGED <<registryVars, process, evictorVars, known, overlapped>>

\* ... or fails: its channels are closed or the reader lagged.
CallFailed(t) ==
    /\ pc[t] = "call"
    /\ Return(t)
    /\ UNCHANGED <<registryVars, process, evictorVars, known, overlapped>>

\* The answer touches whatever record the key has by now.
TouchAfterCall(t) ==
    /\ pc[t] = "touch"
    /\ sessions' = IF HasSession(key[t]) THEN [sessions EXCEPT ![key[t]] = Touch(@)] ELSE sessions
    /\ Return(t)
    /\ UNCHANGED <<leases, lease_seq, spawn_gates, started, attach_requests_total,
                   process, evictorVars, known, overlapped>>

--------------------------------------------------------------------------------
\* The evictors

\* idle_ttl passes without a touch of the record.
Expire(k) ==
    /\ HasSession(k)
    /\ ~sessions[k].expired
    /\ sessions' = [sessions EXCEPT ![k].expired = TRUE]
    /\ UNCHANGED <<leases, lease_seq, spawn_gates, started, attach_requests_total, process,
                   handlerVars, evictorVars, known, overlapped>>

\* Mutant: the reference count is not consulted.
IdleCandidateIgnoringReferences(k) ==
    HasSession(k) /\ sessions[k].terminating = NotTerminating /\ sessions[k].expired

\* Mutant: the deadline comparison is inverted.
IdleCandidateBeforeDeadline(k) ==
    /\ HasSession(k)
    /\ sessions[k].terminating = NotTerminating
    /\ sessions[k].ref_count = 0
    /\ ~sessions[k].expired

IdleCandidate(k) ==
    /\ HasSession(k)
    /\ sessions[k].terminating = NotTerminating
    /\ sessions[k].ref_count = 0
    /\ sessions[k].expired

\* A tick of the eviction loop: idle_candidates marks and collects under the sessions lock.
ScanIdle ==
    /\ IdleEvictor \in Evictors
    /\ epc[IdleEvictor] = "tick"
    /\ LET candidates == {k \in Keys : IdleCandidate(k)}
       IN /\ candidates # {}
          /\ sessions' = [k \in Keys |-> IF k \in candidates
                             THEN [sessions[k] EXCEPT !.terminating = IdleEvictor]
                             ELSE sessions[k]]
          /\ todo' = [todo EXCEPT ![IdleEvictor] =
                         {[key |-> k, handle |-> sessions[k].handle] : k \in candidates}]
    /\ epc' = [epc EXCEPT ![IdleEvictor] = "next"]
    /\ UNCHANGED <<leases, lease_seq, spawn_gates, started, attach_requests_total, process,
                   handlerVars, victim, known, overlapped>>

\* A tick of the memory monitor: any sessions of the snapshot may be over budget.
ScanMemory ==
    /\ MemoryEvictor \in Evictors
    /\ epc[MemoryEvictor] = "tick"
    /\ \E over \in SUBSET {k \in Keys : HasSession(k)} :
          /\ over # {}
          /\ todo' = [todo EXCEPT ![MemoryEvictor] =
                         {[key |-> k, handle |-> sessions[k].handle] : k \in over}]
    /\ epc' = [epc EXCEPT ![MemoryEvictor] = "next"]
    /\ UNCHANGED <<registryVars, process, handlerVars, victim, known, overlapped>>

\* The daemon stops: all_handles takes every handle of the table.
ScanAll ==
    /\ ShutdownTask \in Evictors
    /\ epc[ShutdownTask] = "tick"
    /\ \E k \in Keys : HasSession(k)
    /\ todo' = [todo EXCEPT ![ShutdownTask] =
                   {[key |-> k, handle |-> sessions[k].handle] :
                       k \in {j \in Keys : HasSession(j)}}]
    /\ epc' = [epc EXCEPT ![ShutdownTask] = "next"]
    /\ UNCHANGED <<registryVars, process, handlerVars, victim, known, overlapped>>

\* Take the next handle of the list; the memory monitor first marks whatever record its key has.
StartEviction(e) ==
    /\ epc[e] = "next"
    /\ \E c \in todo[e] :
          /\ victim' = [victim EXCEPT ![e] = c]
          /\ todo' = [todo EXCEPT ![e] = @ \ {c}]
          /\ sessions' = IF e = MemoryEvictor /\ HasSession(c.key)
                         THEN [sessions EXCEPT ![c.key].terminating = MemoryEvictor]
                         ELSE sessions
    /\ epc' = [epc EXCEPT ![e] = "stop"]
    /\ UNCHANGED <<leases, lease_seq, spawn_gates, started, attach_requests_total, process,
                   handlerVars, known, overlapped>>

\* Mutant: the session is removed without waiting for its process.
SkipStop(e) ==
    /\ epc[e] = "stop"
    /\ epc' = [epc EXCEPT ![e] = "remove"]
    /\ UNCHANGED <<registryVars, process, handlerVars, todo, victim, known, overlapped>>

\* The awaited shutdown returns, or the force_stop after it failed does.  (That too may fail, with
\* an error of the system that is only logged: "stopped" includes it, since nothing is done then
\* that is not done otherwise.)
StopVictim(e) ==
    /\ epc[e] = "stop"
    /\ process' = [process EXCEPT ![victim[e].handle] = "stopped"]
    /\ epc' = [epc EXCEPT ![e] = "remove"]
    /\ UNCHANGED <<registryVars, handlerVars, todo, victim, known, overlapped>>

\* remove, first half: the record of the key, whichever it is, leaves the table.
RemoveSession(e) ==
    /\ epc[e] = "remove"
    /\ sessions' = [sessions EXCEPT ![victim[e].key] = NoSession]
    /\ overlapped' = IF Releasing(victim[e].key) # {} THEN overlapped \cup {victim[e].key}
                     ELSE overlapped
    /\ epc' = [epc EXCEPT ![e] = "purge"]
    /\ UNCHANGED <<leases, lease_seq, spawn_gates, started, attach_requests_total, process,
                   handlerVars, todo, victim, known>>

\* Mutant: the leases of the key stay.
PurgeGateOnly(e) ==
    /\ epc[e] = "purge"
    /\ spawn_gates' = [spawn_gates EXCEPT ![victim[e].key] = NoGate]
    /\ epc' = [epc EXCEPT ![e] = IF todo[e] = {} THEN "tick" ELSE "next"]
    /\ victim' = [victim EXCEPT ![e] = NoVictim]
    /\ UNCHANGED <<sessions, leases, lease_seq, started, attach_requests_total, process,
                   handlerVars, todo, known, overlapped>>

\* remove, second half: the leases and the gate of the key.  The leases lock is held until the
\* gate is gone, and no other critical section touches leases and gates together: one action.
PurgeLeases(e) ==
    /\ epc[e] = "purge"
    /\ leases' = [l \in LeaseIds |-> IF leases[l] = victim[e].key THEN NoKey ELSE leases[l]]
    /\ spawn_gates' = [spawn_gates EXCEPT ![victim[e].key] = NoGate]
    /\ epc' = [epc EXCEPT ![e] = IF todo[e] = {} THEN "tick" ELSE "next"]
    /\ victim' = [victim EXCEPT ![e] = NoVictim]
    /\ UNCHANGED <<sessions, lease_seq, started, attach_requests_total, process,
                   handlerVars, todo, known, overlapped>>

--------------------------------------------------------------------------------
AttachStep(t) ==
    \/ Reuse(t)
    \/ FindNoSession(t)
    \/ EnterGate(t)
    \/ SpawnOk(t)
    \/ SpawnError(t)
    \/ ReopenGate(t)
    \/ InsertSession(t)
    \/ DropGate(t)
    \/ ReplyAttachOk(t)
    \/ ReplyHandleMissing(t)
    \/ ReplyStreamFailed(t)

RequestStep(t) ==
    \/ Decrement(t)
    \/ RouteCall(t)
    \/ TouchAfterCall(t)

\* What only the environment decides: requests, answers of a server, failures.
ClientStep(t) ==
    \/ \E k \in Keys : Attach(t, k)
    \/ \E l \in LeaseIds : Release(t, l) \/ Call(t, l)
    \/ CallAnswered(t)
    \/ CallFailed(t)

EvictionStep(e) ==
    \/ StartEviction(e)
    \/ StopVictim(e)
    \/ RemoveSession(e)
    \/ PurgeLeases(e)

Next ==
    \/ \E t \in Handlers : AttachStep(t) \/ RequestStep(t) \/ ClientStep(t)
    \/ \E e \in Evictors : EvictionStep(e)
    \/ \E k \in Keys : Expire(k)
    \/ ScanIdle
    \/ ScanMemory
    \/ ScanAll

Spec == Init /\ [][Next]_vars

\* Tokio polls every woken task, its locks queue first-in first-out, and the eviction loop ticks
\* every second; a spawn returns because the server answers `initialize`.  Nothing obliges a
\* client to send a request, a server to answer a call, or memory to run out.
Fairness ==
    /\ \A t \in Handlers : WF_vars(AttachStep(t)) /\ WF_vars(RequestStep(t))
    /\ \A e \in Evictors : WF_vars(EvictionStep(e))
    /\ \A k \in Keys : WF_vars(Expire(k))
    /\ WF_vars(ScanIdle)

FairSpec == Spec /\ Fairness

--------------------------------------------------------------------------------
\* Properties

\* Every variable stays in its domain; in particular no ref_count drops below zero, although
\* a release may decrement a record its lease never counted in (release_by_lease_id).
TypeOK ==
    /\ sessions \in [Keys -> SessionRecord]
    /\ leases \in [LeaseIds -> Keys \cup {NoKey}]
    /\ lease_seq \in 1..(MaxAttach + 1)
    /\ spawn_gates \in [Keys -> Gates \cup {NoGate}]
    /\ started \in [Gates -> BOOLEAN]
    /\ attach_requests_total \in 0..MaxAttach
    /\ process \in [Processes -> {"unborn", "up", "stopped"}]
    /\ pc \in [Handlers -> {"idle", "decrement", "route", "call", "touch"} \cup AttachPcs]
    /\ key \in [Handlers -> Keys \cup {NoKey}]
    /\ gate \in [Handlers -> Gates \cup {NoGate}]
    /\ lease \in [Handlers -> LeaseIds \cup {NoLease}]
    /\ child \in [Handlers -> Processes \cup {NoProcess}]
    /\ epc \in [Evictors -> {"tick", "next", "stop", "remove", "purge"}]
    /\ todo \in [Evictors -> SUBSET Victims]
    /\ victim \in [Evictors -> Victims \cup {NoVictim}]
    /\ known \subseteq LeaseIds
    /\ overlapped \subseteq Keys

\* A gate object lets one handler at a time past it (acquire_or_spawn, the `started` flag).
OneSpawnerPerGate ==
    \A t, u \in Handlers :
        Spawner(t) /\ Spawner(u) /\ gate[t] = gate[u] => t = u

\* No lost wakeup: an attach parked on a gate's Notify always has a handler that spawns under
\* that very gate and will notify it, even after the gate has left the map.
WaiterHasSpawner ==
    \A t \in Handlers : pc[t] = "wait" =>
        \E u \in Handlers : Spawner(u) /\ gate[u] = gate[t]

\* The spawn gates serialise: a gate object has one spawner at a time and nobody waits at one
\* that has none (acquire_or_spawn and the Notify of SpawnGate).
GatesSound == OneSpawnerPerGate /\ WaiterHasSpawner

\* A lease whose session record is gone is about to be purged: some evictor stands between the
\* two halves of `remove`.  The "lease found, session missing" paths are transient.
DanglingLeaseIsPurged ==
    \A l \in LeaseIds : leases[l] # NoKey /\ ~HasSession(leases[l]) => Purging(leases[l]) # {}

\* No lease is lost by dispatch_attach: a live lease is known to a client, or a handler is
\* about to answer with it, or an evictor is about to purge it.  In particular the E_INTERNAL
\* answer, which does not release the lease, leaves none behind.
LeaseReachesClient ==
    \A l \in LeaseIds : leases[l] # NoKey =>
        \/ l \in known
        \/ \E t \in Handlers : pc[t] = "reply" /\ lease[t] = l
        \/ Purging(leases[l]) # {}

\* ref_count is the number of leases on the key plus the releases that have taken theirs and not
\* yet decremented -- except for a key where an attach or a release ran between the two halves
\* of a removal, or a removal between the two halves of a release.
RefCountExact ==
    \A k \in Keys \ overlapped :
        IF HasSession(k)
        THEN sessions[k].ref_count = Cardinality(LeasesOn(k)) + Cardinality(Releasing(k))
        ELSE Releasing(k) = {}

\* The eviction loop never condemns a leased session, again unless a removal was overlapped.
IdleScanSparesLeased ==
    [][\A k \in Keys \ overlapped :
          sessions[k].terminating # IdleEvictor /\ sessions'[k].terminating = IdleEvictor
              => LeasesOn(k) = {} /\ Releasing(k) = {}]_vars

\* A session leaves the table only when a stop of its process has been awaited.  (True of the
\* eviction loop alone: `remove` takes the record that the key has by then, and a second evictor
\* may have made room for a new one.)
RemovalFollowsStop ==
    [][\A k \in Keys : HasSession(k) /\ ~HasSession(k)'
          => process[sessions[k].handle] = "stopped"]_vars

\* Every attach is answered: no waiter is left behind and no retry loop spins forever.
AttachIsAnswered ==
    \A t \in Handlers : pc[t] \in AttachPcs ~> pc[t] = "idle"

\* A session nobody holds a reference or a lease on is removed, or leased again.
UnreferencedIsEvicted ==
    \A k \in Keys :
        (HasSession(k) /\ sessions[k].ref_count = 0 /\ LeasesOn(k) = {})
            ~> (~HasSession(k) \/ LeasesOn(k) # {})

================================================================================
