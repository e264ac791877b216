------------------------- MODULE RegistryServiceProofs -------------------------
(***************************************************************************)
(* Machine-checked proof that the session registry implements the lease    *)
(* service, for every set of keys, handlers, evictors and gates.           *)
(***************************************************************************)
EXTENDS RegistryService, SessionRegistryProofs

USE EvictorsAssumption, NullsAssumption, MaxAttachAssumption

\* The empty registry is the idle service.
LEMMA InitRefines == Init => Service!Init
  BY DEF Init, Service!Init, Sessions, HeldLeases, HasSession, NoSession, NewRecord

\* A step that keeps the leases, the presence of every session and the purges is invisible.
LEMMA Invisible ==
    ASSUME Typed,
           leases' = leases, lease_seq' = lease_seq,
           \A k \in Keys : HasSession(k)' <=> HasSession(k),
           \A k \in Keys : Purging(k)' = Purging(k)
    PROVE  UNCHANGED Service!service
  <1>1. Sessions' = Sessions
    BY DEF Sessions
  <1>2. \A l \in LeaseIds : leases[l] # NoKey => leases[l] \in Keys
    BY DEF Typed, TypeOK
  <1>3. HeldLeases' = HeldLeases
    BY <1>2 DEF HeldLeases
  <1>. QED  BY <1>1, <1>3 DEF Service!service

\* The same, for the steps that leave the sessions and the evictors alone.
LEMMA InvisibleHandler ==
    ASSUME Typed, UNCHANGED <<sessions, leases, lease_seq, epc, victim>>
    PROVE  UNCHANGED Service!service
  <1>1. \A k \in Keys : (HasSession(k)' <=> HasSession(k)) /\ Purging(k)' = Purging(k)
    BY DEF HasSession, Purging
  <1>. QED  BY <1>1, Invisible

\* A step that rewrites the record of one key and keeps its handle.
LEMMA InvisibleUpdate ==
    ASSUME Typed, UNCHANGED <<leases, lease_seq, epc, victim>>,
           NEW k \in Keys, NEW r \in SessionRecord, r.handle = sessions[k].handle,
           sessions' = [sessions EXCEPT ![k] = r]
    PROVE  UNCHANGED Service!service
  <1>1. \A j \in Keys : sessions'[j].handle = sessions[j].handle
    BY DEF Typed, TypeOK
  <1>2. \A j \in Keys : (HasSession(j)' <=> HasSession(j)) /\ Purging(j)' = Purging(j)
    BY <1>1 DEF HasSession, Purging
  <1>. QED  BY <1>2, Invisible

\* acquire_or_spawn grants a lease: one that is void when a purge of the key is under way.
LEMMA GrantRefines ==
    ASSUME Typed, LeaseInv, NEW t \in Handlers, key[t] \in Keys,
           NEW r \in SessionRecord, r.handle # NoProcess, Grant(t, r)
    PROVE  Service!Next
  <1> DEFINE k == key[t]
  <1>1. /\ lease_seq \in LeaseIds /\ lease_seq' = lease_seq + 1 /\ lease_seq \in Int
        /\ leases' = [leases EXCEPT ![lease_seq] = k]
        /\ leases \in [LeaseIds -> Keys \cup {NoKey}]
        /\ \A j \in Keys : Purging(j)' = Purging(j)
    BY DEF Grant, Typed, TypeOK, evictorVars, Purging, LeaseIds
  <1>2. leases[lease_seq] = NoKey
    BY <1>1 DEF LeaseInv, LeaseLocals
  <1>3. Sessions' = Sessions \cup {k}
    <2>1. sessions' = [sessions EXCEPT ![k] = Admit(r)] /\ sessions \in [Keys -> SessionRecord]
      BY DEF Grant, Typed, TypeOK
    <2>2. Admit(r).handle # NoProcess
      BY RecordUpdates
    <2>3. \A j \in Keys : HasSession(j)' <=> HasSession(j) \/ j = k
      BY <2>1, <2>2 DEF HasSession
    <2>. QED  BY <2>3 DEF Sessions
  <1>4. CASE Purging(k) = {}
    <2>1. HeldLeases' = [HeldLeases EXCEPT ![lease_seq] = k]
      BY <1>1, <1>2, <1>4 DEF HeldLeases
    <2>2. Service!Grant(k)
      BY <1>1, <1>3, <2>1 DEF Service!Grant
    <2>. QED  BY <2>2 DEF Service!Next
  <1>5. CASE Purging(k) # {}
    <2>1. HeldLeases' = HeldLeases
      BY <1>1, <1>2, <1>5 DEF HeldLeases
    <2>2. Service!GrantVoid(k)
      BY <1>1, <1>3, <2>1 DEF Service!GrantVoid
    <2>. QED  BY <2>2 DEF Service!Next
  <1>. QED  BY <1>4, <1>5

\* The first half of a release gives the lease back, unless it was void already.
LEMMA TakeRefines ==
    ASSUME Typed, NEW t \in Handlers, NEW l \in LeaseIds, leases[l] # NoKey, TakeLease(t, l)
    PROVE  Service!Next \/ UNCHANGED Service!service
  <1>1. /\ leases' = [leases EXCEPT ![l] = NoKey]
        /\ leases \in [LeaseIds -> Keys \cup {NoKey}]
        /\ lease_seq' = lease_seq
        /\ \A j \in Keys : Purging(j)' = Purging(j)
    BY DEF TakeLease, Typed, TypeOK, evictorVars, Purging
  <1>2. Sessions' = Sessions
    BY DEF TakeLease, Sessions, HasSession
  <1>3. CASE Purging(leases[l]) = {}
    <2>0. \A m \in LeaseIds : HeldLeases'[m] = IF m = l THEN NoKey ELSE HeldLeases[m]
      BY <1>1 DEF HeldLeases
    <2>1. HeldLeases' = [HeldLeases EXCEPT ![l] = NoKey] /\ HeldLeases[l] # NoKey
      BY <1>3, <2>0 DEF HeldLeases
    <2>2. Service!Release(l)
      BY <1>1, <1>2, <2>1 DEF Service!Release
    <2>. QED  BY <2>2 DEF Service!Next
  <1>4. CASE Purging(leases[l]) # {}
    <2>1. HeldLeases' = HeldLeases
      BY <1>1, <1>4 DEF HeldLeases
    <2>. QED  BY <1>1, <1>2, <2>1 DEF Service!service
  <1>. QED  BY <1>3, <1>4

\* The first half of remove ends the session and voids its leases.
LEMMA RemoveRefines ==
    ASSUME Typed, NEW e \in Evictors, RemoveSession(e)
    PROVE  Service!Next
  <1> DEFINE k == victim[e].key
  <1>1. k \in Keys
    BY DEF RemoveSession, Typed, TypeOK, LocalsOK, Victims
  <1>2. Sessions' = Sessions \ {k}
    BY <1>1 DEF RemoveSession, Sessions, HasSession, NoSession, NewRecord, Typed, TypeOK
  <1>3. /\ leases' = leases /\ lease_seq' = lease_seq
        /\ leases \in [LeaseIds -> Keys \cup {NoKey}]
        /\ e \in Purging(k)' /\ victim' = victim
        /\ \A j \in Keys \ {k} : Purging(j)' = Purging(j)
    BY DEF RemoveSession, Purging, Typed, TypeOK
  <1>4. HeldLeases' = [l \in LeaseIds |-> IF HeldLeases[l] = k THEN NoKey ELSE HeldLeases[l]]
    <2>1. ASSUME NEW l \in LeaseIds, leases[l] = k
          PROVE  HeldLeases'[l] = NoKey /\ HeldLeases[l] \in {k, NoKey}
      <3>1. Purging(leases[l])' # {}
        BY <1>3, <2>1
      <3>. QED  BY <2>1, <3>1 DEF HeldLeases
    <2>2. ASSUME NEW l \in LeaseIds, leases[l] # k
          PROVE  HeldLeases'[l] = HeldLeases[l] /\ HeldLeases[l] # k
      <3>1. CASE leases[l] = NoKey
        BY <1>1, <1>3, <3>1 DEF HeldLeases
      <3>2. CASE leases[l] \in Keys \ {k}
        <4>1. Purging(leases[l])' = Purging(leases[l])
          BY <1>3, <3>2
        <4>. QED  BY <1>1, <1>3, <2>2, <4>1 DEF HeldLeases
      <3>. QED  BY <1>3, <2>2, <3>1, <3>2
    <2>3. HeldLeases' = [l \in LeaseIds |-> HeldLeases'[l]]
      BY DEF HeldLeases
    <2>. QED  BY <2>1, <2>2, <2>3
  <1>5. Service!End(k)
    BY <1>2, <1>3, <1>4 DEF Service!End
  <1>. QED  BY <1>1, <1>5 DEF Service!Next

\* The second half of remove clears leases that are void already.
LEMMA PurgeRefines ==
    ASSUME Typed, NEW e \in Evictors, PurgeLeases(e)
    PROVE  UNCHANGED Service!service
  <1> DEFINE k == victim[e].key
  <1>1. k \in Keys /\ e \in Purging(k)
    BY DEF PurgeLeases, Typed, TypeOK, LocalsOK, Victims, Purging
  <1>2. /\ Sessions' = Sessions /\ lease_seq' = lease_seq
        /\ leases \in [LeaseIds -> Keys \cup {NoKey}]
        /\ leases' = [l \in LeaseIds |-> IF leases[l] = k THEN NoKey ELSE leases[l]]
    BY DEF PurgeLeases, Sessions, HasSession, Typed, TypeOK
  <1>3. \A j \in Keys \ {k} : Purging(j)' = Purging(j)
    BY <1>1 DEF PurgeLeases, Purging, Typed, TypeOK, NoVictim
  <1>4. HeldLeases' = HeldLeases
    BY <1>1, <1>2, <1>3 DEF HeldLeases
  <1>. QED  BY <1>2, <1>4 DEF Service!service

\* Every step of an attach grants a lease, gives it back or is invisible.
LEMMA AttachRefines ==
    ASSUME Typed, LeaseInv, NEW t \in Handlers, AttachStep(t)
    PROVE  Service!Next \/ UNCHANGED Service!service
  <1>1. CASE Reuse(t)
    <2>1. /\ key[t] \in Keys /\ sessions[key[t]] \in SessionRecord
          /\ sessions[key[t]].handle # NoProcess /\ Grant(t, sessions[key[t]])
      BY <1>1 DEF Reuse, HasSession, Typed, TypeOK, LocalsOK
    <2>. QED  BY <2>1, GrantRefines
  <1>2. CASE InsertSession(t)
    <2> DEFINE r == IF HasSession(key[t]) THEN sessions[key[t]] ELSE NewRecord(child[t])
    <2>1. key[t] \in Keys /\ child[t] \in Processes /\ Grant(t, r)
      BY <1>2 DEF InsertSession, Typed, TypeOK, LocalsOK
    <2>2. child[t] # NoProcess
      BY <2>1 DEF Processes, NoProcess
    <2>3. r \in SessionRecord /\ r.handle # NoProcess
      BY <2>1, <2>2, NewRecordType DEF HasSession, Typed, TypeOK
    <2>. QED  BY <2>1, <2>3, GrantRefines
  <1>3. CASE ReplyStreamFailed(t)
    <2>1. CASE leases[lease[t]] # NoKey
      <3>1. lease[t] \in LeaseIds /\ TakeLease(t, lease[t])
        BY <1>3, <2>1 DEF ReplyStreamFailed, Typed, LocalsOK
      <3>. QED  BY <2>1, <3>1, TakeRefines
    <2>2. CASE leases[lease[t]] = NoKey
      <3>1. UNCHANGED <<sessions, leases, lease_seq, epc, victim>>
        BY <1>3, <2>2 DEF ReplyStreamFailed, registryVars, evictorVars
      <3>. QED  BY <3>1, InvisibleHandler
    <2>. QED  BY <2>1, <2>2
  <1>4. CASE \/ FindNoSession(t) \/ EnterGate(t) \/ SpawnOk(t) \/ SpawnError(t)
             \/ ReopenGate(t) \/ DropGate(t) \/ ReplyAttachOk(t) \/ ReplyHandleMissing(t)
    <2>1. UNCHANGED <<sessions, leases, lease_seq, epc, victim>>
      BY <1>4 DEF FindNoSession, EnterGate, SpawnOk, SpawnError, ReopenGate, DropGate,
                  ReplyAttachOk, ReplyHandleMissing, registryVars, evictorVars
    <2>. QED  BY <2>1, InvisibleHandler
  <1>. QED  BY <1>1, <1>2, <1>3, <1>4 DEF AttachStep

\* A release or a call gives a lease back or is invisible.
LEMMA RequestRefines ==
    ASSUME Typed, NEW t \in Handlers, RequestStep(t) \/ ClientStep(t)
    PROVE  Service!Next \/ UNCHANGED Service!service
  <1>1. CASE \E l \in LeaseIds : Release(t, l)
    <2>1. PICK l \in LeaseIds : leases[l] # NoKey /\ TakeLease(t, l)
      BY <1>1 DEF Release
    <2>. QED  BY <2>1, TakeRefines
  <1>2. CASE \/ \E k \in Keys : Attach(t, k)
             \/ \E l \in LeaseIds : Call(t, l)
             \/ CallAnswered(t) \/ CallFailed(t)
    <2>1. UNCHANGED <<sessions, leases, lease_seq, epc, victim>>
      BY <1>2 DEF Attach, Call, CallAnswered, CallFailed, registryVars, evictorVars
    <2>. QED  BY <2>1, InvisibleHandler
  <1>3. CASE RequestStep(t)
    <2>1. UNCHANGED <<leases, lease_seq, epc, victim>>
      BY <1>3 DEF RequestStep, Decrement, RouteCall, TouchAfterCall, evictorVars
    <2>2. key[t] \in Keys /\ sessions[key[t]] \in SessionRecord
      BY <1>3 DEF RequestStep, Decrement, RouteCall, TouchAfterCall, Typed, TypeOK, LocalsOK
    <2>3. \/ sessions' = sessions
          \/ sessions' = [sessions EXCEPT ![key[t]] = Drop(sessions[key[t]])]
          \/ sessions' = [sessions EXCEPT ![key[t]] = Touch(sessions[key[t]])]
      BY <1>3 DEF RequestStep, Decrement, RouteCall, TouchAfterCall
    <2>4. CASE sessions' = sessions
      BY <2>1, <2>4, InvisibleHandler
    <2>5. CASE sessions' # sessions
      BY <2>1, <2>2, <2>3, <2>5, RecordUpdates, InvisibleUpdate
    <2>. QED  BY <2>4, <2>5
  <1>. QED  BY <1>1, <1>2, <1>3 DEF ClientStep

\* A step of an eviction ends a session or is invisible.
LEMMA EvictionRefines ==
    ASSUME Typed, NEW e \in Evictors, EvictionStep(e)
    PROVE  Service!Next \/ UNCHANGED Service!service
  <1>1. CASE StartEviction(e)
    <2>1. /\ leases' = leases /\ lease_seq' = lease_seq /\ epc[e] = "next"
          /\ epc' = [epc EXCEPT ![e] = "stop"]
      BY <1>1 DEF StartEviction
    <2>2. PICK c \in todo[e] :
              /\ victim' = [victim EXCEPT ![e] = c]
              /\ sessions' = IF e = MemoryEvictor /\ HasSession(c.key)
                             THEN [sessions EXCEPT ![c.key].terminating = MemoryEvictor]
                             ELSE sessions
      BY <1>1 DEF StartEviction
    <2>3. c.key \in Keys
      BY DEF Typed, TypeOK, Victims
    <2>4. \A k \in Keys : sessions'[k].handle = sessions[k].handle
      BY <2>2, <2>3, RecordUpdates DEF Typed, TypeOK, Terminations
    <2>5. \A k \in Keys : Purging(k)' = Purging(k)
      BY <2>1, <2>2 DEF Purging, Typed, TypeOK
    <2>. QED  BY <2>1, <2>4, <2>5, Invisible DEF HasSession
  <1>2. CASE StopVictim(e)
    <2>1. \A k \in Keys : (HasSession(k)' <=> HasSession(k)) /\ Purging(k)' = Purging(k)
      BY <1>2 DEF StopVictim, registryVars, HasSession, Purging, Typed, TypeOK
    <2>. QED  BY <1>2, <2>1, Invisible DEF StopVictim, registryVars
  <1>. QED  BY <1>1, <1>2, RemoveRefines, PurgeRefines DEF EvictionStep

\* Time and the scans are invisible.
LEMMA ScanRefines ==
    ASSUME Typed, (\E k \in Keys : Expire(k)) \/ ScanIdle \/ ScanMemory \/ ScanAll
    PROVE  UNCHANGED Service!service
  <1>1. CASE \E k \in Keys : Expire(k)
    <2>1. PICK k \in Keys : Expire(k)
      BY <1>1
    <2>2. sessions[k] \in SessionRecord /\ sessions' = [sessions EXCEPT ![k] = [@ EXCEPT !.expired = TRUE]]
      BY <2>1 DEF Expire, Typed, TypeOK
    <2>. QED  BY <2>1, <2>2, RecordUpdates, InvisibleUpdate DEF Expire, evictorVars
  <1>2. CASE ScanIdle \/ ScanMemory \/ ScanAll
    <2>1. \A k \in Keys : sessions'[k].handle = sessions[k].handle
      <3>1. CASE ScanIdle
        <4>1. \A k \in Keys : \/ sessions'[k] = sessions[k]
                              \/ sessions'[k] = [sessions[k] EXCEPT !.terminating = IdleEvictor]
          BY <3>1 DEF ScanIdle
        <4>. QED  BY <4>1, RecordUpdates DEF Typed, TypeOK, Terminations
      <3>2. CASE ScanMemory \/ ScanAll
        BY <3>2 DEF ScanMemory, ScanAll, registryVars
      <3>. QED  BY <1>2, <3>1, <3>2
    <2>2. /\ leases' = leases /\ lease_seq' = lease_seq /\ victim' = victim
          /\ \E e \in Evictors : epc[e] = "tick" /\ epc' = [epc EXCEPT ![e] = "next"]
      BY <1>2 DEF ScanIdle, ScanMemory, ScanAll, registryVars
    <2>3. \A k \in Keys : Purging(k)' = Purging(k)
      BY <2>2 DEF Purging, Typed, TypeOK
    <2>. QED  BY <2>1, <2>2, <2>3, Invisible DEF HasSession
  <1>. QED  BY <1>1, <1>2

\* Every step of the registry is a step of the lease service or invisible to it.
LEMMA StepRefines ==
    Typed /\ LeaseInv /\ [Next]_vars => [Service!Next]_(Service!service)
  <1> SUFFICES ASSUME Typed, LeaseInv, [Next]_vars
               PROVE  Service!Next \/ UNCHANGED Service!service
    OBVIOUS
  <1>1. CASE UNCHANGED vars
    BY <1>1, InvisibleHandler DEF vars, registryVars, evictorVars
  <1>2. CASE Next
    BY <1>2, AttachRefines, RequestRefines, EvictionRefines, ScanRefines DEF Next
  <1>. QED  BY <1>1, <1>2

\* The registry, with its gates, its two-lock handlers and its evictors, implements the lease
\* service: leases are numbered once, end with their session and are given back at most once.
THEOREM RegistryRefines == Spec => ImplementsLeaseService
  <1>1. Spec => [](Typed /\ LeaseInv)
    BY AlwaysTyped, InitLease, StepLease, PTL DEF Spec
  <1>. QED
    BY <1>1, InitRefines, StepRefines, PTL DEF Spec, ImplementsLeaseService, Service!Spec

\* What a client may rely on: a lease that is not void is on a session of the table, although the
\* two tables of the registry are updated under two locks.
THEOREM HeldLeasesHaveSessions == Spec => []Service!HeldLeaseHasSession
  <1>1. Typed /\ DanglingLeaseIsPurged => Service!HeldLeaseHasSession
    <2> SUFFICES ASSUME Typed, DanglingLeaseIsPurged, NEW l \in LeaseIds, HeldLeases[l] # NoKey
                 PROVE  HeldLeases[l] \in Sessions
      BY DEF Service!HeldLeaseHasSession
    <2>1. leases[l] # NoKey /\ Purging(leases[l]) = {} /\ HeldLeases[l] = leases[l]
      BY DEF HeldLeases
    <2>2. leases[l] \in Keys /\ HasSession(leases[l])
      BY <2>1 DEF DanglingLeaseIsPurged, Typed, TypeOK
    <2>. QED  BY <2>1, <2>2 DEF Sessions
  <1>. QED  BY <1>1, AlwaysTyped, NoDanglingLease, PTL

================================================================================
