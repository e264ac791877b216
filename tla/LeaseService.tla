------------------------------ MODULE LeaseService ------------------------------
(***************************************************************************)
(* What the session registry promises, without its locks, gates and tasks: *)
(* which keys have a session and which leases are held on them.  A lease   *)
(* number is issued once; a held lease has its session; a session ends     *)
(* together with all of its leases, in one step.                           *)
(***************************************************************************)
EXTENDS Integers

CONSTANTS Keys, LeaseIds, NoKey

VARIABLES
    running,  \* the keys that have a session
    held,     \* held[l]: the key that lease l is on, or NoKey
    issued    \* lease numbers handed out so far

service == <<running, held, issued>>

Init ==
    /\ running = {}
    /\ held = [l \in LeaseIds |-> NoKey]
    /\ issued = 0

\* An attach: the session is started unless there is one, and the next lease is on it.
Grant(k) ==
    /\ issued + 1 \in LeaseIds
    /\ issued' = issued + 1
    /\ running' = running \cup {k}
    /\ held' = [held EXCEPT ![issued + 1] = k]

\* An attach that meets the end of the previous session: its lease is void from the start, the
\* session it started or found stays.
GrantVoid(k) ==
    /\ issued + 1 \in LeaseIds
    /\ issued' = issued + 1
    /\ running' = running \cup {k}
    /\ UNCHANGED held

Release(l) ==
    /\ held[l] # NoKey
    /\ held' = [held EXCEPT ![l] = NoKey]
    /\ UNCHANGED <<running, issued>>

\* A session ends, idle, over budget or with the daemon.
End(k) ==
    /\ running' = running \ {k}
    /\ held' = [l \in LeaseIds |-> IF held[l] = k THEN NoKey ELSE held[l]]
    /\ UNCHANGED issued

Next ==
    \/ \E k \in Keys : Grant(k) \/ GrantVoid(k) \/ End(k)
    \/ \E l \in LeaseIds : Release(l)

Spec == Init /\ [][Next]_service

\* A lease that is held is on a session that runs.
HeldLeaseHasSession == \A l \in LeaseIds : held[l] # NoKey => held[l] \in running
================================================================================
