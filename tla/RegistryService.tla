----------------------------- MODULE RegistryService -----------------------------
(***************************************************************************)
(* The session registry as an implementation of LeaseService: a session    *)
(* and its leases end when the first half of `remove` drops the record;    *)
(* what is left in the lease table until the second half is void.          *)
(***************************************************************************)
EXTENDS SessionRegistry

Sessions      == {k \in Keys : HasSession(k)}
HeldLeases    == [l \in LeaseIds |-> IF leases[l] # NoKey /\ Purging(leases[l]) = {}
                                     THEN leases[l] ELSE NoKey]

Service == INSTANCE LeaseService WITH
    running <- Sessions, held <- HeldLeases, issued <- lease_seq - 1

\* Every interleaving of attaches, releases, calls and removals, with the two locks that each
\* of them takes one after the other, is a behaviour of the lease service (acquire_or_spawn,
\* release_by_lease_id, remove).
ImplementsLeaseService == Service!Spec
================================================================================
