--------------------------- MODULE MCSessionRegistry ---------------------------
(* Small instances of SessionRegistry, and what the documents say of it. *)
EXTENDS RegistryService, TLC

CONSTANTS k1, k2, t1, t2, g1, g2, g3, g4

OneKey    == {k1}
TwoKeys   == {k1, k2}
TwoTasks  == {t1, t2}
ThreeGates == {g1, g2, g3}
FourGates == {g1, g2, g3, g4}
IdleOnly  == {IdleEvictor}
AllThree  == {IdleEvictor, MemoryEvictor, ShutdownTask}

\* No definition chooses among keys or handlers.
KeyAndTaskSymmetry == Permutations({k1, k2}) \cup Permutations({t1, t2})

\* "ref_count ensures no active client gets terminated"
\* (docs/specs/daemon-session-lifecycle.md, Why both ref_count and activity timestamp).
ActiveClientKept ==
    \A k \in Keys : HasSession(k) /\ LeasesOn(k) # {} => process[sessions[k].handle] = "up"

================================================================================
