-------------------------- MODULE MCDaemonLifecycle --------------------------
(* Small instances of DaemonLifecycle, and what the documents say of it. *)
EXTENDS DaemonLifecycle

CONSTANTS k1, t1, g1, g2

OneKey      == {k1}
OneTask     == {t1}
TwoGates    == {g1, g2}
AllTtls     == {NoTtl, 0, 2}
ZeroTtl     == {0}
AllEvictors == {IdleEvictor, MemoryEvictor, ShutdownTask}
LoopAndStop == {IdleEvictor, ShutdownTask}

\* What docs/src/includes/daemon-auto-shutdown.md:24 says: "When `daemon_idle_ttl_secs` is `0`,
\* the daemon only stops via `lspee stop`, a `Shutdown` control message, or a system signal."
\* The code takes a limit of 0 as a countdown that is over at once (EvictionLoop::start).
ZeroNeverFires ==
    [][daemon_idle_ttl = 0 /\ shutdown_sent' # shutdown_sent => RequestShutdown]_lifeVars

================================================================================
