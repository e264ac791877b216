------------------------------ MODULE MemoryPolicy ------------------------------
(***************************************************************************)
(* The memory monitor's rounds: snapshot the registry, run `ps` for one    *)
(* session after the other, choose whom to evict, evict them one after the *)
(* other.  The sessions change under it all the time.  What an eviction    *)
(* does to the registry's tables is SessionRegistry's; here a session is   *)
(* the part of its record that the policy looks at.                        *)
(***************************************************************************)
EXTENDS Integers, Sequences, FiniteSets, FiniteSetsExt

CONSTANTS
    Keys,
    Rss,         \* resident sizes, in bytes
    MaxIdle,     \* bound: idle times that are told apart
    Budgets,     \* <<max_session_mb, max_total_mb>> to choose from: mebibytes, or Unset
    Unset,
    MiB,         \* 1024 * 1024
    WordSize,    \* 2^64
    MaxChanges   \* bound: changes of the sessions in a behaviour

ASSUME SizesAssumption    == Rss \subseteq Nat /\ MaxIdle \in Nat /\ MaxChanges \in Nat
ASSUME SettingsAssumption == /\ Budgets \subseteq (Nat \cup {Unset}) \X (Nat \cup {Unset})
                             /\ Unset \notin Nat
ASSUME WordAssumption     == MiB \in Nat /\ WordSize \in Nat \ {0}
ASSUME KeysAssumption     == IsFiniteSet(Keys)

VARIABLES
    max_session_mb, max_total_mb, \* the configuration
    table,      \* table[k]: the session of key k, or Absent
    round,      \* what the monitor is at
    unsampled,  \* keys of the snapshot whose `ps` has not run yet
    samples,    \* samples[k]: the snapshot of key k, with its size once sampled
    remaining, total_bytes, \* locals of select_evictions
    selected,   \* the keys to evict, in order
    evicted,    \* how many of them are gone
    changes,
    disturbed   \* history: a session changed, or a `ps` failed, since the last snapshot

settings  == <<max_session_mb, max_total_mb>>
selection == <<remaining, total_bytes, selected, evicted>>
vars == <<settings, table, round, unsampled, samples, selection, changes, disturbed>>

Session == [rss : Rss \cup {0}, leased : BOOLEAN, editor : BOOLEAN, idle_for : 0..MaxIdle]
Absent  == [rss |-> 0, leased |-> FALSE, editor |-> FALSE, idle_for |-> -1]
Fresh   == {s \in Session : s.rss \in Rss /\ (s.editor => s.leased)}

In(t) == {k \in Keys : t[k] # Absent}

\* Size(t, S): the sum of the sizes that t gives to the keys of S.
Size(t, S) == MapThenSumSet(LAMBDA k : t[k].rss, S)

Overflows(mb) == mb # Unset /\ mb * MiB >= WordSize

\* Mutant: the product is taken in a word eight times narrower.
NarrowBytes(mb) == IF mb = Unset THEN Unset ELSE (mb * MiB) % (WordSize \div 8)

\* mb * 1024 * 1024 in a u64 of a release build.
Bytes(mb) == IF mb = Unset THEN Unset ELSE (mb * MiB) % WordSize

max_session_bytes == Bytes(max_session_mb)
max_total_bytes   == Bytes(max_total_mb)
enabled == max_session_bytes # Unset \/ max_total_bytes # Unset

Init ==
    /\ \E b \in Budgets : max_session_mb = b[1] /\ max_total_mb = b[2]
    /\ table = [k \in Keys |-> Absent]
    /\ round = "start"
    /\ unsampled = {}
    /\ samples = [k \in Keys |-> Absent]
    /\ remaining = {}
    /\ total_bytes = 0
    /\ selected = <<>>
    /\ evicted = 0
    /\ changes = 0
    /\ disturbed = TRUE

--------------------------------------------------------------------------------
\* The monitor starts and clients fill the table.  A debug build panics on an overflowing
\* product instead, and the daemon does not come up.
Start ==
    /\ round = "start"
    /\ \/ /\ round' = "tick"
          /\ table' \in [Keys -> Fresh \cup {Absent}]
       \/ /\ Overflows(max_session_mb) \/ Overflows(max_total_mb)
          /\ round' = "panicked"
          /\ UNCHANGED table
    /\ UNCHANGED <<settings, unsampled, samples, selection, changes, disturbed>>

\* memory_snapshots: reference counts, idle times and client kinds, under one lock.
Snapshot ==
    /\ round = "tick"
    /\ enabled
    /\ samples' = [k \in Keys |-> [table[k] EXCEPT !.rss = 0]]
    /\ unsampled' = In(table)
    /\ round' = "sample"
    /\ disturbed' = FALSE
    /\ UNCHANGED <<settings, table, selection, changes>>

\* `ps` answers for one session, with its size of now ...
Sample(k) ==
    /\ round = "sample"
    /\ k \in unsampled
    /\ samples' = [samples EXCEPT ![k].rss = table[k].rss]
    /\ unsampled' = unsampled \ {k}
    /\ UNCHANGED <<settings, table, round, selection, changes, disturbed>>

\* ... or fails, and the session counts as empty.
SampleFails(k) ==
    /\ round = "sample"
    /\ k \in unsampled
    /\ changes < MaxChanges
    /\ changes' = changes + 1
    /\ disturbed' = TRUE
    /\ unsampled' = unsampled \ {k}
    /\ UNCHANGED <<settings, table, round, samples, selection>>

\* Mutant: editors first.
EditorsFirst(a, b) == a.editor /\ ~b.editor

\* sort_candidates: no editor, then no lease, then the longer idle, then the larger.
Precedes(a, b) ==
    \/ ~a.editor /\ b.editor
    \/ /\ a.editor = b.editor
       /\ \/ ~a.leased /\ b.leased
          \/ /\ a.leased = b.leased
             /\ \/ a.idle_for > b.idle_for
                \/ a.idle_for = b.idle_for /\ a.rss > b.rss

\* The candidates that the sort may put first: equal ones stay in the order of a hash map.
Foremost(S) == {k \in S : \A j \in S : ~Precedes(samples[j], samples[k])}

OverLimit == {k \in remaining : max_session_bytes # Unset /\ samples[k].rss > max_session_bytes}

BeginSelection ==
    /\ round = "sample"
    /\ unsampled = {}
    /\ remaining' = In(samples)
    /\ round' = "session_budget"
    /\ UNCHANGED <<settings, table, unsampled, samples, total_bytes, selected, evicted,
                   changes, disturbed>>

\* Mutant: an over-limit session is selected and stays a candidate.
SelectKeepingCandidate(k) ==
    /\ selected' = Append(selected, k)
    /\ remaining' = remaining

\* Into the result, out of the candidates; so dedupe_by_key has nothing left to drop.
Select(k) ==
    /\ selected' = Append(selected, k)
    /\ remaining' = remaining \ {k}

SelectOverLimit ==
    /\ round = "session_budget"
    /\ \E k \in Foremost(OverLimit) : Select(k)
    /\ UNCHANGED <<settings, table, round, unsampled, samples, total_bytes, evicted,
                   changes, disturbed>>

SumRemaining ==
    /\ round = "session_budget"
    /\ OverLimit = {}
    /\ total_bytes' = Size(samples, remaining)
    /\ round' = IF max_total_bytes = Unset THEN "evict" ELSE "total_budget"
    /\ UNCHANGED <<settings, table, unsampled, samples, remaining, selected, evicted,
                   changes, disturbed>>

\* Mutant: sessions are taken until all are gone.
OverTotalForEver == TRUE

OverTotal == total_bytes > max_total_bytes

SelectForTotal ==
    /\ round = "total_budget"
    /\ OverTotal
    /\ \E k \in Foremost(remaining) :
          /\ Select(k)
          /\ total_bytes' = IF samples[k].rss > total_bytes THEN 0
                            ELSE total_bytes - samples[k].rss
    /\ UNCHANGED <<settings, table, round, unsampled, samples, evicted, changes, disturbed>>

EndSelection ==
    /\ round = "total_budget"
    /\ ~OverTotal \/ remaining = {}
    /\ round' = "evict"
    /\ UNCHANGED <<settings, table, unsampled, samples, selection, changes, disturbed>>

\* Mutant: the victim is stopped and stays in the table.
EvictInName ==
    /\ round = "evict"
    /\ evicted < Len(selected)
    /\ evicted' = evicted + 1
    /\ UNCHANGED <<settings, table, round, unsampled, samples, remaining, total_bytes, selected,
                   changes, disturbed>>

\* evict_session, whatever the session has become since it was sampled.
Evict ==
    /\ round = "evict"
    /\ evicted < Len(selected)
    /\ evicted' = evicted + 1
    /\ table' = [table EXCEPT ![selected[evicted + 1]] = Absent]
    /\ UNCHANGED <<settings, round, unsampled, samples, remaining, total_bytes, selected,
                   changes, disturbed>>

EndRound ==
    /\ round = "evict"
    /\ evicted = Len(selected)
    /\ round' = "tick"
    /\ samples' = [k \in Keys |-> Absent]
    /\ remaining' = {}
    /\ total_bytes' = 0
    /\ selected' = <<>>
    /\ evicted' = 0
    /\ UNCHANGED <<settings, table, unsampled, changes, disturbed>>

\* What session s, or none, can turn into.
Successors(s) ==
    IF s = Absent THEN {t \in Fresh : t.leased /\ t.idle_for = 0}
    ELSE {Absent} \cup {t \in Fresh \ {s} : t.rss = s.rss \/ t = [s EXCEPT !.rss = t.rss]}

\* A server grows or shrinks, a client attaches or releases, time passes, a session is spawned
\* or removed.  select_evictions reads its samples only, so that changes during it are the same
\* as changes after it.
Change(k) ==
    /\ round \in {"tick", "sample", "evict"}
    /\ changes < MaxChanges
    /\ changes' = changes + 1
    /\ disturbed' = TRUE
    /\ \E s \in Successors(table[k]) : table' = [table EXCEPT ![k] = s]
    /\ UNCHANGED <<settings, round, unsampled, samples, selection>>

Monitor ==
    \/ Start \/ Snapshot
    \/ \E k \in Keys : Sample(k)
    \/ BeginSelection \/ SelectOverLimit \/ SumRemaining \/ SelectForTotal \/ EndSelection
    \/ Evict \/ EndRound

Next ==
    \/ Monitor
    \/ \E k \in Keys : SampleFails(k) \/ Change(k)

Spec == Init /\ [][Next]_vars

\* The ticker fires every check_interval and `ps` returns.
FairSpec == Spec /\ WF_vars(Monitor)

--------------------------------------------------------------------------------
\* Properties
Chosen == {selected[i] : i \in 1..Len(selected)}

\* Every variable stays in its domain, and no session is both chosen and still a candidate
\* (select_evictions, the retain calls).
TypeOK ==
    /\ <<max_session_mb, max_total_mb>> \in Budgets
    /\ table \in [Keys -> Session \cup {Absent}]
    /\ round \in {"start", "tick", "sample", "session_budget", "total_budget", "evict", "panicked"}
    /\ unsampled \subseteq Keys
    /\ samples \in [Keys -> Session \cup {Absent}]
    /\ remaining \subseteq Keys \ Chosen
    /\ total_bytes \in Nat
    /\ selected \in Seq(Keys)
    /\ evicted \in 0..Len(selected)
    /\ changes \in 0..MaxChanges
    /\ disturbed \in BOOLEAN

\* a is at most as worth keeping as b: it has no editor unless b has one, no lease unless b has
\* one, and has been idle for as long as b unless b matters more.
NotWorthier(a, b) ==
    /\ a.editor => b.editor
    /\ a.editor = b.editor /\ a.leased => b.leased
    /\ a.editor = b.editor /\ a.leased = b.leased => a.idle_for >= b.idle_for

\* A session within its own limit is chosen only after every session that is worth less: no
\* editor goes while an idle session is spared (select_evictions, sort_candidates).
PriorityKept ==
    round \in {"total_budget", "evict"} =>
        \A k \in Chosen, j \in In(samples) \ Chosen :
            \/ max_session_bytes # Unset /\ samples[k].rss > max_session_bytes
            \/ NotWorthier(samples[k], samples[j])

\* No session goes needlessly: without the last one taken for the total, the rest as sampled
\* was over it (select_evictions, the second loop and its break).
LastChoiceNeeded ==
    round = "evict" /\ selected # <<>> =>
        LET last   == selected[Len(selected)]
            spared == In(samples) \ Chosen
        IN  \/ max_session_bytes # Unset /\ samples[last].rss > max_session_bytes
            \/ /\ max_total_bytes # Unset
               /\ Size(samples, spared \cup {last}) > max_total_bytes

WithinBudget(t) ==
    /\ max_session_bytes # Unset => \A k \in In(t) : t[k].rss <= max_session_bytes
    /\ max_total_bytes # Unset => Size(t, In(t)) <= max_total_bytes

\* A round during which no session changed and every `ps` answered leaves the table within both
\* budgets, although they are met one after the other (collect_samples, evict_session).
QuietRoundMeetsBudget == round = "tick" /\ ~disturbed => WithinBudget(table)

\* Only pressure on the configured budget evicts; a product that wraps in memory_settings is
\* the one exception.
OnlyPressureEvicts ==
    selected # <<>> =>
        \/ Overflows(max_session_mb) \/ Overflows(max_total_mb)
        \/ max_session_mb # Unset /\ \E k \in In(samples) : samples[k].rss > max_session_mb * MiB
        \/ max_total_mb # Unset /\ Size(samples, In(samples)) > max_total_mb * MiB

\* Samples go stale, `ps` fails and leases come and go between sampling and eviction; once that
\* ends, the sessions are brought within the budget for good.
BudgetIsMetInTheEnd == <>[](round # "panicked" => WithinBudget(table))

================================================================================
