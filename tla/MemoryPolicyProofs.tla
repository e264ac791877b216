-------------------------- MODULE MemoryPolicyProofs --------------------------
(***************************************************************************)
(* The memory monitor's choices and what a round achieves, for every set   *)
(* of keys, sizes and budgets.                                             *)
(***************************************************************************)
EXTENDS MemoryPolicy, FiniteSetTheorems, WellFoundedInduction, TLAPS

Selecting == {"session_budget", "total_budget", "evict"}

\* The domains of the variables that the choice depends on; a session waiting for its `ps` is one
\* of the snapshot, nothing is selected outside a selection and no `ps` is awaited in one.
RoundOK ==
    /\ table \in [Keys -> Session \cup {Absent}]
    /\ samples \in [Keys -> Session \cup {Absent}]
    /\ unsampled \subseteq In(samples)
    /\ selected \in Seq(Keys)
    /\ round \notin Selecting => selected = <<>>
    /\ round \in Selecting => unsampled = {}

OverOwnLimit(k) == max_session_bytes # Unset /\ samples[k].rss > max_session_bytes

\* The candidates are the sessions of the snapshot that are not selected yet; what is selected was
\* over its own limit, or is worth no more than any candidate.
SelectionOK ==
    /\ round \in Selecting => remaining = In(samples) \ Chosen
    /\ round = "session_budget" => \A k \in Chosen : OverOwnLimit(k)
    /\ round \in {"total_budget", "evict"} =>
          \A k \in Chosen, j \in remaining :
              OverOwnLimit(k) \/ NotWorthier(samples[k], samples[j])

PolicyInv == RoundOK /\ SelectionOK

\* An absent session is no session, and zeroing a size changes neither.
LEMMA Zeroed ==
    ASSUME NEW s \in Session \cup {Absent}
    PROVE  /\ [s EXCEPT !.rss = 0] \in Session \cup {Absent}
           /\ [s EXCEPT !.rss = 0] = Absent <=> s = Absent
  <1>1. CASE s = Absent
    BY <1>1 DEF Absent
  <1>2. CASE s \in Session
    <2>1. s.idle_for # -1
      BY <1>2, SizesAssumption DEF Session
    <2>2. [s EXCEPT !.rss = 0] \in Session /\ [s EXCEPT !.rss = 0].idle_for = s.idle_for
      BY <1>2 DEF Session
    <2>. QED  BY <2>1, <2>2 DEF Absent
  <1>. QED  BY <1>1, <1>2

\* The size that `ps` reports turns a sample into a sample.
LEMMA Sized ==
    ASSUME NEW s \in Session, NEW t \in Session \cup {Absent}
    PROVE  [s EXCEPT !.rss = t.rss] \in Session /\ [s EXCEPT !.rss = t.rss] # Absent
  BY SizesAssumption DEF Session, Absent

\* Whatever the sort leaves first is worth no more than the rest.
LEMMA ForemostIsCheapest ==
    ASSUME RoundOK, NEW S \in SUBSET Keys, S \subseteq In(samples),
           NEW k \in Foremost(S), NEW j \in S
    PROVE  NotWorthier(samples[k], samples[j])
  <1>1. samples[k] \in Session /\ samples[j] \in Session
    BY DEF RoundOK, Foremost, In
  <1>2. ~Precedes(samples[j], samples[k])
    BY DEF Foremost
  <1>3. samples[k].idle_for \in Int /\ samples[j].idle_for \in Int
    BY <1>1, SizesAssumption DEF Session
  <1>4. /\ samples[k].editor \in BOOLEAN /\ samples[j].editor \in BOOLEAN
        /\ samples[k].leased \in BOOLEAN /\ samples[j].leased \in BOOLEAN
    BY <1>1 DEF Session
  <1>. QED  BY <1>2, <1>3, <1>4 DEF Precedes, NotWorthier

\* Selecting moves one key.
LEMMA Selects ==
    ASSUME RoundOK, NEW k \in Keys, Select(k)
    PROVE  /\ selected' \in Seq(Keys)
           /\ Chosen' = Chosen \cup {k}
           /\ remaining' = remaining \ {k}
  <1>1. selected' = Append(selected, k) /\ remaining' = remaining \ {k} /\ selected \in Seq(Keys)
    BY DEF Select, RoundOK
  <1>2. /\ selected' \in Seq(Keys) /\ Len(selected') = Len(selected) + 1
        /\ \A i \in 1..Len(selected) : selected'[i] = selected[i]
        /\ selected'[Len(selected) + 1] = k
    BY <1>1
  <1>3. 1..Len(selected') = 1..Len(selected) \cup {Len(selected) + 1}
    BY <1>1, <1>2
  <1>. QED  BY <1>1, <1>2, <1>3 DEF Chosen

\* Before the monitor starts, nothing is selected.
LEMMA InitPolicy == Init => PolicyInv
  BY DEF Init, PolicyInv, RoundOK, SelectionOK, Selecting, In, Session, Absent

\* A step that leaves the samples and the selection alone, outside or inside a round.
LEMMA PolicyFrame ==
    ASSUME PolicyInv, table' \in [Keys -> Session \cup {Absent}],
           UNCHANGED <<settings, samples, remaining, selected>>,
           unsampled' \subseteq unsampled,
           \/ round' = round
           \/ {round, round'} \subseteq {"start", "tick", "panicked"}
           \/ round = "total_budget" /\ round' = "evict"
           \/ /\ round = "session_budget" /\ round' \in {"total_budget", "evict"}
    PROVE  PolicyInv'
  <1>1. Chosen' = Chosen /\ In(samples)' = In(samples) /\ max_session_bytes' = max_session_bytes
    BY DEF Chosen, In, max_session_bytes, settings, Bytes
  <1>2. RoundOK'
    BY DEF PolicyInv, RoundOK, Selecting, In
  <1>3. \A k : OverOwnLimit(k)' <=> OverOwnLimit(k)
    BY <1>1 DEF OverOwnLimit
  <1>4. SelectionOK'
    BY <1>1, <1>3 DEF PolicyInv, SelectionOK, Selecting
  <1>. QED  BY <1>2, <1>4 DEF PolicyInv

\* A selection from the foremost of some of the candidates, all over their limit in the first loop.
LEMMA PolicySelect ==
    ASSUME PolicyInv, NEW k \in remaining, Select(k),
           UNCHANGED <<settings, table, round, samples, unsampled>>,
           \/ round = "session_budget" /\ OverOwnLimit(k)
           \/ round = "total_budget" /\ k \in Foremost(remaining)
    PROVE  PolicyInv'
  <1>0. round \in Selecting /\ remaining = In(samples) \ Chosen
    BY DEF PolicyInv, SelectionOK, Selecting
  <1>1. k \in Keys /\ remaining \subseteq In(samples) /\ remaining \in SUBSET Keys
    BY <1>0 DEF In
  <1>2. /\ selected' \in Seq(Keys)
        /\ Chosen' = Chosen \cup {k}
        /\ remaining' = remaining \ {k}
    BY <1>1, Selects DEF PolicyInv
  <1>3. In(samples)' = In(samples) /\ max_session_bytes' = max_session_bytes
    BY DEF In, max_session_bytes, settings, Bytes
  <1>4. \A j : OverOwnLimit(j)' <=> OverOwnLimit(j)
    BY <1>3 DEF OverOwnLimit
  <1>5. RoundOK'
    BY <1>0, <1>2 DEF PolicyInv, RoundOK, In
  <1>6. remaining' = In(samples)' \ Chosen'
    BY <1>0, <1>2, <1>3
  <1>7. CASE round = "session_budget"
    BY <1>2, <1>4, <1>5, <1>6, <1>7 DEF PolicyInv, SelectionOK
  <1>8. CASE round = "total_budget"
    <2>1. \A j \in remaining : NotWorthier(samples[k], samples[j])
      BY <1>1, <1>8, ForemostIsCheapest DEF PolicyInv
    <2>2. \A i \in Chosen, j \in remaining : OverOwnLimit(i) \/ NotWorthier(samples[i], samples[j])
      BY <1>8 DEF PolicyInv, SelectionOK
    <2>3. \A i \in Chosen', j \in remaining' :
              OverOwnLimit(i)' \/ NotWorthier(samples'[i], samples'[j])
      BY <1>2, <1>4, <2>1, <2>2
    <2>. QED  BY <1>5, <1>6, <1>8, <2>3 DEF PolicyInv, SelectionOK
  <1>. QED  BY <1>5, <1>7, <1>8 DEF PolicyInv

\* Every step of the monitor and of the sessions under it keeps the invariant.
LEMMA StepPolicy == PolicyInv /\ [Next]_vars => PolicyInv'
  <1> SUFFICES ASSUME PolicyInv, [Next]_vars PROVE PolicyInv'
    OBVIOUS
  <1> USE DEF selection
  <1>1. CASE Start
    <2>1. table' \in [Keys -> Session \cup {Absent}]
      BY <1>1 DEF Start, Fresh, PolicyInv, RoundOK
    <2>. QED  BY <1>1, <2>1, PolicyFrame DEF Start
  <1>2. CASE Snapshot
    <2>1. /\ samples' = [k \in Keys |-> [table[k] EXCEPT !.rss = 0]] /\ unsampled' = In(table)
          /\ table' = table /\ selected' = selected /\ round = "tick" /\ round' = "sample"
      BY <1>2 DEF Snapshot
    <2>2. samples' \in [Keys -> Session \cup {Absent}] /\ In(samples') = In(table)
      BY <2>1, Zeroed DEF PolicyInv, RoundOK, In
    <2>. QED  BY <2>1, <2>2 DEF PolicyInv, RoundOK, SelectionOK, Selecting, In
  <1>3. CASE \E k \in Keys : Sample(k)
    <2>1. PICK k \in Keys : Sample(k)
      BY <1>3
    <2>2. /\ samples' = [samples EXCEPT ![k].rss = table[k].rss] /\ k \in unsampled
          /\ unsampled' = unsampled \ {k}
          /\ table' = table /\ selected' = selected /\ round = "sample" /\ round' = "sample"
      BY <2>1 DEF Sample
    <2>3. samples[k] \in Session /\ table[k] \in Session \cup {Absent}
      BY <2>2 DEF PolicyInv, RoundOK, In
    <2>4. \A j \in Keys : samples'[j] = IF j = k THEN [samples[k] EXCEPT !.rss = table[k].rss]
                                        ELSE samples[j]
      BY <2>2 DEF PolicyInv, RoundOK
    <2>5. samples' \in [Keys -> Session \cup {Absent}] /\ In(samples) \subseteq In(samples)'
      BY <2>2, <2>3, <2>4, Sized DEF PolicyInv, RoundOK, In
    <2>. QED  BY <2>2, <2>5 DEF PolicyInv, RoundOK, SelectionOK, Selecting
  <1>4. CASE \E k \in Keys : SampleFails(k)
    <2>1. /\ UNCHANGED <<settings, table, round, samples, remaining, selected>>
          /\ unsampled' \subseteq unsampled
      BY <1>4 DEF SampleFails
    <2>. QED  BY <2>1, PolicyFrame DEF PolicyInv, RoundOK
  <1>5. CASE BeginSelection
    <2>1. /\ UNCHANGED <<table, unsampled, samples, selected>> /\ remaining' = In(samples)
          /\ unsampled = {}
          /\ round = "sample" /\ round' = "session_budget"
      BY <1>5 DEF BeginSelection
    <2>2. selected = <<>>
      BY <2>1 DEF PolicyInv, RoundOK, Selecting
    <2>3. Chosen' = {}
      BY <2>1, <2>2 DEF Chosen
    <2>. QED  BY <2>1, <2>3 DEF PolicyInv, RoundOK, SelectionOK, Selecting, In
  <1>6. CASE SelectOverLimit
    <2>1. PICK k \in Foremost(OverLimit) : Select(k)
      BY <1>6 DEF SelectOverLimit
    <2>2. k \in remaining /\ OverOwnLimit(k)
      BY DEF Foremost, OverLimit, OverOwnLimit
    <2>3. UNCHANGED <<settings, table, round, samples, unsampled>> /\ round = "session_budget"
      BY <1>6 DEF SelectOverLimit
    <2>. QED  BY <2>1, <2>2, <2>3, PolicySelect
  <1>7. CASE SumRemaining \/ EndSelection
    <2>1. /\ UNCHANGED <<settings, table, unsampled, samples, remaining, selected>>
          /\ \/ round = "total_budget" /\ round' = "evict"
             \/ round = "session_budget" /\ round' \in {"total_budget", "evict"}
      BY <1>7 DEF SumRemaining, EndSelection
    <2>. QED  BY <2>1, PolicyFrame DEF PolicyInv, RoundOK
  <1>8. CASE SelectForTotal
    <2>1. PICK k \in Foremost(remaining) : Select(k)
      BY <1>8 DEF SelectForTotal
    <2>2. k \in remaining
      BY DEF Foremost
    <2>3. UNCHANGED <<settings, table, round, samples, unsampled>> /\ round = "total_budget"
      BY <1>8 DEF SelectForTotal
    <2>. QED  BY <2>1, <2>2, <2>3, PolicySelect
  <1>9. CASE Evict
    <2>1. UNCHANGED <<settings, round, unsampled, samples, remaining, selected>>
      BY <1>9 DEF Evict
    <2>2. table' \in [Keys -> Session \cup {Absent}]
      BY <1>9 DEF Evict, PolicyInv, RoundOK
    <2>. QED  BY <2>1, <2>2, PolicyFrame
  <1>10. CASE EndRound
    <2>1. /\ samples' = [k \in Keys |-> Absent] /\ selected' = <<>> /\ round' = "tick"
          /\ UNCHANGED <<table, unsampled>>
      BY <1>10 DEF EndRound
    <2>2. unsampled = {}
      BY <1>10 DEF EndRound, PolicyInv, RoundOK, Selecting
    <2>. QED  BY <2>1, <2>2 DEF PolicyInv, RoundOK, SelectionOK, Selecting
  <1>11. CASE \E k \in Keys : Change(k)
    <2>1. PICK k \in Keys : Change(k)
      BY <1>11
    <2>2. PICK s \in Successors(table[k]) : table' = [table EXCEPT ![k] = s]
      BY <2>1 DEF Change
    <2>3. s \in Session \cup {Absent}
      BY <2>2 DEF Successors, Fresh
    <2>. QED  BY <2>1, <2>2, <2>3, PolicyFrame DEF Change, PolicyInv, RoundOK
  <1>12. CASE UNCHANGED vars
    BY <1>12, PolicyFrame DEF vars, PolicyInv, RoundOK
  <1>. QED  BY <1>1, <1>2, <1>3, <1>4, <1>5, <1>6, <1>7, <1>8, <1>9, <1>10, <1>11, <1>12
            DEF Next, Monitor

\* Editors keep their sessions while anything worth less is spared, and so do leases and recently
\* used sessions, for every number of sessions and every budget (select_evictions).
THEOREM PriorityIsKept == Spec => []PriorityKept
  <1>1. PolicyInv => PriorityKept
    BY DEF PolicyInv, SelectionOK, Selecting, PriorityKept, OverOwnLimit
  <1>. QED  BY <1>1, InitPolicy, StepPolicy, PTL DEF Spec

--------------------------------------------------------------------------------
(* Why a session is evicted *)

\* The settings are one of the configured pairs; as long as nothing is selected for it, the total
\* is that of the whole snapshot.
PressureInv ==
    /\ <<max_session_mb, max_total_mb>> \in Budgets
    /\ round = "total_budget" /\ selected = <<>> => total_bytes = Size(samples, In(samples))
    /\ round = "total_budget" => max_total_mb # Unset
    /\ OnlyPressureEvicts

\* A budget whose product fits into the word is compared with as it was configured.
LEMMA FittingBudget ==
    ASSUME NEW mb \in Nat \cup {Unset}, mb # Unset, ~Overflows(mb)
    PROVE  Bytes(mb) = mb * MiB
  <1>1. mb * MiB \in Nat /\ mb * MiB < WordSize
    BY WordAssumption DEF Overflows
  <1>2. \A x, w \in Nat : x < w => x % w = x
    OBVIOUS
  <1>. QED  BY <1>1, <1>2, WordAssumption DEF Bytes

\* A setting that is not set has no product, and no other setting lacks one.
LEMMA BudgetIsSet ==
    ASSUME NEW mb \in Nat \cup {Unset}
    PROVE  Bytes(mb) = Unset <=> mb = Unset
  <1>1. \A x \in Nat, w \in Nat \ {0} : x % w \in Nat
    OBVIOUS
  <1>2. mb # Unset => mb * MiB \in Nat
    BY WordAssumption
  <1>. QED  BY <1>1, <1>2, WordAssumption, SettingsAssumption DEF Bytes

\* A step that leaves the settings, the samples and the selection alone.
LEMMA PressureFrame ==
    ASSUME PressureInv, UNCHANGED <<settings, samples, selected, total_bytes>>,
           round' = "total_budget" => round = "total_budget"
    PROVE  PressureInv'
  BY DEF PressureInv, settings, OnlyPressureEvicts, Overflows, In

\* Nothing is selected after the step.
LEMMA NothingSelected ==
    ASSUME PressureInv, UNCHANGED settings, selected' = <<>>, round' # "total_budget"
    PROVE  PressureInv'
  BY DEF PressureInv, settings, OnlyPressureEvicts

\* A selection from an over-limit session, or from a snapshot over the total, is under pressure.
LEMMA StepPressure == PolicyInv /\ PressureInv /\ [Next]_vars => PressureInv'
  <1> SUFFICES ASSUME PolicyInv, PressureInv, [Next]_vars PROVE PressureInv'
    OBVIOUS
  <1> USE DEF selection
  <1>1. /\ max_session_mb \in Nat \cup {Unset} /\ max_total_mb \in Nat \cup {Unset}
    BY SettingsAssumption DEF PressureInv
  <1>2. round \notin Selecting => selected = <<>>
    BY DEF PolicyInv, RoundOK
  <1>3. CASE \/ Start \/ Snapshot \/ (\E k \in Keys : Sample(k)) \/ BeginSelection
    <2>1. UNCHANGED settings /\ selected' = selected /\ round' # "total_budget"
          /\ round \notin Selecting
      BY <1>3 DEF Start, Snapshot, Sample, BeginSelection, Selecting
    <2>. QED  BY <1>2, <2>1, NothingSelected
  <1>4. CASE SelectOverLimit
    <2>1. PICK k \in Foremost(OverLimit) : Select(k)
      BY <1>4 DEF SelectOverLimit
    <2>2. k \in remaining /\ max_session_bytes # Unset /\ samples[k].rss > max_session_bytes
      BY DEF Foremost, OverLimit
    <2>3. /\ UNCHANGED <<settings, samples>> /\ round = "session_budget" /\ round' = round
      BY <1>4 DEF SelectOverLimit
    <2>4. k \in In(samples)
      BY <2>2, <2>3 DEF PolicyInv, SelectionOK, Selecting
    <2>5. max_session_mb # Unset
      BY <1>1, <2>2, BudgetIsSet DEF max_session_bytes
    <2>6. Overflows(max_session_mb) \/ samples[k].rss > max_session_mb * MiB
      BY <1>1, <2>2, <2>5, FittingBudget DEF max_session_bytes
    <2>7. OnlyPressureEvicts'
      BY <2>3, <2>4, <2>5, <2>6 DEF OnlyPressureEvicts, In, settings, Overflows
    <2>. QED  BY <2>3, <2>7 DEF PressureInv, settings
  <1>5. CASE SumRemaining
    <2>1. /\ UNCHANGED <<settings, samples, selected>> /\ round = "session_budget"
          /\ total_bytes' = Size(samples, remaining)
          /\ round' = IF max_total_bytes = Unset THEN "evict" ELSE "total_budget"
      BY <1>5 DEF SumRemaining
    <2>2. selected = <<>> => remaining = In(samples)
      <3>1. selected = <<>> => Chosen = {}
        BY DEF Chosen
      <3>2. remaining = In(samples) \ Chosen
        BY <2>1 DEF PolicyInv, SelectionOK, Selecting
      <3>3. In(samples) \ {} = In(samples)
        OBVIOUS
      <3>. QED  BY <3>1, <3>2, <3>3
    <2>3. OnlyPressureEvicts'
      BY <2>1 DEF PressureInv, OnlyPressureEvicts, In, settings, Overflows
    <2>4. round' = "total_budget" => max_total_mb # Unset
      BY <1>1, <2>1, BudgetIsSet DEF max_total_bytes
    <2>5. selected' = <<>> => total_bytes' = Size(samples', In(samples'))
      BY <2>1, <2>2
    <2>. QED  BY <2>1, <2>3, <2>4, <2>5 DEF PressureInv, settings
  <1>6. CASE SelectForTotal
    <2>1. PICK k \in Foremost(remaining) : Select(k)
      BY <1>6 DEF SelectForTotal
    <2>2. /\ UNCHANGED <<settings, samples>> /\ round = "total_budget" /\ round' = round
          /\ total_bytes > max_total_bytes
      BY <1>6 DEF SelectForTotal, OverTotal
    <2>3. selected' # <<>>
      BY <2>1 DEF Select, PolicyInv, RoundOK
    <2>4. CASE selected # <<>>
      <3>1. OnlyPressureEvicts'
        BY <2>2, <2>4 DEF PressureInv, OnlyPressureEvicts, In, settings, Overflows
      <3>. QED  BY <2>2, <2>3, <3>1 DEF PressureInv, settings
    <2>5. CASE selected = <<>>
      <3>1. Size(samples, In(samples)) > max_total_bytes /\ max_total_mb # Unset
        BY <2>2, <2>5 DEF PressureInv
      <3>2. Overflows(max_total_mb) \/ Size(samples, In(samples)) > max_total_mb * MiB
        BY <1>1, <3>1, FittingBudget DEF max_total_bytes
      <3>3. OnlyPressureEvicts'
        BY <2>2, <3>1, <3>2 DEF OnlyPressureEvicts, In, settings, Overflows
      <3>. QED  BY <2>2, <2>3, <3>3 DEF PressureInv, settings
    <2>. QED  BY <2>4, <2>5
  <1>7. CASE EndSelection \/ Evict \/ (\E k \in Keys : SampleFails(k) \/ Change(k)) \/ UNCHANGED vars
    <2>1. /\ UNCHANGED <<settings, samples, selected, total_bytes>>
          /\ round' = "total_budget" => round = "total_budget"
      BY <1>7 DEF EndSelection, Evict, SampleFails, Change, vars
    <2>. QED  BY <2>1, PressureFrame
  <1>8. CASE EndRound
    <2>1. UNCHANGED settings /\ selected' = <<>> /\ round' = "tick"
      BY <1>8 DEF EndRound
    <2>. QED  BY <2>1, NothingSelected
  <1>. QED  BY <1>3, <1>4, <1>5, <1>6, <1>7, <1>8 DEF Next, Monitor

\* Without an overflowing budget no session is ever selected unless a session of the snapshot was
\* over the configured limit or the snapshot over the configured total, for every budget.
THEOREM EvictionNeedsPressure == Spec => []OnlyPressureEvicts
  <1>1. Init => PressureInv
    <2> SUFFICES ASSUME Init PROVE PressureInv
      OBVIOUS
    <2>1. PICK b \in Budgets : max_session_mb = b[1] /\ max_total_mb = b[2]
      BY DEF Init
    <2>2. <<max_session_mb, max_total_mb>> \in Budgets
      BY <2>1, SettingsAssumption
    <2>. QED  BY <2>2 DEF Init, PressureInv, OnlyPressureEvicts
  <1>2. PressureInv => OnlyPressureEvicts
    BY DEF PressureInv
  <1>. QED  BY <1>1, <1>2, InitPolicy, StepPolicy, StepPressure, PTL DEF Spec

--------------------------------------------------------------------------------
(* Sums of sizes.  What a fold over a finite set computes is shown with a  *)
(* least counterexample in place of induction.                             *)

\* Every set of numbers has a least one ...
LEMMA LeastNumber ==
    ASSUME NEW T, T \subseteq Nat, T # {}
    PROVE  \E m \in T : \A k \in T : m <= k
  <1> DEFINE R == OpToRel(<,Nat)
  <1>1. IsWellFoundedOn(R, Nat)
    BY NatLessThanWellFounded
  <1>2. \A x, y \in Nat : <<y,x>> \in R <=> y < x
    BY Zenon DEF OpToRel
  <1> HIDE DEF R
  <1>3. PICK x \in T : \A y \in T : ~ (<<y, x>> \in R)
    BY <1>1, WFMin
  <1>4. \A y \in T : x <= y
    <2>1. SUFFICES ASSUME NEW y \in T PROVE x <= y
      OBVIOUS
    <2>2. x \in Nat /\ y \in Nat /\ ~(y < x)
      BY <1>2, <1>3
    <2>. QED  BY <2>2
  <1>. QED  BY <1>4

\* ... and every set of subsets of a finite set a smallest one.
LEMMA LeastSubset ==
    ASSUME NEW D, IsFiniteSet(D), NEW T, T \subseteq SUBSET D, T # {}
    PROVE  \E m \in T : \A k \in T : k \subseteq m => k = m
  <1> DEFINE R == StrictSubsetOrdering(D)
  <1>1. IsWellFoundedOn(R, SUBSET D)
    BY FS_StrictSubsetOrderingWellFounded, FS_FiniteSubsetsOfFinite
  <1>2. \A x, y \in SUBSET D : <<y,x>> \in R <=> y \subseteq x /\ y # x
    BY DEF StrictSubsetOrdering
  <1> HIDE DEF R
  <1>3. PICK x \in T : \A y \in T : ~ (<<y, x>> \in R)
    BY <1>1, WFMin
  <1>4. \A y \in T : y \subseteq x => y = x
    BY <1>2, <1>3
  <1>. QED  BY <1>4

\* The element that MapThenSumSet takes next, and one step of its recursion.
Pick(s) == CHOOSE x \in s : TRUE
Fold(t, g, s) == IF s = {} THEN 0 ELSE t[Pick(s)].rss + g[s \ {Pick(s)}]
IsFold(g, t, D) == g = [s \in SUBSET D |-> Fold(t, g, s)]

\* Size is the value of a recursive function on the subsets, if there is one.
LEMMA Unfold ==
    ASSUME NEW t, NEW D
    PROVE  Size(t, D) = (CHOOSE g : g = [s \in SUBSET D |-> Fold(t, g, s)])[D]
  BY DEF Size, MapThenSumSet, MapThenFoldSet, Fold, Pick

\* Size satisfies the recursion if anything does.
LEMMA UnfoldSize ==
    ASSUME NEW t, NEW D, NEW h, IsFold(h, t, D)
    PROVE  \E g : IsFold(g, t, D) /\ Size(t, D) = g[D]
  <1> DEFINE P(g) == g = [s \in SUBSET D |-> Fold(t, g, s)]
             c == CHOOSE g : P(g)
  <1>1. P(h)
    BY DEF IsFold
  <1>2. P(c)
    BY <1>1, Zenon
  <1>3. Size(t, D) = c[D]
    BY Unfold
  <1>. QED  BY <1>2, <1>3 DEF IsFold

\* There is one: level by level, from the empty set to sets of n elements.
LEMMA FoldExists ==
    ASSUME NEW t, NEW D, IsFiniteSet(D)
    PROVE  \E g : IsFold(g, t, D)
  <1> DEFINE Level(n) == {s \in SUBSET D : Cardinality(s) <= n}
             IsPart(g, n) == g = [s \in Level(n) |-> Fold(t, g, s)]
             Missing == {n \in Nat : ~ \E g : IsPart(g, n)}
  <1>1. \A s \in SUBSET D : IsFiniteSet(s) /\ Cardinality(s) \in Nat
    BY FS_Subset, FS_CardinalityType
  <1>2. \A s \in SUBSET D : s # {} =>
           Pick(s) \in s /\ s \ {Pick(s)} \in SUBSET D /\ Cardinality(s \ {Pick(s)}) = Cardinality(s) - 1
    <2>1. SUFFICES ASSUME NEW s \in SUBSET D, s # {}
           PROVE Pick(s) \in s /\ s \ {Pick(s)} \in SUBSET D /\ Cardinality(s \ {Pick(s)}) = Cardinality(s) - 1
      OBVIOUS
    <2>2. Pick(s) \in s
      BY <2>1 DEF Pick
    <2>. QED  BY <1>1, <2>2, FS_RemoveElement
  <1>3. 0 \notin Missing
    <2>1. \A s \in SUBSET D : Cardinality(s) <= 0 <=> s = {}
      BY <1>1, FS_EmptySet
    <2> DEFINE g == [s \in Level(0) |-> 0]
    <2>2. IsPart(g, 0)
      BY <2>1 DEF Fold
    <2>. QED  BY <2>2
  <1>4. ASSUME NEW n \in Nat, n \notin Missing PROVE n + 1 \notin Missing
    <2>1. PICK h : IsPart(h, n)
      BY <1>4
    <2> DEFINE g == [s \in Level(n + 1) |-> Fold(t, h, s)]
    <2>2. \A s \in Level(n) : s \in Level(n + 1) /\ g[s] = h[s]
      <3>1. SUFFICES ASSUME NEW s \in Level(n) PROVE s \in Level(n + 1) /\ g[s] = h[s]
        OBVIOUS
      <3>2. s \in Level(n + 1)
        BY <1>1
      <3>3. h[s] = Fold(t, h, s)
        BY <2>1
      <3>. QED  BY <3>2, <3>3
    <2>3. ASSUME NEW s \in Level(n + 1) PROVE Fold(t, g, s) = Fold(t, h, s)
      <3>1. CASE s = {}
        BY <3>1 DEF Fold
      <3>2. CASE s # {}
        <4>1. s \ {Pick(s)} \in Level(n)
          BY <1>1, <1>2, <3>2
        <4>2. g[s \ {Pick(s)}] = h[s \ {Pick(s)}]
          BY <2>2, <4>1
        <4> HIDE DEF g
        <4>. QED  BY <3>2, <4>2 DEF Fold
      <3>. QED  BY <3>1, <3>2
    <2>4. IsPart(g, n + 1)
      BY <2>3
    <2>. QED  BY <2>4
  <1>5. Missing = {}
    <2>1. SUFFICES ASSUME Missing # {} PROVE FALSE
      OBVIOUS
    <2>2. PICK m \in Missing : \A k \in Missing : m <= k
      <3>1. Missing \subseteq Nat OBVIOUS
      <3> HIDE DEF Missing
      <3>. QED  BY <2>1, <3>1, LeastNumber
    <2>3. m \in Nat /\ m # 0
      BY <1>3, <2>2
    <2>4. m - 1 \in Nat /\ (m - 1) + 1 = m /\ m - 1 \notin Missing
      <3> HIDE DEF Missing
      <3>. QED  BY <2>2, <2>3
    <2> HIDE DEF Missing
    <2>. QED  BY <1>4, <2>2, <2>4
  <1>6. Cardinality(D) \in Nat /\ Level(Cardinality(D)) = SUBSET D
    <2>1. \A s \in SUBSET D : Cardinality(s) <= Cardinality(D)
      BY FS_Subset
    <2>. QED  BY <2>1, FS_CardinalityType
  <1>7. PICK g : IsPart(g, Cardinality(D))
    BY <1>5, <1>6
  <1>. QED  BY <1>6, <1>7 DEF IsFold

\* So Size satisfies it on every finite set.
LEMMA SizeIsFold ==
    ASSUME NEW t, NEW D, IsFiniteSet(D)
    PROVE  \E g : IsFold(g, t, D) /\ Size(t, D) = g[D]
  <1>1. PICK h : IsFold(h, t, D)
    BY FoldExists
  <1>. QED  BY <1>1, UnfoldSize

\* The recursion has one solution, which looks at the sizes of the set's elements only.
LEMMA FoldSame ==
    ASSUME NEW t, NEW u, NEW D, NEW E, NEW g, NEW h, IsFiniteSet(D), E \subseteq D,
           IsFold(g, t, D), IsFold(h, u, E), \A k \in E : t[k].rss = u[k].rss
    PROVE  \A s \in SUBSET E : g[s] = h[s]
  <1> DEFINE Bad == {s \in SUBSET E : g[s] # h[s]}
  <1>1. ASSUME Bad # {} PROVE FALSE
    <2>1. PICK s \in Bad : \A r \in Bad : r \subseteq s => r = s
      <3>1. Bad \subseteq SUBSET D
        OBVIOUS
      <3> HIDE DEF Bad
      <3>. QED  BY <1>1, <3>1, LeastSubset
    <2>2. s \in SUBSET D /\ s \in SUBSET E /\ g[s] = Fold(t, g, s) /\ h[s] = Fold(u, h, s)
      BY <2>1 DEF IsFold
    <2>3. CASE s = {}
      BY <2>1, <2>2, <2>3 DEF Fold
    <2>4. CASE s # {}
      <3>1. Pick(s) \in s
        BY <2>4 DEF Pick
      <3>2. s \ {Pick(s)} \in SUBSET E /\ s \ {Pick(s)} \notin Bad
        BY <2>1, <2>2, <3>1
      <3>3. g[s \ {Pick(s)}] = h[s \ {Pick(s)}] /\ t[Pick(s)].rss = u[Pick(s)].rss
        BY <2>2, <3>1, <3>2
      <3>. QED  BY <2>1, <2>2, <2>4, <3>3 DEF Fold
    <2>. QED  BY <2>3, <2>4
  <1>. QED  BY <1>1

\* Tables with the same sizes have the same total.
LEMMA SizeSame ==
    ASSUME NEW t, NEW u, NEW S, IsFiniteSet(S), \A k \in S : t[k].rss = u[k].rss
    PROVE  Size(t, S) = Size(u, S)
  <1>1. PICK g : IsFold(g, t, S) /\ Size(t, S) = g[S]
    BY SizeIsFold
  <1>2. PICK h : IsFold(h, u, S) /\ Size(u, S) = h[S]
    BY SizeIsFold
  <1>3. \A s \in SUBSET S : g[s] = h[s]
    BY <1>1, <1>2, FoldSame
  <1>. QED  BY <1>1, <1>2, <1>3

\* No sessions have no size.
LEMMA SizeEmpty == ASSUME NEW t PROVE Size(t, {}) = 0
  <1>1. PICK g : IsFold(g, t, {}) /\ Size(t, {}) = g[{}]
    BY SizeIsFold, FS_EmptySet
  <1>. QED  BY <1>1 DEF IsFold, Fold

\* The size of a set is that of the element taken next and of the rest.
LEMMA SizePick ==
    ASSUME NEW t, NEW S, IsFiniteSet(S), S # {}
    PROVE  Pick(S) \in S /\ Size(t, S) = t[Pick(S)].rss + Size(t, S \ {Pick(S)})
  <1>1. Pick(S) \in S
    BY DEF Pick
  <1>2. PICK R : R = S \ {Pick(S)}
    OBVIOUS
  <1>3. IsFiniteSet(R) /\ R \subseteq S
    BY <1>2, FS_Subset
  <1>4. PICK g : IsFold(g, t, S) /\ Size(t, S) = g[S]
    BY SizeIsFold
  <1>5. PICK h : IsFold(h, t, R) /\ Size(t, R) = h[R]
    BY <1>3, SizeIsFold
  <1>6. g[R] = h[R]
    BY <1>3, <1>4, <1>5, FoldSame
  <1>7. g[S] = Fold(t, g, S)
    BY <1>4 DEF IsFold
  <1>. QED  BY <1>1, <1>2, <1>4, <1>5, <1>6, <1>7 DEF Fold

\* A total of numbers is a number ...
LEMMA SizeType ==
    ASSUME NEW t, NEW S, IsFiniteSet(S), \A k \in S : t[k].rss \in Nat
    PROVE  Size(t, S) \in Nat
  <1> DEFINE Bad == {s \in SUBSET S : Size(t, s) \notin Nat}
  <1>1. ASSUME Bad # {} PROVE FALSE
    <2>1. PICK s \in Bad : \A r \in Bad : r \subseteq s => r = s
      <3>1. Bad \subseteq SUBSET S
        OBVIOUS
      <3> HIDE DEF Bad
      <3>. QED  BY <1>1, <3>1, LeastSubset
    <2>2. s # {}
      <3>1. Size(t, {}) \in Nat /\ Size(t, s) \notin Nat
        BY <2>1, SizeEmpty
      <3>. QED  BY ONLY <3>1
    <2>3. IsFiniteSet(s)
      BY <2>1, FS_Subset
    <2>4. Pick(s) \in s /\ Size(t, s) = t[Pick(s)].rss + Size(t, s \ {Pick(s)})
      BY <2>2, <2>3, SizePick
    <2>5. s \ {Pick(s)} \in SUBSET S /\ s \ {Pick(s)} \notin Bad
      BY <2>1, <2>4
    <2>6. Size(t, s \ {Pick(s)}) \in Nat /\ t[Pick(s)].rss \in Nat
      BY <2>1, <2>4, <2>5
    <2>. QED  BY <2>1, <2>4, <2>6
  <1>. QED  BY <1>1

\* ... and any element can be taken out of it first.
LEMMA SizeRemove ==
    ASSUME NEW t, NEW S, IsFiniteSet(S), \A k \in S : t[k].rss \in Nat, NEW x \in S
    PROVE  Size(t, S) = t[x].rss + Size(t, S \ {x})
  <1> DEFINE Bad == {s \in SUBSET S : \E y \in s : Size(t, s) # t[y].rss + Size(t, s \ {y})}
  <1>1. ASSUME Bad # {} PROVE FALSE
    <2>1. PICK s \in Bad : \A r \in Bad : r \subseteq s => r = s
      <3>1. Bad \subseteq SUBSET S
        OBVIOUS
      <3> HIDE DEF Bad
      <3>. QED  BY <1>1, <3>1, LeastSubset
    <2>2. PICK y \in s : Size(t, s) # t[y].rss + Size(t, s \ {y})
      BY <2>1
    <2>3. IsFiniteSet(s) /\ s \in SUBSET S
      BY <2>1, FS_Subset
    <2>4. PICK c \in s : Size(t, s) = t[c].rss + Size(t, s \ {c})
      BY <2>2, <2>3, SizePick
    <2>5. c # y
      BY <2>2, <2>4
    <2>6. s \ {c} \in SUBSET S /\ s \ {c} \notin Bad /\ s \ {y} \in SUBSET S /\ s \ {y} \notin Bad
      BY <2>1, <2>2, <2>3, <2>4
    <2>7. Size(t, s \ {c}) = t[y].rss + Size(t, (s \ {c}) \ {y})
      BY <2>2, <2>5, <2>6
    <2>8. Size(t, s \ {y}) = t[c].rss + Size(t, (s \ {y}) \ {c})
      BY <2>4, <2>5, <2>6
    <2>9. (s \ {c}) \ {y} = (s \ {y}) \ {c}
      OBVIOUS
    <2>10. Size(t, (s \ {c}) \ {y}) \in Nat
      <3>1. IsFiniteSet((s \ {c}) \ {y})
        BY <2>3, FS_Subset
      <3>2. \A k \in (s \ {c}) \ {y} : t[k].rss \in Nat
        BY <2>3
      <3>. QED  BY <3>1, <3>2, SizeType
    <2>11. t[y].rss \in Nat /\ t[c].rss \in Nat
      BY <2>3
    <2>12. PICK q \in Nat : q = Size(t, (s \ {c}) \ {y}) /\ q = Size(t, (s \ {y}) \ {c})
      BY <2>9, <2>10
    <2>13. Size(t, s) = t[c].rss + (t[y].rss + q) /\ Size(t, s \ {y}) = t[c].rss + q
      BY <2>4, <2>7, <2>8, <2>12
    <2>. QED  BY ONLY <2>2, <2>11, <2>12, <2>13
  <1>. QED  BY <1>1

--------------------------------------------------------------------------------
(* What a round achieves *)

\* The sessions of the selection that are evicted already.
Gone == {selected[i] : i \in 1..evicted}

\* What the second loop keeps: the total is that of the candidates, none of them over its own
\* limit; the last choice was needed; at its end the candidates are within the total.
TotalsOK ==
    /\ round = "total_budget" => max_total_bytes # Unset /\ total_bytes = Size(samples, remaining)
    /\ round \in {"total_budget", "evict"} => \A k \in remaining : ~OverOwnLimit(k)
    /\ round \in {"total_budget", "evict"} /\ selected # <<>> =>
          LET last == selected[Len(selected)]
          IN  \/ OverOwnLimit(last)
              \/ max_total_bytes # Unset /\ Size(samples, remaining \cup {last}) > max_total_bytes
    /\ round = "evict" /\ max_total_bytes # Unset => Size(samples, remaining) <= max_total_bytes

\* While nothing disturbs a round, the samples are the sessions, up to the sizes not asked for
\* yet and the sessions evicted already.
QuietOK ==
    /\ round = "start" => disturbed
    /\ round # "evict" => evicted = 0
    /\ round = "sample" /\ ~disturbed =>
          \A k \in Keys : samples[k] = IF k \in unsampled THEN [table[k] EXCEPT !.rss = 0] ELSE table[k]
    /\ round \in {"session_budget", "total_budget"} /\ ~disturbed => samples = table
    /\ round = "evict" /\ ~disturbed =>
          \A k \in Keys : table[k] = IF k \in Gone THEN Absent ELSE samples[k]
    /\ QuietRoundMeetsBudget

BudgetInv == PolicyInv /\ TypeOK /\ TotalsOK /\ QuietOK

\* Sizes are numbers and budgets numbers or unset.
LEMMA Quantities ==
    ASSUME TypeOK
    PROVE  /\ \A k \in Keys : samples[k].rss \in Nat /\ table[k].rss \in Nat
           /\ max_session_bytes \in Nat \cup {Unset} /\ max_total_bytes \in Nat \cup {Unset}
           /\ IsFiniteSet(remaining) /\ remaining \subseteq Keys
           /\ Size(samples, remaining) \in Nat
  <1>1. \A k \in Keys : samples[k].rss \in Nat /\ table[k].rss \in Nat
    <2>1. Rss \cup {0} \subseteq Nat
      BY SizesAssumption
    <2>2. Absent.rss \in Nat
      BY DEF Absent
    <2>3. \A r \in Session : r.rss \in Nat
      BY <2>1 DEF Session
    <2>. QED  BY <2>2, <2>3 DEF TypeOK
  <1>2. \A mb \in Nat \cup {Unset} : Bytes(mb) \in Nat \cup {Unset}
    <2>1. \A x \in Nat, w \in Nat \ {0} : x % w \in Nat
      OBVIOUS
    <2>2. \A mb \in Nat : mb * MiB \in Nat
      BY WordAssumption
    <2>. QED  BY <2>1, <2>2, WordAssumption DEF Bytes
  <1>3. max_session_bytes \in Nat \cup {Unset} /\ max_total_bytes \in Nat \cup {Unset}
    BY <1>2, SettingsAssumption DEF TypeOK, max_session_bytes, max_total_bytes
  <1>4. IsFiniteSet(remaining) /\ remaining \subseteq Keys
    BY KeysAssumption, FS_Subset DEF TypeOK
  <1>5. Size(samples, remaining) \in Nat
    BY <1>1, <1>4, SizeType
  <1>. QED  BY <1>1, <1>3, <1>4, <1>5

\* The table is empty before the monitor starts.
LEMMA InitBudget == Init => BudgetInv
  <1> SUFFICES ASSUME Init PROVE BudgetInv
    OBVIOUS
  <1>1. PolicyInv
    BY InitPolicy
  <1>2. <<max_session_mb, max_total_mb>> \in Budgets
    <2>1. PICK b \in Budgets : max_session_mb = b[1] /\ max_total_mb = b[2]
      BY DEF Init
    <2>. QED  BY <2>1, SettingsAssumption
  <1>3. disturbed \in BOOLEAN /\ (round = "start" => disturbed)
    BY DEF Init
  <1>4. TypeOK
    BY <1>2, <1>3, SizesAssumption DEF Init, TypeOK, Chosen
  <1>5. TotalsOK
    BY DEF Init, TotalsOK
  <1>6. QuietOK
    BY <1>3 DEF Init, QuietOK, QuietRoundMeetsBudget
  <1>. QED  BY <1>1, <1>4, <1>5, <1>6 DEF BudgetInv

\* Every variable stays in its domain.
LEMMA StepTypes == PolicyInv /\ TypeOK /\ [Next]_vars => TypeOK'
  <1> SUFFICES ASSUME PolicyInv, TypeOK, [Next]_vars PROVE TypeOK'
    OBVIOUS
  <1> USE DEF selection, settings
  <1>0. PolicyInv'
    BY StepPolicy
  <1>1. /\ table' \in [Keys -> Session \cup {Absent}] /\ samples' \in [Keys -> Session \cup {Absent}]
        /\ unsampled' \subseteq Keys /\ selected' \in Seq(Keys)
    BY <1>0 DEF PolicyInv, RoundOK, In
  <1>2. <<max_session_mb, max_total_mb>>' \in Budgets
    <2>1. UNCHANGED <<max_session_mb, max_total_mb>>
      BY DEF Next, Monitor, Start, Snapshot, Sample, SampleFails, BeginSelection, SelectOverLimit,
             SumRemaining, SelectForTotal, EndSelection, Evict, EndRound, Change, vars
    <2>. QED  BY <2>1 DEF TypeOK
  <1>3. round' \in {"start", "tick", "sample", "session_budget", "total_budget", "evict", "panicked"}
    BY DEF Next, Monitor, Start, Snapshot, Sample, SampleFails, BeginSelection, SelectOverLimit,
           SumRemaining, SelectForTotal, EndSelection, Evict, EndRound, Change, vars, TypeOK
  <1>4. disturbed' \in BOOLEAN
    BY DEF Next, Monitor, Start, Snapshot, Sample, SampleFails, BeginSelection, SelectOverLimit,
           SumRemaining, SelectForTotal, EndSelection, Evict, EndRound, Change, vars, TypeOK
  <1>5. changes' \in 0..MaxChanges
    <2>1. changes' = changes \/ (changes < MaxChanges /\ changes' = changes + 1)
      BY DEF Next, Monitor, Start, Snapshot, Sample, SampleFails, BeginSelection, SelectOverLimit,
             SumRemaining, SelectForTotal, EndSelection, Evict, EndRound, Change, vars
    <2>. QED  BY <2>1, SizesAssumption DEF TypeOK
  <1>6. remaining' \subseteq Keys \ Chosen' /\ evicted' \in 0..Len(selected') /\ total_bytes' \in Nat
    <2>1. CASE SelectOverLimit \/ SelectForTotal
      <3>1. PICK k \in remaining : Select(k)
        BY <2>1 DEF SelectOverLimit, SelectForTotal, Foremost, OverLimit
      <3>2. k \in Keys /\ Chosen' = Chosen \cup {k} /\ remaining' = remaining \ {k}
        BY <3>1, Selects DEF TypeOK, PolicyInv
      <3>3. evicted' = evicted /\ Len(selected') = Len(selected) + 1
        BY <2>1, <3>1, <3>2 DEF SelectOverLimit, SelectForTotal, Select, TypeOK
      <3>4. evicted \in 0..Len(selected) /\ Len(selected) \in Nat
        BY DEF TypeOK
      <3>5. total_bytes' \in Nat
        <4>1. CASE SelectOverLimit
          BY <4>1 DEF SelectOverLimit, TypeOK
        <4>2. CASE SelectForTotal
          <5>1. PICK j \in remaining : total_bytes' = IF samples[j].rss > total_bytes THEN 0
                                                      ELSE total_bytes - samples[j].rss
            BY <4>2 DEF SelectForTotal, Foremost
          <5>2. samples[j].rss \in Nat /\ total_bytes \in Nat
            BY Quantities DEF TypeOK
          <5>. QED  BY <5>1, <5>2
        <4>. QED  BY <2>1, <4>1, <4>2
      <3>. QED  BY <3>2, <3>3, <3>4, <3>5 DEF TypeOK
    <2>2. CASE BeginSelection
      <3>1. remaining' = In(samples) /\ UNCHANGED <<selected, evicted, total_bytes>> /\ round = "sample"
        BY <2>2 DEF BeginSelection
      <3>2. selected = <<>>
        BY <3>1 DEF PolicyInv, RoundOK, Selecting
      <3>. QED  BY <3>1, <3>2 DEF In, Chosen, TypeOK
    <2>3. CASE SumRemaining
      <3>1. UNCHANGED <<remaining, selected, evicted>> /\ total_bytes' = Size(samples, remaining)
        BY <2>3 DEF SumRemaining
      <3>. QED  BY <3>1, Quantities DEF TypeOK, Chosen
    <2>4. CASE EndRound
      BY <2>4 DEF EndRound, Chosen
    <2>5. CASE Evict
      BY <2>5 DEF Evict, TypeOK, Chosen
    <2>6. CASE \/ Start \/ Snapshot \/ (\E k \in Keys : Sample(k)) \/ EndSelection
               \/ (\E k \in Keys : SampleFails(k) \/ Change(k)) \/ UNCHANGED vars
      <3>1. UNCHANGED <<remaining, selected, evicted, total_bytes>>
        BY <2>6 DEF Start, Snapshot, Sample, EndSelection, SampleFails, Change, vars
      <3>. QED  BY <3>1 DEF TypeOK, Chosen
    <2>. QED  BY <2>1, <2>2, <2>3, <2>4, <2>5, <2>6 DEF Next, Monitor
  <1>. QED  BY <1>1, <1>2, <1>3, <1>4, <1>5, <1>6 DEF TypeOK

\* Every variable of the memory monitor stays in its domain and no session is both chosen and
\* still a candidate, for every set of keys, sizes and budgets (select_evictions).
THEOREM MemoryTypeCorrect == Spec => []TypeOK
  <1>1. Init => TypeOK
    BY InitBudget DEF BudgetInv
  <1>. QED  BY <1>1, InitPolicy, StepPolicy, StepTypes, PTL DEF Spec

\* The second loop.
LEMMA StepTotals == BudgetInv /\ [Next]_vars => TotalsOK'
  <1> SUFFICES ASSUME BudgetInv, [Next]_vars PROVE TotalsOK'
    OBVIOUS
  <1> USE DEF selection
  <1>0. PolicyInv /\ TypeOK /\ TotalsOK
    BY DEF BudgetInv
  <1>1. UNCHANGED settings
    BY DEF Next, Monitor, Start, Snapshot, Sample, SampleFails, BeginSelection, SelectOverLimit,
           SumRemaining, SelectForTotal, EndSelection, Evict, EndRound, Change, vars
  <1>2. max_session_bytes' = max_session_bytes /\ max_total_bytes' = max_total_bytes
    BY <1>1 DEF settings, max_session_bytes, max_total_bytes, Bytes
  <1>3. CASE round' \notin {"total_budget", "evict"}
    BY <1>3 DEF TotalsOK
  <1>4. CASE Evict \/ (\E k \in Keys : SampleFails(k) \/ Change(k)) \/ UNCHANGED vars
    <2>1. UNCHANGED <<round, samples, remaining, total_bytes, selected>>
      BY <1>4 DEF Evict, SampleFails, Change, vars
    <2>. QED  BY <1>0, <1>2, <2>1 DEF TotalsOK, OverOwnLimit
  <1>5. CASE SumRemaining
    <2>1. /\ round = "session_budget" /\ OverLimit = {} /\ UNCHANGED <<samples, remaining, selected>>
          /\ total_bytes' = Size(samples, remaining)
          /\ round' = IF max_total_bytes = Unset THEN "evict" ELSE "total_budget"
      BY <1>5 DEF SumRemaining
    <2>2. \A k \in remaining' : ~OverOwnLimit(k)'
      BY <1>2, <2>1 DEF OverLimit, OverOwnLimit
    <2>3. selected # <<>> => OverOwnLimit(selected[Len(selected)])'
      <3>1. ASSUME selected # <<>> PROVE selected[Len(selected)] \in Chosen
        <4>1. Len(selected) \in 1..Len(selected)
          BY <1>0, <3>1 DEF TypeOK
        <4>. QED  BY <4>1 DEF Chosen
      <3>2. \A k \in Chosen : OverOwnLimit(k)
        BY <1>0, <2>1 DEF PolicyInv, SelectionOK
      <3>. QED  BY <1>2, <2>1, <3>1, <3>2 DEF OverOwnLimit
    <2>. QED  BY <1>2, <2>1, <2>2, <2>3 DEF TotalsOK
  <1>6. CASE SelectForTotal
    <2>1. PICK k \in Foremost(remaining) :
             /\ Select(k)
             /\ total_bytes' = IF samples[k].rss > total_bytes THEN 0 ELSE total_bytes - samples[k].rss
      BY <1>6 DEF SelectForTotal
    <2>2. /\ UNCHANGED <<round, samples>> /\ round = "total_budget" /\ total_bytes > max_total_bytes
      BY <1>6 DEF SelectForTotal, OverTotal
    <2>3. k \in remaining
      BY DEF Foremost
    <2>4. total_bytes = Size(samples, remaining) /\ max_total_bytes # Unset
      BY <1>0, <2>2 DEF TotalsOK
    <2>5. /\ samples[k].rss \in Nat /\ IsFiniteSet(remaining) /\ remaining \subseteq Keys
          /\ \A j \in remaining : samples[j].rss \in Nat
      BY <1>0, <2>3, Quantities
    <2>6. Size(samples, remaining) = samples[k].rss + Size(samples, remaining \ {k})
      BY <2>3, <2>5, SizeRemove
    <2>7. Size(samples, remaining \ {k}) \in Nat
      <3>1. IsFiniteSet(remaining \ {k})
        BY <2>5, FS_Subset
      <3>. QED  BY <2>5, <3>1, SizeType
    <2>8. total_bytes' = Size(samples, remaining \ {k})
      BY <2>1, <2>4, <2>5, <2>6, <2>7
    <2>9. remaining' = remaining \ {k} /\ selected' = Append(selected, k) /\ selected \in Seq(Keys) /\ k \in Keys
      BY <1>0, <2>1, <2>3, <2>5 DEF Select, TypeOK
    <2>10. selected'[Len(selected')] = k /\ remaining' \cup {k} = remaining
      BY <2>3, <2>9
    <2>11. Size(samples', remaining' \cup {selected'[Len(selected')]}) > max_total_bytes'
      BY <1>2, <2>2, <2>4, <2>10
    <2>12. \A j \in remaining' : ~OverOwnLimit(j)'
      BY <1>0, <1>2, <2>2, <2>9 DEF TotalsOK, OverOwnLimit
    <2>. QED  BY <1>2, <2>2, <2>4, <2>8, <2>9, <2>11, <2>12 DEF TotalsOK
  <1>7. CASE EndSelection
    <2>1. /\ UNCHANGED <<samples, remaining, selected>> /\ round = "total_budget" /\ round' = "evict"
          /\ ~(total_bytes > max_total_bytes) \/ remaining = {}
      BY <1>7 DEF EndSelection, OverTotal
    <2>2. total_bytes = Size(samples, remaining) /\ max_total_bytes \in Nat /\ total_bytes \in Nat
      BY <1>0, <2>1, Quantities DEF TotalsOK, TypeOK
    <2>3. Size(samples, remaining) <= max_total_bytes
      BY <2>1, <2>2, SizeEmpty
    <2>. QED  BY <1>0, <1>2, <2>1, <2>3 DEF TotalsOK, OverOwnLimit
  <1>8. CASE \/ Start \/ Snapshot \/ (\E k \in Keys : Sample(k)) \/ BeginSelection
             \/ SelectOverLimit \/ EndRound
    BY <1>3, <1>8 DEF Start, Snapshot, Sample, BeginSelection, SelectOverLimit, EndRound
  <1>. QED  BY <1>4, <1>5, <1>6, <1>7, <1>8 DEF Next, Monitor

\* An undisturbed round leaves the candidates, as they were sampled.
LEMMA RoundEnds ==
    ASSUME BudgetInv, EndRound, ~disturbed
    PROVE  WithinBudget(table)
  <1>0. PolicyInv /\ TypeOK /\ TotalsOK /\ QuietOK
    BY DEF BudgetInv
  <1>1. round = "evict" /\ evicted = Len(selected)
    BY DEF EndRound
  <1>2. Gone = Chosen
    BY <1>1 DEF Gone, Chosen
  <1>3. \A k \in Keys : table[k] = IF k \in Chosen THEN Absent ELSE samples[k]
    BY <1>0, <1>1, <1>2 DEF QuietOK
  <1>4. remaining = In(samples) \ Chosen
    BY <1>0, <1>1 DEF PolicyInv, SelectionOK, Selecting
  <1>5. In(table) = remaining /\ \A k \in remaining : table[k] = samples[k]
    BY <1>3, <1>4 DEF In
  <1>6. Size(table, remaining) = Size(samples, remaining)
    BY <1>0, <1>5, Quantities, SizeSame
  <1>7. ASSUME max_session_bytes # Unset, NEW k \in remaining PROVE table[k].rss <= max_session_bytes
    <2>1. ~(samples[k].rss > max_session_bytes)
      BY <1>0, <1>1, <1>7 DEF TotalsOK, OverOwnLimit
    <2>2. samples[k].rss \in Nat /\ max_session_bytes \in Nat
      BY <1>0, <1>7, Quantities
    <2>. QED  BY <1>5, <2>1, <2>2
  <1>8. max_total_bytes # Unset => Size(table, In(table)) <= max_total_bytes
    BY <1>0, <1>1, <1>5, <1>6 DEF TotalsOK
  <1>. QED  BY <1>5, <1>7, <1>8 DEF WithinBudget

\* While nothing disturbs a round, each of its steps keeps the samples equal to the sessions.
LEMMA StepQuiet == BudgetInv /\ [Next]_vars => QuietOK'
  <1> SUFFICES ASSUME BudgetInv, [Next]_vars PROVE QuietOK'
    OBVIOUS
  <1> USE DEF selection
  <1>0. PolicyInv /\ TypeOK /\ TotalsOK /\ QuietOK
    BY DEF BudgetInv
  <1>1. UNCHANGED settings
    BY DEF Next, Monitor, Start, Snapshot, Sample, SampleFails, BeginSelection, SelectOverLimit,
           SumRemaining, SelectForTotal, EndSelection, Evict, EndRound, Change, vars
  <1>2. max_session_bytes' = max_session_bytes /\ max_total_bytes' = max_total_bytes
    BY <1>1 DEF settings, max_session_bytes, max_total_bytes, Bytes
  <1>3. ASSUME WithinBudget(table), table' = table PROVE WithinBudget(table)'
    BY <1>2, <1>3 DEF WithinBudget, In
  <1>4. CASE Start
    <2>1. round = "start" /\ round' \in {"tick", "panicked"} /\ UNCHANGED <<evicted, disturbed>>
      BY <1>4 DEF Start
    <2>2. disturbed' /\ evicted' = 0
      BY <1>0, <2>1 DEF QuietOK
    <2>. QED  BY <2>1, <2>2 DEF QuietOK, QuietRoundMeetsBudget
  <1>5. CASE Snapshot
    <2>1. /\ round = "tick" /\ round' = "sample" /\ unsampled' = In(table) /\ UNCHANGED <<table, evicted>>
          /\ samples' = [k \in Keys |-> [table[k] EXCEPT !.rss = 0]]
      BY <1>5 DEF Snapshot
    <2>2. \A k \in Keys : k \notin In(table) => [table[k] EXCEPT !.rss = 0] = table[k]
      BY DEF In, Absent
    <2>3. \A k \in Keys : samples'[k] = IF k \in unsampled' THEN [table'[k] EXCEPT !.rss = 0] ELSE table'[k]
      BY <2>1, <2>2
    <2>. QED  BY <1>0, <2>1, <2>3 DEF QuietOK, QuietRoundMeetsBudget
  <1>6. ASSUME NEW j \in Keys, Sample(j) PROVE QuietOK'
    <2>1. /\ round = "sample" /\ j \in unsampled /\ samples' = [samples EXCEPT ![j].rss = table[j].rss]
          /\ unsampled' = unsampled \ {j} /\ UNCHANGED <<table, round, evicted, disturbed>>
      BY <1>6 DEF Sample
    <2>2. ASSUME ~disturbed, NEW k \in Keys
          PROVE  samples'[k] = IF k \in unsampled' THEN [table'[k] EXCEPT !.rss = 0] ELSE table'[k]
      <3>1. \A i \in Keys : samples[i] = IF i \in unsampled THEN [table[i] EXCEPT !.rss = 0] ELSE table[i]
        BY <1>0, <2>1, <2>2 DEF QuietOK
      <3>2. CASE k = j
        <4>1. samples'[j] = [samples[j] EXCEPT !.rss = table[j].rss]
          BY <1>0, <2>1 DEF TypeOK
        <4>2. samples[j] = [table[j] EXCEPT !.rss = 0]
          BY <2>1, <3>1
        <4>3. table[j] \in Session \cup {Absent}
          BY <1>0 DEF TypeOK
        <4>4. [[table[j] EXCEPT !.rss = 0] EXCEPT !.rss = table[j].rss] = table[j]
          BY <4>3 DEF Session, Absent
        <4>. QED  BY <2>1, <3>2, <4>1, <4>2, <4>4
      <3>3. CASE k # j
        BY <1>0, <2>1, <3>1, <3>3 DEF TypeOK
      <3>. QED  BY <3>2, <3>3
    <2>. QED  BY <1>0, <2>1, <2>2 DEF QuietOK, QuietRoundMeetsBudget
  <1>7. CASE \E k \in Keys : SampleFails(k) \/ Change(k)
    <2>1. disturbed' /\ UNCHANGED <<round, evicted>>
      BY <1>7 DEF SampleFails, Change
    <2>. QED  BY <1>0, <2>1 DEF QuietOK, QuietRoundMeetsBudget
  <1>8. CASE BeginSelection
    <2>1. /\ round = "sample" /\ unsampled = {} /\ round' = "session_budget"
          /\ UNCHANGED <<table, samples, evicted, disturbed>>
      BY <1>8 DEF BeginSelection
    <2>2. ASSUME ~disturbed PROVE samples = table
      BY <1>0, <2>1, <2>2 DEF QuietOK, TypeOK
    <2>. QED  BY <1>0, <2>1, <2>2 DEF QuietOK, QuietRoundMeetsBudget
  <1>9. CASE SelectOverLimit \/ SumRemaining \/ SelectForTotal \/ EndSelection
    <2>1. /\ round \in {"session_budget", "total_budget"} /\ UNCHANGED <<table, samples, evicted, disturbed>>
          /\ round' \in {"session_budget", "total_budget", "evict"}
      BY <1>9 DEF SelectOverLimit, SumRemaining, SelectForTotal, EndSelection
    <2>2. evicted' = 0 /\ Gone' = {}
      BY <1>0, <2>1 DEF QuietOK, Gone
    <2>3. ~disturbed => samples = table
      BY <1>0, <2>1 DEF QuietOK
    <2>. QED  BY <2>1, <2>2, <2>3 DEF QuietOK, QuietRoundMeetsBudget
  <1>10. CASE Evict
    <2>1. /\ round = "evict" /\ UNCHANGED <<round, samples, selected, disturbed>>
          /\ evicted < Len(selected) /\ evicted' = evicted + 1
          /\ table' = [table EXCEPT ![selected[evicted + 1]] = Absent]
      BY <1>10 DEF Evict
    <2>2. evicted \in Nat /\ Len(selected) \in Nat
      BY <1>0 DEF TypeOK
    <2>3. 1..(evicted + 1) = (1..evicted) \cup {evicted + 1}
      BY <2>2
    <2>4. Gone' = Gone \cup {selected[evicted + 1]}
      BY <2>1, <2>3 DEF Gone
    <2>5. ASSUME ~disturbed, NEW k \in Keys
          PROVE  table'[k] = IF k \in Gone' THEN Absent ELSE samples[k]
      <3>1. table[k] = IF k \in Gone THEN Absent ELSE samples[k]
        BY <1>0, <2>1, <2>5 DEF QuietOK
      <3>2. table'[k] = IF k = selected[evicted + 1] THEN Absent ELSE table[k]
        BY <1>0, <2>1 DEF TypeOK
      <3>. QED  BY <2>4, <3>1, <3>2
    <2>. QED  BY <2>1, <2>5 DEF QuietOK, QuietRoundMeetsBudget
  <1>11. CASE EndRound
    <2>1. round' = "tick" /\ evicted' = 0 /\ UNCHANGED <<table, disturbed>>
      BY <1>11 DEF EndRound
    <2>2. ~disturbed => WithinBudget(table)
      BY <1>11, RoundEnds
    <2>3. ~disturbed' => WithinBudget(table)'
      BY <1>3, <2>1, <2>2
    <2>. QED  BY <2>1, <2>3 DEF QuietOK, QuietRoundMeetsBudget
  <1>12. CASE UNCHANGED vars
    <2>1. UNCHANGED <<table, round, unsampled, samples, selected, evicted, disturbed>>
      BY <1>12 DEF vars
    <2>2. QuietRoundMeetsBudget'
      BY <1>0, <1>3, <2>1 DEF QuietOK, QuietRoundMeetsBudget
    <2>. QED  BY <1>0, <2>1, <2>2 DEF QuietOK, Gone
  <1>. QED  BY <1>4, <1>5, <1>6, <1>7, <1>8, <1>9, <1>10, <1>11, <1>12 DEF Next, Monitor

\* BudgetInv is inductive.
LEMMA StepBudget == BudgetInv /\ [Next]_vars => BudgetInv'
  BY StepPolicy, StepTypes, StepTotals, StepQuiet DEF BudgetInv

\* No session is evicted needlessly: without the last one taken for the total, the rest as sampled
\* was over it, for every set of keys, sizes and budgets (select_evictions, the second loop).
THEOREM LastChoiceIsNeeded == Spec => []LastChoiceNeeded
  <1>1. BudgetInv => LastChoiceNeeded
    <2> SUFFICES ASSUME BudgetInv, round = "evict", selected # <<>> PROVE LastChoiceNeeded
      BY DEF LastChoiceNeeded
    <2>1. remaining = In(samples) \ Chosen
      BY DEF BudgetInv, PolicyInv, SelectionOK, Selecting
    <2>. QED  BY <2>1 DEF BudgetInv, TotalsOK, LastChoiceNeeded, OverOwnLimit
  <1>. QED  BY <1>1, InitBudget, StepBudget, PTL DEF Spec

\* A round in which no session changed and every `ps` answered leaves the table within both
\* budgets, for every set of keys, sizes and budgets (collect_samples, evict_session).
THEOREM QuietRoundsMeetBudget == Spec => []QuietRoundMeetsBudget
  <1>1. BudgetInv => QuietRoundMeetsBudget
    BY DEF BudgetInv, QuietOK
  <1>. QED  BY <1>1, InitBudget, StepBudget, PTL DEF Spec

================================================================================
