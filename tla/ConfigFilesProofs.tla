--------------------------- MODULE ConfigFilesProofs ---------------------------
(***************************************************************************)
(* What the layers of the configuration mean, which server a client is     *)
(* attached to and what a config command may promise, for every pair of    *)
(* files and every number of writers and clients.                          *)
(***************************************************************************)
EXTENDS ConfigFiles, WellFoundedInduction, TLAPS

--------------------------------------------------------------------------------
(* Loops over the entries.  What a fold over a sequence computes is shown  *)
(* with a least counterexample in place of induction.                      *)

\* Every set of numbers has a least one ...
LEMMA LeastNumber ==
    ASSUME NEW T, T \subseteq Nat, T # {}
    PROVE  \E m \in T : \A k \in T : m <= k
  <1> DEFINE R == OpToRel(<,Nat)
  <1>1. IsWellFoundedOn(R, Nat)
    BY NatLessThanWellFounded
  <1>2. \A x, y \in Nat : <<y,x>> \in R <=> y < x
    BY Zenon DEF OpToRel
  <1> HIDE DEF R
  <1>3. PICK x \in T : \A y \in T : ~ (<<y, x>> \in R)
    BY <1>1, WFMin
  <1>4. \A y \in T : x <= y
    <2>1. SUFFICES ASSUME NEW y \in T PROVE x <= y
      OBVIOUS
    <2>2. x \in Nat /\ y \in Nat /\ ~(y < x)
      BY <1>2, <1>3
    <2>. QED  BY <2>2
  <1>. QED  BY <1>4

\* ... so what fails at no first number never fails ...
LEMMA NoFirst ==
    ASSUME NEW T, T \subseteq Nat, 0 \notin T, \A n \in Nat : n \notin T => n + 1 \notin T
    PROVE  T = {}
  <1>1. SUFFICES ASSUME T # {} PROVE FALSE
    OBVIOUS
  <1>2. PICK m \in T : \A k \in T : m <= k
    BY <1>1, LeastNumber
  <1>3. m \in Nat /\ m # 0
    BY <1>2
  <1>4. m - 1 \in Nat /\ (m - 1) + 1 = m /\ m - 1 \notin T
    BY <1>2, <1>3
  <1>. QED  BY <1>2, <1>4

\* ... and positions in a sequence have a first and a last one.
LEMMA MinOf ==
    ASSUME NEW T, T \subseteq Nat, T # {}
    PROVE  Min(T) \in T /\ \A y \in T : Min(T) <= y
  <1>1. \E x \in T : \A y \in T : x <= y
    BY LeastNumber
  <1>. QED  BY <1>1 DEF Min

\* The last position of a set is in it.
LEMMA MaxOf ==
    ASSUME NEW n \in Nat, NEW T, T \subseteq 1..n, T # {}
    PROVE  Max(T) \in T /\ \A y \in T : y <= Max(T)
  <1> DEFINE U == {k \in Nat : \A y \in T : y <= k}
  <1>1. n \in U
    OBVIOUS
  <1>2. PICK m \in U : \A k \in U : m <= k
    <2>1. U \subseteq Nat
      OBVIOUS
    <2> HIDE DEF U
    <2>. QED  BY <1>1, <2>1, LeastNumber
  <1>3. m \in T
    <2>1. SUFFICES ASSUME m \notin T PROVE FALSE
      OBVIOUS
    <2>2. m \in Nat /\ \A y \in T : y \in Nat /\ y < m
      BY <1>2, <2>1
    <2>3. m # 0
      <3>1. PICK y \in T : TRUE
        OBVIOUS
      <3>2. y \in Nat /\ y < m
        BY <2>2, <3>1
      <3>. QED  BY <2>2, <3>2
    <2>4. m - 1 \in U
      BY <2>2, <2>3
    <2>. QED  BY <1>2, <2>2, <2>4
  <1>4. \E x \in T : \A y \in T : x >= y
    BY <1>2, <1>3
  <1>5. Max(T) \in T /\ \A y \in T : Max(T) >= y
    BY <1>4 DEF Max
  <1>. QED  BY <1>5

\* One step of a loop over entries: the merge of a layer, or the removal of an id.
Step(mode, v, e) == IF mode = None THEN ApplyEntry(v, e) ELSE IF e.id = mode THEN v ELSE Append(v, e)

\* The recursion by which FoldLeft is defined, on the sets of positions up to n.
Fold(mode, b, l, g, s) == IF s = {} THEN b ELSE Step(mode, g[s \ {Max(s)}], l[Max(s)])
IsFold(g, mode, b, l, n) == g = [s \in SUBSET (1..n) |-> Fold(mode, b, l, g, s)]

\* The recursion has a solution: position by position.
LEMMA FoldExists ==
    ASSUME NEW mode, NEW b, NEW l, NEW n \in Nat
    PROVE  \E g : IsFold(g, mode, b, l, n)
  <1> DEFINE Lacking == {k \in Nat : ~ \E g : IsFold(g, mode, b, l, k)}
  <1>1. 0 \notin Lacking
    <2> DEFINE g == [s \in SUBSET (1..0) |-> b]
    <2>1. \A s \in SUBSET (1..0) : s = {}
      OBVIOUS
    <2>2. IsFold(g, mode, b, l, 0)
      BY <2>1 DEF IsFold, Fold
    <2>. QED  BY <2>2
  <1>2. ASSUME NEW k \in Nat, k \notin Lacking PROVE k + 1 \notin Lacking
    <2>1. PICK h : IsFold(h, mode, b, l, k)
      BY <1>2
    <2> DEFINE g == [s \in SUBSET (1..(k + 1)) |-> Fold(mode, b, l, h, s)]
    <2>2. \A s \in SUBSET (1..k) : s \in SUBSET (1..(k + 1)) /\ g[s] = h[s]
      <3>1. SUFFICES ASSUME NEW s \in SUBSET (1..k) PROVE s \in SUBSET (1..(k + 1)) /\ g[s] = h[s]
        OBVIOUS
      <3>2. s \in SUBSET (1..(k + 1))
        OBVIOUS
      <3>3. h[s] = Fold(mode, b, l, h, s)
        BY <2>1 DEF IsFold
      <3>. QED  BY <3>2, <3>3
    <2>3. ASSUME NEW s \in SUBSET (1..(k + 1)) PROVE Fold(mode, b, l, g, s) = Fold(mode, b, l, h, s)
      <3>1. CASE s = {}
        BY <3>1 DEF Fold
      <3>2. CASE s # {}
        <4>1. k + 1 \in Nat /\ s \subseteq 1..(k + 1)
          OBVIOUS
        <4>2. s \ {Max(s)} \in SUBSET (1..k)
          <5>1. PICK m : m = Max(s)
            OBVIOUS
          <5>2. m \in s /\ \A y \in s : y <= m
            BY ONLY <3>2, <4>1, <5>1, MaxOf
          <5>3. \A y \in s : y # m => y \in 1..k
            BY ONLY <4>1, <5>2, k \in Nat
          <5>. QED  BY ONLY <5>1, <5>3
        <4>3. g[s \ {Max(s)}] = h[s \ {Max(s)}]
          BY <2>2, <4>2
        <4> HIDE DEF g
        <4>. QED  BY <3>2, <4>3 DEF Fold
      <3>. QED  BY <3>1, <3>2
    <2>4. IsFold(g, mode, b, l, k + 1)
      BY <2>3 DEF IsFold
    <2>. QED  BY <2>4
  <1>3. Lacking \subseteq Nat
    OBVIOUS
  <1>4. Lacking = {}
    <2> HIDE DEF Lacking
    <2>. QED  BY <1>1, <1>2, <1>3, NoFirst
  <1>. QED  BY <1>4

\* Both loops are such folds, ...
LEMMA MergeIsFold ==
    ASSUME NEW lsps, NEW f, Layer(f).lsp \in Seq(Entries)
    PROVE  \E g : /\ IsFold(g, None, lsps, Layer(f).lsp, Len(Layer(f).lsp))
                  /\ ApplyEntries(lsps, f) = g[1..Len(Layer(f).lsp)]
  <1> DEFINE l == Layer(f).lsp
             P(g) == g = [s \in SUBSET (DOMAIN l) |->
                             IF s = {} THEN lsps ELSE ApplyEntry(g[s \ {Max(s)}], l[Max(s)])]
             c == CHOOSE g : P(g)
  <1>1. DOMAIN l = 1..Len(l) /\ Len(l) \in Nat
    OBVIOUS
  <1>2. ApplyEntries(lsps, f) = c[DOMAIN l]
    BY DEF ApplyEntries, FoldLeft, MapThenFoldSet
  <1>3. \A g : P(g) <=> IsFold(g, None, lsps, l, Len(l))
    BY <1>1 DEF IsFold, Fold, Step
  <1>4. \E g : P(g)
    BY <1>1, <1>3, FoldExists
  <1>5. P(c)
    BY <1>4, Zenon
  <1>. QED  BY <1>1, <1>2, <1>3, <1>5

\* ... that of apply_partial and that of run_remove_lsp, ...
LEMMA RemovalIsFold ==
    ASSUME NEW l \in Seq(Entries), NEW id \in Ids
    PROVE  \E g : IsFold(g, id, <<>>, l, Len(l)) /\ Without(l, id) = g[1..Len(l)]
  <1> DEFINE P(g) == g = [s \in SUBSET (DOMAIN l) |->
                             IF s = {} THEN <<>>
                             ELSE IF l[Max(s)].id = id THEN g[s \ {Max(s)}]
                             ELSE Append(g[s \ {Max(s)}], l[Max(s)])]
             c == CHOOSE g : P(g)
  <1>1. DOMAIN l = 1..Len(l) /\ Len(l) \in Nat
    OBVIOUS
  <1>2. Without(l, id) = c[DOMAIN l]
    BY DEF Without, FoldLeft, MapThenFoldSet
  <1>3. \A g : P(g) <=> IsFold(g, id, <<>>, l, Len(l))
    BY <1>1, TokensAssumption DEF IsFold, Fold, Step
  <1>4. \E g : P(g)
    BY <1>1, <1>3, FoldExists
  <1>5. P(c)
    BY <1>4, Zenon
  <1>. QED  BY <1>1, <1>2, <1>3, <1>5

\* ... which take one entry after the other.
LEMMA FoldPrefix ==
    ASSUME NEW g, NEW mode, NEW b, NEW l, NEW n \in Nat, IsFold(g, mode, b, l, n)
    PROVE  /\ g[{}] = b
           /\ \A k \in 1..n : g[1..k] = Step(mode, g[1..(k - 1)], l[k])
  <1>1. g[{}] = b
    BY DEF IsFold, Fold
  <1>2. ASSUME NEW k \in 1..n PROVE g[1..k] = Step(mode, g[1..(k - 1)], l[k])
    <2>1. 1..k \in SUBSET (1..n) /\ 1..k # {} /\ k \in Nat /\ k \in 1..k
      BY <1>2
    <2>2. Max(1..k) \in 1..k /\ \A y \in 1..k : y <= Max(1..k)
      BY <2>1, MaxOf
    <2>3. Max(1..k) = k
      BY <2>1, <2>2
    <2>4. (1..k) \ {k} = 1..(k - 1)
      BY <2>1
    <2>5. g[1..k] = Fold(mode, b, l, g, 1..k)
      BY <2>1 DEF IsFold
    <2>. QED  BY <2>1, <2>3, <2>4, <2>5 DEF Fold
  <1>. QED  BY <1>1, <1>2

--------------------------------------------------------------------------------
(* The meaning of the layers *)

\* The entries of an id among the first n, and those of them that set its command.
Mine(l, n, id)    == {i \in 1..n : l[i].id = id}
Setting(l, n, id) == {i \in Mine(l, n, id) : l[i].command # None}

\* What the first n entries of a layer turn the value b of an id into.
Value(b, l, n, id) ==
    IF Setting(l, n, id) # {} THEN l[Max(Setting(l, n, id))].command
    ELSE IF Mine(l, n, id) # {} /\ b = Absent THEN Empty ELSE b

\* The last position of a set is the one after all others.
LEMMA MaxIs ==
    ASSUME NEW n \in Nat, NEW T, T \subseteq 1..n, NEW x \in T, \A y \in T : y <= x
    PROVE  Max(T) = x
  <1>1. T # {}
    OBVIOUS
  <1>2. PICK m \in T : m = Max(T) /\ \A y \in T : y <= m
    BY <1>1, MaxOf
  <1>3. x \in Nat /\ m \in Nat /\ x <= m /\ m <= x
    BY <1>2
  <1>. QED  BY <1>2, <1>3

\* The last entry of a layer decides, unless it leaves the command out.
LEMMA ValueStep ==
    ASSUME NEW l \in Seq(Entries), NEW n \in 1..Len(l), NEW id, NEW b
    PROVE  Value(b, l, n, id) =
              IF l[n].id # id THEN Value(b, l, n - 1, id)
              ELSE IF l[n].command # None THEN l[n].command
              ELSE IF Value(b, l, n - 1, id) = Absent THEN Empty ELSE Value(b, l, n - 1, id)
  <1>0. n \in Nat /\ n - 1 \in Nat /\ Len(l) \in Nat
    OBVIOUS
  <1>1. 1..n = 1..(n - 1) \cup {n} /\ n \notin 1..(n - 1)
    BY <1>0
  <1>2. CASE l[n].id # id
    <2>1. Mine(l, n, id) = Mine(l, n - 1, id)
      BY <1>1, <1>2 DEF Mine
    <2>2. Setting(l, n, id) = Setting(l, n - 1, id)
      BY <2>1 DEF Setting
    <2>. QED  BY <1>2, <2>1, <2>2 DEF Value
  <1>3. CASE l[n].id = id /\ l[n].command # None
    <2>1. Setting(l, n, id) \subseteq 1..n /\ n \in Setting(l, n, id)
      BY <1>1, <1>3 DEF Mine, Setting
    <2>2. \A y \in Setting(l, n, id) : y <= n
      BY <1>0, <2>1
    <2>3. Max(Setting(l, n, id)) = n
      BY <1>0, <2>1, <2>2, MaxIs
    <2>4. Setting(l, n, id) # {}
      BY <2>1
    <2>. QED  BY <1>3, <2>3, <2>4 DEF Value
  <1>4. CASE l[n].id = id /\ l[n].command = None
    <2>1. Setting(l, n, id) = Setting(l, n - 1, id) /\ Mine(l, n, id) # {}
      BY <1>1, <1>4 DEF Mine, Setting
    <2>2. CASE Setting(l, n, id) # {}
      <3>1. PICK m : m = Max(Setting(l, n, id))
        OBVIOUS
      <3>2. Setting(l, n, id) \subseteq 1..n
        BY DEF Setting, Mine
      <3>3. m \in Setting(l, n, id)
        BY <1>0, <2>2, <3>1, <3>2, MaxOf
      <3>4. m \in 1..Len(l) /\ l[m].command # None
        BY <1>0, <3>2, <3>3 DEF Setting
      <3>5. l[m].command \in Commands \cup {Empty}
        <4>1. l[m] \in Entries
          BY <3>4
        <4>. QED  BY <3>4, <4>1 DEF Entries
      <3>6. l[m].command # Absent
        BY <3>5, TokensAssumption
      <3>. QED  BY <1>4, <2>1, <2>2, <3>1, <3>6 DEF Value
    <2>3. CASE Setting(l, n, id) = {}
      <3>1. Value(b, l, n - 1, id) = IF Mine(l, n - 1, id) # {} /\ b = Absent THEN Empty ELSE b
        BY <2>1, <2>3 DEF Value
      <3>2. Value(b, l, n, id) = IF b = Absent THEN Empty ELSE b
        BY <2>1, <2>3 DEF Value
      <3>. QED  BY <1>4, <3>1, <3>2, TokensAssumption
    <2>. QED  BY <2>2, <2>3
  <1>. QED  BY <1>2, <1>3, <1>4

\* apply_partial gives every id that value.
LEMMA MergeMeans ==
    ASSUME NEW lsps, NEW f, Layer(f).lsp \in Seq(Entries), DOMAIN lsps = Ids,
           lsps = [id \in Ids |-> lsps[id]]
    PROVE  ApplyEntries(lsps, f) =
              [id \in Ids |-> Value(lsps[id], Layer(f).lsp, Len(Layer(f).lsp), id)]
  <1>1. PICK l : l = Layer(f).lsp
    OBVIOUS
  <1>2. l \in Seq(Entries) /\ Len(l) \in Nat
    BY <1>1
  <1>3. PICK g : IsFold(g, None, lsps, l, Len(l)) /\ ApplyEntries(lsps, f) = g[1..Len(l)]
    BY <1>1, MergeIsFold
  <1>4. g[{}] = lsps /\ \A k \in 1..Len(l) : g[1..k] = Step(None, g[1..(k - 1)], l[k])
    BY <1>2, <1>3, FoldPrefix
  <1> DEFINE M(k) == [id \in Ids |-> Value(lsps[id], l, k, id)]
             Wrong == {k \in 0..Len(l) : g[1..k] # M(k)}
  <1>5. 0 \notin Wrong
    <2>1. 1..0 = {}
      OBVIOUS
    <2>2. \A id \in Ids : Value(lsps[id], l, 0, id) = lsps[id]
      BY <2>1 DEF Value, Setting, Mine
    <2>. QED  BY <1>4, <2>1, <2>2
  <1>6. ASSUME NEW n \in Nat, n \notin Wrong PROVE n + 1 \notin Wrong
    <2>1. SUFFICES ASSUME n + 1 \in 0..Len(l) PROVE g[1..(n + 1)] = M(n + 1)
      OBVIOUS
    <2>2. n + 1 \in 1..Len(l) /\ (n + 1) - 1 = n /\ n \in 0..Len(l)
      BY <1>2, <2>1
    <2>3. g[1..n] = M(n)
      BY <1>6, <2>2
    <2>4. PICK e : e = l[n + 1]
      OBVIOUS
    <2>5. e \in Entries
      BY <1>2, <2>2, <2>4
    <2>6. g[1..(n + 1)] = ApplyEntry(M(n), e)
      BY <1>4, <2>2, <2>3, <2>4 DEF Step
    <2>7. \A id \in Ids : Value(lsps[id], l, n + 1, id) =
              IF e.id # id THEN Value(lsps[id], l, n, id)
              ELSE IF e.command # None THEN e.command
              ELSE IF Value(lsps[id], l, n, id) = Absent THEN Empty ELSE Value(lsps[id], l, n, id)
      BY <1>2, <2>2, <2>4, ValueStep
    <2>8. e.id \in Ids
      BY <2>5 DEF Entries
    <2>. QED  BY <2>6, <2>7, <2>8 DEF ApplyEntry
  <1>7. Wrong \subseteq Nat
    OBVIOUS
  <1>8. Wrong = {}
    <2> HIDE DEF Wrong
    <2>. QED  BY <1>5, <1>6, <1>7, NoFirst
  <1>9. g[1..Len(l)] = M(Len(l))
    <2>1. Len(l) \in 0..Len(l)
      BY <1>2
    <2>. QED  BY <1>8, <2>1
  <1>. QED  BY <1>1, <1>3, <1>9

\* The value of an id after the whole of a layer.
Then(b, f, id) == Value(b, Layer(f).lsp, Len(Layer(f).lsp), id)

\* Two layers, over nothing or over the default catalog.
LEMMA ResolveMeans ==
    ASSUME NEW u, NEW p, Layer(u).lsp \in Seq(Entries), Layer(p).lsp \in Seq(Entries), NEW id \in Ids
    PROVE  /\ Resolve(u, p).lsps[id] = Then(Then(Absent, u, id), p, id)
           /\ Catalog(u, p)[id] = Then(Then(BuiltIn[id], u, id), p, id)
  <1>1. ASSUME NEW lsps, lsps = [x \in Ids |-> lsps[x]]
        PROVE  ApplyEntries(ApplyEntries(lsps, u), p)[id] = Then(Then(lsps[id], u, id), p, id)
    <2>1. PICK m : m = ApplyEntries(lsps, u)
      OBVIOUS
    <2>2. m = [x \in Ids |-> Then(lsps[x], u, x)]
      BY <1>1, <2>1, MergeMeans DEF Then
    <2>3. DOMAIN m = Ids /\ m = [x \in Ids |-> m[x]] /\ m[id] = Then(lsps[id], u, id)
      BY <2>2
    <2>4. ApplyEntries(m, p) = [x \in Ids |-> Then(m[x], p, x)]
      BY <2>3, MergeMeans DEF Then
    <2>. QED  BY <2>1, <2>3, <2>4
  <1>2. Resolve(u, p).lsps = ApplyEntries(ApplyEntries(DefaultConfig.lsps, u), p)
    BY DEF Resolve, ApplyPartial
  <1>3. DefaultConfig.lsps = [x \in Ids |-> Absent]
    BY DEF DefaultConfig
  <1>4. Resolve(u, p).lsps[id] = Then(Then(Absent, u, id), p, id)
    BY <1>1, <1>2, <1>3
  <1>5. BuiltIn = [x \in Ids |-> BuiltIn[x]]
    BY BuiltInAssumption
  <1>. QED  BY <1>1, <1>4, <1>5 DEF Catalog

\* An attach that finds no command in the merge, and one in the catalog, finds the built-in one.
LEMMA CatalogAgrees ==
    ASSUME NEW u, NEW p, Layer(u).lsp \in Seq(Entries), Layer(p).lsp \in Seq(Entries), NEW id \in Ids,
           Resolve(u, p).lsps[id] \notin Commands, Catalog(u, p)[id] \in Commands
    PROVE  Catalog(u, p)[id] = BuiltIn[id]
  <1>1. Resolve(u, p).lsps[id] = Then(Then(Absent, u, id), p, id)
    BY ResolveMeans
  <1>2. Catalog(u, p)[id] = Then(Then(BuiltIn[id], u, id), p, id)
    BY ResolveMeans
  <1>3. Empty \notin Commands /\ Absent \notin Commands
    BY TokensAssumption
  <1>. QED  BY <1>1, <1>2, <1>3 DEF Then, Value

\* One layer after the other is the concatenation of both.
LEMMA LayersConcatenate ==
    ASSUME NEW u, NEW p, Layer(u).lsp \in Seq(Entries), Layer(p).lsp \in Seq(Entries), NEW id \in Ids
    PROVE  LastSetting(u, p, id) = Then(Then(Absent, u, id), p, id)
  <1>1. PICK lu, lp : lu = Layer(u).lsp /\ lp = Layer(p).lsp
    OBVIOUS
  <1>2. lu \in Seq(Entries) /\ lp \in Seq(Entries)
    BY <1>1
  <1>3. PICK n, k \in Nat : n = Len(lu) /\ k = Len(lp)
    BY <1>2
  <1>4. PICK all : all = lu \o lp
    OBVIOUS
  <1>5. /\ all \in Seq(Entries) /\ Len(all) = n + k /\ DOMAIN all = 1..(n + k)
        /\ \A i \in 1..n : all[i] = lu[i]
        /\ \A i \in 1..k : all[n + i] = lp[i]
    BY <1>2, <1>3, <1>4
  <1>6. \A i \in 1..(n + k) : i \in 1..n \/ (i - n \in 1..k /\ n + (i - n) = i)
    OBVIOUS
  <1>7. \A i \in 1..n : i \in 1..(n + k)
    OBVIOUS
  <1>8. \A i \in 1..k : n + i \in 1..(n + k)
    OBVIOUS
  <1> DEFINE mine == Mine(all, n + k, id)
             set  == Setting(all, n + k, id)
             su   == Setting(lu, n, id)
             sp   == Setting(lp, k, id)
  <1>9. mine = {} <=> Mine(lu, n, id) = {} /\ Mine(lp, k, id) = {}
    <2>1. ASSUME NEW i \in mine PROVE i \in Mine(lu, n, id) \/ i - n \in Mine(lp, k, id)
      BY <1>5, <1>6 DEF Mine
    <2>2. ASSUME NEW i \in Mine(lu, n, id) PROVE i \in mine
      BY <1>5, <1>7 DEF Mine
    <2>3. ASSUME NEW i \in Mine(lp, k, id) PROVE n + i \in mine
      BY <1>5, <1>8 DEF Mine
    <2> HIDE DEF mine
    <2>. QED  BY <2>1, <2>2, <2>3
  <1>10. su \subseteq set /\ \A i \in sp : n + i \in set
    BY <1>5, <1>7, <1>8 DEF Mine, Setting
  <1>11. \A i \in set : i \in su \/ i - n \in sp
    BY <1>5, <1>6 DEF Mine, Setting
  <1>12. su \subseteq 1..n /\ sp \subseteq 1..k /\ set \subseteq 1..(n + k) /\ n + k \in Nat
    BY DEF Mine, Setting
  <1>13. LastSetting(u, p, id) =
            IF mine = {} THEN Absent ELSE IF set = {} THEN Empty ELSE all[Max(set)].command
    BY <1>1, <1>4, <1>5 DEF LastSetting, Mine, Setting
  <1>14. Then(Then(Absent, u, id), p, id) = Value(Value(Absent, lu, n, id), lp, k, id)
    BY <1>1, <1>3 DEF Then
  <1> HIDE DEF su, sp, set, mine
  <1>15. CASE sp # {}
    <2>1. PICK m : m = Max(sp)
      OBVIOUS
    <2>2. m \in sp /\ \A y \in sp : y <= m
      BY <1>12, <1>15, <2>1, MaxOf
    <2>3. m \in 1..k /\ n + m \in set
      BY <1>10, <1>12, <2>2
    <2>4. \A y \in set : y <= n + m
      <3>1. SUFFICES ASSUME NEW y \in set PROVE y <= n + m
        OBVIOUS
      <3>2. y \in Nat /\ m \in Nat
        BY <1>12, <2>3
      <3>3. CASE y \in su
        BY <1>12, <3>2, <3>3
      <3>4. CASE y - n \in sp
        BY <2>2, <3>2, <3>4
      <3>. QED  BY <1>11, <3>3, <3>4
    <2>5. Max(set) = n + m
      BY <1>12, <2>3, <2>4, MaxIs
    <2>6. set # {} /\ mine # {}
      BY <2>3 DEF set, mine, Setting
    <2>7. all[n + m] = lp[m]
      BY <1>5, <2>3
    <2>8. Value(Value(Absent, lu, n, id), lp, k, id) = lp[m].command
      BY <1>15, <2>1 DEF Value, sp
    <2>. QED  BY <1>13, <1>14, <2>5, <2>6, <2>7, <2>8
  <1>16. CASE sp = {} /\ su # {}
    <2>1. set = su
      BY <1>10, <1>11, <1>16
    <2>2. PICK m : m = Max(su)
      OBVIOUS
    <2>3. m \in su
      BY <1>12, <1>16, <2>2, MaxOf
    <2>4. all[m] = lu[m] /\ m \in 1..Len(lu)
      BY <1>3, <1>5, <1>12, <2>3
    <2>5. mine # {}
      BY <1>16, <2>1 DEF set, mine, Setting
    <2>6. Value(Absent, lu, n, id) = lu[m].command
      BY <1>16, <2>2 DEF Value, su
    <2>7. lu[m].command # None /\ lu[m] \in Entries
      BY <1>2, <2>3, <2>4 DEF su, Setting
    <2>8. lu[m].command # Absent
      BY <2>7, TokensAssumption DEF Entries
    <2>9. Value(Value(Absent, lu, n, id), lp, k, id) = lu[m].command
      BY <1>16, <2>6, <2>8 DEF Value, sp
    <2>. QED  BY <1>13, <1>14, <1>16, <2>1, <2>2, <2>4, <2>5, <2>9
  <1>17. CASE sp = {} /\ su = {}
    <2>1. set = {}
      BY <1>11, <1>17
    <2>2. Value(Absent, lu, n, id) = IF Mine(lu, n, id) # {} THEN Empty ELSE Absent
      BY <1>17 DEF Value, su
    <2>3. Value(Value(Absent, lu, n, id), lp, k, id) = IF mine = {} THEN Absent ELSE Empty
      BY <1>9, <1>17, <2>2, TokensAssumption DEF Value, sp
    <2>. QED  BY <1>13, <1>14, <2>1, <2>3
  <1>. QED  BY <1>15, <1>16, <1>17

--------------------------------------------------------------------------------
(* What an edit does to the value of an id *)

\* The id is written twice in the document.
Twice(f, id) == \E i, j \in Matching(f, id) : i # j

\* r is l without the entries of id, at the positions p.
Embeds(r, p, l, k, id) ==
    /\ r \in Seq(Entries) /\ p \in [1..Len(r) -> 1..k]
    /\ \A i \in 1..Len(r) : r[i] = l[p[i]] /\ l[p[i]].id # id
    /\ \A i, j \in 1..Len(r) : i < j => p[i] < p[j]
    /\ \A j \in 1..k : l[j].id # id => \E i \in 1..Len(r) : p[i] = j

\* One round of the removal loop.
LEMMA RemovalStep ==
    ASSUME NEW l \in Seq(Entries), NEW id, NEW k \in Nat, k + 1 \in 1..Len(l),
           NEW r, NEW p, Embeds(r, p, l, k, id)
    PROVE  \E q : Embeds(IF l[k + 1].id = id THEN r ELSE Append(r, l[k + 1]), q, l, k + 1, id)
  <1>1. 1..(k + 1) = 1..k \cup {k + 1} /\ k + 1 \notin 1..k
    OBVIOUS
  <1>2. r \in Seq(Entries) /\ Len(r) \in Nat
    BY DEF Embeds
  <1>3. CASE l[k + 1].id = id
    <2>1. p \in [1..Len(r) -> 1..(k + 1)]
      BY <1>1 DEF Embeds
    <2>2. Embeds(r, p, l, k + 1, id)
      BY <1>1, <1>3, <2>1 DEF Embeds
    <2>. QED  BY <1>3, <2>2
  <1>4. CASE l[k + 1].id # id
    <2>1. PICK n \in Nat : n = Len(r)
      BY <1>2
    <2>2. PICK e : e = l[k + 1]
      OBVIOUS
    <2>3. e \in Entries
      BY <2>2
    <2>4. PICK s : s = Append(r, e)
      OBVIOUS
    <2>5. s \in Seq(Entries) /\ Len(s) = n + 1 /\ s[n + 1] = e /\ \A i \in 1..n : s[i] = r[i]
      BY <1>2, <2>1, <2>3, <2>4
    <2>6. PICK q : q = [i \in 1..(n + 1) |-> IF i = n + 1 THEN k + 1 ELSE p[i]]
      OBVIOUS
    <2>7. 1..(n + 1) = 1..n \cup {n + 1} /\ n + 1 \notin 1..n
      OBVIOUS
    <2>8. q[n + 1] = k + 1 /\ \A i \in 1..n : q[i] = p[i] /\ p[i] \in 1..k
      BY <2>1, <2>6, <2>7 DEF Embeds
    <2>9. q \in [1..(n + 1) -> 1..(k + 1)]
      BY <1>1, <2>6, <2>7, <2>8
    <2>10. \A i \in 1..(n + 1) : s[i] = l[q[i]] /\ l[q[i]].id # id
      BY <1>4, <2>1, <2>2, <2>5, <2>7, <2>8 DEF Embeds
    <2>11. ASSUME NEW i \in 1..(n + 1), NEW j \in 1..(n + 1), i < j PROVE q[i] < q[j]
      <3>1. i \in 1..n
        BY <2>11
      <3>2. CASE j = n + 1
        BY <2>8, <3>1, <3>2
      <3>3. CASE j \in 1..n
        BY <2>1, <2>8, <2>11, <3>1, <3>3 DEF Embeds
      <3>. QED  BY <2>7, <3>2, <3>3
    <2>12. ASSUME NEW j \in 1..(k + 1), l[j].id # id PROVE \E i \in 1..(n + 1) : q[i] = j
      <3>1. CASE j = k + 1
        BY <2>7, <2>8, <3>1
      <3>2. CASE j \in 1..k
        <4>1. PICK i \in 1..n : p[i] = j
          BY <2>1, <2>12, <3>2 DEF Embeds
        <4>. QED  BY <2>7, <2>8, <4>1
      <3>. QED  BY <1>1, <3>1, <3>2
    <2>13. Embeds(s, q, l, k + 1, id)
      BY <2>5, <2>9, <2>10, <2>11, <2>12 DEF Embeds
    <2>. QED  BY <1>4, <2>2, <2>4, <2>13
  <1>. QED  BY <1>3, <1>4

\* remove-lsp keeps the entries of the other ids, in their order.
LEMMA RemovalEmbeds ==
    ASSUME NEW l \in Seq(Entries), NEW id \in Ids
    PROVE  \E p : Embeds(Without(l, id), p, l, Len(l), id)
  <1>1. PICK g : IsFold(g, id, <<>>, l, Len(l)) /\ Without(l, id) = g[1..Len(l)]
    BY RemovalIsFold
  <1>2. Len(l) \in Nat
    OBVIOUS
  <1>3. g[{}] = <<>> /\ \A k \in 1..Len(l) : g[1..k] = Step(id, g[1..(k - 1)], l[k])
    BY <1>1, <1>2, FoldPrefix
  <1> DEFINE Wrong == {k \in 0..Len(l) : ~ \E p : Embeds(g[1..k], p, l, k, id)}
  <1>4. 0 \notin Wrong
    <2>1. 1..0 = {} /\ Len(<<>>) = 0 /\ <<>> \in Seq(Entries)
      OBVIOUS
    <2> DEFINE p == [i \in 1..0 |-> 1]
    <2>2. p \in [1..0 -> 1..0]
      OBVIOUS
    <2>3. Embeds(<<>>, p, l, 0, id)
      BY <2>1, <2>2 DEF Embeds
    <2>. QED  BY <1>3, <2>1, <2>3
  <1>5. ASSUME NEW n \in Nat, n \notin Wrong PROVE n + 1 \notin Wrong
    <2>1. SUFFICES ASSUME n + 1 \in 0..Len(l) PROVE \E p : Embeds(g[1..(n + 1)], p, l, n + 1, id)
      OBVIOUS
    <2>2. n + 1 \in 1..Len(l) /\ (n + 1) - 1 = n /\ n \in 0..Len(l)
      BY <1>2, <2>1
    <2>3. PICK p : Embeds(g[1..n], p, l, n, id)
      BY <1>5, <2>2
    <2>4. g[1..(n + 1)] = IF l[n + 1].id = id THEN g[1..n] ELSE Append(g[1..n], l[n + 1])
      BY <1>3, <2>2, TokensAssumption DEF Step
    <2>. QED  BY <2>2, <2>3, <2>4, RemovalStep
  <1>6. Wrong \subseteq Nat
    OBVIOUS
  <1>7. Wrong = {}
    <2> HIDE DEF Wrong
    <2>. QED  BY <1>4, <1>5, <1>6, NoFirst
  <1>8. Len(l) \in 0..Len(l)
    BY <1>2
  <1>. QED  BY <1>1, <1>7, <1>8

\* Only the entries of an id matter to its value.
LEMMA ValueSame ==
    ASSUME NEW l, NEW r, NEW n \in Nat, NEW id, NEW b, Mine(l, n, id) = Mine(r, n, id),
           \A i \in Mine(l, n, id) : l[i].command = r[i].command
    PROVE  Value(b, l, n, id) = Value(b, r, n, id)
  <1>1. Setting(l, n, id) = Setting(r, n, id)
    BY DEF Setting
  <1>2. CASE Setting(l, n, id) = {}
    BY <1>1, <1>2 DEF Value
  <1>3. CASE Setting(l, n, id) # {}
    <2>1. Setting(l, n, id) \subseteq 1..n /\ Setting(l, n, id) \subseteq Mine(l, n, id)
      BY DEF Setting, Mine
    <2>2. PICK m \in Mine(l, n, id) : m = Max(Setting(l, n, id))
      BY <1>3, <2>1, MaxOf
    <2>. QED  BY <1>1, <1>3, <2>2 DEF Value
  <1>. QED  BY <1>2, <1>3

\* Removing one id changes neither the value of another nor whether it is written twice.
LEMMA RemovalMeans ==
    ASSUME NEW l \in Seq(Entries), NEW id \in Ids
    PROVE  /\ Without(l, id) \in Seq(Entries)
           /\ \A b : Value(b, Without(l, id), Len(Without(l, id)), id) = b
           /\ \A b, x : x # id =>
                 Value(b, Without(l, id), Len(Without(l, id)), x) = Value(b, l, Len(l), x)
           /\ \A x : x # id /\ (\E i, j \in Mine(l, Len(l), x) : i # j) =>
                 \E i, j \in Mine(Without(l, id), Len(Without(l, id)), x) : i # j
  <1>1. PICK r : r = Without(l, id)
    OBVIOUS
  <1>2. PICK p : Embeds(r, p, l, Len(l), id)
    BY <1>1, RemovalEmbeds
  <1>3. PICK n, k \in Nat : n = Len(r) /\ k = Len(l)
    BY <1>2 DEF Embeds
  <1>4. /\ r \in Seq(Entries) /\ p \in [1..n -> 1..k]
        /\ \A i \in 1..n : r[i] = l[p[i]] /\ l[p[i]].id # id
        /\ \A i, j \in 1..n : i < j => p[i] < p[j]
        /\ \A j \in 1..k : l[j].id # id => \E i \in 1..n : p[i] = j
    BY <1>2, <1>3 DEF Embeds
  <1>5. ASSUME NEW b PROVE Value(b, r, n, id) = b
    <2>1. Mine(r, n, id) = {}
      BY <1>4 DEF Mine
    <2>. QED  BY <2>1 DEF Value, Setting
  <1>6. ASSUME NEW x, x # id
        PROVE  /\ \A i \in Mine(r, n, x) : p[i] \in Mine(l, k, x)
               /\ \A j \in Mine(l, k, x) : \E i \in Mine(r, n, x) : p[i] = j
               /\ \A i \in Setting(r, n, x) : p[i] \in Setting(l, k, x)
               /\ \A j \in Setting(l, k, x) : \E i \in Setting(r, n, x) : p[i] = j
    <2>1. \A i \in Mine(r, n, x) : p[i] \in Mine(l, k, x)
      BY <1>4 DEF Mine
    <2>2. \A j \in Mine(l, k, x) : \E i \in Mine(r, n, x) : p[i] = j
      BY <1>4, <1>6 DEF Mine
    <2>3. \A i \in Mine(r, n, x) : r[i] = l[p[i]]
      BY <1>4 DEF Mine
    <2>. QED  BY <2>1, <2>2, <2>3 DEF Setting
  <1>7. ASSUME NEW b, NEW x, x # id PROVE Value(b, r, n, x) = Value(b, l, k, x)
    <2>1. Mine(r, n, x) = {} <=> Mine(l, k, x) = {}
      BY <1>6, <1>7
    <2>2. Setting(r, n, x) = {} <=> Setting(l, k, x) = {}
      BY <1>6, <1>7
    <2>3. CASE Setting(r, n, x) = {}
      BY <2>1, <2>2, <2>3 DEF Value
    <2>4. CASE Setting(r, n, x) # {}
      <3>1. Setting(r, n, x) \subseteq 1..n /\ Setting(l, k, x) \subseteq 1..k
        BY DEF Setting, Mine
      <3>2. PICK m : m = Max(Setting(r, n, x)) /\ m \in Setting(r, n, x)
                     /\ \A y \in Setting(r, n, x) : y <= m
        BY <2>4, <3>1, MaxOf
      <3>3. p[m] \in Setting(l, k, x)
        BY <1>6, <1>7, <3>2
      <3>4. ASSUME NEW y \in Setting(l, k, x) PROVE y <= p[m]
        <4>1. PICK i \in Setting(r, n, x) : p[i] = y
          BY <1>6, <1>7, <3>4
        <4>2. i \in 1..n /\ m \in 1..n /\ i <= m /\ p[i] \in Nat /\ p[m] \in Nat
          BY <1>4, <3>1, <3>2
        <4>3. i = m \/ i < m
          BY <4>2
        <4>4. p[i] = p[m] \/ p[i] < p[m]
          BY <1>4, <4>2, <4>3
        <4>. QED  BY <4>1, <4>2, <4>4
      <3>5. Max(Setting(l, k, x)) = p[m]
        BY <3>1, <3>3, <3>4, MaxIs
      <3>6. r[m] = l[p[m]]
        BY <1>4, <3>1, <3>2
      <3>. QED  BY <2>2, <2>4, <3>2, <3>5, <3>6 DEF Value
    <2>. QED  BY <2>3, <2>4
  <1>8. ASSUME NEW x, x # id, NEW i \in Mine(l, k, x), NEW j \in Mine(l, k, x), i # j
        PROVE  \E a, b \in Mine(r, n, x) : a # b
    <2>1. PICK a \in Mine(r, n, x) : p[a] = i
      BY <1>6, <1>8
    <2>2. PICK b \in Mine(r, n, x) : p[b] = j
      BY <1>6, <1>8
    <2>. QED  BY <1>8, <2>1, <2>2
  <1>. QED  BY <1>1, <1>3, <1>4, <1>5, <1>7, <1>8

\* add-lsp: an id that is written once, or not at all, gets the command; the other ids keep their
\* values and no id becomes written once.
LEMMA AdditionMeans ==
    ASSUME NEW f \in Documents, f.lsp \in Seq(Entries), NEW id \in Ids, NEW c \in Commands
    PROVE  /\ AddLsp(f, id, c) \in Documents /\ AddLsp(f, id, c).lsp \in Seq(Entries)
           /\ \A b : ~Twice(f, id) => Then(b, AddLsp(f, id, c), id) = c
           /\ \A b, x : x # id => Then(b, AddLsp(f, id, c), x) = Then(b, f, x)
           /\ \A x : Twice(f, x) => Twice(AddLsp(f, id, c), x)
  <1>1. PICK l \in Seq(Entries) : l = f.lsp
    OBVIOUS
  <1>2. PICK n \in Nat : n = Len(l) /\ DOMAIN l = 1..n
    BY <1>1
  <1>3. PICK g : g = AddLsp(f, id, c)
    OBVIOUS
  <1>4. \A h \in Documents : Layer(h) = h
    BY FilesAssumption DEF Layer
  <1>5. \A x : Matching(f, x) = Mine(l, n, x)
    BY <1>1, <1>2 DEF Matching, Mine
  <1>6. c # None
    BY TokensAssumption
  <1>7. CASE Matching(f, id) = {}
    <2>1. PICK e : e = Entry(id, c)
      OBVIOUS
    <2>2. e \in Entries /\ e.id = id /\ e.command = c
      BY <2>1 DEF Entry, Entries
    <2>3. PICK m : m = Append(l, e)
      OBVIOUS
    <2>4. m \in Seq(Entries) /\ Len(m) = n + 1 /\ m[n + 1] = e /\ \A i \in 1..n : m[i] = l[i]
      BY <1>2, <2>2, <2>3
    <2>5. g = [f EXCEPT !.lsp = m]
      BY <1>1, <1>3, <1>7, <2>1, <2>3 DEF AddLsp
    <2>6. g \in Documents /\ g.lsp = m
      BY <2>4, <2>5 DEF Documents
    <2>7. \A x : Mine(m, n, x) = Mine(l, n, x)
      BY <2>4 DEF Mine
    <2>8. \A b, x : Value(b, m, n, x) = Value(b, l, n, x)
      BY <2>4, <2>7, ValueSame DEF Mine
    <2>9. n + 1 \in 1..Len(m) /\ (n + 1) - 1 = n
      BY <2>4
    <2>10. \A b, x : Value(b, m, n + 1, x) =
              IF m[n + 1].id # x THEN Value(b, m, n, x)
              ELSE IF m[n + 1].command # None THEN m[n + 1].command
              ELSE IF Value(b, m, n, x) = Absent THEN Empty ELSE Value(b, m, n, x)
      BY <2>4, <2>9, ValueStep
    <2>11. \A b, x : Then(b, g, x) = Value(b, m, n + 1, x) /\ Then(b, f, x) = Value(b, l, n, x)
      BY <1>1, <1>2, <1>4, <2>4, <2>6 DEF Then
    <2>12. \A b : Then(b, g, id) = c
      BY <1>6, <2>2, <2>4, <2>10, <2>11
    <2>13. \A b, x : x # id => Then(b, g, x) = Then(b, f, x)
      BY <2>2, <2>4, <2>8, <2>10, <2>11
    <2>14. \A x : Matching(f, x) \subseteq Matching(g, x)
      <3>1. DOMAIN m = 1..(n + 1) /\ 1..n \subseteq 1..(n + 1)
        BY <2>4
      <3>. QED  BY <1>1, <1>2, <2>4, <2>6, <3>1 DEF Matching
    <2>. QED  BY <1>3, <2>4, <2>6, <2>12, <2>13, <2>14 DEF Twice
  <1>8. CASE Matching(f, id) # {}
    <2>1. PICK m \in 1..n : m = Min(Matching(f, id)) /\ m \in Matching(f, id)
      <3>1. Matching(f, id) \subseteq 1..n /\ 1..n \subseteq Nat
        BY <1>5 DEF Mine
      <3>. QED  BY <1>8, <3>1, MinOf
    <2>2. l[m].id = id /\ l[m] \in Entries
      <3>1. m \in Mine(l, n, id)
        BY <1>5, <2>1
      <3>. QED  BY <1>2, <3>1 DEF Mine
    <2>3. PICK e : e = [l[m] EXCEPT !.command = c]
      OBVIOUS
    <2>4. e \in Entries /\ e.id = id /\ e.command = c
      BY <2>2, <2>3 DEF Entries
    <2>5. PICK r : r = [l EXCEPT ![m] = e]
      OBVIOUS
    <2>6. r \in Seq(Entries) /\ Len(r) = n /\ r[m] = e /\ \A i \in 1..n : i # m => r[i] = l[i]
      BY <1>2, <2>1, <2>4, <2>5
    <2>7. g = [f EXCEPT !.lsp = r]
      BY <1>1, <1>3, <1>8, <2>1, <2>3, <2>5 DEF AddLsp, Documents
    <2>8. g \in Documents /\ g.lsp = r
      BY <2>6, <2>7 DEF Documents
    <2>9. \A b, x : Then(b, g, x) = Value(b, r, n, x) /\ Then(b, f, x) = Value(b, l, n, x)
      BY <1>1, <1>2, <1>4, <2>6, <2>8 DEF Then
    <2>10. \A x : Mine(r, n, x) = Mine(l, n, x)
      BY <2>2, <2>4, <2>6 DEF Mine
    <2>11. ASSUME NEW x, x # id PROVE \A i \in Mine(r, n, x) : r[i].command = l[i].command
      BY <2>4, <2>6, <2>11 DEF Mine
    <2>12. \A b, x : x # id => Then(b, g, x) = Then(b, f, x)
      BY <2>9, <2>10, <2>11, ValueSame
    <2>13. ASSUME NEW b, ~Twice(f, id) PROVE Then(b, g, id) = c
      <3>1. Mine(r, n, id) = {m}
        BY <1>5, <2>1, <2>10, <2>13 DEF Twice
      <3>2. Setting(r, n, id) = {m}
        BY <1>6, <2>4, <2>6, <3>1 DEF Setting
      <3>3. {m} \subseteq 1..n /\ \A y \in {m} : y <= m
        BY <2>1
      <3>4. Max({m}) = m
        BY <3>3, MaxIs
      <3>5. Value(b, r, n, id) = r[m].command
        BY <3>2, <3>4 DEF Value
      <3>. QED  BY <2>4, <2>6, <2>9, <3>5
    <2>14. \A x : Matching(g, x) = Mine(r, n, x)
      BY <2>6, <2>8 DEF Matching, Mine
    <2>. QED  BY <1>3, <1>5, <2>6, <2>8, <2>10, <2>12, <2>13, <2>14 DEF Twice
  <1>. QED  BY <1>7, <1>8

\* remove-lsp: no entry with the id is left; the other ids keep their values.
LEMMA RemoveMeans ==
    ASSUME NEW f \in Documents, f.lsp \in Seq(Entries), NEW id \in Ids
    PROVE  /\ RemoveLsp(f, id) \in Documents /\ RemoveLsp(f, id).lsp \in Seq(Entries)
           /\ \A b : Then(b, RemoveLsp(f, id), id) = b
           /\ \A b, x : x # id => Then(b, RemoveLsp(f, id), x) = Then(b, f, x)
           /\ \A x : x # id /\ Twice(f, x) => Twice(RemoveLsp(f, id), x)
  <1>1. PICK g : g = RemoveLsp(f, id)
    OBVIOUS
  <1>2. \A h \in Documents : Layer(h) = h
    BY FilesAssumption DEF Layer
  <1>3. PICK l \in Seq(Entries) : l = f.lsp
    OBVIOUS
  <1>4. PICK r : r = Without(l, id)
    OBVIOUS
  <1>5. /\ r \in Seq(Entries)
        /\ \A b : Value(b, r, Len(r), id) = b
        /\ \A b, x : x # id => Value(b, r, Len(r), x) = Value(b, l, Len(l), x)
        /\ \A x : x # id /\ (\E i, j \in Mine(l, Len(l), x) : i # j) =>
              \E i, j \in Mine(r, Len(r), x) : i # j
    BY <1>3, <1>4, RemovalMeans
  <1>6. g \in Documents /\ g.lsp = r
    BY <1>1, <1>3, <1>4, <1>5 DEF RemoveLsp, Documents
  <1>7. \A b, x : Then(b, g, x) = Value(b, r, Len(r), x) /\ Then(b, f, x) = Value(b, l, Len(l), x)
    BY <1>2, <1>3, <1>6 DEF Then
  <1>8. \A x : Matching(g, x) = Mine(r, Len(r), x) /\ Matching(f, x) = Mine(l, Len(l), x)
    BY <1>3, <1>5, <1>6 DEF Matching, Mine
  <1>. QED  BY <1>1, <1>5, <1>6, <1>7, <1>8 DEF Twice

\* init --lsp: the one entry of the template gives its id the command.
LEMMA TemplateMeans ==
    ASSUME NEW id, NEW c
    PROVE  /\ id = None => InitTemplate(id, c) \in Documents
           /\ id \in Ids /\ c \in Commands =>
                 /\ InitTemplate(id, c) \in Documents /\ InitTemplate(id, c).lsp \in Seq(Entries)
                 /\ \A b : Then(b, InitTemplate(id, c), id) = c
  <1>1. CASE id = None
    BY <1>1, TokensAssumption DEF InitTemplate, Documents, Ttls
  <1>2. CASE id \in Ids /\ c \in Commands
    <2>1. PICK l : l = <<Entry(id, c)>>
      OBVIOUS
    <2>2. Entry(id, c) \in Entries /\ Entry(id, c).id = id /\ Entry(id, c).command = c
      BY <1>2 DEF Entry, Entries
    <2>3. l \in Seq(Entries) /\ Len(l) = 1 /\ l[1].id = id /\ l[1].command = c
      BY <2>1, <2>2
    <2>4. InitTemplate(id, c) \in Documents /\ InitTemplate(id, c).lsp = l
      BY <1>2, <2>1, <2>3, TokensAssumption DEF InitTemplate, Documents, Ttls
    <2>5. \A h \in Documents : Layer(h) = h
      BY FilesAssumption DEF Layer
    <2>6. c # None
      BY <1>2, TokensAssumption
    <2>7. \A b : Value(b, l, 1, id) = c
      BY <2>3, <2>6, ValueStep
    <2>. QED  BY <1>2, <2>3, <2>4, <2>5, <2>7, TokensAssumption DEF Then
  <1>. QED  BY <1>1, <1>2

--------------------------------------------------------------------------------
(* Attaching *)

\* The server that a merged configuration selects for an id.
Wanted(m, id) == IF m.lsps[id] \in Commands THEN m.lsps[id] ELSE BuiltIn[id]

\* The domains of what the clients and the writers keep.
Domains ==
    /\ user \in Documents \cup {Missing} /\ project \in Documents \cup {Missing}
    /\ doc \in [Writers -> Documents]
    /\ wpc \in [Writers -> {"idle", "loaded", "truncated"}]
    /\ cpc \in [Clients -> {"idle", "hashed", "spawning", "attached", "refused"}]
    /\ want \in [Clients -> Ids]
    /\ DOMAIN edit = Writers /\ \A w \in Writers : wpc[w] # "idle" => edit[w] \in Edits
    /\ DOMAIN key = Clients /\ DOMAIN saw = Clients /\ DOMAIN merged = Clients
    /\ promised = [id \in Ids |-> promised[id]]
    /\ stale \subseteq Writers

\* The session key is the merge that the client saw; it is the merge of now until the files
\* change under the client, and the daemon's own reading agrees with it; a session runs what its
\* key selects, unless the files changed under the client that started it.
AttachOK ==
    /\ key = saw
    /\ \A c \in Clients \ raced :
          /\ cpc[c] \in {"hashed", "spawning"} => saw[c] = Resolve(user, project)
          /\ cpc[c] = "spawning" => merged[c] = saw[c]
    /\ \A s \in sessions : s.raced \/ s.runs = Wanted(s.key, s.id)
    /\ \A c \in Clients : cpc[c] = "attached" => Sessions(c) # {}

--------------------------------------------------------------------------------
(* Editing *)

\* With the user's file u, the document f gives every id what pr says of it.
Keeps(u, f, pr) ==
    \A id \in Ids :
        \/ pr[id] = None
        \/ f.lsp # NotTables /\ (pr[id] = Resolve(u, f).lsps[id] \/ Twice(f, id))

\* What a command that is not overtaken makes of the promises pr.
PromiseOf(u, e, pr) ==
    IF e.op = "set" /\ e.value = NotTables THEN [id \in Ids |-> None]
    ELSE IF e.op = "add" THEN [pr EXCEPT ![e.id] = e.value]
    ELSE IF e.op = "remove" THEN [pr EXCEPT ![e.id] = LastSetting(u, Missing, e.id)]
    ELSE IF e.op = "set" THEN pr
    ELSE [id \in Ids |-> IF id = e.id THEN e.value ELSE None]

\* Between a truncation and its write every other command at work is overtaken; the file, and the
\* document of a command that is not overtaken, keep what is or will be promised.
EditsOK ==
    /\ \A v, w \in Writers : wpc[v] = "truncated" /\ w # v /\ wpc[w] # "idle" => w \in stale
    /\ Parses(user) =>
          /\ (\A w \in Writers : wpc[w] # "truncated") => Keeps(user, Layer(project), promised)
          /\ \A w \in Writers \ stale : wpc[w] # "idle" => Keeps(user, doc[w], PromiseOf(user, edit[w], promised))

ConfigInv == Domains /\ AttachOK /\ EditsOK

\* The commands, one by one.
LEMMA EditShape ==
    ASSUME NEW e \in Edits
    PROVE  \/ e.op = "add" /\ e.id \in Ids /\ e.value \in Commands
           \/ e.op = "remove" /\ e.id \in Ids
           \/ e.op = "set" /\ e.value \in {1, Bad, NotTables}
           \/ e.op = "init" /\ e.id \in Ids /\ e.value \in Commands
           \/ e.op = "init" /\ e.id = None /\ e.value = None
  <1>1. ASSUME NEW id \in Ids, BuiltIn[id] # Absent, e = [op |-> "init", id |-> id, value |-> BuiltIn[id]]
        PROVE  e.op = "init" /\ e.id \in Ids /\ e.value \in Commands
    BY <1>1, BuiltInAssumption
  <1>. QED  BY <1>1 DEF Edits

\* What each command does to a document it accepts.
LEMMA EditCases ==
    ASSUME NEW e, NEW f
    PROVE  /\ e.op = "add" => Edited(e, f) = AddLsp(f, e.id, e.value)
           /\ e.op = "remove" => Edited(e, f) = RemoveLsp(f, e.id)
           /\ e.op = "set" => Edited(e, f) = SetKey(f, e.value)
           /\ e.op = "init" => Edited(e, f) = InitTemplate(e.id, e.value)
           /\ e.op \in {"add", "remove"} /\ ~Refused(e, f) => Layer(f).lsp # NotTables
  <1>1. /\ e.op = "add" => Edited(e, f) = AddLsp(f, e.id, e.value)
        /\ e.op = "remove" => Edited(e, f) = RemoveLsp(f, e.id)
        /\ e.op = "set" => Edited(e, f) = SetKey(f, e.value)
        /\ e.op = "init" => Edited(e, f) = InitTemplate(e.id, e.value)
    BY DEF Edited
  <1>2. /\ e.op = "add" /\ ~Refused(e, f) => Layer(f).lsp # NotTables
        /\ e.op = "remove" /\ ~Refused(e, f) => Layer(f).lsp # NotTables
    BY Zenon DEF Refused
  <1>. QED  BY <1>1, <1>2

\* A command turns a document into a document ...
LEMMA EditedType ==
    ASSUME NEW f \in Documents, NEW e \in Edits, ~Refused(e, f)
    PROVE  Edited(e, f) \in Documents
  <1>1. Layer(f) = f /\ f.lsp \in Seq(Entries) \cup {NotTables}
    BY FilesAssumption DEF Layer, Documents
  <1>2. CASE e.op = "add" /\ e.id \in Ids /\ e.value \in Commands
    BY <1>1, <1>2, EditCases, AdditionMeans
  <1>3. CASE e.op = "remove" /\ e.id \in Ids
    BY <1>1, <1>3, EditCases, RemoveMeans
  <1>4. CASE e.op = "set" /\ e.value \in {1, Bad, NotTables}
    <2>1. Edited(e, f) = SetKey(f, e.value)
      BY <1>4, EditCases
    <2>. QED  BY <1>4, <2>1 DEF SetKey, Documents, Ttls
  <1>5. CASE e.op = "init" /\ e.id \in Ids /\ e.value \in Commands
    BY <1>5, EditCases, TemplateMeans
  <1>6. CASE e.op = "init" /\ e.id = None
    BY <1>6, EditCases, TemplateMeans
  <1>. QED  BY <1>2, <1>3, <1>4, <1>5, <1>6, EditShape

\* ... that keeps what it promises and what was promised before.
LEMMA EditKeeps ==
    ASSUME NEW u, Layer(u).lsp \in Seq(Entries), NEW f \in Documents, NEW e \in Edits, ~Refused(e, f),
           NEW pr, pr = [id \in Ids |-> pr[id]], Keeps(u, f, pr)
    PROVE  Keeps(u, Edited(e, f), PromiseOf(u, e, pr))
  <1>1. /\ f.lsp \in Seq(Entries) \cup {NotTables}
        /\ \A h \in Documents : Layer(h) = h
    BY FilesAssumption DEF Layer, Documents
  <1>2. ASSUME NEW h \in Documents, h.lsp \in Seq(Entries), NEW id \in Ids
        PROVE  Resolve(u, h).lsps[id] = Then(Then(Absent, u, id), h, id)
    BY <1>1, <1>2, ResolveMeans
  <1>3. PICK g \in Documents : g = Edited(e, f)
    BY EditedType
  <1>4. \A h \in Documents : h.lsp \in Seq(Entries) => h.lsp # NotTables
    BY FilesAssumption
  <1>5. SUFFICES ASSUME NEW x \in Ids, PromiseOf(u, e, pr)[x] # None
                 PROVE  g.lsp # NotTables /\ (PromiseOf(u, e, pr)[x] = Resolve(u, g).lsps[x] \/ Twice(g, x))
    BY <1>3 DEF Keeps
  <1>6. ASSUME pr[x] # None
        PROVE  f.lsp # NotTables /\ f.lsp \in Seq(Entries) /\ (pr[x] = Resolve(u, f).lsps[x] \/ Twice(f, x))
    BY <1>1, <1>6 DEF Keeps
  <1>7. CASE e.op = "add" /\ e.id \in Ids /\ e.value \in Commands
    <2>1. f.lsp \in Seq(Entries) /\ g = AddLsp(f, e.id, e.value)
      BY <1>1, <1>3, <1>7, EditCases
    <2>2. /\ g.lsp \in Seq(Entries) /\ g.lsp # NotTables
          /\ \A b : ~Twice(f, e.id) => Then(b, g, e.id) = e.value
          /\ \A b, y : y # e.id => Then(b, g, y) = Then(b, f, y)
          /\ \A y : Twice(f, y) => Twice(g, y)
      BY <1>4, <1>7, <2>1, AdditionMeans
    <2>3. PromiseOf(u, e, pr)[x] = IF x = e.id THEN e.value ELSE pr[x]
      BY <1>7 DEF PromiseOf
    <2>4. /\ Resolve(u, g).lsps[x] = Then(Then(Absent, u, x), g, x)
          /\ Resolve(u, f).lsps[x] = Then(Then(Absent, u, x), f, x)
      BY <1>2, <2>1, <2>2
    <2>5. CASE x = e.id
      BY <2>2, <2>3, <2>4, <2>5
    <2>6. CASE x # e.id
      BY <1>5, <1>6, <2>2, <2>3, <2>4, <2>6
    <2>. QED  BY <2>5, <2>6
  <1>8. CASE e.op = "remove" /\ e.id \in Ids
    <2>1. f.lsp \in Seq(Entries) /\ g = RemoveLsp(f, e.id)
      BY <1>1, <1>3, <1>8, EditCases
    <2>2. /\ g.lsp \in Seq(Entries) /\ g.lsp # NotTables
          /\ \A b : Then(b, g, e.id) = b
          /\ \A b, y : y # e.id => Then(b, g, y) = Then(b, f, y)
          /\ \A y : y # e.id /\ Twice(f, y) => Twice(g, y)
      BY <1>4, <1>8, <2>1, RemoveMeans
    <2>3. PromiseOf(u, e, pr)[x] = IF x = e.id THEN LastSetting(u, Missing, x) ELSE pr[x]
      BY <1>8 DEF PromiseOf
    <2>4. /\ Resolve(u, g).lsps[x] = Then(Then(Absent, u, x), g, x)
          /\ Resolve(u, f).lsps[x] = Then(Then(Absent, u, x), f, x)
      BY <1>2, <2>1, <2>2
    <2>5. CASE x = e.id
      <3>1. Layer(Missing).lsp = <<>> /\ <<>> \in Seq(Entries)
        BY DEF Layer, EmptyDoc
      <3>2. LastSetting(u, Missing, x) = Then(Then(Absent, u, x), Missing, x)
        BY <3>1, LayersConcatenate
      <3>3. \A b : Then(b, Missing, x) = b
        <4>1. Len(<<>>) = 0 /\ 1..0 = {}
          OBVIOUS
        <4>. QED  BY <3>1, <4>1 DEF Then, Value, Setting, Mine
      <3>. QED  BY <2>2, <2>3, <2>4, <2>5, <3>2, <3>3
    <2>6. CASE x # e.id
      BY <1>5, <1>6, <2>2, <2>3, <2>4, <2>6
    <2>. QED  BY <2>5, <2>6
  <1>9. CASE e.op = "set" /\ e.value \in {1, Bad, NotTables}
    <2>1. g = SetKey(f, e.value)
      BY <1>3, <1>9, EditCases
    <2>2. CASE e.value = NotTables
      BY <1>5, <1>9, <2>2 DEF PromiseOf
    <2>3. CASE e.value # NotTables
      <3>1. PromiseOf(u, e, pr)[x] = pr[x]
        BY <1>9, <2>3 DEF PromiseOf
      <3>2. g.lsp = f.lsp
        BY <2>1, <2>3 DEF SetKey, Documents
      <3>3. Matching(g, x) = Matching(f, x) /\ Resolve(u, g).lsps = Resolve(u, f).lsps
        BY <1>1, <3>2 DEF Matching, Resolve, ApplyPartial, ApplyEntries
      <3>. QED  BY <1>5, <1>6, <3>1, <3>2, <3>3 DEF Twice
    <2>. QED  BY <2>2, <2>3
  <1>10. CASE e.op = "init" /\ e.id \in Ids /\ e.value \in Commands
    <2>1. g = InitTemplate(e.id, e.value)
      BY <1>3, <1>10, EditCases
    <2>2. g.lsp \in Seq(Entries) /\ g.lsp # NotTables /\ \A b : Then(b, g, e.id) = e.value
      BY <1>4, <1>10, <2>1, TemplateMeans
    <2>3. x = e.id /\ PromiseOf(u, e, pr)[x] = e.value
      BY <1>5, <1>10 DEF PromiseOf
    <2>. QED  BY <1>2, <2>2, <2>3
  <1>11. CASE e.op = "init" /\ e.id = None /\ e.value = None
    <2>1. PromiseOf(u, e, pr)[x] = None
      BY <1>11 DEF PromiseOf
    <2>. QED  BY <1>5, <2>1
  <1>. QED  BY <1>7, <1>8, <1>9, <1>10, <1>11, EditShape

--------------------------------------------------------------------------------
(* Steps *)

\* A file that parses has entries to fold over.
LEMMA ParsedLsp ==
    ASSUME NEW f \in Documents \cup {Missing}
    PROVE  /\ Layer(f) \in Documents /\ Layer(Layer(f)) = Layer(f)
           /\ Parses(f) => Layer(f).lsp \in Seq(Entries)
  <1>1. EmptyDoc \in Documents /\ EmptyDoc.lsp \in Seq(Entries)
    BY DEF EmptyDoc, Documents
  <1>2. \A h \in Documents : h # Missing /\ h.lsp \in Seq(Entries) \cup {NotTables}
    BY FilesAssumption DEF Documents
  <1>. QED  BY <1>1, <1>2 DEF Layer, Parses

\* Nobody has begun.
LEMMA InitConfig == Init => ConfigInv
  <1> SUFFICES ASSUME Init PROVE ConfigInv
    OBVIOUS
  <1>1. EmptyDoc \in Documents
    BY DEF EmptyDoc, Documents
  <1>2. Domains
    BY <1>1, FilesAssumption DEF Init, Domains
  <1>3. AttachOK
    BY DEF Init, AttachOK
  <1>4. \A w \in Writers : wpc[w] = "idle"
    BY DEF Init
  <1>5. Keeps(user, Layer(project), promised)
    BY DEF Init, Keeps
  <1>6. EditsOK
    BY <1>4, <1>5 DEF EditsOK
  <1>. QED  BY <1>2, <1>3, <1>6 DEF ConfigInv

\* Every file stays a document that TOML allows.
LEMMA StepDomains == Domains /\ [Next]_vars => Domains'
  <1> SUFFICES ASSUME Domains, [Next]_vars PROVE Domains'
    OBVIOUS
  <1> USE DEF files, writing, asking
  <1>1. EmptyDoc \in Documents
    BY DEF EmptyDoc, Documents
  <1>2. ASSUME NEW w \in Writers, NEW e \in Edits, Load(w, e) PROVE Domains'
    <2>1. Layer(project) \in Documents /\ ~Refused(e, Layer(project))
      <3>1. Layer(project) \in Documents /\ Layer(Layer(project)) = Layer(project)
        BY ParsedLsp DEF Domains
      <3>2. ~Refused(e, project)
        BY <1>2 DEF Load
      <3>3. Refused(e, project) = Refused(e, Layer(project))
        BY <3>1 DEF Refused
      <3>. QED  BY <3>1, <3>2, <3>3
    <2>2. Edited(e, Layer(project)) \in Documents
      BY <2>1, EditedType
    <2>3. doc' \in [Writers -> Documents] /\ wpc' \in [Writers -> {"idle", "loaded", "truncated"}]
      BY <1>2, <2>2 DEF Load, Domains
    <2>4. DOMAIN edit' = Writers /\ \A v \in Writers : wpc'[v] # "idle" => edit'[v] \in Edits
      BY <1>2 DEF Load, Domains
    <2>5. stale' \subseteq Writers
      BY <1>2 DEF Load, Domains
    <2>. QED  BY <1>2, <2>3, <2>4, <2>5 DEF Load, Domains
  <1>3. ASSUME NEW w \in Writers, Truncate(w) PROVE Domains'
    BY <1>1, <1>3 DEF Truncate, Put, Domains
  <1>4. ASSUME NEW w \in Writers, Write(w) PROVE Domains'
    <2>1. project' \in Documents /\ doc' \in [Writers -> Documents]
      BY <1>1, <1>4 DEF Write, End, Put, Domains
    <2>2. wpc' \in [Writers -> {"idle", "loaded", "truncated"}] /\ stale' \subseteq Writers
      BY <1>4 DEF Write, End, Put, Domains
    <2>3. DOMAIN edit' = Writers /\ \A v \in Writers : wpc'[v] # "idle" => edit'[v] \in Edits
      BY <1>4 DEF Write, End, Domains
    <2>4. promised' = [id \in Ids |-> promised'[id]]
      <3>1. edit[w] \in Edits
        BY <1>4 DEF Write, Domains
      <3>2. edit[w].op \in {"add", "remove", "set", "init"}
        BY <3>1, EditShape
      <3>3. promised = [id \in Ids |-> promised[id]]
        BY DEF Domains
      <3>4. DOMAIN promised = Ids
        BY <3>3
      <3>5. promised' = Promise(w)
        BY <1>4 DEF Write
      <3>6. CASE w \in stale \/ (edit[w].op = "set" /\ edit[w].value = NotTables)
        BY <3>5, <3>6 DEF Promise
      <3>7. CASE ~(w \in stale \/ (edit[w].op = "set" /\ edit[w].value = NotTables))
        <4>1. CASE edit[w].op = "add"
          BY <3>4, <3>5, <3>7, <4>1 DEF Promise
        <4>2. CASE edit[w].op = "remove"
          BY <3>4, <3>5, <3>7, <4>2 DEF Promise
        <4>3. CASE edit[w].op = "set"
          BY <3>3, <3>5, <3>7, <4>3 DEF Promise
        <4>4. CASE edit[w].op = "init"
          BY <3>5, <3>7, <4>4 DEF Promise
        <4>. QED  BY <3>2, <4>1, <4>2, <4>3, <4>4
      <3>. QED  BY <3>6, <3>7
    <2>5. UNCHANGED <<user, cpc, want, key, saw, merged>>
      BY <1>4 DEF Write
    <2>. QED  BY <2>1, <2>2, <2>3, <2>4, <2>5 DEF Domains
  <1>5. ASSUME NEW w \in Writers, Die(w) PROVE Domains'
    BY <1>1, <1>5 DEF Die, End, Domains
  <1>6. ASSUME NEW c \in Clients, Hash(c) PROVE Domains'
    BY <1>6 DEF Hash, Domains
  <1>7. ASSUME NEW c \in Clients, Attach(c) PROVE Domains'
    BY <1>7 DEF Attach, Domains
  <1>8. ASSUME NEW c \in Clients, Spawn(c) PROVE Domains'
    BY <1>8 DEF Spawn, Domains
  <1>9. CASE UNCHANGED vars
    BY <1>9 DEF vars, Domains
  <1>. QED  BY <1>2, <1>3, <1>4, <1>5, <1>6, <1>7, <1>8, <1>9 DEF Next

\* The clients and the sessions.
LEMMA StepAttachOK == Domains /\ AttachOK /\ [Next]_vars => AttachOK'
  <1> SUFFICES ASSUME Domains, AttachOK, [Next]_vars PROVE AttachOK'
    OBVIOUS
  <1> USE DEF files, writing, asking
  <1>1. ASSUME NEW w \in Writers, Put(w, project'), UNCHANGED <<user, asking>> PROVE AttachOK'
    <2>1. \A c \in Clients \ raced' : c \notin raced /\ cpc'[c] \notin {"hashed", "spawning"}
      BY <1>1 DEF Put
    <2>. QED  BY <1>1, <2>1 DEF AttachOK, Sessions
  <1>2. ASSUME NEW w \in Writers, NEW e \in Edits, Load(w, e) PROVE AttachOK'
    BY <1>2 DEF Load, AttachOK, Sessions
  <1>3. ASSUME NEW w \in Writers, Truncate(w) \/ Write(w) PROVE AttachOK'
    BY <1>1, <1>3 DEF Truncate, Write, Put
  <1>4. ASSUME NEW w \in Writers, Die(w) PROVE AttachOK'
    BY <1>4 DEF Die, AttachOK, Sessions
  <1>5. ASSUME NEW c \in Clients, Hash(c) PROVE AttachOK'
    <2>1. /\ cpc[c] = "idle" /\ cpc' = [cpc EXCEPT ![c] = "hashed"]
          /\ saw' = [saw EXCEPT ![c] = Resolve(user, project)]
          /\ key' = [key EXCEPT ![c] = Resolve(user, project)]
          /\ UNCHANGED <<user, project, want, merged, sessions, raced>>
      BY <1>5 DEF Hash, HashIdentity
    <2>2. key' = saw'
      BY <2>1 DEF AttachOK
    <2>3. \A d \in Clients : IF d = c THEN saw'[d] = Resolve(user, project) /\ cpc'[d] = "hashed"
                             ELSE saw'[d] = saw[d] /\ key'[d] = key[d] /\ cpc'[d] = cpc[d]
      BY <2>1 DEF Domains
    <2>4. \A d \in Clients : cpc'[d] = "attached" => Sessions(d)' # {}
      BY <2>1, <2>3 DEF AttachOK, Sessions
    <2>. QED  BY <2>1, <2>2, <2>3, <2>4 DEF AttachOK
  <1>6. ASSUME NEW c \in Clients, Attach(c) PROVE AttachOK'
    <2>1. UNCHANGED <<user, project, want, key, sessions, saw, raced>> /\ cpc[c] = "hashed"
      BY <1>6 DEF Attach
    <2>2. \/ Sessions(c) # {} /\ cpc' = [cpc EXCEPT ![c] = "attached"] /\ merged' = merged
          \/ /\ cpc' = [cpc EXCEPT ![c] = "spawning"]
             /\ merged' = [merged EXCEPT ![c] = Resolve(user, project)]
          \/ cpc' = [cpc EXCEPT ![c] = "refused"] /\ merged' = merged
      BY <1>6 DEF Attach
    <2>3. \A d \in Clients : d # c => cpc'[d] = cpc[d] /\ merged'[d] = merged[d]
      BY <2>2 DEF Domains
    <2>4. /\ cpc'[c] \in {"spawning", "attached", "refused"}
          /\ cpc'[c] = "attached" => Sessions(c) # {}
          /\ cpc'[c] = "spawning" => merged'[c] = Resolve(user, project)
      BY <2>2 DEF Domains
    <2>5. \A d \in Clients : Sessions(d)' = Sessions(d)
      BY <2>1 DEF Sessions
    <2>6. \A d \in Clients : cpc'[d] = "attached" => Sessions(d)' # {}
      BY <2>3, <2>4, <2>5 DEF AttachOK
    <2>. QED  BY <2>1, <2>3, <2>4, <2>6 DEF AttachOK
  <1>7. ASSUME NEW c \in Clients, Spawn(c) PROVE AttachOK'
    <2> DEFINE command == ResolveLsp(merged[c], Catalog(user, project), want[c])
               new == [key |-> key[c], id |-> want[c], runs |-> command, raced |-> c \in raced]
    <2>1. /\ cpc[c] = "spawning" /\ merged' = [merged EXCEPT ![c] = None]
          /\ UNCHANGED <<user, project, want, key, saw, raced>>
      BY <1>7 DEF Spawn
    <2>2. \/ /\ Readable /\ command \in Commands
             /\ cpc' = [cpc EXCEPT ![c] = "attached"] /\ sessions' = sessions \cup {new}
          \/ cpc' = [cpc EXCEPT ![c] = "refused"] /\ sessions' = sessions
      BY <1>7 DEF Spawn
    <2>3. ASSUME Readable, command \in Commands, c \notin raced PROVE command = Wanted(key[c], want[c])
      <3>1. merged[c] = Resolve(user, project) /\ key[c] = merged[c]
        BY <2>1, <2>3 DEF AttachOK
      <3>2. want[c] \in Ids /\ Layer(user).lsp \in Seq(Entries) /\ Layer(project).lsp \in Seq(Entries)
        BY <2>3, ParsedLsp DEF Readable, Domains
      <3>3. CASE merged[c].lsps[want[c]] \in Commands
        BY <3>1, <3>3 DEF ResolveLsp, Wanted
      <3>4. CASE merged[c].lsps[want[c]] \notin Commands
        <4>1. command = Catalog(user, project)[want[c]]
          BY <3>4 DEF ResolveLsp
        <4>2. Catalog(user, project)[want[c]] = BuiltIn[want[c]]
          BY <2>3, <3>1, <3>2, <3>4, <4>1, CatalogAgrees
        <4>. QED  BY <3>1, <3>4, <4>1, <4>2 DEF Wanted
      <3>. QED  BY <3>3, <3>4
    <2> HIDE DEF command
    <2>4. \A d \in Clients : d # c => cpc'[d] = cpc[d] /\ merged'[d] = merged[d]
      BY <2>1, <2>2 DEF Domains
    <2>5. cpc'[c] \in {"attached", "refused"}
      BY <2>2 DEF Domains
    <2>6. \A s \in sessions' : s.raced \/ s.runs = Wanted(s.key, s.id)
      <3>1. ASSUME Readable, command \in Commands PROVE new.raced \/ new.runs = Wanted(new.key, new.id)
        BY <2>3, <3>1
      <3>. QED  BY <2>2, <3>1 DEF AttachOK
    <2>7. cpc'[c] = "attached" => new \in sessions'
      BY <2>2 DEF Domains
    <2>8. sessions \subseteq sessions'
      BY <2>2
    <2>9. ASSUME NEW d \in Clients, cpc'[d] = "attached" PROVE Sessions(d)' # {}
      <3>1. CASE d = c
        BY <2>1, <2>7, <2>9, <3>1 DEF Sessions
      <3>2. CASE d # c
        <4>1. PICK s \in sessions : s.key = key[d] /\ s.id = want[d]
          BY <2>4, <2>9, <3>2 DEF AttachOK, Sessions
        <4>. QED  BY <2>1, <2>8, <4>1 DEF Sessions
      <3>. QED  BY <3>1, <3>2
    <2>. QED  BY <2>1, <2>4, <2>5, <2>6, <2>9 DEF AttachOK
  <1>8. CASE UNCHANGED vars
    BY <1>8 DEF vars, AttachOK, Sessions
  <1>. QED  BY <1>2, <1>3, <1>4, <1>5, <1>6, <1>7, <1>8 DEF Next

\* A command that is not overtaken promises PromiseOf.
LEMMA PromiseCases ==
    ASSUME Domains, NEW w \in Writers, edit[w] \in Edits
    PROVE  Promise(w) = IF w \in stale THEN [id \in Ids |-> None] ELSE PromiseOf(user, edit[w], promised)
  <1>1. edit[w].op \in {"add", "remove", "set", "init"}
    BY EditShape
  <1>2. CASE w \in stale \/ (edit[w].op = "set" /\ edit[w].value = NotTables)
    BY <1>2 DEF Promise, PromiseOf
  <1>3. CASE ~(w \in stale \/ (edit[w].op = "set" /\ edit[w].value = NotTables))
    <2>1. CASE edit[w].op = "add"
      BY <1>3, <2>1 DEF Promise, PromiseOf
    <2>2. CASE edit[w].op = "remove"
      BY <1>3, <2>2 DEF Promise, PromiseOf
    <2>3. CASE edit[w].op = "set"
      BY <1>3, <2>3 DEF Promise, PromiseOf
    <2>4. CASE edit[w].op = "init"
      BY <1>3, <2>4 DEF Promise, PromiseOf
    <2>. QED  BY <1>1, <2>1, <2>2, <2>3, <2>4
  <1>. QED  BY <1>2, <1>3

\* The config commands and the file.
LEMMA StepEdits == Domains /\ EditsOK /\ [Next]_vars => EditsOK'
  <1> SUFFICES ASSUME Domains, EditsOK, [Next]_vars PROVE EditsOK'
    OBVIOUS
  <1> USE DEF files, writing, asking
  <1>1. user' = user
    BY DEF Next, Load, Truncate, Write, Die, Hash, Attach, Spawn, vars
  <1>2. Parses(user)' = Parses(user)
    BY <1>1 DEF Parses
  <1>3. \A f : Keeps(user, f, [id \in Ids |-> None])
    BY DEF Keeps
  <1>4. ASSUME NEW w \in Writers, NEW e \in Edits, Load(w, e) PROVE EditsOK'
    <2>1. /\ wpc' = [wpc EXCEPT ![w] = "loaded"] /\ edit' = [edit EXCEPT ![w] = e]
          /\ doc' = [doc EXCEPT ![w] = Edited(e, Layer(project))]
          /\ stale' = IF \E v \in Writers : wpc[v] = "truncated" THEN stale \cup {w} ELSE stale \ {w}
          /\ wpc[w] = "idle" /\ ~Refused(e, project) /\ UNCHANGED <<project, promised>>
      BY <1>4 DEF Load
    <2>2. /\ wpc'[w] = "loaded" /\ edit'[w] = e /\ doc'[w] = Edited(e, Layer(project))
          /\ \A v \in Writers : v # w => wpc'[v] = wpc[v] /\ edit'[v] = edit[v] /\ doc'[v] = doc[v]
      BY <2>1 DEF Domains
    <2>3. \A v, x \in Writers : wpc'[v] = "truncated" /\ x # v /\ wpc'[x] # "idle" => x \in stale'
      BY <2>1, <2>2 DEF EditsOK
    <2>4. ASSUME Parses(user), \A v \in Writers : wpc'[v] # "truncated"
          PROVE  Keeps(user, Layer(project), promised)
      BY <2>1, <2>2, <2>4 DEF EditsOK
    <2>5. ASSUME Parses(user), NEW x \in Writers \ stale', wpc'[x] # "idle"
          PROVE  Keeps(user, doc'[x], PromiseOf(user, edit'[x], promised))
      <3>1. CASE x = w
        <4>1. \A v \in Writers : wpc'[v] # "truncated"
          BY <2>1, <2>2, <2>5, <3>1
        <4>2. Keeps(user, Layer(project), promised)
          BY <2>4, <2>5, <4>1
        <4>3. Layer(project) \in Documents /\ Layer(Layer(project)) = Layer(project)
          BY ParsedLsp DEF Domains
        <4>4. ~Refused(e, Layer(project))
          <5>1. Refused(e, project) = Refused(e, Layer(project))
            BY <4>3 DEF Refused
          <5>. QED  BY <2>1, <5>1
        <4>5. Layer(user).lsp \in Seq(Entries)
          BY <2>5, ParsedLsp DEF Domains
        <4>6. promised = [id \in Ids |-> promised[id]]
          BY DEF Domains
        <4>7. Keeps(user, Edited(e, Layer(project)), PromiseOf(user, e, promised))
          BY <4>2, <4>3, <4>4, <4>5, <4>6, EditKeeps
        <4>. QED  BY <2>2, <3>1, <4>7
      <3>2. CASE x # w
        BY <2>1, <2>2, <2>5, <3>2 DEF EditsOK
      <3>. QED  BY <3>1, <3>2
    <2>. QED  BY <1>1, <1>2, <2>1, <2>3, <2>4, <2>5 DEF EditsOK
  <1>5. ASSUME NEW w \in Writers, Truncate(w) PROVE EditsOK'
    <2>1. /\ wpc[w] = "loaded" /\ wpc' = [wpc EXCEPT ![w] = "truncated"]
          /\ UNCHANGED <<edit, doc, promised>>
      BY <1>5 DEF Truncate
    <2>2. wpc'[w] = "truncated" /\ \A v \in Writers : v # w => wpc'[v] = wpc[v]
      BY <2>1 DEF Domains
    <2>3. stale' = stale \cup {v \in Writers \ {w} : wpc[v] # "idle"}
      BY <1>5, <2>2 DEF Truncate, Put
    <2>4. \A v, x \in Writers : wpc'[v] = "truncated" /\ x # v /\ wpc'[x] # "idle" => x \in stale'
      BY <2>1, <2>2, <2>3 DEF EditsOK
    <2>5. \A x \in Writers \ stale' : wpc'[x] # "idle" => x = w /\ x \notin stale
      BY <2>2, <2>3
    <2>. QED  BY <1>1, <1>2, <2>1, <2>2, <2>4, <2>5 DEF EditsOK
  <1>6. ASSUME NEW w \in Writers, Write(w) PROVE EditsOK'
    <2>1. wpc[w] = "truncated" /\ wpc' = [wpc EXCEPT ![w] = "idle"] /\ project' = doc[w] /\ promised' = Promise(w)
      BY <1>6 DEF Write, End, Put
    <2>2. wpc'[w] = "idle" /\ \A v \in Writers : v # w => wpc'[v] = wpc[v]
      BY <2>1 DEF Domains
    <2>3. stale' = (stale \ {w}) \cup {v \in Writers \ {w} : wpc[v] # "idle"}
      BY <1>6, <2>2 DEF Write, Put
    <2>4. \A x \in Writers : wpc'[x] # "idle" => x \in stale'
      BY <2>2, <2>3
    <2>5. edit[w] \in Edits /\ doc[w] \in Documents
      BY <2>1 DEF Domains
    <2>6. Layer(doc[w]) = doc[w]
      BY <2>5, FilesAssumption DEF Layer
    <2>7. Parses(user) => Keeps(user, doc[w], Promise(w))
      BY <1>3, <2>1, <2>5, PromiseCases DEF EditsOK
    <2>8. Parses(user) => Keeps(user', Layer(project'), promised')
      BY <1>1, <2>1, <2>6, <2>7
    <2>. QED  BY <1>2, <2>4, <2>8 DEF EditsOK
  <1>7. ASSUME NEW w \in Writers, Die(w) PROVE EditsOK'
    <2>1. /\ wpc[w] = "truncated" /\ wpc' = [wpc EXCEPT ![w] = "idle"] /\ stale' = stale \ {w}
          /\ promised' = [id \in Ids |-> None]
      BY <1>7 DEF Die, End
    <2>2. wpc'[w] = "idle" /\ \A v \in Writers : v # w => wpc'[v] = wpc[v]
      BY <2>1 DEF Domains
    <2>3. \A x \in Writers : wpc'[x] # "idle" => x \in stale'
      BY <2>1, <2>2 DEF EditsOK
    <2>4. Keeps(user', Layer(project'), promised')
      BY <1>1, <1>3, <2>1
    <2>. QED  BY <2>3, <2>4 DEF EditsOK
  <1>8. CASE (\E c \in Clients : Hash(c) \/ Attach(c) \/ Spawn(c)) \/ UNCHANGED vars
    <2>1. UNCHANGED <<project, wpc, edit, doc, stale, promised>>
      BY <1>8 DEF Hash, Attach, Spawn, vars
    <2>. QED  BY <1>1, <1>2, <2>1 DEF EditsOK
  <1>. QED  BY <1>4, <1>5, <1>6, <1>7, <1>8 DEF Next

\* ConfigInv is inductive.
LEMMA StepConfig == ConfigInv /\ [Next]_vars => ConfigInv'
  BY StepDomains, StepAttachOK, StepEdits DEF ConfigInv

--------------------------------------------------------------------------------
(* Theorems *)

\* The merge of the user's file and the project's gives every id the command of the last entry
\* that sets it, for all files of any length (resolve, apply_partial).
THEOREM LastLayerAlwaysWins == Spec => []LastLayerWins
  <1>1. ConfigInv => LastLayerWins
    <2> SUFFICES ASSUME ConfigInv, Readable, NEW id \in Ids
                 PROVE  Resolve(user, project).lsps[id] = LastSetting(user, project, id)
      BY DEF LastLayerWins
    <2>1. Layer(user).lsp \in Seq(Entries) /\ Layer(project).lsp \in Seq(Entries)
      BY ParsedLsp DEF ConfigInv, Domains, Readable
    <2>. QED  BY <2>1, ResolveMeans, LayersConcatenate
  <1>. QED  BY <1>1, InitConfig, StepConfig, PTL DEF Spec

\* A client is attached to the server that its own reading of the files selects, unless they
\* changed under the first client of the session, for any number of clients, writers and edits
\* (hash_identity, resolve_lsp_config).
THEOREM ClientsGetTheirServer == Spec => []ClientsServer
  <1>1. ConfigInv => ClientsServer
    <2> SUFFICES ASSUME ConfigInv, NEW c \in Clients, cpc[c] = "attached"
                 PROVE  \E s \in Sessions(c) : s.raced \/ s.runs = Wanted(saw[c], want[c])
      BY DEF ClientsServer, Wanted
    <2>1. PICK s \in Sessions(c) : TRUE
      BY DEF ConfigInv, AttachOK
    <2>2. s \in sessions /\ s.key = saw[c] /\ s.id = want[c]
      BY DEF ConfigInv, AttachOK, Sessions
    <2>. QED  BY <2>2 DEF ConfigInv, AttachOK
  <1>. QED  BY <1>1, InitConfig, StepConfig, PTL DEF Spec

\* What a config command reported stays what a resolve finds, until a later command names that
\* server again, or two commands overlap, or one dies, for any number of writers and edits
\* (run_add_lsp, run_remove_lsp, run_set, run_init).
THEOREM EditsAlwaysLast == Spec => []EditsLast
  <1>1. ConfigInv => EditsLast
    <2> SUFFICES ASSUME ConfigInv, Readable, \A w \in Writers : wpc[w] # "truncated", NEW id \in Ids
                 PROVE  \/ promised[id] \in {None, Resolve(user, project).lsps[id]}
                        \/ \E i, j \in Matching(Layer(project), id) : i # j
      BY DEF EditsLast
    <2>1. Keeps(user, Layer(project), promised)
      BY DEF ConfigInv, EditsOK, Readable
    <2>2. Layer(Layer(project)) = Layer(project)
      BY ParsedLsp DEF ConfigInv, Domains
    <2>3. Resolve(user, Layer(project)).lsps = Resolve(user, project).lsps
      BY <2>2 DEF Resolve, ApplyPartial, ApplyEntries
    <2>. QED  BY <2>1, <2>3 DEF Keeps, Twice
  <1>. QED  BY <1>1, InitConfig, StepConfig, PTL DEF Spec

================================================================================
