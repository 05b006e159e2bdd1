------------------------------ MODULE PageProofs -----------------------------
(***************************************************************************)
(* The two pages.                                                          *)
(*                                                                         *)
(* The explorer computes the rule: for entries of any number, with any     *)
(* kinds, numbers and bits, the incumbent of its loop is at every point    *)
(* the entry that none passed so far outranks, and what it has written     *)
(* beside each of the others is the level it lost at or a lower one than   *)
(* it would lose at now.  Every handler draws, so what is shown is the     *)
(* outcome for the entries and the check box as they are.                  *)
(*                                                                         *)
(* The player keeps hold of its timer, however often the reader clicks.    *)
(***************************************************************************)
EXTENDS EntryExplorer, RulePlayer, FiniteSetTheorems, WellFoundedInduction, TLAPS

(***************************************************************************)
(* Induction over the natural numbers, for sets.                           *)
(***************************************************************************)
LEMMA SetInduction ==
  ASSUME NEW S \in SUBSET Nat, 0 \in S, \A n \in S : n + 1 \in S
  PROVE  \A n \in Nat : n \in S
<1> DEFINE Less == {ss \in Nat \X Nat : ss[1] < ss[2]}
<1>1. IsWellFoundedOn(Less, Nat)
  BY NatLessThanWellFounded, Zenon DEF OpToRel
<1>2. SUFFICES ASSUME Nat \ S # {} PROVE FALSE
  OBVIOUS
<1>3. PICK x \in Nat \ S : \A y \in Nat \ S : ~(<<y, x>> \in Less)
  <2> HIDE DEF Less
  <2>. QED  BY <1>1, <1>2, WFMin
<1>4. x - 1 \in Nat /\ x - 1 < x
  BY <1>3
<1>5. <<x - 1, x>> \in Less
  BY <1>3, <1>4
<1>6. x - 1 \in S
  BY <1>3, <1>4, <1>5
<1>. QED  BY <1>3, <1>4, <1>6

------------------------------------------------------------------------------
(***************************************************************************)
(* The loop is well defined: there is one verdict after each entry, and it *)
(* is a round of the one before.                                           *)
(***************************************************************************)
NextVerdict(es, force, v, k) == IF InPool(es, force, k) THEN Round(es, v, k) ELSE v

Runs(es, force, n, f) ==
  f = [k \in 0..n |-> IF k = 0 THEN NoVerdict(es, force)
                      ELSE NextVerdict(es, force, f[k - 1], k)]

LEMMA SomeRun ==
  ASSUME NEW es, NEW force, NEW n \in Nat
  PROVE  \E f : Runs(es, force, n, f)
<1> DEFINE S == {m \in Nat : \E f : Runs(es, force, m, f)}
<1>1. 0 \in S
  <2> DEFINE g == [k \in 0..0 |-> NoVerdict(es, force)]
  <2>1. Runs(es, force, 0, g)
    BY DEF Runs
  <2>. QED  BY <2>1
<1>2. ASSUME NEW m \in S PROVE m + 1 \in S
  <2>1. PICK f : Runs(es, force, m, f)
    OBVIOUS
  <2> DEFINE g == [k \in 0..(m + 1) |-> IF k <= m THEN f[k]
                                        ELSE NextVerdict(es, force, f[m], k)]
  <2>2. ASSUME NEW k \in 0..(m + 1)
        PROVE  g[k] = IF k = 0 THEN NoVerdict(es, force)
                      ELSE NextVerdict(es, force, g[k - 1], k)
    <3>1. CASE k = 0
      BY <2>1, <3>1 DEF Runs
    <3>2. CASE k \in 1..m
      <4>1. g[k] = f[k] /\ g[k - 1] = f[k - 1]
        BY <3>2
      <4>. QED  BY <2>1, <3>2, <4>1 DEF Runs
    <3>3. CASE k = m + 1
      <4>1. g[k] = NextVerdict(es, force, f[m], k) /\ g[k - 1] = f[m]
        BY <3>3
      <4>. QED  BY <3>3, <4>1
    <3>. QED  BY <3>1, <3>2, <3>3
  <2>3. Runs(es, force, m + 1, g)
    <3>1. g = [k \in 0..(m + 1) |-> g[k]]
      OBVIOUS
    <3> HIDE DEF g
    <3>. QED  BY <2>2, <3>1 DEF Runs
  <2>. QED  BY <2>3
<1>3. n \in S
  <2> HIDE DEF S
  <2>1. S \in SUBSET Nat
    BY DEF S
  <2>. QED  BY <1>1, <1>2, <2>1, SetInduction
<1>. QED  BY <1>3

LEMMA VerdictsRun ==
  ASSUME NEW es, NEW force, Len(es) \in Nat
  PROVE  /\ Verdicts(es, force)[0] = NoVerdict(es, force)
         /\ \A k \in 1..Len(es) : Verdicts(es, force)[k]
                = NextVerdict(es, force, Verdicts(es, force)[k - 1], k)
<1> DEFINE f == Verdicts(es, force)
<1>1. f = CHOOSE g : Runs(es, force, Len(es), g)
  BY DEF Verdicts, Runs, NextVerdict
<1>2. Runs(es, force, Len(es), f)
  <2> HIDE DEF f
  <2>. QED  BY <1>1, SomeRun
<1> HIDE DEF f
<1>3. f[0] = NoVerdict(es, force) /\ \A k \in 1..Len(es) : f[k] = NextVerdict(es, force, f[k - 1], k)
  BY <1>2 DEF Runs
<1>. QED  BY <1>3 DEF f

------------------------------------------------------------------------------
(***************************************************************************)
(* The order.  Entries the page's filter lets through are ranked.          *)
(***************************************************************************)
Ranked == {e \in Entry : e.kind \in RankedKinds}

LEMMA RankDeterminesKind ==
  ASSUME NEW k \in RankedKinds, NEW l \in RankedKinds
  PROVE  /\ KindRank[k] \in 1..3
         /\ KindRank[k] = KindRank[l] => k = l
BY DEF RankedKinds, KindRank

LEMMA RankedFacts ==
  ASSUME NEW e \in Ranked, NEW f \in Ranked
  PROVE  /\ e.arch \in Nat /\ f.arch \in Nat
         /\ KindRank[e.kind] \in 1..3 /\ KindRank[f.kind] \in 1..3
         /\ KindRank[e.kind] = KindRank[f.kind] => e.kind = f.kind
BY RankDeterminesKind DEF Ranked, Entry

LEMMA OutranksTransitive ==
  ASSUME NEW c, NEW i \in Nat, NEW j \in Nat, NEW k \in Nat,
         c[i] \in Ranked, c[j] \in Ranked, c[k] \in Ranked,
         Outranks(c, i, j), Outranks(c, j, k)
  PROVE  Outranks(c, i, k) /\ LostAt(c[i], c[k]) <= LostAt(c[j], c[k])
<1> HIDE DEF Ranked
<1>1. /\ c[i].arch \in Nat /\ c[j].arch \in Nat /\ c[k].arch \in Nat
      /\ KindRank[c[i].kind] \in 1..3 /\ KindRank[c[j].kind] \in 1..3
      /\ KindRank[c[k].kind] \in 1..3
      /\ KindRank[c[i].kind] = KindRank[c[j].kind] => c[i].kind = c[j].kind
      /\ KindRank[c[j].kind] = KindRank[c[k].kind] => c[j].kind = c[k].kind
  BY RankedFacts
<1>. QED
  BY <1>1 DEF Outranks, BetterByContent, BetterKind, BetterArch, BetterFlag,
     TiedUpToOrder, SameArch, SameKind, BetterPosition, LostAt

(***************************************************************************)
(* One comparison of the page: the later entry c displaces the incumbent   *)
(* exactly if it outranks it, and the level the page writes down is the    *)
(* one the loser lost at.                                                  *)
(***************************************************************************)
LEMMA ComparisonIsTheRules ==
  ASSUME NEW es, NEW b \in Nat, NEW c \in Nat, b < c,
         es[b] \in Ranked, es[c] \in Ranked
  PROVE  LET level == SeparatingLevel(es[c], es[b])
         IN  IF Displaces(es[c], es[b])
             THEN Outranks(es, c, b) /\ level = LostAt(es[c], es[b])
             ELSE Outranks(es, b, c) /\ level = LostAt(es[b], es[c])
<1>1. /\ es[b].arch \in Nat /\ es[c].arch \in Nat
      /\ KindRank[es[b].kind] \in 1..3 /\ KindRank[es[c].kind] \in 1..3
      /\ KindRank[es[b].kind] = KindRank[es[c].kind] => es[b].kind = es[c].kind
  BY RankedFacts
<1>2. CASE es[c].kind # es[b].kind
  BY <1>1, <1>2 DEF SeparatingLevel, Displaces, Outranks, BetterByContent,
     BetterKind, BetterArch, BetterFlag, SameArch, SameKind, LostAt
<1>3. CASE es[c].kind = es[b].kind /\ es[c].arch # es[b].arch
  BY <1>1, <1>3 DEF SeparatingLevel, Displaces, Outranks, BetterByContent,
     BetterKind, BetterArch, BetterFlag, SameArch, SameKind, LostAt
<1>4. CASE es[c].kind = es[b].kind /\ es[c].arch = es[b].arch
  <2>1. ~BetterKind(es[b], es[c]) /\ ~BetterKind(es[c], es[b])
        /\ ~BetterArch(es[b], es[c]) /\ ~BetterArch(es[c], es[b])
        /\ SameArch(es[b], es[c]) /\ SameArch(es[c], es[b])
    BY <1>1, <1>4 DEF BetterKind, BetterArch, SameArch, SameKind
  <2>2. CASE es[c].kind = "ELF" /\ ~(Deprioritised(es[c]) <=> Deprioritised(es[b]))
    <3>1. SeparatingLevel(es[c], es[b]) = 3
      BY <1>4, <2>2, Zenon DEF SeparatingLevel
    <3>2. Displaces(es[c], es[b]) <=> Deprioritised(es[b])
      BY <3>1 DEF Displaces
    <3>. QED
      BY <1>4, <2>1, <2>2, <3>1, <3>2 DEF Outranks, BetterByContent, BetterFlag, LostAt
  <2>3. CASE es[c].kind = "ELF" => (Deprioritised(es[c]) <=> Deprioritised(es[b]))
    <3>1. SeparatingLevel(es[c], es[b]) = 4
      <4>1. Deprioritised(es[c]) = Deprioritised(es[b]) \/ es[c].kind # "ELF"
        BY <2>3 DEF Deprioritised
      <4>. QED  BY <1>4, <4>1 DEF SeparatingLevel
    <3>2. Displaces(es[c], es[b]) <=> es[c].kind = "PTX"
      BY <3>1 DEF Displaces
    <3>3. TiedUpToOrder(es[c], es[b]) /\ TiedUpToOrder(es[b], es[c])
      BY <1>4, <2>1, <2>3 DEF TiedUpToOrder
    <3>4. ~BetterFlag(es[c], es[b]) /\ ~BetterFlag(es[b], es[c])
      BY <1>4, <2>3 DEF BetterFlag
    <3>. QED
      BY <1>4, <2>1, <3>1, <3>2, <3>3, <3>4 DEF Outranks, BetterByContent, BetterPosition, LostAt
  <2>. QED  BY <2>2, <2>3
<1>. QED  BY <1>2, <1>3, <1>4

------------------------------------------------------------------------------
(***************************************************************************)
(* What a verdict says once the entries up to k are seen.                  *)
(***************************************************************************)
Passed(es, force, k) == {i \in DOMAIN es : InPool(es, force, i) /\ i <= k}

Sound(es, force, k, v) ==
  /\ DOMAIN v.why = DOMAIN es
  /\ \A i \in DOMAIN es : ~InPool(es, force, i) => v.why[i] = 0
  /\ IF v.best = NoEntry THEN Passed(es, force, k) = {}
     ELSE /\ BestOf(es, Passed(es, force, k), v.best)
          /\ \A i \in Passed(es, force, k) \ {v.best} :
               v.why[i] \in LostAt(es[v.best], es[i])..4

LEMMA PoolIsRanked ==
  ASSUME NEW es \in Seq(Entry), NEW force, NEW i \in DOMAIN es, InPool(es, force, i)
  PROVE  i \in Nat /\ es[i] \in Ranked
BY DEF InPool, Compatible, Ranked

LEMMA LevelsLostAt ==
  \A e, f : LostAt(e, f) \in 1..4
BY DEF LostAt

LEMMA StartIsSound ==
  ASSUME NEW es \in Seq(Entry), NEW force
  PROVE  Sound(es, force, 0, NoVerdict(es, force))
<1>1. Passed(es, force, 0) = {}
  BY DEF Passed
<1>. QED  BY <1>1 DEF Sound, NoVerdict, Verdict

LEMMA RoundStaysSound ==
  ASSUME NEW es \in Seq(Entry), NEW force, NEW k \in 1..Len(es), NEW v,
         Sound(es, force, k - 1, v)
  PROVE  Sound(es, force, k, NextVerdict(es, force, v, k))
<1> DEFINE old == Passed(es, force, k - 1)
           new == Passed(es, force, k)
           b   == v.best
<1>1. k \in DOMAIN es /\ k \in Nat
  OBVIOUS
<1>2. CASE ~InPool(es, force, k)
  <2>1. new = old
    BY <1>1, <1>2 DEF Passed
  <2>. QED  BY <1>2, <2>1 DEF Sound, NextVerdict
<1>3. CASE InPool(es, force, k) /\ b = NoEntry
  <2>1. old = {}
    BY <1>3 DEF Sound
  <2>2. new = {k}
    BY <1>1, <1>3, <2>1 DEF Passed
  <2>3. NextVerdict(es, force, v, k) = Verdict(k, v.why)
    BY <1>3 DEF NextVerdict, Round
  <2>4. k # NoEntry
    BY <1>1, ExplorerAssumption
  <2>5. BestOf(es, new, k)
    BY <2>2 DEF BestOf
  <2> HIDE DEF new, old
  <2>6. Sound(es, force, k, Verdict(k, v.why))
    BY <2>2, <2>4, <2>5 DEF Sound, Verdict, new
  <2>. QED  BY <2>3, <2>6
<1>4. CASE InPool(es, force, k) /\ b # NoEntry
  <2>1. /\ b \in old /\ \A j \in old \ {b} : Outranks(es, b, j)
        /\ \A i \in old \ {b} : v.why[i] \in LostAt(es[b], es[i])..4
        /\ DOMAIN v.why = DOMAIN es
        /\ \A i \in DOMAIN es : ~InPool(es, force, i) => v.why[i] = 0
    BY <1>4 DEF Sound, BestOf
  <2>2. new = old \cup {k} /\ k \notin old
    BY <1>1, <1>4 DEF Passed
  <2>3. /\ \A i \in new : i \in Nat /\ i \in DOMAIN es /\ es[i] \in Ranked /\ InPool(es, force, i)
        /\ \A i \in new : i # NoEntry
    BY PoolIsRanked, ExplorerAssumption DEF Passed
  <2>4. b < k /\ b \in new /\ k \in new
    BY <1>1, <2>1, <2>2 DEF Passed
  <2> DEFINE level == SeparatingLevel(es[k], es[b])
  <2>5. IF Displaces(es[k], es[b])
        THEN Outranks(es, k, b) /\ level = LostAt(es[k], es[b])
        ELSE Outranks(es, b, k) /\ level = LostAt(es[b], es[k])
    BY <2>3, <2>4, ComparisonIsTheRules
  <2> HIDE DEF old, new, level
  <2>6. CASE Displaces(es[k], es[b])
    <3> DEFINE w == [v.why EXCEPT ![b] = level]
    <3>1. NextVerdict(es, force, v, k) = Verdict(k, w)
      BY <1>4, <2>6 DEF NextVerdict, Round, level
    <3>2. \A i \in old \ {b} : Outranks(es, k, i) /\ LostAt(es[k], es[i]) <= LostAt(es[b], es[i])
      BY <2>1, <2>2, <2>3, <2>4, <2>5, <2>6, OutranksTransitive
    <3>3. BestOf(es, new, k)
      BY <2>1, <2>2, <2>5, <2>6, <3>2 DEF BestOf
    <3>4. DOMAIN w = DOMAIN es /\ \A i \in DOMAIN es \ {b} : w[i] = v.why[i]
      BY <2>1
    <3>5. w[b] = level
      BY <2>1, <2>3, <2>4
    <3> HIDE DEF w
    <3>6. \A i \in new \ {k} : w[i] \in LostAt(es[k], es[i])..4
      <4> SUFFICES ASSUME NEW i \in new \ {k} PROVE w[i] \in LostAt(es[k], es[i])..4
        OBVIOUS
      <4>0. LostAt(es[k], es[i]) \in 1..4 /\ LostAt(es[b], es[i]) \in 1..4
        BY LevelsLostAt
      <4>1. CASE i = b
        BY <2>5, <2>6, <3>5, <4>0, <4>1
      <4>2. CASE i # b
        <5>1. i \in old \ {b} /\ w[i] = v.why[i]
          BY <2>2, <2>3, <3>4, <4>2
        <5>. QED  BY <2>1, <3>2, <4>0, <5>1
      <4>. QED  BY <4>1, <4>2
    <3>7. \A i \in DOMAIN es : ~InPool(es, force, i) => w[i] = 0
      BY <2>1, <2>3, <2>4, <3>4
    <3>8. Sound(es, force, k, Verdict(k, w))
      BY <2>3, <2>4, <3>3, <3>4, <3>6, <3>7 DEF Sound, Verdict, new
    <3>. QED  BY <3>1, <3>8
  <2>7. CASE ~Displaces(es[k], es[b])
    <3> DEFINE w == [v.why EXCEPT ![k] = level]
    <3>1. NextVerdict(es, force, v, k) = Verdict(b, w)
      BY <1>4, <2>7 DEF NextVerdict, Round, level
    <3>2. BestOf(es, new, b)
      BY <2>1, <2>2, <2>5, <2>7 DEF BestOf
    <3>3. DOMAIN w = DOMAIN es /\ \A i \in DOMAIN es \ {k} : w[i] = v.why[i]
      BY <2>1
    <3>4. w[k] = level
      BY <1>1, <2>1
    <3> HIDE DEF w
    <3>5. \A i \in new \ {b} : w[i] \in LostAt(es[b], es[i])..4
      <4> SUFFICES ASSUME NEW i \in new \ {b} PROVE w[i] \in LostAt(es[b], es[i])..4
        OBVIOUS
      <4>0. LostAt(es[b], es[i]) \in 1..4
        BY LevelsLostAt
      <4>1. CASE i = k
        BY <2>5, <2>7, <3>4, <4>0, <4>1
      <4>2. CASE i # k
        BY <2>1, <2>2, <2>3, <3>3, <4>2
      <4>. QED  BY <4>1, <4>2
    <3>6. \A i \in DOMAIN es : ~InPool(es, force, i) => w[i] = 0
      BY <1>4, <2>1, <3>3
    <3>7. Sound(es, force, k, Verdict(b, w))
      BY <1>4, <3>2, <3>3, <3>5, <3>6 DEF Sound, Verdict, new
    <3>. QED  BY <3>1, <3>7
  <2>. QED  BY <2>6, <2>7
<1>. QED  BY <1>2, <1>3, <1>4

LEMMA SelectIsSound ==
  ASSUME NEW es \in Seq(Entry), NEW force
  PROVE  Sound(es, force, Len(es), Select(es, force))
<1> DEFINE S == {k \in Nat : k <= Len(es) => Sound(es, force, k, Verdicts(es, force)[k])}
<1>0. Len(es) \in Nat
  OBVIOUS
<1>1. 0 \in S
  BY <1>0, VerdictsRun, StartIsSound
<1>2. ASSUME NEW k \in S PROVE k + 1 \in S
  <2> SUFFICES ASSUME k + 1 <= Len(es)
               PROVE  Sound(es, force, k + 1, Verdicts(es, force)[k + 1])
    OBVIOUS
  <2>1. /\ k + 1 \in 1..Len(es) /\ (k + 1) - 1 = k
        /\ Sound(es, force, k, Verdicts(es, force)[k])
    BY <1>0
  <2>2. Verdicts(es, force)[k + 1]
          = NextVerdict(es, force, Verdicts(es, force)[(k + 1) - 1], k + 1)
    BY <1>0, <2>1, VerdictsRun
  <2>3. Verdicts(es, force)[k + 1]
          = NextVerdict(es, force, Verdicts(es, force)[k], k + 1)
    BY <2>1, <2>2
  <2>4. Sound(es, force, (k + 1) - 1, Verdicts(es, force)[k])
    BY <2>1
  <2>5. Sound(es, force, k + 1, NextVerdict(es, force, Verdicts(es, force)[k], k + 1))
    BY <2>1, <2>4, RoundStaysSound
  <2>. QED  BY <2>3, <2>5
<1>3. Len(es) \in S
  <2>1. S \in SUBSET Nat
    OBVIOUS
  <2> HIDE DEF S
  <2>. QED  BY <1>0, <1>1, <1>2, <2>1, SetInduction
<1>. QED  BY <1>0, <1>3 DEF Select

------------------------------------------------------------------------------
(***************************************************************************)
(* The inductive invariant: the page holds entries as a container holds    *)
(* them, and shows the outcome for what it holds.                          *)
(***************************************************************************)
PageInv == /\ entries \in Seq(Entry)
           /\ forced \in BOOLEAN
           /\ shown = Drawing(entries, forced)

LEMMA NewEntry ==
  ASSUME NEW kind \in Kinds, NEW arch \in Nat, NEW flags \in SUBSET FlagBits
  PROVE  E(kind, arch, flags) \in Entry
BY DEF E, Entry

LEMMA PresetsAreContainers ==
  \A name \in DOMAIN PRESETS : PRESETS[name] \in Seq(Entry)
<1>1. /\ E("PTX", 89, {}) \in Entry /\ E("ELF", 89, {}) \in Entry
      /\ E("ELF", 86, {}) \in Entry /\ E("ELF", 89, {24}) \in Entry
      /\ E("ELF", 89, {20}) \in Entry /\ E("PTX", 89, {16}) \in Entry
      /\ E("ELF", 75, {}) \in Entry
  BY NewEntry DEF Kinds, FlagBits
<1>2. /\ PRESETS.cubinBeatsPTX \in Seq(Entry) /\ PRESETS.kindOutranksArch \in Seq(Entry)
      /\ PRESETS.bit24 \in Seq(Entry) /\ PRESETS.lastPTX \in Seq(Entry)
      /\ PRESETS.suffix \in Seq(Entry) /\ PRESETS.obf \in Seq(Entry)
  <2> HIDE DEF E
  <2>. QED  BY <1>1 DEF PRESETS
<1>3. DOMAIN PRESETS = {"cubinBeatsPTX", "kindOutranksArch", "bit24", "lastPTX", "suffix", "obf"}
  BY DEF PRESETS
<1>. QED  BY <1>2, <1>3

(***************************************************************************)
(* Every handler leaves entries of a container on the page.                *)
(***************************************************************************)
LEMMA EditsAreContainers ==
  ASSUME entries \in Seq(Entry), NEW i \in DOMAIN entries, EditEntry(i)
  PROVE  /\ entries' \in Seq(Entry)
         /\ UNCHANGED forced /\ Render
<1>0. /\ i \in 1..Len(entries) /\ Len(entries) \in Nat /\ entries[i] \in Entry
      /\ \A j \in 1..Len(entries) : entries[j] \in Entry
  OBVIOUS
<1>1. CASE MoveEarlier(i) \/ MoveLater(i)
  <2>1. \/ i - 1 \in DOMAIN entries /\ Swap(i - 1, i)
        \/ i + 1 \in DOMAIN entries /\ Swap(i, i + 1)
    BY <1>0, <1>1 DEF MoveEarlier, MoveLater
  <2>2. PICK j \in DOMAIN entries, k \in DOMAIN entries : Swap(j, k)
    BY <2>1
  <2>. QED  BY <2>2 DEF Swap, Edit
<1>2. CASE RemoveEntry(i)
  <2>1. RemoveAt(entries, i) \in Seq(Entry)
    BY <1>0 DEF RemoveAt
  <2>. QED  BY <1>2, <2>1 DEF RemoveEntry, Edit
<1>3. CASE \E kind \in EditKinds : SetKind(i, kind)
  <2>1. PICK kind \in EditKinds : Edit([entries EXCEPT ![i].kind = kind])
    BY <1>3 DEF SetKind
  <2>2. [entries[i] EXCEPT !.kind = kind] \in Entry
    BY <1>0, ExplorerAssumption DEF Entry, Kinds
  <2>. QED  BY <1>0, <2>1, <2>2 DEF Edit
<1>4. CASE \E a \in TypedArchs : SetArch(i, a)
  <2>1. PICK a \in TypedArchs : Edit([entries EXCEPT ![i].arch = Clamp(a)])
    BY <1>4 DEF SetArch
  <2>2. Clamp(a) \in Nat
    BY ExplorerAssumption DEF Clamp
  <2>3. [entries[i] EXCEPT !.arch = Clamp(a)] \in Entry
    BY <1>0, <2>2 DEF Entry
  <2>. QED  BY <1>0, <2>1, <2>3 DEF Edit
<1>5. CASE \E b \in EditBits : ToggleBit(i, b)
  <2>1. PICK b \in EditBits : Edit([entries EXCEPT ![i].flags = Toggle(@, b)])
    BY <1>5 DEF ToggleBit
  <2>2. [entries[i] EXCEPT !.flags = Toggle(@, b)] \in Entry
    BY <1>0, ExplorerAssumption DEF Entry, Toggle, FlagBits
  <2>. QED  BY <1>0, <2>1, <2>2 DEF Edit
<1>. QED  BY <1>1, <1>2, <1>3, <1>4, <1>5 DEF EditEntry

LEMMA PageInvariant ==
  Spec => []PageInv
<1>1. Init => PageInv
  BY PresetsAreContainers DEF Init, PageInv, PRESETS
<1>2. PageInv /\ [Next]_vars => PageInv'
  <2> SUFFICES ASSUME PageInv, [Next]_vars PROVE PageInv'
    OBVIOUS
  <2>1. CASE \E name \in DOMAIN PRESETS : Load(name)
    BY <2>1, PresetsAreContainers DEF PageInv, Load, Render
  <2>2. CASE \E i \in DOMAIN entries : EditEntry(i)
    BY <2>2, EditsAreContainers DEF PageInv, Render
  <2>3. CASE AddEntry
    <3>1. E("ELF", 89, {}) \in Entry
      BY NewEntry DEF Kinds
    <3>. QED  BY <2>3, <3>1 DEF PageInv, AddEntry, Edit, Render
  <2>4. CASE ToggleForce
    BY <2>4 DEF PageInv, ToggleForce, Render
  <2>5. CASE UNCHANGED vars
    BY <2>5 DEF PageInv, vars
  <2>. QED  BY <2>1, <2>2, <2>3, <2>4, <2>5 DEF Next
<1>. QED  BY <1>1, <1>2, PTL DEF Spec

(***************************************************************************)
(* The page's filter is the filter of the rule, and what it draws is the   *)
(* verdict after the last entry.                                           *)
(***************************************************************************)
LEMMA PageFiltersLikeTheRule ==
  ASSUME PageInv
  PROVE  /\ RulePool = Passed(entries, forced, Len(entries))
         /\ \A i \in DOMAIN entries : i \in RulePool <=> InPool(entries, forced, i)
<1>1. \A i \in DOMAIN entries :
        i \in Candidates(entries, GPU) <=> Compatible(entries[i])
  BY DEF Candidates, ArchCompatible, Compatible
<1>2. Candidates(entries, GPU) \subseteq DOMAIN entries
  BY DEF Candidates
<1>3. \A i \in DOMAIN entries : i \in RulePool <=> InPool(entries, forced, i)
  BY <1>1 DEF PageInv, RulePool, Pool, DiscardCubins, InPool
<1>4. RulePool \subseteq DOMAIN entries
  BY <1>2 DEF RulePool, Pool, DiscardCubins
<1>5. \A i \in DOMAIN entries : i <= Len(entries)
  BY DEF PageInv
<1>. QED  BY <1>3, <1>4, <1>5 DEF Passed

LEMMA DrawnIsTheVerdict ==
  ASSUME PageInv
  PROVE  LET v == Select(entries, forced)
         IN  /\ Sound(entries, forced, Len(entries), v)
             /\ shown.winner = v.best /\ shown.why = v.why
             /\ shown.sentence = Sentence(entries, v)
BY SelectIsSound DEF PageInv, Drawing

------------------------------------------------------------------------------
(***************************************************************************)
(* After any sequence of edits, presets and ticks, on pages of any number  *)
(* of entries, the winner on the screen is the entry would_execute selects *)
(* (select and render of docs/entry-explorer.html).                        *)
(***************************************************************************)
THEOREM ThePageIsTheRule == Spec => []PageShowsTheRule
<1>1. PageInv => PageShowsTheRule
  <2> SUFFICES ASSUME PageInv PROVE PageShowsTheRule
    OBVIOUS
  <2> DEFINE v == Select(entries, forced)
  <2>1. /\ RulePool = Passed(entries, forced, Len(entries))
        /\ Sound(entries, forced, Len(entries), v)
        /\ shown.winner = v.best /\ shown.sentence = Sentence(entries, v)
    BY PageFiltersLikeTheRule, DrawnIsTheVerdict
  <2> HIDE DEF v
  <2>2. CASE v.best = NoEntry
    BY <2>1, <2>2 DEF Sound, PageShowsTheRule, Sentence
  <2>3. CASE v.best # NoEntry
    <3>1. RulePool # {} /\ BestOf(entries, RulePool, shown.winner)
      BY <2>1, <2>3 DEF Sound, BestOf
    <3>2. shown.sentence = IF 16 \in entries[shown.winner].flags
                           THEN "refused at load" ELSE "executes"
      BY <2>1, <2>3 DEF Sentence
    <3>. QED  BY <3>1, <3>2 DEF PageShowsTheRule
  <2>. QED  BY <2>2, <2>3
<1>. QED  BY <1>1, PageInvariant, PTL

(***************************************************************************)
(* And what is written beside every other entry is a reason: it was no     *)
(* candidate, or it lost at that level or a higher one (the why of         *)
(* select, docs/entry-explorer.html).                                      *)
(***************************************************************************)
THEOREM LosersHaveTheirReason == Spec => []EveryLoserIsExplained
<1>1. PageInv => EveryLoserIsExplained
  <2> SUFFICES ASSUME PageInv, NEW i \in DOMAIN entries \ {shown.winner}
               PROVE  IF i \notin RulePool THEN shown.why[i] = 0
                      ELSE /\ shown.winner # NoEntry
                           /\ shown.why[i] \in LostAt(entries[shown.winner], entries[i])..4
    BY DEF EveryLoserIsExplained
  <2> DEFINE v == Select(entries, forced)
  <2>1. /\ RulePool = Passed(entries, forced, Len(entries))
        /\ i \in RulePool <=> InPool(entries, forced, i)
        /\ Sound(entries, forced, Len(entries), v)
        /\ shown.winner = v.best /\ shown.why = v.why
    BY PageFiltersLikeTheRule, DrawnIsTheVerdict
  <2> HIDE DEF v
  <2>. QED  BY <2>1 DEF Sound
<1>. QED  BY <1>1, PageInvariant, PTL

------------------------------------------------------------------------------
(***************************************************************************)
(* The player, a page of its own: nothing of the explorer's is in it.      *)
(***************************************************************************)

(***************************************************************************)
(* The inductive invariant: what is pending is what the button says.  A    *)
(* timer that fires while the page does not play would break it, and none  *)
(* can: it would have to be pending.                                       *)
(***************************************************************************)
TimerInv == /\ playing \in BOOLEAN
            /\ OneTimerWhilePlaying

(***************************************************************************)
(* Scheduling leaves one timer, whichever was pending.                     *)
(***************************************************************************)
LEMMA ScheduleLeavesOne ==
  ASSUME NEW p, DOMAIN p \subseteq {timer}, Schedule(p)
  PROVE  DOMAIN pending' = {timer'}
<1>1. PICK h : /\ timer' = h
               /\ pending' = With([k \in DOMAIN p \ {timer} |-> p[k]], h, "advance")
  BY DEF Schedule
<1>. QED  BY <1>1 DEF With

LEMMA StepKeepsTimer ==
  TimerInv /\ [PlayerNext]_playerVars => TimerInv'
<1> SUFFICES ASSUME TimerInv, [PlayerNext]_playerVars PROVE TimerInv'
  OBVIOUS
<1>0. DOMAIN pending \subseteq {timer}
  BY DEF TimerInv, OneTimerWhilePlaying
<1>1. CASE \E h \in DOMAIN pending : Advance(h)
  <2>1. PICK h \in DOMAIN pending : Advance(h)
    BY <1>1
  <2>2. playing /\ playing' = playing /\ Schedule(Drop(h))
    BY <2>1 DEF Advance, TimerInv, OneTimerWhilePlaying
  <2>3. DOMAIN Drop(h) \subseteq {timer}
    BY <1>0 DEF Drop
  <2>. QED  BY <2>2, <2>3, ScheduleLeavesOne DEF TimerInv, OneTimerWhilePlaying
<1>2. CASE \E h \in DOMAIN pending : Opening(h)
  <2>1. PICK h \in DOMAIN pending : Opening(h)
    BY <1>2
  <2>2. playing' = TRUE /\ Schedule(Drop(h))
    BY <2>1 DEF Opening, Start
  <2>3. DOMAIN Drop(h) \subseteq {timer}
    BY <1>0 DEF Drop
  <2>. QED  BY <2>2, <2>3, ScheduleLeavesOne DEF TimerInv, OneTimerWhilePlaying
<1>3. CASE Stop
  BY <1>0, <1>3 DEF Stop, Drop, TimerInv, OneTimerWhilePlaying
<1>4. CASE Start(pending)
  BY <1>0, <1>4, ScheduleLeavesOne DEF Start, TimerInv, OneTimerWhilePlaying
<1>5. CASE UNCHANGED playerVars
  BY <1>5 DEF playerVars, TimerInv, OneTimerWhilePlaying
<1>. QED
  BY <1>1, <1>2, <1>3, <1>4, <1>5 DEF PlayerNext, Fire, Reader,
     PressPlay, PressAgain, PressTick

(***************************************************************************)
(* While it plays exactly one timer is pending, the one the page can       *)
(* clear, and while it does not, none is: for any number of handles and of *)
(* clicks (schedule, stop and start of docs/entry-selection.html).         *)
(***************************************************************************)
THEOREM ThePlayerHoldsItsTimer == PlayerSpec => []OneTimerWhilePlaying
<1>1. PlayerInit => TimerInv
  <2> SUFFICES ASSUME PlayerInit PROVE TimerInv
    OBVIOUS
  <2>1. CASE playing = FALSE /\ pending = <<>>
    <3>1. DOMAIN pending = {}
      BY <2>1
    <3>. QED  BY <2>1, <3>1 DEF TimerInv, OneTimerWhilePlaying
  <2>2. CASE playing = TRUE /\ pending = [h \in {timer} |-> "open"]
    BY <2>2 DEF TimerInv, OneTimerWhilePlaying
  <2>. QED  BY <2>1, <2>2 DEF PlayerInit
<1>2. TimerInv => OneTimerWhilePlaying
  BY DEF TimerInv
<1>. QED  BY <1>1, <1>2, StepKeepsTimer, PTL DEF PlayerSpec

------------------------------------------------------------------------------
(***************************************************************************)
(* The six entries, field by field.                                        *)
(***************************************************************************)
LEMMA FieldsOf ==
  ASSUME NEW kind, NEW arch, NEW flags
  PROVE  /\ Row(kind, arch, flags).kind = kind
         /\ Row(kind, arch, flags).arch = arch
         /\ Row(kind, arch, flags).flags = flags
BY DEF Row

LEMMA SixEntries ==
  /\ DOMAIN ENTRIES = 1..6
  /\ ENTRIES[1].kind = "PTX" /\ \A i \in 2..6 : ENTRIES[i].kind = "ELF"
  /\ ENTRIES[2].arch = 75 /\ ENTRIES[3].arch = 86
  /\ \A i \in {1, 4, 5, 6} : ENTRIES[i].arch = 89
  /\ ENTRIES[4].flags = {24}
  /\ \A i \in {1, 2, 3, 5, 6} : ENTRIES[i].flags = {}
<1>1. /\ DOMAIN ENTRIES = 1..6
      /\ ENTRIES[1] = Row("PTX", 89, {}) /\ ENTRIES[2] = Row("ELF", 75, {})
      /\ ENTRIES[3] = Row("ELF", 86, {}) /\ ENTRIES[4] = Row("ELF", 89, {24})
      /\ ENTRIES[5] = Row("ELF", 89, {}) /\ ENTRIES[6] = Row("ELF", 89, {})
  BY DEF ENTRIES
<1>2. 2..6 = {2, 3, 4, 5, 6}
  OBVIOUS
<1>. QED  BY <1>1, <1>2, FieldsOf

(***************************************************************************)
(* All but the second, of an older generation, are candidates.             *)
(***************************************************************************)
LEMMA FiveCandidates == Default = {1, 3, 4, 5, 6}
<1>1. \A i \in 1..6 : ArchSuffix(ENTRIES[i]) = Device.suffix
  <2>1. \A i \in 1..6 : 20 \notin ENTRIES[i].flags /\ 21 \notin ENTRIES[i].flags
    <3>1. 1..6 = {1, 2, 3, 4, 5, 6} /\ 20 # 24 /\ 21 # 24
      OBVIOUS
    <3>. QED  BY <3>1, SixEntries
  <2>2. Device.suffix = ""
    BY Zenon DEF Device
  <2>. QED  BY <2>1, <2>2, Zenon DEF ArchSuffix
<1>2. Device.sm = 89
  BY Zenon DEF Device
<1>3. 75 \div 10 = 7 /\ 86 \div 10 = 8 /\ 89 \div 10 = 8
  OBVIOUS
<1>4. \A i \in 1..6 : ENTRIES[i].kind \in RankedKinds
  <2>1. 1..6 = {1} \cup 2..6
    OBVIOUS
  <2>. QED  BY <2>1, SixEntries DEF RankedKinds
<1>5. \A i \in 1..6 : (ENTRIES[i].arch <= 89
                        /\ (ENTRIES[i].kind = "ELF" => Generation(ENTRIES[i].arch) = Generation(89)))
                       <=> i # 2
  <2>1. 1..6 = {1, 2, 3, 4, 5, 6} /\ 2..6 = {2, 3, 4, 5, 6}
    OBVIOUS
  <2>. QED  BY <1>3, <2>1, SixEntries DEF Generation
<1>6. \A i \in 1..6 : ArchCompatible(ENTRIES[i], Device) <=> i # 2
  BY <1>1, <1>2, <1>5, Zenon DEF ArchCompatible
<1>7. Candidates(ENTRIES, Device) = {i \in 1..6 : i # 2}
  <2>1. DOMAIN ENTRIES = 1..6
    BY SixEntries, Zenon
  <2> DEFINE C(i) == ENTRIES[i].kind \in RankedKinds /\ ArchCompatible(ENTRIES[i], Device)
  <2>2. Candidates(ENTRIES, Device) = {i \in 1..6 : C(i)}
    BY <2>1, Zenon DEF Candidates
  <2>3. \A i \in 1..6 : C(i) <=> i # 2
    BY <1>4, <1>6, Zenon
  <2> HIDE DEF C
  <2>. QED  BY <2>2, <2>3, Zenon
<1>8. {i \in 1..6 : i # 2} = {1, 3, 4, 5, 6}
  OBVIOUS
<1>. QED  BY <1>7, <1>8, Zenon DEF Default, Pool

Beats(i, j) == \/ j = 1
               \/ i # 1 /\ j = 3
               \/ i \in {5, 6} /\ j = 4
               \/ i = 5 /\ j = 6

(***************************************************************************)
(* Who beats whom, and at which level.                                     *)
(***************************************************************************)
LEMMA BeatenPairs ==
  ASSUME NEW i \in {1, 3, 4, 5, 6}, NEW j \in {1, 3, 4, 5, 6}, i # j
  PROVE  /\ BetterKind(ENTRIES[i], ENTRIES[j]) <=> j = 1
         /\ BetterArch(ENTRIES[i], ENTRIES[j]) <=> (i # 1 /\ j = 3)
         /\ BetterFlag(ENTRIES[i], ENTRIES[j]) <=> (i \in {5, 6} /\ j = 4)
         /\ Outranks(ENTRIES, i, j) <=> Beats(i, j)
<1> DEFINE e == ENTRIES[i]
           f == ENTRIES[j]
<1>1. /\ KindRank["PTX"] = 1 /\ KindRank["ELF"] = 3
  BY DEF KindRank, RankedKinds
<1>2. /\ e.kind = IF i = 1 THEN "PTX" ELSE "ELF"
      /\ f.kind = IF j = 1 THEN "PTX" ELSE "ELF"
  BY SixEntries
<1>3. /\ e.arch = IF i = 3 THEN 86 ELSE 89
      /\ f.arch = IF j = 3 THEN 86 ELSE 89
  BY SixEntries
<1>4. /\ Deprioritised(e) <=> i = 4
      /\ Deprioritised(f) <=> j = 4
  BY SixEntries DEF Deprioritised
<1>5. /\ BetterKind(e, f) <=> j = 1
      /\ SameKind(e, f) <=> (i # 1 /\ j # 1)
  <2> HIDE DEF e, f
  <2>. QED  BY <1>1, <1>2 DEF BetterKind, SameKind
<1>6. /\ BetterArch(e, f) <=> (i # 1 /\ j = 3)
      /\ SameArch(e, f) <=> (i \in {4, 5, 6} /\ j \in {4, 5, 6})
  <2> HIDE DEF e, f
  <2>. QED  BY <1>3, <1>5 DEF BetterArch, SameArch
<1>7. /\ BetterFlag(e, f) <=> (i \in {5, 6} /\ j = 4)
      /\ TiedUpToOrder(e, f) <=> (i \in {5, 6} /\ j \in {5, 6})
  <2> HIDE DEF e, f
  <2>. QED  BY <1>2, <1>4, <1>6 DEF BetterFlag, TiedUpToOrder
<1>8. i \in {5, 6} => (BetterPosition(i, j, e.kind) <=> i < j)
  <2> HIDE DEF e, f
  <2>. QED  BY <1>2 DEF BetterPosition
<1>9. Outranks(ENTRIES, i, j)
        <=> (BetterKind(e, f) \/ BetterArch(e, f) \/ BetterFlag(e, f)
             \/ (TiedUpToOrder(e, f) /\ BetterPosition(i, j, e.kind)))
  BY Zenon DEF Outranks, BetterByContent
<1>. QED
  <2> HIDE DEF e, f
  <2>1. (TiedUpToOrder(e, f) /\ BetterPosition(i, j, e.kind)) <=> (i = 5 /\ j = 6)
    BY <1>7, <1>8
  <2>2. Outranks(ENTRIES, i, j) <=> Beats(i, j)
    BY <1>5, <1>6, <1>7, <1>9, <2>1 DEF Beats
  <2>. QED  BY <1>5, <1>6, <1>7, <2>2 DEF e, f

(***************************************************************************)
(* What stands once a level is applied, and how many rows that are.        *)
(***************************************************************************)
StillUp(level) == {i \in 1..6 : Dies[i] = NoLevel \/ Dies[i] > level}

LEMMA StillUpIs ==
  /\ StillUp(0) = {1, 3, 4, 5, 6} /\ StillUp(1) = {3, 4, 5, 6}
  /\ StillUp(2) = {4, 5, 6} /\ StillUp(3) = {5, 6} /\ StillUp(4) = {5}
<1>1. /\ Dies[1] = 1 /\ Dies[2] = 0 /\ Dies[3] = 2
      /\ Dies[4] = 3 /\ Dies[5] = NoLevel /\ Dies[6] = 4
  BY DEF Dies
<1>2. NoLevel \notin Nat
  BY PlayerAssumption DEF PlayerAssumption
<1>3. \A i \in 1..6 : i \in {1, 2, 3, 4, 5, 6}
  OBVIOUS
<1>. QED  BY <1>1, <1>2, <1>3 DEF StillUp

LEMMA LevelsLeave ==
  ASSUME NEW level \in GATES
  PROVE  StandingAfter(level) = StillUp(level)
<1>1. level \in {0, 1, 2, 3, 4}
  BY DEF GATES
<1>2. StandingAfter(level) =
        {j \in {1, 3, 4, 5, 6} : \A i \in {1, 3, 4, 5, 6} \ {j}, l \in 1..level : ~BeatenBy(l, i, j)}
  BY FiveCandidates, Zenon DEF StandingAfter
<1>3. ASSUME NEW i \in {1, 3, 4, 5, 6}, NEW j \in {1, 3, 4, 5, 6}, i # j, NEW l \in 1..4
      PROVE  /\ l = 1 => (BeatenBy(l, i, j) <=> j = 1)
             /\ l = 2 => (BeatenBy(l, i, j) <=> (i # 1 /\ j = 3))
             /\ l = 3 => (BeatenBy(l, i, j) <=> (i \in {5, 6} /\ j = 4))
             /\ l = 4 => (BeatenBy(l, i, j) <=> Beats(i, j))
  <2>1. BeatenBy(1, i, j) <=> BetterKind(ENTRIES[i], ENTRIES[j])
    BY DEF BeatenBy
  <2>2. BeatenBy(2, i, j) <=> BetterArch(ENTRIES[i], ENTRIES[j])
    BY DEF BeatenBy
  <2>3. BeatenBy(3, i, j) <=> BetterFlag(ENTRIES[i], ENTRIES[j])
    BY DEF BeatenBy
  <2>4. BeatenBy(4, i, j) <=> Outranks(ENTRIES, i, j)
    BY DEF BeatenBy
  <2>5. Outranks(ENTRIES, i, j) <=> Beats(i, j)
    BY <1>3, BeatenPairs
  <2>. QED  BY <1>3, <2>1, <2>2, <2>3, <2>4, <2>5, BeatenPairs
<1>4. 1..0 = {} /\ 1..1 = {1} /\ 1..2 = {1, 2} /\ 1..3 = {1, 2, 3} /\ 1..4 = {1, 2, 3, 4}
  OBVIOUS
<1>5. CASE level = 0
  BY <1>2, <1>4, <1>5, StillUpIs
<1>6. CASE level = 1
  BY <1>2, <1>3, <1>4, <1>6, StillUpIs
<1>7. CASE level = 2
  BY <1>2, <1>3, <1>4, <1>7, StillUpIs
<1>8. CASE level = 3
  BY <1>2, <1>3, <1>4, <1>8, StillUpIs
<1>9. CASE level = 4
  BY <1>2, <1>3, <1>4, <1>9, StillUpIs DEF Beats
<1>. QED  BY <1>1, <1>5, <1>6, <1>7, <1>8, <1>9

LEMMA CountsLeft ==
  ASSUME NEW level \in GATES
  PROVE  Left(level) = Cardinality(StandingAfter(level))
<1>1. Cardinality({5}) = 1 /\ IsFiniteSet({5})
  BY FS_Singleton
<1>2. Cardinality({5, 6}) = 2 /\ IsFiniteSet({5, 6})
  <2>1. {5, 6} = {5} \cup {6} /\ 6 \notin {5}
    OBVIOUS
  <2>. QED  BY <1>1, <2>1, FS_AddElement
<1>3. Cardinality({4, 5, 6}) = 3 /\ IsFiniteSet({4, 5, 6})
  <2>1. {4, 5, 6} = {5, 6} \cup {4} /\ 4 \notin {5, 6}
    OBVIOUS
  <2>. QED  BY <1>2, <2>1, FS_AddElement
<1>4. Cardinality({3, 4, 5, 6}) = 4 /\ IsFiniteSet({3, 4, 5, 6})
  <2>1. {3, 4, 5, 6} = {4, 5, 6} \cup {3} /\ 3 \notin {4, 5, 6}
    OBVIOUS
  <2>. QED  BY <1>3, <2>1, FS_AddElement
<1>5. Cardinality({1, 3, 4, 5, 6}) = 5
  <2>1. {1, 3, 4, 5, 6} = {3, 4, 5, 6} \cup {1} /\ 1 \notin {3, 4, 5, 6}
    OBVIOUS
  <2>. QED  BY <1>4, <2>1, FS_AddElement
<1>6. level \in {0, 1, 2, 3, 4}
  BY DEF GATES
<1>. QED  BY <1>1, <1>2, <1>3, <1>4, <1>5, <1>6, LevelsLeave, StillUpIs DEF Left

(***************************************************************************)
(* The inductive invariant: what is painted is the picture of the step.    *)
(* Every handler that moves the step has to paint for it to hold.          *)
(***************************************************************************)
PictureInv == step \in STEPS /\ painted = Picture(step)

LEMMA StepKeepsPicture ==
  PictureInv /\ [PlayerNext]_playerVars => PictureInv'
<1> SUFFICES ASSUME PictureInv, [PlayerNext]_playerVars PROVE PictureInv'
  OBVIOUS
<1>1. CASE \E h \in DOMAIN pending : Advance(h)
  <2>1. step' = (step + 1) % 8 /\ Paint
    BY <1>1 DEF Advance
  <2>2. step' \in STEPS
    BY <2>1 DEF PictureInv, STEPS
  <2>. QED  BY <2>1, <2>2 DEF PictureInv, Paint
<1>2. CASE step' = 0 /\ Paint
  BY <1>2 DEF PictureInv, Paint, STEPS
<1>3. CASE \E s \in STEPS : PressTick(s)
  BY <1>3 DEF PressTick, PictureInv, Paint
<1>4. CASE UNCHANGED <<step, painted>>
  BY <1>4 DEF PictureInv
<1>. QED
  BY <1>1, <1>2, <1>3, <1>4 DEF PlayerNext, Fire, Opening, Reader, PressPlay, PressAgain, playerVars

(***************************************************************************)
(* Each of the eight pictures is the rule's.                               *)
(***************************************************************************)
LEMMA RowsStanding ==
  ASSUME NEW s \in STEPS, s > 0
  PROVE  DOMAIN ENTRIES \ Picture(s).dead = StandingAfter(IF ShowsWinner(s) THEN 4 ELSE Kill(s))
<1> DEFINE level == IF ShowsWinner(s) THEN 4 ELSE Kill(s)
<1>1. s \in 1..7 /\ NoLevel \notin Nat
  BY PlayerAssumption DEF STEPS, PlayerAssumption
<1>2. level = (IF s > 5 THEN 4 ELSE s - 1) /\ level \in GATES
  <2>1. CASE s > 5
    BY <2>1 DEF ShowsWinner, GATES
  <2>2. CASE s \in 1..5
    <3>1. Kill(s) = s - 1
      BY <2>2, Zenon DEF Kill
    <3>2. ~ShowsWinner(s) /\ ~(s > 5)
      BY <2>2 DEF ShowsWinner
    <3>3. s - 1 \in 0..4
      BY <2>2
    <3>. QED  BY <3>1, <3>2, <3>3, Zenon DEF GATES
  <2>. QED  BY <1>1, <2>1, <2>2
<1>3. ASSUME NEW k \in 0..s
      PROVE  Kill(k) # NoLevel <=> k \in 1..5
  BY <1>1 DEF Kill, STEPS
<1>4. ASSUME NEW i \in 1..6
      PROVE  (\E k \in 0..s : Kill(k) # NoLevel /\ Kill(k) = Dies[i])
               <=> ~(Dies[i] = NoLevel \/ Dies[i] > level)
  <2>1. Dies[i] \in {0, 1, 2, 3, 4, NoLevel}
    BY <1>4 DEF Dies
  <2>2. (\E k \in 0..s : Kill(k) # NoLevel /\ Kill(k) = Dies[i])
          <=> (\E k \in 0..s : k \in 1..5 /\ k - 1 = Dies[i])
    BY <1>1, <1>3 DEF Kill
  <2>3. CASE Dies[i] = NoLevel
    BY <1>1, <2>2, <2>3
  <2>4. CASE Dies[i] # NoLevel
    <3> DEFINE d == Dies[i]
    <3>1. d \in 0..4
      BY <2>1, <2>4
    <3> HIDE DEF d
    <3>2. (\E k \in 0..s : k \in 1..5 /\ k - 1 = d) <=> d + 1 <= s
      <4>1. ASSUME d + 1 <= s PROVE \E k \in 0..s : k \in 1..5 /\ k - 1 = d
        <5>1. d + 1 \in 0..s /\ d + 1 \in 1..5 /\ (d + 1) - 1 = d
          BY <1>1, <3>1, <4>1
        <5>. QED  BY <5>1
      <4>2. ASSUME NEW k \in 0..s, k \in 1..5, k - 1 = d PROVE d + 1 <= s
        BY <1>1, <3>1, <4>2
      <4>. QED  BY <4>1, <4>2
    <3>3. d + 1 <= s <=> ~(d > level)
      BY <1>1, <1>2, <3>1
    <3>. QED  BY <2>2, <2>4, <3>2, <3>3 DEF d
  <2>. QED  BY <2>3, <2>4
<1>5. DOMAIN ENTRIES \ Picture(s).dead = StillUp(level)
  <2>1. Picture(s).dead = {i \in 1..6 : \E k \in 0..s : Kill(k) # NoLevel /\ Kill(k) = Dies[i]}
    BY SixEntries DEF Picture
  <2> HIDE DEF level
  <2>. QED  BY <1>4, <2>1, SixEntries DEF StillUp
<1>. QED  BY <1>2, <1>5, LevelsLeave

LEMMA TheFifthIsBest == BestOf(ENTRIES, Default, 5)
<1>1. ASSUME NEW j \in {1, 3, 4, 6} PROVE Outranks(ENTRIES, 5, j)
  <2>1. 5 \in {1, 3, 4, 5, 6} /\ j \in {1, 3, 4, 5, 6} /\ 5 # j
    OBVIOUS
  <2>2. Outranks(ENTRIES, 5, j) <=> Beats(5, j)
    BY <2>1, BeatenPairs
  <2>. QED  BY <2>2 DEF Beats
<1>. QED  BY <1>1, FiveCandidates DEF BestOf

LEMMA EveryPictureIsRight == PictureInv => PictureFollowsTheRule
<1> SUFFICES ASSUME PictureInv PROVE PictureFollowsTheRule
  OBVIOUS
<1>1. painted = Picture(step) /\ step \in STEPS
  BY DEF PictureInv
<1>2. step > 0 => DOMAIN ENTRIES \ painted.dead
                   = StandingAfter(IF ShowsWinner(step) THEN 4 ELSE Kill(step))
  BY <1>1, RowsStanding
<1>3. \A gate \in painted.gates : gate[2] = Cardinality(StandingAfter(gate[1]))
  <2> SUFFICES ASSUME NEW gate \in painted.gates
               PROVE  gate[2] = Cardinality(StandingAfter(gate[1]))
    OBVIOUS
  <2>1. PICK g \in GATES : gate = <<g, Left(g)>>
    BY <1>1 DEF Picture
  <2>. QED  BY <2>1, CountsLeft
<1>4. \A i \in painted.winner : BestOf(ENTRIES, Default, i)
  <2> SUFFICES ASSUME NEW i \in painted.winner PROVE BestOf(ENTRIES, Default, i)
    OBVIOUS
  <2>1. i \in 1..6 /\ Dies[i] = NoLevel
    BY <1>1, SixEntries DEF Picture
  <2>2. i = 5
    BY <2>1, PlayerAssumption DEF Dies, PlayerAssumption
  <2>. QED  BY <2>2, TheFifthIsBest
<1>. QED  BY <1>2, <1>3, <1>4 DEF PictureFollowsTheRule

(***************************************************************************)
(* Whatever is clicked when, and however often: the rows standing are      *)
(* those the rule's levels leave, each gate shows their number, and the    *)
(* winner is the entry would_execute selects (paint, ENTRIES and GATES of  *)
(* docs/entry-selection.html).                                             *)
(***************************************************************************)
THEOREM ThePictureIsTheRules == PlayerSpec => []PictureFollowsTheRule
<1>1. PlayerInit => PictureInv
  BY DEF PlayerInit, PictureInv
<1>. QED  BY <1>1, StepKeepsPicture, EveryPictureIsRight, PTL DEF PlayerSpec
=============================================================================
