------------------------ MODULE EntrySelectionProofs -------------------------
(***************************************************************************)
(* The scan of would_execute returns the entry no candidate outranks, for  *)
(* every set of containers and targets.                                    *)
(*                                                                         *)
(* The argument: the four levels, with the direction of file order that    *)
(* depends on the kind, make one total order on the candidates (lemmas     *)
(* OutranksTransitive and OutranksAsymmetric); every branch of the         *)
(* comparison chain keeps the better of the incumbent and the candidate    *)
(* (StepKeepsTheBetter); so the incumbent outranks everything scanned.     *)
(***************************************************************************)
EXTENDS SelectionReport, FiniteSetTheorems, WellFoundedInduction, TLAPS

(***************************************************************************)
(* A rank determines the kind, so a tie on rank is a tie on kind           *)
(* (KIND_RANK gives its three kinds three different values).               *)
(***************************************************************************)
LEMMA RankDeterminesKind ==
  ASSUME NEW k \in RankedKinds, NEW l \in RankedKinds
  PROVE  /\ KindRank[k] \in 1..3
         /\ KindRank[k] = KindRank[l] => k = l
BY DEF RankedKinds, KindRank

(***************************************************************************)
(* The entries a candidate filter can let through, of any container.       *)
(***************************************************************************)
Ranked == {e \in Entry : e.kind \in RankedKinds}

(***************************************************************************)
(* Outranking is transitive (the order behind the chain in would_execute). *)
(***************************************************************************)
LEMMA OutranksTransitive ==
  ASSUME NEW c, NEW i \in Nat, NEW j \in Nat, NEW k \in Nat,
         c[i] \in Ranked, c[j] \in Ranked, c[k] \in Ranked,
         Outranks(c, i, j), Outranks(c, j, k)
  PROVE  Outranks(c, i, k)
<1>1. /\ c[i].arch \in Nat /\ c[j].arch \in Nat /\ c[k].arch \in Nat
      /\ c[i].kind \in RankedKinds /\ c[j].kind \in RankedKinds
      /\ c[k].kind \in RankedKinds
  BY DEF Ranked, Entry
<1>2. /\ KindRank[c[i].kind] \in 1..3 /\ KindRank[c[j].kind] \in 1..3
      /\ KindRank[c[k].kind] \in 1..3
      /\ KindRank[c[i].kind] = KindRank[c[j].kind] => c[i].kind = c[j].kind
      /\ KindRank[c[j].kind] = KindRank[c[k].kind] => c[j].kind = c[k].kind
  BY <1>1, RankDeterminesKind
<1>. QED
  BY <1>1, <1>2 DEF Outranks, BetterByContent, BetterKind, BetterArch, BetterFlag,
     TiedUpToOrder, SameArch, SameKind, BetterPosition

(***************************************************************************)
(* Two entries never outrank each other, nor does one outrank itself: the  *)
(* best of a pool is unique.                                               *)
(***************************************************************************)
LEMMA OutranksAsymmetric ==
  ASSUME NEW c, NEW i \in Nat, NEW j \in Nat, c[i] \in Ranked, c[j] \in Ranked,
         Outranks(c, i, j)
  PROVE  ~Outranks(c, j, i)
<1>1. /\ c[i].arch \in Nat /\ c[j].arch \in Nat
      /\ c[i].kind \in RankedKinds /\ c[j].kind \in RankedKinds
  BY DEF Ranked, Entry
<1>2. /\ KindRank[c[i].kind] \in 1..3 /\ KindRank[c[j].kind] \in 1..3
      /\ KindRank[c[i].kind] = KindRank[c[j].kind] => c[i].kind = c[j].kind
  BY <1>1, RankDeterminesKind
<1>. QED
  BY <1>1, <1>2 DEF Outranks, BetterByContent, BetterKind, BetterArch, BetterFlag,
     TiedUpToOrder, SameArch, SameKind, BetterPosition

(***************************************************************************)
(* Whatever the policy, the pool holds ranked entries of the container.    *)
(***************************************************************************)
LEMMA PoolIsRanked ==
  ASSUME NEW c \in Containers, NEW t, NEW p
  PROVE  /\ Pool(c, t, p) \subseteq DOMAIN c
         /\ Pool(c, t, p) \subseteq Nat
         /\ \A i \in Pool(c, t, p) : c[i] \in Ranked
<1>1. c \in Seq(Entry)
  BY ContainersAssumption
<1>2. DOMAIN c \subseteq Nat /\ \A i \in DOMAIN c : c[i] \in Entry
  BY <1>1
<1>. QED  BY <1>2 DEF Pool, DiscardCubins, Candidates, Ranked

(***************************************************************************)
(* Under the invariant the indices the scan handles are numbers and their  *)
(* entries are ranked, so the lemmas above apply to them.                  *)
(***************************************************************************)
LEMMA ScanHandlesRankedEntries ==
  ASSUME IInv
  PROVE  /\ pool \subseteq Nat
         /\ \A i \in pool : container[i] \in Ranked
         /\ best # NoEntry => best \in Scanned
<1>. container \in Containers /\ pool \subseteq DOMAIN container
  BY DEF IInv, TypeOK
<1>1. pool = {} \/ pool = Pool(container, target, policy)
  BY DEF IInv, PoolIsFiltered
<1>2. best # NoEntry => best \in Scanned
  BY DEF IInv, TypeOK, Scanned
<1>. QED  BY <1>1, <1>2, PoolIsRanked

(***************************************************************************)
(* Each branch of the comparison chain keeps the better of the incumbent   *)
(* and the candidate, and what it drops is the other one.                  *)
(***************************************************************************)
KeepsTheBetter(c) == \/ best' = c /\ Outranks(container, c, best)
                     \/ best' = best /\ Outranks(container, best, c)

LEMMA StepKeepsTheBetter ==
  ASSUME IInv, NEW c \in rest,
         CompareKind(c) \/ CompareArch(c) \/ CompareFlag(c) \/ CompareOrder(c)
  PROVE  KeepsTheBetter(c)
<1>1. /\ best \in Scanned /\ c \in pool /\ best < c
      /\ best \in Nat /\ c \in Nat
      /\ container[best] \in Ranked /\ container[c] \in Ranked
  <2>1. best # NoEntry
    BY DEF CompareKind, CompareArch, CompareFlag, CompareOrder, TiedOnArch
  <2>2. best \in Scanned /\ c \in pool
    BY <2>1, ScanHandlesRankedEntries DEF IInv, TypeOK
  <2>3. best < c
    BY <2>2 DEF IInv, ScanFollowsFileOrder
  <2>. QED  BY <2>2, <2>3, ScanHandlesRankedEntries DEF Scanned
<1>2. /\ container[best].arch \in Nat /\ container[c].arch \in Nat
      /\ container[best].kind \in RankedKinds /\ container[c].kind \in RankedKinds
  BY <1>1 DEF Ranked, Entry
<1>3. /\ RankOf(best) \in 1..3 /\ RankOf(c) \in 1..3
      /\ RankOf(best) = RankOf(c) => container[best].kind = container[c].kind
  BY <1>2, RankDeterminesKind DEF RankOf
<1>4. CASE CompareKind(c)
  BY <1>3, <1>4 DEF CompareKind, Advance, KeepsTheBetter, Outranks,
     BetterByContent, BetterKind, RankOf
<1>5. CASE CompareArch(c)
  BY <1>2, <1>3, <1>5 DEF CompareArch, Advance, KeepsTheBetter, Outranks,
     BetterByContent, BetterArch, SameKind, RankOf
<1>6. CASE CompareFlag(c)
  <2>1. /\ SameArch(container[c], container[best])
        /\ SameArch(container[best], container[c])
        /\ container[c].kind = "ELF" /\ container[best].kind = "ELF"
    BY <1>3, <1>6 DEF CompareFlag, TiedOnArch, FlagSeparates, SameArch, SameKind,
       RankOf
  <2>2. CASE Deprioritised(container[best])
    <3>1. best' = c /\ ~Deprioritised(container[c])
      BY <1>6, <2>2 DEF CompareFlag, FlagSeparates, Advance, Deprioritised
    <3>. QED
      BY <2>1, <2>2, <3>1 DEF KeepsTheBetter, Outranks, BetterByContent, BetterFlag
  <2>3. CASE ~Deprioritised(container[best])
    <3>1. best' = best /\ Deprioritised(container[c])
      BY <1>6, <2>3 DEF CompareFlag, FlagSeparates, Advance, Deprioritised
    <3>. QED
      BY <2>1, <2>3, <3>1 DEF KeepsTheBetter, Outranks, BetterByContent, BetterFlag
  <2>. QED  BY <2>2, <2>3
<1>7. CASE CompareOrder(c)
  <2>1. /\ TiedUpToOrder(container[c], container[best])
        /\ TiedUpToOrder(container[best], container[c])
    BY <1>3, <1>7 DEF CompareOrder, TiedOnArch, FlagSeparates, TiedUpToOrder,
       SameArch, SameKind, RankOf, Deprioritised
  <2>2. container[c].kind = container[best].kind
    BY <1>3, <1>7 DEF CompareOrder, TiedOnArch
  <2>3. best' = IF container[c].kind = "PTX" THEN c ELSE best
    BY <1>7 DEF CompareOrder, Advance
  <2>. QED
    BY <1>1, <2>1, <2>2, <2>3 DEF KeepsTheBetter, Outranks, BetterPosition
<1>. QED  BY <1>4, <1>5, <1>6, <1>7

(***************************************************************************)
(* A step that scans one candidate and keeps the better preserves the      *)
(* invariant: what the incumbent outranked, its successor outranks.        *)
(***************************************************************************)
LEMMA ScanStep ==
  ASSUME IInv, NEW c \in rest, NEW w, Advance(c, w), 
         \/ best = NoEntry /\ w = c
         \/ best # NoEntry /\ KeepsTheBetter(c)
  PROVE  IInv'
<1>. USE DEF Scanned
<1>1. /\ pc = "scan" /\ pc' = "scan" /\ pool' = pool /\ best' = w
      /\ rest' = rest \ {c} /\ \A j \in rest : c <= j
      /\ container' = container /\ target' = target /\ policy' = policy
      /\ c \in pool /\ rest \subseteq pool
  BY DEF Advance, Candidate, args, IInv, TypeOK
<1>2. Scanned' = Scanned \cup {c} /\ c \notin Scanned
  BY <1>1
<1>3. w = c \/ (best # NoEntry /\ w = best)
  BY <1>1 DEF KeepsTheBetter
<1>4. best' \in Scanned' /\ best' # NoEntry
  BY <1>1, <1>2, <1>3, ScanHandlesRankedEntries, NoEntryAssumption
<1>5. TypeOK'
  BY <1>1, <1>4 DEF IInv, TypeOK
<1>6. PoolIsFiltered'
  BY <1>1 DEF IInv, PoolIsFiltered
<1>7. ScanFollowsFileOrder'
  <2>. SUFFICES ASSUME NEW i \in Scanned', NEW j \in rest'  PROVE i < j
    BY DEF ScanFollowsFileOrder
  <2>1. i \in Nat /\ j \in Nat /\ c \in Nat
    BY <1>1, ScanHandlesRankedEntries
  <2>2. CASE i = c
    BY <1>1, <2>1, <2>2
  <2>3. CASE i \in Scanned
    BY <1>1, <2>3 DEF IInv, ScanFollowsFileOrder
  <2>. QED  BY <1>2, <2>2, <2>3
<1>8. IncumbentWhenScanned'
  BY <1>2, <1>4 DEF IncumbentWhenScanned
<1>9. IncumbentOutranksScanned'
  <2>. SUFFICES ASSUME NEW j \in Scanned', j # best'
                PROVE  Outranks(container, best', j)
    BY <1>1 DEF IncumbentOutranksScanned
  <2>1. CASE best = NoEntry
    BY <1>1, <1>2, <2>1 DEF IInv, IncumbentWhenScanned
  <2>2. CASE best # NoEntry /\ best' = best
    <3>1. CASE j = c
      BY <2>2, <3>1 DEF KeepsTheBetter
    <3>2. CASE j \in Scanned
      BY <2>2, <3>2 DEF IInv, IncumbentOutranksScanned
    <3>. QED  BY <1>2, <3>1, <3>2
  <2>3. CASE best # NoEntry /\ best' = c /\ best' # best
    <3>1. Outranks(container, c, best) /\ j \in Scanned
      BY <1>2, <2>3 DEF KeepsTheBetter
    <3>2. CASE j = best
      BY <2>3, <3>1, <3>2
    <3>3. CASE j # best
      <4>1. Outranks(container, best, j)
        BY <2>3, <3>1, <3>3 DEF IInv, IncumbentOutranksScanned
      <4>2. /\ c \in Nat /\ best \in Nat /\ j \in Nat
            /\ container[c] \in Ranked /\ container[best] \in Ranked
            /\ container[j] \in Ranked
        BY <1>1, <2>3, <3>1, ScanHandlesRankedEntries
      <4>. QED  BY <2>3, <3>1, <4>1, <4>2, OutranksTransitive
    <3>. QED  BY <3>2, <3>3
  <2>. QED  BY <1>1, <1>3, <2>1, <2>2, <2>3
<1>. QED  BY <1>1, <1>5, <1>6, <1>7, <1>8, <1>9 DEF IInv

(***************************************************************************)
(* would_execute starts with nothing scanned and no incumbent.             *)
(***************************************************************************)
LEMMA InitEstablishesIInv == Init => IInv
BY DEF Init, IInv, TypeOK, PoolIsFiltered, ScanFollowsFileOrder, Scanned,
   IncumbentWhenScanned, IncumbentOutranksScanned

(***************************************************************************)
(* Every step of the call preserves the inductive invariant.               *)
(***************************************************************************)
LEMMA NextPreservesIInv == IInv /\ [Next]_vars => IInv'
<1>. SUFFICES ASSUME IInv, [Next]_vars  PROVE IInv'
  OBVIOUS
<1>1. CASE FilterPool
  <2>1. /\ pool' = Pool(container, target, policy) /\ rest' = pool'
        /\ pc' \in {"scan", "done"} /\ (pc' = "done" => rest' = {})
        /\ container' = container /\ target' = target /\ policy' = policy
        /\ best' = best /\ pc = "filter"
    BY <1>1 DEF FilterPool, args
  <2>2. pool = {} /\ rest = {} /\ best = NoEntry
    BY <2>1 DEF IInv, TypeOK, PoolIsFiltered, Scanned
  <2>3. pool' \subseteq DOMAIN container
    BY <2>1, PoolIsRanked DEF IInv, TypeOK
  <2>4. Scanned' = {} /\ best' = NoEntry
    BY <2>1, <2>2 DEF Scanned
  <2>5. TypeOK'
    BY <2>1, <2>3, <2>4 DEF IInv, TypeOK
  <2>6. PoolIsFiltered' /\ ScanFollowsFileOrder' /\ IncumbentWhenScanned'
    BY <2>1, <2>4 DEF PoolIsFiltered, ScanFollowsFileOrder, IncumbentWhenScanned
  <2>7. IncumbentOutranksScanned'
    BY <2>4 DEF IncumbentOutranksScanned
  <2>. QED  BY <2>1, <2>5, <2>6, <2>7 DEF IInv
<1>2. ASSUME NEW c \in rest, TakeFirst(c)  PROVE IInv'
  BY <1>2, ScanStep DEF TakeFirst
<1>3. ASSUME NEW c \in rest,
             CompareKind(c) \/ CompareArch(c) \/ CompareFlag(c) \/ CompareOrder(c)
      PROVE  IInv'
  <2>1. KeepsTheBetter(c)
    BY <1>3, StepKeepsTheBetter
  <2>2. best # NoEntry
    BY <1>3 DEF CompareKind, CompareArch, CompareFlag, CompareOrder, TiedOnArch
  <2>3. PICK w : Advance(c, w)
    BY <1>3 DEF CompareKind, CompareArch, CompareFlag, CompareOrder
  <2>. QED  BY <2>1, <2>2, <2>3, ScanStep
<1>4. CASE Return
  BY <1>4 DEF Return, args, IInv, TypeOK, PoolIsFiltered, ScanFollowsFileOrder,
     Scanned, IncumbentWhenScanned, IncumbentOutranksScanned
<1>5. CASE UNCHANGED vars
  BY <1>5 DEF vars, IInv, TypeOK, PoolIsFiltered, ScanFollowsFileOrder, Scanned,
     IncumbentWhenScanned, IncumbentOutranksScanned
<1>. QED  BY <1>1, <1>2, <1>3, <1>4, <1>5 DEF Next

(***************************************************************************)
(* The inductive invariant holds throughout every call.                    *)
(***************************************************************************)
THEOREM InductiveInvariant == Spec => []IInv
BY InitEstablishesIInv, NextPreservesIInv, PTL DEF Spec

(***************************************************************************)
(* What the call handles is always entries of its own container.           *)
(***************************************************************************)
THEOREM TypeCorrect == Spec => []TypeOK
<1>1. IInv => TypeOK
  BY DEF IInv
<1>. QED  BY <1>1, InductiveInvariant, PTL

(***************************************************************************)
(* The incumbent outranks everything the scan has passed.                  *)
(***************************************************************************)
THEOREM IncumbentIsBestOfScanned == Spec => []IncumbentOutranksScanned
<1>1. IInv => IncumbentOutranksScanned
  BY DEF IInv
<1>. QED  BY <1>1, InductiveInvariant, PTL

(***************************************************************************)
(* The scan only climbs: an incumbent gives way to an entry that outranks  *)
(* it, and to nothing else.                                                *)
(***************************************************************************)
THEOREM IncumbentOnlyImproves == Spec => ScanOnlyClimbs
<1>1. IInv /\ [Next]_vars
        => [best # NoEntry /\ best' # best => Outranks(container, best', best)]_vars
  <2>. SUFFICES ASSUME IInv, Next, best # NoEntry, best' # best
                PROVE  Outranks(container, best', best)
    OBVIOUS
  <2>1. PICK c \in rest :
          CompareKind(c) \/ CompareArch(c) \/ CompareFlag(c) \/ CompareOrder(c)
    BY DEF Next, FilterPool, TakeFirst, Return
  <2>2. KeepsTheBetter(c)
    BY <2>1, StepKeepsTheBetter
  <2>. QED  BY <2>2 DEF KeepsTheBetter
<1>. QED  BY <1>1, InductiveInvariant, PTL DEF Spec, ScanOnlyClimbs

(***************************************************************************)
(* When nothing is left to scan, the incumbent is the best of the pool.    *)
(***************************************************************************)
BestOfThePool ==
  (rest = {} /\ pc # "filter") =>
    IF Pool(container, target, policy) = {} THEN best = NoEntry
    ELSE BestOf(container, Pool(container, target, policy), best)

LEMMA ExhaustedScanHoldsTheBest == IInv => BestOfThePool
<1>. SUFFICES ASSUME IInv, rest = {}, pc # "filter"
              PROVE  IF pool = {} THEN best = NoEntry ELSE BestOf(container, pool, best)
  BY DEF BestOfThePool, IInv, PoolIsFiltered
<1>1. Scanned = pool
  BY DEF Scanned
<1>2. CASE pool = {}
  BY <1>1, <1>2 DEF IInv, IncumbentWhenScanned
<1>3. CASE pool # {}
  <2>1. best \in pool
    BY <1>1, <1>3 DEF IInv, TypeOK, IncumbentWhenScanned
  <2>. QED
    BY <1>1, <1>3, <2>1 DEF IInv, IncumbentOutranksScanned, BestOf
<1>. QED  BY <1>2, <1>3

(***************************************************************************)
(* The rule's own copies of the filter and the order are the code's.       *)
(***************************************************************************)
LEMMA RuleMeansTheSameOrder ==
  /\ \A c, t, p : Rule!Pool(c, t, p) = Pool(c, t, p)
  /\ \A c, p, i : Rule!BestOf(c, p, i) <=> BestOf(c, p, i)
<1>1. ASSUME NEW c, NEW t, NEW p  PROVE Rule!Pool(c, t, p) = Pool(c, t, p)
  BY DEF Rule!Pool, Pool, Rule!DiscardCubins, DiscardCubins, Rule!Candidates,
     Candidates, Rule!ArchCompatible, ArchCompatible, Rule!ArchSuffix, ArchSuffix,
     Rule!RankedKinds, RankedKinds, Rule!Generation, Generation
<1>2. ASSUME NEW c, NEW i, NEW j
      PROVE  Rule!Outranks(c, i, j) <=> Outranks(c, i, j)
  BY DEF Rule!Outranks, Outranks, Rule!BetterByContent, BetterByContent,
     Rule!BetterKind, BetterKind, Rule!BetterArch, BetterArch, Rule!BetterFlag,
     BetterFlag, Rule!TiedUpToOrder, TiedUpToOrder, Rule!SameArch, SameArch,
     Rule!SameKind, SameKind, Rule!BetterPosition, BetterPosition,
     Rule!Deprioritised, Deprioritised, Rule!KindRank, KindRank,
     Rule!RankedKinds, RankedKinds
<1>3. ASSUME NEW c, NEW p, NEW i  PROVE Rule!BestOf(c, p, i) <=> BestOf(c, p, i)
  BY <1>2 DEF Rule!BestOf, BestOf
<1>. QED  BY <1>1, <1>3

(***************************************************************************)
(* The scan implements the rule: the filter and the comparisons are        *)
(* invisible, and the return is the rule's one commitment.                 *)
(***************************************************************************)
THEOREM ScanImplementsRule == Spec => ImplementsRule
<1>1. Init => Rule!Init
  BY DEF Init, Rule!Init, Answer, Rule!Policies, Policies
<1>2. IInv' => BestOfThePool'
  BY ExhaustedScanHoldsTheBest, PTL
<1>3. IInv /\ IInv' /\ [Next]_vars => [Rule!Commit]_(Rule!vars)
  <2>. SUFFICES ASSUME IInv, IInv', Next \/ UNCHANGED vars
                PROVE  Rule!Commit \/ UNCHANGED Rule!vars
    OBVIOUS
  <2>1. UNCHANGED args
    BY DEF Next, vars, args, FilterPool, TakeFirst, CompareKind, CompareArch,
       CompareFlag, CompareOrder, Advance, Return
  <2>2. CASE pc # "done" /\ pc' = "done"
    <3>1. rest' = {} /\ pc' # "filter" /\ Answer = Pending /\ Answer' = best'
      BY <2>2 DEF IInv, Answer
    <3>2. IF Pool(container, target, policy) = {} THEN best' = NoEntry
          ELSE BestOf(container, Pool(container, target, policy), best')
      BY <1>2, <2>1, <3>1 DEF BestOfThePool, args
    <3>. QED
      BY <2>1, <3>1, <3>2, RuleMeansTheSameOrder DEF Rule!Commit, Rule!IsAnswer, args
  <2>3. CASE pc' # "done" \/ pc = "done"
    <3>1. Answer' = Answer
      BY <2>3 DEF Answer, Next, vars, FilterPool, TakeFirst, CompareKind,
         CompareArch, CompareFlag, CompareOrder, Advance, Return, TiedOnArch
    <3>. QED  BY <2>1, <3>1 DEF Rule!vars, args
  <2>. QED  BY <2>2, <2>3
<1>. QED
  BY <1>1, <1>3, InductiveInvariant, PTL DEF Spec, ImplementsRule, Rule!Spec

(***************************************************************************)
(* Forcing the JIT removes cubins before ranking and demotes nothing: the  *)
(* best of the smaller pool is the best of the larger one when that is no  *)
(* cubin, because the best of a pool is unique.                            *)
(***************************************************************************)
THEOREM ForcingRemovesAndDemotesNothing == Spec => []ForcingOnlyRemovesCubins
<1>1. IInv => ForcingOnlyRemovesCubins
  <2>. SUFFICES ASSUME IInv, pc = "done", policy = "force-ptx-jit"
                PROVE  /\ best # NoEntry => container[best].kind # "ELF"
                       /\ \A w \in DOMAIN container :
                            /\ BestOf(container, Pool(container, target, "default"), w)
                            /\ container[w].kind # "ELF"
                            => best = w
    BY DEF ForcingOnlyRemovesCubins
  <2>. DEFINE All    == Pool(container, target, "default")
              Forced == Pool(container, target, policy)
  <2>1. Forced = {i \in All : container[i].kind # "ELF"}
    BY DEF Pool, DiscardCubins
  <2>2. pool = Forced /\ rest = {} /\ (best # NoEntry => best \in Forced)
    BY DEF IInv, TypeOK, PoolIsFiltered
  <2>3. ASSUME NEW w \in All, BestOf(container, All, w), container[w].kind # "ELF"
        PROVE  best = w
    <3>1. w \in Forced /\ BestOf(container, Forced, w)
      BY <2>1, <2>3 DEF BestOf
    <3>2. BestOf(container, Forced, best)
      BY <2>2, <3>1, ExhaustedScanHoldsTheBest DEF BestOfThePool
    <3>3. /\ best \in Nat /\ w \in Nat
          /\ container[best] \in Ranked /\ container[w] \in Ranked
      BY <2>2, <3>1, <3>2, ScanHandlesRankedEntries DEF BestOf
    <3>. QED  BY <3>1, <3>2, <3>3, OutranksAsymmetric DEF BestOf
  <2>. QED  BY <2>1, <2>2, <2>3 DEF BestOf
<1>. QED  BY <1>1, InductiveInvariant, PTL

(***************************************************************************)
(* An entry better by content is neither worse by content nor tied.        *)
(***************************************************************************)
LEMMA ContentDecidesOneWay ==
  ASSUME NEW e \in Ranked, NEW f \in Ranked, BetterByContent(e, f)
  PROVE  ~BetterByContent(f, e) /\ ~TiedUpToOrder(f, e)
<1>1. /\ e.arch \in Nat /\ f.arch \in Nat
      /\ e.kind \in RankedKinds /\ f.kind \in RankedKinds
  BY DEF Ranked, Entry
<1>2. /\ KindRank[e.kind] \in 1..3 /\ KindRank[f.kind] \in 1..3
      /\ KindRank[e.kind] = KindRank[f.kind] => e.kind = f.kind
  BY <1>1, RankDeterminesKind
<1>. QED
  BY <1>1, <1>2 DEF BetterByContent, BetterKind, BetterArch, BetterFlag,
     TiedUpToOrder, SameArch, SameKind

(***************************************************************************)
(* Two entries that only the order can separate are so from either side.   *)
(***************************************************************************)
LEMMA TieIsSymmetric ==
  ASSUME NEW e \in Ranked, NEW f \in Ranked
  PROVE  /\ TiedUpToOrder(e, e)
         /\ TiedUpToOrder(e, f) => TiedUpToOrder(f, e)
<1>1. e.kind \in RankedKinds /\ f.kind \in RankedKinds
  BY DEF Ranked
<1>2. KindRank[e.kind] = KindRank[f.kind] => e.kind = f.kind
  BY <1>1, RankDeterminesKind
<1>. QED  BY <1>2 DEF TiedUpToOrder, SameArch, SameKind, Deprioritised

(***************************************************************************)
(* No rearrangement of the container makes an entry win that is not tied,  *)
(* on kind, architecture and bit 24, with the one that wins now.           *)
(***************************************************************************)
THEOREM ContentIsNeverOverturned == Spec => []PositionNeverOverturnsContent
<1>1. IInv => PositionNeverOverturnsContent
  <2>. SUFFICES ASSUME IInv, pc = "done", best # NoEntry, NEW f \in Rearrangements,
                       NEW w \in DOMAIN container,
                       BestOf(Permuted(f), Pool(Permuted(f), target, policy), w)
                PROVE  TiedUpToOrder(Permuted(f)[w], container[best])
    BY DEF PositionNeverOverturnsContent
  <2>1. /\ DOMAIN Permuted(f) = DOMAIN container
        /\ \A i \in DOMAIN container : /\ f[i] \in DOMAIN container
                                       /\ Permuted(f)[i] = container[f[i]]
    BY DEF Permuted, Rearrangements
  <2>2. \A i \in DOMAIN container :
          i \in Pool(Permuted(f), target, policy)
            <=> f[i] \in Pool(container, target, policy)
    BY <2>1 DEF Pool, DiscardCubins, Candidates
  <2>3. rest = {} /\ pool = Pool(container, target, policy) /\ best \in pool
    BY DEF IInv, TypeOK, PoolIsFiltered
  <2>4. BestOf(container, pool, best)
    BY <2>3, ExhaustedScanHoldsTheBest DEF BestOfThePool
  <2>5. PICK b \in DOMAIN container : f[b] = best
    BY <2>3 DEF Rearrangements, IInv, TypeOK
  <2>6. f[w] \in pool /\ b \in Pool(Permuted(f), target, policy)
    BY <2>2, <2>3, <2>5 DEF BestOf
  <2>7. container[f[w]] \in Ranked /\ container[best] \in Ranked
    BY <2>3, <2>6, ScanHandlesRankedEntries
  <2>8. CASE f[w] = best
    BY <2>1, <2>7, <2>8, TieIsSymmetric
  <2>9. CASE f[w] # best
    <3>1. Outranks(container, best, f[w])
      BY <2>4, <2>6, <2>9 DEF BestOf
    <3>2. Outranks(Permuted(f), w, b)
      BY <2>5, <2>6, <2>9 DEF BestOf
    <3>3. \/ BetterByContent(container[f[w]], container[best])
          \/ TiedUpToOrder(container[f[w]], container[best])
      BY <2>1, <2>5, <3>2 DEF Outranks
    <3>4. ~BetterByContent(container[f[w]], container[best])
      BY <2>7, <3>1, ContentDecidesOneWay, TieIsSymmetric DEF Outranks
    <3>. QED  BY <2>1, <3>3, <3>4
  <2>. QED  BY <2>8, <2>9
<1>. QED  BY <1>1, InductiveInvariant, PTL

------------------------------------------------------------------------------
(***************************************************************************)
(* The report.  A set of positions has an earliest one, so a scanner that  *)
(* has something to name names one entry.                                  *)
(***************************************************************************)
LEMMA EarliestOfPositions ==
  ASSUME NEW S \in SUBSET Nat, S # {}
  PROVE  \E x \in S : Earliest(S) = {x} /\ \A y \in S : x <= y
<1> DEFINE Less == {ss \in Nat \X Nat : ss[1] < ss[2]}
<1>1. IsWellFoundedOn(Less, Nat)
  BY NatLessThanWellFounded, Zenon DEF OpToRel
<1>2. PICK x \in S : \A y \in S : ~(<<y, x>> \in Less)
  <2> HIDE DEF Less
  <2>. QED  BY <1>1, WFMin
<1>3. ASSUME NEW y \in S
      PROVE  x <= y
  <2>1. <<y, x>> \in Nat \X Nat
    OBVIOUS
  <2>2. ~(<<y, x>>[1] < <<y, x>>[2])
    BY <1>2, <2>1
  <2>. QED  BY <2>2
<1>4. ASSUME NEW z \in S, \A y \in S : z <= y
      PROVE  z = x
  <2>1. z <= x /\ x <= z
    BY <1>3, <1>4
  <2>. QED  BY <2>1
<1>5. Earliest(S) = {x}
  BY <1>3, <1>4 DEF Earliest
<1>. QED  BY <1>3, <1>5

LEMMA ReadingOf ==
  /\ Read("first-match") = FirstMatch(container, target.sm)
  /\ Read("exact-arch") = ExactArch(container, target.sm)
  /\ Read("prefer-PTX") = PreferPTX(container, target.sm)
BY DEF Read, Reading

(***************************************************************************)
(* What the state is when the report is made.                              *)
(***************************************************************************)
Reporting == IInv /\ pc = "done"

LEMMA WhatIsReported ==
  ASSUME Reporting
  PROVE  /\ container \in Seq(Entry) /\ DOMAIN container \subseteq Nat
         /\ target \in Target
         /\ pool \subseteq DOMAIN container
         /\ pool = Pool(container, target, policy)
         /\ \A i \in pool : /\ container[i] \in Ranked
                            /\ container[i].arch <= target.sm
         /\ best # NoEntry => best \in pool /\ BestOf(container, pool, best)
         /\ best = NoEntry => pool = {}
<1>1. container \in Containers /\ target \in Targets /\ pool \subseteq DOMAIN container
  BY DEF Reporting, IInv, TypeOK
<1>2. container \in Seq(Entry) /\ target \in Target
  BY <1>1, ContainersAssumption, TargetsAssumption
<1>3. DOMAIN container \subseteq Nat
  BY <1>2
<1>4. pool = Pool(container, target, policy) /\ rest = {} /\ pc # "filter"
  BY DEF Reporting, IInv, PoolIsFiltered
<1>5. \A i \in pool : container[i].arch <= target.sm
  BY <1>4 DEF Pool, DiscardCubins, Candidates, ArchCompatible
<1>6. \A i \in pool : container[i] \in Ranked
  BY ScanHandlesRankedEntries DEF Reporting
<1>7. IF pool = {} THEN best = NoEntry ELSE BestOf(container, pool, best)
  BY <1>4, ExhaustedScanHoldsTheBest DEF BestOfThePool, Reporting
<1>8. best # NoEntry => best \in pool
  BY <1>4 DEF Reporting, IInv, TypeOK
<1>9. best = NoEntry => pool = {}
  BY <1>4 DEF Reporting, IInv, IncumbentWhenScanned, Scanned
<1>. QED  BY <1>1, <1>2, <1>3, <1>4, <1>5, <1>6, <1>7, <1>8, <1>9

(***************************************************************************)
(* Where an entry is selected every scanner names one, since the selected  *)
(* entry itself is not newer than the GPU.                                 *)
(***************************************************************************)
LEMMA EveryScannerNamesOne ==
  ASSUME Reporting, best # NoEntry, NEW s \in Scanners
  PROVE  Read(s) # {}
<1>1. best \in NotNewer(container, target.sm)
  BY WhatIsReported DEF NotNewer
<1>2. /\ NotNewer(container, target.sm) \subseteq Nat
      /\ OfTheGPU(container, target.sm) \subseteq Nat
      /\ ReadablePTX(container, target.sm) \subseteq Nat
  BY WhatIsReported DEF NotNewer, OfTheGPU, ReadablePTX
<1>3. FirstMatch(container, target.sm) # {}
  BY <1>1, <1>2, EarliestOfPositions DEF FirstMatch
<1>4. ExactArch(container, target.sm) # {}
  BY <1>2, <1>3, EarliestOfPositions DEF ExactArch
<1>5. PreferPTX(container, target.sm) # {}
  BY <1>2, <1>3, EarliestOfPositions DEF PreferPTX
<1>. QED  BY <1>3, <1>4, <1>5, ReadingOf DEF Scanners

LEMMA DivergencesAreLines ==
  /\ Report.lines = LoadLines \cup Divergences
  /\ Report.executes = Said(best)
  /\ \A s \in Scanners : s \in Report.lines <=> Read(s) # {} /\ Read(s) # Said(best)
<1>1. Report.lines = LoadLines \cup Divergences /\ Report.executes = Said(best)
  BY DEF Report
<1>2. \A s \in Scanners : s \notin LoadLines
  BY DEF Scanners, LoadLines
<1>. QED  BY <1>1, <1>2 DEF Divergences

LEMMA SilenceMeansAgreement == Reporting => SilentReportMeansAgreement
<1>. SUFFICES ASSUME Reporting PROVE SilentReportMeansAgreement
  OBVIOUS
<1>1. ASSUME Report.lines = {}
      PROVE  best # NoEntry /\ ~RejectedAtLoad /\ \A s \in Scanners : Read(s) = Said(best)
  <2>1. best # NoEntry /\ ~RejectedAtLoad
    BY <1>1, DivergencesAreLines DEF LoadLines
  <2>. QED  BY <1>1, <2>1, DivergencesAreLines, EveryScannerNamesOne
<1>2. ASSUME NEW s \in Scanners, Read(s) # Said(best)
      PROVE  s \in Report.lines
  <2>1. CASE best = NoEntry
    BY <1>2, <2>1, DivergencesAreLines DEF Said
  <2>2. CASE best # NoEntry
    BY <1>2, <2>2, DivergencesAreLines, EveryScannerNamesOne
  <2>. QED  BY <2>1, <2>2
<1>. QED  BY <1>1, <1>2, DivergencesAreLines DEF SilentReportMeansAgreement

(***************************************************************************)
(* In an ordinary library the entry of the GPU's own architecture is the   *)
(* last that is not newer, and it outranks the others.                     *)
(***************************************************************************)
OrdinaryCall == Reporting /\ target.suffix = "" /\ OrdinaryLibrary

LEMMA OrdinaryEntries ==
  ASSUME OrdinaryCall,
         NEW i \in DOMAIN container
  PROVE  /\ i \in Nat /\ container[i].arch \in Nat /\ target.sm \in Nat
         /\ container[i].kind = "ELF" /\ container[i].flags = {}
<1>1. container \in Seq(Entry) /\ target \in Target /\ i \in Nat
  BY WhatIsReported DEF OrdinaryCall
<1>2. container[i] \in Entry
  BY <1>1
<1>3. container[i].arch \in Nat
  BY <1>2 DEF Entry
<1>4. target.sm \in Nat
  BY <1>1 DEF Target
<1>5. container[i].kind = "ELF" /\ container[i].flags = {}
  BY Zenon DEF OrdinaryCall, OrdinaryLibrary
<1>. QED  BY <1>1, <1>3, <1>4, <1>5

LEMMA OwnArchIsLast ==
  ASSUME OrdinaryCall,
         NEW g \in DOMAIN container, container[g].arch = target.sm,
         NEW i \in DOMAIN container, i # g
  PROVE  /\ container[i].arch # target.sm
         /\ container[i].arch <= target.sm => i < g
<1>1. /\ i \in Nat /\ g \in Nat /\ container[i].arch \in Nat
      /\ container[g].arch \in Nat /\ target.sm \in Nat
  BY OrdinaryEntries
<1>2. /\ i < g => container[i].arch < container[g].arch
      /\ g < i => container[g].arch < container[i].arch
  BY Zenon DEF OrdinaryCall, OrdinaryLibrary
<1>3. i < g \/ g < i
  BY <1>1
<1>. QED  BY <1>1, <1>2, <1>3

LEMMA OwnArchOutranks ==
  ASSUME OrdinaryCall,
         NEW g \in DOMAIN container, container[g].arch = target.sm,
         NEW i \in DOMAIN container, i # g, container[i].arch <= target.sm
  PROVE  ~Outranks(container, i, g)
<1>1. /\ container[i].kind = "ELF" /\ container[g].kind = "ELF"
      /\ container[i].arch \in Nat /\ container[g].arch \in Nat
      /\ target.sm \in Nat
  BY OrdinaryEntries
<1>2. container[i].arch # container[g].arch /\ ~(container[i].arch > container[g].arch)
  BY <1>1, OwnArchIsLast
<1>3. ~(KindRank["ELF"] > KindRank["ELF"])
  BY RankDeterminesKind DEF RankedKinds
<1>4. ~BetterKind(container[i], container[g])
  BY <1>1, <1>3 DEF BetterKind
<1>5. ~BetterArch(container[i], container[g])
  BY <1>2 DEF BetterArch
<1>6. ~SameArch(container[i], container[g])
  BY <1>2 DEF SameArch
<1>. QED  BY <1>4, <1>5, <1>6 DEF Outranks, BetterByContent, BetterFlag, TiedUpToOrder

LEMMA ExactArchIsRight == Reporting => ExactArchRightWhenBuiltForTheGPU
<1>. SUFFICES ASSUME Reporting, OrdinaryCall, policy = "default",
                     NEW g \in OfTheGPU(container, target.sm)
              PROVE  /\ "exact-arch" \notin Report.lines
                     /\ "first-match" \notin Report.lines => Cardinality(pool) = 1
  BY Zenon DEF ExactArchRightWhenBuiltForTheGPU, OrdinaryCall
<1>1. g \in DOMAIN container /\ container[g].arch = target.sm
  BY DEF OfTheGPU
<1>2. /\ container[g].kind = "ELF" /\ container[g].flags = {}
      /\ g \in Nat /\ target.sm \in Nat
  BY <1>1, OrdinaryEntries
<1>3. g \in pool
  <2>1. ArchSuffix(container[g]) = target.suffix
    BY <1>2, Zenon DEF ArchSuffix, OrdinaryCall
  <2>2. ArchCompatible(container[g], target)
    BY <1>1, <1>2, <2>1 DEF ArchCompatible
  <2>3. pool = Candidates(container, target)
    BY WhatIsReported DEF Pool
  <2>. QED  BY <1>1, <1>2, <2>2, <2>3 DEF Candidates, RankedKinds
<1>4. best = g
  <2>1. best \in pool /\ BestOf(container, pool, best)
    BY <1>3, WhatIsReported
  <2>2. ASSUME best # g PROVE FALSE
    <3>1. Outranks(container, best, g)
      BY <1>3, <2>1, <2>2 DEF BestOf
    <3>2. best \in DOMAIN container /\ container[best].arch <= target.sm
      BY <2>1, WhatIsReported
    <3>. QED  BY <1>1, <2>2, <3>1, <3>2, OwnArchOutranks
  <2>. QED  BY <2>2
<1>5. OfTheGPU(container, target.sm) = {g}
  BY <1>1, OwnArchIsLast DEF OfTheGPU
<1>6. Earliest({g}) = {g}
  <2>1. g <= g
    BY <1>2
  <2>. QED  BY <2>1 DEF Earliest
<1>7. Said(best) = {g}
  BY <1>2, <1>4, NoEntryAssumption DEF Said
<1>8. Read("exact-arch") = Said(best)
  BY <1>5, <1>6, <1>7, ReadingOf DEF ExactArch
<1>9. ASSUME "first-match" \notin Report.lines
      PROVE  Cardinality(pool) = 1
  <2>1. Read("first-match") = {g}
    <3>1. best # NoEntry
      BY <1>2, <1>4, NoEntryAssumption
    <3>. QED  BY <1>7, <1>9, <3>1, DivergencesAreLines, EveryScannerNamesOne DEF Scanners
  <2>2. \A i \in NotNewer(container, target.sm) : g <= i
    BY <2>1, ReadingOf DEF FirstMatch, Earliest
  <2>3. ASSUME NEW i \in pool, i # g
        PROVE  FALSE
    <3>1. i \in DOMAIN container /\ container[i].arch <= target.sm
      BY WhatIsReported
    <3>2. i < g
      BY <1>1, <2>3, <3>1, OwnArchIsLast
    <3>3. g <= i
      BY <2>2, <3>1 DEF NotNewer
    <3>4. i \in Nat
      BY <3>1, OrdinaryEntries
    <3>. QED  BY <1>2, <3>2, <3>3, <3>4
  <2>4. pool = {g}
    BY <1>3, <2>3
  <2>. QED  BY <2>4, FS_Singleton
<1>. QED  BY <1>8, <1>9, DivergencesAreLines DEF Scanners

(***************************************************************************)
(* A scanner that prefers text names text when there is any, and where a   *)
(* candidate of a higher kind is present the selected entry is none.       *)
(***************************************************************************)
LEMMA PreferPTXIsWrong == Reporting => PreferPTXWrongBesideCubin
<1>. SUFFICES ASSUME Reporting, ReadablePTX(container, target.sm) # {},
                     NEW i \in pool, container[i].kind # "PTX"
              PROVE  "prefer-PTX" \in Report.lines
  BY DEF PreferPTXWrongBesideCubin
<1>1. ReadablePTX(container, target.sm) \subseteq Nat
  BY WhatIsReported DEF ReadablePTX, NotNewer
<1>2. PICK x \in ReadablePTX(container, target.sm) : Read("prefer-PTX") = {x}
  BY <1>1, EarliestOfPositions, ReadingOf DEF PreferPTX
<1>3. container[x].kind = "PTX"
  BY <1>2 DEF ReadablePTX
<1>4. best \in pool /\ best # NoEntry /\ BestOf(container, pool, best)
  BY WhatIsReported
<1>5. container[i].kind \in RankedKinds /\ container[best].kind \in RankedKinds
  BY <1>4, WhatIsReported DEF Ranked
<1>6. container[best].kind # "PTX"
  <2>1. CASE best = i
    BY <2>1
  <2>2. CASE best # i
    <3>1. Outranks(container, best, i)
      BY <1>4, <2>2 DEF BestOf
    <3>2. KindRank[container[best].kind] >= KindRank[container[i].kind]
      BY <1>5, <3>1, RankDeterminesKind DEF Outranks, BetterByContent, BetterKind,
         BetterArch, BetterFlag, TiedUpToOrder, SameArch, SameKind
    <3>3. KindRank[container[i].kind] > KindRank["PTX"]
      BY <1>5 DEF RankedKinds, KindRank
    <3>4. KindRank["PTX"] \in Nat /\ KindRank[container[best].kind] \in Nat
          /\ KindRank[container[i].kind] \in Nat
      BY <1>5, RankDeterminesKind DEF RankedKinds
    <3>. QED  BY <3>2, <3>3, <3>4
  <2>. QED  BY <2>1, <2>2
<1>7. Read("prefer-PTX") # Said(best) /\ Read("prefer-PTX") # {}
  BY <1>2, <1>3, <1>4, <1>6 DEF Said
<1>. QED  BY <1>7, DivergencesAreLines DEF Scanners

(***************************************************************************)
(* What the printed report says, for every container, target and policy:   *)
(* a report without lines means the marked entry is loaded and that every  *)
(* scanner names it, and the scanners are right and wrong where the        *)
(* comments on them say (describe, print_report, naive_exact_arch).        *)
(***************************************************************************)
THEOREM ReportKeepsItsWord == Spec => []ReportAgainstTheRule
<1>1. IInv => ReportAgainstTheRule
  BY SilenceMeansAgreement, ExactArchIsRight, PreferPTXIsWrong
     DEF Reporting, ReportAgainstTheRule
<1>. QED  BY <1>1, InductiveInvariant, PTL
==============================================================================
