------------------------ MODULE DecisiveLevelProofs -------------------------
(***************************************************************************)
(* Narrowing a container level by level finds the entry no candidate       *)
(* outranks, and names a level that separated it, for every container.     *)
(***************************************************************************)
EXTENDS DecisiveLevel, FiniteSetTheorems, TLAPS

(***************************************************************************)
(* The candidates are finitely many entries of ranked kinds.               *)
(***************************************************************************)
LEMMA CandidateEntries ==
  ASSUME container \in Containers
  PROVE  /\ CandidatePool \subseteq DOMAIN container
         /\ IsFiniteSet(CandidatePool)
         /\ DOMAIN container \subseteq Nat
         /\ \A i \in CandidatePool : /\ container[i].kind \in RankedKinds
                                     /\ container[i].arch \in Nat
<1>1. container \in Seq(Entry)
  BY DecideAssumption
<1>2. DOMAIN container = 1..Len(container) /\ Len(container) \in Nat
  BY <1>1
<1>3. CandidatePool \subseteq DOMAIN container
  BY DEF CandidatePool, Candidates
<1>4. IsFiniteSet(CandidatePool)
  <2>1. IsFiniteSet(1..Len(container))
    BY <1>2, FS_Interval
  <2>. QED
    BY <1>2, <1>3, <2>1, FS_Subset
<1>5. ASSUME NEW i \in CandidatePool
      PROVE  container[i].kind \in RankedKinds /\ container[i].arch \in Nat
  <2>1. container[i] \in Entry
    BY <1>1, <1>3
  <2>. QED
    BY <2>1 DEF CandidatePool, Candidates, Entry
<1>. QED
  BY <1>2, <1>3, <1>4, <1>5

LEMMA Ranks == \A k \in RankedKinds : /\ KindRank[k] \in 1..3
                                      /\ KindRank[k] = 3 <=> k = "ELF"
  BY DEF KindRank, RankedKinds

(***************************************************************************)
(* A narrowed group has one member or several, and if several, any of them *)
(* has another beside it.                                                  *)
(***************************************************************************)
LEMMA OneOrMore ==
  ASSUME NEW s, IsFiniteSet(s)
  PROVE  /\ Cardinality(s) = 1 => \A w \in s : s = {w}
         /\ Cardinality(s) > 1 => \A w : \E j \in s : j # w
<1>1. Cardinality(s) = 1 => \E x : s = {x}
  BY FS_Singleton
<1>2. ASSUME Cardinality(s) > 1, NEW w, \A j \in s : j = w
      PROVE  FALSE
  <2>1. s \subseteq {w}
    BY <1>2
  <2>2. Cardinality(s) <= Cardinality({w}) /\ Cardinality({w}) = 1
        /\ Cardinality(s) \in Nat
    BY <2>1, FS_Singleton, FS_Subset, FS_CardinalityType
  <2>. QED
    BY <1>2, <2>2
<1>. QED
  BY <1>1, <1>2

(***************************************************************************)
(* Who is dropped by a narrowing is outranked by everyone who is kept.     *)
(***************************************************************************)
LEMMA DroppedByKind ==
  ASSUME container \in Containers,
         NEW w \in TopRank(CandidatePool),
         NEW j \in CandidatePool, j \notin TopRank(CandidatePool)
  PROVE  BetterKind(container[w], container[j])
<1>1. PICK k \in CandidatePool :
        ~(KindRank[container[j].kind] >= KindRank[container[k].kind])
  BY DEF TopRank
<1>2. KindRank[container[w].kind] >= KindRank[container[k].kind] /\ w \in CandidatePool
  BY DEF TopRank
<1>. QED
  BY <1>1, <1>2, CandidateEntries, Ranks DEF BetterKind

LEMMA KeptByKind ==
  ASSUME container \in Containers,
         NEW i \in TopRank(CandidatePool), NEW j \in TopRank(CandidatePool)
  PROVE  SameKind(container[i], container[j])
<1>1. /\ KindRank[container[i].kind] >= KindRank[container[j].kind]
      /\ KindRank[container[j].kind] >= KindRank[container[i].kind]
      /\ i \in CandidatePool /\ j \in CandidatePool
  BY DEF TopRank
<1>. QED
  BY <1>1, CandidateEntries, Ranks DEF SameKind

LEMMA DroppedByArch ==
  ASSUME container \in Containers,
         NEW w \in TopArch(TopRank(CandidatePool)),
         NEW j \in TopRank(CandidatePool), j \notin TopArch(TopRank(CandidatePool))
  PROVE  BetterArch(container[w], container[j])
<1>1. PICK k \in TopRank(CandidatePool) : ~(container[j].arch >= container[k].arch)
  BY DEF TopArch
<1>2. container[w].arch >= container[k].arch /\ w \in TopRank(CandidatePool)
  BY DEF TopArch
<1>3. TopRank(CandidatePool) \subseteq CandidatePool
  BY DEF TopRank
<1>4. SameKind(container[w], container[j])
  BY <1>2, KeptByKind
<1>. QED
  BY <1>1, <1>2, <1>3, <1>4, CandidateEntries DEF BetterArch

LEMMA KeptByArch ==
  ASSUME container \in Containers,
         NEW i \in TopArch(TopRank(CandidatePool)),
         NEW j \in TopArch(TopRank(CandidatePool))
  PROVE  SameArch(container[i], container[j])
<1>1. /\ container[i].arch >= container[j].arch /\ container[j].arch >= container[i].arch
      /\ i \in TopRank(CandidatePool) /\ j \in TopRank(CandidatePool)
  BY DEF TopArch
<1>2. i \in CandidatePool /\ j \in CandidatePool
  BY <1>1 DEF TopRank
<1>. QED
  BY <1>1, <1>2, KeptByKind, CandidateEntries DEF SameArch
(***************************************************************************)
(* An entry kept by both narrowings outranks every candidate that was not. *)
(***************************************************************************)
LEMMA KeptOutranksDropped ==
  ASSUME container \in Containers,
         NEW w \in TopArch(TopRank(CandidatePool)),
         NEW j \in CandidatePool, j \notin TopArch(TopRank(CandidatePool))
  PROVE  LostByKind(w, j) \/ LostByArch(w, j)
<1>1. w \in TopRank(CandidatePool)
  BY DEF TopArch
<1>. QED
  BY <1>1, DroppedByKind, DroppedByArch DEF LostByKind, LostByArch

LEMMA LostIsOutranked ==
  ASSUME NEW w, NEW j, LostByKind(w, j) \/ LostByArch(w, j) \/ LostByFlag(w, j)
  PROVE  Outranks(container, w, j)
  BY DEF LostByKind, LostByArch, LostByFlag, Outranks, BetterByContent

(***************************************************************************)
(* Settling on the best candidate, at a level that separated it.           *)
(***************************************************************************)
LEMMA SettleKeeps ==
  ASSUME TypeOK, NEW name \in Levels, NEW w \in CandidatePool, Settle(name, w),
         BestOf(container, CandidatePool, w), Separates(name, w),
         group' \subseteq DOMAIN container, kindGroup' \subseteq DOMAIN container,
         UNCHANGED <<args, columns>>
  PROVE  DecideInv'
<1>1. stage' = "done" /\ level' = name /\ winner' = w
  BY DEF Settle
<1>2. container' = container /\ target' = target /\ columns' = columns
      /\ CandidatePool' = CandidatePool
  BY DEF args, CandidatePool
<1>3. w \in DOMAIN container
  BY CandidateEntries DEF TypeOK
<1>4. TypeOK'
  BY <1>1, <1>2, <1>3 DEF TypeOK
<1>5. AgreesWithWouldExecute'
  BY <1>1, <1>2 DEF AgreesWithWouldExecute
<1>6. LevelSeparates'
  BY <1>1, <1>2 DEF LevelSeparates, Separates, Rivals, LostByKind, LostByArch,
     LostByFlag, Tied
<1>. QED
  BY <1>1, <1>4, <1>5, <1>6 DEF DecideInv

(***************************************************************************)
(* Narrowing to a group of several hands it to the next stage.             *)
(***************************************************************************)
LEMMA NarrowKeeps ==
  ASSUME TypeOK, NEW kept \in SUBSET CandidatePool,
         NEW next \in {"kind", "architecture", "flag"},
         \/ next = "kind" /\ kept = CandidatePool
         \/ next = "architecture" /\ kept = TopRank(CandidatePool)
         \/ next = "flag" /\ kept = TopArch(TopRank(CandidatePool)),
         Cardinality(kept) > 1, group' = kept, stage' = next,
         kindGroup' \subseteq DOMAIN container,
         UNCHANGED <<args, level, winner, columns>>
  PROVE  DecideInv'
<1>1. /\ container' = container /\ target' = target /\ columns' = columns
      /\ level' = level /\ winner' = winner /\ CandidatePool' = CandidatePool
  BY DEF args, CandidatePool
<1>2. \A s : TopRank(s)' = TopRank(s) /\ TopArch(s)' = TopArch(s)
  BY <1>1 DEF TopRank, TopArch
<1>3. kept \subseteq DOMAIN container
  BY CandidateEntries DEF TypeOK
<1>4. TypeOK'
  BY <1>1, <1>3 DEF TypeOK
<1>5. stage' \notin {"order", "done", "counted"}
  OBVIOUS
<1>6. Contenders'
  BY <1>1, <1>2 DEF Contenders, TopRank, TopArch
<1>. QED
  BY <1>4, <1>5, <1>6 DEF DecideInv, AgreesWithWouldExecute, LevelSeparates
(***************************************************************************)
(* One narrowing: a single entry that is left outranks all others, and     *)
(* several are handed on.                                                  *)
(***************************************************************************)
LEMMA TakePoolKeeps == DecideInv /\ TakePool /\ UNCHANGED columns => DecideInv'
<1>. SUFFICES ASSUME DecideInv, TakePool, UNCHANGED columns PROVE DecideInv'
  OBVIOUS
<1>1. /\ TypeOK /\ container \in Containers /\ UNCHANGED args
      /\ kindGroup' = CandidatePool
      /\ CandidatePool \subseteq DOMAIN container /\ IsFiniteSet(CandidatePool)
  BY CandidateEntries DEF DecideInv, TypeOK, TakePool, Narrow
<1>2. CASE CandidatePool = {} /\ Settle("nothing runs", NoEntry) /\ UNCHANGED group
  <2>1. CandidatePool' = CandidatePool /\ container' = container /\ target' = target
    BY <1>1 DEF args, CandidatePool
  <2>2. stage' = "done" /\ level' = "nothing runs" /\ winner' = NoEntry
    BY <1>2 DEF Settle
  <2>. QED
    BY <1>1, <1>2, <2>1, <2>2
       DEF DecideInv, TypeOK, AgreesWithWouldExecute, LevelSeparates, Separates, Levels
<1>3. CASE Cardinality(CandidatePool) = 1 /\ group' = CandidatePool
           /\ \E w \in CandidatePool : Settle("single candidate", w)
  <2>1. PICK w \in CandidatePool : Settle("single candidate", w)
    BY <1>3
  <2>2. CandidatePool = {w}
    BY <1>1, <1>3, OneOrMore
  <2>3. BestOf(container, CandidatePool, w) /\ Separates("single candidate", w)
    BY <2>2 DEF BestOf, Separates, Rivals
  <2>. QED
    BY <1>1, <1>3, <2>1, <2>3, SettleKeeps DEF Levels
<1>4. CASE Cardinality(CandidatePool) > 1 /\ group' = CandidatePool /\ stage' = "kind"
           /\ UNCHANGED <<level, winner>>
  BY <1>1, <1>4, NarrowKeeps
<1>. QED
  BY <1>2, <1>3, <1>4 DEF TakePool, Narrow

LEMMA NarrowByKindKeeps == DecideInv /\ NarrowByKind /\ UNCHANGED columns => DecideInv'
<1>. SUFFICES ASSUME DecideInv, NarrowByKind, UNCHANGED columns PROVE DecideInv'
  OBVIOUS
<1> DEFINE kept == TopRank(CandidatePool)
<1>1. /\ TypeOK /\ container \in Containers /\ UNCHANGED args
      /\ group = CandidatePool /\ group' = kept /\ kindGroup' = kept
  BY DEF DecideInv, TypeOK, NarrowByKind, Narrow, Contenders
<1>2. kept \subseteq CandidatePool /\ CandidatePool \subseteq DOMAIN container
      /\ IsFiniteSet(kept)
  BY <1>1, CandidateEntries, FS_Subset DEF TopRank
<1>3. CASE Cardinality(kept) = 1 /\ \E w \in kept : Settle("kind", w)
  <2>1. PICK w \in kept : Settle("kind", w)
    BY <1>3
  <2>2. kept = {w}
    BY <1>2, <1>3, OneOrMore
  <2>3. \A j \in CandidatePool \ {w} : LostByKind(w, j)
    BY <1>1, <2>2, DroppedByKind DEF LostByKind
  <2>4. BestOf(container, CandidatePool, w) /\ Separates("kind", w)
    BY <1>2, <2>3, LostIsOutranked DEF BestOf, Separates, Rivals
  <2>. QED
    BY <1>1, <1>2, <2>1, <2>4, SettleKeeps DEF Levels
<1>4. CASE Cardinality(kept) > 1 /\ stage' = "architecture" /\ UNCHANGED <<level, winner>>
  BY <1>1, <1>2, <1>4, NarrowKeeps
<1>. QED
  BY <1>1, <1>3, <1>4 DEF NarrowByKind, Narrow

LEMMA NarrowByArchKeeps == DecideInv /\ NarrowByArch /\ UNCHANGED columns => DecideInv'
<1>. SUFFICES ASSUME DecideInv, NarrowByArch, UNCHANGED columns PROVE DecideInv'
  OBVIOUS
<1> DEFINE top == TopRank(CandidatePool)
           kept == TopArch(top)
<1>1. /\ TypeOK /\ container \in Containers /\ UNCHANGED args
      /\ group = top /\ Cardinality(top) > 1
      /\ group' = kept /\ kindGroup' \subseteq DOMAIN container
  BY DEF DecideInv, TypeOK, NarrowByArch, Narrow, Contenders
<1>2. kept \subseteq top /\ top \subseteq CandidatePool
      /\ CandidatePool \subseteq DOMAIN container
      /\ IsFiniteSet(kept) /\ IsFiniteSet(top)
  BY <1>1, CandidateEntries, FS_Subset DEF TopRank, TopArch
<1>3. CASE Cardinality(kept) = 1 /\ \E w \in kept : Settle("architecture", w)
  <2>1. PICK w \in kept : Settle("architecture", w)
    BY <1>3
  <2>2. kept = {w}
    BY <1>2, <1>3, OneOrMore
  <2>3. \A j \in CandidatePool \ {w} : LostByKind(w, j) \/ LostByArch(w, j)
    BY <1>1, <2>2, KeptOutranksDropped
  <2>4. PICK j \in top : j # w
    BY <1>1, <1>2, OneOrMore
  <2>5. LostByArch(w, j)
    BY <1>1, <2>2, <2>4, DroppedByArch DEF LostByArch
  <2>6. BestOf(container, CandidatePool, w) /\ Separates("architecture", w)
    BY <1>2, <2>3, <2>4, <2>5, LostIsOutranked DEF BestOf, Separates, Rivals
  <2>. QED
    BY <1>1, <1>2, <2>1, <2>6, SettleKeeps DEF Levels
<1>4. CASE Cardinality(kept) > 1 /\ stage' = "flag" /\ UNCHANGED <<level, winner>>
  BY <1>1, <1>2, <1>4, NarrowKeeps
<1>. QED
  BY <1>1, <1>3, <1>4 DEF NarrowByArch, Narrow

(***************************************************************************)
(* Bit 24: the first clean cubin of the tied group outranks the marked     *)
(* ones by the bit and the other clean ones by its position.               *)
(***************************************************************************)
LEMMA NarrowByFlagKeeps == DecideInv /\ NarrowByFlag /\ UNCHANGED columns => DecideInv'
<1>. SUFFICES ASSUME DecideInv, NarrowByFlag, UNCHANGED columns PROVE DecideInv'
  OBVIOUS
<1> DEFINE tied == TopArch(TopRank(CandidatePool))
<1>1. /\ TypeOK /\ container \in Containers /\ UNCHANGED <<args, group, kindGroup>>
      /\ stage = "flag" /\ group = tied /\ Cardinality(group) > 1
      /\ group \subseteq DOMAIN container /\ kindGroup \subseteq DOMAIN container
  BY DEF DecideInv, TypeOK, NarrowByFlag, Contenders
<1>2. tied \subseteq CandidatePool
  BY DEF TopRank, TopArch
<1>3. ASSUME FlagApplies, \E w \in First(Clean(group)) : Settle("flag bit 24", w)
      PROVE  DecideInv'
  <2>1. PICK w \in First(Clean(group)) : Settle("flag bit 24", w)
    BY <1>3
  <2>2. /\ w \in tied /\ ~Deprioritised(container[w])
        /\ \A j \in Clean(tied) : w <= j
    BY <1>1 DEF First, Clean
  <2>3. \A j \in tied : container[j].kind = "ELF" /\ SameArch(container[w], container[j])
    BY <1>1, <1>3, <2>2, KeptByArch DEF FlagApplies, TiedOnCubins
  <2>4. ASSUME NEW j \in tied, j # w
        PROVE  Outranks(container, w, j)
    <3>1. CASE Deprioritised(container[j])
      BY <2>2, <2>3, <3>1 DEF Outranks, BetterByContent, BetterFlag
    <3>2. CASE ~Deprioritised(container[j])
      <4>1. w <= j /\ w \in Nat /\ j \in Nat
        BY <1>1, <2>2, <3>2, CandidateEntries DEF Clean
      <4>2. w < j
        BY <2>4, <4>1
      <4>. QED
        BY <2>2, <2>3, <3>2, <4>2 DEF Outranks, TiedUpToOrder, BetterPosition
    <3>. QED
      BY <3>1, <3>2
  <2>5. \A j \in CandidatePool \ tied : Outranks(container, w, j)
    BY <1>1, <2>2, KeptOutranksDropped, LostIsOutranked
  <2>6. BestOf(container, CandidatePool, w)
    BY <1>2, <2>2, <2>4, <2>5 DEF BestOf
  <2>7. PICK j \in tied : Deprioritised(container[j])
    BY <1>1, <1>3 DEF FlagApplies, Clean
  <2>8. LostByFlag(w, j) /\ j # w
    BY <2>2, <2>3, <2>7 DEF LostByFlag, BetterFlag
  <2>9. Separates("flag bit 24", w)
    BY <1>2, <2>8 DEF Separates, Rivals
  <2>. QED
    BY <1>1, <1>2, <2>1, <2>2, <2>6, <2>9, SettleKeeps DEF Levels
<1>4. ASSUME ~FlagApplies, stage' = "order", UNCHANGED <<level, winner>>
      PROVE  DecideInv'
  <2>1. /\ container' = container /\ target' = target /\ columns' = columns
        /\ group' = group /\ kindGroup' = kindGroup
        /\ level' = level /\ winner' = winner /\ CandidatePool' = CandidatePool
    BY <1>1, <1>4 DEF args, CandidatePool
  <2>2. TypeOK'
    BY <1>1, <1>4, <2>1 DEF TypeOK
  <2>3. Contenders' /\ Cardinality(group') > 1
    BY <1>1, <1>4, <2>1 DEF Contenders, TopRank, TopArch
  <2>4. ~FlagApplies'
    BY <1>4, <2>1 DEF FlagApplies, TiedOnCubins, Clean
  <2>. QED
    BY <1>4, <2>2, <2>3, <2>4 DEF DecideInv, AgreesWithWouldExecute, LevelSeparates
<1>. QED
  BY <1>3, <1>4 DEF NarrowByFlag
(***************************************************************************)
(* Left to file order, the winner is one of the tied, and nothing but its  *)
(* position sets it apart from the others.                                 *)
(***************************************************************************)
LEMMA AskTheRuleKeeps == DecideInv /\ AskTheRule /\ UNCHANGED columns => DecideInv'
<1>. SUFFICES ASSUME DecideInv, AskTheRule, UNCHANGED columns PROVE DecideInv'
  OBVIOUS
<1> DEFINE tied == TopArch(TopRank(CandidatePool))
<1>1. /\ TypeOK /\ container \in Containers /\ UNCHANGED <<args, group, kindGroup>>
      /\ group = tied /\ Cardinality(group) > 1 /\ ~FlagApplies
      /\ group \subseteq DOMAIN container /\ kindGroup \subseteq DOMAIN container
  BY DEF DecideInv, TypeOK, AskTheRule, Contenders
<1>2. PICK w \in CandidatePool :
        BestOf(container, CandidatePool, w) /\ Settle("file order", w)
  BY DEF AskTheRule
<1>3. tied \subseteq CandidatePool /\ IsFiniteSet(tied)
  BY <1>1, CandidateEntries, FS_Subset DEF TopRank, TopArch
<1>4. w \in tied
  <2>1. SUFFICES ASSUME w \notin tied PROVE FALSE
    OBVIOUS
  <2>2. PICK k \in tied : k # w
    BY <1>1, <1>3, OneOrMore
  <2>3. BetterKind(container[k], container[w]) \/ BetterArch(container[k], container[w])
    BY <1>1, <2>1, KeptOutranksDropped DEF LostByKind, LostByArch
  <2>4. Outranks(container, w, k)
    BY <1>2, <1>3, <2>2 DEF BestOf
  <2>5. /\ KindRank[container[w].kind] \in Nat /\ KindRank[container[k].kind] \in Nat
        /\ container[w].arch \in Nat /\ container[k].arch \in Nat
    BY <1>1, <1>3, CandidateEntries, Ranks
  <2>. QED
    BY <2>3, <2>4, <2>5 DEF Outranks, BetterByContent, BetterKind, BetterArch,
       BetterFlag, TiedUpToOrder, SameKind, SameArch
<1>5. PICK j \in tied : j # w
  BY <1>1, <1>3, OneOrMore
<1>6. SameArch(container[w], container[j])
  BY <1>1, <1>4, KeptByArch
<1>7. ASSUME container[w].kind = "ELF"
      PROVE  Deprioritised(container[w]) <=> Deprioritised(container[j])
  <2>1. \A i \in tied : SameArch(container[w], container[i])
    BY <1>1, <1>4, KeptByArch
  <2>2. \A i \in tied : container[i].kind = "ELF"
    BY <1>1, <1>3, <1>7, <2>1, CandidateEntries, Ranks DEF SameArch, SameKind
  <2>3. Clean(tied) = {} \/ Clean(tied) = tied
    BY <1>1, <2>2 DEF FlagApplies, TiedOnCubins
  <2>. QED
    BY <1>4, <2>3 DEF Clean
<1>8. Tied(w, j)
  BY <1>6, <1>7 DEF Tied, TiedUpToOrder
<1>9. Separates("file order", w)
  BY <1>3, <1>5, <1>8 DEF Separates, Rivals
<1>. QED
  BY <1>1, <1>2, <1>9, SettleKeeps DEF Levels

LEMMA TabulateKeeps == DecideInv /\ Tabulate => DecideInv'
<1>. SUFFICES ASSUME DecideInv, Tabulate PROVE DecideInv'
  OBVIOUS
<1>1. /\ stage = "done" /\ stage' = "counted" /\ columns' \subseteq Columns
      /\ container' = container /\ target' = target /\ group' = group
      /\ kindGroup' = kindGroup /\ level' = level /\ winner' = winner
      /\ CandidatePool' = CandidatePool
  BY DEF Tabulate, args, CandidatePool
<1>2. TypeOK'
  BY <1>1 DEF DecideInv, TypeOK
<1>3. AgreesWithWouldExecute' /\ LevelSeparates'
  BY <1>1 DEF DecideInv, AgreesWithWouldExecute, LevelSeparates, Separates, Rivals,
     LostByKind, LostByArch, LostByFlag, Tied
<1>. QED
  BY <1>1, <1>2, <1>3 DEF DecideInv

LEMMA StutterKeeps == DecideInv /\ UNCHANGED vars => DecideInv'
<1>. SUFFICES ASSUME DecideInv, UNCHANGED vars PROVE DecideInv'
  OBVIOUS
<1>1. /\ stage' = stage /\ columns' = columns /\ container' = container
      /\ target' = target /\ group' = group /\ kindGroup' = kindGroup
      /\ level' = level /\ winner' = winner /\ CandidatePool' = CandidatePool
  BY DEF vars, CandidatePool
<1>2. TypeOK'
  BY <1>1 DEF DecideInv, TypeOK
<1>3. AgreesWithWouldExecute' /\ LevelSeparates'
  BY <1>1 DEF DecideInv, AgreesWithWouldExecute, LevelSeparates, Separates, Rivals,
     LostByKind, LostByArch, LostByFlag, Tied
<1>4. stage' \in {"kind", "architecture", "flag", "order"} =>
        Contenders' /\ Cardinality(group') > 1
  BY <1>1 DEF DecideInv, Contenders, TopRank, TopArch
<1>5. stage' = "order" => ~FlagApplies'
  BY <1>1 DEF DecideInv, FlagApplies, TiedOnCubins, Clean
<1>. QED
  BY <1>2, <1>3, <1>4, <1>5 DEF DecideInv

------------------------------------------------------------------------------
LEMMA DecideInvariant == Spec => []DecideInv
<1>1. Init => DecideInv
  BY DEF Init, DecideInv, TypeOK, AgreesWithWouldExecute, LevelSeparates
<1>2. DecideInv /\ [Next]_vars => DecideInv'
  BY TakePoolKeeps, NarrowByKindKeeps, NarrowByArchKeeps, NarrowByFlagKeeps,
     AskTheRuleKeeps, TabulateKeeps, StutterKeeps DEF Next, Decide
<1>. QED
  BY <1>1, <1>2, PTL DEF Spec

(***************************************************************************)
(* The winner decide names is the entry no candidate outranks, the one the *)
(* scan of would_execute returns (decide beside would_execute).            *)
(***************************************************************************)
THEOREM DecideAgreesWithWouldExecute == Spec => []AgreesWithWouldExecute
<1>1. DecideInv => AgreesWithWouldExecute
  BY DEF DecideInv
<1>. QED
  BY <1>1, DecideInvariant, PTL

(***************************************************************************)
(* The level decide names is one at which a candidate lost to the winner   *)
(* (decide, its returns).                                                  *)
(***************************************************************************)
THEOREM NamedLevelSeparates == Spec => []LevelSeparates
<1>1. DecideInv => LevelSeparates
  BY DEF DecideInv
<1>. QED
  BY <1>1, DecideInvariant, PTL

------------------------------------------------------------------------------
(***************************************************************************)
(* The group main counts from: from the narrowing by kind on it is the     *)
(* candidates of the best kind, and the level says whether that is one     *)
(* entry or several.                                                       *)
(***************************************************************************)
UndocumentedLevels == {"architecture", "flag bit 24", "file order"}

KindGroupKnown ==
  /\ stage \in {"architecture", "flag", "order"} =>
       kindGroup = TopRank(CandidatePool) /\ Cardinality(kindGroup) > 1
  /\ stage \in {"done", "counted"} =>
       /\ kindGroup = TopRank(CandidatePool)
       /\ Cardinality(kindGroup) > 1 <=> level \in UndocumentedLevels
  /\ stage = "counted" => columns = {c \in Columns : CountedIn(c)}

ArgsKept == args' = args

LEMMA PoolKept ==
  ASSUME ArgsKept
  PROVE  /\ container' = container /\ CandidatePool' = CandidatePool
         /\ TopRank(CandidatePool)' = TopRank(CandidatePool)
BY DEF ArgsKept, args, CandidatePool, TopRank

LEMMA SettledGroup ==
  ASSUME stage' = "done", kindGroup' = TopRank(CandidatePool)', level' \in Levels,
         Cardinality(kindGroup') > 1 <=> level' \in UndocumentedLevels
  PROVE  KindGroupKnown'
BY DEF KindGroupKnown

LEMMA KindGroupFromPool ==
  DecideInv /\ TakePool /\ UNCHANGED columns => KindGroupKnown'
<1> SUFFICES ASSUME DecideInv, TakePool, UNCHANGED columns PROVE KindGroupKnown'
  OBVIOUS
<1>1. ArgsKept /\ kindGroup' = CandidatePool /\ container \in Containers
      /\ IsFiniteSet(CandidatePool)
  BY CandidateEntries DEF TakePool, Narrow, ArgsKept, DecideInv, TypeOK
<1>2. CASE CandidatePool = {} /\ Settle("nothing runs", NoEntry)
  <2>1. TopRank(CandidatePool) = CandidatePool /\ Cardinality(CandidatePool) = 0
    BY <1>2, FS_EmptySet DEF TopRank
  <2>2. stage' = "done" /\ level' = "nothing runs"
    BY <1>2 DEF Settle
  <2>3. kindGroup' = TopRank(CandidatePool)' /\ ~(Cardinality(kindGroup') > 1)
    BY <1>1, <2>1, PoolKept
  <2> QED
    BY <2>2, <2>3, SettledGroup DEF UndocumentedLevels, Levels
<1>3. CASE Cardinality(CandidatePool) = 1
           /\ \E w \in CandidatePool : Settle("single candidate", w)
  <2>1. PICK w \in CandidatePool : CandidatePool = {w}
    BY <1>1, <1>3, OneOrMore
  <2>2. KindRank[container[w].kind] \in Nat
    BY <1>1, CandidateEntries, Ranks
  <2>3. TopRank(CandidatePool) = CandidatePool
    BY <2>1, <2>2 DEF TopRank
  <2>4. stage' = "done" /\ level' = "single candidate"
    BY <1>3 DEF Settle
  <2>5. kindGroup' = TopRank(CandidatePool)'
    BY <1>1, <2>3, PoolKept
  <2>6. ~(Cardinality(kindGroup') > 1)
    <3>1. Cardinality(kindGroup') = 1
      BY <1>1, <1>3
    <3> QED
      BY <3>1
  <2> QED
    BY <2>4, <2>5, <2>6, SettledGroup DEF UndocumentedLevels, Levels
<1>4. CASE stage' = "kind"
  BY <1>4 DEF KindGroupKnown
<1> QED
  BY <1>2, <1>3, <1>4 DEF TakePool, Narrow

LEMMA KindGroupFromKind ==
  DecideInv /\ NarrowByKind /\ UNCHANGED columns => KindGroupKnown'
<1> SUFFICES ASSUME DecideInv, NarrowByKind, UNCHANGED columns PROVE KindGroupKnown'
  OBVIOUS
<1>1. ArgsKept /\ group = CandidatePool /\ kindGroup' = TopRank(CandidatePool)
  BY DEF NarrowByKind, Narrow, ArgsKept, DecideInv, Contenders
<1>2. \/ /\ Cardinality(TopRank(CandidatePool)) = 1
         /\ stage' = "done" /\ level' = "kind"
      \/ Cardinality(TopRank(CandidatePool)) > 1 /\ stage' = "architecture"
  BY <1>1 DEF NarrowByKind, Narrow, Settle
<1>3. kindGroup' = TopRank(CandidatePool)'
  BY <1>1, PoolKept
<1>4. CASE stage' = "done"
  BY <1>1, <1>2, <1>3, <1>4, SettledGroup DEF UndocumentedLevels, Levels
<1>5. CASE Cardinality(TopRank(CandidatePool)) > 1 /\ stage' = "architecture"
  BY <1>1, <1>3, <1>5 DEF KindGroupKnown
<1> QED
  BY <1>2, <1>4, <1>5

LEMMA KindGroupFromBelow ==
  ASSUME DecideInv, KindGroupKnown, UNCHANGED columns,
         NarrowByArch \/ NarrowByFlag \/ AskTheRule
  PROVE  KindGroupKnown'
<1>1. /\ ArgsKept /\ kindGroup' = kindGroup
      /\ kindGroup = TopRank(CandidatePool) /\ Cardinality(kindGroup) > 1
  BY DEF NarrowByArch, NarrowByFlag, AskTheRule, Narrow, ArgsKept, args, KindGroupKnown
<1>2. \/ stage' \in {"flag", "order"}
      \/ stage' = "done" /\ level' \in UndocumentedLevels
  BY DEF NarrowByArch, NarrowByFlag, AskTheRule, Narrow, Settle, UndocumentedLevels
<1> QED
  BY <1>1, <1>2, PoolKept DEF KindGroupKnown

LEMMA KindGroupFromTable == KindGroupKnown /\ Tabulate => KindGroupKnown'
<1> SUFFICES ASSUME KindGroupKnown, Tabulate PROVE KindGroupKnown'
  OBVIOUS
<1>1. /\ ArgsKept /\ kindGroup' = kindGroup /\ level' = level /\ winner' = winner
      /\ stage = "done" /\ stage' = "counted"
      /\ columns' = {c \in Columns : CountedIn(c)}
  BY DEF Tabulate, ArgsKept
<1>2. \A c \in Columns : CountedIn(c)' <=> CountedIn(c)
  BY <1>1, PoolKept DEF CountedIn, Columns, Nonascending, Multi, NotLast, NotFirst
<1>3. columns' = {c \in Columns : CountedIn(c)'}
  BY <1>1, <1>2
<1> QED
  BY <1>1, <1>3, PoolKept DEF KindGroupKnown, Columns

LEMMA KindGroupStutters == KindGroupKnown /\ UNCHANGED vars => KindGroupKnown'
<1> SUFFICES ASSUME KindGroupKnown, UNCHANGED vars PROVE KindGroupKnown'
  OBVIOUS
<1>1. /\ ArgsKept /\ kindGroup' = kindGroup /\ level' = level /\ winner' = winner
      /\ stage = stage' /\ columns' = columns
  BY DEF vars, args, ArgsKept
<1>2. \A c \in Columns : CountedIn(c)' <=> CountedIn(c)
  BY <1>1, PoolKept DEF CountedIn, Columns, Nonascending, Multi, NotLast, NotFirst
<1>3. {c \in Columns : CountedIn(c)'} = {c \in Columns : CountedIn(c)}
  BY <1>2
<1> QED
  BY <1>1, <1>3, PoolKept DEF KindGroupKnown, Columns

(***************************************************************************)
(* What a counted container looks like: the winner is one of the group,    *)
(* the rest of the group are its rivals of the same kind, and no one of    *)
(* them has a higher architecture.                                         *)
(***************************************************************************)
LEMMA WinnerOfTheGroup ==
  ASSUME DecideInv, KindGroupKnown, stage = "counted", winner # NoEntry
  PROVE  /\ winner \in kindGroup /\ kindGroup \subseteq CandidatePool
         /\ OfTheWinnersKind = kindGroup \ {winner}
         /\ \A j \in OfTheWinnersKind : /\ SameKind(container[winner], container[j])
                                        /\ container[winner].arch >= container[j].arch
<1>1. container \in Containers /\ kindGroup = TopRank(CandidatePool)
      /\ BestOf(container, CandidatePool, winner)
  BY DEF DecideInv, TypeOK, KindGroupKnown, AgreesWithWouldExecute
<1>2. winner \in CandidatePool
  BY <1>1 DEF BestOf
<1>3. \A i \in CandidatePool : /\ container[i].kind \in RankedKinds
                               /\ KindRank[container[i].kind] \in Nat
                               /\ container[i].arch \in Nat
  BY <1>1, CandidateEntries, Ranks
<1>4. \A k, l \in RankedKinds : KindRank[k] = KindRank[l] => k = l
  BY DEF KindRank, RankedKinds
<1>5. ASSUME NEW j \in CandidatePool
      PROVE  /\ KindRank[container[winner].kind] >= KindRank[container[j].kind]
             /\ KindRank[container[winner].kind] = KindRank[container[j].kind] =>
                  container[winner].arch >= container[j].arch
  <2>1. CASE j = winner
    BY <1>2, <1>3, <2>1
  <2>2. CASE j # winner
    <3>1. Outranks(container, winner, j)
      BY <1>1, <2>2 DEF BestOf
    <3> QED
      BY <1>2, <1>3, <3>1 DEF Outranks, BetterByContent, BetterKind, BetterArch,
         BetterFlag, TiedUpToOrder, SameArch, SameKind
  <2> QED
    BY <2>1, <2>2
<1>6. winner \in kindGroup /\ kindGroup \subseteq CandidatePool
  BY <1>1, <1>2, <1>5 DEF TopRank
<1>7. ASSUME NEW j \in CandidatePool
      PROVE  j \in kindGroup <=> container[j].kind = container[winner].kind
  <2>1. j \in kindGroup => SameKind(container[winner], container[j])
    BY <1>1, <1>6, KeptByKind
  <2>2. container[j].kind = container[winner].kind => j \in kindGroup
    BY <1>1, <1>5 DEF TopRank
  <2> QED
    BY <1>2, <1>3, <1>4, <2>1, <2>2 DEF SameKind
<1>8. OfTheWinnersKind = kindGroup \ {winner}
  BY <1>6, <1>7 DEF OfTheWinnersKind, Rivals
<1>9. \A j \in OfTheWinnersKind : j \in CandidatePool
                                  /\ SameKind(container[winner], container[j])
  BY <1>1, <1>6, <1>8, KeptByKind
<1> QED
  BY <1>5, <1>6, <1>8, <1>9 DEF SameKind

LEMMA ColumnsCounted ==
  ASSUME KindGroupKnown, stage = "counted"
  PROVE  /\ "multi" \in columns <=> Multi
         /\ "win!=last" \in columns <=> NotLast
         /\ "nonascending" \in columns <=> Nonascending
<1>1. columns = {c \in Columns : CountedIn(c)}
  BY DEF KindGroupKnown
<1>2. \A c \in Columns : c \in columns <=> CountedIn(c)
  BY <1>1
<1>3. /\ CountedIn("multi") <=> Multi
      /\ CountedIn("win!=last") <=> NotLast
      /\ CountedIn("nonascending") <=> Nonascending
  BY DEF CountedIn
<1> QED
  BY <1>2, <1>3 DEF Columns

LEMMA CountedColumnsMean == DecideInv /\ KindGroupKnown => ColumnsMean
<1> SUFFICES ASSUME DecideInv, KindGroupKnown, stage = "counted"
             PROVE  /\ Multi <=> level \in UndocumentedLevels
                    /\ Multi <=> winner # NoEntry /\ OfTheWinnersKind # {}
                    /\ NotLast <=> winner # NoEntry /\ \E j \in OfTheWinnersKind :
                                                          j > winner
                    /\ (NotLast /\ ~Nonascending /\ container[winner].kind = "ELF") =>
                         /\ level \in {"flag bit 24", "file order"}
                         /\ \E j \in OfTheWinnersKind :
                              /\ j > winner
                              /\ container[j].arch = container[winner].arch
  BY ColumnsCounted DEF ColumnsMean, UndocumentedLevels
<1>1. /\ container \in Containers /\ kindGroup = TopRank(CandidatePool)
      /\ Cardinality(kindGroup) > 1 <=> level \in UndocumentedLevels
      /\ Separates(level, winner)
  BY DEF DecideInv, TypeOK, KindGroupKnown, LevelSeparates
<1>2. /\ CandidatePool \subseteq DOMAIN container /\ DOMAIN container \subseteq Nat
      /\ IsFiniteSet(kindGroup) /\ Cardinality(kindGroup) \in Nat
      /\ \A i \in CandidatePool : container[i].arch \in Nat
  BY <1>1, CandidateEntries, FS_Subset, FS_CardinalityType DEF TopRank
<1>3. CASE winner = NoEntry
  <2>1. CandidatePool = {}
    BY <1>2, <1>3, DecideAssumption DEF DecideInv, AgreesWithWouldExecute, BestOf
  <2>2. Cardinality(kindGroup) = 0
    BY <1>1, <2>1, FS_EmptySet DEF TopRank
  <2> QED
    BY <1>1, <1>3, <2>2 DEF Multi, NotLast
<1>4. CASE winner # NoEntry
  <2>1. /\ winner \in kindGroup /\ kindGroup \subseteq CandidatePool
        /\ OfTheWinnersKind = kindGroup \ {winner}
        /\ \A j \in OfTheWinnersKind : /\ SameKind(container[winner], container[j])
                                       /\ container[winner].arch >= container[j].arch
    BY <1>4, WinnerOfTheGroup
  <2>2. Cardinality(kindGroup) > 1 <=> OfTheWinnersKind # {}
    <3>1. Cardinality(kindGroup) # 0
      BY <1>2, <2>1, FS_EmptySet
    <3>2. Cardinality(kindGroup) = 1 => OfTheWinnersKind = {}
      BY <1>2, <2>1, OneOrMore
    <3>3. Cardinality(kindGroup) > 1 => OfTheWinnersKind # {}
      BY <1>2, <2>1, OneOrMore
    <3> QED
      BY <1>2, <3>1, <3>2, <3>3
  <2>3. Multi <=> Cardinality(kindGroup) > 1
    BY <1>2, <1>4 DEF Multi
  <2>4. NotLast <=> \E j \in OfTheWinnersKind : j > winner
    BY <1>2, <2>1, <2>2, <2>3 DEF NotLast
  <2>5. ASSUME NotLast, ~Nonascending, container[winner].kind = "ELF"
        PROVE  /\ level \in {"flag bit 24", "file order"}
               /\ \E j \in OfTheWinnersKind :
                    j > winner /\ container[j].arch = container[winner].arch
    <3>1. PICK j \in OfTheWinnersKind : j > winner
      BY <2>4, <2>5
    <3>2. /\ container[j].kind = "ELF" /\ j \in DOMAIN container
          /\ winner \in DOMAIN container /\ winner < j /\ j \in Rivals(winner)
      BY <1>2, <2>1, <2>5, <3>1 DEF OfTheWinnersKind, Rivals
    <3>3. ~(container[winner].arch > container[j].arch)
      BY <2>5, <3>2 DEF Nonascending
    <3>4. /\ container[winner].arch \in Nat /\ container[j].arch \in Nat
          /\ KindRank[container[winner].kind] = KindRank[container[j].kind]
      BY <1>2, <2>1, <3>1 DEF SameKind
    <3>5. container[j].arch = container[winner].arch
      BY <2>1, <3>1, <3>3, <3>4
    <3>6. ~LostByKind(winner, j) /\ ~LostByArch(winner, j)
      BY <2>5, <3>2, <3>3, Ranks
         DEF LostByKind, LostByArch, BetterKind, BetterArch, RankedKinds
    <3>7. level # "architecture"
      BY <1>1, <3>2, <3>6 DEF Separates
    <3>8. level \in UndocumentedLevels
      BY <1>1, <2>2, <3>1
    <3> QED
      BY <3>1, <3>5, <3>7, <3>8 DEF UndocumentedLevels
  <2> QED
    BY <1>1, <1>4, <2>2, <2>3, <2>4, <2>5
<1> QED
  BY <1>3, <1>4

(***************************************************************************)
(* The columns mean what the closing text of main says of them: "multi"    *)
(* counts exactly the containers the documentation leaves undetermined,    *)
(* and among cubins in ascending order "win!=last" counts only ties.       *)
(***************************************************************************)
THEOREM ColumnsCountWhatTheySay == Spec => []ColumnsMean
<1>1. Init => KindGroupKnown
  BY DEF Init, KindGroupKnown
<1>2. DecideInv /\ KindGroupKnown /\ [Next]_vars => KindGroupKnown'
  BY KindGroupFromPool, KindGroupFromKind, KindGroupFromBelow, KindGroupFromTable,
     KindGroupStutters DEF Next, Decide
<1> QED
  BY DecideInvariant, CountedColumnsMean, <1>1, <1>2, PTL DEF Spec

------------------------------------------------------------------------------
(***************************************************************************)
(* The rule's own copies of the filter and the order are decide's.         *)
(***************************************************************************)
LEMMA RuleMeansTheSameOrder ==
  /\ Rule!Pool(container, target, "default") = CandidatePool
  /\ \A c, p, i : Rule!BestOf(c, p, i) <=> BestOf(c, p, i)
<1>1. Rule!Candidates(container, target) = CandidatePool
  BY DEF CandidatePool, Rule!Candidates, Candidates, Rule!ArchCompatible,
     ArchCompatible, Rule!ArchSuffix, ArchSuffix, Rule!RankedKinds, RankedKinds,
     Rule!Generation, Generation
<1>2. Rule!Pool(container, target, "default") = CandidatePool
  BY <1>1, Zenon DEF Rule!Pool
<1>3. ASSUME NEW c, NEW i, NEW j
      PROVE  Rule!Outranks(c, i, j) <=> Outranks(c, i, j)
  BY DEF Rule!Outranks, Outranks, Rule!BetterByContent, BetterByContent,
     Rule!BetterKind, BetterKind, Rule!BetterArch, BetterArch, Rule!BetterFlag,
     BetterFlag, Rule!TiedUpToOrder, TiedUpToOrder, Rule!SameArch, SameArch,
     Rule!SameKind, SameKind, Rule!BetterPosition, BetterPosition,
     Rule!Deprioritised, Deprioritised, Rule!KindRank, KindRank,
     Rule!RankedKinds, RankedKinds
<1>4. ASSUME NEW c, NEW p, NEW i  PROVE Rule!BestOf(c, p, i) <=> BestOf(c, p, i)
  BY <1>3 DEF Rule!BestOf, BestOf
<1>. QED  BY <1>2, <1>4

(***************************************************************************)
(* decide implements the rule, as would_execute does: one answer per       *)
(* container and GPU, committed to once, and that answer is the candidate  *)
(* no other outranks, whichever of its six returns it comes from (decide). *)
(***************************************************************************)
THEOREM DecideIsTheRule == Spec => DecideImplementsRule
<1>1. Init => Rule!Init
  BY Zenon DEF Init, Rule!Init, Answer, Rule!Policies
<1>2. DecideInv' /\ [Next]_vars => [Rule!Commit]_(Rule!vars)
  <2>. SUFFICES ASSUME DecideInv', Next \/ UNCHANGED vars
                PROVE  Rule!Commit \/ UNCHANGED Rule!vars
    OBVIOUS
  <2>1. UNCHANGED args
    BY DEF Next, Decide, TakePool, NarrowByKind, NarrowByArch, NarrowByFlag,
       AskTheRule, Narrow, Tabulate, vars, args
  <2>2. CASE stage \notin {"done", "counted"} /\ stage' = "done"
    <3>1. Answer = NoLevel /\ Answer' = winner'
      BY <2>2 DEF Answer
    <3>2. IF CandidatePool = {} THEN winner' = NoEntry
          ELSE BestOf(container, CandidatePool, winner')
      BY <2>1, <2>2 DEF DecideInv, AgreesWithWouldExecute, CandidatePool, args
    <3>. QED
      BY <2>1, <3>1, <3>2, RuleMeansTheSameOrder DEF Rule!Commit, Rule!IsAnswer, args
  <2>3. CASE stage \in {"done", "counted"} \/ stage' # "done"
    <3>1. Answer' = Answer
      BY <2>3 DEF Answer, Next, Decide, TakePool, NarrowByKind, NarrowByArch,
         NarrowByFlag, AskTheRule, Narrow, Settle, Tabulate, vars
    <3>. QED  BY <2>1, <3>1 DEF Rule!vars, args
  <2>. QED  BY <2>2, <2>3
<1>. QED
  BY <1>1, <1>2, DecideInvariant, PTL DEF Spec, DecideImplementsRule, Rule!Spec
=============================================================================
