---------------------------- MODULE DecisiveLevel ----------------------------
(***************************************************************************)
(* decide (scripts/decisive_level.py): which level of the hierarchy        *)
(* settled a container.  It narrows the pool level by level instead of     *)
(* scanning it and names the level at which one entry was left; only for   *)
(* the last level does it ask would_execute, here the rule that function   *)
(* implements.  The GPU's suffix is empty and no policy is forced: decide  *)
(* has no parameter for either.  main then counts the container in the     *)
(* columns of its table.                                                   *)
(***************************************************************************)
EXTENDS EntryOrder

CONSTANTS Containers, Targets, NoEntry, NoLevel

Levels == {"nothing runs", "single candidate", "kind", "architecture",
           "flag bit 24", "file order"}

ASSUME DecideAssumption ==
  /\ Containers \subseteq Seq(Entry)
  /\ Targets \subseteq Target
  /\ \A t \in Targets : t.suffix = ""
  /\ NoEntry \notin Nat
  /\ NoLevel \notin Levels

VARIABLES container, target,
          stage,      \* the narrowing about to run, or "done"
          group,      \* the entries still in contention
          kindGroup,  \* the third component of the result
          level, winner,
          columns     \* the columns of the table that count this container

vars == <<container, target, stage, group, kindGroup, level, winner, columns>>
args == <<container, target>>

CandidatePool == Candidates(container, target)

Init == /\ container \in Containers
        /\ target \in Targets
        /\ stage = "pool"
        /\ group = {} /\ kindGroup = {}
        /\ level = NoLevel /\ winner = NoEntry
        /\ columns = {}

(***************************************************************************)
(* One narrowing: keep the entries of "kept"; if that leaves one, it won   *)
(* at the level "name", otherwise the stage "next" takes over.             *)
(***************************************************************************)
Settle(name, w) == /\ stage' = "done" /\ level' = name /\ winner' = w

Narrow(kept, name, next) ==
  /\ group' = kept
  /\ \/ /\ Cardinality(kept) = 1
        /\ \E w \in kept : Settle(name, w)
     \/ /\ Cardinality(kept) > 1
        /\ stage' = next
        /\ UNCHANGED <<level, winner>>
  /\ UNCHANGED args

TakePool ==
  /\ stage = "pool"
  /\ kindGroup' = CandidatePool
  /\ \/ /\ CandidatePool = {}
        /\ Settle("nothing runs", NoEntry)
        /\ UNCHANGED <<args, group>>
     \/ Narrow(CandidatePool, "single candidate", "kind")

TopRank(s) == {i \in s : \A j \in s :
                 KindRank[container[i].kind] >= KindRank[container[j].kind]}

NarrowByKind == /\ stage = "kind"
                /\ kindGroup' = TopRank(group)
                /\ Narrow(TopRank(group), "kind", "architecture")

TopArch(s) == {i \in s : \A j \in s : container[i].arch >= container[j].arch}

\* Mutant: the group returned shrinks to the architecture group.
NarrowByArchMutant == /\ stage = "architecture"
                      /\ kindGroup' = TopArch(group)
                      /\ Narrow(TopArch(group), "architecture", "flag")

NarrowByArch == /\ stage = "architecture"
                /\ Narrow(TopArch(group), "architecture", "flag")
                /\ UNCHANGED kindGroup

Clean(s) == {i \in s : ~Deprioritised(container[i])}

(***************************************************************************)
(* Bit 24 settles it as soon as some entries of a tied group of cubins     *)
(* carry it and some do not, however many do not: the first of those wins. *)
(***************************************************************************)
\* Mutant: the last of the tied entries is taken.
FirstMutant(s) == {i \in s : \A j \in s : i >= j}

First(s) == {i \in s : \A j \in s : i <= j}

\* The first is asked; its kind is that of all, which tie on the kind.
TiedOnCubins == \A i \in group : container[i].kind = "ELF"

\* Mutant: bit 24 is consulted although no tied entry carries it.
FlagAppliesMutant == TiedOnCubins /\ Clean(group) # {}

FlagApplies == TiedOnCubins /\ Clean(group) # {} /\ Clean(group) # group

NarrowByFlag == /\ stage = "flag"
                /\ IF FlagApplies
                   THEN \E w \in First(Clean(group)) : Settle("flag bit 24", w)
                   ELSE stage' = "order" /\ UNCHANGED <<level, winner>>
                /\ UNCHANGED <<args, group, kindGroup>>

AskTheRule ==
  /\ stage = "order"
  /\ \E w \in CandidatePool :
       BestOf(container, CandidatePool, w) /\ Settle("file order", w)
  /\ UNCHANGED <<args, group, kindGroup>>

Decide == \/ TakePool \/ NarrowByKind \/ NarrowByArch \/ NarrowByFlag
          \/ AskTheRule

(***************************************************************************)
(* main's columns: ELF architectures out of order in the file, more than   *)
(* one entry of the winning kind, and the winner against the first and the *)
(* last of those.                                                          *)
(***************************************************************************)
Nonascending ==
  \E i, j \in DOMAIN container : /\ i < j
                                /\ container[i].kind = "ELF" /\ container[j].kind = "ELF"
                                /\ container[i].arch > container[j].arch

Multi == winner # NoEntry /\ Cardinality(kindGroup) >= 2

NotLast == Multi /\ \E i \in kindGroup : i > winner

NotFirst == Multi /\ \E i \in kindGroup : i < winner

Columns == {"nonascending", "multi", "win!=last", "win!=first"}

CountedIn(column) == CASE column = "nonascending" -> Nonascending
                       [] column = "multi"        -> Multi
                       [] column = "win!=last"    -> NotLast
                       [] column = "win!=first"   -> NotFirst

Tabulate == /\ stage = "done"
            /\ stage' = "counted"
            /\ columns' = {c \in Columns : CountedIn(c)}
            /\ UNCHANGED <<args, group, kindGroup, level, winner>>

Next == (Decide /\ UNCHANGED columns) \/ Tabulate

Spec == Init /\ [][Next]_vars

------------------------------------------------------------------------------
(***************************************************************************)
(* The entries in contention and the result are entries of the container.  *)
(***************************************************************************)
TypeOK == /\ container \in Containers
          /\ target \in Targets
          /\ stage \in {"pool", "kind", "architecture", "flag", "order", "done", "counted"}
          /\ group \subseteq DOMAIN container
          /\ kindGroup \subseteq DOMAIN container
          /\ level \in Levels \cup {NoLevel}
          /\ winner \in DOMAIN container \cup {NoEntry}
          /\ columns \subseteq Columns

(***************************************************************************)
(* Two computations of one answer: narrowing level by level finds the very *)
(* entry that would_execute's scan returns.                                *)
(***************************************************************************)
AgreesWithWouldExecute ==
  stage \in {"done", "counted"} =>
    IF CandidatePool = {} THEN winner = NoEntry
    ELSE BestOf(container, CandidatePool, winner)

(***************************************************************************)
(* The level named is one at which a candidate lost, and no candidate was  *)
(* left for a level below it to separate, except that "flag bit 24" does   *)
(* not claim the second half (decide, the returns at each level).          *)
(***************************************************************************)
Rivals(w) == CandidatePool \ {w}

LostByKind(w, j) == BetterKind(container[w], container[j])

LostByArch(w, j) == BetterArch(container[w], container[j])

LostByFlag(w, j) == BetterFlag(container[w], container[j])

Tied(w, j) == TiedUpToOrder(container[w], container[j])

Separates(name, w) ==
  \/ name = "nothing runs" /\ CandidatePool = {}
  \/ name = "single candidate" /\ Rivals(w) = {}
  \/ name = "kind" /\ \A j \in Rivals(w) : LostByKind(w, j)
  \/ /\ name = "architecture"
     /\ \A j \in Rivals(w) : LostByKind(w, j) \/ LostByArch(w, j)
     /\ \E j \in Rivals(w) : LostByArch(w, j)
  \/ name = "flag bit 24" /\ \E j \in Rivals(w) : LostByFlag(w, j)
  \/ name = "file order" /\ \E j \in Rivals(w) : Tied(w, j)

LevelSeparates == stage \in {"done", "counted"} => Separates(level, winner)

(***************************************************************************)
(* The inductive invariant: what is left in contention at each stage.      *)
(***************************************************************************)
Contenders ==
  CASE stage = "kind"         -> group = CandidatePool
    [] stage = "architecture" -> group = TopRank(CandidatePool)
    [] OTHER                  -> group = TopArch(TopRank(CandidatePool))

DecideInv ==
  /\ TypeOK
  /\ stage \in {"kind", "architecture", "flag", "order"} =>
       /\ Contenders
       /\ Cardinality(group) > 1
  /\ stage = "order" => ~FlagApplies
  /\ AgreesWithWouldExecute
  /\ LevelSeparates

(***************************************************************************)
(* What the columns mean.  "multi" counts the containers of the levels the *)
(* documentation leaves open, which are those where a rival of the         *)
(* winner's own kind is a candidate ("exactly the containers the           *)
(* documentation leaves undetermined", the closing text of main).          *)
(* "win!=last" counts those where such a rival lies further on, and says   *)
(* of cubins in ascending order that a tie was decided, by bit 24 or by    *)
(* position, since proximity and taking the last agree there.              *)
(***************************************************************************)
OfTheWinnersKind ==
  {j \in Rivals(winner) : container[j].kind = container[winner].kind}

ColumnsMean ==
  stage = "counted" =>
    /\ "multi" \in columns <=>
         level \in {"architecture", "flag bit 24", "file order"}
    /\ "multi" \in columns <=> winner # NoEntry /\ OfTheWinnersKind # {}
    /\ "win!=last" \in columns <=>
         winner # NoEntry /\ \E j \in OfTheWinnersKind : j > winner
    /\ ("win!=last" \in columns /\ "nonascending" \notin columns
         /\ container[winner].kind = "ELF") =>
         /\ level \in {"flag bit 24", "file order"}
         /\ \E j \in OfTheWinnersKind :
              j > winner /\ container[j].arch = container[winner].arch

(***************************************************************************)
(* Two computations of one answer, as a refinement: the narrowings are     *)
(* invisible, and decide's return is the rule's one commitment, whichever  *)
(* level it returns at.                                                    *)
(***************************************************************************)
Answer == IF stage \in {"done", "counted"} THEN winner ELSE NoLevel

Rule == INSTANCE SelectionRule
          WITH policy <- "default", answer <- Answer, Pending <- NoLevel

DecideImplementsRule == Rule!Spec
==============================================================================
