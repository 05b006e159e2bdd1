--------------------------- MODULE EntrySelection ----------------------------
(***************************************************************************)
(* would_execute: filter the entries of a container down to a pool, then   *)
(* scan the pool once in file order, holding an incumbent.  One action per *)
(* branch of the scan's comparison chain; the container, the target and    *)
(* the policy are the arguments of the call and never change.              *)
(***************************************************************************)
EXTENDS EntryOrder

CONSTANTS Containers,   \* the containers, each a sequence of entries
          Targets,      \* the GPUs asked about
          NoEntry,      \* Python's None for an entry
          Pending       \* the call has not returned

ASSUME ContainersAssumption == Containers \subseteq Seq(Entry)
ASSUME TargetsAssumption == Targets \subseteq Target
ASSUME NoEntryAssumption == NoEntry \notin Nat /\ Pending \notin Nat
                            /\ NoEntry # Pending

VARIABLES container, target, policy,   \* the arguments of the call
          pc,     \* "filter", "scan", "done"
          pool,   \* the indices that survived the filter
          rest,   \* those of them the loop has not reached yet
          best    \* the incumbent, NoEntry while there is none

vars == <<container, target, policy, pc, pool, rest, best>>
args == <<container, target, policy>>

Init == /\ container \in Containers
        /\ target \in Targets
        /\ policy \in Policies
        /\ pc = "filter"
        /\ pool = {}
        /\ rest = {}
        /\ best = NoEntry

(***************************************************************************)
(* The two list comprehensions and the early return on an empty pool.      *)
(***************************************************************************)
FilterPool ==
  /\ pc = "filter"
  /\ pool' = Pool(container, target, policy)
  /\ rest' = pool'
  /\ pc' = IF pool' = {} THEN "done" ELSE "scan"
  /\ UNCHANGED <<args, best>>

(***************************************************************************)
(* The loop variable of one iteration: the first index not yet reached.    *)
(***************************************************************************)
Candidate(c) == c \in rest /\ \A j \in rest : c <= j

\* Mutant: the incumbent is replaced and the iterator stays where it was.
AdvanceMutant(c, winner) == /\ pc = "scan"
                            /\ Candidate(c)
                            /\ best' = winner
                            /\ UNCHANGED <<args, pc, pool, rest>>

Advance(c, winner) == /\ pc = "scan"
                      /\ Candidate(c)
                      /\ rest' = rest \ {c}
                      /\ best' = winner
                      /\ UNCHANGED <<args, pc, pool>>

TakeFirst(c) == /\ best = NoEntry
                /\ Advance(c, c)

RankOf(i) == KindRank[container[i].kind]

\* Mutant: a different kind displaces the incumbent whichever ranks higher.
CompareKindMutant(c) == /\ best # NoEntry
                        /\ RankOf(c) # RankOf(best)
                        /\ Advance(c, c)

CompareKind(c) == /\ best # NoEntry
                  /\ RankOf(c) # RankOf(best)
                  /\ Advance(c, IF RankOf(c) > RankOf(best) THEN c ELSE best)

\* Mutant: a nearer architecture does not displace the incumbent.
CompareArchMutant(c) ==
  /\ best # NoEntry
  /\ RankOf(c) = RankOf(best)
  /\ container[c].arch # container[best].arch
  /\ Advance(c, best)

CompareArch(c) ==
  /\ best # NoEntry
  /\ RankOf(c) = RankOf(best)
  /\ container[c].arch # container[best].arch
  /\ Advance(c, IF container[c].arch > container[best].arch THEN c ELSE best)

TiedOnArch(c) == /\ best # NoEntry
                 /\ RankOf(c) = RankOf(best)
                 /\ container[c].arch = container[best].arch

FlagSeparates(c) ==
  /\ container[c].kind = "ELF"
  /\ Deprioritised(container[c]) # Deprioritised(container[best])

\* Mutant: the incumbent keeps its place even when it carries bit 24.
CompareFlagMutant(c) ==
  /\ TiedOnArch(c)
  /\ FlagSeparates(c)
  /\ Advance(c, best)

CompareFlag(c) ==
  /\ TiedOnArch(c)
  /\ FlagSeparates(c)
  /\ Advance(c, IF Deprioritised(container[best]) THEN c ELSE best)

CompareOrder(c) ==
  /\ TiedOnArch(c)
  /\ ~FlagSeparates(c)
  /\ Advance(c, IF container[c].kind = "PTX" THEN c ELSE best)

Return == /\ pc = "scan"
          /\ rest = {}
          /\ pc' = "done"
          /\ UNCHANGED <<args, pool, rest, best>>

Next == \/ FilterPool
        \/ \E c \in rest : \/ TakeFirst(c)
                           \/ CompareKind(c)
                           \/ CompareArch(c)
                           \/ CompareFlag(c)
                           \/ CompareOrder(c)
        \/ Return

Spec == Init /\ [][Next]_vars

------------------------------------------------------------------------------
Scanned == pool \ rest

(***************************************************************************)
(* What is scanned and the incumbent are entries that survived the filter, *)
(* and the incumbent is one the scan has reached.                          *)
(***************************************************************************)
TypeOK == /\ container \in Containers
          /\ target \in Targets
          /\ policy \in Policies
          /\ pc \in {"filter", "scan", "done"}
          /\ pool \subseteq DOMAIN container
          /\ rest \subseteq pool
          /\ best \in (pool \ rest) \cup {NoEntry}

(***************************************************************************)
(* The incumbent outranks every other candidate the scan has passed, under *)
(* all four levels at once.  The chain compares an incumbent with one      *)
(* candidate at a time and forgets what it displaced, so this holds only   *)
(* if the levels, with their kind-dependent direction of file order,       *)
(* compose into one total order (would_execute, the linear scan).          *)
(***************************************************************************)
IncumbentOutranksScanned ==
  \A j \in Scanned : j # best => Outranks(container, best, j)

(***************************************************************************)
(* The inductive invariant: with the property above, the pool is what the  *)
(* filter left, what has been scanned is a prefix of it, and there is an   *)
(* incumbent exactly when something has been scanned.                      *)
(***************************************************************************)
PoolIsFiltered == IF pc = "filter" THEN pool = {}
                  ELSE pool = Pool(container, target, policy)

ScanFollowsFileOrder == \A i \in Scanned, j \in rest : i < j

IncumbentWhenScanned == best = NoEntry <=> Scanned = {}

IInv == /\ TypeOK
        /\ PoolIsFiltered
        /\ ScanFollowsFileOrder
        /\ IncumbentWhenScanned
        /\ pc = "done" => rest = {}
        /\ IncumbentOutranksScanned

(***************************************************************************)
(* An incumbent that was displaced never returns, and a new incumbent      *)
(* outranks the one it replaces: the scan only climbs.                     *)
(***************************************************************************)
ScanOnlyClimbs ==
  [][best # NoEntry /\ best' # best => Outranks(container, best', best)]_vars

(***************************************************************************)
(* No position overturns content: when the entries of the container are    *)
(* permuted in any way, what wins is an entry with the same kind rank,     *)
(* architecture and bit 24 (would_execute, "so no position or architecture *)
(* advantage overturns it").  Stated over the pool of the permuted         *)
(* container as the rule defines it.                                       *)
(***************************************************************************)
Permuted(f) == [i \in DOMAIN container |-> container[f[i]]]

Rearrangements == {f \in [DOMAIN container -> DOMAIN container] :
                     \A i \in DOMAIN container : \E j \in DOMAIN container : f[j] = i}

PositionNeverOverturnsContent ==
  (pc = "done" /\ best # NoEntry) =>
    \A f \in Rearrangements : \A w \in DOMAIN container :
      BestOf(Permuted(f), Pool(Permuted(f), target, policy), w)
        => TiedUpToOrder(Permuted(f)[w], container[best])

(***************************************************************************)
(* CUDA_FORCE_PTX_JIT removes cubins before ranking and demotes nothing:   *)
(* when the default policy would not choose a cubin, forcing the JIT       *)
(* changes nothing.  The call with policy="force-ptx-jit" is compared with *)
(* what the rule answers for the same container under the default policy.  *)
(***************************************************************************)
ForcingOnlyRemovesCubins ==
  (pc = "done" /\ policy = "force-ptx-jit") =>
    /\ best # NoEntry => container[best].kind # "ELF"
    /\ \A w \in DOMAIN container :
         /\ BestOf(container, Pool(container, target, "default"), w)
         /\ container[w].kind # "ELF"
         => best = w

(***************************************************************************)
(* The scan implements the rule: the steps of the loop are invisible, the  *)
(* return commits once to the entry no candidate outranks.                 *)
(***************************************************************************)
Answer == IF pc = "done" THEN best ELSE Pending

Rule == INSTANCE SelectionRule WITH answer <- Answer

ImplementsRule == Rule!Spec
==============================================================================
