---------------------------- MODULE FatbinEntries ----------------------------
(***************************************************************************)
(* The entry of a CUDA fat binary container as the selection code sees it: *)
(* the fields of FatBinEntryHeader that decide anything, the constants the *)
(* code tests them against and the predicates it computes from them.       *)
(*                                                                         *)
(* A payload is abstracted to the one number the selection code reads out  *)
(* of it, the architecture the embedded ELF declares about itself.         *)
(***************************************************************************)
EXTENDS Integers, FiniteSets, Sequences

CONSTANT NoArch   \* the None of Entry.elf_arch: the payload declares nothing

(***************************************************************************)
(* KIND_NAMES, and the three kinds that have a rank.  Every other kind is  *)
(* parsed and listed, and never selected.                                  *)
(***************************************************************************)
Kinds == {"PTX", "ELF", "CUBIN", "LTO_IR", "MERCURY", "INDEX", "RELOC_PTX",
          "TILEIR", "CONCAT"}

RankedKinds == {"ELF", "MERCURY", "PTX"}

KindRank == [k \in RankedKinds |-> IF k = "ELF" THEN 3
                                   ELSE IF k = "MERCURY" THEN 2 ELSE 1]

(***************************************************************************)
(* The bits of the flags field the code names: 12 to 15 the compression    *)
(* family, 16 obfuscated, 20 and 21 the architecture suffix, 24 nominal    *)
(* architecture.  A flags field is the set of the named bits it carries.   *)
(***************************************************************************)
FlagBits == {12, 13, 14, 15, 16, 20, 21, 24}

ArchSuffixes == {"", "a", "f"}

Entry == [kind    : Kinds,
          arch    : Nat,
          flags   : SUBSET FlagBits,
          elfArch : Nat \cup {NoArch}]

ArchSuffix(e) == IF 20 \in e.flags THEN "a"
                 ELSE IF 21 \in e.flags THEN "f" ELSE ""

Deprioritised(e) == 24 \in e.flags

(***************************************************************************)
(* What the code is told about the GPU: --sm and the suffix it reports.    *)
(***************************************************************************)
Target == [sm : Nat, suffix : ArchSuffixes]

Policies == {"default", "force-ptx-jit"}

Generation(arch) == arch \div 10

ArchCompatible(e, target) ==
  /\ ArchSuffix(e) = target.suffix
  /\ e.arch <= target.sm
  /\ e.kind = "ELF" => Generation(e.arch) = Generation(target.sm)

(***************************************************************************)
(* The candidate filter: the indices, in a container, of the entries the   *)
(* ranking ever looks at.                                                  *)
(***************************************************************************)
Candidates(container, target) ==
  {i \in DOMAIN container : /\ ArchCompatible(container[i], target)
                            /\ container[i].kind \in RankedKinds}

DiscardCubins(container, pool) == {i \in pool : container[i].kind # "ELF"}

\* Mutant: the forced policy is accepted and filters nothing.
PoolMutant(container, target, policy) == Candidates(container, target)

Pool(container, target, policy) ==
  IF policy = "force-ptx-jit"
  THEN DiscardCubins(container, Candidates(container, target))
  ELSE Candidates(container, target)

(***************************************************************************)
(* Selection and validation are separate steps: the payload of the entry   *)
(* that was selected is judged on what its own ELF header declares.        *)
(***************************************************************************)
PayloadRejected(e, target) ==
  /\ e.kind = "ELF"
  /\ e.elfArch # NoArch
  /\ \/ Generation(e.elfArch) # Generation(target.sm)
     \/ e.elfArch > target.sm
==============================================================================
