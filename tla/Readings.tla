------------------------------ MODULE Readings -------------------------------
(***************************************************************************)
(* The readings of a container that the report and the harness compare:    *)
(* what the rule selects, and what three conventional scanners say will    *)
(* run.  A reading is the set of the index it names, empty for None.  The  *)
(* scanners search the entries in file order; none looks at suffixes, at   *)
(* generations or at the rank of a kind.                                   *)
(***************************************************************************)
EXTENDS EntryOrder

Selected(c, target, policy) ==
  {i \in DOMAIN c : BestOf(c, Pool(c, target, policy), i)}

Earliest(s) == {i \in s : \A j \in s : i <= j}

NotNewer(c, sm) == {i \in DOMAIN c : c[i].arch <= sm}

FirstMatch(c, sm) == Earliest(NotNewer(c, sm))

OfTheGPU(c, sm) == {i \in DOMAIN c : c[i].arch = sm}

ExactArch(c, sm) ==
  IF OfTheGPU(c, sm) = {} THEN FirstMatch(c, sm) ELSE Earliest(OfTheGPU(c, sm))

ReadablePTX(c, sm) == {i \in NotNewer(c, sm) : c[i].kind = "PTX"}

PreferPTX(c, sm) ==
  IF ReadablePTX(c, sm) = {} THEN FirstMatch(c, sm) ELSE Earliest(ReadablePTX(c, sm))

Scanners == {"first-match", "exact-arch", "prefer-PTX"}

Reading(scanner, c, sm) ==
  CASE scanner = "first-match" -> FirstMatch(c, sm)
    [] scanner = "exact-arch"  -> ExactArch(c, sm)
    [] scanner = "prefer-PTX"  -> PreferPTX(c, sm)
==============================================================================
