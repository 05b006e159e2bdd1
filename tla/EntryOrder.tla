----------------------------- MODULE EntryOrder ------------------------------
(***************************************************************************)
(* The preference order behind entry selection, as a relation.  The code   *)
(* never writes it down: would_execute, decide and the explorer page each  *)
(* compute with it in their own way, and are compared with it.             *)
(***************************************************************************)
EXTENDS FatbinEntries

(***************************************************************************)
(* The four ranking levels, each consulted only when the one above ties:   *)
(* kind, architecture, flag bit 24 among cubins, position.  Position       *)
(* prefers the first entry, except among PTX entries, where the last wins. *)
(***************************************************************************)
BetterKind(e, f) == KindRank[e.kind] > KindRank[f.kind]

SameKind(e, f) == KindRank[e.kind] = KindRank[f.kind]

BetterArch(e, f) == SameKind(e, f) /\ e.arch > f.arch

SameArch(e, f) == SameKind(e, f) /\ e.arch = f.arch

BetterFlag(e, f) ==
  SameArch(e, f) /\ e.kind = "ELF" /\ ~Deprioritised(e) /\ Deprioritised(f)

TiedUpToOrder(e, f) ==
  SameArch(e, f) /\ (e.kind = "ELF" => (Deprioritised(e) <=> Deprioritised(f)))

BetterPosition(i, j, kind) == IF kind = "PTX" THEN i > j ELSE i < j

(***************************************************************************)
(* Preferred whatever the positions are, and preferred all told.           *)
(***************************************************************************)
BetterByContent(e, f) == BetterKind(e, f) \/ BetterArch(e, f) \/ BetterFlag(e, f)

Outranks(c, i, j) ==
  \/ BetterByContent(c[i], c[j])
  \/ TiedUpToOrder(c[i], c[j]) /\ BetterPosition(i, j, c[i].kind)

BestOf(c, pool, i) == i \in pool /\ \A j \in pool \ {i} : Outranks(c, i, j)
==============================================================================
