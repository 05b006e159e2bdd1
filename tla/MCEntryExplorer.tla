--------------------------- MODULE MCEntryExplorer ---------------------------
(***************************************************************************)
(* Three of the page's four places, which is what an incumbent that beats  *)
(* one entry and loses to another takes; kinds of every rank and one of    *)
(* none; numbers older than the GPU, out of range, and no number at all.   *)
(* Bit 16 comes with the preset that sets it, on an entry edited further.  *)
(***************************************************************************)
EXTENDS EntryExplorer

MCKinds == {"PTX", "ELF", "MERCURY", "TILEIR"}

MCArchs == {86, 0, 1000}

MCBits == {24}
==============================================================================
