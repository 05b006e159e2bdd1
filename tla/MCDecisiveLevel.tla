--------------------------- MODULE MCDecisiveLevel ---------------------------
(***************************************************************************)
(* Containers of up to four entries: three of the kind that ties, so that  *)
(* every level can be the one that decides, plus outsiders.                *)
(***************************************************************************)
EXTENDS DecisiveLevel

E(kind, arch, flags) ==
  [kind |-> kind, arch |-> arch, flags |-> flags, elfArch |-> NoArch]

MCEntries == {E("ELF", arch, flags) : arch \in {80, 86}, flags \in {{}, {24}}}
             \cup {E("MERCURY", 86, {}), E("PTX", 75, {}), E("PTX", 86, {24}),
                   E("ELF", 75, {}), E("LTO_IR", 86, {})}

MCContainers == UNION {[1..n -> MCEntries] : n \in 0..4}

MCTargets == {[sm |-> 86, suffix |-> ""]}
==============================================================================
