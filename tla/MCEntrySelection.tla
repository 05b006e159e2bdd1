-------------------------- MODULE MCEntrySelection ---------------------------
(***************************************************************************)
(* Containers of up to four entries around an sm_86 GPU: cubins of two     *)
(* architectures of its generation with and without bit 24, one of an      *)
(* older generation, one newer than the GPU, one with an architecture      *)
(* suffix, both other ranked kinds, a kind that is never selected, and a   *)
(* cubin whose payload is of an older generation than its entry says.      *)
(***************************************************************************)
EXTENDS SelectionReport

E(kind, arch, flags) ==
  [kind |-> kind, arch |-> arch, flags |-> flags, elfArch |-> NoArch]

Cubins == {E("ELF", arch, flags) : arch \in {80, 86}, flags \in {{}, {24}}}

Others == {E("MERCURY", 80, {}), E("MERCURY", 86, {24}),
           E("PTX", 75, {24}), E("PTX", 86, {})}

NeverCandidates == {E("ELF", 75, {}), E("ELF", 86, {20}), E("ELF", 89, {}),
                    E("PTX", 89, {}), E("LTO_IR", 86, {})}

\* selected like any other, and refused when its payload is read
Refused == {[E("ELF", 86, {}) EXCEPT !.elfArch = 75]}

MCContainers ==
  UNION {[1..n -> Cubins \cup Others \cup NeverCandidates \cup Refused] : n \in 0..3}
  \cup [1..4 -> Cubins \cup Others]

MCTargets == {[sm |-> 86, suffix |-> ""]}
==============================================================================
