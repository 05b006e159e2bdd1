------------------------- MODULE MCDivergenceMatrix -------------------------
(***************************************************************************)
(* Two rows, the second of which forces the JIT, over every pair of small  *)
(* containers: cubin and PTX of either variant, edited payloads, a winner  *)
(* the driver refuses, an obfuscated one, payloads that name nothing or    *)
(* the wrong thing.  One plain host and hosts that differ from it in one   *)
(* respect, under a faithful driver and under any other.                   *)
(***************************************************************************)
EXTENDS DivergenceMatrix

P(kind, arch, form, digest, marks, runs) ==
  [kind |-> kind, arch |-> arch, flags |-> {}, elfArch |-> NoArch,
   form |-> form, digest |-> digest, marks |-> marks, runs |-> runs]

A == "variant_a"
B == "variant_b"

CubinA == P("ELF", 86, "elf", A, {A}, A)
EditedB == P("ELF", 86, "elf", "unlisted", {B}, B)
RejectedA == [CubinA EXCEPT !.elfArch = 75]
PtxA == P("PTX", 86, "text", "unlisted", {A}, A)
PtxB == P("PTX", 75, "text", "unlisted", {B}, B)
ObfuscatedA == [PtxA EXCEPT !.flags = {16}, !.marks = {}]
Mute == P("ELF", 80, "elf", "unlisted", {}, "untouched")
Decoy == P("PTX", 80, "text", "unlisted", {A, B}, B)
Empty == P("PTX", 80, "none", "unlisted", {}, "other")
Newer == [CubinA EXCEPT !.arch = 89]

MCFiles == {"f", "g"}

MCCases == <<[file |-> "f", forced |-> FALSE], [file |-> "g", forced |-> TRUE]>>

Contents == {<<CubinA>>, <<PtxA, EditedB>>, <<EditedB, CubinA>>, <<RejectedA, CubinA>>,
             <<PtxB, PtxA, CubinA>>, <<ObfuscatedA>>, <<Decoy>>, <<Empty, Mute>>,
             <<Newer>>}

MCCorpora == [MCFiles -> Contents \cup {Absent, Broken}]

Plain == [gpu |-> [sm |-> 86, suffix |-> ""], asked |-> 86, path |-> {},
          forced |-> FALSE, cached |-> "nothing", faithful |-> TRUE, built |-> TRUE]

MCHosts == {Plain,
            [Plain EXCEPT !.cached = A], [Plain EXCEPT !.cached = B],
            [Plain EXCEPT !.forced = TRUE], [Plain EXCEPT !.path = {A}],
            [Plain EXCEPT !.path = {B}],
            [Plain EXCEPT !.asked = 89], [Plain EXCEPT !.gpu.suffix = "a"],
            [Plain EXCEPT !.faithful = FALSE], [Plain EXCEPT !.built = FALSE],
            [Plain EXCEPT !.faithful = FALSE, !.cached = B]}
==============================================================================
