------------------------- MODULE MCContainerDiscovery -------------------------
(***************************************************************************)
(* Files of up to three units with two wrapper records and a section that  *)
(* may start late, end early, run past the end of the file or be missing.  *)
(***************************************************************************)
EXTENDS ContainerDiscovery

Hdr(magic, first, size, reach) ==
  [magic |-> magic, first |-> first, size |-> size, reach |-> reach]

\* No magic; both sizes zero; no room for entries; one unit of it; and a size
\* that leads past the file.
MCHeaders == {Hdr(FALSE, 0, 0, 0), Hdr(TRUE, 0, 0, 0), Hdr(TRUE, 1, 0, 0),
              Hdr(TRUE, 1, 1, 0), Hdr(TRUE, 1, 5, 0)}

NotELF == [shape : Shapes \ {"ELF", "container"}, len : {1},
           header : [0..0 -> {Hdr(FALSE, 0, 0, 0)}], sections : {<<>>},
           wrappers : {<<>>}, fatbin : {[off |-> NoOffset, size |-> 0]}]

\* A container alone, and one cut short of its header.
Raw == UNION {[shape : {"container"}, len : {n},
               header : [0..(n - 1) -> {Hdr(TRUE, 1, 0, 0)}],
               sections : {<<>>}, wrappers : {<<>>},
               fatbin : {[off |-> NoOffset, size |-> 0]}] : n \in {0, 1}}

\* .nv_fatbin mapped at address 5, or, in a relocatable object, nowhere.
Mapped(a) == <<[addr |-> a, size |-> 4, off |-> 0]>>

MCWrapper == {[valid |-> TRUE, data |-> 0], [valid |-> TRUE, data |-> 5],
              [valid |-> TRUE, data |-> 6], [valid |-> TRUE, data |-> 8],
              [valid |-> FALSE, data |-> 5]}

MCWrappers == {<<>>} \cup {<<w>> : w \in MCWrapper}
              \cup {<<v, w>> : v, w \in {u \in MCWrapper : u.valid}}

MCFatbin == {[off |-> 0, size |-> 2], [off |-> 0, size |-> 4],
             [off |-> 1, size |-> 2], [off |-> NoOffset, size |-> 0]}

ELF(a, wrappers) ==
  [shape : {"ELF"}, len : {3}, header : [0..2 -> MCHeaders],
   sections : {Mapped(a)}, wrappers : wrappers, fatbin : MCFatbin]

MCFiles == NotELF \cup Raw \cup ELF(5, MCWrappers)
           \cup ELF(0, {<<>>} \cup {<<w>> : w \in MCWrapper})

\* A container of five units whose one entry, four of header and two of
\* payload, starts inside and ends one unit past it; the payload's second
\* unit begins with a container's magic.
MCCrossingEntry ==
  {[shape |-> "ELF", len |-> 8,
    header |-> [p \in 0..7 |-> IF p = 0 THEN Hdr(TRUE, 1, 5, 6)
                               ELSE IF p = 6 THEN Hdr(TRUE, 1, 1, 0)
                               ELSE Hdr(FALSE, 0, 0, 0)],
    sections |-> <<>>, wrappers |-> <<>>, fatbin |-> [off |-> 0, size |-> 8]]}
==============================================================================
