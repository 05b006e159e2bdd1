--------------------------- MODULE MCContainerWalk ---------------------------
(***************************************************************************)
(* Buffers that hold a chain of up to three interesting headers, each at   *)
(* the offset the stride of the one before it leads to, with headers of no *)
(* entry kind everywhere else; and buffers where every other offset reads  *)
(* as an entry, so that a wrong stride finds one.  Container sizes cover   *)
(* zero, an end inside an entry, an end on an entry boundary, past the     *)
(* buffer, negative once truncated, and positive only because the upper    *)
(* bits are discarded.                                                     *)
(***************************************************************************)
EXTENDS ContainerWalk

H(kind, size, padded) == [kind |-> kind, size |-> size, padded |-> padded]

Headers == {H(kind, size, padded) :
              kind \in {"ELF", BadKind}, size \in {0, 1, 4, 5, 20}, padded \in {0, 1, 4, 25}}

LastHeaders == {H("PTX", 4, 1), H(BadKind, 4, 0)}

Reach(h) == h.size + h.padded

Chain(len, h1, h2, h3) ==
  [p \in HeaderOffsets(len) |->
     IF p = 1 THEN h1
     ELSE IF p = 1 + Reach(h1) THEN h2
     ELSE IF p = 1 + Reach(h1) + Reach(h2) THEN h3
     ELSE H(BadKind, 4, 0)]

Buffer(len, magic, size, header) ==
  [len |-> len, magic |-> magic, first |-> 1, size |-> size, header |-> header]

MCImages ==
  {Buffer(len, TRUE, size, Chain(len, h1, h2, h3)) :
     len \in {9, 13}, size \in {4, 8, 12}, h1 \in Headers, h2 \in Headers,
     h3 \in LastHeaders}
  \cup {Buffer(13, TRUE, size, Chain(13, h1, h2, H("PTX", 4, 1))) :
          size \in {0, 1, 16, 28, 32, 40}, h1 \in Headers,
          h2 \in {H("ELF", 4, 0), H("ELF", 4, 4)}}
  \cup {Buffer(13, TRUE, size, [p \in HeaderOffsets(13) |->
                                 IF p = 1 THEN h1 ELSE H("PTX", 4, 0)]) :
          size \in {8, 12}, h1 \in Headers}
  \cup {Buffer(len, magic, 8, [p \in HeaderOffsets(len) |-> H("ELF", 4, 0)]) :
          len \in {0, 1, 4, 5, 13}, magic \in BOOLEAN}

(***************************************************************************)
(* A second header one unit short of the fixed size, with a live cubin     *)
(* behind it.                                                              *)
(***************************************************************************)
MCShortHeader ==
  {Buffer(17, TRUE, 15, Chain(17, H("ELF", 4, 1), H("ELF", 3, 2), H("ELF", 4, 1)))}
==============================================================================
