--------------------------- MODULE MCContainerEdit ---------------------------
(***************************************************************************)
(* The buffers of MCContainerWalk, only read; and two-entry containers     *)
(* that are edited and read again: their first entry takes every odd shape *)
(* a walk can meet, their size ends on an entry boundary, inside an entry, *)
(* inside a header, past the buffer, or is negative or shortened by the    *)
(* truncation; one is empty, one has no magic.  ELF headers stand where    *)
(* the first payload begins.                                               *)
(***************************************************************************)
EXTENDS ContainerEdit, MCContainerWalk

WithElf(im, elf) == [k \in DOMAIN im \cup {"elf"} |-> IF k = "elf" THEN elf ELSE im[k]]

OnlyRead == {WithElf(im, {}) : im \in MCImages}

FirstHeaders == {H("ELF", 4, 4), H("ELF", 4, 3), H("ELF", 5, 4), H(BadKind, 4, 4),
                 H("ELF", 3, 5), H("ELF", 0, 0), H("ELF", 20, 0)}

File(len, magic, size, h) ==
  WithElf([len |-> len, magic |-> magic, first |-> 1, size |-> size,
           header |-> Chain(len, h, H("PTX", 4, 1), H(BadKind, 4, 0))],
          {1 + h.size})

MCOriginals ==
  {File(14, TRUE, size, h) : size \in {6, 8, 10, 13, 20, 29, 45}, h \in FirstHeaders}
  \cup {File(len, magic, 13, H("ELF", 4, 4)) : len \in {0, 7, 10}, magic \in BOOLEAN}

Sources == {File(6, TRUE, 5, H("PTX", 4, 1)), File(5, TRUE, 5, H("PTX", 4, 4)),
            File(5, TRUE, 3, H("PTX", 4, 1)), File(6, FALSE, 5, H("PTX", 4, 1)),
            File(0, TRUE, 5, H("PTX", 4, 1))}

MCEditImages == OnlyRead \cup MCOriginals \cup Sources

By(n) == [relative |-> TRUE, value |-> n]

To(n) == [relative |-> FALSE, value |-> n]

Resized(append, raw, entry, padded, size) ==
  [tool |-> "patch_size", entry |-> entry, append |-> append, raw |-> raw,
   padded |-> padded, size |-> size]

MCEdits ==
  [tool : {"patch_entry"}, entry : -1..2]
  \cup [tool : {"patch_arch"}, entry : -1..2, header : BOOLEAN, elf : BOOLEAN]
  \cup {Resized(src, 0, 0, Unchanged, size) :
          src \in Sources \cup {NoFile}, size \in {Unchanged, By(1), By(-9), To(7)}}
  \cup {Resized(NoFile, raw, entry, padded, size) :
          raw \in {0, 2}, entry \in -1..2,
          padded \in {To(0), To(128), By(2), By(-4)},
          size \in {Unchanged, By(1)}}
  \cup {Resized(src, 0, 1, By(2), By(8)) : src \in Sources}

MCUnknown == {H(BadKind, 4, 0), H("ELF", 4, 0), H(BadKind, 0, 0)}
==============================================================================
