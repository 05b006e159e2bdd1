--------------------------- MODULE MCPayloadExtent ---------------------------
(***************************************************************************)
(* Payloads of up to four units.  Raw bytes with the first NUL anywhere    *)
(* and ELFs that reach less far than, as far as and further than the       *)
(* padded size and the buffer; encoded bytes under right, wrong, missing   *)
(* and contradictory flags, with the stream length right, short, long and  *)
(* absent, zstd frames that state their content size and that do not, and  *)
(* every combination of installed modules.                                 *)
(***************************************************************************)
EXTENDS PayloadExtent

Elf(tables, contents, nobits, segments, arch) ==
  [tables |-> tables, contents |-> contents, nobits |-> nobits,
   segments |-> segments, arch |-> arch]

Elves == {Elf(2, 1, 0, 0, 86), Elf(1, 2, 3, 2, 80), Elf(1, 3, 0, 3, NoArch),
          Elf(4, 2, 0, 0, 86), Elf(1, 1, 0, 3, 86)}

Raw(kind, flags, padded, stream, avail, nul, elf) ==
  [kind |-> kind, arch |-> 86, flags |-> flags, padded |-> padded,
   stream |-> stream, uncompressed |-> 0, avail |-> avail, packing |-> "raw",
   frame |-> 0, sized |-> FALSE, nul |-> nul,
   code |-> [len |-> avail, nul |-> nul, elf |-> elf],
   installed |-> {"zstandard", "lz4"}]

RawInputs ==
  UNION {{Raw(kind, flags, padded, stream, avail, nul, elf) :
            kind \in {"PTX", "RELOC_PTX", "ELF", "MERCURY"},
            flags \in {{}, {12}, {13}, {15}, {16}}, padded \in 0..4,
            stream \in {0, 1}, nul \in 0..avail, elf \in IF avail = 0 THEN {NotELF} ELSE Elves \cup {NotELF}} :
         avail \in 0..3}

Encoded(packing, sized, kind, flags, padded, stream, uncompressed, avail, code, installed) ==
  [kind |-> kind, arch |-> 86, flags |-> flags, padded |-> padded,
   stream |-> stream, uncompressed |-> uncompressed, avail |-> avail,
   packing |-> packing, frame |-> 2, sized |-> sized, nul |-> AtMost(1, avail), code |-> code,
   installed |-> installed]

\* A raw LZ4 block states no size.
Packings == {<<"zstd", TRUE>>, <<"zstd", FALSE>>, <<"lz4", FALSE>>}

Codes == {[len |-> 3, nul |-> nul, elf |-> NotELF] : nul \in {0, 2, 3}}
         \cup {[len |-> 3, nul |-> 1, elf |-> elf] :
                 elf \in {Elf(2, 3, 0, 0, 80), Elf(2, 1, 0, 0, 86)}}

EncodedInputs ==
  {Encoded(packing[1], packing[2], kind, flags, padded, stream, uncompressed, avail, code, installed) :
     packing \in Packings, kind \in {"PTX", "ELF"},
     flags \in {{}, {12}, {13}, {14}, {15}, {13, 15}, {15, 16}},
     padded \in {0, 2, 3}, stream \in {0, 1, 2, 3}, uncompressed \in {0, 3, 4},
     avail \in {1, 3}, code \in Codes,
     installed \in SUBSET {"zstandard", "lz4"}}

MCInputs == RawInputs \cup EncodedInputs
==============================================================================
