---------------------------- MODULE PayloadExtent ----------------------------
(***************************************************************************)
(* Entry.__init__: which bytes the parser hashes for an entry, and which   *)
(* notes it leaves where they differ from the bytes the header declares.   *)
(*                                                                         *)
(* Sizes are in units of 64 bytes, the size of an ELF header.  Bytes are   *)
(* abstracted to where they come from and how many there are: a prefix of  *)
(* what the buffer holds at the payload, or of what decoding it yields.    *)
(* The strings of the header (read_strings) are left out.                  *)
(***************************************************************************)
EXTENDS FatbinEntries

CONSTANTS Inputs,    \* entry headers, with what the buffer holds behind them
          NotELF,    \* the elf field of bytes that do not start with the ELF magic
          MinHint,   \* 1024 bytes, in units: the least size hint given to LZ4
          Growth,    \* 2^7: what its eight attempts multiply the hint by
          MaxOutput  \* 2^26 bytes, in units: the least output zstd may make

(***************************************************************************)
(* What an ELF says of its own extent: the end of its header tables, of    *)
(* its last section with contents (of the first 512), of its last          *)
(* SHT_NOBITS section and of its last segment; and the architecture in     *)
(* e_flags, NoArch where the ABI version is not one the code knows.        *)
(***************************************************************************)
ELF == [tables : Nat, contents : Nat, nobits : Nat, segments : Nat,
        arch : Nat \cup {NoArch}]

IsInput(in) ==
  /\ in.kind \in Kinds /\ in.arch \in Nat /\ in.flags \subseteq FlagBits
  /\ {in.padded, in.stream, in.uncompressed, in.avail, in.frame} \subseteq Nat
  /\ in.packing \in {"raw", "zstd", "lz4"}   \* how the bytes are encoded
  /\ in.sized \in BOOLEAN                    \* the frame states its content size
  /\ in.nul \in 0..in.avail                  \* the first NUL in the buffer
  /\ in.code.len \in Nat /\ in.code.nul \in 0..in.code.len
  /\ in.code.elf \in ELF \cup {NotELF}
  /\ in.code.elf # NotELF => in.code.len > 0   \* an ELF has a header
  /\ in.packing = "raw" => in.code.len = in.avail /\ in.code.nul = in.nul
  /\ in.packing # "raw" => in.frame > 0
  /\ in.installed \subseteq {"zstandard", "lz4"}

ASSUME InputsAssumption == \A in \in Inputs : IsInput(in)
ASSUME HintAssumption == MinHint \in Nat /\ Growth \in Nat \ {0}
ASSUME MaxOutputAssumption == MaxOutput \in Nat
ASSUME NotELFAssumption == NotELF \notin ELF

VARIABLES in,        \* the header, the bytes behind it, the installed modules
          pc,        \* "slice", "decode", "extent", "arch", "done"
          stored,    \* stored_payload
          declared,  \* declared_payload
          payload,   \* the bytes that are hashed
          elfArch,
          notes

vars == <<in, pc, stored, declared, payload, elfArch, notes>>

Nothing == [of |-> "nothing", len |-> 0]

Prefix(of, n) == IF n = 0 THEN Nothing ELSE [of |-> of, len |-> n]

Bytes == {Nothing} \cup [of : {"stored", "code"}, len : Nat \ {0}]

AtMost(m, n) == IF m < n THEN m ELSE n

AtLeast(m, n) == IF m > n THEN m ELSE n

Noting(condition, note) == IF condition THEN {note} ELSE {}

Init == /\ in \in Inputs
        /\ pc = "slice"
        /\ stored = Nothing /\ declared = Nothing /\ payload = Nothing
        /\ elfArch = NoArch
        /\ notes = {}

------------------------------------------------------------------------------
Obfuscated == 16 \in in.flags
Zstd       == 15 \in in.flags
LZ4        == in.flags \cap {13, 14} # {}
Zlib       == 12 \in in.flags

StoredCompressed == Zstd \/ LZ4 \/ Zlib \/ in.stream # 0

\* Mutant: the payload is as long as the padded size says.
StoredLengthMutant == in.padded

StoredLength == AtLeast(in.padded, in.stream)

SliceStored ==
  /\ pc = "slice"
  /\ stored' = Prefix("stored", AtMost(StoredLength, in.avail))
  /\ notes' = Noting(Obfuscated, "obfuscated")
              \cup Noting(in.stream > in.padded, "stream past padded size")
              \cup Noting(stored'.len < StoredLength, "truncated")
  /\ pc' = "decode"
  /\ UNCHANGED <<in, declared, payload, elfArch>>

------------------------------------------------------------------------------
(***************************************************************************)
(* decompress, one action per branch in the order it tries them.           *)
(***************************************************************************)
ZstdMagic == stored # Nothing /\ in.packing = "zstd"

Unreadable == stored = Nothing \/ Obfuscated

TakenForLZ4 == LZ4 \/ (in.stream # 0 /\ ~Zstd /\ ~ZstdMagic /\ ~Zlib)

TakenForZlib == ~TakenForLZ4 /\ Zlib /\ ~Zstd

TakenForRaw == ~TakenForLZ4 /\ ~TakenForZlib /\ ~Zstd /\ ~ZstdMagic

TakenForZstd == ~TakenForLZ4 /\ ~TakenForZlib /\ ~TakenForRaw

Fed == IF in.stream = 0 THEN stored.len ELSE AtMost(in.stream, stored.len)

HintCovers == in.code.len <= AtLeast(MinHint, in.uncompressed) * Growth

\* The zstd module asks max_output_size only of a frame that states no size.
CapCovers == in.sized \/ in.code.len <= AtLeast(MaxOutput, in.uncompressed)

(***************************************************************************)
(* The two codecs are libraries.  A raw LZ4 block admits no trailing byte; *)
(* whether a zstd frame does depends on the version of the module.         *)
(***************************************************************************)
LZ4Outcomes == {in.packing = "lz4" /\ Fed = in.frame /\ HintCovers}

ZstdOutcomes == IF in.packing = "zstd" /\ CapCovers /\ Fed > in.frame THEN BOOLEAN
                ELSE {in.packing = "zstd" /\ CapCovers /\ Fed = in.frame}

Decoded(result, note) ==
  /\ pc = "decode"
  /\ declared' = result
  /\ notes' = notes \cup note
  /\ pc' = "extent"
  /\ UNCHANGED <<in, stored, payload, elfArch>>

DecodeNothing == /\ Unreadable
                 /\ Decoded(Nothing, {})

Decompress(module, outcomes, failure) ==
  \/ /\ module \notin in.installed
     /\ Decoded(Nothing, {"module missing"})
  \/ /\ module \in in.installed
     /\ TRUE \in outcomes
     /\ Decoded(Prefix("code", in.code.len),
                Noting(in.uncompressed \notin {0, in.code.len}, "size mismatch"))
  \/ /\ module \in in.installed
     /\ FALSE \in outcomes
     /\ Decoded(Nothing, failure)

\* Mutant: all eight attempts fail and nothing is said.
DecodeLZ4Mutant == /\ ~Unreadable /\ TakenForLZ4
                   /\ Decompress("lz4", LZ4Outcomes, {})

DecodeLZ4 == /\ ~Unreadable /\ TakenForLZ4
             /\ Decompress("lz4", LZ4Outcomes, {"decompression failed"})

SkipZlib == /\ ~Unreadable /\ TakenForZlib
            /\ Decoded(Nothing, {"zlib"})

KeepRaw == /\ ~Unreadable /\ TakenForRaw
           /\ Decoded(stored, {})

DecodeZstd == /\ ~Unreadable /\ TakenForZstd
              /\ Decompress("zstandard", ZstdOutcomes, {"decompression failed"})

------------------------------------------------------------------------------
(***************************************************************************)
(* elf_extent of the buffer at the payload, over the headers of the ELF    *)
(* itself; NoExtent is its None.                                           *)
(***************************************************************************)
NoExtent == -1

Reach(elf) == AtLeast(1, AtLeast(elf.tables, elf.contents))

ElfExtent ==
  IF in.avail = 0 \/ in.packing # "raw" \/ in.code.elf = NotELF THEN NoExtent
  ELSE IF Reach(in.code.elf) > in.avail THEN NoExtent
  ELSE Reach(in.code.elf)

GapNotes(extent) ==
  Noting(extent > in.padded, "reads past padded size")
  \cup Noting(extent < in.padded, "padded size past what is read")

Resolved(result, note) ==
  /\ pc = "extent"
  /\ payload' = result
  /\ notes' = notes \cup note
  /\ pc' = "arch"
  /\ UNCHANGED <<in, stored, declared, elfArch>>

IsText == in.kind \in {"PTX", "RELOC_PTX"}

CutText == /\ ~Obfuscated /\ IsText /\ StoredCompressed
           /\ Resolved(Prefix(declared.of, AtMost(declared.len, in.code.nul)), {})

ReadText == /\ ~Obfuscated /\ IsText /\ ~StoredCompressed
            /\ Resolved(Prefix("stored", in.nul), GapNotes(in.nul))

IsRawELF == in.kind = "ELF" /\ ~StoredCompressed

\* Mutant: the shorter extent is taken over and not noted.
FollowELFMutant == /\ ~Obfuscated /\ IsRawELF
                   /\ ElfExtent \notin {NoExtent, in.padded}
                   /\ Resolved(Prefix("stored", AtMost(ElfExtent, in.avail)),
                               Noting(ElfExtent > in.padded, "reads past padded size"))

\* Mutant: the extent is used without asking whether there is one.
FollowNoELFMutant == /\ ~Obfuscated /\ IsRawELF
                     /\ ElfExtent # in.padded
                     /\ Resolved(Prefix("stored", AtMost(ElfExtent, in.avail)),
                                 GapNotes(ElfExtent))

FollowELF == /\ ~Obfuscated /\ IsRawELF
             /\ ElfExtent \notin {NoExtent, in.padded}
             /\ Resolved(Prefix("stored", AtMost(ElfExtent, in.avail)),
                         GapNotes(ElfExtent))

KeepDeclared == /\ \/ Obfuscated
                   \/ ~IsText /\ ~IsRawELF
                   \/ ~IsText /\ ElfExtent \in {NoExtent, in.padded}
                /\ Resolved(declared, {})

------------------------------------------------------------------------------
(***************************************************************************)
(* read_elf_arch, of the bytes that were hashed and not of the buffer.     *)
(***************************************************************************)
StartsAsELF(b) ==
  /\ b # Nothing /\ in.code.elf # NotELF
  /\ b.of = "stored" => in.packing = "raw"

ReadElfArch ==
  /\ pc = "arch"
  /\ elfArch' = IF StartsAsELF(payload) THEN in.code.elf.arch ELSE NoArch
  /\ notes' = notes \cup Noting(elfArch' \notin {NoArch, in.arch},
                                "architecture disagreement")
  /\ pc' = "done"
  /\ UNCHANGED <<in, stored, declared, payload>>

Next == \/ SliceStored
        \/ DecodeNothing \/ DecodeLZ4 \/ SkipZlib \/ KeepRaw \/ DecodeZstd
        \/ CutText \/ ReadText \/ FollowELF \/ KeepDeclared
        \/ ReadElfArch

Spec == Init /\ [][Next]_vars

------------------------------------------------------------------------------
(***************************************************************************)
(* The driver, as analysis/declared-versus-executed.md measured it: raw    *)
(* PTX to the first NUL, a raw ELF to the extent its headers describe, as  *)
(* far as the bytes are present, and a compressed entry decoded over its   *)
(* stream length.  Nothing is known of other kinds, nor of a header whose  *)
(* flags and stream length do not describe the bytes.                      *)
(***************************************************************************)
HeaderMatchesBytes ==
  /\ in.packing = "raw"  => ~StoredCompressed
  /\ in.packing = "zstd" => Zstd /\ ~LZ4 /\ ~Zlib /\ in.stream = in.frame
  /\ in.packing = "lz4"  => LZ4 /\ ~Zstd /\ ~Zlib /\ in.stream = in.frame

DriverExtent(elf) == AtLeast(Reach(elf), elf.segments)

Understood == /\ ~Obfuscated /\ HeaderMatchesBytes
              /\ in.kind = "PTX" \/ (in.kind = "ELF" /\ in.code.elf # NotELF)

DriverReads ==
  IF in.packing = "raw"
  THEN Prefix("stored", IF in.kind = "PTX" THEN in.nul
                        ELSE AtMost(DriverExtent(in.code.elf), in.avail))
  ELSE Prefix("code", IF in.kind = "PTX" THEN in.code.nul ELSE in.code.len)

(***************************************************************************)
(* Two cases in which elf_extent is not the extent the driver follows: an  *)
(* ELF that describes more than the buffer holds, which it gives up on,    *)
(* and one whose segments reach further than tables and sections, which it *)
(* does not look at.                                                       *)
(***************************************************************************)
ExtentInReach ==
  (in.packing = "raw" /\ in.kind = "ELF") =>
    /\ DriverExtent(in.code.elf) <= in.avail
    /\ in.code.elf.segments <= Reach(in.code.elf)

Decodable ==
  /\ in.packing = "zstd" => "zstandard" \in in.installed /\ CapCovers
  /\ in.packing = "lz4"  => "lz4" \in in.installed /\ HintCovers
  /\ in.packing # "raw"  => in.frame <= in.avail

------------------------------------------------------------------------------
(***************************************************************************)
(* Bytes are one of the two sources or nothing, and notes those the code   *)
(* can write.                                                              *)
(***************************************************************************)
TypeOK ==
  /\ IsInput(in)
  /\ pc \in {"slice", "decode", "extent", "arch", "done"}
  /\ {stored, declared, payload} \subseteq Bytes
  /\ elfArch \in Nat \cup {NoArch}
  /\ notes \subseteq
       {"obfuscated", "stream past padded size", "truncated", "module missing",
        "size mismatch", "decompression failed", "zlib", "reads past padded size",
        "padded size past what is read", "architecture disagreement"}

(***************************************************************************)
(* "It hashes the extent the driver reads, not the declared payload"       *)
(* (README.md:260), whatever the padded size says and however the payload  *)
(* is compressed (resolve_extent, Entry.__init__).                         *)
(***************************************************************************)
HashesWhatTheDriverReads ==
  (pc = "done" /\ Understood /\ ExtentInReach /\ Decodable)
    => payload = DriverReads

(***************************************************************************)
(* The notes of resolve_extent say exactly in which direction a reader     *)
(* bounded by the padded size goes wrong, and are silent where it does not.*)
(***************************************************************************)
ExactlyTheGapsAreNoted ==
  (pc = "done" /\ Understood /\ ExtentInReach /\ in.packing = "raw")
    => /\ "reads past padded size" \in notes <=> DriverReads.len > in.padded
       /\ "padded size past what is read" \in notes <=> DriverReads.len < in.padded

(***************************************************************************)
(* An entry shown without a hash although the driver finds code in it, or  *)
(* without the architecture the driver will validate, carries a note: the  *)
(* reader of the report, and payload_rejected, which takes a missing       *)
(* architecture for an acceptable one, would otherwise trust a gap.        *)
(***************************************************************************)
WhatIsMissingIsExplained ==
  (pc = "done" /\ Understood /\ ExtentInReach) =>
    \/ notes \cap {"truncated", "module missing", "decompression failed"} # {}
    \/ /\ DriverReads # Nothing => payload # Nothing
       /\ in.kind = "ELF" => elfArch = in.code.elf.arch
==============================================================================
