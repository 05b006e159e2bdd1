------------------------- MODULE PayloadExtentProofs -------------------------
(***************************************************************************)
(* Theorems about PayloadExtent: the bytes hashed are the bytes the driver *)
(* reads, for every header and every buffer behind it.                     *)
(*                                                                         *)
(* The argument goes along the assignments of Entry.__init__: each of the  *)
(* three byte strings has a closed form once it is computed, and the last  *)
(* one, for the entries whose reading by the driver is known, is what the  *)
(* driver reads.                                                           *)
(***************************************************************************)
EXTENDS PayloadExtent, TLAPS

InputOK == in \in Inputs

StoredKnown ==
  pc # "slice" => stored = Prefix("stored", AtMost(StoredLength, in.avail))

(***************************************************************************)
(* What decoding yields, when it must succeed.                             *)
(***************************************************************************)
DeclaredKnown ==
  (pc \in {"extent", "arch", "done"} /\ Understood /\ Decodable)
    => declared = IF in.packing = "raw" THEN stored
                  ELSE Prefix("code", in.code.len)

PayloadKnown ==
  (pc \in {"arch", "done"} /\ Understood /\ ExtentInReach /\ Decodable)
    => payload = DriverReads

Inv == /\ InputOK
       /\ pc \in {"slice", "decode", "extent", "arch", "done"}
       /\ StoredKnown /\ DeclaredKnown /\ PayloadKnown

------------------------------------------------------------------------------
LEMMA InputFacts ==
  ASSUME InputOK
  PROVE  IsInput(in)
BY InputsAssumption DEF InputOK

(***************************************************************************)
(* A compressed entry as fatbinary writes it goes to the decoder of its    *)
(* scheme, over exactly its stream, whatever the padded size says.         *)
(***************************************************************************)
LEMMA StreamIsFed ==
  ASSUME InputOK, StoredKnown, pc = "decode", Understood, Decodable,
         in.packing # "raw"
  PROVE  Fed = in.frame /\ ~Unreadable
<1>1. /\ in.stream = in.frame /\ in.frame \in Nat /\ in.frame > 0
      /\ in.frame <= in.avail /\ in.avail \in Nat /\ in.padded \in Nat
      /\ ~Obfuscated
  BY InputFacts DEF IsInput, Understood, HeaderMatchesBytes, Decodable
<1>2. /\ AtMost(StoredLength, in.avail) \in Nat
      /\ AtMost(StoredLength, in.avail) >= in.frame
  BY <1>1 DEF AtMost, AtLeast, StoredLength
<1>3. stored = [of |-> "stored", len |-> AtMost(StoredLength, in.avail)]
  BY <1>1, <1>2 DEF StoredKnown, Prefix
<1>4. stored.len >= in.frame /\ stored.len \in Nat /\ stored # Nothing
  BY <1>1, <1>2, <1>3 DEF Nothing
<1> QED
  BY <1>1, <1>4 DEF Fed, AtMost, Unreadable

LEMMA DecodesByItsFlag ==
  ASSUME InputOK, StoredKnown, pc = "decode", Understood, Decodable
  PROVE  /\ in.packing = "raw"  => ~TakenForLZ4 /\ ~TakenForZlib /\ ~TakenForZstd
         /\ in.packing = "zstd" => ~TakenForLZ4 /\ ~TakenForZlib /\ ~TakenForRaw
         /\ in.packing = "lz4"  => TakenForLZ4 /\ ~TakenForZlib /\ ~TakenForRaw
                                   /\ ~TakenForZstd
<1>1. in.packing \in {"raw", "zstd", "lz4"}
  BY InputFacts DEF IsInput
<1> QED
  BY <1>1 DEF Understood, HeaderMatchesBytes, StoredCompressed, TakenForLZ4,
              TakenForZlib, TakenForRaw, TakenForZstd, ZstdMagic

------------------------------------------------------------------------------
(***************************************************************************)
(* The steps.                                                              *)
(***************************************************************************)
LEMMA InitInv == Init => Inv
BY DEF Init, Inv, InputOK, StoredKnown, DeclaredKnown, PayloadKnown

LEMMA InputsKept ==
  ASSUME in' = in
  PROVE  /\ Understood' = Understood /\ Decodable' = Decodable
         /\ ExtentInReach' = ExtentInReach /\ DriverReads' = DriverReads
         /\ StoredLength' = StoredLength
BY DEF Understood, Decodable, ExtentInReach, DriverReads, StoredLength, HintCovers,
       CapCovers, HeaderMatchesBytes, Obfuscated, Zstd, LZ4, Zlib, StoredCompressed

LEMMA SliceKeeps == Inv /\ SliceStored => Inv'
<1> SUFFICES ASSUME Inv, SliceStored PROVE Inv'
  OBVIOUS
<1>1. in' = in /\ pc' = "decode"
      /\ stored' = Prefix("stored", AtMost(StoredLength, in.avail))
  BY DEF SliceStored
<1> QED
  BY <1>1, InputsKept DEF Inv, InputOK, StoredKnown, DeclaredKnown, PayloadKnown

Decode == DecodeNothing \/ DecodeLZ4 \/ SkipZlib \/ KeepRaw \/ DecodeZstd

LEMMA DecodeKeeps == Inv /\ Decode => Inv'
<1> SUFFICES ASSUME Inv, Decode PROVE Inv'
  OBVIOUS
<1>1. /\ pc = "decode" /\ pc' = "extent" /\ in' = in /\ stored' = stored
      /\ InputOK /\ StoredKnown
  BY DEF Decode, DecodeNothing, DecodeLZ4, SkipZlib, KeepRaw, DecodeZstd,
         Decompress, Decoded, Inv
<1>2. ASSUME Understood, Decodable
      PROVE  declared' = IF in.packing = "raw" THEN stored
                         ELSE Prefix("code", in.code.len)
  <2>1. CASE in.packing = "raw"
    <3>1. CASE DecodeNothing
      BY <2>1, <3>1, <1>2 DEF DecodeNothing, Decoded, Unreadable, Understood
    <3>2. CASE KeepRaw
      BY <2>1, <3>2 DEF KeepRaw, Decoded
    <3> QED
      BY <1>1, <1>2, <2>1, <3>1, <3>2, DecodesByItsFlag
         DEF Decode, DecodeLZ4, SkipZlib, DecodeZstd
  <2>2. CASE in.packing = "zstd"
    <3>1. ~Unreadable /\ Fed = in.frame
      BY <1>1, <1>2, <2>2, StreamIsFed
    <3>2. DecodeZstd
      BY <1>1, <1>2, <2>2, <3>1, DecodesByItsFlag
         DEF Decode, DecodeNothing, DecodeLZ4, SkipZlib, KeepRaw
    <3>3. in.frame \in Nat
      BY <1>1, InputFacts DEF IsInput
    <3>4. "zstandard" \in in.installed /\ CapCovers
      BY <1>2, <2>2 DEF Decodable
    <3>5. ZstdOutcomes = {in.packing = "zstd" /\ CapCovers /\ Fed = in.frame}
      BY <3>1, <3>3 DEF ZstdOutcomes
    <3>6. (in.packing = "zstd" /\ CapCovers /\ Fed = in.frame) = TRUE
      BY <2>2, <3>1, <3>4
    <3>7. ZstdOutcomes = {TRUE}
      BY <3>5, <3>6
    <3> QED
      BY <2>2, <3>2, <3>4, <3>7 DEF DecodeZstd, Decompress, Decoded
  <2>3. CASE in.packing = "lz4"
    <3>1. ~Unreadable /\ Fed = in.frame
      BY <1>1, <1>2, <2>3, StreamIsFed
    <3>2. DecodeLZ4
      BY <1>1, <1>2, <2>3, <3>1, DecodesByItsFlag
         DEF Decode, DecodeNothing, SkipZlib, KeepRaw, DecodeZstd
    <3>3. LZ4Outcomes = {TRUE} /\ "lz4" \in in.installed
      BY <1>2, <2>3, <3>1 DEF LZ4Outcomes, Decodable
    <3> QED
      BY <2>3, <3>2, <3>3 DEF DecodeLZ4, Decompress, Decoded
  <2>4. in.packing \in {"raw", "zstd", "lz4"}
    BY <1>1, InputFacts DEF IsInput
  <2> QED
    BY <2>1, <2>2, <2>3, <2>4
<1> QED
  BY <1>1, <1>2, InputsKept DEF Inv, InputOK, StoredKnown, DeclaredKnown, PayloadKnown

Resolve == CutText \/ ReadText \/ FollowELF \/ KeepDeclared

(***************************************************************************)
(* The extent the code follows is the driver's wherever ExtentInReach says *)
(* so, and where it equals the padded size the stored bytes are just that. *)
(***************************************************************************)
LEMMA ExtentIsTheDrivers ==
  ASSUME InputOK, Understood, ExtentInReach, in.packing = "raw", in.kind = "ELF"
  PROVE  /\ ElfExtent = DriverExtent(in.code.elf)
         /\ ElfExtent \in Nat /\ ElfExtent > 0 /\ ElfExtent <= in.avail
<1>1. in.code.elf \in ELF /\ in.avail \in Nat
  BY InputFacts DEF IsInput, Understood
<1>2. /\ in.code.elf.tables \in Nat /\ in.code.elf.contents \in Nat
      /\ in.code.elf.segments \in Nat
  BY <1>1 DEF ELF
<1>3. /\ Reach(in.code.elf) \in Nat /\ Reach(in.code.elf) > 0
      /\ DriverExtent(in.code.elf) = Reach(in.code.elf)
  BY <1>2 DEF Reach, DriverExtent, AtLeast, ExtentInReach
<1>4. Reach(in.code.elf) <= in.avail /\ in.avail # 0
  BY <1>1, <1>3 DEF ExtentInReach
<1> QED
  BY <1>1, <1>3, <1>4, NotELFAssumption DEF ElfExtent

LEMMA ResolveKeeps == Inv /\ Resolve => Inv'
<1> SUFFICES ASSUME Inv, Resolve PROVE Inv'
  OBVIOUS
<1>1. /\ pc = "extent" /\ pc' = "arch" /\ in' = in /\ stored' = stored
      /\ declared' = declared
      /\ InputOK /\ StoredKnown /\ DeclaredKnown /\ IsInput(in)
  BY InputFacts DEF Resolve, CutText, ReadText, FollowELF, KeepDeclared, Resolved, Inv
<1>2. ASSUME Understood, ExtentInReach, Decodable
      PROVE  payload' = DriverReads
  <2>1. /\ ~Obfuscated
        /\ in.packing = "raw" <=> ~StoredCompressed
        /\ in.kind = "PTX" \/ in.kind = "ELF"
    BY <1>1, <1>2 DEF Understood, HeaderMatchesBytes, IsInput, StoredCompressed
  <2>2. CASE in.kind = "PTX" /\ in.packing = "raw"
    <3>1. ReadText
      BY <2>1, <2>2 DEF Resolve, CutText, FollowELF, KeepDeclared, IsText, IsRawELF
    <3> QED
      BY <2>2, <3>1 DEF ReadText, Resolved, DriverReads
  <2>3. CASE in.kind = "PTX" /\ in.packing # "raw"
    <3>1. CutText
      BY <2>1, <2>3 DEF Resolve, ReadText, FollowELF, KeepDeclared, IsText, IsRawELF
    <3>2. payload' = Prefix(declared.of, AtMost(declared.len, in.code.nul))
      BY <3>1 DEF CutText, Resolved
    <3>3. declared = Prefix("code", in.code.len)
      BY <1>1, <1>2, <2>3 DEF DeclaredKnown
    <3>4. in.code.len \in Nat /\ in.code.nul \in 0..in.code.len
      BY <1>1 DEF IsInput
    <3>5. DriverReads = Prefix("code", in.code.nul)
      BY <2>3 DEF DriverReads
    <3> QED
      BY <3>2, <3>3, <3>4, <3>5 DEF Prefix, Nothing, AtMost
  <2>4. CASE in.kind = "ELF" /\ in.packing = "raw"
    <3>1. /\ ElfExtent = DriverExtent(in.code.elf)
          /\ ElfExtent \in Nat /\ ElfExtent > 0 /\ ElfExtent <= in.avail
      BY <1>1, <1>2, <2>4, ExtentIsTheDrivers
    <3>2. in.avail \in Nat /\ in.padded \in Nat /\ in.stream = 0
      BY <1>1, <2>1, <2>4 DEF IsInput, StoredCompressed
    <3>3. DriverReads = Prefix("stored", ElfExtent)
      BY <2>4, <3>1, <3>2 DEF DriverReads, AtMost
    <3>4. CASE FollowELF
      BY <3>1, <3>2, <3>3, <3>4 DEF FollowELF, Resolved, AtMost
    <3>5. CASE KeepDeclared
      <4>1. ElfExtent = in.padded /\ payload' = declared
        BY <2>1, <2>4, <3>1, <3>5 DEF KeepDeclared, Resolved, IsText, IsRawELF, NoExtent
      <4>2. declared = Prefix("stored", AtMost(StoredLength, in.avail))
        BY <1>1, <1>2, <2>4 DEF DeclaredKnown, StoredKnown
      <4>3. AtMost(StoredLength, in.avail) = in.padded
        BY <3>1, <3>2, <4>1 DEF StoredLength, AtLeast, AtMost
      <4> QED
        BY <3>3, <4>1, <4>2, <4>3
    <3> QED
      BY <2>4, <3>4, <3>5 DEF Resolve, CutText, ReadText, IsText
  <2>5. CASE in.kind = "ELF" /\ in.packing # "raw"
    <3>1. payload' = declared
      BY <2>1, <2>5 DEF Resolve, CutText, ReadText, FollowELF, KeepDeclared, Resolved,
                        IsText, IsRawELF
    <3> QED
      BY <1>1, <1>2, <2>5, <3>1 DEF DeclaredKnown, DriverReads
  <2> QED
    BY <2>1, <2>2, <2>3, <2>4, <2>5
<1> QED
  BY <1>1, <1>2, InputsKept DEF Inv, InputOK, StoredKnown, DeclaredKnown, PayloadKnown

LEMMA ArchKeeps == Inv /\ ReadElfArch => Inv'
<1> SUFFICES ASSUME Inv, ReadElfArch PROVE Inv'
  OBVIOUS
<1>1. /\ pc = "arch" /\ pc' = "done" /\ in' = in /\ stored' = stored
      /\ declared' = declared /\ payload' = payload
  BY DEF ReadElfArch
<1> QED
  BY <1>1, InputsKept DEF Inv, InputOK, StoredKnown, DeclaredKnown, PayloadKnown

LEMMA StutterKeeps == Inv /\ UNCHANGED vars => Inv'
<1> SUFFICES ASSUME Inv, UNCHANGED vars PROVE Inv'
  OBVIOUS
<1> QED
  BY InputsKept DEF vars, Inv, InputOK, StoredKnown, DeclaredKnown, PayloadKnown

------------------------------------------------------------------------------
(***************************************************************************)
(* The closed forms hold at every moment of Entry.__init__.                *)
(***************************************************************************)
THEOREM ExtentInvariant == Spec => []Inv
<1>1. Inv /\ [Next]_vars => Inv'
  BY SliceKeeps, DecodeKeeps, ResolveKeeps, ArchKeeps, StutterKeeps
     DEF Next, Decode, Resolve
<1> QED
  BY InitInv, <1>1, PTL DEF Spec

(***************************************************************************)
(* "It hashes the extent the driver reads, not the declared payload"       *)
(* (README.md:260), for every header, buffer, padded size and scheme the   *)
(* driver's reading is known of, where the ELF describes no more than is   *)
(* there.                                                                  *)
(***************************************************************************)
THEOREM HashedBytesAreTheDrivers == Spec => []HashesWhatTheDriverReads
<1>1. Inv => HashesWhatTheDriverReads
  BY DEF Inv, PayloadKnown, HashesWhatTheDriverReads
<1> QED
  BY ExtentInvariant, <1>1, PTL

------------------------------------------------------------------------------
(***************************************************************************)
(* The notes about the extent.  Nothing before resolve_extent writes one   *)
(* of them, and nothing after it.                                          *)
(***************************************************************************)
GapNote == {"reads past padded size", "padded size past what is read"}

GapsAsDriven ==
  (Understood /\ ExtentInReach /\ in.packing = "raw") =>
     /\ "reads past padded size" \in notes <=> DriverReads.len > in.padded
     /\ "padded size past what is read" \in notes <=> DriverReads.len < in.padded

NotesKnown == /\ pc \in {"slice", "decode", "extent"} => notes \cap GapNote = {}
              /\ pc \in {"arch", "done"} => GapsAsDriven

NotesInv == Inv /\ NotesKnown

LEMMA NotesFromSlicing == NotesInv /\ SliceStored => NotesKnown'
BY DEF SliceStored, NotesKnown, GapNote, Noting

LEMMA NotesFromDecoding == NotesInv /\ Decode => NotesKnown'
<1> SUFFICES ASSUME NotesInv, Decode PROVE NotesKnown'
  OBVIOUS
<1>1. notes \cap GapNote = {}
  BY DEF NotesInv, NotesKnown, Decode, DecodeNothing, DecodeLZ4, SkipZlib, KeepRaw,
         DecodeZstd, Decompress, Decoded
<1>2. PICK note : notes' = notes \cup note /\ note \cap GapNote = {} /\ pc' = "extent"
  BY DEF Decode, DecodeNothing, DecodeLZ4, SkipZlib, KeepRaw, DecodeZstd, Decompress,
         Decoded, Noting, GapNote
<1> QED
  BY <1>1, <1>2 DEF NotesKnown

LEMMA NotesFromResolving == NotesInv /\ Resolve => NotesKnown'
<1> SUFFICES ASSUME NotesInv, Resolve PROVE NotesKnown'
  OBVIOUS
<1>1. /\ pc = "extent" /\ pc' = "arch" /\ in' = in /\ InputOK /\ IsInput(in)
      /\ notes \cap GapNote = {}
  BY InputFacts DEF Resolve, CutText, ReadText, FollowELF, KeepDeclared, Resolved,
     NotesInv, Inv, NotesKnown
<1>2. ASSUME Understood, ExtentInReach, in.packing = "raw"
      PROVE  /\ "reads past padded size" \in notes' <=> DriverReads.len > in.padded
             /\ "padded size past what is read" \in notes'
                  <=> DriverReads.len < in.padded
  <2>1. /\ ~Obfuscated /\ ~StoredCompressed
        /\ in.kind = "PTX" \/ in.kind = "ELF"
        /\ in.padded \in Nat /\ in.nul \in Nat /\ in.avail \in Nat
    BY <1>1, <1>2 DEF Understood, HeaderMatchesBytes, IsInput
  <2>2. ASSUME NEW extent \in Nat, notes' = notes \cup GapNotes(extent),
               DriverReads = Prefix("stored", extent)
        PROVE  /\ "reads past padded size" \in notes' <=> DriverReads.len > in.padded
               /\ "padded size past what is read" \in notes'
                    <=> DriverReads.len < in.padded
    <3>1. DriverReads.len = extent
      BY <2>2 DEF Prefix, Nothing
    <3> QED
      BY <1>1, <2>1, <2>2, <3>1 DEF GapNotes, GapNote, Noting
  <2>3. CASE in.kind = "PTX"
    <3>1. ReadText
      BY <2>1, <2>3 DEF Resolve, CutText, FollowELF, KeepDeclared, IsText, IsRawELF
    <3>2. notes' = notes \cup GapNotes(in.nul)
      BY <3>1 DEF ReadText, Resolved
    <3>3. DriverReads = Prefix("stored", in.nul)
      BY <1>2, <2>3 DEF DriverReads
    <3> QED
      BY <2>1, <2>2, <3>2, <3>3
  <2>4. CASE in.kind = "ELF"
    <3>1. /\ ElfExtent = DriverExtent(in.code.elf)
          /\ ElfExtent \in Nat /\ ElfExtent > 0 /\ ElfExtent <= in.avail
      BY <1>1, <1>2, <2>4, ExtentIsTheDrivers
    <3>2. DriverReads = Prefix("stored", ElfExtent)
      BY <1>2, <2>1, <2>4, <3>1 DEF DriverReads, AtMost
    <3>3. CASE FollowELF
      <4>1. notes' = notes \cup GapNotes(ElfExtent)
        BY <3>3 DEF FollowELF, Resolved
      <4> QED
        BY <2>2, <3>1, <3>2, <4>1
    <3>4. CASE KeepDeclared
      <4>1. ElfExtent = in.padded /\ notes' = notes
        BY <2>1, <2>4, <3>1, <3>4 DEF KeepDeclared, Resolved, IsText, IsRawELF, NoExtent
      <4>2. DriverReads.len = in.padded
        BY <3>1, <3>2, <4>1 DEF Prefix
      <4>3. ~(DriverReads.len > in.padded) /\ ~(DriverReads.len < in.padded)
        BY <2>1, <4>2
      <4>4. /\ "reads past padded size" \notin notes'
            /\ "padded size past what is read" \notin notes'
        BY <1>1, <4>1 DEF GapNote
      <4> QED
        BY <4>3, <4>4
    <3> QED
      BY <2>4, <3>3, <3>4 DEF Resolve, CutText, ReadText, IsText
  <2> QED
    BY <2>1, <2>3, <2>4
<1>3. GapsAsDriven'
  BY <1>1, <1>2, InputsKept DEF GapsAsDriven
<1> QED
  BY <1>1, <1>3 DEF NotesKnown

LEMMA NotesFromArch == NotesInv /\ ReadElfArch => NotesKnown'
<1> SUFFICES ASSUME NotesInv, ReadElfArch PROVE NotesKnown'
  OBVIOUS
<1>1. /\ pc' = "done" /\ in' = in /\ GapsAsDriven
      /\ \A note \in GapNote : note \in notes' <=> note \in notes
  BY DEF ReadElfArch, NotesInv, NotesKnown, Noting, GapNote
<1>2. GapsAsDriven'
  BY <1>1, InputsKept DEF GapsAsDriven, GapNote
<1> QED
  BY <1>1, <1>2 DEF NotesKnown

LEMMA NotesStutter == NotesInv /\ UNCHANGED vars => NotesKnown'
<1> SUFFICES ASSUME NotesInv, UNCHANGED vars PROVE NotesKnown'
  OBVIOUS
<1>1. GapsAsDriven' <=> GapsAsDriven
  BY InputsKept DEF vars, GapsAsDriven
<1> QED
  BY <1>1 DEF vars, NotesInv, NotesKnown

(***************************************************************************)
(* For every raw entry the driver's reading is known of, the parser's      *)
(* report says in which direction the padded size misleads, and says       *)
(* nothing where it does not (resolve_extent).                             *)
(***************************************************************************)
THEOREM EveryGapIsNoted == Spec => []ExactlyTheGapsAreNoted
<1>1. Init => NotesInv
  BY InitInv DEF Init, NotesInv, NotesKnown
<1>2. NotesInv /\ [Next]_vars => NotesInv'
  BY SliceKeeps, DecodeKeeps, ResolveKeeps, ArchKeeps, StutterKeeps, NotesFromSlicing,
     NotesFromDecoding, NotesFromResolving, NotesFromArch, NotesStutter
     DEF Next, Decode, Resolve, NotesInv
<1>3. NotesInv => ExactlyTheGapsAreNoted
  BY DEF NotesInv, NotesKnown, GapsAsDriven, ExactlyTheGapsAreNoted
<1> QED
  BY <1>1, <1>2, <1>3, PTL DEF Spec

------------------------------------------------------------------------------
(***************************************************************************)
(* Type correctness, one lemma per byte string that is assigned.           *)
(***************************************************************************)
LEMMA PrefixIsBytes ==
  ASSUME NEW of \in {"stored", "code"}, NEW n \in Nat
  PROVE  Prefix(of, n) \in Bytes /\ Prefix(of, n).len = n
BY DEF Prefix, Bytes, Nothing

LEMMA DecodeTypes == TypeOK /\ Decode => TypeOK'
<1> SUFFICES ASSUME TypeOK, Decode PROVE TypeOK'
  OBVIOUS
<1>1. in.code.len \in Nat /\ IsInput(in)
  BY DEF TypeOK, IsInput
<1>2. /\ in' = in /\ stored' = stored /\ payload' = payload /\ elfArch' = elfArch
      /\ pc' = "extent"
      /\ declared' \in {Nothing, stored, Prefix("code", in.code.len)}
      /\ \E note \in SUBSET {"module missing", "size mismatch",
                             "decompression failed", "zlib"} :
           notes' = notes \cup note
  BY DEF Decode, DecodeNothing, DecodeLZ4, SkipZlib, KeepRaw, DecodeZstd, Decompress,
         Decoded, Noting
<1>3. {Nothing, stored, Prefix("code", in.code.len)} \subseteq Bytes
  <2>1. Prefix("code", in.code.len) \in Bytes
    BY <1>1, PrefixIsBytes
  <2>2. stored \in Bytes
    BY DEF TypeOK
  <2> QED
    BY <2>1, <2>2 DEF Bytes
<1>4. IsInput(in)'
  BY <1>1, <1>2 DEF IsInput
<1>5. notes' \subseteq notes \cup {"module missing", "size mismatch",
                                   "decompression failed", "zlib"}
  BY <1>2
<1> QED
  BY <1>2, <1>3, <1>4, <1>5 DEF TypeOK

LEMMA ResolveTypes == TypeOK /\ Resolve => TypeOK'
<1> SUFFICES ASSUME TypeOK, Resolve PROVE TypeOK'
  OBVIOUS
<1>1. /\ in' = in /\ stored' = stored /\ declared' = declared /\ elfArch' = elfArch
      /\ pc' = "arch"
      /\ notes' \subseteq notes \cup {"reads past padded size",
                                      "padded size past what is read"}
  BY DEF Resolve, CutText, ReadText, FollowELF, KeepDeclared, Resolved, GapNotes,
         Noting
<1>2. /\ in.nul \in Nat /\ in.avail \in Nat /\ in.code.nul \in Nat
      /\ IsInput(in) /\ declared \in Bytes
  <2>1. IsInput(in) /\ declared \in Bytes
    BY DEF TypeOK
  <2> QED
    BY <2>1 DEF IsInput
<1>3. payload' \in Bytes
  <2>1. CASE CutText
    <3>1. payload' = Prefix(declared.of, AtMost(declared.len, in.code.nul))
      BY <2>1 DEF CutText, Resolved
    <3>2. CASE declared = Nothing
      BY <1>2, <3>1, <3>2 DEF Nothing, AtMost, Prefix, Bytes
    <3>3. CASE declared # Nothing
      <4>1. declared.of \in {"stored", "code"} /\ declared.len \in Nat
        BY <1>2, <3>3 DEF Bytes
      <4> QED
        BY <1>2, <3>1, <4>1, PrefixIsBytes DEF AtMost
    <3> QED
      BY <3>2, <3>3
  <2>2. CASE ReadText
    BY <1>2, <2>2, PrefixIsBytes DEF ReadText, Resolved
  <2>3. CASE FollowELF
    <3>1. payload' = Prefix("stored", AtMost(ElfExtent, in.avail))
          /\ ElfExtent # NoExtent
      BY <2>3 DEF FollowELF, Resolved
    <3>2. in.code.elf \in ELF /\ ElfExtent = Reach(in.code.elf)
      BY <1>2, <3>1 DEF ElfExtent, IsInput
    <3>3. ElfExtent \in Nat
      BY <3>2 DEF ELF, Reach, AtLeast
    <3> QED
      BY <1>2, <3>1, <3>3, PrefixIsBytes DEF AtMost
  <2>4. CASE KeepDeclared
    BY <1>2, <2>4 DEF KeepDeclared, Resolved
  <2> QED
    BY <2>1, <2>2, <2>3, <2>4 DEF Resolve
<1>4. IsInput(in)'
  BY <1>1, <1>2 DEF IsInput
<1> QED
  BY <1>1, <1>3, <1>4 DEF TypeOK

LEMMA SliceTypes == TypeOK /\ SliceStored => TypeOK'
<1> SUFFICES ASSUME TypeOK, SliceStored PROVE TypeOK'
  OBVIOUS
<1>1. /\ in' = in /\ payload' = payload /\ declared' = declared /\ elfArch' = elfArch
      /\ pc' = "decode" /\ stored' = Prefix("stored", AtMost(StoredLength, in.avail))
      /\ notes' \subseteq {"obfuscated", "stream past padded size", "truncated"}
  BY DEF SliceStored, Noting
<1>2. in.padded \in Nat /\ in.stream \in Nat /\ in.avail \in Nat /\ IsInput(in)
  BY DEF TypeOK, IsInput
<1>3. stored' \in Bytes
  BY <1>1, <1>2, PrefixIsBytes DEF AtMost, AtLeast, StoredLength
<1>4. IsInput(in)'
  BY <1>1, <1>2 DEF IsInput
<1> QED
  BY <1>1, <1>3, <1>4 DEF TypeOK

LEMMA ArchTypes == TypeOK /\ ReadElfArch => TypeOK'
<1> SUFFICES ASSUME TypeOK, ReadElfArch PROVE TypeOK'
  OBVIOUS
<1>1. /\ in' = in /\ stored' = stored /\ payload' = payload /\ declared' = declared
      /\ pc' = "done" /\ notes' \subseteq notes \cup {"architecture disagreement"}
      /\ elfArch' = IF StartsAsELF(payload) THEN in.code.elf.arch ELSE NoArch
  BY DEF ReadElfArch, Noting
<1>2. elfArch' \in Nat \cup {NoArch}
  BY <1>1 DEF StartsAsELF, TypeOK, IsInput, ELF
<1>3. IsInput(in)'
  BY <1>1 DEF TypeOK, IsInput
<1> QED
  BY <1>1, <1>2, <1>3 DEF TypeOK

(***************************************************************************)
(* Whatever the header says, each byte string is nothing or a non-empty    *)
(* prefix of one of the two sources, and only the code's notes are written *)
(* (Entry.__init__).                                                       *)
(***************************************************************************)
THEOREM ExtentTypes == Spec => []TypeOK
<1>1. Init => TypeOK
  BY InputsAssumption DEF Init, TypeOK, Bytes
<1>2. TypeOK /\ UNCHANGED vars => TypeOK'
  BY DEF TypeOK, vars, IsInput
<1>3. TypeOK /\ [Next]_vars => TypeOK'
  BY <1>2, SliceTypes, DecodeTypes, ResolveTypes, ArchTypes DEF Next, Decode, Resolve
<1> QED
  BY <1>1, <1>3, PTL DEF Spec

------------------------------------------------------------------------------
(***************************************************************************)
(* Why a gap is explained.  Bytes a well described entry cannot be decoded *)
(* from are cut off, which the slice notes, or lack their codec, which     *)
(* decompress notes; everything else is hashed and read for its            *)
(* architecture.                                                           *)
(***************************************************************************)
Explanation == {"truncated", "module missing", "decompression failed"}

CutOffIsNoted ==
  (pc # "slice" /\ Understood /\ in.packing # "raw" /\ in.frame > in.avail)
    => "truncated" \in notes

FailureIsNoted ==
  (pc \in {"extent", "arch", "done"} /\ Understood /\ ~Decodable)
    => notes \cap Explanation # {}

ArchIsRead ==
  (pc = "done" /\ Understood /\ ExtentInReach /\ Decodable /\ in.kind = "ELF")
    => elfArch = in.code.elf.arch

ExplainedInv == Inv /\ TypeOK /\ CutOffIsNoted /\ FailureIsNoted /\ ArchIsRead

LEMMA NotesOnlyGrow ==
  Decode \/ Resolve \/ ReadElfArch => in' = in /\ notes \subseteq notes'
BY DEF Decode, DecodeNothing, DecodeLZ4, SkipZlib, KeepRaw, DecodeZstd, Decompress,
       Decoded, Resolve, CutText, ReadText, FollowELF, KeepDeclared, Resolved,
       ReadElfArch

LEMMA SliceExplains ==
  ExplainedInv /\ SliceStored => CutOffIsNoted' /\ FailureIsNoted' /\ ArchIsRead'
<1> SUFFICES ASSUME ExplainedInv, SliceStored
             PROVE  CutOffIsNoted' /\ FailureIsNoted' /\ ArchIsRead'
  OBVIOUS
<1>1. /\ in' = in /\ pc' = "decode"
      /\ stored' = Prefix("stored", AtMost(StoredLength, in.avail))
      /\ stored'.len < StoredLength => "truncated" \in notes'
  BY DEF SliceStored, Noting
<1>2. ASSUME Understood, in.packing # "raw", in.frame > in.avail
      PROVE  "truncated" \in notes'
  <2>1. /\ in.stream = in.frame /\ in.frame \in Nat /\ in.avail \in Nat
        /\ in.padded \in Nat
    BY <1>2 DEF ExplainedInv, TypeOK, IsInput, Understood, HeaderMatchesBytes
  <2>2. /\ StoredLength \in Nat /\ StoredLength > in.avail
        /\ AtMost(StoredLength, in.avail) = in.avail
    BY <1>2, <2>1 DEF StoredLength, AtLeast, AtMost
  <2> QED
    BY <1>1, <2>1, <2>2, PrefixIsBytes
<1> QED
  BY <1>1, <1>2, InputsKept DEF CutOffIsNoted, FailureIsNoted, ArchIsRead

(***************************************************************************)
(* An encoded entry under its own flag that cannot be decoded: the bytes   *)
(* are cut off, or the codec is asked and says no.                         *)
(***************************************************************************)
LEMMA FailedDecoding ==
  ASSUME ExplainedInv, Decode, Understood, ~Decodable
  PROVE  notes' \cap Explanation # {}
<1>1. /\ pc = "decode" /\ InputOK /\ StoredKnown /\ IsInput(in)
      /\ notes \subseteq notes' /\ ~Obfuscated
  BY NotesOnlyGrow DEF Decode, DecodeNothing, DecodeLZ4, SkipZlib, KeepRaw, DecodeZstd,
     Decompress, Decoded, ExplainedInv, Inv, TypeOK, Understood
<1>2. in.packing \in {"zstd", "lz4"}
  BY <1>1 DEF IsInput, Decodable
<1>3. CASE in.frame > in.avail
  BY <1>1, <1>2, <1>3 DEF ExplainedInv, CutOffIsNoted, Explanation
<1>4. CASE in.frame <= in.avail
  <2>1. /\ in.stream = in.frame /\ in.frame \in Nat /\ in.frame > 0
        /\ in.avail \in Nat /\ in.padded \in Nat
    BY <1>1, <1>2 DEF IsInput, Understood, HeaderMatchesBytes
  <2>2. AtMost(StoredLength, in.avail) \in Nat /\ AtMost(StoredLength, in.avail) > 0
    BY <1>4, <2>1 DEF AtMost, AtLeast, StoredLength
  <2>3. stored # Nothing
    BY <1>1, <2>2 DEF StoredKnown, Prefix, Nothing
  <2>4. ~Unreadable
    BY <1>1, <2>3 DEF Unreadable
  <2>5. CASE in.packing = "zstd"
    <3>1. ~TakenForLZ4 /\ ~TakenForZlib /\ ~TakenForRaw
      BY <2>5 DEF Understood, HeaderMatchesBytes, TakenForLZ4, TakenForZlib, TakenForRaw
    <3>2. DecodeZstd
      BY <2>4, <3>1 DEF Decode, DecodeNothing, DecodeLZ4, SkipZlib, KeepRaw
    <3>3. "zstandard" \notin in.installed \/ ~CapCovers
      BY <1>4, <2>1, <2>5 DEF Decodable
    <3>4. ~CapCovers => TRUE \notin ZstdOutcomes
      BY DEF ZstdOutcomes
    <3> QED
      BY <3>2, <3>3, <3>4 DEF DecodeZstd, Decompress, Decoded, Explanation
  <2>6. CASE in.packing = "lz4"
    <3>1. TakenForLZ4
      BY <2>6 DEF Understood, HeaderMatchesBytes, TakenForLZ4
    <3>2. DecodeLZ4
      BY <2>4, <3>1 DEF Decode, DecodeNothing, SkipZlib, KeepRaw, DecodeZstd,
                        TakenForZlib, TakenForRaw, TakenForZstd
    <3>3. "lz4" \notin in.installed \/ ~HintCovers
      BY <1>4, <2>1, <2>6 DEF Decodable
    <3>4. ~HintCovers => TRUE \notin LZ4Outcomes
      BY DEF LZ4Outcomes
    <3> QED
      BY <3>2, <3>3, <3>4 DEF DecodeLZ4, Decompress, Decoded, Explanation
  <2> QED
    BY <1>2, <2>5, <2>6
<1> QED
  BY <1>1, <1>3, <1>4 DEF IsInput

LEMMA DecodeExplains ==
  ExplainedInv /\ Decode => CutOffIsNoted' /\ FailureIsNoted' /\ ArchIsRead'
<1> SUFFICES ASSUME ExplainedInv, Decode
             PROVE  CutOffIsNoted' /\ FailureIsNoted' /\ ArchIsRead'
  OBVIOUS
<1>1. pc = "decode" /\ pc' = "extent" /\ in' = in /\ notes \subseteq notes'
  BY NotesOnlyGrow DEF Decode, DecodeNothing, DecodeLZ4, SkipZlib, KeepRaw, DecodeZstd,
                       Decompress, Decoded
<1>2. FailureIsNoted'
  BY <1>1, FailedDecoding, InputsKept DEF FailureIsNoted
<1> QED
  BY <1>1, <1>2, InputsKept DEF ExplainedInv, CutOffIsNoted, ArchIsRead

LEMMA ResolveExplains ==
  ExplainedInv /\ Resolve => CutOffIsNoted' /\ FailureIsNoted' /\ ArchIsRead'
<1> SUFFICES ASSUME ExplainedInv, Resolve
             PROVE  CutOffIsNoted' /\ FailureIsNoted' /\ ArchIsRead'
  OBVIOUS
<1>1. pc = "extent" /\ pc' = "arch" /\ in' = in /\ notes \subseteq notes'
  BY NotesOnlyGrow DEF Resolve, CutText, ReadText, FollowELF, KeepDeclared, Resolved
<1> QED
  BY <1>1, InputsKept DEF ExplainedInv, CutOffIsNoted, FailureIsNoted, ArchIsRead

(***************************************************************************)
(* The bytes the driver finds in a cubin begin with its ELF header, so the *)
(* architecture is read from them.                                         *)
(***************************************************************************)
LEMMA CubinStartsAsELF ==
  ASSUME ExplainedInv, Understood, ExtentInReach, in.kind = "ELF"
  PROVE  StartsAsELF(DriverReads)
<1>1. /\ IsInput(in) /\ InputOK /\ in.code.elf # NotELF
      /\ in.code.len \in Nat /\ in.code.len > 0
  BY DEF ExplainedInv, Inv, TypeOK, IsInput, Understood
<1>2. CASE in.packing = "raw"
  <2>1. /\ ElfExtent = DriverExtent(in.code.elf)
        /\ ElfExtent \in Nat /\ ElfExtent > 0 /\ ElfExtent <= in.avail
    BY <1>1, <1>2, ExtentIsTheDrivers
  <2>2. DriverReads = [of |-> "stored", len |-> AtMost(ElfExtent, in.avail)]
    BY <1>1, <1>2, <2>1 DEF DriverReads, Prefix, AtMost
  <2> QED
    BY <1>1, <1>2, <2>2 DEF StartsAsELF, Nothing
<1>3. CASE in.packing # "raw"
  <2>1. DriverReads = [of |-> "code", len |-> in.code.len]
    BY <1>1, <1>3 DEF DriverReads, Prefix
  <2> QED
    BY <1>1, <2>1 DEF StartsAsELF, Nothing
<1> QED
  BY <1>2, <1>3

LEMMA ArchExplains ==
  ExplainedInv /\ ReadElfArch => CutOffIsNoted' /\ FailureIsNoted' /\ ArchIsRead'
<1> SUFFICES ASSUME ExplainedInv, ReadElfArch
             PROVE  CutOffIsNoted' /\ FailureIsNoted' /\ ArchIsRead'
  OBVIOUS
<1>1. /\ pc = "arch" /\ pc' = "done" /\ in' = in /\ notes \subseteq notes'
      /\ elfArch' = IF StartsAsELF(payload) THEN in.code.elf.arch ELSE NoArch
  BY NotesOnlyGrow DEF ReadElfArch
<1>2. ASSUME Understood, ExtentInReach, Decodable, in.kind = "ELF"
      PROVE  elfArch' = in.code.elf.arch
  <2>1. payload = DriverReads
    BY <1>1, <1>2 DEF ExplainedInv, Inv, PayloadKnown
  <2> QED
    BY <1>1, <1>2, <2>1, CubinStartsAsELF
<1>3. ArchIsRead'
  BY <1>1, <1>2, InputsKept DEF ArchIsRead
<1> QED
  BY <1>1, <1>3, InputsKept DEF ExplainedInv, CutOffIsNoted, FailureIsNoted

LEMMA StutterExplains ==
  ExplainedInv /\ UNCHANGED vars => CutOffIsNoted' /\ FailureIsNoted' /\ ArchIsRead'
<1> SUFFICES ASSUME ExplainedInv, UNCHANGED vars
             PROVE  CutOffIsNoted' /\ FailureIsNoted' /\ ArchIsRead'
  OBVIOUS
<1>1. in' = in /\ pc' = pc /\ notes' = notes /\ elfArch' = elfArch
  BY DEF vars
<1> QED
  BY <1>1, InputsKept DEF ExplainedInv, CutOffIsNoted, FailureIsNoted, ArchIsRead

(***************************************************************************)
(* An entry shown without a hash although the driver finds code in it, or  *)
(* without the architecture the driver will validate, carries a note that  *)
(* says why, for every header, buffer and set of installed codecs.         *)
(***************************************************************************)
THEOREM EveryGapIsExplained == Spec => []WhatIsMissingIsExplained
<1>1. Init => CutOffIsNoted /\ FailureIsNoted /\ ArchIsRead
  BY DEF Init, CutOffIsNoted, FailureIsNoted, ArchIsRead
<1>2. Inv /\ TypeOK /\ Inv' /\ TypeOK' /\ CutOffIsNoted /\ FailureIsNoted /\ ArchIsRead
        /\ [Next]_vars => CutOffIsNoted' /\ FailureIsNoted' /\ ArchIsRead'
  BY SliceExplains, DecodeExplains, ResolveExplains, ArchExplains, StutterExplains
     DEF Next, Decode, Resolve, ExplainedInv
<1>3. Inv /\ TypeOK /\ CutOffIsNoted /\ FailureIsNoted /\ ArchIsRead
        => WhatIsMissingIsExplained
  BY DEF Inv, PayloadKnown, FailureIsNoted, ArchIsRead, Explanation,
         WhatIsMissingIsExplained
<1> QED
  BY ExtentInvariant, ExtentTypes, <1>1, <1>2, <1>3, PTL DEF Spec
==============================================================================
