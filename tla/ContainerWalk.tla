---------------------------- MODULE ContainerWalk ----------------------------
(***************************************************************************)
(* parse_container beside the driver's own walk of the same bytes.         *)
(*                                                                         *)
(* Offsets are counted in units of 16 bytes from the container's magic:    *)
(* the container header is one unit, and the fields of an entry header     *)
(* the walk reads (kind, header_size, padded_payload_size) are its first   *)
(* unit, so the headers at two different offsets never share a field and   *)
(* any combination of them is a real buffer.  Sizes are multiples of 16    *)
(* bytes and no offset wraps around 2^64.                                  *)
(*                                                                         *)
(* The driver is closed source.  Its walk is the loop the repository       *)
(* recovered from it, without the nested walk of CONCAT groups.            *)
(***************************************************************************)
EXTENDS FatbinEntries

CONSTANTS Fixed,      \* FIXED_ENTRY_HEADER, in units
          HalfWord,   \* 2^31 bytes, in units: where a signed 32-bit size wraps
          Images,     \* the buffers walked
          BadKind     \* a kind field that is no entry kind

ASSUME FixedAssumption == Fixed \in Nat \ {0}
ASSUME HalfWordAssumption == HalfWord \in Nat \ {0}
ASSUME BadKindAssumption == BadKind \notin Kinds

Header == [kind : Kinds \cup {BadKind}, size : Nat, padded : Nat]

HeaderOffsets(len) == {p \in 0..len : p + Fixed <= len}

(***************************************************************************)
(* A buffer: its length, whether the magic is there, the header_size and   *)
(* fatbin_size of the container header, and what reads as an entry header  *)
(* at each offset where one fits.                                          *)
(***************************************************************************)
IsImage(im) == /\ im.len \in Nat /\ im.first \in Nat /\ im.size \in Nat
               /\ im.magic \in BOOLEAN
               /\ im.header \in [HeaderOffsets(im.len) -> Header]

ASSUME ImagesAssumption == \A im \in Images : IsImage(im)

StopNotes == {"header past buffer", "not a header"}

ContainerNotes == {"upper bits discarded", "size not positive",
                   "container past buffer", "further entry outside"}
                  \cup StopNotes

VARIABLES image,      \* the bytes, which neither walk changes
          pc,         \* the parser: "open", "walk", "tail", "done", "error"
          pos,        \* the parser's offset
          entries,    \* offsets of the entries it has appended
          notes,      \* the container's notes
          extending,  \* offsets of the entries noted as running past the end
          dpc,        \* the driver: "enter", "walk", "outside", "done"
          dpos,       \* the driver's offset
          visited     \* offsets of the headers the driver has read

parserVars == <<pc, pos, entries, notes, extending>>
driverVars == <<dpc, dpos, visited>>
vars == <<image, parserVars, driverVars>>

(***************************************************************************)
(* Container.declared: the size the driver actually uses.                  *)
(***************************************************************************)
SignedWord(u) == LET low == u % (2 * HalfWord)
                 IN  IF low >= HalfWord THEN low - 2 * HalfWord ELSE low

Declared == SignedWord(image.size)

End == image.first + Declared

\* Mutant: an entry counts as inside only if its whole header fits.
InsideContainerMutant(p) == p + Fixed - image.first <= Declared

InsideContainer(p) == p - image.first < Declared

HeaderAt(p) == image.header[p]

Readable(p) == p + Fixed <= image.len

IsEntryKind(p) == HeaderAt(p).kind \in Kinds

Stride(p) == HeaderAt(p).size + HeaderAt(p).padded

Init == /\ image \in Images
        /\ pc = "open" /\ pos = 0 /\ entries = <<>>
        /\ notes = {} /\ extending = {}
        /\ dpc = "enter" /\ dpos = 0 /\ visited = <<>>

------------------------------------------------------------------------------
(***************************************************************************)
(* The parser.                                                             *)
(***************************************************************************)
Noting(condition, note) == IF condition THEN {note} ELSE {}

OpenContainer ==
  /\ pc = "open"
  /\ image.len >= 1 /\ image.magic
  /\ notes' = Noting(image.size >= 2 * HalfWord, "upper bits discarded")
              \cup Noting(image.size # 0 /\ Declared <= 0, "size not positive")
              \cup Noting(Declared > 0 /\ End > image.len, "container past buffer")
  /\ pos' = image.first
  /\ pc' = "walk"
  /\ UNCHANGED <<image, entries, extending, driverVars>>

RaiseError == /\ pc = "open"
              /\ image.len < 1 \/ ~image.magic
              /\ pc' = "error"
              /\ UNCHANGED <<image, pos, entries, notes, extending, driverVars>>

Break(note) == /\ pc' = "tail"
               /\ notes' = notes \cup note
               /\ UNCHANGED <<image, pos, entries, extending, driverVars>>

LeaveContainer == /\ pc = "walk"
                  /\ ~InsideContainer(pos)
                  /\ Break({})

HeaderPastBuffer == /\ pc = "walk"
                    /\ InsideContainer(pos)
                    /\ ~Readable(pos)
                    /\ Break({"header past buffer"})

ShortHeader(p) == HeaderAt(p).size < Fixed

StopAtShortHeader == /\ pc = "walk"
                     /\ InsideContainer(pos) /\ Readable(pos)
                     /\ ShortHeader(pos)
                     /\ Break({})

OversizedHeader(p) == HeaderAt(p).size > image.len - p

\* Mutant: the walk stops at a bad header and says nothing.
StopAtBadHeaderMutant == /\ pc = "walk"
                         /\ InsideContainer(pos) /\ Readable(pos)
                         /\ ~ShortHeader(pos)
                         /\ ~IsEntryKind(pos) \/ OversizedHeader(pos)
                         /\ Break({})

StopAtBadHeader == /\ pc = "walk"
                   /\ InsideContainer(pos) /\ Readable(pos)
                   /\ ~ShortHeader(pos)
                   /\ ~IsEntryKind(pos) \/ OversizedHeader(pos)
                   /\ Break({"not a header"})

\* Mutant: every header is taken to have the fixed size.
ReadEntryMutant ==
  /\ pc = "walk"
  /\ InsideContainer(pos) /\ Readable(pos)
  /\ ~ShortHeader(pos) /\ IsEntryKind(pos) /\ ~OversizedHeader(pos)
  /\ entries' = Append(entries, pos)
  /\ extending' = extending \cup Noting(pos + Stride(pos) > End, pos)
  /\ pos' = pos + Fixed + HeaderAt(pos).padded
  /\ UNCHANGED <<image, pc, notes, driverVars>>

\* Mutant: an entry that ends exactly at the end counts as running past it.
ReadEntryBoundaryMutant ==
  /\ pc = "walk"
  /\ InsideContainer(pos) /\ Readable(pos)
  /\ ~ShortHeader(pos) /\ IsEntryKind(pos) /\ ~OversizedHeader(pos)
  /\ entries' = Append(entries, pos)
  /\ extending' = extending \cup Noting(pos + Stride(pos) >= End, pos)
  /\ pos' = pos + Stride(pos)
  /\ UNCHANGED <<image, pc, notes, driverVars>>

ReadEntry ==
  /\ pc = "walk"
  /\ InsideContainer(pos) /\ Readable(pos)
  /\ ~ShortHeader(pos) /\ IsEntryKind(pos) /\ ~OversizedHeader(pos)
  /\ entries' = Append(entries, pos)
  /\ extending' = extending \cup Noting(pos + Stride(pos) > End, pos)
  /\ pos' = pos + Stride(pos)
  /\ UNCHANGED <<image, pc, notes, driverVars>>

LookPastTheEnd ==
  /\ pc = "tail"
  /\ notes' = notes \cup Noting(Readable(pos) /\ IsEntryKind(pos)
                                  /\ ~ShortHeader(pos), "further entry outside")
  /\ pc' = "done"
  /\ UNCHANGED <<image, pos, entries, extending, driverVars>>

Parser == \/ OpenContainer \/ RaiseError
          \/ LeaveContainer \/ HeaderPastBuffer
          \/ StopAtShortHeader \/ StopAtBadHeader
          \/ ReadEntry \/ LookPastTheEnd

------------------------------------------------------------------------------
(***************************************************************************)
(* The driver.  It takes a pointer with no length, so past the end of the  *)
(* buffer it reads memory nothing here describes.  Each header it reads    *)
(* goes to the filter, whatever its kind and size.  An entry whose stride  *)
(* is zero is read again for ever.                                         *)
(***************************************************************************)
DriverBound == SignedWord(image.size)

DriverStride(p) == HeaderAt(p).size + HeaderAt(p).padded

DriverEnter ==
  /\ dpc = "enter"
  /\ dpc' = IF DriverBound < 1 THEN "done" ELSE "walk"
  /\ dpos' = image.first
  /\ UNCHANGED <<image, parserVars, visited>>

DriverVisit ==
  /\ dpc = "walk" /\ Readable(dpos) /\ DriverStride(dpos) > 0
  /\ visited' = Append(visited, dpos)
  /\ dpos' = dpos + DriverStride(dpos)
  /\ dpc' = IF dpos' - image.first < DriverBound THEN "walk" ELSE "done"
  /\ UNCHANGED <<image, parserVars>>

DriverSpins ==
  /\ dpc = "walk" /\ Readable(dpos) /\ DriverStride(dpos) = 0
  /\ visited' = Append(visited, dpos)
  /\ dpc' = "spins"
  /\ UNCHANGED <<image, parserVars, dpos>>

DriverLeavesBuffer ==
  /\ dpc = "walk" /\ ~Readable(dpos)
  /\ dpc' = "outside"
  /\ UNCHANGED <<image, parserVars, dpos, visited>>

Driver == DriverEnter \/ DriverVisit \/ DriverSpins \/ DriverLeavesBuffer

Next == Parser \/ Driver

Spec == Init /\ [][Next]_vars

------------------------------------------------------------------------------
BothWalked == pc = "done" /\ dpc \notin {"enter", "walk"}

(***************************************************************************)
(* Offsets are counted from the magic and never negative; notes are those  *)
(* the code can write.                                                     *)
(***************************************************************************)
TypeOK == /\ IsImage(image)
          /\ pc \in {"open", "walk", "tail", "done", "error"}
          /\ pos \in Nat
          /\ entries \in Seq(Nat)
          /\ notes \subseteq ContainerNotes
          /\ extending \subseteq Nat
          /\ dpc \in {"enter", "walk", "spins", "outside", "done"}
          /\ dpos \in Nat
          /\ visited \in Seq(Nat)

(***************************************************************************)
(* The parser invents no entry and skips none: entry by entry it reports   *)
(* what the driver reads, at the driver's offsets, however far either of   *)
(* them has come, and it never reports more than the driver walks          *)
(* (parse_container, "the walk reproduces the driver's bound rather than a *)
(* reasonable one").                                                       *)
(***************************************************************************)
ReportsWhatTheDriverReads ==
  /\ \A i \in DOMAIN entries \cap DOMAIN visited : entries[i] = visited[i]
  /\ BothWalked => Len(entries) <= Len(visited)

(***************************************************************************)
(* An entry the driver reads and the parser does not report is announced   *)
(* by a note, except where the walk stopped at a header smaller than the   *)
(* fixed one.                                                              *)
(***************************************************************************)
Unreported == {i \in DOMAIN visited : i > Len(entries) /\ IsEntryKind(visited[i])}

LossIsNotedUnlessHeaderShort ==
  (BothWalked /\ Unreported # {}) =>
    \/ notes \cap StopNotes # {}
    \/ Readable(pos) /\ ShortHeader(pos)

(***************************************************************************)
(* "Everything the walk has to clamp for its own safety, rather than       *)
(* because the driver does, is recorded as a note instead of passing in    *)
(* silence" (the docstring of parse_container).                            *)
(***************************************************************************)
EveryLossIsNoted ==
  (BothWalked /\ Unreported # {}) => notes \cap StopNotes # {}

(***************************************************************************)
(* "... parse as a further entry header, ..., outside the declared         *)
(* container": the note parse_container writes after its loop names, where *)
(* no bad header stopped the walk, a header the driver does not read.      *)
(***************************************************************************)
FurtherEntryIsDead ==
  (BothWalked /\ "further entry outside" \in notes /\ "not a header" \notin notes)
    => \A i \in DOMAIN visited : visited[i] # pos

(***************************************************************************)
(* Headers of reported entries never overlap and every one of them starts  *)
(* inside the declared container, so at most the last entry can run past   *)
(* its end; that one is noted, and no other.                               *)
(***************************************************************************)
OnlyTheLastEntryExtends ==
  /\ \A i, j \in DOMAIN entries : i < j => entries[i] + Fixed <= entries[j]
  /\ pc \in {"tail", "done"} =>
       extending = {entries[i] : i \in {j \in DOMAIN entries :
                                          j = Len(entries) /\ pos > End}}
==============================================================================
