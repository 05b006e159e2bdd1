---------------------------- MODULE ContainerEdit ----------------------------
(***************************************************************************)
(* The three container editors between two readings of a file: the         *)
(* analyst lists a container with parse_container, hands the index of one  *)
(* of its entries to patch_entry.py, patch_arch.py or patch_size.py, and   *)
(* the file the editor writes is listed again and walked by the driver.    *)
(* Each editor finds the entry with a walk of its own, whose bound and     *)
(* tests are not those of the parser.                                      *)
(*                                                                         *)
(* Files are buffers as in ContainerWalk, with the offsets where an ELF    *)
(* header stands.  The fields an editor writes lie in the units after the  *)
(* first of a header, where they are fields of whatever header a walk      *)
(* would read there: flags are the padded size two units on, the           *)
(* architecture is the padded size one unit on, and e_flags are the kind   *)
(* three units into the ELF header.                                        *)
(***************************************************************************)
EXTENDS ContainerWalk

CONSTANTS Word64,     \* 2^64 bytes, in units
          Originals,  \* the buffers that are edited
          Edits,      \* the command lines
          Unknown,    \* what bytes of no known origin may read as
          NoEdit, NoFile, Unchanged

(***************************************************************************)
(* A file is a buffer with the offsets where an ELF header stands.         *)
(***************************************************************************)
IsFile(im) ==
  /\ IsImage(im)
  /\ im.elf \subseteq Nat
  /\ im = [len |-> im.len, magic |-> im.magic, first |-> im.first, size |-> im.size,
           header |-> im.header, elf |-> im.elf]

(***************************************************************************)
(* The command lines.  A patch_size.py edit appends the first entry of a   *)
(* file and raw units, and changes a padded size and the container's,      *)
(* absolutely or relative to what they are.  An index is any integer.      *)
(***************************************************************************)
Change == [relative : BOOLEAN, value : Int] \cup {Unchanged}

CommandLines ==
  [tool : {"patch_entry"}, entry : Int]
  \cup [tool : {"patch_arch"}, entry : Int, header : BOOLEAN, elf : BOOLEAN]
  \cup [tool : {"patch_size"}, entry : Int, append : Images \cup {NoFile},
         raw : Nat, padded : Change, size : Change]

ASSUME Word64Assumption ==
  Word64 \in Nat \ {0} /\ Word64 % (2 * HalfWord) = 0
ASSUME FieldsAssumption == Fixed >= 3   \* the fields edited lie in the fixed header
ASSUME OriginalsAssumption ==
  Originals \subseteq Images /\ \A im \in Images : IsFile(im)
ASSUME UnknownAssumption == Unknown \subseteq Header
ASSUME EditsAssumption == Edits \subseteq CommandLines /\ NoEdit \notin Edits

VARIABLES edit,      \* the command line, NoEdit for a file that is only read
          stage,     \* "list", "append", "walk", "resize", "write", then
                     \* "edited" or "failed", or "spinning" without end
          listing,   \* the file before, and what the parser said of it
          buf,       \* the editor's bytearray
          eidx,      \* its loop's idx
          epos,      \* its loop's pos
          outcome    \* how the editor ended

editVars == <<edit, stage, listing, buf, eidx, epos, outcome>>
allVars == <<vars, editVars>>

Outcomes == {"none", "written", "no entry", "not a fat binary", "not a raw ELF",
             "too short", "struct.error", "StopIteration"}

EditInit ==
  /\ Init
  /\ listing = [image |-> image, entries |-> <<>>, notes |-> {}, stop |-> 0]
  /\ buf = image /\ eidx = 0 /\ epos = 0 /\ outcome = "none"
  /\ \/ edit = NoEdit /\ stage = "edited"
     \/ image \in Originals /\ edit \in Edits /\ stage = "list"

------------------------------------------------------------------------------
(***************************************************************************)
(* The editors.  A step of one leaves the file and the two walks alone     *)
(* until the last, which writes the file.                                  *)
(***************************************************************************)
IsSizeEdit == edit.tool = "patch_size"

Fail(reason) == /\ stage' = "failed" /\ outcome' = reason
                /\ UNCHANGED <<vars, edit, buf, eidx, epos>>

Listed == stage = "list" /\ pc \in {"done", "error"}

TakeListing ==
  listing' = [image |-> image, entries |-> entries, notes |-> notes, stop |-> pos]

RefuseFile ==
  /\ Listed /\ TakeListing
  /\ \/ buf.len < 1 /\ Fail("too short")
     \/ buf.len >= 1 /\ ~IsSizeEdit /\ ~buf.magic /\ Fail("not a fat binary")

BeginWalk == /\ stage' = "walk" /\ epos' = buf.first /\ eidx' = 0

OpenFile ==
  /\ Listed /\ TakeListing
  /\ buf.len >= 1
  /\ \/ IsSizeEdit /\ stage' = "append" /\ UNCHANGED <<epos, eidx>>
     \/ ~IsSizeEdit /\ buf.magic /\ BeginWalk
  /\ UNCHANGED <<vars, edit, buf, outcome>>

(***************************************************************************)
(* patch_size.py: the generator entries(), which all of its searches use.  *)
(***************************************************************************)
HasHeader(d, p) == p + Fixed <= d.len

EntriesBound(d) == IF d.first + d.size < d.len THEN d.first + d.size ELSE d.len

Yields(d, p) == p + Fixed <= EntriesBound(d) /\ d.header[p].size >= Fixed

(***************************************************************************)
(* d += src[off:off + ehs + psz]: the slice stops at the end of src.  A    *)
(* header whose first unit is an old last unit of d reads as anything.     *)
(***************************************************************************)
SliceLength(src) ==
  LET h == src.header[src.first]
      n == h.size + h.padded
  IN  IF src.first + n < src.len THEN n ELSE src.len - src.first

Longer(d, len, header, elf) ==
  [len |-> len, magic |-> d.magic, first |-> d.first, size |-> d.size,
   header |-> header, elf |-> elf]

\* Mutant: the slice is taken from the beginning of src.
ConcatenatedMutant(d, src, n, unknown) ==
  Longer(d, d.len + n,
         [p \in HeaderOffsets(d.len + n) |->
            IF HasHeader(d, p) THEN d.header[p]
            ELSE IF p < d.len THEN unknown
            ELSE src.header[p - d.len]],
         d.elf)

Concatenated(d, src, n, unknown) ==
  Longer(d, d.len + n,
         [p \in HeaderOffsets(d.len + n) |->
            IF HasHeader(d, p) THEN d.header[p]
            ELSE IF p < d.len THEN unknown
            ELSE src.header[p - d.len + src.first]],
         d.elf \cup {p + d.len - src.first :
                       p \in {q \in src.elf : q \in src.first..(src.first + n - 1)}})

WithRaw(d, n, unknown) ==
  Longer(d, d.len + n,
         [p \in HeaderOffsets(d.len + n) |->
            IF HasHeader(d, p) THEN d.header[p] ELSE unknown],
         d.elf)

AfterAppending ==
  IF edit.padded # Unchanged
  THEN IF buf.magic THEN BeginWalk /\ UNCHANGED outcome
       ELSE stage' = "failed" /\ outcome' = "not a fat binary" /\ UNCHANGED <<epos, eidx>>
  ELSE stage' = "resize" /\ UNCHANGED <<epos, eidx, outcome>>

AppendBytes ==
  /\ stage = "append"
  /\ edit.append # NoFile =>
       edit.append.len >= 1 /\ edit.append.magic /\ Yields(edit.append, edit.append.first)
  /\ \E unknown \in Unknown :
       LET d == IF edit.append = NoFile THEN buf
                ELSE Concatenated(buf, edit.append, SliceLength(edit.append), unknown)
       IN  buf' = WithRaw(d, edit.raw, unknown)
  /\ AfterAppending
  /\ UNCHANGED <<vars, edit, listing>>

RefuseSource ==
  /\ stage = "append" /\ edit.append # NoFile
  /\ UNCHANGED listing
  /\ LET src == edit.append
     IN  \/ src.len < 1 /\ Fail("too short")
         \/ src.len >= 1 /\ ~src.magic /\ Fail("not a fat binary")
         \/ /\ src.len >= 1 /\ src.magic /\ ~Yields(src, src.first)
            /\ Fail("StopIteration")

(***************************************************************************)
(* The walk to the entry asked for.  patch_entry.py and patch_arch.py stop *)
(* only at the size as a u64, and read past the end of the buffer into a   *)
(* struct.error; patch_size.py stops at the buffer and at a short header.  *)
(***************************************************************************)
\* Mutant: the bound is the size without the container's own header.
InReachMutant(p) ==
  IF IsSizeEdit THEN Yields(buf, p) ELSE p + Fixed <= buf.size

InReach(p) ==
  IF IsSizeEdit THEN Yields(buf, p) ELSE p + Fixed <= buf.first + buf.size

ReadAt(p) == IF HasHeader(buf, p) THEN {buf.header[p]} ELSE Unknown

(***************************************************************************)
(* The index is counted up to, or the stride leads out of reach.  A        *)
(* negative index is never met, and a stride of zero leads nowhere: then   *)
(* the loop of patch_entry.py and patch_arch.py only counts, for ever.     *)
(***************************************************************************)
CanCome(stride) == edit.entry >= 0 \/ stride > 0

\* Mutant: headers smaller than the fixed one are skipped without being counted.
PassHeaderCountMutant ==
  /\ stage = "walk" /\ InReach(epos) /\ epos < buf.len /\ eidx # edit.entry
  /\ \E h \in ReadAt(epos) :
       /\ CanCome(h.size + h.padded)
       /\ epos' = epos + h.size + h.padded
       /\ eidx' = IF h.size >= Fixed THEN eidx + 1 ELSE eidx
  /\ UNCHANGED <<vars, edit, stage, listing, buf, outcome>>

\* Mutant: every header is taken to have the fixed size.
PassHeaderMutant ==
  /\ stage = "walk" /\ InReach(epos) /\ epos < buf.len /\ eidx # edit.entry
  /\ \E h \in ReadAt(epos) : epos' = epos + Fixed + h.padded
  /\ eidx' = eidx + 1
  /\ UNCHANGED <<vars, edit, stage, listing, buf, outcome>>

PassHeader ==
  /\ stage = "walk" /\ InReach(epos) /\ epos < buf.len /\ eidx # edit.entry
  /\ \E h \in ReadAt(epos) :
       /\ CanCome(h.size + h.padded)
       /\ epos' = epos + h.size + h.padded
  /\ eidx' = eidx + 1
  /\ UNCHANGED <<vars, edit, stage, listing, buf, outcome>>

\* What follows changes a counter that nothing meets: it is left out.
CountForEver ==
  /\ stage = "walk" /\ InReach(epos) /\ epos < buf.len /\ eidx # edit.entry
  /\ \E h \in ReadAt(epos) : ~CanCome(h.size + h.padded)
  /\ stage' = "spinning"
  /\ UNCHANGED <<vars, edit, listing, buf, eidx, epos, outcome>>

ReadPastBuffer ==
  /\ stage = "walk" /\ InReach(epos) /\ epos >= buf.len
  /\ UNCHANGED listing
  /\ Fail("struct.error")

FindNoEntry ==
  /\ stage = "walk" /\ ~InReach(epos)
  /\ UNCHANGED listing
  /\ Fail("no entry")

AtEntry == stage = "walk" /\ InReach(epos) /\ epos < buf.len /\ eidx = edit.entry

Patched(d, next) == /\ buf' = d /\ stage' = next
                    /\ UNCHANGED <<vars, edit, listing, eidx, epos, outcome>>

Overrun == UNCHANGED listing /\ Fail("struct.error")

WithPadded(d, p, n) == [d EXCEPT !.header[p].padded = n]

WithoutKind(d, p) == [d EXCEPT !.header[p].kind = BadKind]

WithSize(d, n) == [d EXCEPT !.size = n]

\* the padded size field of a header at p takes another high bit
HighBit(d, p) ==
  IF HasHeader(d, p) THEN WithPadded(d, p, d.header[p].padded + HalfWord) ELSE d

\* Mutant: the offset given for the flags is that of the padded size.
SetFlagsMutant ==
  /\ AtEntry /\ edit.tool = "patch_entry"
  /\ IF epos + 3 <= buf.len THEN Patched(HighBit(buf, epos), "write")
     ELSE Overrun

SetFlags ==
  /\ AtEntry /\ edit.tool = "patch_entry"
  /\ IF epos + 3 <= buf.len THEN Patched(HighBit(buf, epos + 2), "write")
     ELSE Overrun

WithHeaderArch(d) == IF edit.header THEN HighBit(d, epos + 1) ELSE d

WithElfArch(d, p) ==
  IF HasHeader(d, p + 3) THEN WithoutKind(d, p + 3) ELSE d

SetArch ==
  /\ AtEntry /\ edit.tool = "patch_arch"
  /\ IF edit.header /\ epos + 2 > buf.len THEN Overrun
     ELSE IF ~edit.elf THEN Patched(WithHeaderArch(buf), "write")
     ELSE \E h \in ReadAt(epos) :
            LET payload == epos + h.size
            IN  IF payload \notin buf.elf
                THEN UNCHANGED listing /\ Fail("not a raw ELF")
                ELSE IF payload + 4 > buf.len THEN Overrun
                ELSE Patched(WithElfArch(WithHeaderArch(buf), payload), "write")

Resolve(change, current) ==
  IF change.relative THEN current + change.value ELSE change.value

\* Mutant: the new size is packed as a signed field.
SetPaddedMutant ==
  /\ AtEntry /\ IsSizeEdit
  /\ LET new == Resolve(edit.padded, buf.header[epos].padded)
     IN  Patched(WithPadded(buf, epos, new), "resize")

SetPadded ==
  /\ AtEntry /\ IsSizeEdit
  /\ LET new == Resolve(edit.padded, buf.header[epos].padded)
     IN  IF new \in 0..(Word64 - 1) THEN Patched(WithPadded(buf, epos, new), "resize")
         ELSE Overrun

SetFatbinSize ==
  /\ stage = "resize"
  /\ Patched(IF edit.size = Unchanged THEN buf
             ELSE WithSize(buf, Resolve(edit.size, buf.size) % Word64), "write")

(***************************************************************************)
(* The output file is written whole and read by parse_container and by the *)
(* driver from the start.                                                  *)
(***************************************************************************)
WriteFile ==
  /\ stage = "write"
  /\ stage' = "edited" /\ outcome' = "written"
  /\ image' = buf
  /\ pc' = "open" /\ pos' = 0 /\ entries' = <<>> /\ notes' = {} /\ extending' = {}
  /\ UNCHANGED <<driverVars, edit, listing, buf, eidx, epos>>

Editor == \/ RefuseFile \/ OpenFile \/ AppendBytes \/ RefuseSource
          \/ PassHeader \/ CountForEver \/ ReadPastBuffer \/ FindNoEntry
          \/ SetFlags \/ SetArch \/ SetPadded \/ SetFatbinSize \/ WriteFile

Lists == stage \in {"list", "edited"} /\ Parser /\ UNCHANGED editVars

Loads == stage = "edited" /\ Driver /\ UNCHANGED editVars

EditNext == Lists \/ Editor \/ Loads

EditSpec == EditInit /\ [][EditNext]_allVars

(***************************************************************************)
(* parse_container and the editors are programs that run to their end.     *)
(***************************************************************************)
FairEditSpec == EditSpec /\ WF_allVars(Lists) /\ WF_allVars(Editor)

------------------------------------------------------------------------------
(***************************************************************************)
(* Before the file is written it is the file that was listed, and the      *)
(* editor holds a container, whatever it has put into it.                  *)
(***************************************************************************)
EditTypeOK ==
  /\ TypeOK
  /\ edit \in Edits \cup {NoEdit}
  /\ stage \in {"list", "append", "walk", "spinning", "resize", "write", "edited",
               "failed"}
  /\ IsFile(image) /\ IsFile(buf) /\ IsFile(listing.image)
  /\ listing.entries \in Seq(Nat) /\ listing.notes \subseteq ContainerNotes
  /\ listing.stop \in Nat
  /\ eidx \in Nat /\ epos \in Nat
  /\ outcome \in Outcomes
  /\ stage \notin {"list", "edited"} => image = listing.image
  /\ stage # "edited" => dpc = "enter" /\ dpos = 0 /\ visited = <<>>

(***************************************************************************)
(* Does the command line name an entry, and is it one the listing has?     *)
(***************************************************************************)
NamesEntry == edit # NoEdit /\ (IsSizeEdit => edit.padded # Unchanged)

NamesListedEntry == NamesEntry /\ edit.entry \in 0..(Len(listing.entries) - 1)

Named == listing.entries[edit.entry + 1]

(***************************************************************************)
(* The editor counts entries with a walk that shares neither bound nor     *)
(* tests with the listing the index was read from, and still edits the     *)
(* entry that has this index in the listing (patch_entry.py 34, patch_arch *)
(* .py 41, patch_size.py 33 beside parse_container).                       *)
(***************************************************************************)
EditsTheListedEntry ==
  (stage \in {"write", "edited"} /\ NamesListedEntry) => epos = Named

(***************************************************************************)
(* Where the two walks differ in reach.  An editor that finds no entry     *)
(* under a listed index has met the one header that crosses the declared   *)
(* end; one that edits, reads past the buffer or counts for ever for an    *)
(* index the listing does not have was warned by it: the walk stopped at a *)
(* bad header or the edge of the buffer, or the size is not what the       *)
(* driver uses.                                                            *)
(***************************************************************************)
Warned ==
  \/ listing.notes \cap (StopNotes \cup {"upper bits discarded", "size not positive"})
       # {}
  \/ /\ HasHeader(listing.image, listing.stop)
     /\ listing.image.header[listing.stop].size < Fixed

ReachOfTheEditors ==
  /\ (outcome = "no entry" /\ NamesListedEntry) =>
       Named + Fixed > listing.image.first + listing.image.size
  /\ ( /\ outcome \in {"written", "struct.error"} \/ stage = "spinning"
       /\ NamesEntry /\ ~NamesListedEntry )
     => Warned

(***************************************************************************)
(* What an edit moves.  Size edits leave every entry up to the edited one  *)
(* where it was, and listed unless the container's size changed too; flag  *)
(* and architecture edits change no entry of the list ("No size, offset or *)
(* magic is touched", patch_arch.py), unless the payload is shorter than   *)
(* the ELF header whose e_flags are written.                               *)
(***************************************************************************)
ShortPayload ==
  /\ edit.tool = "patch_arch" /\ edit.elf
  /\ listing.image.header[Named].padded < 4

EditedAndListed == edit # NoEdit /\ stage = "edited" /\ pc = "done"

SizesMoveOnlyWhatFollows ==
  EditedAndListed =>
    IF IsSizeEdit
    THEN /\ \A i \in DOMAIN entries \cap DOMAIN listing.entries :
              (edit.padded # Unchanged => i <= edit.entry + 1)
                => entries[i] = listing.entries[i]
         /\ (edit.size = Unchanged /\ NamesListedEntry)
              => Len(entries) > edit.entry
    ELSE entries = listing.entries \/ (NamesListedEntry /\ ShortPayload)

(***************************************************************************)
(* Code added after the end of a well-formed container is outside it until *)
(* fatbin_size grows by anything at all: then the driver only requires the *)
(* entry to start inside, and runs all of it (patch_size.py, its docstring *)
(* and --append-entry with --fatbin-size +1).                              *)
(***************************************************************************)
WellFormedBefore ==
  LET im == listing.image
  IN  /\ listing.notes = {} /\ im.size \in 1..(HalfWord - 1)
      /\ listing.stop = im.len /\ im.len = im.first + im.size

AppendsOneEntry ==
  /\ IsSizeEdit
  /\ edit.append # NoFile /\ edit.raw = 0 /\ edit.padded = Unchanged
  /\ LET h == edit.append.header[edit.append.first]
     IN  h.kind \in Kinds /\ h.size <= SliceLength(edit.append)

AppendedEntryCountsByOneUnit ==
  (EditedAndListed /\ AppendsOneEntry /\ WellFormedBefore) =>
    LET grown == listing.entries \o <<listing.image.len>>
    IN  /\ image.size = listing.image.size =>
             entries = listing.entries /\ "further entry outside" \in notes
        /\ image.size \in (listing.image.size + 1)..(HalfWord - 1) =>
             /\ entries = grown
             /\ dpc \notin {"enter", "walk"} => visited = grown

(***************************************************************************)
(* Every listing and every edit comes to an end, on every file, but one:   *)
(* the walks of patch_entry.py and patch_arch.py have no test for a stride *)
(* of zero and only their counter to stop them, so that they end also      *)
(* there, unless the index asked for is negative.                          *)
(***************************************************************************)
NeverReturns ==
  /\ edit # NoEdit /\ ~IsSizeEdit /\ edit.entry < 0
  /\ InReach(epos) /\ epos < buf.len
  /\ \E h \in ReadAt(epos) : h.size = 0 /\ h.padded = 0

CallsReturn ==
  <>[](\/ stage \in {"edited", "failed"} /\ pc \in {"done", "error"}
       \/ NeverReturns)
==============================================================================
