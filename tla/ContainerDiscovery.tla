-------------------------- MODULE ContainerDiscovery --------------------------
(***************************************************************************)
(* find_containers, a generator, and the caller that parses each container *)
(* while the generator is suspended at it: describe, which reports a file, *)
(* or survey_file, which sweeps many.  A generator that raises after it    *)
(* has yielded takes the containers already parsed down with it.           *)
(*                                                                         *)
(* Offsets are counted in units of 16 bytes.  What the ELF library returns *)
(* (sections, the wrapper records) is part of the file.                    *)
(***************************************************************************)
EXTENDS Integers, Sequences, FiniteSets

CONSTANTS Files,     \* the files opened
          NoOffset   \* Python's None

Shapes == {"container", "empty", "unknown", "cubin", "bad ELF", "ELF"}

Callers == {"describe", "survey"}

(***************************************************************************)
(* A container header: whether the magic is there, header_size, the u64    *)
(* fatbin_size, and how far past the header the entries the walk finds     *)
(* there reach.                                                            *)
(***************************************************************************)
IsHeader(h) == /\ h.magic \in BOOLEAN
               /\ h.first \in Nat /\ h.size \in Nat /\ h.reach \in Nat

IsFile(f) ==
  /\ f.shape \in Shapes
  /\ f.len \in Nat
  /\ DOMAIN f.header = 0..(f.len - 1)
  /\ \A p \in DOMAIN f.header : IsHeader(f.header[p])
  /\ f.sections \in Seq([addr : Nat, size : Nat, off : Nat])
  /\ f.wrappers \in Seq([valid : BOOLEAN, data : Nat])
  /\ f.fatbin \in [off : Nat \cup {NoOffset}, size : Nat]

ASSUME FilesAssumption == NoOffset \notin Nat /\ \A f \in Files : IsFile(f)

VARIABLES file, caller,
          gpc,       \* the generator: "open", "wrappers", "chain", "exhausted"
          next,      \* the wrapper record it looks at next
          pos,       \* where its chain stands
          seen,      \* offsets it has yielded for a wrapper
          item,      \* the offset it is suspended at
          handed,    \* every offset it has yielded, in order
          out,       \* containers the caller has parsed
          skipped,   \* containers the caller has given up
          result     \* "running", "returned" or what was raised

args == <<file, caller>>
generator == <<gpc, next, pos, seen, handed>>
report == <<out, skipped>>
vars == <<args, generator, item, report, result>>

Init == /\ file \in Files
        /\ caller \in Callers
        /\ gpc = "open" /\ next = 1 /\ pos = 0 /\ seen = {}
        /\ item = NoOffset /\ handed = <<>>
        /\ out = <<>> /\ skipped = <<>>
        /\ result = "running"

Fits(p) == p + 1 <= file.len

HasMagic(p) == file.header[p].magic

(***************************************************************************)
(* The generator runs while it is not suspended and nothing was raised.    *)
(***************************************************************************)
Runs(where) == gpc = where /\ item = NoOffset /\ result = "running"

Yield(p) == /\ item' = p
            /\ handed' = Append(handed, p)
            /\ UNCHANGED <<args, report, result>>

Raise(what) == /\ result' = what
               /\ UNCHANGED <<args, generator, item, report>>

Exhausted == /\ gpc' = "exhausted"
             /\ UNCHANGED <<args, next, pos, seen, item, handed, report, result>>

------------------------------------------------------------------------------
YieldRawContainer == /\ Runs("open")
                     /\ file.shape = "container"
                     /\ Yield(0)
                     /\ gpc' = "exhausted"
                     /\ UNCHANGED <<next, pos, seen>>

RejectFile == /\ Runs("open")
              /\ file.shape \in {"empty", "unknown", "cubin"}
              /\ Raise("InputError")

\* The ELF library's own error is no ValueError.
LibraryError == /\ Runs("open")
                /\ file.shape = "bad ELF"
                /\ Raise("ELFError")

OpenELF == /\ Runs("open")
           /\ file.shape = "ELF"
           /\ gpc' = "wrappers"
           /\ UNCHANGED <<args, next, pos, seen, item, handed, report, result>>

(***************************************************************************)
(* va_to_off: the file offset of a virtual address, through the first      *)
(* section that has an address and covers it.                              *)
(***************************************************************************)
Covers(s, va) == s.addr > 0 /\ s.addr <= va /\ va < s.addr + s.size

VaToOff(elf, va) ==
  LET covering == {i \in DOMAIN elf.sections : Covers(elf.sections[i], va)}
      i == CHOOSE i \in covering : \A j \in covering : i <= j
  IN  IF covering = {} THEN NoOffset
      ELSE elf.sections[i].off + (va - elf.sections[i].addr)

Resolved(w) == w.valid /\ VaToOff(file, w.data) # NoOffset

SkipWrapper ==
  /\ Runs("wrappers")
  /\ next \in DOMAIN file.wrappers
  /\ ~Resolved(file.wrappers[next])
  /\ next' = next + 1
  /\ UNCHANGED <<args, gpc, pos, seen, item, handed, report, result>>

\* Mutant: the offset is not remembered for the chain.
YieldWrapperMutant ==
  /\ Runs("wrappers")
  /\ next \in DOMAIN file.wrappers
  /\ Resolved(file.wrappers[next])
  /\ Yield(VaToOff(file, file.wrappers[next].data))
  /\ next' = next + 1
  /\ UNCHANGED <<gpc, pos, seen>>

YieldWrapper ==
  /\ Runs("wrappers")
  /\ next \in DOMAIN file.wrappers
  /\ Resolved(file.wrappers[next])
  /\ Yield(VaToOff(file, file.wrappers[next].data))
  /\ seen' = seen \cup {item'}
  /\ next' = next + 1
  /\ UNCHANGED <<gpc, pos>>

WrappersDone == Runs("wrappers") /\ next \notin DOMAIN file.wrappers

\* Mutant: a missing section is an error even after wrappers were followed.
NoSectionMutant == /\ WrappersDone
                   /\ file.fatbin.off = NoOffset
                   /\ Raise("InputError")

NoSection == /\ WrappersDone
             /\ file.fatbin.off = NoOffset
             /\ IF seen = {} THEN Raise("InputError") ELSE Exhausted

\* Mutant: the section is walked only when no wrapper led anywhere.
EnterSectionMutant ==
  /\ WrappersDone
  /\ file.fatbin.off # NoOffset
  /\ gpc' = IF seen = {} THEN "chain" ELSE "exhausted"
  /\ pos' = file.fatbin.off
  /\ UNCHANGED <<args, next, seen, item, handed, report, result>>

EnterSection ==
  /\ WrappersDone
  /\ file.fatbin.off # NoOffset
  /\ gpc' = "chain"
  /\ pos' = file.fatbin.off
  /\ UNCHANGED <<args, next, seen, item, handed, report, result>>

------------------------------------------------------------------------------
(***************************************************************************)
(* walk_nv_fatbin.  One step is one round of its loop with the test find_  *)
(* containers makes of what it yields.  The stride adds the u64 size, and  *)
(* the walk goes on only after what was yielded has been dealt with.       *)
(***************************************************************************)
InSection(p) == p + 1 <= file.fatbin.off + file.fatbin.size

ChainStride(p) == file.header[p].first + file.header[p].size

EndOfChain == Runs("chain") /\ ~InSection(pos) /\ Exhausted

\* from_buffer_copy of fewer than 16 bytes raises ValueError.
SectionPastFile == /\ Runs("chain") /\ InSection(pos) /\ ~Fits(pos)
                   /\ Raise("ValueError")

BrokenChain == /\ Runs("chain") /\ InSection(pos) /\ Fits(pos)
               /\ ~HasMagic(pos)
               /\ Exhausted

Linked == Runs("chain") /\ InSection(pos) /\ Fits(pos) /\ HasMagic(pos)

\* Mutant: a stride of zero does not end the walk.
AdvanceMutant == /\ pos' = pos + ChainStride(pos)
                 /\ UNCHANGED <<gpc, next, seen>>

Advance == /\ gpc' = IF ChainStride(pos) = 0 THEN "exhausted" ELSE "chain"
           /\ pos' = pos + ChainStride(pos)
           /\ UNCHANGED <<next, seen>>

ChainKnown == /\ Linked /\ pos \in seen
              /\ Advance
              /\ UNCHANGED <<args, item, handed, report, result>>

ChainYield == /\ Linked /\ pos \notin seen
              /\ Yield(pos)
              /\ Advance

Generator == \/ YieldRawContainer \/ RejectFile \/ LibraryError \/ OpenELF
             \/ SkipWrapper \/ YieldWrapper \/ NoSection \/ EnterSection
             \/ EndOfChain \/ SectionPastFile \/ BrokenChain
             \/ ChainKnown \/ ChainYield

------------------------------------------------------------------------------
(***************************************************************************)
(* The caller: parse_container at the offset yielded.  describe lets what  *)
(* it raises through, and its report is lost; survey_file counts the       *)
(* container and goes on.                                                  *)
(***************************************************************************)
Suspended == item # NoOffset /\ result = "running"

Parses(p) == Fits(p) /\ HasMagic(p)

ParseError(p) == IF Fits(p) THEN "ValueError" ELSE "InputError"

ParseItem == /\ Suspended /\ Parses(item)
             /\ out' = Append(out, item)
             /\ item' = NoOffset
             /\ UNCHANGED <<args, generator, skipped, result>>

DescribeAborts == /\ Suspended /\ ~Parses(item)
                  /\ caller = "describe"
                  /\ Raise(ParseError(item))

\* Mutant: the survey passes over the container without counting it.
SurveySkipsMutant == /\ Suspended /\ ~Parses(item)
                     /\ caller = "survey"
                     /\ item' = NoOffset
                     /\ UNCHANGED <<args, generator, report, result>>

SurveySkips == /\ Suspended /\ ~Parses(item)
               /\ caller = "survey"
               /\ skipped' = Append(skipped, item)
               /\ item' = NoOffset
               /\ UNCHANGED <<args, generator, out, result>>

Return == /\ Runs("exhausted")
          /\ result' = "returned"
          /\ UNCHANGED <<args, generator, item, report>>

Caller == ParseItem \/ DescribeAborts \/ SurveySkips \/ Return

Next == Generator \/ Caller

Spec == Init /\ [][Next]_vars

(***************************************************************************)
(* One thread runs both sides, and runs on.                                *)
(***************************************************************************)
FairSpec == Spec /\ WF_vars(Next)

------------------------------------------------------------------------------
Elements(s) == {s[i] : i \in DOMAIN s}

(***************************************************************************)
(* The containers a file has: those the wrappers point at, and those on    *)
(* the chain of headers through .nv_fatbin.                                *)
(***************************************************************************)
Registered == {VaToOff(file, file.wrappers[i].data) :
                 i \in {j \in DOMAIN file.wrappers : Resolved(file.wrappers[j])}}

Links == {p \in 0..(file.len - 1) : InSection(p) /\ HasMagic(p)}

(***************************************************************************)
(* The chain is the least set of links that holds the start of the section *)
(* and, with every link, the one its stride leads to.                      *)
(***************************************************************************)
HoldsTheChain(S) ==
  /\ file.fatbin.off \in Links => file.fatbin.off \in S
  /\ \A p \in S : p + ChainStride(p) \in Links => p + ChainStride(p) \in S

Chained ==
  IF file.fatbin.off = NoOffset THEN {}
  ELSE {p \in Links : \A S \in SUBSET Links : HoldsTheChain(S) => p \in S}

(***************************************************************************)
(* A call that returns on an ELF has been handed exactly the containers    *)
(* registered or chained, whichever way each was found: wrappers that      *)
(* resolve do not hide the ones that do not (find_containers, "For those,  *)
(* and for anything else the wrapper path cannot resolve, .nv_fatbin is    *)
(* walked directly instead").                                              *)
(***************************************************************************)
EveryContainerIsHanded ==
  (result = "returned" /\ file.shape = "ELF")
    => Elements(handed) = Registered \cup Chained

(***************************************************************************)
(* A container found both ways is handed over once, and the chain never    *)
(* hands one over twice: two equal offsets come from two wrapper records.  *)
(***************************************************************************)
OnlyWrappersRepeat ==
  \A i, j \in DOMAIN handed :
    (i # j /\ handed[i] = handed[j]) =>
      Cardinality({n \in DOMAIN file.wrappers :
                     /\ Resolved(file.wrappers[n])
                     /\ VaToOff(file, file.wrappers[n].data) = handed[i]}) > 1

(***************************************************************************)
(* "It carries no GPU code this tool can read" is never said of a file     *)
(* that has a container to read: the generator raises InputError only      *)
(* before it has yielded anything, and only where nothing is to be found.  *)
(***************************************************************************)
RejectedFilesHoldNothing ==
  (result = "InputError" /\ item = NoOffset) =>
    /\ handed = <<>>
    /\ file.shape = "ELF" => Registered = {} /\ Chained = {}

(***************************************************************************)
(* Every container handed over is in the caller's report, in order, or was *)
(* given up and counted; describe gives up none, so a report it returns    *)
(* leaves nothing out (describe; survey_file, notes += 1).                 *)
(***************************************************************************)
ReportAccountsForEveryContainer ==
  result = "returned" =>
    /\ Len(out) + Len(skipped) = Len(handed)
    /\ Elements(out) \cup Elements(skipped) = Elements(handed)
    /\ caller = "describe" => out = handed

(***************************************************************************)
(* "Chaining cannot land in the middle of an entry" (the docstring of      *)
(* walk_nv_fatbin).                                                        *)
(***************************************************************************)
ChainingNeverLandsInAnEntry ==
  gpc = "chain" =>
    \A i \in DOMAIN out :
      ~ (out[i] < pos /\ pos < out[i] + file.header[out[i]].first
                                + file.header[out[i]].reach)

(***************************************************************************)
(* Discovery ends on every file, whatever sizes its headers declare.       *)
(***************************************************************************)
DiscoveryEnds == <>(result # "running")
==============================================================================
