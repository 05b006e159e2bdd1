--------------------------- MODULE SelectionReport ---------------------------
(***************************************************************************)
(* The record describe builds when would_execute has returned, and what    *)
(* print_report makes of it: the mark on the entry that executes, the line *)
(* for a container that will not load or whose selected entry is refused,  *)
(* and a DIVERGENCE line for each scanner that names another entry.        *)
(***************************************************************************)
EXTENDS EntrySelection, Readings

Said(i) == IF i = NoEntry THEN {} ELSE {i}

RejectedAtLoad == best # NoEntry /\ PayloadRejected(container[best], target)

Read(scanner) == Reading(scanner, container, target.sm)

\* Mutant: a scanner is compared with the driver only where one entry runs.
DivergencesMutant == {s \in Scanners : /\ best # NoEntry
                                       /\ Read(s) # {} /\ Read(s) # Said(best)}

Divergences == {s \in Scanners : Read(s) # {} /\ Read(s) # Said(best)}

LoadLines == IF best = NoEntry THEN {"will not load"}
             ELSE IF RejectedAtLoad THEN {"will be refused"} ELSE {}

Report == [executes |-> Said(best), lines |-> LoadLines \cup Divergences]

------------------------------------------------------------------------------
(***************************************************************************)
(* A report that has no line to print says that the marked entry is loaded *)
(* and that every scanner names it.  The code prints no DIVERGENCE for a   *)
(* scanner that finds no entry: that hides nothing, because every entry a  *)
(* driver selects is one all three scanners would have settled for         *)
(* (print_report, "naive is not None and naive != would_execute").         *)
(***************************************************************************)
SilentReportMeansAgreement ==
  /\ Report.lines = {} => /\ Report.executes = Said(best) /\ best # NoEntry
                          /\ ~RejectedAtLoad
                          /\ \A s \in Scanners : Read(s) = Said(best)
  /\ \A s \in Scanners : Read(s) # Said(best) => s \in Report.lines

(***************************************************************************)
(* An ordinary shipped library, in the words of naive_exact_arch: one      *)
(* entry per architecture, in ascending order.  Plain cubins of the        *)
(* targets fatbinary emits by default, with no suffix and no bit 24.       *)
(***************************************************************************)
OrdinaryLibrary ==
  /\ \A i \in DOMAIN container :
       container[i].kind = "ELF" /\ container[i].flags = {}
  /\ \A i, j \in DOMAIN container : i < j => container[i].arch < container[j].arch

(***************************************************************************)
(* On such a library the exact reading is right when the library was built *)
(* for this very GPU (naive_exact_arch, "it is RIGHT on ordinary shipped   *)
(* libraries", which needs this condition); and whenever the first-match   *)
(* reading is right too, no two candidates were in competition.            *)
(***************************************************************************)
ExactArchRightWhenBuiltForTheGPU ==
  (policy = "default" /\ target.suffix = "" /\ OrdinaryLibrary
     /\ OfTheGPU(container, target.sm) # {})
    => /\ "exact-arch" \notin Report.lines
       /\ "first-match" \notin Report.lines => Cardinality(pool) = 1

(***************************************************************************)
(* Where a kind above PTX is a candidate, a scanner that prefers text never *)
(* names the entry that runs, and it always has text to name when there is *)
(* any not newer than the GPU (naive_prefer_ptx against level 1 of         *)
(* would_execute).                                                         *)
(***************************************************************************)
PreferPTXWrongBesideCubin ==
  (policy = "default" /\ ReadablePTX(container, target.sm) # {}
     /\ \E i \in pool : container[i].kind # "PTX")
    => "prefer-PTX" \in Report.lines

(***************************************************************************)
(* What a reader may take from the report: silence means agreement, and    *)
(* the scanners are right and wrong where the file says they are.          *)
(***************************************************************************)
ReportAgainstTheRule ==
  pc = "done" => /\ SilentReportMeansAgreement
                 /\ ExactArchRightWhenBuiltForTheGPU
                 /\ PreferPTXWrongBesideCubin
==============================================================================
