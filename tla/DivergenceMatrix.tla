-------------------------- MODULE DivergenceMatrix --------------------------
(***************************************************************************)
(* divergence_matrix.py and the process it runs once per row, loader.cpp:  *)
(* what the GPU ran, as read from the child's exit status and output,      *)
(* against what the scanners and would_execute say of the same container.  *)
(*                                                                         *)
(* The driver is external: it selects any entry or none, refuses it or     *)
(* not, fails any call and may never return.  On a faithful host it        *)
(* selects and refuses as would_execute and payload_rejected say.          *)
(***************************************************************************)
EXTENDS Readings

CONSTANTS Files,    \* the containers of the corpus
          Cases,    \* CASES: the file of each row, and whether its env forces the JIT
          Corpora,  \* what the build left: the entries of each file
          Absent,   \* a file that was not built
          Broken,   \* a file parse_container raises on
          Hosts,    \* the machines the script runs on
          NoChild

Variants == {"variant_a", "variant_b"}

NOTHING == "nothing runs"

(***************************************************************************)
(* What a launched kernel leaves in the buffer: a variant's marker, the    *)
(* sentinel it found there, or another value.                              *)
(***************************************************************************)
Markers == Variants \cup {"untouched", "other"}

(***************************************************************************)
(* An entry with what the script reads in its payload: whether it is an    *)
(* ELF, text or missing, the variant its hash is listed under, the markers *)
(* that stand in it; and what its kernel writes.                           *)
(***************************************************************************)
Part == [kind : Kinds, arch : Nat, flags : SUBSET FlagBits,
         elfArch : Nat \cup {NoArch},
         form : {"none", "elf", "text"}, digest : Variants \cup {"unlisted"},
         marks : SUBSET Variants, runs : Markers]

(***************************************************************************)
(* A host: the GPU, the --sm asked about, the variants that the path of    *)
(* the checkout happens to name, CUDA_FORCE_PTX_JIT in the environment,    *)
(* what an earlier run left in the JIT cache, and the driver's faith.      *)
(***************************************************************************)
Host == [gpu : Target, asked : Nat, path : SUBSET Variants, forced : BOOLEAN,
         cached : Variants \cup {"nothing"}, faithful : BOOLEAN, built : BOOLEAN]

ASSUME CasesAssumption == Cases \in Seq([file : Files, forced : BOOLEAN])
ASSUME CorporaAssumption ==
  \A corpus \in Corpora : DOMAIN corpus = Files /\
    \A f \in Files : corpus[f] \in Seq(Part) \cup {Absent, Broken}
ASSUME HostsAssumption == Hosts \subseteq Host

VARIABLES host, corpus,
          child,   \* the loader of the current row, NoChild between rows
          rows,    \* the rows measured so far
          wrong,   \* the tally of each column
          status   \* "running", then "clean", "dirty" or "stopped"

args == <<host, corpus>>
vars == <<args, child, rows, wrong, status>>

Columns == Scanners \cup {"precedence-aware"}

Init == /\ host \in Hosts /\ corpus \in Corpora
        /\ child = NoChild
        /\ rows = <<>> /\ wrong = [l \in Columns |-> 0]
        /\ status = "running"

Case == Cases[Len(rows) + 1]

Entries(k) == corpus[k.file]

------------------------------------------------------------------------------
(***************************************************************************)
(* The names of entries.  Wherever a variant is searched for, variant_a is *)
(* searched for first.                                                     *)
(***************************************************************************)
FirstNamed(words, otherwise) ==
  IF "variant_a" \in words THEN "variant_a"
  ELSE IF "variant_b" \in words THEN "variant_b" ELSE otherwise

Identify(p) ==
  CASE p.form = "none" -> "?"
    [] p.form = "elf"  -> IF p.digest # "unlisted" THEN p.digest
                          ELSE FirstNamed(p.marks, "unknown cubin")
    [] p.form = "text" -> FirstNamed(p.marks, "unknown ptx")

Name(c, selected) ==
  IF selected = {} THEN NOTHING ELSE Identify(c[CHOOSE i \in selected : TRUE])

Asked == [sm |-> host.asked, suffix |-> ""]

RowPolicy(k) == IF k.forced THEN "force-ptx-jit" ELSE "default"

Winner(k) == Selected(Entries(k), Asked, RowPolicy(k))

Aware(k) ==
  IF \E i \in Winner(k) : PayloadRejected(Entries(k)[i], Asked)
  THEN "rejected at load" ELSE Name(Entries(k), Winner(k))

Cell(label, k) ==
  IF label = "precedence-aware" THEN Aware(k)
  ELSE Name(Entries(k), Reading(label, Entries(k), host.asked))

------------------------------------------------------------------------------
(***************************************************************************)
(* The child.  Every call is checked: one that fails prints the name of    *)
(* its error and exits with 1.                                             *)
(***************************************************************************)
\* Mutant: the row's variables are added to an environment that may cache.
ChildEnvMutant(k) == [cacheDisabled |-> FALSE, forced |-> host.forced \/ k.forced]

ChildEnv(k) == [cacheDisabled |-> TRUE, forced |-> host.forced \/ k.forced]

Loader(k) == [at |-> "load", env |-> ChildEnv(k), chosen |-> {}, refused |-> FALSE,
              buffer |-> "other", stdout |-> {}, stderr |-> "", code |-> 0]

Alive == child # NoChild

At(step) == Alive /\ child.at = step

Becomes(next) == /\ child' = next
                 /\ UNCHANGED <<args, rows, wrong, status>>

Exits(next, error) ==
  Becomes([next EXCEPT !.at = "exited", !.stderr = error, !.code = 1])

Steps == {"load", "find", "fill", "launch", "synchronise", "print", "tear down"}

CallFails == /\ Alive /\ child.at \in Steps
             /\ Exits(child, "another error")

Spin == /\ At("load")
        /\ Becomes([child EXCEPT !.at = "spinning"])

HostPolicy == IF child.env.forced THEN "force-ptx-jit" ELSE "default"

MaySelect(selected) ==
  host.faithful => selected = Selected(Entries(Case), host.gpu, HostPolicy)

MayRefuse(i) ==
  host.faithful => \/ PayloadRejected(Entries(Case)[i], host.gpu)
                   \/ 16 \in Entries(Case)[i].flags

MayAccept(i) ==
  host.faithful => ~PayloadRejected(Entries(Case)[i], host.gpu)

NoBinary == /\ At("load") /\ MaySelect({})
            /\ Exits(child, "NO_BINARY_FOR_GPU")

Refuse == /\ At("load")
          /\ \E i \in DOMAIN Entries(Case), error \in {"INVALID_SOURCE", "INVALID_PTX"} :
               /\ MaySelect({i}) /\ MayRefuse(i)
               /\ Exits([child EXCEPT !.chosen = {i}, !.refused = TRUE], error)

Load == /\ At("load")
        /\ \E i \in DOMAIN Entries(Case) :
             /\ MaySelect({i}) /\ MayAccept(i)
             /\ Becomes([child EXCEPT !.at = "find", !.chosen = {i}])

\* The buffer is device memory that an earlier process may have written.
FindAndAllocate == /\ At("find")
                   /\ \E m \in Markers :
                        Becomes([child EXCEPT !.at = "fill", !.buffer = m])

\* Mutant: the buffer is used as it was allocated.
FillMutant == At("fill") /\ Becomes([child EXCEPT !.at = "launch"])

Fill == /\ At("fill")
        /\ Becomes([child EXCEPT !.at = "launch", !.buffer = "untouched"])

Launch == At("launch") /\ Becomes([child EXCEPT !.at = "synchronise"])

Module == CHOOSE i \in child.chosen : TRUE

JitResult == IF child.env.cacheDisabled \/ host.cached = "nothing"
             THEN Entries(Case)[Module].runs ELSE host.cached

Written == IF Entries(Case)[Module].kind = "PTX" THEN JitResult
           ELSE Entries(Case)[Module].runs

Synchronise ==
  /\ At("synchronise")
  /\ Becomes([child EXCEPT !.at = "print",
                           !.buffer = IF Written = "untouched" THEN @ ELSE Written])

\* The words of the output that are names of variants: the path and the marker.
PrintMarker ==
  /\ At("print")
  /\ Becomes([child EXCEPT !.at = "tear down",
                           !.stdout = host.path \cup ({child.buffer} \cap Variants)])

TearDown == At("tear down") /\ Becomes([child EXCEPT !.at = "exited"])

Child == \/ CallFails \/ Spin \/ NoBinary \/ Refuse \/ Load
         \/ FindAndAllocate \/ Fill \/ Launch \/ Synchronise \/ PrintMarker
         \/ TearDown

------------------------------------------------------------------------------
(***************************************************************************)
(* run_driver reads the child's result; the rest of the row follows.       *)
(***************************************************************************)
\* Mutant: output in which no variant is named leaves no word.
DriverWordMutant(c) ==
  IF c.code = 0 THEN FirstNamed(c.stdout, "")
  ELSE IF c.stderr = "NO_BINARY_FOR_GPU" THEN NOTHING
  ELSE IF c.stderr = "INVALID_SOURCE" THEN "rejected at load" ELSE "load error"

DriverWord(c) ==
  IF c.code = 0 THEN FirstNamed(c.stdout, "unrecognised")
  ELSE IF c.stderr = "NO_BINARY_FOR_GPU" THEN NOTHING
  ELSE IF c.stderr = "INVALID_SOURCE" THEN "rejected at load" ELSE "load error"

\* Mutant: a reading that names no entry is not counted as wrong.
RecordMutant(word) ==
  /\ rows' = Append(rows, [driver |-> word, chosen |-> child.chosen,
                           refused |-> child.refused])
  /\ wrong' = [l \in Columns |->
       IF Cell(l, Case) \notin {word, NOTHING} THEN wrong[l] + 1 ELSE wrong[l]]
  /\ child' = NoChild
  /\ UNCHANGED <<args, status>>

Record(word) ==
  /\ rows' = Append(rows, [driver |-> word, chosen |-> child.chosen,
                           refused |-> child.refused])
  /\ wrong' = [l \in Columns |->
       IF Cell(l, Case) # word THEN wrong[l] + 1 ELSE wrong[l]]
  /\ child' = NoChild
  /\ UNCHANGED <<args, status>>

Collect == At("exited") /\ Record(DriverWord(child))

\* Mutant: a child that ran out of time is waited for again.
TimeoutMutant == Alive /\ UNCHANGED vars

Timeout == Alive /\ Record("driver did not return")

AtRow == status = "running" /\ ~Alive /\ Len(rows) < Len(Cases)

Ends(how) == status' = how /\ UNCHANGED <<args, child, rows, wrong>>

Stop == /\ AtRow
        /\ ~host.built \/ Entries(Case) \in {Absent, Broken}
        /\ Ends("stopped")

RunLoader == /\ AtRow
             /\ host.built /\ Entries(Case) \notin {Absent, Broken}
             /\ Becomes(Loader(Case))

Finish == /\ status = "running" /\ ~Alive /\ Len(rows) = Len(Cases)
          /\ Ends(IF wrong["precedence-aware"] = 0 THEN "clean" ELSE "dirty")

Script == Stop \/ RunLoader \/ Collect \/ Finish

Next == Script \/ Child \/ Timeout

Spec == Init /\ [][Next]_vars

(***************************************************************************)
(* The interpreter runs, and sixty seconds pass.  Nothing is asked of the  *)
(* child.                                                                  *)
(***************************************************************************)
FairSpec == Spec /\ WF_vars(Script) /\ WF_vars(Timeout)

------------------------------------------------------------------------------
(***************************************************************************)
(* A row is recorded for each loader that was run, a loader runs only for  *)
(* a row that is not recorded yet, and what it selects is an entry of the  *)
(* row's own file.                                                         *)
(***************************************************************************)
Words == Variants \cup {NOTHING, "rejected at load", "load error",
                        "driver did not return", "unrecognised"}

Errors == {"", "another error", "NO_BINARY_FOR_GPU", "INVALID_SOURCE", "INVALID_PTX"}

Row == [driver : Words, chosen : SUBSET Nat, refused : BOOLEAN]

LoaderType == [at : Steps \cup {"spinning", "exited"},
               env : [cacheDisabled : BOOLEAN, forced : BOOLEAN],
               chosen : SUBSET Nat, refused : BOOLEAN, buffer : Markers,
               stdout : SUBSET Variants, stderr : Errors, code : {0, 1}]

ASSUME ChildAssumption == NoChild \notin LoaderType

MatrixTypeOK ==
  /\ host \in Hosts /\ corpus \in Corpora
  /\ rows \in Seq(Row) /\ Len(rows) <= Len(Cases)
  /\ \A r \in DOMAIN rows : rows[r].chosen \subseteq DOMAIN Entries(Cases[r])
  /\ wrong \in [Columns -> Nat]
  /\ status \in {"running", "clean", "dirty", "stopped"}
  /\ Alive => /\ status = "running" /\ Len(rows) < Len(Cases)
              /\ child \in LoaderType
              /\ child.chosen \subseteq DOMAIN Entries(Case)

(***************************************************************************)
(* The driver column is ground truth: whatever the driver does, a row that *)
(* names a variant names what the entry its own child selected wrote, a    *)
(* row where nothing ran had nothing selected, a rejection was a refusal.  *)
(* Memory and cached code of earlier runs, a call that fails after the     *)
(* marker was printed and a child that never returns do not get in.  What  *)
(* does is a variant's name in the path of the image, which the loader     *)
(* prints and run_driver searches with the rest.                           *)
(***************************************************************************)
Seen(marker) == IF marker \in Variants THEN marker ELSE "unrecognised"

IsWhatRan(row, parts) ==
  \/ row.driver \in {"load error", "driver did not return"}
  \/ row.driver = NOTHING /\ row.chosen = {}
  \/ row.driver = "rejected at load" /\ row.refused
  \/ row.driver \in host.path
  \/ /\ ~row.refused
     /\ \E i \in row.chosen : row.driver = Seen(parts[i].runs)

ColumnIsWhatRan == \A r \in DOMAIN rows : IsWhatRan(rows[r], Entries(Cases[r]))

(***************************************************************************)
(* The exit status is evidence: 0 means that every case was measured and   *)
(* that in each the GPU did what would_execute and payload_rejected say,   *)
(* where the path names no variant.  No failure, timeout or unidentified   *)
(* payload passes for an agreement ("it should agree with the driver on    *)
(* every row", the head of the file).                                      *)
(***************************************************************************)
DidAsPredicted(r) ==
  LET parts == Entries(Cases[r]) IN
    IF Winner(Cases[r]) = {} THEN rows[r].chosen = {}
    ELSE IF \E i \in Winner(Cases[r]) : PayloadRejected(parts[i], Asked)
    THEN rows[r].refused
    ELSE \E i \in Winner(Cases[r]), j \in rows[r].chosen :
           ~rows[r].refused /\ Identify(parts[i]) = parts[j].runs

CleanExitIsEvidence ==
  (status = "clean" /\ host.path = {}) =>
    Len(rows) = Len(Cases) /\ \A r \in DOMAIN rows : DidAsPredicted(r)

(***************************************************************************)
(* No false alarm: a row whose last column disagrees with a driver that    *)
(* keeps the rule has a cause the script could not see.  The loader        *)
(* failed, the GPU is not the one asked about, the environment already     *)
(* forces the JIT (the policy is read from the row alone), the path names  *)
(* a variant, or the winner's payload does not say what its kernel writes. *)
(***************************************************************************)
Misjudged(r) == rows[r].driver # Aware(Cases[r])

WrongRowsAreExplained ==
  \A r \in DOMAIN rows : Misjudged(r) =>
    \/ ~host.faithful
    \/ rows[r].driver \in {"load error", "driver did not return"}
    \/ host.gpu # Asked
    \/ host.forced /\ ~Cases[r].forced
    \/ host.path # {}
    \/ \E i \in Winner(Cases[r]) :
         \/ Identify(Entries(Cases[r])[i]) # Seen(Entries(Cases[r])[i].runs)
         \/ 16 \in Entries(Cases[r])[i].flags

(***************************************************************************)
(* The inductive invariant: what a loader holds at each of its steps, and  *)
(* the two facts about the rows that the properties above come from.       *)
(***************************************************************************)
Loaded(c) == ~c.refused /\ \E i \in DOMAIN Entries(Case) : c.chosen = {i}

LoaderInv(c) ==
  /\ Entries(Case) \in Seq(Part)
  /\ c.env.cacheDisabled
  /\ c.at \in Steps \ {"load"} => Loaded(c) /\ c.code = 0
  /\ c.at \in {"load", "spinning"} => c.chosen = {} /\ ~c.refused /\ c.code = 0
  /\ c.at \in {"launch", "synchronise"} => c.buffer = "untouched"
  /\ c.at = "print" => \A i \in c.chosen : c.buffer = Entries(Case)[i].runs
  /\ c.at \in {"tear down", "exited"} /\ c.code = 0 =>
       /\ Loaded(c)
       /\ \A i \in c.chosen :
            c.stdout = host.path \cup ({Entries(Case)[i].runs} \cap Variants)
  /\ c.at = "exited" /\ c.code = 1 =>
       /\ c.stderr = "NO_BINARY_FOR_GPU" => c.chosen = {}
       /\ c.stderr = "INVALID_SOURCE" => c.refused

NoneWrong == \A r \in DOMAIN rows : rows[r].driver = Aware(Cases[r])

MatrixInv ==
  /\ MatrixTypeOK
  /\ Alive => LoaderInv(child)
  /\ ColumnIsWhatRan
  /\ \A r \in DOMAIN rows : Entries(Cases[r]) \in Seq(Part)
  /\ wrong["precedence-aware"] = 0 => NoneWrong
  /\ status = "clean" => wrong["precedence-aware"] = 0 /\ Len(rows) = Len(Cases)

(***************************************************************************)
(* The matrix ends, whatever the driver does with a container ("Record it  *)
(* rather than hanging the matrix on it").                                 *)
(***************************************************************************)
MatrixEnds == <>(status # "running")
==============================================================================
