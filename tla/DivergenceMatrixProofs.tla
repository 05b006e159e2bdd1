----------------------- MODULE DivergenceMatrixProofs -----------------------
(***************************************************************************)
(* The driver column is ground truth and a clean exit is evidence, on      *)
(* every host, for every corpus and for whatever the driver does.          *)
(***************************************************************************)
EXTENDS DivergenceMatrix, TLAPS

(***************************************************************************)
(* A kernel's marker is one of the markers, whatever entry it is read at.  *)
(***************************************************************************)
LEMMA RunsAMarker ==
  ASSUME NEW parts \in Seq(Part), NEW i \in DOMAIN parts
  PROVE  parts[i] \in Part /\ parts[i].runs \in Markers
<1>1. parts[i] \in Part
  OBVIOUS
<1>. QED
  BY <1>1 DEF Part

(***************************************************************************)
(* What run_driver makes of a loader that ended is true of the entry it    *)
(* selected.                                                               *)
(***************************************************************************)
Measured(c, word) == [driver |-> word, chosen |-> c.chosen, refused |-> c.refused]

LEMMA WordIsTrue ==
  ASSUME NEW c \in LoaderType, LoaderInv(c), c.at = "exited",
         host.path \in SUBSET Variants
  PROVE  /\ DriverWord(c) \in Words
         /\ IsWhatRan(Measured(c, DriverWord(c)), Entries(Case))
<1> DEFINE word == DriverWord(c)
           parts == Entries(Case)
<1>1. CASE c.code = 0
  <2>1. PICK i \in DOMAIN parts : c.chosen = {i} /\ ~c.refused
        /\ c.stdout = host.path \cup ({parts[i].runs} \cap Variants)
    BY <1>1 DEF LoaderInv, Loaded
  <2>2. word = FirstNamed(c.stdout, "unrecognised")
    BY <1>1 DEF DriverWord
  <2>3. parts[i].runs \in Markers
    BY RunsAMarker DEF LoaderInv
  <2>4. word \in Variants => word \in host.path \/ word = parts[i].runs
    BY <2>1, <2>2 DEF FirstNamed, Variants
  <2>5. word \in Variants \cup {"unrecognised"}
    BY <2>2 DEF FirstNamed, Variants
  <2>6. word = "unrecognised" => parts[i].runs \notin Variants
    BY <2>1, <2>2 DEF FirstNamed, Variants
  <2>7. word \in host.path \/ word = Seen(parts[i].runs)
    BY <2>4, <2>5, <2>6 DEF Seen, Variants
  <2>. QED
    BY <2>1, <2>5, <2>7 DEF IsWhatRan, Measured, Words, Variants, NOTHING
<1>2. CASE c.code = 1
  <2>1. /\ c.stderr = "NO_BINARY_FOR_GPU" => c.chosen = {}
        /\ c.stderr = "INVALID_SOURCE" => c.refused
    BY <1>2 DEF LoaderInv
  <2>2. word = IF c.stderr = "NO_BINARY_FOR_GPU" THEN NOTHING
               ELSE IF c.stderr = "INVALID_SOURCE" THEN "rejected at load"
               ELSE "load error"
    BY <1>2 DEF DriverWord
  <2>3. word \in Words
    BY <2>2 DEF Words
  <2>4. IsWhatRan(Measured(c, word), parts)
    BY <2>1, <2>2 DEF IsWhatRan, Measured, NOTHING
  <2>. QED
    BY <2>3, <2>4
<1>. QED
  BY <1>1, <1>2 DEF LoaderType

(***************************************************************************)
(* The first row, and the initial states.                                  *)
(***************************************************************************)
LEMMA InitEstablishesMatrixInv == Init => MatrixInv
<1>. SUFFICES ASSUME Init PROVE MatrixInv
  OBVIOUS
<1>1. rows = <<>> /\ Len(rows) = 0 /\ DOMAIN rows = {} /\ rows \in Seq(Row)
  BY DEF Init
<1>2. ~Alive
  BY DEF Init, Alive
<1>3. Len(Cases) \in Nat
  BY CasesAssumption
<1>4. wrong \in [Columns -> Nat]
  BY DEF Init
<1>. QED
  BY <1>1, <1>2, <1>3, <1>4
     DEF Init, MatrixInv, MatrixTypeOK, ColumnIsWhatRan, NoneWrong
(***************************************************************************)
(* The machine and the corpus stay what they are, so a file's entries and  *)
(* the last column's word for a row do.                                    *)
(***************************************************************************)
LEMMA ArgumentsStay ==
  ASSUME UNCHANGED args
  PROVE  \A k : Entries(k)' = Entries(k) /\ Aware(k)' = Aware(k)
BY DEF args, Entries, Aware, Winner, Asked, Name

(***************************************************************************)
(* A step of the loader keeps the invariant when what the loader becomes   *)
(* does: nothing else changes.                                             *)
(***************************************************************************)
LEMMA LoaderStep ==
  ASSUME MatrixInv, status = "running", Len(rows) < Len(Cases),
         NEW next \in LoaderType, next.chosen \subseteq DOMAIN Entries(Case),
         LoaderInv(next), Becomes(next)
  PROVE  MatrixInv' /\ child' \in LoaderType
<1>1. UNCHANGED args /\ UNCHANGED <<rows, wrong, status>> /\ child' = next
  BY DEF Becomes
<1>2. Case' = Case /\ Entries(Case)' = Entries(Case)
  BY <1>1, ArgumentsStay DEF Case, Entries, args
<1>3. MatrixTypeOK'
  BY <1>1, <1>2 DEF MatrixInv, MatrixTypeOK, args, Entries, Case, Alive
<1>4. Alive' => LoaderInv(child)'
  BY <1>1, <1>2 DEF LoaderInv, Loaded, args
<1>5. ColumnIsWhatRan' /\ \A r \in DOMAIN rows' : Entries(Cases[r])' \in Seq(Part)
  BY <1>1, ArgumentsStay DEF MatrixInv, ColumnIsWhatRan, IsWhatRan, args
<1>6. wrong'["precedence-aware"] = 0 => NoneWrong'
  BY <1>1, ArgumentsStay DEF MatrixInv, NoneWrong
<1>. QED
  BY <1>1, <1>3, <1>4, <1>5, <1>6 DEF MatrixInv

(***************************************************************************)
(* A call that fails ends the loader with a complaint of its own.          *)
(***************************************************************************)
LEMMA ExitStep ==
  ASSUME MatrixInv, Alive, NEW c \in LoaderType, NEW error \in Errors,
         c.chosen \subseteq DOMAIN Entries(Case), LoaderInv(child),
         error = "NO_BINARY_FOR_GPU" => c.chosen = {},
         error = "INVALID_SOURCE" => c.refused,
         c.env = child.env, Exits(c, error)
  PROVE  MatrixInv' /\ child' \in LoaderType
<1> DEFINE next == [c EXCEPT !.at = "exited", !.stderr = error, !.code = 1]
<1>1. next \in LoaderType /\ next.chosen = c.chosen
  BY DEF LoaderType
<1>2. /\ next.at = "exited" /\ next.stderr = error /\ next.code = 1
      /\ next.refused = c.refused /\ next.env = c.env
  BY DEF LoaderType
<1>3. LoaderInv(next)
  <2>1. Entries(Case) \in Seq(Part) /\ next.env.cacheDisabled
    BY <1>2 DEF LoaderInv
  <2>2. next.at \notin Steps /\ next.at \notin {"load", "spinning"}
        /\ next.at \notin {"launch", "synchronise"} /\ next.at # "print"
    BY <1>2 DEF Steps
  <2>3. next.code # 0
    BY <1>2
  <2>4. /\ next.stderr = "NO_BINARY_FOR_GPU" => next.chosen = {}
        /\ next.stderr = "INVALID_SOURCE" => next.refused
    BY <1>1, <1>2
  <2> HIDE DEF next
  <2>. QED
    BY <2>1, <2>2, <2>3, <2>4 DEF LoaderInv
<1>4. Becomes(next) /\ status = "running" /\ Len(rows) < Len(Cases)
  BY DEF Exits, MatrixInv, MatrixTypeOK
<1>. QED
  BY <1>1, <1>3, <1>4, LoaderStep
(***************************************************************************)
(* What one step of the loader changes of it, for each step that goes on.  *)
(***************************************************************************)
LEMMA LoaderGoesOn ==
  ASSUME MatrixInv, Alive,
         \/ Spin \/ Load \/ FindAndAllocate \/ Fill \/ Launch
         \/ Synchronise \/ PrintMarker \/ TearDown
  PROVE  MatrixInv' /\ child' \in LoaderType
<1> DEFINE parts == Entries(Case)
<1>1. /\ child \in LoaderType /\ LoaderInv(child) /\ child.chosen \subseteq DOMAIN parts
      /\ status = "running" /\ Len(rows) < Len(Cases)
      /\ host \in Host
  BY HostsAssumption DEF MatrixInv, MatrixTypeOK
<1>2. parts \in Seq(Part) /\ child.env.cacheDisabled
  BY <1>1 DEF LoaderInv
<1>3. CASE Spin
  <2> DEFINE next == [child EXCEPT !.at = "spinning"]
  <2>1. At("load") /\ Becomes(next)
    BY <1>3 DEF Spin
  <2>2. next \in LoaderType /\ next.chosen = child.chosen
    BY <1>1 DEF LoaderType
  <2>3. LoaderInv(next)
    BY <1>1, <2>1, <2>2 DEF LoaderInv, LoaderType, At, Steps
  <2>. QED
    BY <1>1, <2>1, <2>2, <2>3, LoaderStep
<1>4. CASE Load
  <2>1. PICK i \in DOMAIN parts :
          At("load") /\ Becomes([child EXCEPT !.at = "find", !.chosen = {i}])
    BY <1>4 DEF Load
  <2> DEFINE next == [child EXCEPT !.at = "find", !.chosen = {i}]
  <2>2. next \in LoaderType /\ next.chosen = {i} /\ next.refused = child.refused
    <3>1. {i} \in SUBSET Nat
      BY <1>2
    <3>. QED
      BY <1>1, <3>1 DEF LoaderType, Steps
  <2>3. ~child.refused /\ child.code = 0
    BY <1>1, <2>1 DEF LoaderInv, At
  <2>4. LoaderInv(next)
    BY <1>1, <2>1, <2>2, <2>3 DEF LoaderInv, LoaderType, Loaded, At, Steps
  <2>. QED
    BY <1>1, <2>1, <2>2, <2>4, LoaderStep
<1>5. CASE FindAndAllocate
  <2>1. PICK m \in Markers :
          At("find") /\ Becomes([child EXCEPT !.at = "fill", !.buffer = m])
    BY <1>5 DEF FindAndAllocate
  <2> DEFINE next == [child EXCEPT !.at = "fill", !.buffer = m]
  <2>2. next \in LoaderType /\ next.chosen = child.chosen
    BY <1>1 DEF LoaderType, Steps
  <2>3. LoaderInv(next)
    BY <1>1, <2>1, <2>2 DEF LoaderInv, LoaderType, Loaded, At, Steps
  <2>. QED
    BY <1>1, <2>1, <2>2, <2>3, LoaderStep
<1>6. CASE Fill
  <2> DEFINE next == [child EXCEPT !.at = "launch", !.buffer = "untouched"]
  <2>1. At("fill") /\ Becomes(next)
    BY <1>6 DEF Fill
  <2>2. next \in LoaderType /\ next.chosen = child.chosen
    BY <1>1 DEF LoaderType, Markers, Steps
  <2>3. LoaderInv(next)
    BY <1>1, <2>1, <2>2 DEF LoaderInv, LoaderType, Loaded, At, Steps
  <2>. QED
    BY <1>1, <2>1, <2>2, <2>3, LoaderStep
<1>7. CASE Launch
  <2> DEFINE next == [child EXCEPT !.at = "synchronise"]
  <2>1. At("launch") /\ Becomes(next)
    BY <1>7 DEF Launch
  <2>2. next \in LoaderType /\ next.chosen = child.chosen
    BY <1>1 DEF LoaderType, Steps
  <2>3. LoaderInv(next)
    BY <1>1, <2>1, <2>2 DEF LoaderInv, LoaderType, Loaded, At, Steps
  <2>. QED
    BY <1>1, <2>1, <2>2, <2>3, LoaderStep
<1>8. CASE Synchronise
  <2> DEFINE marker == IF Written = "untouched" THEN child.buffer ELSE Written
             next == [child EXCEPT !.at = "print", !.buffer = marker]
  <2>1. At("synchronise") /\ Becomes(next)
    BY <1>8 DEF Synchronise
  <2>2. PICK i \in DOMAIN parts : child.chosen = {i}
    BY <1>1, <2>1 DEF LoaderInv, Loaded, At, Steps
  <2>3. Written = parts[i].runs
    BY <1>2, <2>2 DEF Written, Module, JitResult
  <2>4. marker = parts[i].runs
    BY <1>1, <2>1, <2>3 DEF LoaderInv, At
  <2>5. marker \in Markers
    BY <1>2, <2>4, RunsAMarker
  <2>6. next \in LoaderType /\ next.chosen = child.chosen /\ next.buffer = marker
    BY <1>1, <2>5 DEF LoaderType, Steps
  <2>7. LoaderInv(next)
    BY <1>1, <2>1, <2>2, <2>4, <2>6 DEF LoaderInv, LoaderType, Loaded, At, Steps
  <2>. QED
    BY <1>1, <2>1, <2>6, <2>7, LoaderStep
<1>9. CASE PrintMarker
  <2> DEFINE words == host.path \cup ({child.buffer} \cap Variants)
             next == [child EXCEPT !.at = "tear down", !.stdout = words]
  <2>1. At("print") /\ Becomes(next)
    BY <1>9 DEF PrintMarker
  <2>2. words \subseteq Variants
    BY <1>1 DEF Host
  <2>3. next \in LoaderType /\ next.chosen = child.chosen /\ next.stdout = words
    BY <1>1, <2>2 DEF LoaderType, Steps
  <2>4. \A i \in child.chosen : child.buffer = parts[i].runs
    BY <1>1, <2>1 DEF LoaderInv, At
  <2>5. LoaderInv(next)
    BY <1>1, <2>1, <2>3, <2>4 DEF LoaderInv, LoaderType, Loaded, At, Steps
  <2>. QED
    BY <1>1, <2>1, <2>3, <2>5, LoaderStep
<1>10. CASE TearDown
  <2> DEFINE next == [child EXCEPT !.at = "exited"]
  <2>1. At("tear down") /\ Becomes(next)
    BY <1>10 DEF TearDown
  <2>2. next \in LoaderType /\ next.chosen = child.chosen
    BY <1>1 DEF LoaderType
  <2>3. LoaderInv(next)
    <3>1. /\ Loaded(child) /\ child.code = 0
          /\ \A i \in child.chosen :
               child.stdout = host.path \cup ({parts[i].runs} \cap Variants)
      BY <1>1, <2>1 DEF LoaderInv, At, Steps
    <3>2. /\ next.at = "exited" /\ next.code = 0 /\ next.env = child.env
          /\ next.stdout = child.stdout /\ next.refused = child.refused
      BY <1>1, <3>1 DEF LoaderType
    <3>3. Loaded(next)
      BY <2>2, <3>1, <3>2 DEF Loaded
    <3>4. next.at \notin Steps
      BY <3>2 DEF Steps
    <3> HIDE DEF next
    <3>. QED
      BY <1>2, <2>2, <3>1, <3>2, <3>3, <3>4 DEF LoaderInv
  <2>. QED
    BY <1>1, <2>1, <2>2, <2>3, LoaderStep
<1>. QED
  BY <1>3, <1>4, <1>5, <1>6, <1>7, <1>8, <1>9, <1>10
LEMMA LoaderEnds ==
  ASSUME MatrixInv, CallFails \/ NoBinary \/ Refuse
  PROVE  MatrixInv' /\ child' \in LoaderType
<1> DEFINE parts == Entries(Case)
<1>1. Alive
  BY DEF CallFails, NoBinary, Refuse, At
<1>2. /\ child \in LoaderType /\ LoaderInv(child) /\ child.chosen \subseteq DOMAIN parts
      /\ parts \in Seq(Part)
  BY <1>1 DEF MatrixInv, MatrixTypeOK, LoaderInv
<1>3. CASE CallFails
  BY <1>1, <1>2, <1>3, ExitStep DEF CallFails, Errors
<1>4. CASE NoBinary
  <2>1. child.chosen = {}
    BY <1>2, <1>4 DEF NoBinary, At, LoaderInv
  <2>. QED
    BY <1>1, <1>2, <1>4, <2>1, ExitStep DEF NoBinary, Errors
<1>5. CASE Refuse
  <2>1. PICK i \in DOMAIN parts, error \in {"INVALID_SOURCE", "INVALID_PTX"} :
          Exits([child EXCEPT !.chosen = {i}, !.refused = TRUE], error)
    BY <1>5 DEF Refuse
  <2> DEFINE c == [child EXCEPT !.chosen = {i}, !.refused = TRUE]
  <2>2. {i} \in SUBSET Nat
    BY <1>2
  <2>3. c \in LoaderType /\ c.chosen = {i} /\ c.refused /\ c.env = child.env
    BY <1>2, <2>2 DEF LoaderType
  <2>4. error \in Errors /\ error # "NO_BINARY_FOR_GPU"
    BY DEF Errors
  <2>. QED
    BY <1>1, <1>2, <2>1, <2>3, <2>4, ExitStep
<1>. QED
  BY <1>3, <1>4, <1>5

(***************************************************************************)
(* A fresh loader has selected nothing, and its environment disables the   *)
(* cache.                                                                  *)
(***************************************************************************)
LEMMA LoaderStarts ==
  ASSUME MatrixInv, RunLoader
  PROVE  MatrixInv'
<1>1. /\ status = "running" /\ Len(rows) < Len(Cases) /\ Becomes(Loader(Case))
      /\ Entries(Case) \notin {Absent, Broken}
      /\ corpus \in Corpora /\ host \in Host /\ rows \in Seq(Row)
  BY HostsAssumption DEF RunLoader, AtRow, MatrixInv, MatrixTypeOK
<1>2. Case \in [file : Files, forced : BOOLEAN]
  <2>1. Len(rows) \in Nat /\ Len(Cases) \in Nat
    BY <1>1, CasesAssumption
  <2>2. Len(rows) + 1 \in DOMAIN Cases
    BY <1>1, <2>1, CasesAssumption
  <2> DEFINE K == [file : Files, forced : BOOLEAN]
  <2>3. Cases \in Seq(K)
    BY CasesAssumption
  <2> HIDE DEF K
  <2>4. Cases[Len(rows) + 1] \in K
    BY <2>2, <2>3
  <2>. QED
    BY <2>4 DEF Case, K
<1>3. Entries(Case) \in Seq(Part)
  BY <1>1, <1>2, CorporaAssumption DEF Entries
<1>4. (host.forced \/ Case.forced) \in BOOLEAN
  OBVIOUS
<1>5. Loader(Case) \in LoaderType
  BY <1>4 DEF Loader, LoaderType, ChildEnv, Steps, Markers, Errors
<1>6. LoaderInv(Loader(Case))
  BY <1>3 DEF LoaderInv, Loader, ChildEnv
<1>7. Loader(Case).chosen \subseteq DOMAIN Entries(Case)
  BY DEF Loader
<1>. QED
  BY <1>1, <1>5, <1>6, <1>7, LoaderStep

(***************************************************************************)
(* A row is added whose word is true; the tally of the last column stays   *)
(* zero only if it agrees with that word too.                              *)
(***************************************************************************)
LEMMA RowIsRecorded ==
  ASSUME MatrixInv, Alive, NEW word \in Words, Record(word),
         IsWhatRan(Measured(child, word), Entries(Case))
  PROVE  MatrixInv'
<1> DEFINE n == Len(rows) + 1
           row == Measured(child, word)
<1>1. /\ rows \in Seq(Row) /\ Len(rows) < Len(Cases) /\ status = "running"
      /\ child \in LoaderType /\ child.chosen \subseteq DOMAIN Entries(Case)
      /\ Entries(Case) \in Seq(Part)
      /\ wrong \in [Columns -> Nat]
  BY DEF MatrixInv, MatrixTypeOK, LoaderInv
<1>2. /\ rows' = Append(rows, row) /\ child' = NoChild /\ UNCHANGED <<args, status>>
      /\ wrong' = [l \in Columns |->
                     IF Cell(l, Case) # word THEN wrong[l] + 1 ELSE wrong[l]]
  BY DEF Record, Measured
<1>3. row \in Row
  BY <1>1 DEF Measured, Row, LoaderType
<1>4. /\ rows' \in Seq(Row) /\ Len(rows') = n /\ DOMAIN rows' = DOMAIN rows \cup {n}
      /\ rows'[n] = row /\ \A r \in DOMAIN rows : rows'[r] = rows[r]
      /\ n \in Nat
  BY <1>1, <1>2, <1>3
<1>5. Len(rows') <= Len(Cases)
  BY <1>1, <1>4, CasesAssumption
<1>6. wrong' \in [Columns -> Nat]
  BY <1>1, <1>2
<1>7. \A k : Entries(k)' = Entries(k) /\ Aware(k)' = Aware(k)
  BY <1>2, ArgumentsStay
<1>8. Cases[n] = Case
  BY DEF Case
<1>9. host' = host /\ corpus' = corpus /\ status' = status /\ ~Alive'
  BY <1>2 DEF args, Alive
<1>10. \A r \in DOMAIN rows' : rows'[r].chosen \subseteq DOMAIN Entries(Cases[r])
  BY <1>1, <1>4, <1>8 DEF MatrixInv, MatrixTypeOK, Measured
<1>11. \A r \in DOMAIN rows' : /\ IsWhatRan(rows'[r], Entries(Cases[r]))
                              /\ Entries(Cases[r]) \in Seq(Part)
  BY <1>1, <1>4, <1>8 DEF MatrixInv, ColumnIsWhatRan
<1>12. wrong'["precedence-aware"] = 0 =>
         /\ wrong["precedence-aware"] = 0
         /\ Aware(Case) = word
  BY <1>1, <1>2 DEF Columns, Cell
<1>13. wrong'["precedence-aware"] = 0 => NoneWrong'
  BY <1>4, <1>7, <1>8, <1>12 DEF MatrixInv, NoneWrong, Measured
<1>14. MatrixTypeOK'
  BY <1>1, <1>4, <1>5, <1>6, <1>7, <1>9, <1>10 DEF MatrixInv, MatrixTypeOK
<1>15. ColumnIsWhatRan' /\ \A r \in DOMAIN rows' : Entries(Cases[r])' \in Seq(Part)
  BY <1>7, <1>9, <1>11 DEF ColumnIsWhatRan, IsWhatRan
<1>16. status' # "clean"
  BY <1>1, <1>9
<1>. QED
  BY <1>9, <1>13, <1>14, <1>15, <1>16 DEF MatrixInv

(***************************************************************************)
(* Every step keeps the invariant.                                         *)
(***************************************************************************)
LEMMA MatrixStep == MatrixInv /\ [Next]_vars => MatrixInv'
<1>. SUFFICES ASSUME MatrixInv, [Next]_vars PROVE MatrixInv'
  OBVIOUS
<1>1. CASE Child
  BY <1>1, LoaderEnds, LoaderGoesOn DEF Child, Spin, Load, FindAndAllocate, Fill,
     Launch, Synchronise, PrintMarker, TearDown, At
<1>2. CASE RunLoader
  BY <1>2, LoaderStarts
<1>3. CASE Collect
  <2>1. /\ Alive /\ child.at = "exited" /\ child \in LoaderType /\ LoaderInv(child)
        /\ Record(DriverWord(child)) /\ host.path \in SUBSET Variants
    BY <1>3, HostsAssumption DEF Collect, At, MatrixInv, MatrixTypeOK, Host
  <2>. QED
    BY <2>1, WordIsTrue, RowIsRecorded
<1>4. CASE Timeout
  <2>1. Alive /\ Record("driver did not return")
    BY <1>4 DEF Timeout
  <2>2. IsWhatRan(Measured(child, "driver did not return"), Entries(Case))
    <3> DEFINE row == Measured(child, "driver did not return")
    <3>1. row.driver = "driver did not return"
      BY DEF Measured
    <3> HIDE DEF row
    <3>2. IsWhatRan(row, Entries(Case))
      BY <3>1 DEF IsWhatRan
    <3>. QED
      BY <3>2 DEF row
  <2>. QED
    BY <2>1, <2>2, RowIsRecorded DEF Words
<1>5. ASSUME NEW how \in {"stopped", "clean", "dirty"}, Ends(how), ~Alive,
             how = "clean" => /\ wrong["precedence-aware"] = 0
                              /\ Len(rows) = Len(Cases)
      PROVE  MatrixInv'
  <2>1. UNCHANGED <<args, child, rows, wrong>> /\ status' = how
    BY <1>5 DEF Ends
  <2>2. \A k : Entries(k)' = Entries(k) /\ Aware(k)' = Aware(k)
    BY <2>1, ArgumentsStay
  <2>3. ~Alive'
    BY <1>5, <2>1 DEF Alive
  <2>4. MatrixTypeOK'
    BY <2>1, <2>2, <2>3 DEF MatrixInv, MatrixTypeOK, args
  <2>5. /\ ColumnIsWhatRan' /\ \A r \in DOMAIN rows' : Entries(Cases[r])' \in Seq(Part)
        /\ wrong'["precedence-aware"] = 0 => NoneWrong'
    BY <2>1, <2>2 DEF MatrixInv, ColumnIsWhatRan, IsWhatRan, NoneWrong, args
  <2>. QED
    BY <1>5, <2>1, <2>3, <2>4, <2>5 DEF MatrixInv
<1>6. CASE Stop
  BY <1>5, <1>6 DEF Stop, AtRow
<1>7. CASE Finish
  BY <1>5, <1>7 DEF Finish
<1>8. CASE UNCHANGED vars
  <2>1. \A k : Entries(k)' = Entries(k) /\ Aware(k)' = Aware(k)
    BY <1>8, ArgumentsStay DEF vars
  <2>2. UNCHANGED <<host, corpus, child, rows, wrong, status>> /\ Case' = Case
    BY <1>8 DEF vars, args, Case
  <2>3. MatrixTypeOK'
    BY <2>1, <2>2 DEF MatrixInv, MatrixTypeOK, Alive
  <2>4. Alive' => LoaderInv(child)'
    BY <2>1, <2>2 DEF MatrixInv, LoaderInv, Loaded, Alive
  <2>5. /\ ColumnIsWhatRan' /\ \A r \in DOMAIN rows' : Entries(Cases[r])' \in Seq(Part)
        /\ wrong'["precedence-aware"] = 0 => NoneWrong'
    BY <2>1, <2>2 DEF MatrixInv, ColumnIsWhatRan, IsWhatRan, NoneWrong
  <2>. QED
    BY <2>2, <2>3, <2>4, <2>5 DEF MatrixInv
<1>. QED
  BY <1>1, <1>2, <1>3, <1>4, <1>6, <1>7, <1>8 DEF Next, Script
(***************************************************************************)
(* The names of payloads are no words of run_driver's but the variants'.   *)
(***************************************************************************)
LEMMA NamesArePayloads ==
  ASSUME NEW p \in Part
  PROVE  Identify(p) \in Variants \cup {"?", "unknown cubin", "unknown ptx"}
<1>1. p.form \in {"none", "elf", "text"} /\ p.digest \in Variants \cup {"unlisted"}
  BY DEF Part
<1>2. FirstNamed(p.marks, "unknown cubin") \in Variants \cup {"unknown cubin"}
  BY DEF FirstNamed, Variants
<1>3. FirstNamed(p.marks, "unknown ptx") \in Variants \cup {"unknown ptx"}
  BY DEF FirstNamed, Variants
<1>. QED
  BY <1>1, <1>2, <1>3 DEF Identify

(***************************************************************************)
(* Where the path names no variant, a row whose word is the last column's  *)
(* is a row where the GPU did what that column says.                       *)
(***************************************************************************)
LEMMA AgreementIsEvidence ==
  ASSUME host.path = {}, NEW r \in DOMAIN rows,
         Entries(Cases[r]) \in Seq(Part),
         rows[r].chosen \subseteq DOMAIN Entries(Cases[r]),
         IsWhatRan(rows[r], Entries(Cases[r])), rows[r].driver = Aware(Cases[r])
  PROVE  DidAsPredicted(r)
<1> DEFINE parts == Entries(Cases[r])
           won == Winner(Cases[r])
<1>1. won \subseteq DOMAIN parts
  BY DEF Winner, Selected, BestOf, Pool, DiscardCubins, Candidates
<1>2. CASE won = {}
  <2>1. rows[r].driver = NOTHING
    BY <1>2 DEF Aware, Name
  <2>2. rows[r].chosen = {}
    BY <2>1 DEF IsWhatRan, NOTHING, Seen, Variants
  <2>. QED
    BY <1>2, <2>2 DEF DidAsPredicted
<1>3. CASE won # {} /\ \E i \in won : PayloadRejected(parts[i], Asked)
  <2>1. rows[r].driver = "rejected at load"
    BY <1>3 DEF Aware
  <2>2. rows[r].refused
    BY <2>1 DEF IsWhatRan, NOTHING, Seen, Variants
  <2>. QED
    BY <1>3, <2>2 DEF DidAsPredicted
<1>4. CASE won # {} /\ ~\E i \in won : PayloadRejected(parts[i], Asked)
  <2>1. PICK i \in won : rows[r].driver = Identify(parts[i])
    BY <1>4 DEF Aware, Name
  <2>2. rows[r].driver \in Variants \cup {"?", "unknown cubin", "unknown ptx"}
    BY <1>1, <2>1, NamesArePayloads, RunsAMarker
  <2>3. ~rows[r].refused /\ \E j \in rows[r].chosen : rows[r].driver = Seen(parts[j].runs)
    BY <2>2 DEF IsWhatRan, NOTHING, Variants
  <2>4. PICK j \in rows[r].chosen : rows[r].driver = parts[j].runs
    BY <2>2, <2>3 DEF Seen, Variants
  <2>. QED
    BY <1>4, <2>1, <2>3, <2>4 DEF DidAsPredicted
<1>. QED
  BY <1>2, <1>3, <1>4

------------------------------------------------------------------------------
(***************************************************************************)
(* The invariant holds of the matrix, and with it the three properties.    *)
(***************************************************************************)
LEMMA MatrixInvariant == Spec => []MatrixInv
  BY InitEstablishesMatrixInv, MatrixStep, PTL DEF Spec

(***************************************************************************)
(* Rows stay within CASES and name entries of their own file               *)
(* (divergence_matrix.py, the loop of main).                               *)
(***************************************************************************)
THEOREM MatrixTypeCorrect == Spec => []MatrixTypeOK
<1>1. MatrixInv => MatrixTypeOK
  BY DEF MatrixInv
<1>. QED
  BY <1>1, MatrixInvariant, PTL

(***************************************************************************)
(* The driver column names what the selected entry wrote, for a driver     *)
(* that may select, refuse, fail and stall as it likes (run_driver beside  *)
(* loader.cpp).                                                            *)
(***************************************************************************)
THEOREM DriverColumnIsGroundTruth == Spec => []ColumnIsWhatRan
<1>1. MatrixInv => ColumnIsWhatRan
  BY DEF MatrixInv
<1>. QED
  BY <1>1, MatrixInvariant, PTL

(***************************************************************************)
(* Exit status 0 means every case was measured and agreed (main, "return 1 *)
(* if wrong["precedence-aware"] else 0").                                  *)
(***************************************************************************)
THEOREM CleanExitMeansAgreement == Spec => []CleanExitIsEvidence
<1>1. MatrixInv => CleanExitIsEvidence
  BY AgreementIsEvidence
     DEF MatrixInv, MatrixTypeOK, CleanExitIsEvidence, ColumnIsWhatRan, NoneWrong
<1>. QED
  BY <1>1, MatrixInvariant, PTL

------------------------------------------------------------------------------
(***************************************************************************)
(* A driver that keeps the rule owes the current row one selection.  A     *)
(* loader that has passed the module load holds it, one that was told      *)
(* nothing runs has nothing to hold, and one that was refused was refused  *)
(* for the payload or for being obfuscated.                                *)
(***************************************************************************)
CasePolicy == IF host.forced \/ Case.forced THEN "force-ptx-jit" ELSE "default"

Owed == Selected(Entries(Case), host.gpu, CasePolicy)

RefusedOnGrounds(p) == PayloadRejected(p, host.gpu) \/ 16 \in p.flags

PastTheLoad(c) == c.at \in Steps \ {"load"} \/ (c.at = "exited" /\ c.code = 0)

FaithfulLoader(c) ==
  /\ c.env.forced <=> host.forced \/ Case.forced
  /\ PastTheLoad(c) =>
       /\ c.chosen = Owed
       /\ \A i \in Owed : ~PayloadRejected(Entries(Case)[i], host.gpu)
  /\ c.at = "exited" /\ c.code = 1 =>
       /\ c.stderr = "NO_BINARY_FOR_GPU" => Owed = {}
       /\ c.stderr = "INVALID_SOURCE" =>
            \E i \in Owed : Owed = {i} /\ RefusedOnGrounds(Entries(Case)[i])

ExplainedRow(k, word) ==
  word # Aware(k) =>
    \/ ~host.faithful
    \/ word \in {"load error", "driver did not return"}
    \/ host.gpu # Asked
    \/ host.forced /\ ~k.forced
    \/ host.path # {}
    \/ \E i \in Winner(k) : \/ Identify(Entries(k)[i]) # Seen(Entries(k)[i].runs)
                            \/ 16 \in Entries(k)[i].flags

RowsExplained == \A r \in DOMAIN rows : ExplainedRow(Cases[r], rows[r].driver)

FaithInv == /\ Alive /\ host.faithful => FaithfulLoader(child)
            /\ RowsExplained

(***************************************************************************)
(* Where the row asks about this GPU under this policy, the last column    *)
(* says of the owed entry what run_driver reads from the loader.           *)
(***************************************************************************)
LEMMA SelectionIsOfTheFile ==
  Owed \subseteq DOMAIN Entries(Case)
BY DEF Owed, Selected

LEMMA WordOfAFailure ==
  ASSUME NEW c, c.code = 1
  PROVE  DriverWord(c) = IF c.stderr = "NO_BINARY_FOR_GPU" THEN NOTHING
                         ELSE IF c.stderr = "INVALID_SOURCE" THEN "rejected at load"
                         ELSE "load error"
<1>1. c.code # 0
  OBVIOUS
<1> QED
  BY <1>1 DEF DriverWord

LEMMA FaithfulWordIsExplained ==
  ASSUME NEW c \in LoaderType, LoaderInv(c), c.at = "exited",
         host.faithful => FaithfulLoader(c)
  PROVE  ExplainedRow(Case, DriverWord(c))
<1> DEFINE word == DriverWord(c)
           parts == Entries(Case)
<1> SUFFICES ASSUME host.faithful, host.gpu = Asked, host.path = {},
                    host.forced => Case.forced,
                    \A i \in Winner(Case) : /\ Identify(parts[i]) = Seen(parts[i].runs)
                                            /\ 16 \notin parts[i].flags,
                    word \notin {"load error", "driver did not return"}
             PROVE  word = Aware(Case)
  BY DEF ExplainedRow
<1>1. FaithfulLoader(c)
  OBVIOUS
<1>2. Winner(Case) = Owed
  BY DEF Winner, Owed, CasePolicy, RowPolicy
<1>3. CASE c.code = 0
  <2>1. PICK i \in DOMAIN parts : c.chosen = {i} /\ c.stdout = {parts[i].runs} \cap Variants
    BY <1>3 DEF LoaderInv, Loaded
  <2>2. Winner(Case) = {i} /\ ~PayloadRejected(parts[i], Asked)
    BY <1>1, <1>2, <1>3, <2>1 DEF FaithfulLoader, PastTheLoad
  <2>3. word = FirstNamed({parts[i].runs} \cap Variants, "unrecognised")
    BY <1>3, <2>1 DEF DriverWord
  <2>4. word = Seen(parts[i].runs)
    BY <2>3 DEF FirstNamed, Seen, Variants
  <2>5. Aware(Case) = Identify(parts[i])
    BY <2>2 DEF Aware, Name
  <2> QED
    BY <2>2, <2>4, <2>5
<1>4. CASE c.code = 1 /\ c.stderr = "NO_BINARY_FOR_GPU"
  <2>1. Winner(Case) = {}
    BY <1>1, <1>2, <1>4 DEF FaithfulLoader
  <2>2. Aware(Case) = NOTHING
    BY <2>1 DEF Aware, Name
  <2>3. word = NOTHING
    BY <1>4, WordOfAFailure
  <2> QED
    BY <2>2, <2>3
<1>5. CASE c.code = 1 /\ c.stderr = "INVALID_SOURCE"
  <2>1. PICK i \in Owed : Owed = {i} /\ RefusedOnGrounds(parts[i])
    BY <1>1, <1>5 DEF FaithfulLoader
  <2>2. PayloadRejected(parts[i], Asked)
    BY <1>2, <2>1 DEF RefusedOnGrounds
  <2>3. Aware(Case) = "rejected at load"
    BY <1>2, <2>2 DEF Aware
  <2>4. word = "rejected at load"
    BY <1>5, WordOfAFailure
  <2> QED
    BY <2>3, <2>4
<1>6. c.code = 0 \/ c.stderr = "NO_BINARY_FOR_GPU" \/ c.stderr = "INVALID_SOURCE"
  BY DEF DriverWord
<1>7. c.code \in {0, 1}
  BY DEF LoaderType
<1> QED
  BY <1>3, <1>4, <1>5, <1>6, <1>7

(***************************************************************************)
(* Every step keeps it.  The current row, and with it what is owed, stays  *)
(* while a loader is alive.                                                *)
(***************************************************************************)
LEMMA RowStays ==
  ASSUME UNCHANGED args, rows' = rows
  PROVE  /\ \A c : FaithfulLoader(c)' <=> FaithfulLoader(c)
         /\ \A k, word : ExplainedRow(k, word)' <=> ExplainedRow(k, word)
         /\ RowsExplained' <=> RowsExplained
<1>1. host' = host /\ corpus' = corpus /\ Case' = Case
  BY DEF args, Case
<1>2. \A k : Entries(k)' = Entries(k) /\ Aware(k)' = Aware(k) /\ Winner(k)' = Winner(k)
  BY <1>1, ArgumentsStay DEF Winner, Entries, Asked
<1>3. Owed' = Owed /\ Asked' = Asked
  BY <1>1, <1>2 DEF Owed, CasePolicy, Asked
<1>4. \A c : FaithfulLoader(c)' <=> FaithfulLoader(c)
  BY <1>1, <1>2, <1>3 DEF FaithfulLoader, RefusedOnGrounds, PastTheLoad
<1>5. \A k, word : ExplainedRow(k, word)' <=> ExplainedRow(k, word)
  BY <1>1, <1>2, <1>3 DEF ExplainedRow
<1> QED
  BY <1>4, <1>5 DEF RowsExplained

LEMMA FaithBecomes ==
  ASSUME FaithInv, NEW next, Becomes(next),
         host.faithful => FaithfulLoader(next)
  PROVE  FaithInv'
<1>1. UNCHANGED args /\ rows' = rows /\ child' = next /\ host' = host
  BY DEF Becomes, args
<1>2. host'.faithful => FaithfulLoader(next)'
  BY <1>1, RowStays
<1> QED
  BY <1>1, <1>2, RowStays DEF FaithInv, FaithfulLoader, PastTheLoad

LEMMA FaithGoesOn ==
  ASSUME MatrixInv, FaithInv, Alive,
         \/ Spin \/ FindAndAllocate \/ Fill \/ Launch \/ Synchronise
         \/ PrintMarker \/ TearDown
  PROVE  FaithInv'
<1>1. child \in LoaderType /\ LoaderInv(child)
  BY DEF MatrixInv, MatrixTypeOK
<1>2. PICK next : /\ Becomes(next) /\ next.chosen = child.chosen
                  /\ next.env = child.env /\ next.code = child.code
                  /\ \/ child.at = "load" /\ next.at = "spinning"
                     \/ child.at \in Steps \ {"load"}
                        /\ next.at \in (Steps \ {"load"}) \cup {"exited"}
  <2>1. CASE Spin
    <3> DEFINE next == [child EXCEPT !.at = "spinning"]
    <3>1. Becomes(next) /\ child.at = "load"
      BY <2>1 DEF Spin, At
    <3>2. /\ next.chosen = child.chosen /\ next.env = child.env
          /\ next.code = child.code /\ next.at = "spinning"
      BY <1>1 DEF LoaderType
    <3> QED
      BY <3>1, <3>2
  <2>2. CASE FindAndAllocate
    <3>1. PICK m \in Markers : Becomes([child EXCEPT !.at = "fill", !.buffer = m])
      BY <2>2 DEF FindAndAllocate
    <3> DEFINE next == [child EXCEPT !.at = "fill", !.buffer = m]
    <3>2. child.at = "find"
      BY <2>2 DEF FindAndAllocate, At
    <3>3. /\ next.chosen = child.chosen /\ next.env = child.env
          /\ next.code = child.code /\ next.at = "fill"
      BY <1>1 DEF LoaderType
    <3> QED
      BY <3>1, <3>2, <3>3 DEF Steps
  <2>3. CASE Fill
    <3> DEFINE next == [child EXCEPT !.at = "launch", !.buffer = "untouched"]
    <3>1. Becomes(next) /\ child.at = "fill"
      BY <2>3 DEF Fill, At
    <3>2. /\ next.chosen = child.chosen /\ next.env = child.env
          /\ next.code = child.code /\ next.at = "launch"
      BY <1>1 DEF LoaderType
    <3> QED
      BY <3>1, <3>2 DEF Steps
  <2>4. CASE Launch
    <3> DEFINE next == [child EXCEPT !.at = "synchronise"]
    <3>1. Becomes(next) /\ child.at = "launch"
      BY <2>4 DEF Launch, At
    <3>2. /\ next.chosen = child.chosen /\ next.env = child.env
          /\ next.code = child.code /\ next.at = "synchronise"
      BY <1>1 DEF LoaderType
    <3> QED
      BY <3>1, <3>2 DEF Steps
  <2>5. CASE Synchronise
    <3> DEFINE next == [child EXCEPT !.at = "print",
                          !.buffer = IF Written = "untouched" THEN @ ELSE Written]
    <3>1. Becomes(next) /\ child.at = "synchronise"
      BY <2>5 DEF Synchronise, At
    <3>2. /\ next.chosen = child.chosen /\ next.env = child.env
          /\ next.code = child.code /\ next.at = "print"
      BY <1>1 DEF LoaderType
    <3> QED
      BY <3>1, <3>2 DEF Steps
  <2>6. CASE PrintMarker
    <3> DEFINE next == [child EXCEPT !.at = "tear down",
                          !.stdout = host.path \cup ({child.buffer} \cap Variants)]
    <3>1. Becomes(next) /\ child.at = "print"
      BY <2>6 DEF PrintMarker, At
    <3>2. /\ next.chosen = child.chosen /\ next.env = child.env
          /\ next.code = child.code /\ next.at = "tear down"
      BY <1>1 DEF LoaderType
    <3> QED
      BY <3>1, <3>2 DEF Steps
  <2>7. CASE TearDown
    <3> DEFINE next == [child EXCEPT !.at = "exited"]
    <3>1. Becomes(next) /\ child.at = "tear down"
      BY <2>7 DEF TearDown, At
    <3>2. /\ next.chosen = child.chosen /\ next.env = child.env
          /\ next.code = child.code /\ next.at = "exited"
      BY <1>1 DEF LoaderType
    <3> QED
      BY <3>1, <3>2 DEF Steps
  <2> QED
    BY <2>1, <2>2, <2>3, <2>4, <2>5, <2>6, <2>7
<1>3. host.faithful => FaithfulLoader(child)
  BY DEF FaithInv
<1>4. child.code = 0
  BY <1>1, <1>2 DEF LoaderInv, Steps
<1>5. host.faithful => FaithfulLoader(next)
  <2>1. CASE child.at = "load" /\ next.at = "spinning"
    BY <1>2, <1>3, <1>4, <2>1 DEF FaithfulLoader, PastTheLoad, Steps
  <2>2. CASE child.at \in Steps \ {"load"}
    BY <1>2, <1>3, <1>4, <2>2 DEF FaithfulLoader, PastTheLoad
  <2> QED
    BY <1>2, <2>1, <2>2
<1> QED
  BY <1>2, <1>5, FaithBecomes

LEMMA FaithLoads ==
  ASSUME MatrixInv, FaithInv, Alive, Load \/ NoBinary \/ Refuse \/ CallFails
  PROVE  FaithInv'
<1>1. child \in LoaderType /\ LoaderInv(child)
  BY DEF MatrixInv, MatrixTypeOK
<1>2. host.faithful => (child.env.forced <=> host.forced \/ Case.forced)
  BY DEF FaithInv, FaithfulLoader
<1>3. host.faithful => HostPolicy = CasePolicy
  BY <1>2 DEF HostPolicy, CasePolicy
<1>4. CASE Load
  <2>1. PICK i \in DOMAIN Entries(Case) :
          /\ At("load") /\ MaySelect({i}) /\ MayAccept(i)
          /\ Becomes([child EXCEPT !.at = "find", !.chosen = {i}])
    BY <1>4 DEF Load
  <2> DEFINE next == [child EXCEPT !.at = "find", !.chosen = {i}]
  <2>2. next.at = "find" /\ next.chosen = {i} /\ next.env = child.env
    BY <1>1 DEF LoaderType
  <2>3. host.faithful => Owed = {i} /\ ~PayloadRejected(Entries(Case)[i], host.gpu)
    BY <1>3, <2>1 DEF MaySelect, MayAccept, Owed
  <2> HIDE DEF next
  <2>4. host.faithful => FaithfulLoader(next)
    BY <1>2, <2>2, <2>3 DEF FaithfulLoader, PastTheLoad
  <2> QED
    BY <2>1, <2>4, FaithBecomes DEF next
<1>5. CASE NoBinary
  <2> DEFINE next == [child EXCEPT !.at = "exited", !.stderr = "NO_BINARY_FOR_GPU",
                                   !.code = 1]
  <2>1. Becomes(next) /\ MaySelect({})
    BY <1>5 DEF NoBinary, Exits
  <2>2. /\ next.at = "exited" /\ next.code = 1 /\ next.env = child.env
        /\ next.stderr = "NO_BINARY_FOR_GPU"
    BY <1>1 DEF LoaderType
  <2>3. host.faithful => Owed = {}
    BY <1>3, <2>1 DEF MaySelect, Owed
  <2> HIDE DEF next
  <2>4. host.faithful => FaithfulLoader(next)
    BY <1>2, <2>2, <2>3 DEF FaithfulLoader, PastTheLoad, Steps
  <2> QED
    BY <2>1, <2>4, FaithBecomes
<1>6. CASE Refuse
  <2>1. PICK i \in DOMAIN Entries(Case), error \in {"INVALID_SOURCE", "INVALID_PTX"} :
          /\ MaySelect({i}) /\ MayRefuse(i)
          /\ Exits([child EXCEPT !.chosen = {i}, !.refused = TRUE], error)
    BY <1>6 DEF Refuse
  <2> DEFINE c == [child EXCEPT !.chosen = {i}, !.refused = TRUE]
             next == [c EXCEPT !.at = "exited", !.stderr = error, !.code = 1]
  <2>2. Becomes(next)
    BY <2>1 DEF Exits
  <2>3. /\ next.at = "exited" /\ next.code = 1 /\ next.env = child.env
        /\ next.stderr = error
    BY <1>1 DEF LoaderType
  <2>4. host.faithful => Owed = {i} /\ RefusedOnGrounds(Entries(Case)[i])
    BY <1>3, <2>1 DEF MaySelect, MayRefuse, Owed, RefusedOnGrounds
  <2> HIDE DEF next
  <2>5. host.faithful => FaithfulLoader(next)
    BY <1>2, <2>3, <2>4 DEF FaithfulLoader, PastTheLoad, Steps
  <2> QED
    BY <2>2, <2>5, FaithBecomes
<1>7. CASE CallFails
  <2> DEFINE next == [child EXCEPT !.at = "exited", !.stderr = "another error",
                                   !.code = 1]
  <2>1. Becomes(next)
    BY <1>7 DEF CallFails, Exits
  <2>2. /\ next.at = "exited" /\ next.code = 1 /\ next.env = child.env
        /\ next.stderr = "another error"
    BY <1>1 DEF LoaderType
  <2>5. next.code # 0
    BY <1>1 DEF LoaderType
  <2> HIDE DEF next
  <2>3. ~PastTheLoad(next)
    <3>1. next.at \notin Steps
      BY <2>2 DEF Steps
    <3> QED
      BY <2>5, <3>1 DEF PastTheLoad
  <2>4. host.faithful => FaithfulLoader(next)
    BY <1>2, <2>2, <2>3 DEF FaithfulLoader
  <2> QED
    BY <2>1, <2>4, FaithBecomes DEF next
<1> QED
  BY <1>4, <1>5, <1>6, <1>7

LEMMA FaithStarts ==
  ASSUME MatrixInv, FaithInv, RunLoader
  PROVE  FaithInv'
<1>1. Becomes(Loader(Case))
  BY DEF RunLoader
<1>2. /\ Loader(Case).at = "load"
      /\ Loader(Case).env.forced = (host.forced \/ Case.forced)
  BY DEF Loader, ChildEnv
<1>3. FaithfulLoader(Loader(Case))
  BY <1>2 DEF FaithfulLoader, PastTheLoad
<1> QED
  BY <1>1, <1>3, FaithBecomes

LEMMA FaithRecords ==
  ASSUME MatrixInv, FaithInv, Alive, NEW word, Record(word), ExplainedRow(Case, word)
  PROVE  FaithInv'
<1> DEFINE n == Len(rows) + 1
           row == Measured(child, word)
<1>1. rows \in Seq(Row) /\ rows' = Append(rows, row) /\ child' = NoChild /\ UNCHANGED args
  BY DEF MatrixInv, MatrixTypeOK, Record, Measured
<1>2. /\ DOMAIN rows' = DOMAIN rows \cup {n} /\ rows'[n] = row
      /\ \A r \in DOMAIN rows : rows'[r] = rows[r]
  BY <1>1
<1>3. row.driver = word /\ Cases[n] = Case
  BY DEF Measured, Case
<1>4. \A r \in DOMAIN rows' : ExplainedRow(Cases[r], rows'[r].driver)
  BY <1>2, <1>3 DEF FaithInv, RowsExplained
<1>5. \A k : Entries(k)' = Entries(k) /\ Aware(k)' = Aware(k)
  BY <1>1, ArgumentsStay
<1>6. \A k, w : ExplainedRow(k, w)' <=> ExplainedRow(k, w)
  BY <1>1, <1>5 DEF ExplainedRow, args, Winner, Asked
<1>7. RowsExplained'
  BY <1>4, <1>6 DEF RowsExplained
<1> QED
  BY <1>1, <1>7 DEF FaithInv, Alive

LEMMA FaithStep == MatrixInv /\ FaithInv /\ [Next]_vars => FaithInv'
<1> SUFFICES ASSUME MatrixInv, FaithInv, [Next]_vars PROVE FaithInv'
  OBVIOUS
<1>1. CASE Child
  <2>1. Alive
    BY <1>1 DEF Child, CallFails, Spin, NoBinary, Refuse, Load, FindAndAllocate, Fill,
                Launch, Synchronise, PrintMarker, TearDown, At
  <2> QED
    BY <1>1, <2>1, FaithGoesOn, FaithLoads DEF Child
<1>2. CASE RunLoader
  BY <1>2, FaithStarts
<1>3. CASE Collect
  <2>1. /\ Alive /\ child.at = "exited" /\ child \in LoaderType /\ LoaderInv(child)
        /\ Record(DriverWord(child))
        /\ host.faithful => FaithfulLoader(child)
    BY <1>3 DEF Collect, At, MatrixInv, MatrixTypeOK, FaithInv
  <2> QED
    BY <2>1, FaithfulWordIsExplained, FaithRecords
<1>4. CASE Timeout
  <2>1. ExplainedRow(Case, "driver did not return")
    BY DEF ExplainedRow
  <2> QED
    BY <1>4, <2>1, FaithRecords DEF Timeout
<1>5. CASE UNCHANGED <<args, child, rows>>
  <2>1. UNCHANGED args /\ rows' = rows /\ child' = child /\ host' = host
    BY <1>5 DEF args
  <2>2. FaithfulLoader(child)' <=> FaithfulLoader(child)
    BY <2>1, RowStays
  <2> QED
    BY <2>1, <2>2, RowStays DEF FaithInv, Alive
<1> QED
  BY <1>1, <1>2, <1>3, <1>4, <1>5 DEF Next, Script, Stop, Finish, Ends, vars

(***************************************************************************)
(* No false alarm, on any corpus and host: against a driver that keeps the *)
(* rule the last column is wrong only where a call failed or timed out, or *)
(* where the GPU, the environment, the path or the payload is not what the *)
(* script reads it to be (main beside run_driver and loader.cpp).          *)
(***************************************************************************)
THEOREM NoFalseAlarm == Spec => []WrongRowsAreExplained
<1>1. Init => FaithInv
  BY DEF Init, FaithInv, RowsExplained, Alive
<1>2. FaithInv => WrongRowsAreExplained
  BY DEF FaithInv, RowsExplained, ExplainedRow, WrongRowsAreExplained, Misjudged
<1> QED
  BY <1>1, <1>2, FaithStep, MatrixInvariant, PTL DEF Spec

------------------------------------------------------------------------------
(***************************************************************************)
(* How much of the matrix is ahead: the rows not recorded and the exit     *)
(* status, and within a row the calls the loader has not made.             *)
(***************************************************************************)
CallRank(at) == IF at = "load" THEN 8 ELSE IF at = "find" THEN 7
                ELSE IF at = "fill" THEN 6 ELSE IF at = "launch" THEN 5
                ELSE IF at = "synchronise" THEN 4 ELSE IF at = "print" THEN 3
                ELSE IF at = "tear down" THEN 2 ELSE IF at = "spinning" THEN 1 ELSE 0

CallsLeft == IF Alive THEN CallRank(child.at) ELSE 9

RowsLeft == Len(Cases) - Len(rows) + (IF status = "running" THEN 1 ELSE 0)

AheadIsCounted == RowsLeft \in Nat /\ CallsLeft \in Nat

NearerTheEnd ==
  \/ RowsLeft' < RowsLeft
  \/ RowsLeft' = RowsLeft /\ CallsLeft' < CallsLeft

LEMMA MatrixIsCounted == MatrixTypeOK => AheadIsCounted
<1>. SUFFICES ASSUME MatrixTypeOK  PROVE AheadIsCounted
  OBVIOUS
<1>1. Len(rows) \in Nat /\ Len(Cases) \in Nat /\ Len(rows) <= Len(Cases)
  BY CasesAssumption DEF MatrixTypeOK
<1>2. RowsLeft \in Nat
  BY <1>1 DEF RowsLeft
<1>3. Alive => child.at \in Steps \cup {"spinning", "exited"}
  BY DEF MatrixTypeOK, LoaderType
<1>4. CASE ~Alive
  BY <1>2, <1>4 DEF AheadIsCounted, CallsLeft
<1>5. CASE Alive
  <2>1. CallRank(child.at) \in Nat
    BY <1>3, <1>5 DEF CallRank, Steps
  <2>. QED  BY <1>2, <1>5, <2>1 DEF AheadIsCounted, CallsLeft
<1>. QED  BY <1>4, <1>5

(* The numbers apart: with the strings around, the provers confuse the sorts. *)
LEMMA SmallNumbers ==
  ASSUME NEW m, NEW n,
         \/ m = 8 /\ (n = 7 \/ n = 1 \/ n = 0)
         \/ m = 7 /\ (n = 6 \/ n = 0)
         \/ m = 6 /\ (n = 5 \/ n = 0)
         \/ m = 5 /\ (n = 4 \/ n = 0)
         \/ m = 4 /\ (n = 3 \/ n = 0)
         \/ m = 3 /\ (n = 2 \/ n = 0)
         \/ m = 2 /\ n = 0
  PROVE  n < m
OBVIOUS

LEMMA RankFalls ==
  ASSUME NEW a, NEW b,
         \/ a = "load" /\ b \in {"find", "spinning", "exited"}
         \/ a = "find" /\ b \in {"fill", "exited"}
         \/ a = "fill" /\ b \in {"launch", "exited"}
         \/ a = "launch" /\ b \in {"synchronise", "exited"}
         \/ a = "synchronise" /\ b \in {"print", "exited"}
         \/ a = "print" /\ b \in {"tear down", "exited"}
         \/ a = "tear down" /\ b = "exited"
  PROVE  CallRank(b) < CallRank(a)
<1>1. /\ CallRank("load") = 8 /\ CallRank("find") = 7 /\ CallRank("fill") = 6
      /\ CallRank("launch") = 5 /\ CallRank("synchronise") = 4
      /\ CallRank("print") = 3 /\ CallRank("tear down") = 2
      /\ CallRank("spinning") = 1 /\ CallRank("exited") = 0
  BY DEF CallRank
<1>. DEFINE m == CallRank(a)
            n == CallRank(b)
<1>2. \/ m = 8 /\ (n = 7 \/ n = 1 \/ n = 0)
      \/ m = 7 /\ (n = 6 \/ n = 0)
      \/ m = 6 /\ (n = 5 \/ n = 0)
      \/ m = 5 /\ (n = 4 \/ n = 0)
      \/ m = 4 /\ (n = 3 \/ n = 0)
      \/ m = 3 /\ (n = 2 \/ n = 0)
      \/ m = 2 /\ n = 0
  BY <1>1, Zenon
<1>. QED
  BY <1>2, SmallNumbers, Zenon

LEMMA CallsGoDown ==
  ASSUME Alive, Alive', UNCHANGED <<rows, status>>,
         \/ child.at = "load" /\ child'.at \in {"find", "spinning", "exited"}
         \/ child.at = "find" /\ child'.at \in {"fill", "exited"}
         \/ child.at = "fill" /\ child'.at \in {"launch", "exited"}
         \/ child.at = "launch" /\ child'.at \in {"synchronise", "exited"}
         \/ child.at = "synchronise" /\ child'.at \in {"print", "exited"}
         \/ child.at = "print" /\ child'.at \in {"tear down", "exited"}
         \/ child.at = "tear down" /\ child'.at = "exited"
  PROVE  NearerTheEnd
<1>1. RowsLeft' = RowsLeft
  BY DEF RowsLeft
<1>2. CallsLeft' = CallRank(child'.at) /\ CallsLeft = CallRank(child.at)
  BY DEF CallsLeft, CallRank
<1>3. CallRank(child'.at) < CallRank(child.at)
  BY RankFalls
<1>. QED  BY <1>1, <1>2, <1>3 DEF NearerTheEnd

LEMMA RowGoesDown ==
  ASSUME MatrixTypeOK, NEW word, Record(word)
  PROVE  NearerTheEnd
<1>1. Len(rows) \in Nat /\ Len(Cases) \in Nat
  BY CasesAssumption DEF MatrixTypeOK
<1>2. Len(rows') = Len(rows) + 1 /\ status' = status
  BY DEF Record, MatrixTypeOK
<1>3. RowsLeft' = Len(Cases) - Len(rows') + (IF status' = "running" THEN 1 ELSE 0)
  BY DEF RowsLeft
<1>4. RowsLeft' < RowsLeft
  <2> DEFINE m == Len(Cases)
             n == Len(rows)
             k == Len(rows')
  <2>1. m \in Nat /\ n \in Nat /\ k = n + 1
    BY <1>1, <1>2
  <2>2. /\ RowsLeft = m - n + (IF status = "running" THEN 1 ELSE 0)
        /\ RowsLeft' = m - k + (IF status = "running" THEN 1 ELSE 0)
    BY <1>2, <1>3 DEF RowsLeft
  <2> HIDE DEF m, n, k
  <2>. QED  BY <2>1, <2>2
<1>. QED  BY <1>4 DEF NearerTheEnd

LEMMA ChildGoesDown ==
  ASSUME MatrixInv, Child
  PROVE  NearerTheEnd
<1>1. Alive /\ child \in LoaderType
  BY DEF Child, CallFails, Spin, NoBinary, Refuse, Load, FindAndAllocate, Fill, Launch,
     Synchronise, PrintMarker, TearDown, At, MatrixInv, MatrixTypeOK
<1>2. Alive'
  <2>1. child' \in LoaderType
    BY <1>1, LoaderGoesOn, LoaderEnds DEF Child
  <2>. QED  BY <2>1, ChildAssumption DEF Alive
<1>3. UNCHANGED <<rows, status>>
  BY DEF Child, CallFails, Spin, NoBinary, Refuse, Load, FindAndAllocate, Fill, Launch,
     Synchronise, PrintMarker, TearDown, Exits, Becomes
<1>4. CASE CallFails
  <2>1. child.at \in Steps /\ child'.at = "exited"
    BY <1>1, <1>4 DEF CallFails, Exits, Becomes, LoaderType
  <2>. QED  BY <1>1, <1>2, <1>3, <2>1, CallsGoDown DEF Steps
<1>5. CASE NoBinary \/ Refuse
  <2>1. child.at = "load" /\ child'.at = "exited"
    BY <1>1, <1>5 DEF NoBinary, Refuse, At, Exits, Becomes, LoaderType
  <2>. QED  BY <1>1, <1>2, <1>3, <2>1, CallsGoDown
<1>6. CASE Spin \/ Load \/ FindAndAllocate \/ Fill \/ Launch
  <2>1. \/ child.at = "load" /\ child'.at \in {"find", "spinning"}
        \/ child.at = "find" /\ child'.at = "fill"
        \/ child.at = "fill" /\ child'.at = "launch"
        \/ child.at = "launch" /\ child'.at = "synchronise"
    BY <1>1, <1>6 DEF Spin, Load, FindAndAllocate, Fill, Launch, At, Becomes, LoaderType
  <2>. QED  BY <1>1, <1>2, <1>3, <2>1, CallsGoDown
<1>7. CASE Synchronise \/ PrintMarker \/ TearDown
  <2>1. \/ child.at = "synchronise" /\ child'.at = "print"
        \/ child.at = "print" /\ child'.at = "tear down"
        \/ child.at = "tear down" /\ child'.at = "exited"
    BY <1>1, <1>7 DEF Synchronise, PrintMarker, TearDown, At, Becomes, LoaderType
  <2>. QED  BY <1>1, <1>2, <1>3, <2>1, CallsGoDown
<1>. QED  BY <1>4, <1>5, <1>6, <1>7 DEF Child

(***************************************************************************)
(* The script starts a loader for the next row, or ends.                   *)
(***************************************************************************)
LEMMA ScriptGoesDown ==
  ASSUME MatrixInv, Stop \/ RunLoader \/ Finish
  PROVE  NearerTheEnd
<1>1. CASE RunLoader
  <2>1. ~Alive /\ child' = Loader(Case) /\ UNCHANGED <<rows, status>>
    BY <1>1 DEF RunLoader, AtRow, Becomes
  <2>2. Loader(Case).at = "load"
    BY DEF Loader
  <2>3. RowsLeft' = RowsLeft
    BY <2>1 DEF RowsLeft
  <2>4. CallsLeft = 9
    BY <2>1 DEF CallsLeft
  <2>5. Loader(Case) \in LoaderType
    BY DEF Loader, LoaderType, ChildEnv, Steps, Markers, Errors
  <2>6. CallsLeft' = 8
    BY <2>1, <2>2, <2>5, ChildAssumption DEF CallsLeft, CallRank, Alive
  <2>. QED  BY <2>3, <2>4, <2>6 DEF NearerTheEnd
<1>2. CASE Stop \/ Finish
  <2>1. status = "running" /\ status' # "running" /\ rows' = rows
    BY <1>2 DEF Stop, Finish, AtRow, Ends
  <2>2. Len(rows) \in Nat /\ Len(Cases) \in Nat
    BY CasesAssumption DEF MatrixInv, MatrixTypeOK
  <2>3. RowsLeft = Len(Cases) - Len(rows) + 1 /\ RowsLeft' = Len(Cases) - Len(rows) + 0
    BY <2>1 DEF RowsLeft
  <2>4. RowsLeft' < RowsLeft
    BY <2>2, <2>3
  <2>. QED  BY <2>4 DEF NearerTheEnd
<1>. QED  BY <1>1, <1>2

(***************************************************************************)
(* The matrix runs out, for every list of cases and whatever the driver    *)
(* does: each step of script, loader or clock brings it nearer to its end, *)
(* and a row that was given up is not run again (main and run_driver).     *)
(***************************************************************************)
THEOREM MatrixRunsOut == Spec => []AheadIsCounted /\ [][NearerTheEnd]_vars
<1>1. MatrixInv /\ [Next]_vars => [NearerTheEnd]_vars
  <2>. SUFFICES ASSUME MatrixInv, Next  PROVE NearerTheEnd
    OBVIOUS
  <2>1. CASE Collect \/ Timeout
    BY <2>1, RowGoesDown DEF Collect, Timeout, MatrixInv
  <2>. QED  BY <2>1, ChildGoesDown, ScriptGoesDown DEF Next, Script
<1>2. MatrixInv => AheadIsCounted
  BY MatrixIsCounted DEF MatrixInv
<1>. QED
  BY <1>1, <1>2, MatrixInvariant, PTL DEF Spec
=============================================================================
