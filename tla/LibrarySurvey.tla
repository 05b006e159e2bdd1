---------------------------- MODULE LibrarySurvey ----------------------------
(***************************************************************************)
(* The three sweeps over a corpus of libraries: survey_libs.py, decisive_  *)
(* level.py and wheel_census.py.  The first parses each container as it is *)
(* found and keeps local tallies until the file is done; the other two     *)
(* list a file's containers before they parse any.  What matters of a file *)
(* is what its containers do to the tallies and whether finding them       *)
(* raises, after how many.                                                 *)
(***************************************************************************)
EXTENDS Integers, Sequences, FiniteSets

CONSTANTS Corpora   \* the corpora swept, sequences of files

Tools == {"survey_libs", "decisive_level", "wheel_census"}

Readings == {"first-match", "exact-arch", "prefer-PTX"}

(***************************************************************************)
(* A container: whether parse_container returns, how many entries it       *)
(* returns, whether the container or an entry carries a note, and which    *)
(* readings name another entry than would_execute.                         *)
(***************************************************************************)
Container == [parsed : BOOLEAN, entries : Nat, noted : BOOLEAN,
              wrong : SUBSET Readings]

(***************************************************************************)
(* A file: larger than --max-bytes or not, its containers, and what        *)
(* find_containers raises once they are found.                             *)
(***************************************************************************)
Library == [large : BOOLEAN, containers : Seq(Container),
            raises : {"nothing", "ValueError", "another error"}]

IsContainer(c) == /\ ~c.parsed => c.entries = 0
                  /\ c.entries < 1 => c.wrong = {}

ASSUME CorporaAssumption ==
  /\ Corpora \subseteq Seq(Library)
  /\ \A corpus \in Corpora : \A i \in DOMAIN corpus :
       \A j \in DOMAIN corpus[i].containers : IsContainer(corpus[i].containers[j])

VARIABLES corpus, tool,
          at,      \* the file being read
          k,       \* the containers of it already counted
          phase,   \* "file", "containers", "done", "crashed"
          tally,   \* the locals of survey_file
          grand,   \* the totals printed at the end
          rows     \* how many files were printed

args == <<corpus, tool>>
vars == <<args, at, k, phase, tally, grand, rows>>

Zero == [total |-> 0, multi |-> 0, notes |-> 0, wrong |-> [r \in Readings |-> 0]]

Plus(t, u) == [total |-> t.total + u.total, multi |-> t.multi + u.multi,
               notes |-> t.notes + u.notes,
               wrong |-> [r \in Readings |-> t.wrong[r] + u.wrong[r]]]

Init == /\ corpus \in Corpora /\ tool \in Tools
        /\ at = 1 /\ k = 0 /\ phase = "file"
        /\ tally = Zero /\ grand = Zero /\ rows = 0

File == corpus[at]

One(condition) == IF condition THEN 1 ELSE 0

(***************************************************************************)
(* What one container adds to survey_file's locals.                        *)
(***************************************************************************)
\* Mutant: a container without entries is counted.
CountMutant(c) ==
  IF ~c.parsed THEN [Zero EXCEPT !.notes = 1]
  ELSE [total |-> 1, multi |-> One(c.entries > 1), notes |-> One(c.noted),
        wrong |-> [r \in Readings |-> One(r \in c.wrong)]]

\* Mutant: the notes of a container that parses are not counted.
CountNotesMutant(c) ==
  IF ~c.parsed THEN [Zero EXCEPT !.notes = 1]
  ELSE IF c.entries = 0 THEN Zero
  ELSE [total |-> 1, multi |-> One(c.entries > 1), notes |-> 0,
        wrong |-> [r \in Readings |-> One(r \in c.wrong)]]

Count(c) ==
  IF ~c.parsed THEN [Zero EXCEPT !.notes = 1]
  ELSE IF c.entries = 0 THEN Zero
  ELSE [total |-> 1, multi |-> One(c.entries > 1), notes |-> One(c.noted),
        wrong |-> [r \in Readings |-> One(r \in c.wrong)]]

------------------------------------------------------------------------------
NextFile == /\ at' = at + 1 /\ k' = 0 /\ phase' = "file" /\ tally' = Zero
            /\ UNCHANGED args

Finish == /\ phase = "file" /\ at > Len(corpus)
          /\ phase' = "done"
          /\ UNCHANGED <<args, at, k, tally, grand, rows>>

\* Only survey_libs.py has a size limit.
SkipLarge == /\ phase = "file" /\ at <= Len(corpus)
             /\ tool = "survey_libs" /\ File.large
             /\ NextFile
             /\ UNCHANGED <<grand, rows>>

OpenFile == /\ phase = "file" /\ at <= Len(corpus)
            /\ ~(tool = "survey_libs" /\ File.large)
            /\ phase' = "containers"
            /\ UNCHANGED <<args, at, k, tally, grand, rows>>

(***************************************************************************)
(* survey_libs.py: parse, count, and add up when the file is done.         *)
(***************************************************************************)
CountContainer ==
  /\ phase = "containers" /\ tool = "survey_libs"
  /\ k < Len(File.containers)
  /\ k' = k + 1
  /\ tally' = Plus(tally, Count(File.containers[k']))
  /\ UNCHANGED <<args, at, phase, grand, rows>>

AllFound == phase = "containers" /\ k = Len(File.containers)

AddUp == /\ grand' = Plus(grand, tally)
         /\ rows' = rows + 1

PrintRow == /\ AllFound /\ tool = "survey_libs" /\ File.raises = "nothing"
            /\ IF tally.total = 0 THEN UNCHANGED <<grand, rows>> ELSE AddUp
            /\ NextFile

DropFile == /\ AllFound /\ tool = "survey_libs" /\ File.raises = "ValueError"
            /\ NextFile
            /\ UNCHANGED <<grand, rows>>

Crash == /\ AllFound /\ tool = "survey_libs" /\ File.raises = "another error"
         /\ phase' = "crashed"
         /\ UNCHANGED <<args, at, k, tally, grand, rows>>

(***************************************************************************)
(* The other two: list every container of the file, or skip the file on    *)
(* any exception, then count the containers that parse and have entries.   *)
(* A file they list is not printed by itself.                              *)
(***************************************************************************)
Lists == tool \in {"decisive_level", "wheel_census"}

SkipUnreadable == /\ phase = "containers" /\ Lists /\ File.raises # "nothing"
                  /\ NextFile
                  /\ UNCHANGED <<grand, rows>>

Listed(c) == One(c.parsed /\ c.entries > 0)

CountListed ==
  /\ phase = "containers" /\ Lists /\ File.raises = "nothing"
  /\ k < Len(File.containers)
  /\ k' = k + 1
  /\ grand' = [grand EXCEPT !.total = @ + Listed(File.containers[k'])]
  /\ UNCHANGED <<args, at, phase, tally, rows>>

ListedAll == /\ AllFound /\ Lists /\ File.raises = "nothing"
             /\ NextFile
             /\ UNCHANGED <<grand, rows>>

Next == \/ Finish \/ SkipLarge \/ OpenFile
        \/ CountContainer \/ PrintRow \/ DropFile \/ Crash
        \/ SkipUnreadable \/ CountListed \/ ListedAll

Spec == Init /\ [][Next]_vars

------------------------------------------------------------------------------
(***************************************************************************)
(* The containers of the corpus that can be counted: live, in a file that  *)
(* is not left out.                                                        *)
(***************************************************************************)
LeftOut(f) == f.raises # "nothing" \/ (tool = "survey_libs" /\ f.large)

HasEntries(c) == c.parsed /\ c.entries > 0

LiveIn(i) == {j \in DOMAIN corpus[i].containers :
                ~LeftOut(corpus[i]) /\ HasEntries(corpus[i].containers[j])}

LiveUpTo(n) == UNION {{i} \X LiveIn(i) : i \in 1..n}

Live == LiveUpTo(Len(corpus))

(***************************************************************************)
(* Three sweeps, one denominator: with no size limit in the way, a corpus  *)
(* has as many containers for survey_libs.py, which counts as it finds and *)
(* forgets a file that raises halfway, as for the two that list first.     *)
(***************************************************************************)
SweepsCountTheSameContainers ==
  phase = "done" => grand.total = Cardinality(Live)

(***************************************************************************)
(* "'notes' counts containers where the parser flagged a structural        *)
(* problem; zero means every shipped container parsed cleanly" (the        *)
(* closing text of survey_libs.py).                                        *)
(***************************************************************************)
ZeroNotesMeansParsedCleanly ==
  (phase = "done" /\ tool = "survey_libs" /\ grand.notes = 0) =>
    \A i \in DOMAIN corpus : corpus[i].raises = "nothing" /\ ~corpus[i].large =>
      \A j \in DOMAIN corpus[i].containers :
        corpus[i].containers[j].parsed /\ ~corpus[i].containers[j].noted

(***************************************************************************)
(* What a zero does mean: every container with a live entry parsed without *)
(* a note, and in a file that has one, every container parsed.             *)
(***************************************************************************)
ZeroNotesMeansLiveContainersAreClean ==
  (phase = "done" /\ tool = "survey_libs" /\ grand.notes = 0) =>
    \A i \in DOMAIN corpus : \A j \in LiveIn(i) :
      /\ ~corpus[i].containers[j].noted
      /\ \A c \in DOMAIN corpus[i].containers : corpus[i].containers[c].parsed
==============================================================================
