------------------------- MODULE LibrarySurveyProofs -------------------------
(***************************************************************************)
(* The three sweeps count the same containers and survey_libs.py's zero    *)
(* notes means what it can mean, for every set of corpora.                 *)
(*                                                                         *)
(* The argument: what has been added to the totals and to the locals of    *)
(* the file at hand is, at every step, the number of live containers in    *)
(* the files before it together with those among the first k of its own    *)
(* (Begun).  A container adds one element to that set or none; a file that *)
(* is dropped takes its locals with it, and had no live container to add.  *)
(***************************************************************************)
EXTENDS LibrarySurvey, FiniteSetTheorems, TLAPS

Tally == [total : Nat, multi : Nat, notes : Nat, wrong : [Readings -> Nat]]

TypeInv ==
  /\ corpus \in Corpora /\ tool \in Tools
  /\ at \in Nat \ {0} /\ at <= Len(corpus) + 1 /\ k \in Nat
  /\ phase \in {"file", "containers", "done", "crashed"}
  /\ tally \in Tally /\ grand \in Tally
  /\ Lists => tally = Zero

(***************************************************************************)
(* Of the first m containers of file n, those with an entry; and with them *)
(* the live containers of the files before.                                *)
(***************************************************************************)
Fresh(n, m) ==
  {j \in DOMAIN corpus[n].containers :
     j <= m /\ HasEntries(corpus[n].containers[j])}

Begun(n, m) == LiveUpTo(n - 1) \cup ({n} \X Fresh(n, m))

CountInv ==
  /\ IsFiniteSet(LiveUpTo(at - 1))
  /\ (tool = "survey_libs" \/ phase # "containers")
        => grand.total = Cardinality(LiveUpTo(at - 1))
  /\ phase = "file" => k = 0 /\ tally = Zero
  /\ phase = "done" => at = Len(corpus) + 1
  /\ phase = "containers" =>
       /\ at \in DOMAIN corpus
       /\ k <= Len(corpus[at].containers)
       /\ ~(tool = "survey_libs" /\ corpus[at].large)
       /\ Lists => k = 0 \/ corpus[at].raises = "nothing"
       /\ IsFiniteSet(Begun(at, k))
       /\ grand.total + tally.total = Cardinality(Begun(at, k))

(***************************************************************************)
(* No note so far: what was counted is clean.                              *)
(***************************************************************************)
CleanUpTo(n) ==
  \A i \in 1..n : \A j \in LiveIn(i) :
    /\ ~corpus[i].containers[j].noted
    /\ \A c \in DOMAIN corpus[i].containers : corpus[i].containers[c].parsed

CleanSoFar(n, m) ==
  \A j \in DOMAIN corpus[n].containers :
    j <= m => /\ corpus[n].containers[j].parsed
              /\ corpus[n].containers[j].entries > 0
                   => ~corpus[n].containers[j].noted

NotesInv ==
  tool = "survey_libs" =>
    /\ grand.notes = 0 => CleanUpTo(at - 1)
    /\ (phase = "containers" /\ tally.notes = 0) => CleanSoFar(at, k)

SurveyInv == TypeInv /\ CountInv /\ NotesInv

------------------------------------------------------------------------------
(***************************************************************************)
(* A corpus is what it is: what is derived from it does not change.        *)
(***************************************************************************)
LEMMA CorpusStays ==
  ASSUME UNCHANGED args
  PROVE  /\ corpus' = corpus /\ tool' = tool /\ (Lists' <=> Lists)
         /\ \A i : LiveIn(i)' = LiveIn(i)
         /\ \A n : LiveUpTo(n)' = LiveUpTo(n)
         /\ \A n, m : Fresh(n, m)' = Fresh(n, m)
         /\ \A n, m : Begun(n, m)' = Begun(n, m)
         /\ \A n : CleanUpTo(n)' <=> CleanUpTo(n)
         /\ \A n, m : CleanSoFar(n, m)' <=> CleanSoFar(n, m)
<1>1. corpus' = corpus /\ tool' = tool
  BY DEF args
<1>2. \A f : LeftOut(f)' <=> LeftOut(f)
  BY <1>1 DEF LeftOut
<1>3. \A i : LiveIn(i)' = LiveIn(i)
  BY <1>1, <1>2 DEF LiveIn
<1>4. \A n : LiveUpTo(n)' = LiveUpTo(n)
  BY <1>3 DEF LiveUpTo
<1>5. \A n, m : Fresh(n, m)' = Fresh(n, m)
  BY <1>1 DEF Fresh
<1>6. \A n, m : Begun(n, m)' = Begun(n, m)
  BY <1>4, <1>5 DEF Begun
<1>7. \A n : CleanUpTo(n)' <=> CleanUpTo(n)
  BY <1>1, <1>3 DEF CleanUpTo
<1>8. \A n, m : CleanSoFar(n, m)' <=> CleanSoFar(n, m)
  BY <1>1 DEF CleanSoFar
<1>9. Lists' <=> Lists
  BY <1>1 DEF Lists
<1>. QED  BY <1>1, <1>3, <1>4, <1>5, <1>6, <1>7, <1>8, <1>9

LEMMA CorpusTyped ==
  ASSUME TypeInv
  PROVE  /\ Len(corpus) \in Nat /\ DOMAIN corpus = 1..Len(corpus)
         /\ \A i \in DOMAIN corpus :
              /\ corpus[i] \in Library
              /\ corpus[i].containers \in Seq(Container)
              /\ Len(corpus[i].containers) \in Nat
              /\ DOMAIN corpus[i].containers = 1..Len(corpus[i].containers)
              /\ \A j \in DOMAIN corpus[i].containers :
                   corpus[i].containers[j] \in Container
<1>1. corpus \in Seq(Library)
  BY CorporaAssumption DEF TypeInv
<1>2. \A i \in DOMAIN corpus : corpus[i] \in Library
  BY <1>1
<1>3. \A i \in DOMAIN corpus : corpus[i].containers \in Seq(Container)
  BY <1>2 DEF Library
<1>. QED  BY <1>1, <1>2, <1>3

(***************************************************************************)
(* The file at hand, when its containers are read.                         *)
(***************************************************************************)
Reading == SurveyInv /\ phase = "containers"

LEMMA AtHand ==
  ASSUME Reading
  PROVE  /\ at \in DOMAIN corpus /\ at \in Nat /\ at > 0 /\ at <= Len(corpus)
         /\ Len(corpus) \in Nat
         /\ k \in Nat /\ Len(corpus[at].containers) \in Nat
         /\ DOMAIN corpus[at].containers = 1..Len(corpus[at].containers)
         /\ k + 1 \in DOMAIN corpus[at].containers
              => corpus[at].containers[k + 1] \in Container
         /\ grand \in Tally /\ tally \in Tally
<1>1. TypeInv /\ at \in DOMAIN corpus
  BY DEF Reading, SurveyInv, CountInv
<1>. QED  BY <1>1, CorpusTyped DEF TypeInv

(***************************************************************************)
(* The live containers of one file more.                                   *)
(***************************************************************************)
LEMMA OneFileMore ==
  ASSUME NEW n \in Nat, n > 0
  PROVE  LiveUpTo(n) = LiveUpTo(n - 1) \cup ({n} \X LiveIn(n))
<1>1. \A i : i \in 1..n <=> i \in 1..(n - 1) \/ i = n
  OBVIOUS
<1>. QED  BY <1>1 DEF LiveUpTo

LEMMA LivePairs ==
  ASSUME NEW n, NEW x \in LiveUpTo(n)
  PROVE  x[1] \in 1..n
<1>1. PICK i \in 1..n : x \in {i} \X LiveIn(i)
  BY DEF LiveUpTo
<1>. QED  BY <1>1

(***************************************************************************)
(* One container more adds itself when it has an entry, and is new.        *)
(***************************************************************************)
LEMMA OneContainerMore ==
  ASSUME Reading, k + 1 \in DOMAIN corpus[at].containers
  PROVE  /\ HasEntries(corpus[at].containers[k + 1])
              => Begun(at, k + 1) = Begun(at, k) \cup {<<at, k + 1>>}
         /\ ~HasEntries(corpus[at].containers[k + 1])
              => Begun(at, k + 1) = Begun(at, k)
         /\ <<at, k + 1>> \notin Begun(at, k)
<1>1. \A j \in DOMAIN corpus[at].containers : j <= k + 1 <=> j <= k \/ j = k + 1
  BY AtHand
<1>2. HasEntries(corpus[at].containers[k + 1])
        => Fresh(at, k + 1) = Fresh(at, k) \cup {k + 1}
  BY <1>1 DEF Fresh
<1>3. ~HasEntries(corpus[at].containers[k + 1])
        => Fresh(at, k + 1) = Fresh(at, k)
  BY <1>1 DEF Fresh
<1>4. <<at, k + 1>> \notin LiveUpTo(at - 1)
  <2>1. ~(at \in 1..(at - 1))
    BY AtHand
  <2>. QED  BY <2>1, LivePairs
<1>5. k + 1 \notin Fresh(at, k)
  BY AtHand DEF Fresh
<1>. QED  BY <1>2, <1>3, <1>4, <1>5 DEF Begun

(***************************************************************************)
(* A file read to its end has given all its live containers.               *)
(***************************************************************************)
LEMMA FileRead ==
  ASSUME Reading, AllFound
  PROVE  /\ ~LeftOut(corpus[at]) => LiveUpTo(at) = Begun(at, k)
         /\ LeftOut(corpus[at]) => LiveUpTo(at) = LiveUpTo(at - 1)
         /\ LiveIn(at) \subseteq Fresh(at, k)
<1>1. \A j \in DOMAIN corpus[at].containers : j <= k
  BY AtHand DEF AllFound, File
<1>2. ~LeftOut(corpus[at]) => LiveIn(at) = Fresh(at, k)
  BY <1>1 DEF LiveIn, Fresh
<1>3. LeftOut(corpus[at]) => LiveIn(at) = {}
  BY DEF LiveIn
<1>4. LiveUpTo(at) = LiveUpTo(at - 1) \cup ({at} \X LiveIn(at))
  BY AtHand, OneFileMore
<1>. QED  BY <1>2, <1>3, <1>4 DEF Begun

LEMMA NothingBegun ==
  ASSUME TypeInv, at \in DOMAIN corpus
  PROVE  Begun(at, 0) = LiveUpTo(at - 1)
<1>1. Fresh(at, 0) = {}
  BY CorpusTyped DEF Fresh
<1>. QED  BY <1>1 DEF Begun

------------------------------------------------------------------------------
(***************************************************************************)
(* Tallies.                                                                *)
(***************************************************************************)
LEMMA ZeroIsTally == Zero \in Tally /\ Zero.total = 0 /\ Zero.notes = 0
BY DEF Zero, Tally

LEMMA TalliesCount ==
  ASSUME NEW t \in Tally
  PROVE  t.total \in Nat /\ t.notes \in Nat
BY DEF Tally

LEMMA AddedToTotal ==
  ASSUME NEW t \in Tally, NEW n \in Nat
  PROVE  /\ [t EXCEPT !.total = @ + n] \in Tally
         /\ [t EXCEPT !.total = @ + n].total = t.total + n
BY DEF Tally

LEMMA SumOfTallies ==
  ASSUME NEW t \in Tally, NEW u \in Tally
  PROVE  /\ Plus(t, u) \in Tally
         /\ Plus(t, u).total = t.total + u.total
         /\ Plus(t, u).notes = t.notes + u.notes
BY DEF Plus, Tally

LEMMA CountOfContainer ==
  ASSUME NEW c \in Container
  PROVE  /\ Count(c) \in Tally
         /\ Count(c).total = IF HasEntries(c) THEN 1 ELSE 0
         /\ Count(c).notes = 0 => /\ c.parsed
                                  /\ c.entries > 0 => ~c.noted
<1>1. c.entries \in Nat
  BY DEF Container
<1>2. CASE ~c.parsed
  BY <1>2 DEF Count, Zero, Tally, HasEntries
<1>3. CASE c.parsed /\ c.entries = 0
  BY <1>3 DEF Count, Zero, Tally, HasEntries
<1>4. CASE c.parsed /\ c.entries # 0
  <2>1. HasEntries(c)
    BY <1>1, <1>4 DEF HasEntries
  <2>2. Count(c) = [total |-> 1, multi |-> One(c.entries > 1), notes |-> One(c.noted),
                    wrong |-> [r \in Readings |-> One(r \in c.wrong)]]
    BY <1>4 DEF Count
  <2>3. One(c.entries > 1) \in Nat /\ One(c.noted) \in Nat
        /\ \A r \in Readings : One(r \in c.wrong) \in Nat
    BY DEF One
  <2>4. [r \in Readings |-> One(r \in c.wrong)] \in [Readings -> Nat]
    BY <2>3
  <2>5. One(c.noted) = 0 => ~c.noted
    BY DEF One
  <2>. QED  BY <1>4, <2>1, <2>2, <2>3, <2>4, <2>5 DEF Tally
<1>. QED  BY <1>2, <1>3, <1>4

------------------------------------------------------------------------------
(***************************************************************************)
(* The steps.  What holds where a sweep begins.                            *)
(***************************************************************************)
LEMMA SurveyInit == Init => SurveyInv
<1>. SUFFICES ASSUME Init PROVE SurveyInv
  OBVIOUS
<1>1. Len(corpus) \in Nat
  BY CorporaAssumption DEF Init
<1>2. TypeInv
  BY <1>1, ZeroIsTally DEF Init, TypeInv
<1>3. LiveUpTo(0) = {}
  BY DEF LiveUpTo
<1>4. CountInv
  BY <1>3, FS_EmptySet, ZeroIsTally DEF Init, CountInv
<1>5. CleanUpTo(0)
  BY DEF CleanUpTo
<1>6. NotesInv
  BY <1>5 DEF Init, NotesInv
<1>. QED  BY <1>2, <1>4, <1>6 DEF SurveyInv

(***************************************************************************)
(* The sweep moves on to the next file with the totals in order.           *)
(***************************************************************************)
LEMMA MoveOn ==
  ASSUME SurveyInv, at <= Len(corpus), NextFile, grand' \in Tally,
         IsFiniteSet(LiveUpTo(at)),
         grand'.total = Cardinality(LiveUpTo(at)),
         tool = "survey_libs" => (grand'.notes = 0 => CleanUpTo(at))
  PROVE  SurveyInv'
<1>1. /\ UNCHANGED args /\ at' = at + 1 /\ k' = 0 /\ phase' = "file"
      /\ tally' = Zero /\ at \in Nat /\ Len(corpus) \in Nat
  BY CorpusTyped DEF NextFile, SurveyInv, TypeInv
<1>2. /\ corpus' = corpus /\ tool' = tool
      /\ LiveUpTo(at - 1)' = LiveUpTo(at)
      /\ CleanUpTo(at - 1)' <=> CleanUpTo(at)
  <2>1. at' - 1 = at
    BY <1>1
  <2>. QED  BY <1>1, <2>1, CorpusStays
<1>3. TypeInv'
  BY <1>1, <1>2, ZeroIsTally DEF SurveyInv, TypeInv
<1>4. CountInv'
  BY <1>1, <1>2 DEF CountInv
<1>5. NotesInv'
  BY <1>1, <1>2 DEF NotesInv
<1>. QED  BY <1>3, <1>4, <1>5 DEF SurveyInv

(***************************************************************************)
(* A file that counts for nothing is passed.                               *)
(***************************************************************************)
LEMMA PassOver ==
  ASSUME SurveyInv, at \in DOMAIN corpus, LeftOut(corpus[at]), NextFile,
         grand' = grand, grand.total = Cardinality(LiveUpTo(at - 1))
  PROVE  SurveyInv'
<1>1. at \in Nat /\ at > 0 /\ at <= Len(corpus) /\ at \in 1..at
  BY CorpusTyped DEF SurveyInv, TypeInv
<1>2. LiveIn(at) = {}
  BY DEF LiveIn
<1>3. LiveUpTo(at) = LiveUpTo(at - 1)
  BY <1>1, <1>2, OneFileMore
<1>4. CleanUpTo(at - 1) => CleanUpTo(at)
  <2>1. \A i \in 1..at : i \in 1..(at - 1) \/ i = at
    BY <1>1
  <2>. QED  BY <1>2, <2>1 DEF CleanUpTo
<1>5. tool = "survey_libs" => (grand'.notes = 0 => CleanUpTo(at))
  BY <1>4 DEF SurveyInv, NotesInv
<1>6. IsFiniteSet(LiveUpTo(at)) /\ grand' \in Tally
  BY <1>3 DEF SurveyInv, CountInv, TypeInv
<1>. QED  BY <1>1, <1>3, <1>5, <1>6, MoveOn

LEMMA SkipLargeOK == SurveyInv /\ SkipLarge => SurveyInv'
<1>. SUFFICES ASSUME SurveyInv, SkipLarge PROVE SurveyInv'
  OBVIOUS
<1>1. at \in DOMAIN corpus
  BY CorpusTyped DEF SkipLarge, SurveyInv, TypeInv
<1>2. LeftOut(corpus[at]) /\ NextFile /\ grand' = grand
  BY DEF SkipLarge, LeftOut, File
<1>3. grand.total = Cardinality(LiveUpTo(at - 1))
  BY DEF SkipLarge, SurveyInv, CountInv
<1>. QED  BY <1>1, <1>2, <1>3, PassOver

LEMMA DroppedOK == SurveyInv /\ (DropFile \/ SkipUnreadable) => SurveyInv'
<1>. SUFFICES ASSUME SurveyInv, DropFile \/ SkipUnreadable PROVE SurveyInv'
  OBVIOUS
<1>1. at \in DOMAIN corpus /\ phase = "containers"
  BY DEF DropFile, SkipUnreadable, AllFound, SurveyInv, CountInv
<1>2. LeftOut(corpus[at]) /\ NextFile /\ grand' = grand
  BY DEF DropFile, SkipUnreadable, LeftOut, File
<1>3. grand.total = Cardinality(LiveUpTo(at - 1))
  <2>1. CASE DropFile
    BY <2>1 DEF DropFile, SurveyInv, CountInv
  <2>2. CASE SkipUnreadable
    <3>1. k = 0 /\ tally = Zero
      BY <1>1, <2>2 DEF SkipUnreadable, SurveyInv, CountInv, File, TypeInv
    <3>2. Begun(at, k) = LiveUpTo(at - 1)
      BY <1>1, <3>1, NothingBegun DEF SurveyInv
    <3>3. grand.total + 0 = Cardinality(Begun(at, k))
      BY <1>1, <3>1, ZeroIsTally DEF SurveyInv, CountInv
    <3>4. grand.total \in Nat
      BY DEF SurveyInv, TypeInv, Tally
    <3>. QED  BY <3>2, <3>3, <3>4
  <2>. QED  BY <2>1, <2>2
<1>. QED  BY <1>1, <1>2, <1>3, PassOver

LEMMA OpenFileOK == SurveyInv /\ OpenFile => SurveyInv'
<1>. SUFFICES ASSUME SurveyInv, OpenFile PROVE SurveyInv'
  OBVIOUS
<1>1. /\ UNCHANGED args /\ at' = at /\ k' = k /\ tally' = tally /\ grand' = grand
      /\ phase' = "containers" /\ phase = "file"
      /\ ~(tool = "survey_libs" /\ corpus[at].large)
  BY DEF OpenFile, File
<1>2. at \in DOMAIN corpus /\ k = 0 /\ tally = Zero
  BY <1>1, CorpusTyped DEF OpenFile, SurveyInv, TypeInv, CountInv
<1>3. Begun(at, k) = LiveUpTo(at - 1)
  BY <1>2, NothingBegun DEF SurveyInv
<1>4. grand.total + tally.total = Cardinality(Begun(at, k))
  <2>1. grand.total \in Nat /\ tally.total = 0
    BY <1>2, ZeroIsTally DEF SurveyInv, TypeInv, Tally
  <2>2. grand.total = Cardinality(LiveUpTo(at - 1))
    BY <1>1 DEF SurveyInv, CountInv
  <2>. QED  BY <1>3, <2>1, <2>2
<1>5. /\ corpus' = corpus /\ tool' = tool /\ (Lists' <=> Lists)
      /\ LiveUpTo(at - 1)' = LiveUpTo(at - 1)
      /\ Begun(at, k)' = Begun(at, k)
      /\ CleanUpTo(at - 1)' <=> CleanUpTo(at - 1)
      /\ CleanSoFar(at, k)' <=> CleanSoFar(at, k)
  BY <1>1, CorpusStays
<1>6. TypeInv'
  BY <1>1, <1>5 DEF SurveyInv, TypeInv
<1>7. k <= Len(corpus[at].containers)
  BY <1>2, CorpusTyped DEF SurveyInv
<1>8. CountInv'
  BY <1>1, <1>2, <1>3, <1>4, <1>5, <1>7 DEF SurveyInv, CountInv
<1>9. CleanSoFar(at, k)
  BY <1>2, CorpusTyped DEF CleanSoFar, SurveyInv
<1>10. NotesInv'
  BY <1>1, <1>5, <1>9 DEF SurveyInv, NotesInv
<1>. QED  BY <1>6, <1>8, <1>10 DEF SurveyInv

(***************************************************************************)
(* A container is counted, in the locals or in the totals.                 *)
(***************************************************************************)
LEMMA CountedOne ==
  ASSUME Reading, k + 1 \in DOMAIN corpus[at].containers,
         UNCHANGED args, at' = at, k' = k + 1, phase' = phase,
         tally' \in Tally, grand' \in Tally, Lists => tally' = Zero,
         tool = "survey_libs" => grand' = grand,
         Lists => corpus[at].raises = "nothing",
         grand'.total + tally'.total
           = grand.total + tally.total
               + (IF HasEntries(corpus[at].containers[k + 1]) THEN 1 ELSE 0)
  PROVE  TypeInv' /\ CountInv'
<1>1. /\ corpus' = corpus /\ tool' = tool /\ (Lists' <=> Lists)
      /\ LiveUpTo(at - 1)' = LiveUpTo(at - 1)
      /\ Begun(at, k)' = Begun(at, k + 1)
  BY CorpusStays
<1>2. TypeInv'
  BY <1>1, AtHand DEF Reading, SurveyInv, TypeInv
<1>3. IsFiniteSet(Begun(at, k)) /\ grand.total + tally.total = Cardinality(Begun(at, k))
  BY DEF Reading, SurveyInv, CountInv
<1>4. /\ IsFiniteSet(Begun(at, k + 1))
      /\ grand'.total + tally'.total = Cardinality(Begun(at, k + 1))
  <2>1. CASE HasEntries(corpus[at].containers[k + 1])
    <3>1. Begun(at, k + 1) = Begun(at, k) \cup {<<at, k + 1>>}
      BY <2>1, OneContainerMore
    <3>2. <<at, k + 1>> \notin Begun(at, k)
      BY OneContainerMore
    <3>3. /\ IsFiniteSet(Begun(at, k) \cup {<<at, k + 1>>})
          /\ Cardinality(Begun(at, k) \cup {<<at, k + 1>>})
               = Cardinality(Begun(at, k)) + 1
      BY <1>3, <3>2, FS_AddElement
    <3>. QED  BY <1>3, <2>1, <3>1, <3>3
  <2>2. CASE ~HasEntries(corpus[at].containers[k + 1])
    <3>1. Begun(at, k + 1) = Begun(at, k)
      BY <2>2, OneContainerMore
    <3>2. grand.total \in Nat /\ tally.total \in Nat
      BY AtHand, TalliesCount
    <3>. QED  BY <1>3, <2>2, <3>1, <3>2
  <2>. QED  BY <2>1, <2>2
<1>5. k + 1 <= Len(corpus[at].containers)
  BY AtHand
<1>6. CountInv'
  BY <1>1, <1>4, <1>5 DEF Reading, SurveyInv, CountInv
<1>. QED  BY <1>2, <1>6

LEMMA CountContainerOK == SurveyInv /\ CountContainer => SurveyInv'
<1>. SUFFICES ASSUME SurveyInv, CountContainer PROVE SurveyInv'
  OBVIOUS
<1> DEFINE c == corpus[at].containers[k + 1]
<1>1. /\ Reading /\ UNCHANGED args /\ at' = at /\ k' = k + 1 /\ phase' = phase
      /\ phase = "containers"
      /\ tool = "survey_libs" /\ ~Lists /\ grand' = grand
      /\ tally' = Plus(tally, Count(c)) /\ k < Len(corpus[at].containers)
  BY DEF CountContainer, Reading, File, Lists
<1>2. k + 1 \in DOMAIN corpus[at].containers
  BY <1>1, AtHand
<1>3. c \in Container /\ tally \in Tally /\ grand \in Tally
  BY <1>1, <1>2, AtHand
<1>4. /\ Count(c) \in Tally
      /\ Count(c).total = IF HasEntries(c) THEN 1 ELSE 0
      /\ Count(c).notes = 0 => c.parsed /\ (c.entries > 0 => ~c.noted)
  BY <1>3, CountOfContainer
<1>5. /\ tally' \in Tally /\ tally'.total = tally.total + Count(c).total
      /\ tally'.notes = tally.notes + Count(c).notes
  BY <1>1, <1>3, <1>4, SumOfTallies
<1>6. /\ tally.total \in Nat /\ tally.notes \in Nat /\ grand.total \in Nat
      /\ Count(c).total \in Nat /\ Count(c).notes \in Nat
  BY <1>3, <1>4 DEF Tally
<1>7. grand'.total + tally'.total
        = grand.total + tally.total + (IF HasEntries(c) THEN 1 ELSE 0)
  BY <1>1, <1>4, <1>5, <1>6
<1>8. TypeInv' /\ CountInv'
  BY <1>1, <1>2, <1>3, <1>5, <1>7, CountedOne
<1>9. tally'.notes = 0 => CleanSoFar(at, k + 1)
  <2>1. SUFFICES ASSUME tally'.notes = 0 PROVE CleanSoFar(at, k + 1)
    OBVIOUS
  <2>2. tally.notes = 0 /\ Count(c).notes = 0
    BY <1>5, <1>6, <2>1
  <2>3. CleanSoFar(at, k)
    BY <1>1, <2>2 DEF SurveyInv, NotesInv
  <2>4. \A j \in DOMAIN corpus[at].containers : j <= k + 1 => j <= k \/ j = k + 1
    BY <1>1, AtHand
  <2>. QED  BY <1>4, <2>2, <2>3, <2>4 DEF CleanSoFar
<1>10. /\ CleanUpTo(at - 1)' <=> CleanUpTo(at - 1)
       /\ CleanSoFar(at, k)' <=> CleanSoFar(at, k + 1)
       /\ tool' = tool
  BY <1>1, CorpusStays
<1>11. NotesInv'
  BY <1>1, <1>9, <1>10 DEF SurveyInv, NotesInv
<1>. QED  BY <1>8, <1>11 DEF SurveyInv

LEMMA CountListedOK == SurveyInv /\ CountListed => SurveyInv'
<1>. SUFFICES ASSUME SurveyInv, CountListed PROVE SurveyInv'
  OBVIOUS
<1> DEFINE c == corpus[at].containers[k + 1]
<1>1. /\ Reading /\ UNCHANGED args /\ at' = at /\ k' = k + 1 /\ phase' = phase
      /\ tool # "survey_libs" /\ Lists /\ tally' = tally
      /\ corpus[at].raises = "nothing"
      /\ grand' = [grand EXCEPT !.total = @ + Listed(c)]
      /\ k < Len(corpus[at].containers)
  BY DEF CountListed, Reading, File, Lists
<1>2. k + 1 \in DOMAIN corpus[at].containers
  BY <1>1, AtHand
<1>3. tally \in Tally /\ grand \in Tally /\ tally = Zero
  BY <1>1, AtHand DEF SurveyInv, TypeInv
<1>4. Listed(c) = IF HasEntries(c) THEN 1 ELSE 0
  BY DEF Listed, One, HasEntries
<1>5. grand' \in Tally /\ grand'.total = grand.total + Listed(c)
  <2>1. Listed(c) \in Nat
    BY <1>4
  <2>. HIDE DEF c
  <2>. QED  BY <1>1, <1>3, <2>1, AddedToTotal
<1>6. tally.total \in Nat /\ grand.total \in Nat
  BY <1>3 DEF Tally
<1>7. grand'.total + tally'.total
        = grand.total + tally.total + (IF HasEntries(c) THEN 1 ELSE 0)
  BY <1>1, <1>4, <1>5, <1>6
<1>8. TypeInv' /\ CountInv'
  BY <1>1, <1>2, <1>3, <1>5, <1>7, CountedOne
<1>9. NotesInv'
  BY <1>1, CorpusStays DEF NotesInv
<1>. QED  BY <1>8, <1>9 DEF SurveyInv

(***************************************************************************)
(* A file is done.                                                         *)
(***************************************************************************)
LEMMA FileDone ==
  ASSUME Reading, AllFound, ~LeftOut(corpus[at])
  PROVE  /\ at <= Len(corpus) /\ IsFiniteSet(LiveUpTo(at))
         /\ grand.total + tally.total = Cardinality(LiveUpTo(at))
         /\ grand.total \in Nat /\ tally.total \in Nat
         /\ grand.notes \in Nat /\ tally.notes \in Nat
<1>1. LiveUpTo(at) = Begun(at, k)
  BY FileRead
<1>. QED  BY <1>1, AtHand DEF Reading, SurveyInv, CountInv, Tally

LEMMA NothingFresh ==
  ASSUME Reading, tool = "survey_libs", tally.total = 0
  PROVE  Fresh(at, k) = {}
<1>1. /\ IsFiniteSet(Begun(at, k)) /\ LiveUpTo(at - 1) \in SUBSET Begun(at, k)
      /\ grand.total + 0 = Cardinality(Begun(at, k))
      /\ grand.total = Cardinality(LiveUpTo(at - 1))
  BY DEF Reading, SurveyInv, CountInv, Begun
<1>2. grand.total \in Nat
  BY AtHand DEF Tally
<1>3. Cardinality(Begun(at, k)) = Cardinality(LiveUpTo(at - 1))
  BY <1>1, <1>2
<1>4. Begun(at, k) = LiveUpTo(at - 1)
  BY <1>1, <1>3, FS_Subset
<1>5. ASSUME NEW j \in Fresh(at, k) PROVE FALSE
  <2>1. <<at, j>> \in LiveUpTo(at - 1)
    BY <1>4 DEF Begun
  <2>2. at \in 1..(at - 1)
    BY <2>1, LivePairs
  <2>. QED  BY <2>2, AtHand
<1>. QED  BY <1>5

LEMMA PrintRowOK == SurveyInv /\ PrintRow => SurveyInv'
<1>. SUFFICES ASSUME SurveyInv, PrintRow PROVE SurveyInv'
  OBVIOUS
<1>1. /\ Reading /\ AllFound /\ tool = "survey_libs" /\ NextFile
      /\ phase = "containers"
      /\ ~LeftOut(corpus[at])
  BY DEF PrintRow, AllFound, Reading, LeftOut, File, SurveyInv, CountInv
<1>2. /\ at <= Len(corpus) /\ IsFiniteSet(LiveUpTo(at))
      /\ grand.total + tally.total = Cardinality(LiveUpTo(at))
      /\ grand.total \in Nat /\ tally.total \in Nat
      /\ grand.notes \in Nat /\ tally.notes \in Nat
      /\ grand \in Tally /\ tally \in Tally
  BY <1>1, FileDone, AtHand
<1>3. LiveIn(at) \subseteq Fresh(at, k)
  BY <1>1, FileRead
<1>4. \A i \in 1..at : i \in 1..(at - 1) \/ i = at
  BY <1>1, AtHand
<1>5. CASE tally.total = 0
  <2>1. grand' = grand
    BY <1>5 DEF PrintRow
  <2>2. LiveIn(at) = {}
    BY <1>1, <1>3, <1>5, NothingFresh
  <2>3. CleanUpTo(at - 1) => CleanUpTo(at)
    BY <1>4, <2>2 DEF CleanUpTo
  <2>4. grand'.notes = 0 => CleanUpTo(at)
    BY <1>1, <2>1, <2>3 DEF SurveyInv, NotesInv
  <2>5. grand'.total = Cardinality(LiveUpTo(at))
    BY <1>2, <1>5, <2>1
  <2>. QED  BY <1>1, <1>2, <2>1, <2>4, <2>5, MoveOn
<1>6. CASE tally.total # 0
  <2>1. grand' = Plus(grand, tally)
    BY <1>6 DEF PrintRow, AddUp
  <2>2. /\ grand' \in Tally /\ grand'.total = grand.total + tally.total
        /\ grand'.notes = grand.notes + tally.notes
    BY <1>2, <2>1, SumOfTallies
  <2>3. ASSUME grand'.notes = 0 PROVE CleanUpTo(at)
    <3>1. grand.notes = 0 /\ tally.notes = 0
      BY <1>2, <2>2, <2>3
    <3>2. CleanUpTo(at - 1) /\ CleanSoFar(at, k)
      BY <1>1, <3>1 DEF SurveyInv, NotesInv
    <3>3. \A j \in DOMAIN corpus[at].containers : j <= k
      BY <1>1, AtHand DEF AllFound, File
    <3>4. \A j \in LiveIn(at) : /\ j \in DOMAIN corpus[at].containers
                                /\ corpus[at].containers[j].entries > 0
      BY DEF LiveIn, HasEntries
    <3>. QED  BY <1>4, <3>2, <3>3, <3>4 DEF CleanUpTo, CleanSoFar
  <2>4. grand'.total = Cardinality(LiveUpTo(at))
    BY <1>2, <2>2
  <2>. QED  BY <1>1, <1>2, <2>2, <2>3, <2>4, MoveOn
<1>. QED  BY <1>5, <1>6

LEMMA ListedAllOK == SurveyInv /\ ListedAll => SurveyInv'
<1>. SUFFICES ASSUME SurveyInv, ListedAll PROVE SurveyInv'
  OBVIOUS
<1>1. /\ Reading /\ AllFound /\ Lists /\ NextFile /\ grand' = grand
      /\ tool # "survey_libs" /\ ~LeftOut(corpus[at])
  BY DEF ListedAll, AllFound, Reading, LeftOut, File, Lists
<1>2. /\ at <= Len(corpus) /\ IsFiniteSet(LiveUpTo(at))
      /\ grand.total + tally.total = Cardinality(LiveUpTo(at))
      /\ grand.total \in Nat /\ grand \in Tally
  BY <1>1, FileDone, AtHand
<1>3. tally.total = 0
  BY <1>1, ZeroIsTally DEF SurveyInv, TypeInv
<1>4. grand'.total = Cardinality(LiveUpTo(at))
  BY <1>1, <1>2, <1>3
<1>. QED  BY <1>1, <1>2, <1>4, MoveOn

(***************************************************************************)
(* The steps that count nothing.                                           *)
(***************************************************************************)
LEMMA RestOK == SurveyInv /\ (Finish \/ Crash \/ UNCHANGED vars) => SurveyInv'
<1>. SUFFICES ASSUME SurveyInv, Finish \/ Crash \/ UNCHANGED vars PROVE SurveyInv'
  OBVIOUS
<1>1. /\ UNCHANGED args /\ at' = at /\ k' = k /\ tally' = tally /\ grand' = grand
  BY DEF Finish, Crash, vars
<1>2. /\ corpus' = corpus /\ tool' = tool /\ (Lists' <=> Lists)
      /\ LiveUpTo(at - 1)' = LiveUpTo(at - 1)
      /\ Begun(at, k)' = Begun(at, k)
      /\ CleanUpTo(at - 1)' <=> CleanUpTo(at - 1)
      /\ CleanSoFar(at, k)' <=> CleanSoFar(at, k)
  BY <1>1, CorpusStays
<1>3. CASE Finish
  <2>1. phase = "file" /\ phase' = "done" /\ at > Len(corpus)
    BY <1>3 DEF Finish
  <2>2. at = Len(corpus) + 1
    BY <2>1, CorpusTyped DEF SurveyInv, TypeInv
  <2>. QED
    BY <1>1, <1>2, <2>1, <2>2 DEF SurveyInv, TypeInv, CountInv, NotesInv
<1>4. CASE Crash
  <2>1. phase = "containers" /\ phase' = "crashed" /\ tool = "survey_libs"
    BY <1>4 DEF Crash, AllFound
  <2>. QED
    BY <1>1, <1>2, <2>1 DEF SurveyInv, TypeInv, CountInv, NotesInv
<1>5. CASE UNCHANGED vars
  <2>1. phase' = phase
    BY <1>5 DEF vars
  <2>. QED
    BY <1>1, <1>2, <2>1 DEF SurveyInv, TypeInv, CountInv, NotesInv
<1>. QED  BY <1>3, <1>4, <1>5

------------------------------------------------------------------------------
(***************************************************************************)
(* The inductive invariant holds throughout.                               *)
(***************************************************************************)
THEOREM SurveyInvariant == Spec => []SurveyInv
<1>1. SurveyInv /\ [Next]_vars => SurveyInv'
  BY SkipLargeOK, OpenFileOK, CountContainerOK, PrintRowOK, DroppedOK,
     CountListedOK, ListedAllOK, RestOK DEF Next
<1>. QED  BY <1>1, SurveyInit, PTL DEF Spec

(***************************************************************************)
(* Every sweep that finishes has counted the live containers of its corpus *)
(* (survey_libs.py, decisive_level.py, wheel_census.py, the totals).       *)
(***************************************************************************)
THEOREM OneDenominator == Spec => []SweepsCountTheSameContainers
<1>1. SurveyInv => SweepsCountTheSameContainers
  <2>. SUFFICES ASSUME SurveyInv, phase = "done"
                PROVE  grand.total = Cardinality(Live)
    BY DEF SweepsCountTheSameContainers
  <2>1. at - 1 = Len(corpus)
    BY CorpusTyped DEF SurveyInv, CountInv
  <2>. QED  BY <2>1 DEF SurveyInv, CountInv, Live
<1>. QED  BY <1>1, SurveyInvariant, PTL

(***************************************************************************)
(* When survey_libs.py ends with a zero under 'notes', the containers it   *)
(* counted are clean and nothing in their files failed to parse (the       *)
(* closing text of survey_libs.py, as far as it is true).                  *)
(***************************************************************************)
THEOREM ZeroNotesCleared == Spec => []ZeroNotesMeansLiveContainersAreClean
<1>1. SurveyInv => ZeroNotesMeansLiveContainersAreClean
  <2>. SUFFICES ASSUME SurveyInv, phase = "done", tool = "survey_libs",
                       grand.notes = 0
                PROVE  \A i \in DOMAIN corpus : \A j \in LiveIn(i) :
                         /\ ~corpus[i].containers[j].noted
                         /\ \A c \in DOMAIN corpus[i].containers :
                              corpus[i].containers[c].parsed
    BY DEF ZeroNotesMeansLiveContainersAreClean
  <2>1. DOMAIN corpus = 1..(at - 1)
    BY CorpusTyped DEF SurveyInv, CountInv
  <2>2. CleanUpTo(at - 1)
    BY DEF SurveyInv, NotesInv
  <2>. QED  BY <2>1, <2>2 DEF CleanUpTo
<1>. QED  BY <1>1, SurveyInvariant, PTL
==============================================================================
