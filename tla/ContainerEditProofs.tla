------------------------- MODULE ContainerEditProofs -------------------------
(***************************************************************************)
(* First the walk.  What parse_container reports is what the driver reads, *)
(* entry by entry, for every buffer: both walks start at the same offset   *)
(* and take the same stride out of the same bytes, so whichever is ahead   *)
(* has left the other its next offset.  And what each walk has passed when *)
(* it stops, and why it stopped, gives the rest: the parser is never the   *)
(* longer one, what it leaves out it has noted, and what it notes is so.   *)
(*                                                                         *)
(* Then the editors between two such walks.  What an editor writes is a    *)
(* container again, which both walk as they walk any other; the entry it   *)
(* changes is the one the listing gives this index; and what is read of    *)
(* the file written is what was read of the file listed, up to the place   *)
(* of the edit.  All of it for every file and command line.                *)
(***************************************************************************)
EXTENDS ContainerEdit, TLAPS

(***************************************************************************)
(* A header that fits in the buffer has a stride the walk can take.        *)
(***************************************************************************)
LEMMA ReadableHeader ==
  ASSUME IsImage(image), NEW p \in Nat, Readable(p)
  PROVE  /\ HeaderAt(p) \in Header
         /\ HeaderAt(p).size \in Nat /\ HeaderAt(p).padded \in Nat
         /\ Stride(p) \in Nat
         /\ DriverStride(p) = Stride(p)
<1>1. p \in HeaderOffsets(image.len)
  BY FixedAssumption DEF HeaderOffsets, Readable, IsImage
<1>2. image.header \in [HeaderOffsets(image.len) -> Header]
  BY DEF IsImage
<1>3. image.header[p] \in Header
  BY <1>1, <1>2
<1>. QED  BY <1>3 DEF HeaderAt, Header, Stride, DriverStride

(***************************************************************************)
(* The size both walks use is an integer.                                  *)
(***************************************************************************)
LEMMA DeclaredIsInteger ==
  ASSUME IsImage(image)
  PROVE  Declared \in Int /\ DriverBound = Declared
<1>1. image.size \in Nat /\ 2 * HalfWord \in Nat /\ 2 * HalfWord > 0
  BY HalfWordAssumption DEF IsImage
<1>2. image.size % (2 * HalfWord) \in Int
  BY <1>1
<1>. QED  BY <1>2, HalfWordAssumption DEF Declared, DriverBound, SignedWord

(***************************************************************************)
(* Every buffer starts both walks with typed state.                        *)
(***************************************************************************)
LEMMA InitIsTyped == Init => TypeOK
BY ImagesAssumption DEF Init, TypeOK, IsImage

(***************************************************************************)
(* No step of either walk leaves the types.                                *)
(***************************************************************************)
LEMMA NextIsTyped == TypeOK /\ [Next]_vars => TypeOK'
<1>. SUFFICES ASSUME TypeOK, [Next]_vars  PROVE TypeOK'
  OBVIOUS
<1>. USE DEF TypeOK
<1>. image.first \in Nat
  BY DEF IsImage
<1>1. CASE OpenContainer
  BY <1>1 DEF OpenContainer, Noting, ContainerNotes, StopNotes, driverVars, IsImage
<1>2. CASE RaiseError
  BY <1>2 DEF RaiseError, driverVars, IsImage
<1>3. CASE LeaveContainer \/ HeaderPastBuffer \/ StopAtShortHeader \/ StopAtBadHeader
  BY <1>3 DEF LeaveContainer, HeaderPastBuffer, StopAtShortHeader, StopAtBadHeader,
     Break, ContainerNotes, StopNotes, driverVars, IsImage
<1>4. CASE ReadEntry
  <2>1. Stride(pos) \in Nat
    BY <1>4, ReadableHeader DEF ReadEntry
  <2>2. /\ entries' \in Seq(Nat) /\ pos' \in Nat /\ extending' \subseteq Nat
    BY <1>4, <2>1 DEF ReadEntry, Noting
  <2>. QED  BY <1>4, <2>2 DEF ReadEntry, driverVars, IsImage
<1>5. CASE LookPastTheEnd
  BY <1>5 DEF LookPastTheEnd, Noting, ContainerNotes, driverVars, IsImage
<1>6. CASE DriverEnter
  BY <1>6 DEF DriverEnter, parserVars, IsImage
<1>7. CASE DriverVisit
  <2>1. DriverStride(dpos) \in Nat
    BY <1>7, ReadableHeader DEF DriverVisit
  <2>2. /\ visited' \in Seq(Nat) /\ dpos' \in Nat
    BY <1>7, <2>1 DEF DriverVisit
  <2>. QED  BY <1>7, <2>2 DEF DriverVisit, parserVars, IsImage
<1>8. CASE DriverSpins
  <2>1. visited' \in Seq(Nat)
    BY <1>8 DEF DriverSpins
  <2>. QED  BY <1>8, <2>1 DEF DriverSpins, parserVars, IsImage
<1>9. CASE DriverLeavesBuffer
  BY <1>9 DEF DriverLeavesBuffer, parserVars, IsImage
<1>10. CASE UNCHANGED vars
  BY <1>10 DEF vars, parserVars, driverVars, IsImage
<1>. QED
  BY <1>1, <1>2, <1>3, <1>4, <1>5, <1>6, <1>7, <1>8, <1>9, <1>10 DEF Next, Parser, Driver

(***************************************************************************)
(* Offsets stay natural numbers and notes stay those the code can write.   *)
(***************************************************************************)
THEOREM WalkTypeCorrect == Spec => []TypeOK
BY InitIsTyped, NextIsTyped, PTL DEF Spec

(***************************************************************************)
(* A walk that has begun, at offset q, having read the headers s: the      *)
(* first at the container's first offset, each next one a stride further.  *)
(***************************************************************************)
Chained(s, q) ==
  /\ \A i \in DOMAIN s : Readable(s[i])
  /\ s = <<>> => q = image.first
  /\ s # <<>> => s[1] = image.first /\ q = s[Len(s)] + Stride(s[Len(s)])
  /\ \A i \in DOMAIN s : i + 1 \in DOMAIN s => s[i+1] = s[i] + Stride(s[i])

(***************************************************************************)
(* Of two walks (s, at q) and (t, at r), the one that is behind stands     *)
(* where the one that is ahead stood after as many headers.                *)
(***************************************************************************)
Agree(s, t) == \A i \in DOMAIN s \cap DOMAIN t : s[i] = t[i]

Meet(s, q, t, r) == /\ Agree(s, t)
                    /\ Len(s) < Len(t) => q = t[Len(s) + 1]
                    /\ Len(t) < Len(s) => r = s[Len(t) + 1]
                    /\ Len(s) = Len(t) => q = r

ParserBegun == pc \notin {"open", "error"}

DriverBegun == dpc # "enter"

SameRoad == /\ IF ParserBegun THEN Chained(entries, pos) ELSE entries = <<>>
            /\ IF DriverBegun THEN Chained(visited, dpos) ELSE visited = <<>>
            /\ ParserBegun /\ DriverBegun => Meet(entries, pos, visited, dpos)

(***************************************************************************)
(* Reading one more header keeps a walk chained.                           *)
(***************************************************************************)
LEMMA ChainGrows ==
  ASSUME TypeOK, NEW s \in Seq(Nat), NEW q \in Nat, Chained(s, q), Readable(q)
  PROVE  Chained(Append(s, q), q + Stride(q))
<1>. DEFINE t == Append(s, q)
<1>1. /\ Len(t) = Len(s) + 1 /\ t[Len(t)] = q /\ t \in Seq(Nat)
      /\ DOMAIN t = 1..(Len(s) + 1) /\ DOMAIN s = 1..Len(s) /\ Len(s) \in Nat
      /\ \A i \in 1..Len(s) : t[i] = s[i]
  OBVIOUS
<1>2. t # <<>>
  BY <1>1
<1>3. \A i \in DOMAIN t : Readable(t[i])
  BY <1>1 DEF Chained
<1>4. t[1] = image.first
  <2>1. CASE s = <<>>
    BY <1>1, <2>1 DEF Chained
  <2>2. CASE s # <<>>
    BY <1>1, <2>2 DEF Chained
  <2>. QED  BY <2>1, <2>2
<1>5. ASSUME NEW i \in DOMAIN t, i + 1 \in DOMAIN t
      PROVE  t[i+1] = t[i] + Stride(t[i])
  <2>1. CASE i + 1 = Len(t)
    <3>1. i = Len(s) /\ s # <<>> /\ t[i] = s[i]
      BY <1>1, <1>5, <2>1
    <3>. QED  BY <1>1, <2>1, <3>1 DEF Chained
  <2>2. CASE i + 1 # Len(t)
    <3>1. i \in 1..Len(s) /\ i + 1 \in 1..Len(s)
      BY <1>1, <1>5, <2>2
    <3>. QED  BY <1>1, <3>1 DEF Chained
  <2>. QED  BY <2>1, <2>2
<1>. QED  BY <1>1, <1>2, <1>3, <1>4, <1>5 DEF Chained

(***************************************************************************)
(* The same in bare indices: s of length m meets t of length n, and u is s *)
(* with q appended.                                                        *)
(***************************************************************************)
LEMMA OneMoreHeader ==
  ASSUME NEW m \in Nat, NEW n \in Nat, NEW s, NEW t, NEW u, NEW q, NEW r,
         \A i \in 1..m : u[i] = s[i],
         u[m + 1] = q,
         \A i \in 1..m : i \in 1..n => s[i] = t[i],
         m < n => q = t[m + 1],
         n < m => r = s[n + 1],
         m = n => q = r
  PROVE  /\ \A i \in 1..(m + 1) : i \in 1..n => u[i] = t[i]
         /\ n < m + 1 => r = u[n + 1]
<1>1. ASSUME NEW i \in 1..(m + 1), i \in 1..n  PROVE u[i] = t[i]
  <2>1. CASE i = m + 1
    BY <1>1, <2>1
  <2>2. CASE i \in 1..m
    BY <1>1, <2>2
  <2>. QED  BY <2>1, <2>2
<1>2. ASSUME n < m + 1  PROVE r = u[n + 1]
  <2>1. CASE n = m
    BY <2>1
  <2>2. CASE n < m
    <3>1. n + 1 \in 1..m
      BY <2>2
    <3>. QED  BY <2>2, <3>1
  <2>. QED  BY <1>2, <2>1, <2>2
<1>. QED  BY <1>1, <1>2

(***************************************************************************)
(* Two walks that have met stay met when one of them reads a header: if it *)
(* was behind, it reads the header the other read there, and takes the     *)
(* other's stride.                                                         *)
(***************************************************************************)
LEMMA MeetingWalksStayMet ==
  ASSUME TypeOK, NEW s \in Seq(Nat), NEW q \in Nat, NEW t \in Seq(Nat), NEW r \in Nat,
         Chained(s, q), Chained(t, r), Meet(s, q, t, r)
  PROVE  Meet(Append(s, q), q + Stride(q), t, r)
<1>. DEFINE u == Append(s, q)
            m == Len(s)
            n == Len(t)
<1>1. /\ Len(u) = m + 1 /\ u[m + 1] = q
      /\ DOMAIN u = 1..(m + 1) /\ DOMAIN s = 1..m /\ DOMAIN t = 1..n
      /\ \A i \in 1..m : u[i] = s[i]
      /\ n > 0 => t # <<>>
  OBVIOUS
<1>2. m \in Nat /\ n \in Nat
  OBVIOUS
<1>3. /\ \A i \in 1..m : i \in 1..n => s[i] = t[i]
      /\ m < n => q = t[m + 1]
      /\ n < m => r = s[n + 1]
      /\ m = n => q = r
  BY <1>1 DEF Meet, Agree
<1>4. /\ t # <<>> => r = t[n] + Stride(t[n])
      /\ \A i \in 1..n : i + 1 \in 1..n => t[i+1] = t[i] + Stride(t[i])
  BY <1>1 DEF Chained
<1>. HIDE DEF u, m, n
<1>5. /\ \A i \in 1..(m + 1) : i \in 1..n => u[i] = t[i]
      /\ n < m + 1 => r = u[n + 1]
  BY <1>1, <1>2, <1>3, OneMoreHeader
<1>6. Agree(u, t)
  BY <1>1, <1>5 DEF Agree
<1>7. ASSUME m + 1 < n  PROVE q + Stride(q) = t[m + 2]
  <2>1. m + 1 \in 1..n /\ (m + 1) + 1 \in 1..n /\ m < n /\ (m + 1) + 1 = m + 2
    BY <1>2, <1>7
  <2>. QED  BY <1>3, <1>4, <2>1
<1>8. ASSUME m + 1 = n  PROVE q + Stride(q) = r
  <2>1. m < n /\ n > 0
    BY <1>2, <1>8
  <2>. QED  BY <1>1, <1>3, <1>4, <1>8, <2>1
<1>9. (m + 1) + 1 = m + 2
  BY <1>2
<1>10. Meet(u, q + Stride(q), t, r)
  BY <1>1, <1>5, <1>6, <1>7, <1>8, <1>9 DEF Meet, n
<1>. QED  BY <1>10 DEF u

(***************************************************************************)
(* Which of two walks is named first does not matter.                      *)
(***************************************************************************)
LEMMA MeetIsSymmetric ==
  ASSUME NEW s, NEW q, NEW t, NEW r
  PROVE  Meet(s, q, t, r) => Meet(t, r, s, q)
BY DEF Meet, Agree

(***************************************************************************)
(* A walk that has read nothing, at the container's first offset, has met  *)
(* any walk of the same container.                                         *)
(***************************************************************************)
LEMMA BeginningMeets ==
  ASSUME NEW t \in Seq(Nat), NEW r, Chained(t, r)
  PROVE  Meet(<<>>, image.first, t, r)
<1>1. CASE t = <<>>
  BY <1>1 DEF Meet, Agree, Chained
<1>2. CASE t # <<>>
  BY <1>2 DEF Meet, Agree, Chained
<1>. QED  BY <1>1, <1>2

(***************************************************************************)
(* Both walks begin at the container's first offset.                       *)
(***************************************************************************)
LEMMA BeginningIsChained == Chained(<<>>, image.first)
BY DEF Chained

(***************************************************************************)
(* SameRoad of the next state, in terms of the bytes of this one.          *)
(***************************************************************************)
LEMMA RoadAhead ==
  ASSUME image' = image,
         IF ParserBegun' THEN Chained(entries', pos') ELSE entries' = <<>>,
         IF DriverBegun' THEN Chained(visited', dpos') ELSE visited' = <<>>,
         ParserBegun' /\ DriverBegun' => Meet(entries', pos', visited', dpos')
  PROVE  SameRoad'
<1>1. Chained(entries, pos)' <=> Chained(entries', pos')
  BY DEF Chained, Readable, Stride, HeaderAt
<1>2. Chained(visited, dpos)' <=> Chained(visited', dpos')
  BY DEF Chained, Readable, Stride, HeaderAt
<1>. QED  BY <1>1, <1>2 DEF SameRoad

(***************************************************************************)
(* No step of either walk leaves the road.                                 *)
(***************************************************************************)
LEMMA StepStaysOnRoad == TypeOK /\ SameRoad /\ [Next]_vars => SameRoad'
<1>. SUFFICES ASSUME TypeOK, SameRoad, [Next]_vars  PROVE SameRoad'
  OBVIOUS
<1>. /\ entries \in Seq(Nat) /\ visited \in Seq(Nat) /\ pos \in Nat /\ dpos \in Nat
     /\ IsImage(image)
  BY DEF TypeOK
<1>1. CASE OpenContainer
  <2>1. /\ image' = image /\ pos' = image.first /\ entries' = <<>>
        /\ visited' = visited /\ dpos' = dpos
        /\ ParserBegun' /\ (DriverBegun' <=> DriverBegun)
    BY <1>1 DEF OpenContainer, driverVars, SameRoad, ParserBegun, DriverBegun
  <2>2. Chained(entries', pos')
    BY <2>1, BeginningIsChained
  <2>3. DriverBegun => Meet(entries', pos', visited', dpos')
    BY <2>1, BeginningMeets DEF SameRoad
  <2>. QED  BY <2>1, <2>2, <2>3, RoadAhead DEF SameRoad
<1>2. CASE ReadEntry
  <2>1. /\ image' = image /\ pos' = pos + Stride(pos) /\ entries' = Append(entries, pos)
        /\ visited' = visited /\ dpos' = dpos /\ Readable(pos)
        /\ ParserBegun /\ ParserBegun' /\ (DriverBegun' <=> DriverBegun)
    BY <1>2 DEF ReadEntry, driverVars, ParserBegun, DriverBegun
  <2>2. Chained(entries', pos')
    BY <2>1, ChainGrows DEF SameRoad
  <2>3. DriverBegun => Meet(entries', pos', visited', dpos')
    BY <2>1, MeetingWalksStayMet DEF SameRoad
  <2>. QED  BY <2>1, <2>2, <2>3, RoadAhead DEF SameRoad
<1>3. CASE DriverEnter
  <2>1. /\ image' = image /\ dpos' = image.first /\ visited' = <<>>
        /\ entries' = entries /\ pos' = pos
        /\ DriverBegun' /\ (ParserBegun' <=> ParserBegun)
    BY <1>3 DEF DriverEnter, parserVars, SameRoad, ParserBegun, DriverBegun
  <2>2. Chained(visited', dpos')
    BY <2>1, BeginningIsChained
  <2>3. ParserBegun => Meet(entries', pos', visited', dpos')
    BY <2>1, BeginningMeets, MeetIsSymmetric DEF SameRoad
  <2>. QED  BY <2>1, <2>2, <2>3, RoadAhead DEF SameRoad
<1>4. CASE DriverVisit \/ DriverSpins
  <2>1. /\ image' = image /\ visited' = Append(visited, dpos) /\ Readable(dpos)
        /\ entries' = entries /\ pos' = pos
        /\ DriverBegun /\ DriverBegun' /\ (ParserBegun' <=> ParserBegun)
    BY <1>4 DEF DriverVisit, DriverSpins, parserVars, ParserBegun, DriverBegun
  <2>2. dpos' = dpos + Stride(dpos)
    <3>1. Stride(dpos) \in Nat /\ DriverStride(dpos) = Stride(dpos)
      BY <2>1, ReadableHeader
    <3>. QED  BY <1>4, <3>1 DEF DriverVisit, DriverSpins
  <2>3. Chained(visited', dpos')
    BY <2>1, <2>2, ChainGrows DEF SameRoad
  <2>4. ParserBegun => Meet(visited', dpos', entries', pos')
    BY <2>1, <2>2, MeetingWalksStayMet, MeetIsSymmetric DEF SameRoad
  <2>5. ParserBegun => Meet(entries', pos', visited', dpos')
    BY <2>4, MeetIsSymmetric
  <2>. QED  BY <2>1, <2>3, <2>5, RoadAhead DEF SameRoad
<1>5. ASSUME UNCHANGED <<image, pos, entries, dpos, visited>>,
             (ParserBegun' <=> ParserBegun) /\ (DriverBegun' <=> DriverBegun)
      PROVE  SameRoad'
  BY <1>5, RoadAhead DEF SameRoad
<1>6. CASE RaiseError \/ LeaveContainer \/ HeaderPastBuffer \/ StopAtShortHeader
           \/ StopAtBadHeader \/ LookPastTheEnd
  BY <1>5, <1>6 DEF RaiseError, LeaveContainer, HeaderPastBuffer, StopAtShortHeader,
     StopAtBadHeader, LookPastTheEnd, Break, driverVars, ParserBegun, DriverBegun
<1>7. CASE DriverLeavesBuffer
  BY <1>5, <1>7 DEF DriverLeavesBuffer, parserVars, ParserBegun, DriverBegun
<1>8. CASE UNCHANGED vars
  BY <1>5, <1>8 DEF vars, parserVars, driverVars, ParserBegun, DriverBegun
<1>. QED
  BY <1>1, <1>2, <1>3, <1>4, <1>6, <1>7, <1>8 DEF Next, Parser, Driver

(***************************************************************************)
(* Both walks start on the road.                                           *)
(***************************************************************************)
LEMMA InitIsOnRoad == Init => SameRoad
BY DEF Init, SameRoad, ParserBegun, DriverBegun

(***************************************************************************)
(* What the parser keeps: headers inside the container that overlap no     *)
(* other, and a note for the last if it runs past the end.                 *)
(***************************************************************************)
LastBeyond == {entries[i] : i \in {j \in DOMAIN entries : j = Len(entries) /\ pos > End}}

Kept ==
  IF ~ParserBegun THEN extending = {}
  ELSE
    /\ image.first <= pos
    /\ \A i \in DOMAIN entries :
         /\ image.first <= entries[i] /\ InsideContainer(entries[i])
         /\ ~ShortHeader(entries[i])
         /\ entries[i] + Fixed <= pos
    /\ \A i, j \in DOMAIN entries : i < j => entries[i] + Fixed <= entries[j]
    /\ extending = LastBeyond

(***************************************************************************)
(* Why the parser stopped, and what the note after its loop has seen.      *)
(***************************************************************************)
ReasonToStop ==
  \/ ~InsideContainer(pos)
  \/ "not a header" \in notes
  \/ "header past buffer" \in notes /\ ~Readable(pos)
  \/ Readable(pos) /\ ShortHeader(pos)

ParserStopped ==
  /\ pc \in {"tail", "done"} => ReasonToStop
  /\ "further entry outside" \in notes =>
       pc = "done" /\ Readable(pos) /\ ~ShortHeader(pos)

(***************************************************************************)
(* The driver reads headers inside the container only, and why it stopped. *)
(***************************************************************************)
DriverInside ==
  /\ \A i \in DOMAIN visited : InsideContainer(visited[i])
  /\ dpc = "walk" => InsideContainer(dpos)
  /\ dpc = "done" => Declared < 1 \/ ~InsideContainer(dpos)
  /\ dpc = "outside" => ~Readable(dpos)
  /\ dpc = "spins" => Readable(dpos) /\ Stride(dpos) = 0

WalkInv == TypeOK /\ SameRoad /\ Kept /\ ParserStopped /\ DriverInside

(***************************************************************************)
(* A step leaves the bytes alone, and with them the container's end.       *)
(***************************************************************************)
LEMMA BytesStay ==
  ASSUME [Next]_vars
  PROVE  /\ image' = image /\ Declared' = Declared /\ End' = End
         /\ \A p : /\ InsideContainer(p)' <=> InsideContainer(p')
                   /\ Readable(p)' <=> Readable(p')
                   /\ ShortHeader(p)' <=> ShortHeader(p')
<1>1. image' = image
  BY DEF Next, Parser, Driver, OpenContainer, RaiseError, LeaveContainer, HeaderPastBuffer,
     StopAtShortHeader, StopAtBadHeader, ReadEntry, LookPastTheEnd, Break, DriverEnter,
     DriverVisit, DriverSpins, DriverLeavesBuffer, vars
<1>. QED
  BY <1>1 DEF Declared, End, InsideContainer, Readable, ShortHeader, HeaderAt

(***************************************************************************)
(* The next state in terms of the bytes of this one.                       *)
(***************************************************************************)
LEMMA KeptAhead ==
  ASSUME [Next]_vars,
         IF ~ParserBegun' THEN extending' = {}
         ELSE
           /\ image.first <= pos'
           /\ \A i \in DOMAIN entries' :
                /\ image.first <= entries'[i] /\ InsideContainer(entries'[i])
                /\ ~ShortHeader(entries'[i])
                /\ entries'[i] + Fixed <= pos'
           /\ \A i, j \in DOMAIN entries' : i < j => entries'[i] + Fixed <= entries'[j]
           /\ extending' = {entries'[i] : i \in {j \in DOMAIN entries' :
                                                   j = Len(entries') /\ pos' > End}}
  PROVE  Kept'
<1>1. image' = image /\ Declared' = Declared /\ End' = End
  BY BytesStay
<1>2. \A i : /\ InsideContainer(entries[i])' <=> InsideContainer(entries'[i])
             /\ ShortHeader(entries[i])' <=> ShortHeader(entries'[i])
  BY <1>1 DEF InsideContainer, ShortHeader, HeaderAt
<1>3. LastBeyond' = {entries'[i] : i \in {j \in DOMAIN entries' :
                                            j = Len(entries') /\ pos' > End}}
  BY <1>1 DEF LastBeyond
<1>. QED  BY <1>1, <1>2, <1>3 DEF Kept

(***************************************************************************)
(* The same of a sequence of headers that grows by the one at q.           *)
(***************************************************************************)
LEMMA OneMoreKept ==
  ASSUME TypeOK, NEW s \in Seq(Nat), NEW q \in Nat, Readable(q),
         image.first <= q, InsideContainer(q), ~ShortHeader(q),
         \A i \in DOMAIN s : /\ image.first <= s[i] /\ InsideContainer(s[i])
                             /\ ~ShortHeader(s[i])
                             /\ s[i] + Fixed <= q,
         \A i, j \in DOMAIN s : i < j => s[i] + Fixed <= s[j],
         NEW t, t = Append(s, q), NEW r \in Nat, r = q + Stride(q)
  PROVE  /\ image.first <= r
         /\ \A i \in DOMAIN t : /\ image.first <= t[i] /\ InsideContainer(t[i])
                                /\ ~ShortHeader(t[i])
                                /\ t[i] + Fixed <= r
         /\ \A i, j \in DOMAIN t : i < j => t[i] + Fixed <= t[j]
<1>. /\ IsImage(image) /\ image.first \in Nat /\ Fixed \in Nat \ {0}
  BY FixedAssumption DEF TypeOK, IsImage
<1>1. q + Fixed <= r
  <2>1. HeaderAt(q).size \in Nat /\ HeaderAt(q).padded \in Nat
    BY ReadableHeader
  <2>2. HeaderAt(q).size >= Fixed
    BY <2>1 DEF ShortHeader
  <2>. QED  BY <2>1, <2>2 DEF Stride
<1>2. /\ DOMAIN s = 1..Len(s) /\ DOMAIN t = 1..(Len(s) + 1) /\ Len(s) \in Nat
      /\ t[Len(s) + 1] = q
      /\ \A i \in DOMAIN s : t[i] = s[i] /\ s[i] \in Nat
  OBVIOUS
<1>3. ASSUME NEW i \in DOMAIN t
      PROVE  /\ image.first <= t[i] /\ InsideContainer(t[i])
             /\ ~ShortHeader(t[i])
             /\ t[i] + Fixed <= r
  <2>1. CASE i \in DOMAIN s
    <3>1. s[i] + Fixed <= q /\ s[i] \in Nat /\ t[i] = s[i]
      BY <1>2, <2>1
    <3>. QED  BY <1>1, <2>1, <3>1
  <2>2. CASE i = Len(s) + 1
    BY <1>1, <1>2, <2>2
  <2>. QED  BY <1>2, <2>1, <2>2
<1>4. ASSUME NEW i \in DOMAIN t, NEW j \in DOMAIN t, i < j
      PROVE  t[i] + Fixed <= t[j]
  <2>1. i \in DOMAIN s
    BY <1>2, <1>4
  <2>2. CASE j \in DOMAIN s
    BY <1>2, <1>4, <2>1, <2>2
  <2>3. CASE j = Len(s) + 1
    BY <1>2, <2>1, <2>3
  <2>. QED  BY <1>2, <2>2, <2>3
<1>5. image.first <= r
  BY <1>1
<1>. QED  BY <1>3, <1>4, <1>5

(***************************************************************************)
(* No step of either walk loses what the parser keeps.                     *)
(***************************************************************************)
LEMMA StepKeeps == TypeOK /\ SameRoad /\ Kept /\ [Next]_vars => Kept'
<1>. SUFFICES ASSUME TypeOK, SameRoad, Kept, [Next]_vars  PROVE Kept'
  OBVIOUS
<1>. /\ entries \in Seq(Nat) /\ pos \in Nat /\ IsImage(image) /\ image.first \in Nat
     /\ image.size \in Nat
  BY DEF TypeOK, IsImage
<1>0. TypeOK'
  BY NextIsTyped
<1>1. CASE OpenContainer
  <2>1. /\ entries' = <<>> /\ pos' = image.first /\ extending' = extending
        /\ ~ParserBegun /\ ParserBegun'
    BY <1>1 DEF OpenContainer, SameRoad, ParserBegun
  <2>2. extending = {}
    BY <2>1 DEF Kept
  <2>. QED  BY <2>1, <2>2, KeptAhead
<1>2. CASE ReadEntry
  <2>1. /\ ParserBegun /\ ParserBegun'
        /\ Readable(pos) /\ InsideContainer(pos) /\ ~ShortHeader(pos)
        /\ entries' = Append(entries, pos) /\ pos' = pos + Stride(pos)
        /\ extending' = extending \cup Noting(pos' > End, pos)
    BY <1>2 DEF ReadEntry, ParserBegun
  <2>2. pos' \in Nat
    BY <1>0 DEF TypeOK
  <2>3. /\ image.first <= pos'
        /\ \A i \in DOMAIN entries' :
             /\ image.first <= entries'[i] /\ InsideContainer(entries'[i])
             /\ ~ShortHeader(entries'[i])
             /\ entries'[i] + Fixed <= pos'
        /\ \A i, j \in DOMAIN entries' : i < j => entries'[i] + Fixed <= entries'[j]
    BY <2>1, <2>2, OneMoreKept DEF Kept
  <2>4. extending = {}
    <3>1. ~(pos > End)
      BY <2>1, DeclaredIsInteger DEF InsideContainer, End
    <3>. QED  BY <2>1, <3>1 DEF Kept, LastBeyond
  <2>5. extending' = {entries'[i] : i \in {j \in DOMAIN entries' :
                                             j = Len(entries') /\ pos' > End}}
    <3>1. /\ DOMAIN entries' = 1..(Len(entries) + 1) /\ Len(entries) \in Nat
          /\ Len(entries') = Len(entries) + 1 /\ entries'[Len(entries')] = pos
      BY <2>1
    <3>2. extending' = Noting(pos' > End, pos)
      BY <2>1, <2>4
    <3>3. CASE pos' > End
      <4>1. extending' = {pos}
        BY <3>2, <3>3 DEF Noting
      <4>2. {j \in DOMAIN entries' : j = Len(entries') /\ pos' > End} = {Len(entries')}
        BY <3>1, <3>3
      <4>. QED  BY <3>1, <4>1, <4>2
    <3>4. CASE ~(pos' > End)
      <4>1. extending' = {}
        BY <3>2, <3>4 DEF Noting
      <4>. QED  BY <3>4, <4>1
    <3>. QED  BY <3>3, <3>4
  <2>. QED  BY <2>1, <2>3, <2>5, KeptAhead
<1>3. ASSUME UNCHANGED <<pos, entries, extending>>, ParserBegun' <=> ParserBegun
      PROVE  Kept'
  BY <1>3, KeptAhead DEF Kept, LastBeyond
<1>4. CASE RaiseError \/ LeaveContainer \/ HeaderPastBuffer \/ StopAtShortHeader
           \/ StopAtBadHeader \/ LookPastTheEnd
  BY <1>3, <1>4 DEF RaiseError, LeaveContainer, HeaderPastBuffer, StopAtShortHeader,
     StopAtBadHeader, LookPastTheEnd, Break, ParserBegun
<1>5. CASE Driver \/ UNCHANGED vars
  BY <1>3, <1>5 DEF Driver, DriverEnter, DriverVisit, DriverSpins, DriverLeavesBuffer,
     vars, parserVars, ParserBegun
<1>. QED  BY <1>1, <1>2, <1>4, <1>5 DEF Next, Parser

(***************************************************************************)
(* The parser stops for the reasons it has, and looks past the end once.   *)
(***************************************************************************)
LEMMA StepStops == TypeOK /\ ParserStopped /\ [Next]_vars => ParserStopped'
<1>. SUFFICES ASSUME TypeOK, ParserStopped, [Next]_vars  PROVE ParserStopped'
  OBVIOUS
<1>1. ASSUME UNCHANGED <<pos, notes>>, pc' \in {"tail", "done"} => ReasonToStop,
             pc = "done" => pc' = "done"
      PROVE  ParserStopped'
  <2>1. /\ InsideContainer(pos)' <=> InsideContainer(pos)
        /\ Readable(pos)' <=> Readable(pos)
        /\ ShortHeader(pos)' <=> ShortHeader(pos)
    BY <1>1, BytesStay DEF InsideContainer, Readable, ShortHeader, HeaderAt
  <2>. QED  BY <1>1, <2>1 DEF ParserStopped, ReasonToStop
<1>2. CASE OpenContainer
  BY <1>2 DEF OpenContainer, Noting, ParserStopped
<1>3. CASE RaiseError
  BY <1>1, <1>3 DEF RaiseError, ParserStopped
<1>4. CASE LeaveContainer \/ StopAtShortHeader
  <2>1. /\ pc = "walk" /\ pc' = "tail" /\ UNCHANGED <<pos, image>> /\ notes' = notes
        /\ ReasonToStop
    BY <1>4 DEF LeaveContainer, StopAtShortHeader, Break, ReasonToStop
  <2>. QED  BY <1>1, <2>1
<1>5. CASE HeaderPastBuffer \/ StopAtBadHeader
  <2>1. /\ pc = "walk" /\ pc' = "tail" /\ UNCHANGED <<pos, image>>
        /\ \/ notes' = notes \cup {"not a header"}
           \/ notes' = notes \cup {"header past buffer"} /\ ~Readable(pos)
    BY <1>5 DEF HeaderPastBuffer, StopAtBadHeader, Break
  <2>2. Readable(pos)' <=> Readable(pos)
    BY <2>1 DEF Readable
  <2>. QED  BY <2>1, <2>2 DEF ParserStopped, ReasonToStop
<1>6. CASE ReadEntry
  <2>1. pc = "walk" /\ pc' = "walk" /\ notes' = notes
    BY <1>6 DEF ReadEntry
  <2>. QED  BY <2>1 DEF ParserStopped
<1>7. CASE LookPastTheEnd
  <2>1. /\ pc = "tail" /\ pc' = "done" /\ UNCHANGED <<pos, image>>
        /\ notes' = notes \cup Noting(Readable(pos) /\ IsEntryKind(pos)
                                        /\ ~ShortHeader(pos), "further entry outside")
    BY <1>7 DEF LookPastTheEnd
  <2>2. /\ InsideContainer(pos)' <=> InsideContainer(pos)
        /\ Readable(pos)' <=> Readable(pos)
        /\ ShortHeader(pos)' <=> ShortHeader(pos)
    BY <2>1, BytesStay DEF InsideContainer, Readable, ShortHeader, HeaderAt
  <2>3. ReasonToStop'
    BY <2>1, <2>2 DEF ParserStopped, ReasonToStop
  <2>4. "further entry outside" \in notes' => Readable(pos) /\ ~ShortHeader(pos)
    BY <2>1 DEF ParserStopped, Noting
  <2>. QED  BY <2>1, <2>2, <2>3, <2>4 DEF ParserStopped
<1>8. CASE Driver \/ UNCHANGED vars
  BY <1>1, <1>8 DEF Driver, DriverEnter, DriverVisit, DriverSpins, DriverLeavesBuffer,
     vars, parserVars, ParserStopped
<1>. QED
  BY <1>2, <1>3, <1>4, <1>5, <1>6, <1>7, <1>8 DEF Next, Parser

(***************************************************************************)
(* The driver never reads a header outside the container.                  *)
(***************************************************************************)
LEMMA StepStaysInside == TypeOK /\ SameRoad /\ DriverInside /\ [Next]_vars => DriverInside'
<1>. SUFFICES ASSUME TypeOK, SameRoad, DriverInside, [Next]_vars  PROVE DriverInside'
  OBVIOUS
<1>. /\ visited \in Seq(Nat) /\ dpos \in Nat /\ IsImage(image) /\ image.first \in Nat
     /\ Declared \in Int /\ DriverBound = Declared
  BY DeclaredIsInteger DEF TypeOK, IsImage
<1>1. ASSUME \A i \in DOMAIN visited' : InsideContainer(visited'[i]),
             dpc' = "walk" => InsideContainer(dpos'),
             dpc' = "done" => Declared < 1 \/ ~InsideContainer(dpos'),
             dpc' = "outside" => ~Readable(dpos'),
             dpc' = "spins" => Readable(dpos') /\ Stride(dpos') = 0
      PROVE  DriverInside'
  <2>1. /\ image' = image /\ Declared' = Declared
    BY BytesStay
  <2>. QED
    BY <1>1, <2>1 DEF DriverInside, InsideContainer, Readable, Stride, HeaderAt
<1>2. CASE DriverEnter
  <2>1. /\ visited' = <<>> /\ dpos' = image.first
        /\ dpc' = IF Declared < 1 THEN "done" ELSE "walk"
    BY <1>2 DEF DriverEnter, SameRoad, DriverBegun
  <2>. QED  BY <1>1, <2>1 DEF InsideContainer
<1>3. CASE DriverVisit \/ DriverSpins
  <2>1. /\ visited' = Append(visited, dpos) /\ InsideContainer(dpos) /\ Readable(dpos)
    BY <1>3 DEF DriverVisit, DriverSpins, DriverInside
  <2>2. \A i \in DOMAIN visited' : InsideContainer(visited'[i])
    BY <2>1 DEF DriverInside
  <2>3. DriverStride(dpos) = Stride(dpos)
    BY <2>1, ReadableHeader
  <2>4. CASE DriverVisit
    <3>1. /\ dpc' \in {"walk", "done"}
          /\ dpc' = "walk" <=> InsideContainer(dpos')
      BY <2>4 DEF DriverVisit, InsideContainer
    <3>. QED  BY <1>1, <2>2, <3>1
  <2>5. CASE DriverSpins
    <3>1. dpc' = "spins" /\ dpos' = dpos /\ Stride(dpos) = 0
      BY <2>3, <2>5 DEF DriverSpins
    <3>. QED  BY <1>1, <2>1, <2>2, <3>1
  <2>. QED  BY <1>3, <2>4, <2>5
<1>4. CASE DriverLeavesBuffer
  BY <1>1, <1>4 DEF DriverLeavesBuffer, DriverInside
<1>5. CASE Parser \/ UNCHANGED vars
  <2>1. UNCHANGED <<dpc, dpos, visited>>
    BY <1>5 DEF Parser, OpenContainer, RaiseError, LeaveContainer, HeaderPastBuffer,
       StopAtShortHeader, StopAtBadHeader, ReadEntry, LookPastTheEnd, Break, vars, driverVars
  <2>. QED  BY <1>1, <2>1 DEF DriverInside
<1>. QED  BY <1>2, <1>3, <1>4, <1>5 DEF Next, Driver

(***************************************************************************)
(* The walks start with nothing kept, nothing read and no reason to stop.  *)
(***************************************************************************)
LEMMA InitIsWalkInv == Init => WalkInv
<1>. SUFFICES ASSUME Init  PROVE WalkInv
  OBVIOUS
<1>1. TypeOK /\ SameRoad
  BY InitIsTyped, InitIsOnRoad
<1>2. Kept /\ ParserStopped /\ DriverInside
  BY DEF Init, Kept, ParserStopped, DriverInside, ParserBegun
<1>. QED  BY <1>1, <1>2 DEF WalkInv

(***************************************************************************)
(* All of it together is inductive.                                        *)
(***************************************************************************)
LEMMA StepKeepsWalkInv == WalkInv /\ [Next]_vars => WalkInv'
BY NextIsTyped, StepStaysOnRoad, StepKeeps, StepStops, StepStaysInside DEF WalkInv

(***************************************************************************)
(* A parser that is longer stands past a header the driver has stopped at, *)
(* and the driver does not stop at a header the parser keeps.              *)
(***************************************************************************)
LEMMA NeverLonger == WalkInv /\ BothWalked => Len(entries) <= Len(visited)
<1>. SUFFICES ASSUME WalkInv, BothWalked, Len(entries) > Len(visited)  PROVE FALSE
  BY DEF WalkInv, TypeOK
<1>. DEFINE e == entries[Len(visited) + 1]
<1>. /\ entries \in Seq(Nat) /\ visited \in Seq(Nat) /\ dpos \in Nat /\ IsImage(image)
     /\ image.first \in Nat /\ Declared \in Int
  BY DeclaredIsInteger DEF WalkInv, TypeOK, IsImage
<1>1. ParserBegun /\ DriverBegun /\ dpc \in {"done", "outside", "spins"}
  BY DEF BothWalked, ParserBegun, DriverBegun, WalkInv, TypeOK
<1>2. Len(visited) + 1 \in DOMAIN entries
  OBVIOUS
<1>3. dpos = e
  BY <1>1 DEF WalkInv, SameRoad, Meet
<1>4. /\ e \in Nat /\ image.first <= e /\ InsideContainer(e) /\ ~ShortHeader(e) /\ Readable(e)
  BY <1>1, <1>2 DEF WalkInv, Kept, SameRoad, Chained
<1>5. Declared >= 1
  BY <1>4 DEF InsideContainer
<1>6. Stride(e) # 0
  BY <1>4, ReadableHeader, FixedAssumption DEF Stride, ShortHeader
<1>. QED  BY <1>1, <1>3, <1>4, <1>5, <1>6 DEF WalkInv, DriverInside

(***************************************************************************)
(* On the road, the two walks agree on every header both have come to.     *)
(***************************************************************************)
LEMMA RoadAgrees == WalkInv => ReportsWhatTheDriverReads
<1>. SUFFICES ASSUME WalkInv  PROVE ReportsWhatTheDriverReads
  OBVIOUS
<1>. TypeOK /\ SameRoad
  BY DEF WalkInv
<1>1. \A i \in DOMAIN entries \cap DOMAIN visited : entries[i] = visited[i]
  <2>1. CASE ParserBegun /\ DriverBegun
    BY <2>1 DEF SameRoad, Meet, Agree
  <2>2. CASE ~ParserBegun
    BY <2>2 DEF SameRoad
  <2>3. CASE ~DriverBegun
    BY <2>3 DEF SameRoad
  <2>. QED  BY <2>1, <2>2, <2>3
<1>. QED  BY <1>1, NeverLonger DEF ReportsWhatTheDriverReads

(***************************************************************************)
(* Where the driver goes on, it goes on from where the parser stopped, so  *)
(* the parser did not stop for leaving the container.                      *)
(***************************************************************************)
LEMMA NextUnreportedIsInside ==
  ASSUME WalkInv, BothWalked, NEW i \in DOMAIN visited, i > Len(entries)
  PROVE  InsideContainer(pos)
<1>. /\ entries \in Seq(Nat) /\ visited \in Seq(Nat)
  BY DEF WalkInv, TypeOK
<1>1. ParserBegun /\ DriverBegun
  BY DEF BothWalked, ParserBegun, DriverBegun
<1>2. Len(entries) < Len(visited) /\ Len(entries) + 1 \in DOMAIN visited
  OBVIOUS
<1>3. pos = visited[Len(entries) + 1]
  BY <1>1, <1>2 DEF WalkInv, SameRoad, Meet
<1>. QED  BY <1>2, <1>3 DEF WalkInv, DriverInside

(***************************************************************************)
(* Of the reasons to stop, leaving the container loses nothing.            *)
(***************************************************************************)
LEMMA LossHasAReason == WalkInv => LossIsNotedUnlessHeaderShort
<1>. SUFFICES ASSUME WalkInv, BothWalked, NEW i \in Unreported
     PROVE  notes \cap StopNotes # {} \/ (Readable(pos) /\ ShortHeader(pos))
  BY DEF LossIsNotedUnlessHeaderShort
<1>1. InsideContainer(pos)
  BY NextUnreportedIsInside DEF Unreported
<1>2. ReasonToStop
  BY DEF WalkInv, ParserStopped, BothWalked
<1>. QED  BY <1>1, <1>2 DEF ReasonToStop, StopNotes

(***************************************************************************)
(* A further entry is noted where the walk has left the container, or at   *)
(* the bad header that stopped it.                                         *)
(***************************************************************************)
LEMMA FurtherEntryIsOutside == WalkInv => FurtherEntryIsDead
<1>. SUFFICES ASSUME WalkInv, BothWalked, "further entry outside" \in notes,
                     "not a header" \notin notes, NEW i \in DOMAIN visited
     PROVE  visited[i] # pos
  BY DEF FurtherEntryIsDead
<1>1. ~InsideContainer(pos)
  BY DEF WalkInv, ParserStopped, ReasonToStop, BothWalked
<1>. QED  BY <1>1 DEF WalkInv, DriverInside

(***************************************************************************)
(* What the parser keeps says which entry runs past the end.               *)
(***************************************************************************)
LEMMA KeptExtends == WalkInv => OnlyTheLastEntryExtends
<1>. SUFFICES ASSUME WalkInv  PROVE OnlyTheLastEntryExtends
  OBVIOUS
<1>1. CASE ParserBegun
  BY <1>1 DEF WalkInv, Kept, LastBeyond, OnlyTheLastEntryExtends
<1>2. CASE ~ParserBegun
  BY <1>2 DEF WalkInv, SameRoad, ParserBegun, OnlyTheLastEntryExtends
<1>. QED  BY <1>1, <1>2

(***************************************************************************)
(* For every buffer, and however the two walks interleave, the i-th entry  *)
(* parse_container reports is the i-th header the driver reads, and it     *)
(* reports no more of them than the driver walks.                          *)
(***************************************************************************)
THEOREM ParserReportsWhatTheDriverReads == Spec => []ReportsWhatTheDriverReads
BY InitIsWalkInv, StepKeepsWalkInv, RoadAgrees, PTL DEF Spec

(***************************************************************************)
(* ... what the driver reads beyond them is announced by a note, or lies   *)
(* behind a header smaller than the fixed one;                             *)
(***************************************************************************)
THEOREM LossIsAnnounced == Spec => []LossIsNotedUnlessHeaderShort
BY InitIsWalkInv, StepKeepsWalkInv, LossHasAReason, PTL DEF Spec

(***************************************************************************)
(* ... the further entry parse_container notes past the end is one the     *)
(* driver does not read;                                                   *)
(***************************************************************************)
THEOREM NotedFurtherEntryIsDead == Spec => []FurtherEntryIsDead
BY InitIsWalkInv, StepKeepsWalkInv, FurtherEntryIsOutside, PTL DEF Spec

(***************************************************************************)
(* ... and the headers it reports do not overlap, the last alone may run   *)
(* past the end, and exactly then it is noted to.                          *)
(***************************************************************************)
THEOREM LastEntryAloneExtends == Spec => []OnlyTheLastEntryExtends
BY InitIsWalkInv, StepKeepsWalkInv, KeptExtends, PTL DEF Spec

------------------------------------------------------------------------------
(***************************************************************************)
(*                               The editors                               *)
(***************************************************************************)
(***************************************************************************)
(* A step the two walks do not see.                                        *)
(***************************************************************************)
Quiet == UNCHANGED vars

(***************************************************************************)
(* What a command line holds.                                              *)
(***************************************************************************)
LEMMA CommandLine ==
  ASSUME NEW e \in Edits
  PROVE  /\ e.entry \in Int /\ e # NoEdit
         /\ e.tool \in {"patch_entry", "patch_arch", "patch_size"}
         /\ e.tool = "patch_size" =>
              /\ e.append # NoFile => e.append \in Images
              /\ e.raw \in Nat /\ e.padded \in Change /\ e.size \in Change
<1>1. e \in CommandLines /\ e # NoEdit
  BY EditsAssumption
<1>. QED  BY <1>1 DEF CommandLines

(***************************************************************************)
(* A header that fits is a header.                                         *)
(***************************************************************************)
LEMMA FileHeader ==
  ASSUME NEW d, IsImage(d), NEW p \in Nat, HasHeader(d, p)
  PROVE  /\ p \in HeaderOffsets(d.len) /\ d.header[p] \in Header
         /\ d.header[p].size \in Nat /\ d.header[p].padded \in Nat
<1>1. p \in HeaderOffsets(d.len) /\ d.header \in [HeaderOffsets(d.len) -> Header]
  BY FixedAssumption DEF HasHeader, HeaderOffsets, IsImage
<1>2. d.header[p] \in Header
  BY <1>1
<1>. QED  BY <1>1, <1>2 DEF Header

(***************************************************************************)
(* A file with another fatbin_size is a file.                              *)
(***************************************************************************)
LEMMA NewSize ==
  ASSUME NEW d, IsFile(d), NEW n \in Nat
  PROVE  IsFile(WithSize(d, n))
<1>1. [d EXCEPT !.size = n]
        = [len |-> d.len, magic |-> d.magic, first |-> d.first, size |-> n,
           header |-> d.header, elf |-> d.elf]
  BY DEF IsFile
<1>. QED  BY <1>1 DEF WithSize, IsFile, IsImage

(***************************************************************************)
(* A file that a field of one header changes in stays a file.              *)
(***************************************************************************)
LEMMA HeaderChanges ==
  ASSUME NEW d, IsFile(d), NEW p, HasHeader(d, p), p \in Nat
  PROVE  /\ \A n \in Nat : IsFile(WithPadded(d, p, n))
         /\ IsFile(WithoutKind(d, p))
<1>1. p \in HeaderOffsets(d.len) /\ d.header \in [HeaderOffsets(d.len) -> Header]
  BY FileHeader DEF IsFile, IsImage
<1>2. d.header[p] \in Header
  BY <1>1
<1>3. ASSUME NEW n \in Nat  PROVE IsFile([d EXCEPT !.header[p].padded = n])
  <2>. DEFINE h == [d.header[p] EXCEPT !.padded = n]
              g == [d EXCEPT !.header[p].padded = n]
  <2>1. h \in Header
    BY <1>2 DEF Header
  <2>2. g = [len |-> d.len, magic |-> d.magic, first |-> d.first, size |-> d.size,
             header |-> [d.header EXCEPT ![p] = h], elf |-> d.elf]
    BY DEF IsFile
  <2>3. [d.header EXCEPT ![p] = h] \in [HeaderOffsets(d.len) -> Header]
    BY <1>1, <2>1
  <2>. HIDE DEF h, g
  <2>4. IsFile(g)
    BY <2>2, <2>3 DEF IsFile, IsImage
  <2>. QED  BY <2>4 DEF g
<1>4. IsFile([d EXCEPT !.header[p].kind = BadKind])
  <2>. DEFINE h == [d.header[p] EXCEPT !.kind = BadKind]
              g == [d EXCEPT !.header[p].kind = BadKind]
  <2>1. h \in Header
    BY <1>2 DEF Header
  <2>2. g = [len |-> d.len, magic |-> d.magic, first |-> d.first, size |-> d.size,
             header |-> [d.header EXCEPT ![p] = h], elf |-> d.elf]
    BY DEF IsFile
  <2>3. [d.header EXCEPT ![p] = h] \in [HeaderOffsets(d.len) -> Header]
    BY <1>1, <2>1
  <2>. HIDE DEF h, g
  <2>4. IsFile(g)
    BY <2>2, <2>3 DEF IsFile, IsImage
  <2>. QED  BY <2>4 DEF g
<1>. QED  BY <1>3, <1>4 DEF WithPadded, WithoutKind

(***************************************************************************)
(* A file that grows at its end stays a file, and keeps its headers.       *)
(***************************************************************************)
Grows(d, g) == /\ g.first = d.first /\ g.size = d.size /\ g.magic = d.magic
               /\ g.len >= d.len
               /\ \A p \in Nat : HasHeader(d, p) => g.header[p] = d.header[p]

LEMMA RawGrows ==
  ASSUME NEW d, IsFile(d), NEW n \in Nat, NEW unknown \in Header
  PROVE  IsFile(WithRaw(d, n, unknown)) /\ Grows(d, WithRaw(d, n, unknown))
<1>. DEFINE g == WithRaw(d, n, unknown)
            h == [p \in HeaderOffsets(d.len + n) |->
                    IF HasHeader(d, p) THEN d.header[p] ELSE unknown]
<1>1. g = [len |-> d.len + n, magic |-> d.magic, first |-> d.first, size |-> d.size,
           header |-> h, elf |-> d.elf]
  BY DEF WithRaw, Longer
<1>2. d.len \in Nat /\ Fixed \in Nat
  BY FixedAssumption DEF IsFile, IsImage
<1>3. ASSUME NEW p \in HeaderOffsets(d.len + n), HasHeader(d, p)
      PROVE  d.header[p] \in Header
  BY <1>3, <1>2, FileHeader DEF HeaderOffsets, IsFile
<1>4. h \in [HeaderOffsets(d.len + n) -> Header]
  BY <1>3
<1>5. ASSUME NEW p \in Nat, HasHeader(d, p)
      PROVE  h[p] = d.header[p]
  <2>1. p \in HeaderOffsets(d.len + n)
    BY <1>2, <1>5 DEF HasHeader, HeaderOffsets
  <2>. QED  BY <1>5, <2>1
<1>. HIDE DEF g, h
<1>6. IsFile(g) /\ Grows(d, g)
  BY <1>1, <1>2, <1>4, <1>5 DEF IsFile, IsImage, Grows
<1>. QED  BY <1>6 DEF g

(***************************************************************************)
(* The bytes of another file can be added to it.                           *)
(***************************************************************************)
LEMMA SliceGrows ==
  ASSUME NEW d, IsFile(d), NEW src, IsImage(src), Yields(src, src.first),
         NEW unknown \in Header
  PROVE  LET g == Concatenated(d, src, SliceLength(src), unknown)
         IN  IsFile(g) /\ Grows(d, g)
<1>. DEFINE n == SliceLength(src)
            g == Concatenated(d, src, n, unknown)
            h == [p \in HeaderOffsets(d.len + n) |->
                    IF HasHeader(d, p) THEN d.header[p]
                    ELSE IF p < d.len THEN unknown
                    ELSE src.header[p - d.len + src.first]]
            elf == d.elf \cup {p + d.len - src.first :
                                 p \in {q \in src.elf : q \in src.first..(src.first + n - 1)}}
<1>1. g = [len |-> d.len + n, magic |-> d.magic, first |-> d.first, size |-> d.size,
           header |-> h, elf |-> elf]
  BY DEF Concatenated, Longer
<1>2. /\ d.len \in Nat /\ Fixed \in Nat /\ src.len \in Nat /\ src.first \in Nat
      /\ src.size \in Nat /\ d.elf \subseteq Nat
      /\ src.header \in [HeaderOffsets(src.len) -> Header]
  BY FixedAssumption DEF IsFile, IsImage
<1>3. src.first + Fixed <= src.len
  BY <1>2 DEF Yields, EntriesBound
<1>4. n \in Nat /\ src.first + n <= src.len
  <2>1. src.first \in HeaderOffsets(src.len)
    BY <1>2, <1>3 DEF HeaderOffsets
  <2>2. src.header[src.first] \in Header
    BY <1>2, <2>1
  <2>3. src.header[src.first].size \in Nat /\ src.header[src.first].padded \in Nat
    BY <2>2 DEF Header
  <2>. QED  BY <1>2, <1>3, <2>3 DEF SliceLength
<1>. HIDE DEF n
<1>5. ASSUME NEW p \in HeaderOffsets(d.len + n)
      PROVE  h[p] \in Header
  <2>1. CASE HasHeader(d, p)
    BY <1>2, <1>4, <2>1, FileHeader DEF HeaderOffsets, IsFile
  <2>2. CASE ~HasHeader(d, p) /\ p < d.len
    BY <2>2
  <2>3. CASE ~HasHeader(d, p) /\ ~(p < d.len)
    <3>1. p - d.len + src.first \in HeaderOffsets(src.len)
      BY <1>2, <1>4, <2>3 DEF HeaderOffsets
    <3>. QED  BY <1>2, <2>3, <3>1
  <2>. QED  BY <2>1, <2>2, <2>3
<1>6. h \in [HeaderOffsets(d.len + n) -> Header]
  BY <1>5
<1>7. ASSUME NEW p \in Nat, HasHeader(d, p)
      PROVE  h[p] = d.header[p]
  <2>1. p \in HeaderOffsets(d.len + n)
    BY <1>2, <1>4, <1>7 DEF HasHeader, HeaderOffsets
  <2>. QED  BY <1>7, <2>1
<1>8. elf \subseteq Nat
  BY <1>2
<1>. HIDE DEF g, h, elf
<1>9. IsFile(g) /\ Grows(d, g)
  BY <1>1, <1>2, <1>4, <1>6, <1>7, <1>8 DEF IsFile, IsImage, Grows
<1>. QED  BY <1>9 DEF g, n

(***************************************************************************)
(* Growing twice is growing.                                               *)
(***************************************************************************)
LEMMA GrowsTwice ==
  ASSUME NEW d, NEW g, NEW k, IsFile(d), IsFile(g), IsFile(k), Grows(d, g), Grows(g, k)
  PROVE  Grows(d, k)
<1>1. d.len \in Nat /\ g.len \in Nat /\ k.len \in Nat /\ Fixed \in Nat
  BY FixedAssumption DEF IsFile, IsImage
<1>2. ASSUME NEW p \in Nat, HasHeader(d, p)
      PROVE  k.header[p] = d.header[p]
  <2>1. HasHeader(g, p)
    BY <1>1, <1>2 DEF HasHeader, Grows
  <2>. QED  BY <1>2, <2>1 DEF Grows
<1>. QED  BY <1>1, <1>2 DEF Grows

(***************************************************************************)
(* The inductive invariant of the editors: with what holds of the walks,   *)
(* the listing is a walk of the file it was taken from, the editor's bytes *)
(* are those of that file and perhaps more until it changes a field, and   *)
(* its walk stands where the listing's stood after as many headers.        *)
(***************************************************************************)
ListingChained ==
  /\ \A i \in DOMAIN listing.entries : HasHeader(listing.image, listing.entries[i])
  /\ listing.entries # <<>> => listing.entries[1] = listing.image.first
  /\ \A i \in DOMAIN listing.entries :
       i + 1 \in DOMAIN listing.entries =>
         listing.entries[i+1] = listing.entries[i]
                                + listing.image.header[listing.entries[i]].size
                                + listing.image.header[listing.entries[i]].padded

StageOK ==
  /\ stage # "edited" => edit # NoEdit
  /\ stage \in {"append", "resize"} => IsSizeEdit
  /\ stage \in {"walk", "spinning"} => NamesEntry
  /\ stage = "list" => buf = image /\ outcome = "none"

WalkFollowsListing ==
  /\ stage \in {"append", "walk"} => Grows(listing.image, buf)
  /\ stage = "walk" /\ eidx < Len(listing.entries) => epos = listing.entries[eidx + 1]
  /\ stage \in {"resize", "write", "edited"} /\ NamesListedEntry => epos = Named

EditorInv ==
  EditTypeOK /\ WalkInv /\ ListingChained /\ StageOK /\ WalkFollowsListing

(***************************************************************************)
(* Every file starts listed as nothing, or only read.                      *)
(***************************************************************************)
LEMMA EditInitIsInv == EditInit => EditorInv
<1>. SUFFICES ASSUME EditInit  PROVE EditorInv
  OBVIOUS
<1>1. WalkInv /\ TypeOK /\ image \in Images /\ dpc = "enter" /\ dpos = 0 /\ visited = <<>>
  BY InitIsWalkInv, InitIsTyped DEF EditInit, Init
<1>2. IsFile(image)
  BY <1>1, OriginalsAssumption
<1>3. listing = [image |-> image, entries |-> <<>>, notes |-> {}, stop |-> 0]
  BY DEF EditInit
<1>4. EditTypeOK
  BY <1>1, <1>2, <1>3 DEF EditInit, EditTypeOK, Outcomes
<1>5. ListingChained
  BY <1>3 DEF ListingChained
<1>6. StageOK /\ WalkFollowsListing
  BY EditsAssumption DEF EditInit, StageOK, WalkFollowsListing, NamesEntry, NamesListedEntry
<1>. QED  BY <1>1, <1>4, <1>5, <1>6 DEF EditorInv

(***************************************************************************)
(* A step of the parser or the driver is a step of the two walks.          *)
(***************************************************************************)
LEMMA WalkStepKeepsInv == EditorInv /\ (Lists \/ Loads) => EditorInv'
<1>. SUFFICES ASSUME EditorInv, Lists \/ Loads  PROVE EditorInv'
  OBVIOUS
<1>1. [Next]_vars /\ UNCHANGED editVars /\ stage \in {"list", "edited"}
  BY DEF Lists, Loads, Next
<1>2. WalkInv' /\ TypeOK'
  BY <1>1, StepKeepsWalkInv DEF EditorInv, WalkInv
<1>3. image' = image
  BY <1>1, BytesStay
<1>4. stage # "edited" => UNCHANGED driverVars
  BY DEF Lists, Loads, Parser, OpenContainer, RaiseError, LeaveContainer, HeaderPastBuffer,
     StopAtShortHeader, StopAtBadHeader, ReadEntry, LookPastTheEnd, Break
<1>5. EditTypeOK'
  BY <1>1, <1>2, <1>3, <1>4 DEF EditorInv, EditTypeOK, editVars, driverVars
<1>6. ListingChained' /\ WalkFollowsListing'
  BY <1>1 DEF EditorInv, editVars, ListingChained, WalkFollowsListing, NamesListedEntry,
     NamesEntry, IsSizeEdit, Named
<1>7. StageOK'
  BY <1>1, <1>3 DEF EditorInv, editVars, StageOK, NamesEntry, IsSizeEdit
<1>. QED  BY <1>2, <1>5, <1>6, <1>7 DEF EditorInv

(***************************************************************************)
(* The written file is read from the start.                                *)
(***************************************************************************)
LEMMA WriteKeepsInv == EditorInv /\ WriteFile => EditorInv'
<1>. SUFFICES ASSUME EditorInv, WriteFile  PROVE EditorInv'
  OBVIOUS
<1>. USE DEF EditorInv
<1>1. /\ stage = "write" /\ stage' = "edited" /\ outcome' = "written" /\ image' = buf
      /\ pc' = "open" /\ pos' = 0 /\ entries' = <<>> /\ notes' = {} /\ extending' = {}
      /\ UNCHANGED <<dpc, dpos, visited, edit, listing, buf, eidx, epos>>
  BY DEF WriteFile, driverVars
<1>2. dpc = "enter" /\ dpos = 0 /\ visited = <<>> /\ IsFile(buf)
  BY <1>1 DEF EditTypeOK
<1>3. TypeOK'
  BY <1>1, <1>2 DEF TypeOK, IsFile, IsImage
<1>4. WalkInv'
  <2>1. ~ParserBegun' /\ ~DriverBegun'
    BY <1>1, <1>2 DEF ParserBegun, DriverBegun
  <2>2. SameRoad' /\ Kept'
    BY <1>1, <1>2, <2>1 DEF SameRoad, Kept
  <2>3. ParserStopped'
    BY <1>1 DEF ParserStopped
  <2>4. visited' = <<>> /\ dpc' = "enter"
    BY <1>1, <1>2
  <2>5. DriverInside'
    BY <2>4 DEF DriverInside
  <2>. QED  BY <1>3, <2>2, <2>3, <2>5 DEF WalkInv
<1>5. EditTypeOK'
  BY <1>1, <1>2, <1>3 DEF EditTypeOK, Outcomes
<1>6. ListingChained' /\ WalkFollowsListing' /\ StageOK'
  BY <1>1 DEF ListingChained, WalkFollowsListing, StageOK, NamesListedEntry,
     NamesEntry, IsSizeEdit, Named
<1>. QED  BY <1>4, <1>5, <1>6

(***************************************************************************)
(* Other steps of an editor leave the walks and the file alone.            *)
(***************************************************************************)
LEMMA QuietStep ==
  ASSUME EditorInv, Quiet, IsFile(buf'), edit' = edit,
         stage' \in {"append", "walk", "spinning", "resize", "write", "failed"},
         listing'.image = image,
         listing'.entries \in Seq(Nat), listing'.notes \subseteq ContainerNotes,
         listing'.stop \in Nat,
         stage # "edited", eidx' \in Nat, epos' \in Nat, outcome' \in Outcomes,
         ListingChained', StageOK', WalkFollowsListing'
  PROVE  EditorInv'
<1>1. WalkInv' /\ TypeOK'
  BY StepKeepsWalkInv DEF Quiet, EditorInv, WalkInv
<1>2. EditTypeOK'
  BY <1>1 DEF EditorInv, EditTypeOK, Quiet, vars, driverVars
<1>. QED  BY <1>1, <1>2 DEF EditorInv

(***************************************************************************)
(* The listing the editor is given is a walk of the file.                  *)
(***************************************************************************)
LEMMA ListingIsChained ==
  ASSUME EditorInv, Listed, TakeListing
  PROVE  /\ ListingChained'
         /\ listing'.image = image
         /\ listing'.entries \in Seq(Nat) /\ listing'.notes \subseteq ContainerNotes
         /\ listing'.stop \in Nat
<1>1. /\ listing'.image = image /\ listing'.entries = entries /\ listing'.notes = notes
      /\ listing'.stop = pos
  BY DEF TakeListing
<1>2. /\ entries \in Seq(Nat) /\ notes \subseteq ContainerNotes /\ pos \in Nat
  BY DEF EditorInv, WalkInv, TypeOK
<1>3. CASE pc = "done"
  <2>1. Chained(entries, pos)
    BY <1>3 DEF EditorInv, WalkInv, SameRoad, ParserBegun
  <2>2. \A i \in DOMAIN entries : HasHeader(image, entries[i])
    BY <2>1 DEF Chained, HasHeader, Readable
  <2>3. ASSUME NEW i \in DOMAIN entries, i + 1 \in DOMAIN entries
        PROVE  entries[i+1] = entries[i] + image.header[entries[i]].size
                              + image.header[entries[i]].padded
    <3>1. entries[i] \in Nat /\ Readable(entries[i]) /\ IsImage(image)
      BY <1>2, <2>1 DEF Chained, EditorInv, WalkInv, TypeOK
    <3>2. HeaderAt(entries[i]).size \in Nat /\ HeaderAt(entries[i]).padded \in Nat
      BY <3>1, ReadableHeader
    <3>3. entries[i+1] = entries[i] + Stride(entries[i])
      BY <2>1, <2>3 DEF Chained
    <3>. QED  BY <3>1, <3>2, <3>3 DEF Stride, HeaderAt
  <2>4. entries # <<>> => entries[1] = image.first
    BY <2>1 DEF Chained
  <2>. QED  BY <1>1, <1>2, <2>2, <2>3, <2>4 DEF ListingChained
<1>4. CASE pc = "error"
  <2>1. entries = <<>>
    BY <1>4 DEF EditorInv, WalkInv, SameRoad, ParserBegun
  <2>. QED  BY <1>1, <1>2, <2>1 DEF ListingChained
<1>. QED  BY <1>3, <1>4 DEF Listed

(***************************************************************************)
(* An editor that gives up leaves everything as it was.                    *)
(***************************************************************************)
LEMMA FailKeepsInv ==
  ASSUME EditorInv, NEW reason \in Outcomes, Fail(reason), stage # "edited",
         UNCHANGED listing, stage # "list"
  PROVE  EditorInv'
<1>1. /\ Quiet /\ stage' = "failed" /\ outcome' = reason
      /\ UNCHANGED <<edit, buf, eidx, epos, listing>>
  BY DEF Fail, Quiet
<1>2. /\ IsFile(buf') /\ eidx' \in Nat /\ epos' \in Nat /\ listing'.image = image
      /\ listing'.entries \in Seq(Nat) /\ listing'.notes \subseteq ContainerNotes
      /\ listing'.stop \in Nat
  BY <1>1 DEF EditorInv, EditTypeOK
<1>3. ListingChained' /\ StageOK' /\ WalkFollowsListing'
  BY <1>1 DEF EditorInv, ListingChained, StageOK, WalkFollowsListing
<1>. QED  BY <1>1, <1>2, <1>3, QuietStep

(***************************************************************************)
(* A file that is no container is refused.                                 *)
(***************************************************************************)
LEMMA RefuseKeepsInv == EditorInv /\ RefuseFile => EditorInv'
<1>. SUFFICES ASSUME EditorInv, RefuseFile  PROVE EditorInv'
  OBVIOUS
<1>1. /\ Quiet /\ stage' = "failed" /\ UNCHANGED <<edit, buf, eidx, epos>>
      /\ outcome' \in Outcomes /\ stage = "list" /\ Listed /\ TakeListing
  BY DEF RefuseFile, Fail, Quiet, Outcomes, Listed
<1>2. /\ IsFile(buf') /\ eidx' \in Nat /\ epos' \in Nat
  BY <1>1 DEF EditorInv, EditTypeOK
<1>3. StageOK' /\ WalkFollowsListing'
  BY <1>1 DEF EditorInv, StageOK, WalkFollowsListing
<1>. QED  BY <1>1, <1>2, <1>3, ListingIsChained, QuietStep

(***************************************************************************)
(* The editor starts at the first offset, where the listing started.       *)
(***************************************************************************)
LEMMA OpenKeepsInv == EditorInv /\ OpenFile => EditorInv'
<1>. SUFFICES ASSUME EditorInv, OpenFile  PROVE EditorInv'
  OBVIOUS
<1>1. /\ Quiet /\ UNCHANGED <<edit, buf, outcome>> /\ stage = "list" /\ Listed /\ TakeListing
      /\ \/ IsSizeEdit /\ stage' = "append" /\ UNCHANGED <<epos, eidx>>
         \/ ~IsSizeEdit /\ stage' = "walk" /\ epos' = buf.first /\ eidx' = 0
  BY DEF OpenFile, BeginWalk, Quiet, Listed
<1>2. /\ buf = image /\ IsFile(buf) /\ buf.first \in Nat /\ buf.len \in Nat
      /\ eidx \in Nat /\ epos \in Nat /\ edit # NoEdit /\ outcome \in Outcomes
  BY <1>1 DEF EditorInv, EditTypeOK, StageOK, IsFile, IsImage
<1>3. /\ IsFile(buf') /\ eidx' \in Nat /\ epos' \in Nat /\ outcome' \in Outcomes
      /\ stage' \in {"append", "walk"}
  BY <1>1, <1>2
<1>4. /\ ListingChained' /\ listing'.image = image /\ listing'.entries \in Seq(Nat)
      /\ listing'.notes \subseteq ContainerNotes /\ listing'.stop \in Nat
  BY <1>1, ListingIsChained
<1>5. StageOK'
  BY <1>1, <1>2 DEF StageOK, NamesEntry, IsSizeEdit
<1>6. Grows(listing'.image, buf')
  BY <1>1, <1>2, <1>4 DEF Grows
<1>7. stage' = "walk" /\ eidx' < Len(listing'.entries) => epos' = listing'.entries[eidx' + 1]
  <2>. SUFFICES ASSUME stage' = "walk", eidx' < Len(listing'.entries)
       PROVE  epos' = listing'.entries[1] /\ eidx' = 0
    OBVIOUS
  <2>1. listing'.entries # <<>> /\ epos' = image.first /\ eidx' = 0
    BY <1>1, <1>2, <1>4
  <2>. QED  BY <1>4, <2>1 DEF ListingChained
<1>8. WalkFollowsListing'
  BY <1>3, <1>6, <1>7 DEF WalkFollowsListing
<1>. QED  BY <1>1, <1>3, <1>4, <1>5, <1>8, QuietStep

(***************************************************************************)
(* Bytes are appended to the bytes of the file.                            *)
(***************************************************************************)
LEMMA AppendGrows ==
  ASSUME EditorInv, AppendBytes
  PROVE  IsFile(buf') /\ Grows(listing.image, buf')
<1>1. /\ stage = "append" /\ IsSizeEdit
      /\ edit \in Edits /\ IsFile(buf) /\ Grows(listing.image, buf)
      /\ IsFile(listing.image)
  BY DEF AppendBytes, EditorInv, EditTypeOK, StageOK, WalkFollowsListing
<1>2. /\ edit.append # NoFile => edit.append \in Images
      /\ edit.raw \in Nat
  BY <1>1, CommandLine DEF IsSizeEdit
<1>3. PICK unknown \in Unknown :
        buf' = WithRaw(IF edit.append = NoFile THEN buf
                       ELSE Concatenated(buf, edit.append, SliceLength(edit.append), unknown),
                       edit.raw, unknown)
  BY DEF AppendBytes
<1>4. unknown \in Header
  BY UnknownAssumption
<1>5. IsFile(buf') /\ Grows(buf, buf')
  <2>1. CASE edit.append = NoFile
    BY <1>1, <1>2, <1>3, <1>4, <2>1, RawGrows
  <2>2. CASE edit.append # NoFile
    <3>. DEFINE d == Concatenated(buf, edit.append, SliceLength(edit.append), unknown)
    <3>1. Yields(edit.append, edit.append.first) /\ IsImage(edit.append)
      BY <1>2, <2>2, ImagesAssumption DEF AppendBytes
    <3>2. IsFile(d) /\ Grows(buf, d)
      BY <1>1, <1>4, <3>1, SliceGrows
    <3>3. buf' = WithRaw(d, edit.raw, unknown)
      BY <1>3, <2>2
    <3>. HIDE DEF d
    <3>4. IsFile(buf') /\ Grows(d, buf')
      BY <1>2, <1>4, <3>2, <3>3, RawGrows
    <3>. QED  BY <1>1, <3>2, <3>4, GrowsTwice
  <2>. QED  BY <2>1, <2>2
<1>. QED  BY <1>1, <1>5, GrowsTwice

(***************************************************************************)
(* Appending leaves every header the listing has where it was.             *)
(***************************************************************************)
LEMMA AppendKeepsInv == EditorInv /\ AppendBytes => EditorInv'
<1>. SUFFICES ASSUME EditorInv, AppendBytes  PROVE EditorInv'
  OBVIOUS
<1>1. /\ Quiet /\ UNCHANGED <<edit, listing>> /\ stage = "append" /\ IsSizeEdit
      /\ edit \in Edits /\ IsFile(buf) /\ Grows(listing.image, buf)
  BY DEF AppendBytes, Quiet, EditorInv, EditTypeOK, StageOK, WalkFollowsListing
<1>2. IsFile(buf') /\ Grows(listing.image, buf')
  BY AppendGrows
<1>3. /\ IsFile(listing.image) /\ listing.image = image /\ ListingChained
      /\ eidx \in Nat /\ epos \in Nat /\ outcome \in Outcomes /\ edit # NoEdit
      /\ buf.first \in Nat /\ buf.first = listing.image.first
      /\ listing.entries \in Seq(Nat) /\ listing.notes \subseteq ContainerNotes
      /\ listing.stop \in Nat
  BY <1>1 DEF EditorInv, EditTypeOK, IsFile, IsImage, Grows, StageOK
<1>4. \/ /\ edit.padded # Unchanged
         /\ stage' = "walk" /\ epos' = buf.first /\ eidx' = 0 /\ UNCHANGED outcome
      \/ /\ stage' = "failed" /\ outcome' = "not a fat binary" /\ UNCHANGED <<epos, eidx>>
      \/ /\ edit.padded = Unchanged
         /\ stage' = "resize" /\ UNCHANGED <<epos, eidx, outcome>>
  BY DEF AppendBytes, AfterAppending, BeginWalk
<1>5. /\ stage' \in {"walk", "failed", "resize"} /\ outcome' \in Outcomes
      /\ eidx' \in Nat /\ epos' \in Nat
  <2>1. "not a fat binary" \in Outcomes
    BY DEF Outcomes
  <2>2. stage' \in {"walk", "failed", "resize"} /\ outcome' \in Outcomes
    BY <1>3, <1>4, <2>1
  <2>3. (eidx' = 0 \/ eidx' = eidx) /\ (epos' = buf.first \/ epos' = epos)
    BY <1>4
  <2>4. eidx \in Nat /\ epos \in Nat /\ buf.first \in Nat
    BY <1>3
  <2>5. eidx' \in Nat /\ epos' \in Nat
    BY <2>3, <2>4
  <2>. QED  BY <2>2, <2>5
<1>6. StageOK' /\ ListingChained'
  BY <1>1, <1>3, <1>4 DEF StageOK, ListingChained, NamesEntry, IsSizeEdit
<1>7. ASSUME stage' = "walk", eidx' < Len(listing'.entries)
       PROVE  epos' = listing'.entries[eidx' + 1]
  <2>1. eidx' = 0 /\ epos' = listing.image.first /\ listing.entries # <<>>
    BY <1>1, <1>3, <1>4, <1>7
  <2>. QED  BY <1>1, <1>3, <2>1 DEF ListingChained
<1>8. stage' = "resize" => ~NamesListedEntry'
  BY <1>1, <1>4 DEF NamesListedEntry, NamesEntry, IsSizeEdit
<1>9. WalkFollowsListing'
  BY <1>1, <1>2, <1>5, <1>7, <1>8 DEF WalkFollowsListing
<1>. QED  BY <1>1, <1>2, <1>3, <1>5, <1>6, <1>9, QuietStep

(***************************************************************************)
(* The editor's walk takes the strides of the listing, as long as there    *)
(* are any.                                                                *)
(***************************************************************************)
LEMMA PassKeepsInv == EditorInv /\ PassHeader => EditorInv'
<1>. SUFFICES ASSUME EditorInv, PassHeader  PROVE EditorInv'
  OBVIOUS
<1>1. /\ Quiet /\ UNCHANGED <<edit, stage, listing, buf, outcome>> /\ stage = "walk"
      /\ eidx' = eidx + 1
  BY DEF PassHeader, Quiet
<1>2. /\ eidx \in Nat /\ epos \in Nat /\ IsFile(buf) /\ IsImage(buf) /\ outcome \in Outcomes
      /\ listing.image = image /\ IsImage(listing.image) /\ Grows(listing.image, buf)
      /\ listing.entries \in Seq(Nat) /\ listing.notes \subseteq ContainerNotes
      /\ listing.stop \in Nat
      /\ eidx < Len(listing.entries) => epos = listing.entries[eidx + 1]
  BY <1>1 DEF EditorInv, EditTypeOK, IsFile, WalkFollowsListing
<1>3. PICK h \in ReadAt(epos) : epos' = epos + h.size + h.padded
  BY DEF PassHeader
<1>4. h \in Header
  BY <1>2, <1>3, FileHeader, UnknownAssumption DEF ReadAt
<1>5. epos' \in Nat /\ eidx' \in Nat
  BY <1>1, <1>2, <1>3, <1>4 DEF Header
<1>6. ASSUME eidx + 1 < Len(listing.entries)
      PROVE  epos' = listing.entries[eidx + 2]
  <2>1. /\ eidx + 1 \in DOMAIN listing.entries /\ (eidx + 1) + 1 \in DOMAIN listing.entries
        /\ epos = listing.entries[eidx + 1] /\ (eidx + 1) + 1 = eidx + 2
    BY <1>2, <1>6
  <2>2. HasHeader(listing.image, epos)
    BY <2>1 DEF EditorInv, ListingChained
  <2>3. HasHeader(buf, epos)
    BY <1>2, <2>2, FixedAssumption DEF HasHeader, Grows, IsImage
  <2>4. h = listing.image.header[epos]
    BY <1>2, <1>3, <2>2, <2>3 DEF ReadAt, Grows
  <2>. QED  BY <1>3, <2>1, <2>4 DEF EditorInv, ListingChained
<1>7. WalkFollowsListing'
  BY <1>1, <1>2, <1>6 DEF WalkFollowsListing
<1>8. StageOK' /\ ListingChained'
  BY <1>1 DEF EditorInv, StageOK, ListingChained, NamesEntry, IsSizeEdit
<1>. QED  BY <1>1, <1>2, <1>5, <1>7, <1>8, QuietStep

(***************************************************************************)
(* An editor that counts for ever holds what it held.                      *)
(***************************************************************************)
LEMMA CountKeepsInv == EditorInv /\ CountForEver => EditorInv'
<1>. SUFFICES ASSUME EditorInv, CountForEver  PROVE EditorInv'
  OBVIOUS
<1>1. /\ Quiet /\ stage = "walk" /\ stage' = "spinning"
      /\ UNCHANGED <<edit, listing, buf, eidx, epos, outcome>>
  BY DEF CountForEver, Quiet
<1>2. /\ IsFile(buf') /\ eidx' \in Nat /\ epos' \in Nat /\ outcome' \in Outcomes
      /\ listing'.image = image /\ listing'.entries \in Seq(Nat)
      /\ listing'.notes \subseteq ContainerNotes /\ listing'.stop \in Nat
  BY <1>1 DEF EditorInv, EditTypeOK
<1>3. ListingChained' /\ StageOK' /\ WalkFollowsListing'
  BY <1>1 DEF EditorInv, ListingChained, StageOK, WalkFollowsListing, NamesEntry, IsSizeEdit
<1>. QED  BY <1>1, <1>2, <1>3, QuietStep

(***************************************************************************)
(* An edit of the entry the walk stands at, which is the one named.        *)
(***************************************************************************)
LEMMA PatchKeepsInv ==
  ASSUME EditorInv, AtEntry \/ stage = "resize", NEW d, IsFile(d), NEW next,
         next = "write" \/ (next = "resize" /\ IsSizeEdit), Patched(d, next)
  PROVE  EditorInv'
<1>1. /\ Quiet /\ buf' = d /\ stage' = next /\ UNCHANGED <<edit, listing, eidx, epos, outcome>>
      /\ stage \in {"walk", "resize"}
  BY DEF Patched, Quiet, AtEntry
<1>2. /\ eidx \in Nat /\ epos \in Nat /\ outcome \in Outcomes /\ listing.image = image
      /\ listing.entries \in Seq(Nat) /\ listing.notes \subseteq ContainerNotes
      /\ listing.stop \in Nat /\ edit # NoEdit
  BY <1>1 DEF EditorInv, EditTypeOK, StageOK
<1>3. NamesListedEntry => epos = Named
  BY <1>1, <1>2 DEF EditorInv, WalkFollowsListing, AtEntry, NamesListedEntry, Named
<1>4. WalkFollowsListing'
  BY <1>1, <1>3 DEF WalkFollowsListing, NamesListedEntry, NamesEntry, IsSizeEdit, Named
<1>5. StageOK' /\ ListingChained'
  BY <1>1, <1>2 DEF EditorInv, StageOK, ListingChained, NamesEntry, IsSizeEdit
<1>. QED  BY <1>1, <1>2, <1>4, <1>5, QuietStep

(***************************************************************************)
(* The three edits of the entry the walk stands at.                        *)
(***************************************************************************)
LEMMA EntryEditKeepsInv == EditorInv /\ (SetFlags \/ SetArch \/ SetPadded) => EditorInv'
<1>. SUFFICES ASSUME EditorInv, SetFlags \/ SetArch \/ SetPadded  PROVE EditorInv'
  OBVIOUS
<1>1. /\ AtEntry /\ stage = "walk" /\ IsFile(buf) /\ IsImage(buf) /\ epos \in Nat
      /\ edit \in Edits /\ HalfWord \in Nat
  BY HalfWordAssumption DEF SetFlags, SetArch, SetPadded, AtEntry, EditorInv, EditTypeOK,
     StageOK, IsFile
<1>0. "struct.error" \in Outcomes /\ "not a raw ELF" \in Outcomes
  BY DEF Outcomes
<1>2. ASSUME Overrun  PROVE EditorInv'
  BY <1>0, <1>1, <1>2, FailKeepsInv DEF Overrun
<1>3. ASSUME NEW p \in Nat  PROVE IsFile(HighBit(buf, p))
  <2>1. CASE HasHeader(buf, p)
    <3>1. buf.header[p].padded + HalfWord \in Nat
      BY <1>1, <2>1, FileHeader
    <3>2. HighBit(buf, p) = WithPadded(buf, p, buf.header[p].padded + HalfWord)
      BY <2>1 DEF HighBit
    <3>. QED  BY <1>1, <2>1, <3>1, <3>2, HeaderChanges
  <2>. QED  BY <1>1, <2>1 DEF HighBit
<1>4. CASE SetFlags
  <2>1. epos + 2 \in Nat
    BY <1>1
  <2>2. Overrun \/ Patched(HighBit(buf, epos + 2), "write")
    BY <1>4 DEF SetFlags
  <2>. QED  BY <1>1, <1>2, <1>3, <2>1, <2>2, PatchKeepsInv
<1>5. CASE SetArch
  <2>. DEFINE a == WithHeaderArch(buf)
  <2>1. IsFile(a)
    BY <1>1, <1>3 DEF WithHeaderArch
  <2>2. ASSUME NEW p \in Nat  PROVE IsFile(WithElfArch(a, p))
    <3>1. p + 3 \in Nat
      OBVIOUS
    <3>. HIDE DEF a
    <3>2. CASE HasHeader(a, p + 3)
      BY <2>1, <3>1, <3>2, HeaderChanges DEF WithElfArch
    <3>. QED  BY <2>1, <3>2 DEF WithElfArch
  <2>3. ASSUME NEW h \in ReadAt(epos)  PROVE epos + h.size \in Nat
    <3>1. h \in Header
      BY <1>1, <2>3, FileHeader, UnknownAssumption DEF ReadAt
    <3>. QED  BY <1>1, <3>1 DEF Header
  <2>4. \/ Overrun
        \/ Patched(a, "write")
        \/ \E h \in ReadAt(epos) :
             \/ UNCHANGED listing /\ Fail("not a raw ELF")
             \/ Patched(WithElfArch(a, epos + h.size), "write")
    BY <1>5 DEF SetArch
  <2>. HIDE DEF a
  <2>5. ASSUME UNCHANGED listing /\ Fail("not a raw ELF")  PROVE EditorInv'
    BY <1>0, <1>1, <2>5, FailKeepsInv
  <2>6. ASSUME Patched(a, "write")  PROVE EditorInv'
    BY <1>1, <2>1, <2>6, PatchKeepsInv
  <2>7. ASSUME NEW h \in ReadAt(epos), Patched(WithElfArch(a, epos + h.size), "write")
        PROVE  EditorInv'
    BY <1>1, <2>2, <2>3, <2>7, PatchKeepsInv
  <2>. QED  BY <1>2, <2>4, <2>5, <2>6, <2>7
<1>6. CASE SetPadded
  <2>. DEFINE new == Resolve(edit.padded, buf.header[epos].padded)
  <2>1. HasHeader(buf, epos) /\ IsSizeEdit
    BY <1>1, <1>6, FixedAssumption DEF SetPadded, AtEntry, InReach, Yields, EntriesBound,
       HasHeader, IsImage
  <2>2. edit.padded \in Change /\ edit.padded # Unchanged
    BY <1>1, <2>1, CommandLine DEF IsSizeEdit, EditorInv, StageOK, NamesEntry
  <2>3. new \in Int
    BY <1>1, <2>1, <2>2, FileHeader DEF Resolve, Change
  <2>4. \/ Overrun
        \/ new \in 0..(Word64 - 1) /\ Patched(WithPadded(buf, epos, new), "resize")
    BY <1>6 DEF SetPadded
  <2>. HIDE DEF new
  <2>5. ASSUME new \in 0..(Word64 - 1), Patched(WithPadded(buf, epos, new), "resize")
        PROVE  EditorInv'
    <3>1. IsFile(WithPadded(buf, epos, new))
      BY <1>1, <2>1, <2>3, <2>5, HeaderChanges
    <3>. QED  BY <1>1, <2>1, <2>5, <3>1, PatchKeepsInv
  <2>. QED  BY <1>2, <2>4, <2>5
<1>. QED  BY <1>4, <1>5, <1>6

(***************************************************************************)
(* The container takes its new size, whatever the arithmetic gave.         *)
(***************************************************************************)
LEMMA ResizeKeepsInv == EditorInv /\ SetFatbinSize => EditorInv'
<1>. SUFFICES ASSUME EditorInv, SetFatbinSize  PROVE EditorInv'
  OBVIOUS
<1>1. /\ stage = "resize" /\ IsFile(buf) /\ IsImage(buf) /\ edit \in Edits
      /\ IsSizeEdit /\ buf.size \in Nat
  BY DEF SetFatbinSize, EditorInv, EditTypeOK, StageOK, IsFile, IsImage
<1>2. CASE edit.size = Unchanged
  BY <1>1, <1>2, PatchKeepsInv DEF SetFatbinSize
<1>3. CASE edit.size # Unchanged
  <2>. DEFINE new == Resolve(edit.size, buf.size)
  <2>1. edit.size \in Change
    BY <1>1, CommandLine DEF IsSizeEdit
  <2>2. new \in Int
    BY <1>1, <1>3, <2>1 DEF Resolve, Change
  <2>3. new % Word64 \in Nat
    BY <2>2, Word64Assumption
  <2>4. Patched(WithSize(buf, new % Word64), "write")
    BY <1>3 DEF SetFatbinSize
  <2>. HIDE DEF new
  <2>. QED  BY <1>1, <2>3, <2>4, NewSize, PatchKeepsInv
<1>. QED  BY <1>2, <1>3

(***************************************************************************)
(* The invariant is inductive.                                             *)
(***************************************************************************)
LEMMA StepKeepsEditorInv == EditorInv /\ [EditNext]_allVars => EditorInv'
<1>. SUFFICES ASSUME EditorInv, [EditNext]_allVars  PROVE EditorInv'
  OBVIOUS
<1>1. CASE RefuseSource \/ ReadPastBuffer \/ FindNoEntry
  <2>1. \E reason \in Outcomes : Fail(reason) /\ UNCHANGED listing
    BY <1>1 DEF RefuseSource, ReadPastBuffer, FindNoEntry, Outcomes
  <2>2. stage \in {"append", "walk"}
    BY <1>1 DEF RefuseSource, ReadPastBuffer, FindNoEntry
  <2>. QED  BY <2>1, <2>2, FailKeepsInv
<1>2. CASE UNCHANGED allVars
  <2>1. [Next]_vars /\ UNCHANGED editVars /\ UNCHANGED vars
    BY <1>2 DEF allVars
  <2>2. WalkInv' /\ TypeOK'
    BY <2>1, StepKeepsWalkInv DEF EditorInv, WalkInv
  <2>. QED
    BY <2>1, <2>2 DEF EditorInv, EditTypeOK, ListingChained, StageOK, WalkFollowsListing,
       NamesListedEntry, NamesEntry, IsSizeEdit, Named, editVars, vars, driverVars
<1>. QED
  BY <1>1, <1>2, WalkStepKeepsInv, WriteKeepsInv, RefuseKeepsInv, OpenKeepsInv,
     AppendKeepsInv, PassKeepsInv, CountKeepsInv, EntryEditKeepsInv, ResizeKeepsInv DEF EditNext, Editor

(***************************************************************************)
(* What the parser tells of a file.  An entry header at p is one it goes   *)
(* on from when it lies inside the container, fits the buffer and passes   *)
(* the tests; sizes that the driver does not use have their notes.         *)
(***************************************************************************)
Continues(d, p) ==
  /\ p - d.first < SignedWord(d.size)
  /\ HasHeader(d, p)
  /\ d.header[p].size >= Fixed /\ d.header[p].kind \in Kinds
  /\ d.header[p].size <= d.len - p

StepAt(d, p) == d.header[p].size + d.header[p].padded

SizeNoted(d, told) ==
  /\ d.size >= 2 * HalfWord => "upper bits discarded" \in told
  /\ d.size # 0 /\ SignedWord(d.size) <= 0 => "size not positive" \in told

ParserTells ==
  /\ \A i \in DOMAIN entries : Continues(image, entries[i])
  /\ pc \in {"tail", "done"} => ~Continues(image, pos)
  /\ ParserBegun => image.magic /\ SizeNoted(image, notes)
  /\ pc = "error" => image.len < 1 \/ ~image.magic
  /\ pc = "done" /\ Readable(pos) /\ IsEntryKind(pos) /\ ~ShortHeader(pos) =>
       "further entry outside" \in notes

(***************************************************************************)
(* The parser goes on from a header exactly when none of its tests stops   *)
(* it there.                                                               *)
(***************************************************************************)
LEMMA TestsOfTheWalk ==
  ASSUME IsImage(image), NEW p \in Nat
  PROVE  Continues(image, p) <=>
           /\ InsideContainer(p) /\ Readable(p) /\ ~ShortHeader(p)
           /\ IsEntryKind(p) /\ ~OversizedHeader(p)
<1>1. CASE Readable(p)
  <2>1. /\ HeaderAt(p).size \in Nat /\ image.len \in Nat /\ Fixed \in Nat
    BY <1>1, ReadableHeader, FixedAssumption DEF IsImage
  <2>. QED
    BY <1>1, <2>1 DEF Continues, InsideContainer, Declared, HasHeader, Readable, ShortHeader,
       HeaderAt, IsEntryKind, OversizedHeader
<1>2. CASE ~Readable(p)
  BY <1>2 DEF Continues, HasHeader, Readable
<1>. QED  BY <1>1, <1>2

(***************************************************************************)
(* ParserTells of the next state, in terms of the bytes of this one.       *)
(***************************************************************************)
LEMMA TellsAhead ==
  ASSUME image' = image,
         \A i \in DOMAIN entries' : Continues(image, entries'[i]),
         pc' \in {"tail", "done"} => ~Continues(image, pos'),
         ParserBegun' => image.magic /\ SizeNoted(image, notes'),
         pc' = "error" => image.len < 1 \/ ~image.magic,
         pc' = "done" /\ HasHeader(image, pos')
           /\ image.header[pos'].kind \in Kinds /\ ~(image.header[pos'].size < Fixed)
           => "further entry outside" \in notes'
  PROVE  ParserTells'
<1>1. /\ Readable(pos)' <=> HasHeader(image, pos')
      /\ IsEntryKind(pos)' <=> image.header[pos'].kind \in Kinds
      /\ ShortHeader(pos)' <=> image.header[pos'].size < Fixed
  BY DEF Readable, IsEntryKind, ShortHeader, HeaderAt, HasHeader
<1>. QED  BY <1>1 DEF ParserTells

(***************************************************************************)
(* No step of the two walks makes it untrue.                               *)
(***************************************************************************)
LEMMA StepTells == WalkInv /\ ParserTells /\ [Next]_vars => ParserTells'
<1>. SUFFICES ASSUME WalkInv, ParserTells, [Next]_vars  PROVE ParserTells'
  OBVIOUS
<1>1. /\ image' = image /\ IsImage(image) /\ pos \in Nat /\ entries \in Seq(Nat)
  BY BytesStay DEF WalkInv, TypeOK
<1>2. /\ \A i \in DOMAIN entries : Continues(image, entries[i])
      /\ pc \in {"tail", "done"} => ~Continues(image, pos)
      /\ ParserBegun => image.magic /\ SizeNoted(image, notes)
  BY DEF ParserTells
<1>3. CASE OpenContainer
  <2>1. entries = <<>> /\ entries' = entries /\ pc' = "walk"
    BY <1>3 DEF OpenContainer, WalkInv, SameRoad, ParserBegun
  <2>2. image.magic /\ SizeNoted(image, notes')
    BY <1>3 DEF OpenContainer, Noting, SizeNoted, Declared
  <2>. QED  BY <1>1, <2>1, <2>2, TellsAhead
<1>4. CASE RaiseError
  BY <1>1, <1>2, <1>4, TellsAhead DEF RaiseError, ParserBegun
<1>5. ASSUME NEW note, pc = "walk", Break(note), ~Continues(image, pos)
      PROVE  ParserTells'
  <2>1. /\ pc' = "tail" /\ notes' = notes \cup note /\ UNCHANGED <<image, pos, entries>>
        /\ image.magic /\ SizeNoted(image, notes)
    BY <1>2, <1>5 DEF Break, ParserBegun
  <2>2. SizeNoted(image, notes')
    BY <2>1 DEF SizeNoted
  <2>. QED  BY <1>1, <1>2, <1>5, <2>1, <2>2, TellsAhead
<1>6. CASE LeaveContainer \/ HeaderPastBuffer \/ StopAtShortHeader \/ StopAtBadHeader
  <2>1. ~Continues(image, pos) /\ pc = "walk" /\ \E note : Break(note)
    BY <1>1, <1>6, TestsOfTheWalk
       DEF LeaveContainer, HeaderPastBuffer, StopAtShortHeader, StopAtBadHeader
  <2>. QED  BY <1>5, <2>1
<1>7. CASE ReadEntry
  <2>1. /\ Continues(image, pos) /\ entries' = Append(entries, pos) /\ pc' = "walk"
        /\ UNCHANGED notes /\ pc = "walk"
    BY <1>1, <1>7, TestsOfTheWalk DEF ReadEntry
  <2>2. \A i \in DOMAIN entries' : Continues(image, entries'[i])
    <3>. SUFFICES ASSUME NEW i \in DOMAIN entries'  PROVE Continues(image, entries'[i])
      OBVIOUS
    <3>1. \/ i \in DOMAIN entries /\ entries'[i] = entries[i]
          \/ entries'[i] = pos
      BY <1>1, <2>1
    <3>. QED  BY <1>2, <2>1, <3>1
  <2>3. image.magic /\ SizeNoted(image, notes')
    BY <1>2, <2>1 DEF ParserBegun
  <2>. QED  BY <1>1, <2>1, <2>2, <2>3, TellsAhead
<1>8. CASE LookPastTheEnd
  <2>1. /\ pc = "tail" /\ pc' = "done" /\ UNCHANGED <<pos, entries>>
        /\ notes' = notes \cup Noting(Readable(pos) /\ IsEntryKind(pos) /\ ~ShortHeader(pos),
                                      "further entry outside")
        /\ image.magic /\ SizeNoted(image, notes)
    BY <1>2, <1>8 DEF LookPastTheEnd, ParserBegun
  <2>2. SizeNoted(image, notes')
    BY <2>1 DEF SizeNoted
  <2>3. HasHeader(image, pos) /\ image.header[pos].kind \in Kinds
          /\ ~(image.header[pos].size < Fixed) => "further entry outside" \in notes'
    BY <2>1 DEF Noting, Readable, IsEntryKind, ShortHeader, HeaderAt, HasHeader
  <2>. QED  BY <1>1, <1>2, <2>1, <2>2, <2>3, TellsAhead
<1>9. CASE Driver \/ UNCHANGED vars
  <2>1. UNCHANGED <<image, pc, pos, entries, notes>>
    BY <1>9 DEF Driver, DriverEnter, DriverVisit, DriverSpins, DriverLeavesBuffer, vars,
       parserVars
  <2>. QED
    BY <2>1 DEF ParserTells, ParserBegun, Readable, IsEntryKind, ShortHeader, HeaderAt
<1>. QED  BY <1>3, <1>4, <1>6, <1>7, <1>8, <1>9 DEF Next, Parser

(***************************************************************************)
(* What the listing tells of the file: the road of the walk, which ends at *)
(* the offset where the parser stopped, one past the last entry; why it    *)
(* stopped; and what it noted of the size.                                 *)
(***************************************************************************)
Road == [i \in 1..(Len(listing.entries) + 1) |->
           IF i <= Len(listing.entries) THEN listing.entries[i] ELSE listing.stop]

StopReason(d, told, p) ==
  \/ p - d.first >= SignedWord(d.size)
  \/ told \cap StopNotes # {}
  \/ HasHeader(d, p) /\ d.header[p].size < Fixed

ListingTells ==
  LET d == listing.image
  IN  /\ Road[1] = d.first
      /\ \A i \in DOMAIN listing.entries :
           /\ Continues(d, Road[i])
           /\ Road[i + 1] = Road[i] + StepAt(d, Road[i])
      /\ ~Continues(d, listing.stop)
      /\ StopReason(d, listing.notes, listing.stop)
      /\ SizeNoted(d, listing.notes)
      /\ \A i, j \in DOMAIN Road : i < j => Road[i] + Fixed <= Road[j]
      /\ \A i \in DOMAIN Road : d.first <= Road[i]

Opened == \/ stage \in {"append", "walk", "resize", "write"}
          \/ stage = "edited" /\ edit # NoEdit

ListingTold == Opened /\ listing.image.magic => ListingTells

(***************************************************************************)
(* The road is a sequence of offsets.                                      *)
(***************************************************************************)
LEMMA RoadIsOffsets ==
  ASSUME EditTypeOK
  PROVE  /\ DOMAIN Road = 1..(Len(listing.entries) + 1)
         /\ DOMAIN listing.entries = 1..Len(listing.entries)
         /\ Len(listing.entries) \in Nat
         /\ \A i \in DOMAIN Road : Road[i] \in Nat
         /\ \A i \in DOMAIN listing.entries :
              i \in DOMAIN Road /\ i + 1 \in DOMAIN Road /\ Road[i] = listing.entries[i]
         /\ Road[Len(listing.entries) + 1] = listing.stop
<1>1. listing.entries \in Seq(Nat) /\ listing.stop \in Nat
  BY DEF EditTypeOK
<1>. QED  BY <1>1 DEF Road

(***************************************************************************)
(* A listing is taken from a parser that has come to its end.              *)
(***************************************************************************)
LEMMA ListingIsTold ==
  ASSUME EditorInv, ParserTells, pc = "done", TakeListing, EditTypeOK'
  PROVE  ListingTells'
<1>1. /\ listing'.image = image /\ listing'.entries = entries /\ listing'.notes = notes
      /\ listing'.stop = pos
  BY DEF TakeListing
<1>2. /\ entries \in Seq(Nat) /\ notes \subseteq ContainerNotes /\ pos \in Nat
      /\ IsImage(image) /\ image.first \in Nat /\ Fixed \in Nat
  BY FixedAssumption DEF EditorInv, WalkInv, TypeOK, IsImage
<1>3. ParserBegun /\ Chained(entries, pos)
  BY DEF EditorInv, WalkInv, SameRoad, ParserBegun
<1>. DEFINE R == [i \in 1..(Len(entries) + 1) |-> IF i <= Len(entries) THEN entries[i] ELSE pos]
<1>4. Road' = R
  BY <1>1 DEF Road
<1>5. R[1] = image.first
  BY <1>2, <1>3 DEF Chained
<1>6. ASSUME NEW i \in DOMAIN entries
      PROVE  Continues(image, R[i]) /\ R[i + 1] = R[i] + StepAt(image, R[i])
  <2>1. R[i] = entries[i] /\ i \in 1..Len(entries) /\ entries # <<>>
    BY <1>2
  <2>2. Continues(image, entries[i])
    BY DEF ParserTells
  <2>3. CASE i = Len(entries)
    <3>1. R[i + 1] = pos /\ pos = entries[i] + Stride(entries[i])
      BY <1>2, <1>3, <2>1, <2>3 DEF Chained
    <3>. QED  BY <2>1, <2>2, <3>1 DEF Stride, HeaderAt, StepAt
  <2>4. CASE i # Len(entries)
    <3>1. i + 1 \in DOMAIN entries /\ R[i + 1] = entries[i + 1]
      BY <1>2, <2>1, <2>4
    <3>2. entries[i + 1] = entries[i] + Stride(entries[i])
      BY <1>3, <3>1 DEF Chained
    <3>. QED  BY <2>1, <2>2, <3>1, <3>2 DEF Stride, HeaderAt, StepAt
  <2>. QED  BY <2>3, <2>4
<1>7. /\ image.first <= pos
      /\ \A i \in DOMAIN entries : image.first <= entries[i] /\ entries[i] + Fixed <= pos
      /\ \A i, j \in DOMAIN entries : i < j => entries[i] + Fixed <= entries[j]
  BY <1>3 DEF EditorInv, WalkInv, Kept
<1>8. ASSUME NEW i \in 1..(Len(entries) + 1), NEW j \in 1..(Len(entries) + 1), i < j
      PROVE  R[i] + Fixed <= R[j]
  <2>1. i \in DOMAIN entries /\ R[i] = entries[i]
    BY <1>2, <1>8
  <2>2. CASE j = Len(entries) + 1
    BY <1>2, <1>7, <2>1, <2>2
  <2>3. CASE j # Len(entries) + 1
    <3>1. j \in DOMAIN entries /\ R[j] = entries[j]
      BY <1>2, <2>3
    <3>. QED  BY <1>7, <1>8, <2>1, <3>1
  <2>. QED  BY <2>2, <2>3
<1>9. ASSUME NEW i \in 1..(Len(entries) + 1)
      PROVE  image.first <= R[i]
  BY <1>2, <1>7
<1>10. ~Continues(image, pos) /\ SizeNoted(image, notes)
  BY <1>3 DEF ParserTells
<1>11. StopReason(image, notes, pos)
  <2>1. ReasonToStop
    BY DEF EditorInv, WalkInv, ParserStopped
  <2>2. Declared \in Int
    BY <1>2, DeclaredIsInteger
  <2>3. ~InsideContainer(pos) => pos - image.first >= SignedWord(image.size)
    BY <1>2, <2>2 DEF InsideContainer, Declared
  <2>. QED
    BY <2>1, <2>3 DEF ReasonToStop, StopReason, StopNotes, HasHeader, Readable, ShortHeader, HeaderAt
<1>12. DOMAIN R = 1..(Len(entries) + 1)
  OBVIOUS
<1>. HIDE DEF R
<1>. QED  BY <1>1, <1>4, <1>5, <1>6, <1>8, <1>9, <1>10, <1>11, <1>12 DEF ListingTells

(***************************************************************************)
(* A size the driver uses as it stands, or one that is noted.              *)
(***************************************************************************)
LEMMA SizeOrNote ==
  ASSUME NEW d, IsImage(d), NEW told, SizeNoted(d, told)
  PROVE  \/ told \cap {"upper bits discarded", "size not positive"} # {}
         \/ SignedWord(d.size) = d.size
<1>. USE HalfWordAssumption
<1>1. d.size \in Nat
  BY DEF IsImage
<1>2. CASE d.size >= 2 * HalfWord
  BY <1>2 DEF SizeNoted
<1>3. CASE ~(d.size >= 2 * HalfWord)
  <2>1. d.size % (2 * HalfWord) = d.size
    BY <1>1, <1>3
  <2>2. CASE d.size >= HalfWord
    <3>1. SignedWord(d.size) = d.size - 2 * HalfWord
      BY <2>1, <2>2 DEF SignedWord
    <3>2. SignedWord(d.size) <= 0 /\ d.size # 0
      BY <1>1, <1>3, <2>2, <3>1
    <3>. QED  BY <3>2 DEF SizeNoted
  <2>3. CASE ~(d.size >= HalfWord)
    BY <2>1, <2>3 DEF SignedWord
  <2>. QED  BY <2>2, <2>3
<1>. QED  BY <1>2, <1>3

(***************************************************************************)
(* The walk of an editor on the road of the listing: it counts no further  *)
(* than the entry asked for, and past the road it was warned.              *)
(***************************************************************************)
WalkStandsOnRoad ==
  stage = "walk" =>
    /\ listing.image.magic
    /\ edit.entry >= 0 => eidx <= edit.entry
    /\ eidx + 1 \in DOMAIN Road => epos = Road[eidx + 1]
    /\ eidx + 1 \notin DOMAIN Road => Warned /\ listing.stop <= epos

(***************************************************************************)
(* An editor that reads a header where the parser stopped was warned.      *)
(***************************************************************************)
LEMMA ReachingPastWarns ==
  ASSUME EditorInv, ListingTells, stage = "walk", InReach(listing.stop)
  PROVE  Warned
<1>. DEFINE d == listing.image
<1>1. /\ IsImage(d) /\ d.first \in Nat /\ d.size \in Nat /\ d.len \in Nat /\ IsImage(buf)
      /\ buf.first = d.first /\ buf.size = d.size /\ buf.len \in Nat
      /\ listing.stop \in Nat /\ Fixed \in Nat \ {0}
  BY FixedAssumption DEF EditorInv, EditTypeOK, IsFile, IsImage, WalkFollowsListing, Grows
<1>2. listing.stop + Fixed <= d.first + d.size
  BY <1>1 DEF InReach, Yields, EntriesBound
<1>3. StopReason(d, listing.notes, listing.stop) /\ SizeNoted(d, listing.notes)
  BY DEF ListingTells
<1>. HIDE DEF d
<1>4. listing.notes \cap {"upper bits discarded", "size not positive"} # {} => Warned
  BY DEF Warned
<1>5. CASE SignedWord(d.size) = d.size
  <2>1. ~(listing.stop - d.first >= SignedWord(d.size))
    BY <1>1, <1>2, <1>5
  <2>. QED  BY <1>3, <2>1 DEF StopReason, Warned, d
<1>. QED  BY <1>1, <1>3, <1>4, <1>5, SizeOrNote

(***************************************************************************)
(* At an entry of the listing the editor's bytes are those of the file.    *)
(***************************************************************************)
LEMMA ListedHeader ==
  ASSUME EditorInv, ListingTells, Grows(listing.image, buf), NEW i \in DOMAIN listing.entries
  PROVE  /\ HasHeader(listing.image, Road[i]) /\ HasHeader(buf, Road[i])
         /\ Road[i] \in Nat /\ Road[i] < buf.len
         /\ buf.header[Road[i]] = listing.image.header[Road[i]]
         /\ buf.header[Road[i]].size >= Fixed
<1>1. Continues(listing.image, Road[i]) /\ Road[i] \in Nat
  BY RoadIsOffsets DEF ListingTells, EditorInv
<1>2. /\ listing.image.len \in Nat /\ buf.len \in Nat /\ Fixed \in Nat \ {0}
      /\ listing.image.len <= buf.len
  BY FixedAssumption DEF EditorInv, EditTypeOK, IsFile, IsImage, Grows
<1>3. HasHeader(listing.image, Road[i]) /\ listing.image.header[Road[i]].size >= Fixed
  BY <1>1 DEF Continues
<1>4. HasHeader(buf, Road[i]) /\ Road[i] < buf.len
  BY <1>1, <1>2, <1>3 DEF HasHeader
<1>. QED  BY <1>1, <1>3, <1>4 DEF Grows

(***************************************************************************)
(* What an editor has altered of the file d once it holds g: no offset and *)
(* no header_size; a padded size only where it was told to; a kind only    *)
(* with --elf, three units into the payload of the entry.                  *)
(***************************************************************************)
MayAlterPadded(p) ==
  IF IsSizeEdit THEN edit.padded # Unchanged /\ p = epos ELSE p \in {epos + 1, epos + 2}

MayAlterKind(d, p) ==
  /\ edit.tool = "patch_arch" /\ edit.elf /\ epos + 3 <= p
  /\ HasHeader(d, epos) => p = epos + d.header[epos].size + 3

Altered(d, g) ==
  /\ g.first = d.first /\ g.magic = d.magic /\ g.len >= d.len
  /\ ~IsSizeEdit => g.len = d.len
  /\ \A p \in Nat : HasHeader(d, p) =>
       /\ g.header[p].size = d.header[p].size
       /\ g.header[p].kind # d.header[p].kind => MayAlterKind(d, p)
       /\ g.header[p].padded # d.header[p].padded => MayAlterPadded(p)

(***************************************************************************)
(* The entry that an edit appends stands at the old end of the file.       *)
(***************************************************************************)
AppendIsSeen ==
  AppendsOneEntry =>
    LET h == edit.append.header[edit.append.first]
        n == SliceLength(edit.append)
    IN  /\ buf.len = listing.image.len + n
        /\ n \in Nat /\ n >= Fixed /\ h.size >= Fixed /\ n <= h.size + h.padded
        /\ buf.header[listing.image.len] = h

(***************************************************************************)
(* The bytes an editor holds, and the offset it has edited them at.        *)
(***************************************************************************)
EditStandsOnRoad ==
  NamesEntry =>
    /\ listing.image.magic
    /\ edit.entry \in Nat
    /\ edit.entry + 1 \in DOMAIN Road => epos = Road[edit.entry + 1]
    /\ edit.entry + 1 \notin DOMAIN Road => listing.stop <= epos
    /\ ~NamesListedEntry => Warned

Alters == stage \in {"resize", "write"} \/ (stage = "edited" /\ edit # NoEdit)

BufferIsKnown ==
  /\ stage = "edited" => buf = image
  /\ stage = "append" \/ (stage = "walk" /\ ~IsSizeEdit) => buf = listing.image
  /\ Alters =>
       /\ Altered(listing.image, buf)
       /\ stage = "resize" \/ ~IsSizeEdit \/ edit.size = Unchanged =>
            buf.size = listing.image.size
       /\ EditStandsOnRoad
       /\ IsSizeEdit => AppendIsSeen

(***************************************************************************)
(* The fields of a header that is written.                                 *)
(***************************************************************************)
LEMMA PaddedField ==
  ASSUME NEW d, IsFile(d), NEW p \in Nat, HasHeader(d, p), NEW n
  PROVE  LET g == WithPadded(d, p, n)
         IN  /\ g.first = d.first /\ g.magic = d.magic /\ g.len = d.len /\ g.size = d.size
             /\ \A q \in Nat : HasHeader(d, q) =>
                  /\ g.header[q].size = d.header[q].size
                  /\ g.header[q].kind = d.header[q].kind
                  /\ q # p => g.header[q].padded = d.header[q].padded
<1>1. p \in HeaderOffsets(d.len) /\ d.header \in [HeaderOffsets(d.len) -> Header]
  BY FileHeader DEF IsFile, IsImage
<1>2. d.header[p] \in Header
  BY <1>1
<1>. DEFINE h == [d.header[p] EXCEPT !.padded = n]
            g == [d EXCEPT !.header[p].padded = n]
<1>3. h.size = d.header[p].size /\ h.kind = d.header[p].kind
  BY <1>2 DEF Header
<1>4. g = [len |-> d.len, magic |-> d.magic, first |-> d.first, size |-> d.size,
           header |-> [d.header EXCEPT ![p] = h], elf |-> d.elf]
  BY DEF IsFile
<1>5. ASSUME NEW q \in Nat, HasHeader(d, q)
      PROVE  [d.header EXCEPT ![p] = h][q] = IF q = p THEN h ELSE d.header[q]
  <2>1. q \in HeaderOffsets(d.len)
    BY <1>5, FileHeader DEF IsFile
  <2>. HIDE DEF h
  <2>. QED  BY <1>1, <2>1
<1>. HIDE DEF h, g
<1>6. g.header = [d.header EXCEPT ![p] = h]
  BY <1>4
<1>. QED  BY <1>3, <1>4, <1>5, <1>6 DEF WithPadded, g

LEMMA KindField ==
  ASSUME NEW d, IsFile(d), NEW p \in Nat, HasHeader(d, p)
  PROVE  LET g == WithoutKind(d, p)
         IN  /\ g.first = d.first /\ g.magic = d.magic /\ g.len = d.len /\ g.size = d.size
             /\ \A q \in Nat : HasHeader(d, q) =>
                  /\ g.header[q].size = d.header[q].size
                  /\ q # p => g.header[q].kind = d.header[q].kind
                  /\ g.header[q].padded = d.header[q].padded
<1>1. p \in HeaderOffsets(d.len) /\ d.header \in [HeaderOffsets(d.len) -> Header]
  BY FileHeader DEF IsFile, IsImage
<1>2. d.header[p] \in Header
  BY <1>1
<1>. DEFINE h == [d.header[p] EXCEPT !.kind = BadKind]
            g == [d EXCEPT !.header[p].kind = BadKind]
<1>3. h.size = d.header[p].size /\ h.padded = d.header[p].padded
  BY <1>2 DEF Header
<1>4. g = [len |-> d.len, magic |-> d.magic, first |-> d.first, size |-> d.size,
           header |-> [d.header EXCEPT ![p] = h], elf |-> d.elf]
  BY DEF IsFile
<1>5. ASSUME NEW q \in Nat, HasHeader(d, q)
      PROVE  [d.header EXCEPT ![p] = h][q] = IF q = p THEN h ELSE d.header[q]
  <2>1. q \in HeaderOffsets(d.len)
    BY <1>5, FileHeader DEF IsFile
  <2>. HIDE DEF h
  <2>. QED  BY <1>1, <2>1
<1>. HIDE DEF h, g
<1>6. g.header = [d.header EXCEPT ![p] = h]
  BY <1>4
<1>. QED  BY <1>3, <1>4, <1>5, <1>6 DEF WithoutKind, g

(***************************************************************************)
(* A high bit reaches no field but a padded size.                          *)
(***************************************************************************)
LEMMA HighBitField ==
  ASSUME NEW d, IsFile(d), NEW p \in Nat
  PROVE  LET g == HighBit(d, p)
         IN  /\ IsFile(g)
             /\ g.first = d.first /\ g.magic = d.magic /\ g.len = d.len /\ g.size = d.size
             /\ \A q \in Nat : HasHeader(d, q) =>
                  /\ g.header[q].size = d.header[q].size
                  /\ g.header[q].kind = d.header[q].kind
                  /\ q # p => g.header[q].padded = d.header[q].padded
<1>1. CASE HasHeader(d, p)
  <2>1. d.header[p].padded + HalfWord \in Nat
    BY <1>1, FileHeader, HalfWordAssumption DEF IsFile
  <2>2. HighBit(d, p) = WithPadded(d, p, d.header[p].padded + HalfWord)
    BY <1>1 DEF HighBit
  <2>3. IsFile(HighBit(d, p))
    BY <1>1, <2>1, <2>2, HeaderChanges
  <2>. QED  BY <1>1, <2>2, <2>3, PaddedField
<1>2. CASE ~HasHeader(d, p)
  BY <1>2 DEF HighBit
<1>. QED  BY <1>1, <1>2

(***************************************************************************)
(* The walk that reaches the entry asked for is on the road, or was        *)
(* warned.                                                                 *)
(***************************************************************************)
LEMMA EntryIsOnRoad ==
  ASSUME EditorInv, ListingTold, WalkStandsOnRoad, stage = "walk", InReach(epos),
         eidx = edit.entry
  PROVE  EditStandsOnRoad
<1>1. /\ listing.image.magic /\ ListingTells
      /\ eidx + 1 \in DOMAIN Road => epos = Road[eidx + 1]
      /\ eidx + 1 \notin DOMAIN Road => Warned /\ listing.stop <= epos
  BY DEF ListingTold, WalkStandsOnRoad, Opened
<1>2. /\ eidx \in Nat /\ DOMAIN Road = 1..(Len(listing.entries) + 1)
      /\ Len(listing.entries) \in Nat /\ Road[Len(listing.entries) + 1] = listing.stop
  BY RoadIsOffsets DEF EditorInv, EditTypeOK
<1>3. ASSUME ~NamesListedEntry  PROVE Warned
  <2>1. NamesEntry
    BY DEF EditorInv, StageOK
  <2>2. ~(eidx < Len(listing.entries))
    BY <1>2, <1>3, <2>1 DEF NamesListedEntry
  <2>3. CASE eidx + 1 \in DOMAIN Road
    <3>1. epos = listing.stop
      <4>1. eidx = Len(listing.entries)
        BY <1>2, <2>2, <2>3
      <4>. QED  BY <1>1, <1>2, <2>3, <4>1
    <3>. QED  BY <1>1, <3>1, ReachingPastWarns
  <2>. QED  BY <1>1, <2>3
<1>. QED  BY <1>1, <1>2, <1>3 DEF EditStandsOnRoad

(***************************************************************************)
(* The three edits of an entry.                                            *)
(***************************************************************************)
LEMMA FlagsAlter ==
  ASSUME EditorInv, BufferIsKnown, SetFlags, stage' = "write"
  PROVE  Altered(listing.image, buf') /\ buf'.size = listing.image.size
<1>1. /\ buf' = HighBit(buf, epos + 2) /\ stage = "walk" /\ ~IsSizeEdit
  BY DEF SetFlags, AtEntry, Overrun, Fail, Patched, IsSizeEdit
<1>2. /\ buf = listing.image /\ IsFile(buf) /\ epos + 2 \in Nat /\ buf.len \in Nat
  BY <1>1 DEF BufferIsKnown, EditorInv, EditTypeOK, IsFile, IsImage
<1>. DEFINE d == listing.image
            g == HighBit(d, epos + 2)
<1>3. /\ g.first = d.first /\ g.magic = d.magic /\ g.len = d.len /\ g.size = d.size
      /\ \A q \in Nat : HasHeader(d, q) =>
           /\ g.header[q].size = d.header[q].size
           /\ g.header[q].kind = d.header[q].kind
           /\ q # epos + 2 => g.header[q].padded = d.header[q].padded
  BY <1>2, HighBitField
<1>4. buf' = g /\ d.len \in Nat
  BY <1>1, <1>2
<1>. HIDE DEF d, g
<1>. QED  BY <1>1, <1>3, <1>4 DEF Altered, MayAlterPadded, d

LEMMA ArchAlters ==
  ASSUME EditorInv, BufferIsKnown, SetArch, stage' = "write"
  PROVE  Altered(listing.image, buf') /\ buf'.size = listing.image.size
<1>1. /\ stage = "walk" /\ ~IsSizeEdit /\ edit.tool = "patch_arch"
  BY DEF SetArch, AtEntry, IsSizeEdit
<1>. DEFINE d == listing.image
            a == WithHeaderArch(d)
<1>2. /\ buf = d /\ IsFile(d) /\ epos \in Nat /\ epos + 1 \in Nat /\ d.len \in Nat
      /\ IsImage(d)
  BY <1>1 DEF BufferIsKnown, EditorInv, EditTypeOK, IsFile, IsImage
<1>3. /\ IsFile(a)
      /\ a.first = d.first /\ a.magic = d.magic /\ a.len = d.len /\ a.size = d.size
      /\ \A q \in Nat : HasHeader(d, q) =>
           /\ a.header[q].size = d.header[q].size
           /\ a.header[q].kind = d.header[q].kind
           /\ q # epos + 1 => a.header[q].padded = d.header[q].padded
  <2>1. CASE edit.header
    <3>. DEFINE g == HighBit(d, epos + 1)
    <3>1. /\ IsFile(g)
          /\ g.first = d.first /\ g.magic = d.magic /\ g.len = d.len /\ g.size = d.size
          /\ \A q \in Nat : HasHeader(d, q) =>
               /\ g.header[q].size = d.header[q].size
               /\ g.header[q].kind = d.header[q].kind
               /\ q # epos + 1 => g.header[q].padded = d.header[q].padded
      BY <1>2, HighBitField
    <3>2. a = g
      BY <2>1 DEF WithHeaderArch
    <3>. HIDE DEF a, d, g
    <3>. QED  BY <3>1, <3>2
  <2>2. CASE ~edit.header
    BY <1>2, <2>2 DEF WithHeaderArch
  <2>. QED  BY <2>1, <2>2
<1>4. \/ buf' = a
      \/ /\ edit.elf
         /\ \E h \in ReadAt(epos) : buf' = WithElfArch(a, epos + h.size)
  BY <1>2 DEF SetArch, Overrun, Fail, Patched
<1>. HIDE DEF a, d
<1>5. CASE buf' = a
  BY <1>1, <1>2, <1>3, <1>5 DEF Altered, MayAlterPadded, d
<1>6. ASSUME edit.elf, NEW h \in ReadAt(epos), buf' = WithElfArch(a, epos + h.size)
      PROVE  Altered(listing.image, buf') /\ buf'.size = listing.image.size
  <2>. DEFINE p == epos + h.size + 3
  <2>1. h \in Header /\ (HasHeader(d, epos) => h = d.header[epos])
    BY <1>2, FileHeader, UnknownAssumption DEF ReadAt
  <2>2. p \in Nat /\ epos + 3 <= p
    BY <1>2, <2>1 DEF Header
  <2>3. MayAlterKind(d, p)
    BY <1>1, <1>6, <2>1, <2>2 DEF MayAlterKind
  <2>4. buf' = IF HasHeader(a, p) THEN WithoutKind(a, p) ELSE a
    BY <1>6 DEF WithElfArch
  <2>. HIDE DEF p
  <2>5. CASE HasHeader(a, p)
    <3>1. buf' = WithoutKind(a, p)
      BY <2>4, <2>5
    <3>2. \A q \in Nat : HasHeader(d, q) <=> HasHeader(a, q)
      BY <1>3 DEF HasHeader
    <3>. QED
      BY <1>1, <1>2, <1>3, <2>2, <2>3, <2>5, <3>1, <3>2, KindField
         DEF Altered, MayAlterPadded, d
  <2>6. CASE ~HasHeader(a, p)
    BY <1>1, <1>2, <1>3, <2>4, <2>6 DEF Altered, MayAlterPadded, d
  <2>. QED  BY <2>5, <2>6
<1>. QED  BY <1>4, <1>5, <1>6

LEMMA SizeAlters ==
  ASSUME EditorInv, SetPadded, stage' = "resize"
  PROVE  Altered(listing.image, buf') /\ buf'.size = listing.image.size
<1>1. /\ stage = "walk" /\ IsSizeEdit /\ HasHeader(buf, epos)
      /\ \E n : buf' = WithPadded(buf, epos, n)
  BY FixedAssumption DEF SetPadded, Patched, Overrun, Fail, AtEntry, InReach, Yields,
     EntriesBound, HasHeader, EditorInv, EditTypeOK, IsFile, IsImage
<1>2. /\ IsFile(buf) /\ IsFile(listing.image) /\ epos \in Nat /\ Grows(listing.image, buf)
      /\ buf.len \in Nat /\ listing.image.len \in Nat /\ Fixed \in Nat
      /\ edit.padded # Unchanged
  BY <1>1, FixedAssumption
     DEF EditorInv, EditTypeOK, WalkFollowsListing, StageOK, NamesEntry, IsFile, IsImage
<1>3. PICK n : buf' = WithPadded(buf, epos, n)
  BY <1>1
<1>4. \A q \in Nat : HasHeader(listing.image, q) =>
        HasHeader(buf, q) /\ buf.header[q] = listing.image.header[q]
  BY <1>2 DEF HasHeader, Grows
<1>5. /\ buf'.first = listing.image.first /\ buf'.magic = listing.image.magic
      /\ buf'.len >= listing.image.len /\ buf'.size = listing.image.size
  BY <1>1, <1>2, <1>3, PaddedField DEF Grows
<1>6. ASSUME NEW q \in Nat, HasHeader(listing.image, q)
      PROVE  /\ buf'.header[q].size = listing.image.header[q].size
             /\ buf'.header[q].kind = listing.image.header[q].kind
             /\ q # epos => buf'.header[q].padded = listing.image.header[q].padded
  BY <1>1, <1>2, <1>3, <1>4, <1>6, PaddedField
<1>. QED  BY <1>1, <1>2, <1>5, <1>6 DEF Altered, MayAlterPadded

(***************************************************************************)
(* The parser on the written file: as far as the edit leaves the strides   *)
(* alone, it comes along the road of the listing.                          *)
(***************************************************************************)
Known ==
  {i \in DOMAIN Road : IsSizeEdit /\ edit.padded # Unchanged => i <= edit.entry + 1}

Retraces ==
  stage = "edited" /\ edit # NoEdit /\ ParserBegun =>
    \A i \in Known : /\ i \in DOMAIN entries => entries[i] = Road[i]
                     /\ i = Len(entries) + 1 => pos = Road[i]

(***************************************************************************)
(* The inductive invariant of an edit and of the reading after it.         *)
(***************************************************************************)
FollowInv ==
  /\ ParserTells /\ ListingTold /\ WalkStandsOnRoad /\ BufferIsKnown /\ Retraces
  /\ ReachOfTheEditors

(***************************************************************************)
(* What is said of the listing stays true while the listing stays.         *)
(***************************************************************************)
LEMMA ListingStays ==
  ASSUME UNCHANGED listing
  PROVE  /\ Road' = Road
         /\ ListingTells' <=> ListingTells
         /\ Warned' <=> Warned
BY DEF Road, ListingTells, Warned

LEMMA EditStays ==
  ASSUME UNCHANGED <<listing, edit>>
  PROVE  /\ NamesEntry' <=> NamesEntry
         /\ NamesListedEntry' <=> NamesListedEntry
         /\ IsSizeEdit' <=> IsSizeEdit
         /\ AppendsOneEntry' <=> AppendsOneEntry
         /\ Known' = Known
         /\ ReachOfTheEditors /\ UNCHANGED outcome /\ stage' # "spinning"
              => ReachOfTheEditors'
<1>1. Road' = Road /\ (Warned' <=> Warned)
  BY ListingStays
<1>2. /\ NamesEntry' <=> NamesEntry
      /\ NamesListedEntry' <=> NamesListedEntry
      /\ IsSizeEdit' <=> IsSizeEdit
      /\ Named' = Named
  BY DEF NamesListedEntry, NamesEntry, IsSizeEdit, Named
<1>3. AppendsOneEntry' <=> AppendsOneEntry
  BY <1>2 DEF AppendsOneEntry
<1>4. Known' = Known
  BY <1>1, <1>2 DEF Known
<1>5. ReachOfTheEditors /\ UNCHANGED outcome /\ stage' # "spinning" => ReachOfTheEditors'
  BY <1>1, <1>2 DEF ReachOfTheEditors
<1>. QED  BY <1>2, <1>3, <1>4, <1>5

LEMMA AlterationStays ==
  ASSUME UNCHANGED <<listing, edit, epos>>
  PROVE  /\ Altered(listing.image, buf') => Altered(listing.image, buf)'
         /\ EditStandsOnRoad' <=> EditStandsOnRoad
<1>1. /\ IsSizeEdit' <=> IsSizeEdit
      /\ \A p : MayAlterPadded(p)' <=> MayAlterPadded(p')
  BY EditStays DEF MayAlterPadded
<1>2. Altered(listing.image, buf') => Altered(listing.image, buf)'
  BY <1>1 DEF Altered, MayAlterPadded, MayAlterKind, HasHeader
<1>3. EditStandsOnRoad' <=> EditStandsOnRoad
  BY ListingStays, EditStays DEF EditStandsOnRoad
<1>. QED  BY <1>2, <1>3

LEMMA AppendStaysSeen ==
  ASSUME UNCHANGED <<listing, edit>>, AppendIsSeen,
         buf'.len = buf.len, buf'.header = buf.header
  PROVE  AppendIsSeen'
BY EditStays DEF AppendIsSeen, SliceLength

(***************************************************************************)
(* A step of an editor that leaves the file unwritten.                     *)
(***************************************************************************)
LEMMA QuietFollows ==
  ASSUME FollowInv, Quiet, stage' # "edited", ListingTold', WalkStandsOnRoad',
         BufferIsKnown', ReachOfTheEditors'
  PROVE  FollowInv'
<1>1. /\ UNCHANGED <<image, pc, pos, entries, notes>>
  BY DEF Quiet, vars, parserVars
<1>2. ParserTells'
  BY <1>1 DEF FollowInv, ParserTells, ParserBegun, Readable, IsEntryKind, ShortHeader, HeaderAt
<1>3. Retraces'
  BY DEF Retraces
<1>. QED  BY <1>2, <1>3 DEF FollowInv

(***************************************************************************)
(* An editor that gives up.                                                *)
(***************************************************************************)
LEMMA RefuseFollows == EditorInv /\ FollowInv /\ RefuseFile => FollowInv'
<1>. SUFFICES ASSUME EditorInv, FollowInv, RefuseFile  PROVE FollowInv'
  OBVIOUS
<1>1. Quiet /\ stage' = "failed" /\ outcome' \in {"too short", "not a fat binary"}
  BY DEF RefuseFile, Fail, Quiet
<1>2. ListingTold' /\ WalkStandsOnRoad' /\ BufferIsKnown' /\ ReachOfTheEditors'
  BY <1>1 DEF ListingTold, Opened, WalkStandsOnRoad, BufferIsKnown, Alters, ReachOfTheEditors
<1>. QED  BY <1>1, <1>2, QuietFollows

LEMMA FailFollows ==
  ASSUME EditorInv, FollowInv, NEW reason, Fail(reason), UNCHANGED listing,
         reason = "no entry" /\ NamesListedEntry =>
           Named + Fixed > listing.image.first + listing.image.size,
         reason = "struct.error" /\ NamesEntry /\ ~NamesListedEntry => Warned,
         reason # "written"
  PROVE  FollowInv'
<1>1. Quiet /\ stage' = "failed" /\ outcome' = reason /\ UNCHANGED <<listing, edit>>
  BY DEF Fail, Quiet
<1>2. /\ NamesEntry' <=> NamesEntry
      /\ NamesListedEntry' <=> NamesListedEntry
      /\ Named' = Named /\ (Warned' <=> Warned)
  BY <1>1, EditStays, ListingStays DEF Named
<1>3. ReachOfTheEditors'
  BY <1>1, <1>2 DEF ReachOfTheEditors
<1>4. ListingTold' /\ WalkStandsOnRoad' /\ BufferIsKnown'
  BY <1>1 DEF ListingTold, Opened, WalkStandsOnRoad, BufferIsKnown, Alters
<1>. QED  BY <1>1, <1>3, <1>4, QuietFollows

LEMMA NoEntryFollows == EditorInv /\ FollowInv /\ FindNoEntry => FollowInv'
<1>. SUFFICES ASSUME EditorInv, FollowInv, FindNoEntry  PROVE FollowInv'
  OBVIOUS
<1>1. /\ stage = "walk" /\ ~InReach(epos) /\ UNCHANGED listing /\ Fail("no entry")
      /\ ListingTells /\ Grows(listing.image, buf)
  BY DEF FindNoEntry, FollowInv, ListingTold, WalkStandsOnRoad, Opened, EditorInv,
     WalkFollowsListing
<1>2. ASSUME NamesListedEntry
      PROVE  Named + Fixed > listing.image.first + listing.image.size
  <2>1. /\ eidx \in Nat /\ edit.entry \in Nat /\ eidx <= edit.entry
        /\ edit.entry < Len(listing.entries) /\ epos = Road[eidx + 1]
        /\ eidx + 1 \in DOMAIN listing.entries /\ edit.entry + 1 \in DOMAIN listing.entries
    <3>1. /\ eidx \in Nat /\ edit.entry \in Nat /\ eidx <= edit.entry
          /\ edit.entry < Len(listing.entries)
          /\ eidx + 1 \in DOMAIN Road => epos = Road[eidx + 1]
      <4>1. eidx \in Nat /\ Len(listing.entries) \in Nat
        BY RoadIsOffsets DEF EditorInv, EditTypeOK
      <4>2. edit.entry \in Nat /\ edit.entry < Len(listing.entries)
        BY <1>2, <4>1 DEF NamesListedEntry
      <4>3. /\ edit.entry >= 0 => eidx <= edit.entry
            /\ eidx + 1 \in DOMAIN Road => epos = Road[eidx + 1]
        BY <1>1 DEF FollowInv, WalkStandsOnRoad
      <4>. QED  BY <4>1, <4>2, <4>3
    <3>. QED  BY <3>1, RoadIsOffsets DEF EditorInv
  <2>2. Named = Road[edit.entry + 1] /\ Named \in Nat /\ epos \in Nat
    BY <2>1, RoadIsOffsets DEF Named, EditorInv, EditTypeOK
  <2>3. epos <= Named
    <3>1. CASE eidx = edit.entry
      BY <2>1, <2>2, <3>1
    <3>2. CASE eidx # edit.entry
      <4>1. eidx + 1 < edit.entry + 1 /\ eidx + 1 \in DOMAIN Road /\ edit.entry + 1 \in DOMAIN Road
        BY <2>1, <3>2, RoadIsOffsets DEF EditorInv
      <4>2. epos + Fixed <= Named
        BY <1>1, <2>1, <2>2, <4>1 DEF ListingTells
      <4>. QED  BY <2>2, <4>2, FixedAssumption
    <3>. QED  BY <3>1, <3>2
  <2>4. /\ HasHeader(buf, epos) /\ buf.header[epos].size >= Fixed
    BY <1>1, <2>1, ListedHeader
  <2>5. /\ buf.first = listing.image.first /\ buf.size = listing.image.size
        /\ buf.first \in Nat /\ buf.size \in Nat /\ buf.len \in Nat /\ Fixed \in Nat
    BY <1>1, FixedAssumption DEF Grows, EditorInv, EditTypeOK, IsFile, IsImage
  <2>6. epos + Fixed > buf.first + buf.size
    <3>1. ~(epos + Fixed <= EntriesBound(buf)) \/ ~(epos + Fixed <= buf.first + buf.size)
      BY <1>1, <2>4 DEF InReach, Yields
    <3>2. epos + Fixed <= buf.len
      BY <2>4 DEF HasHeader
    <3>. QED  BY <2>2, <2>5, <3>1, <3>2 DEF EntriesBound
  <2>. QED  BY <2>2, <2>3, <2>5, <2>6
<1>. QED  BY <1>1, <1>2, FailFollows

LEMMA PastBufferFollows == EditorInv /\ FollowInv /\ ReadPastBuffer => FollowInv'
<1>. SUFFICES ASSUME EditorInv, FollowInv, ReadPastBuffer  PROVE FollowInv'
  OBVIOUS
<1>1. /\ stage = "walk" /\ InReach(epos) /\ epos >= buf.len
      /\ UNCHANGED listing /\ Fail("struct.error")
      /\ ListingTells /\ Grows(listing.image, buf)
      /\ eidx + 1 \in DOMAIN Road => epos = Road[eidx + 1]
      /\ eidx + 1 \notin DOMAIN Road => Warned
  BY DEF ReadPastBuffer, FollowInv, ListingTold, WalkStandsOnRoad, Opened, EditorInv,
     WalkFollowsListing
<1>2. /\ eidx \in Nat /\ epos \in Nat /\ buf.len \in Nat
      /\ DOMAIN Road = 1..(Len(listing.entries) + 1) /\ Len(listing.entries) \in Nat
      /\ DOMAIN listing.entries = 1..Len(listing.entries)
      /\ Road[Len(listing.entries) + 1] = listing.stop
  BY RoadIsOffsets DEF EditorInv, EditTypeOK, IsFile, IsImage
<1>3. CASE eidx < Len(listing.entries)
  <2>1. eidx + 1 \in DOMAIN listing.entries /\ eidx + 1 \in DOMAIN Road
    BY <1>2, <1>3
  <2>2. Road[eidx + 1] < buf.len
    BY <1>1, <2>1, ListedHeader
  <2>3. FALSE
    BY <1>1, <1>2, <2>1, <2>2
  <2>. QED  BY <2>3
<1>4. CASE eidx = Len(listing.entries)
  <2>1. epos = listing.stop
    BY <1>1, <1>2, <1>4
  <2>. QED  BY <1>1, <2>1, ReachingPastWarns, FailFollows
<1>5. CASE eidx > Len(listing.entries)
  <2>1. eidx + 1 \notin DOMAIN Road
    BY <1>2, <1>5
  <2>. QED  BY <1>1, <2>1, FailFollows
<1>. QED  BY <1>2, <1>3, <1>4, <1>5

(***************************************************************************)
(* An editor that counts for ever does so where the listing ended, or past *)
(* that: the headers listed have a size.                                   *)
(***************************************************************************)
LEMMA CountFollows == EditorInv /\ FollowInv /\ CountForEver => FollowInv'
<1>. SUFFICES ASSUME EditorInv, FollowInv, CountForEver  PROVE FollowInv'
  OBVIOUS
<1>1. /\ Quiet /\ stage = "walk" /\ stage' = "spinning" /\ InReach(epos)
      /\ UNCHANGED <<edit, listing, outcome>>
      /\ ListingTells /\ Grows(listing.image, buf)
      /\ eidx + 1 \in DOMAIN Road => epos = Road[eidx + 1]
      /\ eidx + 1 \notin DOMAIN Road => Warned
  BY DEF CountForEver, Quiet, FollowInv, ListingTold, WalkStandsOnRoad, Opened, EditorInv,
     WalkFollowsListing
<1>2. /\ eidx \in Nat /\ epos \in Nat /\ Fixed \in Nat \ {0} /\ IsFile(buf)
      /\ DOMAIN Road = 1..(Len(listing.entries) + 1) /\ Len(listing.entries) \in Nat
      /\ DOMAIN listing.entries = 1..Len(listing.entries)
      /\ Road[Len(listing.entries) + 1] = listing.stop
  BY RoadIsOffsets, FixedAssumption DEF EditorInv, EditTypeOK
<1>3. Warned
  <2>1. CASE eidx < Len(listing.entries)
    <3>1. eidx + 1 \in DOMAIN listing.entries /\ eidx + 1 \in DOMAIN Road
      BY <1>2, <2>1
    <3>2. HasHeader(buf, epos) /\ buf.header[epos].size >= Fixed
      BY <1>1, <3>1, ListedHeader
    <3>3. buf.header[epos].size \in Nat /\ buf.header[epos].padded \in Nat
      BY <1>2, <3>2, FileHeader DEF IsFile
    <3>4. ~(buf.header[epos].size + buf.header[epos].padded > 0)
      BY <3>2 DEF CountForEver, CanCome, ReadAt
    <3>. QED  BY <1>2, <3>2, <3>3, <3>4
  <2>2. CASE eidx = Len(listing.entries)
    <3>1. epos = listing.stop
      BY <1>1, <1>2, <2>2
    <3>. QED  BY <1>1, <3>1, ReachingPastWarns
  <2>3. CASE eidx > Len(listing.entries)
    <3>1. eidx + 1 \notin DOMAIN Road
      BY <1>2, <2>3
    <3>. QED  BY <1>1, <3>1
  <2>. QED  BY <1>2, <2>1, <2>2, <2>3
<1>4. /\ NamesListedEntry' <=> NamesListedEntry
      /\ Named' = Named /\ Warned'
  BY <1>1, <1>3, EditStays, ListingStays DEF Named
<1>5. ReachOfTheEditors'
  BY <1>1, <1>4 DEF FollowInv, ReachOfTheEditors
<1>6. ListingTold' /\ WalkStandsOnRoad' /\ BufferIsKnown'
  BY <1>1 DEF ListingTold, Opened, WalkStandsOnRoad, BufferIsKnown, Alters
<1>. QED  BY <1>1, <1>5, <1>6, QuietFollows

LEMMA SourceRefusalFollows == EditorInv /\ FollowInv /\ RefuseSource => FollowInv'
BY FailFollows DEF RefuseSource

(***************************************************************************)
(* The file is opened: the listing is taken, and its bytes with it.        *)
(***************************************************************************)
LEMMA OpenFollows == EditorInv /\ FollowInv /\ OpenFile => FollowInv'
<1>. SUFFICES ASSUME EditorInv, FollowInv, OpenFile  PROVE FollowInv'
  OBVIOUS
<1>1. /\ Quiet /\ UNCHANGED <<edit, buf, outcome>> /\ stage = "list" /\ Listed /\ TakeListing
      /\ buf.len >= 1 /\ buf = image /\ outcome = "none" /\ edit # NoEdit
      /\ \/ IsSizeEdit /\ stage' = "append" /\ UNCHANGED <<epos, eidx>>
         \/ ~IsSizeEdit /\ buf.magic /\ stage' = "walk" /\ epos' = buf.first /\ eidx' = 0
  BY DEF OpenFile, BeginWalk, Quiet, Listed, EditorInv, StageOK
<1>2. EditorInv' /\ listing'.image = image
  BY <1>1, OpenKeepsInv DEF TakeListing
<1>3. image.magic => pc = "done"
  <2>1. image.len \in Nat /\ (pc = "error" => image.len < 1 \/ ~image.magic)
    BY DEF FollowInv, ParserTells, EditorInv, EditTypeOK, IsFile, IsImage
  <2>. QED  BY <1>1, <2>1 DEF Listed
<1>4. image.magic => ListingTells'
  BY <1>1, <1>2, <1>3, ListingIsTold DEF FollowInv, EditorInv
<1>5. ListingTold'
  BY <1>2, <1>4 DEF ListingTold
<1>6. WalkStandsOnRoad'
  <2>. SUFFICES ASSUME stage' = "walk"  PROVE WalkStandsOnRoad'
    BY DEF WalkStandsOnRoad
  <2>1. image.magic /\ epos' = image.first /\ eidx' = 0 /\ edit' = edit
    BY <1>1
  <2>2. Road'[1] = image.first
    BY <1>2, <1>4, <2>1 DEF ListingTells
  <2>3. 1 \in DOMAIN Road'
    <3>1. listing'.entries \in Seq(Nat)
      BY <1>2 DEF EditorInv, EditTypeOK
    <3>. QED  BY <3>1 DEF Road
  <2>4. edit.entry \in Int
    BY <1>1, CommandLine DEF EditorInv, EditTypeOK
  <2>. QED  BY <1>2, <2>1, <2>2, <2>3, <2>4 DEF WalkStandsOnRoad
<1>7. BufferIsKnown'
  BY <1>1, <1>2 DEF BufferIsKnown, Alters
<1>8. ReachOfTheEditors'
  BY <1>1 DEF ReachOfTheEditors
<1>9. stage' # "edited"
  BY <1>1
<1>. QED  BY <1>1, <1>5, <1>6, <1>7, <1>8, <1>9, QuietFollows

(***************************************************************************)
(* One appended entry, with nothing after it, stands at the old end.       *)
(***************************************************************************)
LEMMA AppendShows ==
  ASSUME EditorInv, FollowInv, AppendBytes, AppendsOneEntry
  PROVE  LET h == edit.append.header[edit.append.first]
             n == SliceLength(edit.append)
         IN  /\ buf'.len = listing.image.len + n
             /\ n \in Nat /\ n >= Fixed /\ h.size >= Fixed /\ n <= h.size + h.padded
             /\ buf'.header[listing.image.len] = h
<1>. DEFINE src == edit.append
            h == src.header[src.first]
            n == SliceLength(src)
            len == buf.len
<1>1. /\ stage = "append" /\ edit \in Edits /\ IsSizeEdit /\ src # NoFile /\ edit.raw = 0
      /\ buf = listing.image /\ IsFile(buf)
  BY DEF AppendBytes, AppendsOneEntry, EditorInv, EditTypeOK, StageOK, FollowInv, BufferIsKnown
<1>2. IsImage(src) /\ Yields(src, src.first)
  BY <1>1, CommandLine, ImagesAssumption DEF AppendBytes, IsSizeEdit
<1>3. /\ len \in Nat /\ Fixed \in Nat \ {0} /\ src.len \in Nat /\ src.first \in Nat
      /\ src.size \in Nat
  BY <1>1, <1>2, FixedAssumption DEF IsFile, IsImage
<1>4. src.first + Fixed <= src.len /\ h.size >= Fixed
  BY <1>2, <1>3 DEF Yields, EntriesBound
<1>5. h.size \in Nat /\ h.padded \in Nat
  BY <1>2, <1>3, <1>4, FileHeader DEF HasHeader
<1>6. n \in Nat /\ n >= Fixed /\ n <= h.size + h.padded
  BY <1>3, <1>4, <1>5 DEF SliceLength
<1>. HIDE DEF n, h
<1>7. PICK unknown \in Unknown :
        buf' = WithRaw(Concatenated(buf, src, n, unknown), 0, unknown)
  BY <1>1 DEF AppendBytes, n
<1>. DEFINE d == Concatenated(buf, src, n, unknown)
<1>8. d.len = len + n /\ d.header[len] = h
  <2>. DEFINE hs == [p \in HeaderOffsets(len + n) |->
                       IF HasHeader(buf, p) THEN buf.header[p]
                       ELSE IF p < len THEN unknown
                       ELSE src.header[p - len + src.first]]
  <2>1. d.len = len + n /\ d.header = hs
    BY DEF Concatenated, Longer
  <2>2. len \in HeaderOffsets(len + n) /\ ~HasHeader(buf, len) /\ ~(len < len)
    BY <1>3, <1>6 DEF HeaderOffsets, HasHeader
  <2>3. len - len + src.first = src.first
    BY <1>3
  <2>4. hs[len] = src.header[src.first]
    BY <2>2, <2>3
  <2>. QED  BY <2>1, <2>4 DEF h
<1>. HIDE DEF d
<1>9. buf'.len = d.len + 0 /\ buf'.header[len] = d.header[len]
  <2>. DEFINE hs == [p \in HeaderOffsets(d.len + 0) |->
                       IF HasHeader(d, p) THEN d.header[p] ELSE unknown]
  <2>1. buf'.len = d.len + 0 /\ buf'.header = hs
    BY <1>7 DEF WithRaw, Longer, d
  <2>2. len \in HeaderOffsets(d.len + 0) /\ HasHeader(d, len)
    BY <1>3, <1>6, <1>8 DEF HeaderOffsets, HasHeader
  <2>. QED  BY <2>1, <2>2
<1>10. buf'.len = len + n
  BY <1>3, <1>6, <1>8, <1>9
<1>. QED  BY <1>1, <1>4, <1>6, <1>8, <1>9, <1>10 DEF n, h

LEMMA AppendFollows == EditorInv /\ FollowInv /\ AppendBytes => FollowInv'
<1>. SUFFICES ASSUME EditorInv, FollowInv, AppendBytes  PROVE FollowInv'
  OBVIOUS
<1>1. /\ Quiet /\ UNCHANGED <<edit, listing>> /\ stage = "append" /\ IsSizeEdit
      /\ edit \in Edits /\ IsSizeEdit' /\ Opened
  BY EditStays DEF AppendBytes, Quiet, EditorInv, EditTypeOK, StageOK, Opened
<1>2. Grows(listing.image, buf') /\ buf = listing.image
  BY <1>1, AppendGrows DEF FollowInv, BufferIsKnown
<1>3. \/ /\ edit.padded # Unchanged /\ buf.magic
         /\ stage' = "walk" /\ epos' = buf.first /\ eidx' = 0 /\ UNCHANGED outcome
      \/ /\ stage' = "failed" /\ outcome' = "not a fat binary"
      \/ /\ edit.padded = Unchanged
         /\ stage' = "resize" /\ UNCHANGED <<epos, eidx, outcome>>
  BY DEF AppendBytes, AfterAppending, BeginWalk
<1>4. ListingTold' /\ (listing.image.magic => ListingTells)
  BY <1>1, ListingStays DEF FollowInv, ListingTold
<1>5. WalkStandsOnRoad'
  <2>. SUFFICES ASSUME stage' = "walk"  PROVE WalkStandsOnRoad'
    BY DEF WalkStandsOnRoad
  <2>1. /\ listing'.image.magic /\ epos' = Road[1] /\ eidx' = 0 /\ 1 \in DOMAIN Road
        /\ Road' = Road /\ edit' = edit /\ edit.entry \in Int
    BY <1>1, <1>2, <1>3, <1>4, ListingStays, RoadIsOffsets, CommandLine
       DEF EditorInv, ListingTells
  <2>. QED  BY <2>1 DEF WalkStandsOnRoad
<1>6. BufferIsKnown'
  <2>1. CASE stage' # "resize"
    BY <1>1, <1>3, <2>1 DEF BufferIsKnown, Alters
  <2>2. CASE stage' = "resize"
    <3>1. edit.padded = Unchanged /\ UNCHANGED epos
      BY <1>3, <2>2
    <3>2. Altered(listing.image, buf')
      BY <1>1, <1>2 DEF Altered, Grows
    <3>3. Altered(listing.image, buf)'
      BY <1>1, <3>1, <3>2, AlterationStays
    <3>4. EditStandsOnRoad'
      BY <1>1, <3>1, EditStays DEF EditStandsOnRoad, NamesEntry
    <3>5. AppendIsSeen'
      BY <1>1, AppendShows, EditStays DEF AppendIsSeen, SliceLength
    <3>6. buf'.size = listing'.image.size
      BY <1>1, <1>2 DEF Grows
    <3>. QED  BY <2>2, <3>3, <3>4, <3>5, <3>6 DEF BufferIsKnown
  <2>. QED  BY <2>1, <2>2
<1>7. ReachOfTheEditors'
  BY <1>1, <1>3, EditStays DEF FollowInv, ReachOfTheEditors
<1>8. stage' # "edited"
  BY <1>3
<1>. QED  BY <1>1, <1>4, <1>5, <1>6, <1>7, <1>8, QuietFollows

(***************************************************************************)
(* The editor's walk passes a header and stays on the road of the listing, *)
(* or leaves it with a warning.                                            *)
(***************************************************************************)
LEMMA PassFollows == EditorInv /\ FollowInv /\ PassHeader => FollowInv'
<1>. SUFFICES ASSUME EditorInv, FollowInv, PassHeader  PROVE FollowInv'
  OBVIOUS
<1>1. /\ Quiet /\ UNCHANGED <<edit, stage, listing, buf, outcome>> /\ stage = "walk"
      /\ eidx' = eidx + 1 /\ InReach(epos) /\ eidx # edit.entry
  BY DEF PassHeader, Quiet
<1>2. /\ listing.image.magic /\ ListingTells /\ (edit.entry >= 0 => eidx <= edit.entry)
      /\ eidx + 1 \in DOMAIN Road => epos = Road[eidx + 1]
      /\ eidx + 1 \notin DOMAIN Road => Warned /\ listing.stop <= epos
      /\ Grows(listing.image, buf)
  BY <1>1 DEF FollowInv, ListingTold, WalkStandsOnRoad, Opened, EditorInv, WalkFollowsListing
<1>3. PICK h \in ReadAt(epos) : epos' = epos + h.size + h.padded
  BY DEF PassHeader
<1>4. /\ eidx \in Nat /\ edit.entry \in Int /\ epos \in Nat /\ h.size \in Nat /\ h.padded \in Nat
      /\ listing.stop \in Nat
  <2>1. eidx \in Nat /\ epos \in Nat /\ IsFile(buf) /\ edit.entry \in Int /\ listing.stop \in Nat
    BY <1>1, CommandLine DEF EditorInv, EditTypeOK, StageOK
  <2>2. h \in Header
    BY <1>3, <2>1, FileHeader, UnknownAssumption DEF ReadAt, IsFile
  <2>. QED  BY <2>1, <2>2 DEF Header
<1>5. /\ DOMAIN Road = 1..(Len(listing.entries) + 1) /\ Len(listing.entries) \in Nat
      /\ DOMAIN listing.entries = 1..Len(listing.entries)
      /\ Road[Len(listing.entries) + 1] = listing.stop
  BY RoadIsOffsets DEF EditorInv
<1>6. ASSUME eidx' + 1 \in DOMAIN Road
      PROVE  epos' = Road[eidx' + 1]
  <2>1. eidx + 1 \in DOMAIN listing.entries /\ eidx + 1 \in DOMAIN Road /\ eidx' + 1 = (eidx + 1) + 1
    BY <1>1, <1>4, <1>5, <1>6
  <2>2. /\ HasHeader(buf, epos) /\ buf.header[epos] = listing.image.header[epos]
        /\ epos = Road[eidx + 1]
    BY <1>2, <2>1, ListedHeader
  <2>3. h = listing.image.header[epos]
    BY <1>3, <2>2 DEF ReadAt
  <2>4. Road[(eidx + 1) + 1] = Road[eidx + 1] + StepAt(listing.image, Road[eidx + 1])
    BY <1>2, <2>1 DEF ListingTells
  <2>. QED  BY <1>3, <1>4, <2>1, <2>2, <2>3, <2>4 DEF StepAt
<1>7. ASSUME eidx' + 1 \notin DOMAIN Road
      PROVE  Warned /\ listing.stop <= epos'
  <2>1. CASE eidx = Len(listing.entries)
    <3>1. epos = listing.stop
      BY <1>2, <1>4, <1>5, <2>1
    <3>. QED  BY <1>1, <1>2, <1>3, <1>4, <3>1, ReachingPastWarns
  <2>2. CASE eidx # Len(listing.entries)
    <3>1. eidx + 1 \notin DOMAIN Road
      BY <1>1, <1>4, <1>5, <1>7, <2>2
    <3>. QED  BY <1>2, <1>3, <1>4, <3>1
  <2>. QED  BY <2>1, <2>2
<1>8. edit.entry >= 0 => eidx' <= edit.entry
  BY <1>1, <1>2, <1>4
<1>9. WalkStandsOnRoad'
  BY <1>1, <1>2, <1>6, <1>7, <1>8, ListingStays DEF WalkStandsOnRoad
<1>10. ListingTold' /\ ReachOfTheEditors'
  BY <1>1, EditStays, ListingStays DEF FollowInv, ListingTold, Opened
<1>11. BufferIsKnown'
  BY <1>1, EditStays DEF FollowInv, BufferIsKnown, Alters
<1>12. stage' # "edited"
  BY <1>1
<1>. QED  BY <1>1, <1>9, <1>10, <1>11, <1>12, QuietFollows

(***************************************************************************)
(* An edit that gives up at the entry asked for was warned, if the listing *)
(* has no such entry.                                                      *)
(***************************************************************************)
LEMMA OverrunFollows ==
  ASSUME EditorInv, FollowInv, AtEntry, NEW reason \in {"struct.error", "not a raw ELF"},
         UNCHANGED listing, Fail(reason)
  PROVE  FollowInv'
<1>1. EditStandsOnRoad
  BY EntryIsOnRoad DEF FollowInv, AtEntry
<1>2. reason # "no entry" /\ reason # "written"
  OBVIOUS
<1>3. NamesEntry /\ ~NamesListedEntry => Warned
  BY <1>1 DEF EditStandsOnRoad
<1>. QED  BY <1>2, <1>3, FailFollows

(***************************************************************************)
(* The edits of the entry at which the walk stands.                        *)
(***************************************************************************)
LEMMA PatchFollows ==
  ASSUME EditorInv, FollowInv, AtEntry, NEW d, NEW next, Patched(d, next),
         next = "resize" <=> IsSizeEdit, next \in {"write", "resize"},
         Altered(listing.image, buf'), buf'.size = listing.image.size
  PROVE  FollowInv'
<1>1. /\ Quiet /\ stage' = next /\ UNCHANGED <<edit, listing, eidx, epos, outcome>>
      /\ stage = "walk" /\ NamesEntry
  BY DEF Patched, Quiet, AtEntry, EditorInv, StageOK
<1>2. EditStandsOnRoad
  BY EntryIsOnRoad DEF FollowInv, AtEntry
<1>3. Altered(listing.image, buf)' /\ EditStandsOnRoad'
  BY <1>1, <1>2, AlterationStays
<1>4. IsSizeEdit => AppendIsSeen'
  BY <1>1, EditStays DEF AppendIsSeen, AppendsOneEntry, NamesEntry
<1>5. BufferIsKnown'
  BY <1>1, <1>3, <1>4, EditStays DEF BufferIsKnown
<1>6. ListingTold' /\ ReachOfTheEditors'
  BY <1>1, EditStays, ListingStays DEF FollowInv, ListingTold, Opened
<1>7. WalkStandsOnRoad' /\ stage' # "edited"
  BY <1>1 DEF WalkStandsOnRoad
<1>. QED  BY <1>1, <1>5, <1>6, <1>7, QuietFollows

LEMMA EntryEditFollows ==
  EditorInv /\ FollowInv /\ (SetFlags \/ SetArch \/ SetPadded) => FollowInv'
<1>. SUFFICES ASSUME EditorInv, FollowInv, SetFlags \/ SetArch \/ SetPadded
     PROVE  FollowInv'
  OBVIOUS
<1>1. AtEntry /\ BufferIsKnown
  BY DEF SetFlags, SetArch, SetPadded, FollowInv
<1>2. ASSUME NEW reason \in {"struct.error", "not a raw ELF"}, UNCHANGED listing, Fail(reason)
      PROVE  FollowInv'
  BY <1>1, <1>2, OverrunFollows
<1>3. CASE SetFlags
  <2>1. Overrun \/ \E d : Patched(d, "write")
    BY <1>3 DEF SetFlags
  <2>2. ASSUME NEW d, Patched(d, "write")  PROVE FollowInv'
    <3>1. stage' = "write" /\ ~IsSizeEdit
      BY <1>3, <2>2 DEF Patched, SetFlags, IsSizeEdit
    <3>. QED  BY <1>1, <1>3, <2>2, <3>1, FlagsAlter, PatchFollows
  <2>. QED  BY <1>2, <2>1, <2>2 DEF Overrun
<1>4. CASE SetArch
  <2>1. \/ Overrun \/ (UNCHANGED listing /\ Fail("not a raw ELF"))
        \/ \E d : Patched(d, "write")
    BY <1>4 DEF SetArch
  <2>2. ASSUME NEW d, Patched(d, "write")  PROVE FollowInv'
    <3>1. stage' = "write" /\ ~IsSizeEdit
      BY <1>4, <2>2 DEF Patched, SetArch, IsSizeEdit
    <3>. QED  BY <1>1, <1>4, <2>2, <3>1, ArchAlters, PatchFollows
  <2>. QED  BY <1>2, <2>1, <2>2 DEF Overrun
<1>5. CASE SetPadded
  <2>1. Overrun \/ \E d : Patched(d, "resize")
    BY <1>5 DEF SetPadded
  <2>2. ASSUME NEW d, Patched(d, "resize")  PROVE FollowInv'
    <3>1. stage' = "resize" /\ IsSizeEdit
      BY <1>5, <2>2 DEF Patched, SetPadded
    <3>. QED  BY <1>1, <1>5, <2>2, <3>1, SizeAlters, PatchFollows
  <2>. QED  BY <1>2, <2>1, <2>2 DEF Overrun
<1>. QED  BY <1>3, <1>4, <1>5

(***************************************************************************)
(* The container takes its size.                                           *)
(***************************************************************************)
LEMMA ResizeFollows == EditorInv /\ FollowInv /\ SetFatbinSize => FollowInv'
<1>. SUFFICES ASSUME EditorInv, FollowInv, SetFatbinSize  PROVE FollowInv'
  OBVIOUS
<1>1. /\ Quiet /\ stage = "resize" /\ stage' = "write" /\ IsSizeEdit
      /\ UNCHANGED <<edit, listing, eidx, epos, outcome>>
      /\ \/ edit.size = Unchanged /\ buf' = buf
         \/ edit.size # Unchanged /\ \E n : buf' = WithSize(buf, n)
  BY DEF SetFatbinSize, Patched, Quiet, EditorInv, StageOK
<1>2. /\ Altered(listing.image, buf) /\ EditStandsOnRoad /\ AppendIsSeen
      /\ buf.size = listing.image.size
  BY <1>1 DEF FollowInv, BufferIsKnown, Alters
<1>3. /\ buf'.first = buf.first /\ buf'.magic = buf.magic /\ buf'.len = buf.len
      /\ buf'.header = buf.header
  <2>1. IsFile(buf)
    BY DEF EditorInv, EditTypeOK
  <2>2. ASSUME NEW n, buf' = WithSize(buf, n)
        PROVE  /\ buf'.first = buf.first /\ buf'.magic = buf.magic /\ buf'.len = buf.len
               /\ buf'.header = buf.header
    <3>1. [buf EXCEPT !.size = n]
            = [len |-> buf.len, magic |-> buf.magic, first |-> buf.first, size |-> n,
               header |-> buf.header, elf |-> buf.elf]
      BY <2>1 DEF IsFile
    <3>. QED  BY <2>2, <3>1 DEF WithSize
  <2>. QED  BY <1>1, <2>2
<1>4. Altered(listing.image, buf')
  BY <1>2, <1>3 DEF Altered
<1>5. Altered(listing.image, buf)' /\ EditStandsOnRoad' /\ AppendIsSeen'
  BY <1>1, <1>2, <1>3, <1>4, AlterationStays, AppendStaysSeen
<1>6. edit.size = Unchanged => buf'.size = listing.image.size
  BY <1>1, <1>2
<1>7. BufferIsKnown'
  BY <1>1, <1>5, <1>6, EditStays DEF BufferIsKnown
<1>8. ListingTold' /\ ReachOfTheEditors'
  BY <1>1, EditStays, ListingStays DEF FollowInv, ListingTold, Opened
<1>9. WalkStandsOnRoad' /\ stage' # "edited"
  BY <1>1 DEF WalkStandsOnRoad
<1>. QED  BY <1>1, <1>7, <1>8, <1>9, QuietFollows

(***************************************************************************)
(* The file is written, and nothing of it is read yet.                     *)
(***************************************************************************)
LEMMA WriteFollows == EditorInv /\ FollowInv /\ WriteFile => FollowInv'
<1>. SUFFICES ASSUME EditorInv, FollowInv, WriteFile  PROVE FollowInv'
  OBVIOUS
<1>1. /\ stage = "write" /\ stage' = "edited" /\ outcome' = "written" /\ image' = buf
      /\ pc' = "open" /\ entries' = <<>>
      /\ UNCHANGED <<edit, listing, buf, eidx, epos>> /\ edit # NoEdit
  BY DEF WriteFile, EditorInv, StageOK
<1>2. ~ParserBegun'
  BY <1>1 DEF ParserBegun
<1>3. ParserTells' /\ Retraces' /\ WalkStandsOnRoad'
  BY <1>1, <1>2 DEF ParserTells, Retraces, WalkStandsOnRoad
<1>4. ListingTold'
  BY <1>1, ListingStays DEF FollowInv, ListingTold, Opened
<1>5. /\ Altered(listing.image, buf) /\ EditStandsOnRoad
      /\ ~IsSizeEdit \/ edit.size = Unchanged => buf.size = listing.image.size
      /\ IsSizeEdit => AppendIsSeen
  BY <1>1 DEF FollowInv, BufferIsKnown, Alters
<1>6. Altered(listing.image, buf)' /\ EditStandsOnRoad'
  BY <1>1, <1>5, AlterationStays
<1>7. IsSizeEdit => AppendIsSeen'
  BY <1>1, <1>5, AppendStaysSeen
<1>8. BufferIsKnown'
  BY <1>1, <1>5, <1>6, <1>7, EditStays DEF BufferIsKnown
<1>9. ReachOfTheEditors'
  BY <1>1, <1>5, EditStays, ListingStays DEF ReachOfTheEditors, EditStandsOnRoad
<1>. QED  BY <1>3, <1>4, <1>8, <1>9 DEF FollowInv

(***************************************************************************)
(* A written file, beside the file that was listed.                        *)
(***************************************************************************)
Written == stage = "edited" /\ edit # NoEdit /\ listing.image.magic

LEMMA WrittenIsAltered ==
  ASSUME EditorInv, FollowInv, Written
  PROVE  /\ ListingTells /\ Altered(listing.image, image) /\ EditStandsOnRoad
         /\ buf = image
         /\ image.first = listing.image.first
         /\ image.len >= listing.image.len
         /\ \A p \in Nat : HasHeader(listing.image, p) =>
              /\ HasHeader(image, p)
              /\ image.header[p].size = listing.image.header[p].size
<1>1. /\ ListingTells /\ Altered(listing.image, image) /\ EditStandsOnRoad /\ buf = image
  BY DEF FollowInv, ListingTold, Opened, BufferIsKnown, Alters, Written
<1>2. image.len \in Nat /\ listing.image.len \in Nat /\ Fixed \in Nat
  BY FixedAssumption DEF EditorInv, EditTypeOK, IsFile, IsImage
<1>. QED  BY <1>1, <1>2 DEF Altered, HasHeader

(***************************************************************************)
(* An edited field is on the road of the listing only where the entry      *)
(* asked for is.                                                           *)
(***************************************************************************)
LEMMA EditedPlace ==
  ASSUME EditorInv, FollowInv, Written, NamesEntry, NEW k \in DOMAIN Road
  PROVE  /\ k <= edit.entry /\ k <= Len(listing.entries) => Road[k] + Fixed <= epos
         /\ k = edit.entry + 1 => Road[k] = epos
         /\ k > edit.entry + 1 => epos + Fixed <= Road[k]
         /\ edit.entry + 1 \notin DOMAIN Road => Road[k] <= epos
         /\ Road[k] \in Nat /\ epos \in Nat /\ edit.entry \in Nat
<1>1. /\ DOMAIN Road = 1..(Len(listing.entries) + 1) /\ Len(listing.entries) \in Nat
      /\ Road[Len(listing.entries) + 1] = listing.stop /\ listing.stop \in Nat
      /\ epos \in Nat /\ edit.entry \in Nat /\ Road[k] \in Nat /\ Fixed \in Nat
  BY RoadIsOffsets, WrittenIsAltered, FixedAssumption
     DEF EditorInv, EditTypeOK, EditStandsOnRoad
<1>2. /\ \A i, j \in DOMAIN Road : i < j => Road[i] + Fixed <= Road[j]
      /\ edit.entry + 1 \in DOMAIN Road => epos = Road[edit.entry + 1]
      /\ edit.entry + 1 \notin DOMAIN Road => listing.stop <= epos
  BY WrittenIsAltered DEF ListingTells, EditStandsOnRoad
<1>3. CASE edit.entry + 1 \in DOMAIN Road
  <2>1. k <= edit.entry => k < edit.entry + 1
    BY <1>1
  <2>. QED  BY <1>1, <1>2, <1>3, <2>1
<1>4. CASE edit.entry + 1 \notin DOMAIN Road
  <2>1. edit.entry > Len(listing.entries) /\ k <= edit.entry
    BY <1>1, <1>4
  <2>2. k = Len(listing.entries) + 1 \/ k < Len(listing.entries) + 1
    BY <1>1
  <2>3. k < Len(listing.entries) + 1 => Road[k] + Fixed <= listing.stop
    BY <1>1, <1>2
  <2>4. Road[k] <= epos
    BY <1>1, <1>2, <1>4, <2>2, <2>3
  <2>. QED  BY <1>1, <1>2, <1>4, <2>1, <2>2, <2>3, <2>4
<1>. QED  BY <1>3, <1>4

(***************************************************************************)
(* No stride the listing took up to the entry asked for is another in the  *)
(* written file, and none at all is if no padded size was to change.       *)
(***************************************************************************)
LEMMA StrideStays ==
  ASSUME EditorInv, FollowInv, Written, NEW k \in Known, k + 1 \in Known
  PROVE  /\ k \in DOMAIN listing.entries
         /\ Road[k + 1] = Road[k] + StepAt(image, Road[k])
<1>1. /\ DOMAIN Road = 1..(Len(listing.entries) + 1) /\ Len(listing.entries) \in Nat
      /\ DOMAIN listing.entries = 1..Len(listing.entries)
      /\ k \in DOMAIN Road /\ k + 1 \in DOMAIN Road /\ Fixed \in Nat /\ Fixed >= 3
      /\ IsSizeEdit /\ edit.padded # Unchanged => k + 1 <= edit.entry + 1
  BY RoadIsOffsets, FixedAssumption, FieldsAssumption DEF Known, EditorInv
<1>2. k \in DOMAIN listing.entries
  BY <1>1
<1>3. /\ HasHeader(listing.image, Road[k]) /\ Road[k] \in Nat
      /\ Road[k + 1] = Road[k] + StepAt(listing.image, Road[k])
  BY <1>1, <1>2, WrittenIsAltered, RoadIsOffsets DEF ListingTells, Continues, EditorInv
<1>4. ASSUME NamesEntry, MayAlterPadded(Road[k])
      PROVE  FALSE
  <2>1. /\ k <= edit.entry /\ k <= Len(listing.entries) => Road[k] + Fixed <= epos
        /\ k = edit.entry + 1 => Road[k] = epos
        /\ k > edit.entry + 1 => epos + Fixed <= Road[k]
        /\ Road[k] \in Nat /\ epos \in Nat /\ edit.entry \in Nat
    BY <1>1, <1>4, EditedPlace
  <2>2. k \in Nat /\ k <= Len(listing.entries)
    BY <1>1, <1>2
  <2>3. CASE IsSizeEdit
    <3>1. k <= edit.entry /\ Road[k] = epos
      BY <1>1, <1>4, <2>1, <2>2, <2>3 DEF MayAlterPadded
    <3>. QED  BY <1>1, <2>1, <2>2, <3>1
  <2>4. CASE ~IsSizeEdit
    <3>1. Road[k] = epos + 1 \/ Road[k] = epos + 2
      BY <1>4, <2>4 DEF MayAlterPadded
    <3>. QED  BY <1>1, <2>1, <2>2, <3>1
  <2>. QED  BY <2>3, <2>4
<1>5. ~MayAlterPadded(Road[k])
  <2>1. CASE NamesEntry
    BY <1>4, <2>1
  <2>2. CASE ~NamesEntry
    BY <2>2 DEF NamesEntry, Written, MayAlterPadded
  <2>. QED  BY <2>1, <2>2
<1>6. image.header[Road[k]].padded = listing.image.header[Road[k]].padded
      /\ image.header[Road[k]].size = listing.image.header[Road[k]].size
  BY <1>3, <1>5, WrittenIsAltered DEF Altered
<1>. QED  BY <1>2, <1>3, <1>6 DEF StepAt

(***************************************************************************)
(* The parser goes along the road it has come before.                      *)
(***************************************************************************)
LEMMA StepRetraces == EditorInv /\ FollowInv /\ [Next]_vars /\ UNCHANGED editVars => Retraces'
<1>. SUFFICES ASSUME EditorInv, FollowInv, [Next]_vars, UNCHANGED editVars
     PROVE  Retraces'
  OBVIOUS
<1>. SUFFICES ASSUME stage = "edited", edit # NoEdit, ParserBegun', NEW i \in Known
     PROVE  /\ i \in DOMAIN entries' => entries'[i] = Road[i]
            /\ i = Len(entries') + 1 => pos' = Road[i]
  <2>1. Road' = Road /\ Known' = Known /\ UNCHANGED <<stage, edit>>
    BY ListingStays, EditStays DEF editVars
  <2>. QED  BY <2>1 DEF Retraces
<1>1. /\ entries \in Seq(Nat) /\ pos \in Nat /\ image.first \in Nat /\ IsImage(image)
      /\ i \in DOMAIN Road /\ DOMAIN Road = 1..(Len(listing.entries) + 1)
      /\ Len(listing.entries) \in Nat
  BY RoadIsOffsets DEF EditorInv, WalkInv, TypeOK, IsImage, Known
<1>2. ParserBegun => /\ \A j \in Known : j \in DOMAIN entries => entries[j] = Road[j]
                     /\ \A j \in Known : j = Len(entries) + 1 => pos = Road[j]
  BY DEF FollowInv, Retraces
<1>3. CASE OpenContainer
  <2>1. entries' = <<>> /\ pos' = image.first /\ image.magic
    BY <1>3 DEF OpenContainer, EditorInv, WalkInv, SameRoad, ParserBegun
  <2>2. listing.image.magic
    BY <2>1 DEF FollowInv, BufferIsKnown, Alters, Altered
  <2>3. Road[1] = image.first
    BY <2>2, WrittenIsAltered DEF Written, ListingTells
  <2>. QED  BY <1>1, <2>1, <2>3
<1>4. CASE RaiseError
  BY <1>4 DEF RaiseError, ParserBegun
<1>5. CASE ReadEntry
  <2>1. /\ entries' = Append(entries, pos) /\ pos' = pos + StepAt(image, pos) /\ ParserBegun
    BY <1>5 DEF ReadEntry, ParserBegun, Stride, HeaderAt, StepAt
  <2>2. /\ Len(entries') = Len(entries) + 1 /\ Len(entries) \in Nat
        /\ DOMAIN entries' = 1..(Len(entries) + 1)
        /\ \A j \in 1..Len(entries) : entries'[j] = entries[j]
        /\ DOMAIN entries = 1..Len(entries)
        /\ entries'[Len(entries) + 1] = pos
    BY <1>1, <2>1
  <2>3. i \in DOMAIN entries' => entries'[i] = Road[i]
    <3>1. CASE i \in DOMAIN entries
      BY <1>2, <2>1, <2>2, <3>1
    <3>2. CASE i = Len(entries) + 1
      BY <1>2, <2>1, <2>2, <3>2
    <3>. QED  BY <1>1, <2>2, <3>1, <3>2
  <2>4. ASSUME i = Len(entries') + 1
        PROVE  pos' = Road[i]
    <3>. DEFINE k == Len(entries) + 1
    <3>1. k \in Known /\ k + 1 \in Known /\ i = k + 1
      <4>1. k \in Nat /\ k >= 1 /\ i = k + 1
        BY <2>2, <2>4
      <4>2. k \in DOMAIN Road
        BY <1>1, <4>1
      <4>3. IsSizeEdit /\ edit.padded # Unchanged => i <= edit.entry + 1 /\ edit.entry \in Int
        BY CommandLine DEF Known, EditorInv, EditTypeOK
      <4>. QED  BY <4>1, <4>2, <4>3 DEF Known
    <3>2. pos = Road[k]
      BY <1>2, <2>1, <3>1
    <3>3. listing.image.magic
      <4>1. image.magic
        BY <2>1 DEF ParserBegun, FollowInv, ParserTells
      <4>. QED  BY <4>1 DEF FollowInv, BufferIsKnown, Alters, Altered
    <3>. HIDE DEF k
    <3>4. Road[k + 1] = Road[k] + StepAt(image, Road[k])
      BY <3>1, <3>3, StrideStays DEF Written
    <3>. QED  BY <2>1, <3>1, <3>2, <3>4
  <2>. QED  BY <2>3, <2>4
<1>6. CASE UNCHANGED <<pos, entries>> /\ (ParserBegun' => ParserBegun)
  BY <1>2, <1>6
<1>7. LeaveContainer \/ HeaderPastBuffer \/ StopAtShortHeader \/ StopAtBadHeader
        \/ LookPastTheEnd \/ Driver \/ UNCHANGED vars
        => UNCHANGED <<pos, entries>> /\ (ParserBegun' => ParserBegun)
  BY DEF LeaveContainer, HeaderPastBuffer, StopAtShortHeader, StopAtBadHeader, Break,
     LookPastTheEnd, Driver, DriverEnter, DriverVisit, DriverSpins, DriverLeavesBuffer,
     vars, parserVars, ParserBegun
<1>. QED  BY <1>3, <1>4, <1>5, <1>6, <1>7 DEF Next, Parser

(***************************************************************************)
(* Reading a file changes nothing an editor knows of it.                   *)
(***************************************************************************)
LEMMA ReadingFollows == EditorInv /\ FollowInv /\ (Lists \/ Loads) => FollowInv'
<1>. SUFFICES ASSUME EditorInv, FollowInv, Lists \/ Loads  PROVE FollowInv'
  OBVIOUS
<1>1. /\ [Next]_vars /\ UNCHANGED editVars
      /\ UNCHANGED <<edit, stage, listing, buf, epos, eidx, outcome>> /\ stage # "spinning"
  BY DEF Lists, Loads, Next, editVars
<1>2. image' = image
  BY <1>1, BytesStay
<1>3. ParserTells' /\ Retraces'
  BY <1>1, StepTells, StepRetraces DEF EditorInv, FollowInv
<1>4. ListingTold' /\ WalkStandsOnRoad' /\ ReachOfTheEditors'
  BY <1>1, EditStays, ListingStays DEF FollowInv, ListingTold, Opened, WalkStandsOnRoad
<1>5. Alters => Altered(listing.image, buf)' /\ EditStandsOnRoad'
  BY <1>1, AlterationStays DEF FollowInv, BufferIsKnown
<1>6. Alters /\ IsSizeEdit => AppendIsSeen'
  BY <1>1, AppendStaysSeen DEF FollowInv, BufferIsKnown
<1>7. BufferIsKnown'
  BY <1>1, <1>2, <1>5, <1>6, EditStays DEF FollowInv, BufferIsKnown, Alters
<1>. QED  BY <1>3, <1>4, <1>7 DEF FollowInv

LEMMA InitFollows == EditInit => FollowInv
<1>. SUFFICES ASSUME EditInit  PROVE FollowInv
  OBVIOUS
<1>1. ParserTells
  BY DEF EditInit, Init, ParserTells, ParserBegun
<1>2. ListingTold /\ WalkStandsOnRoad /\ BufferIsKnown /\ Retraces /\ ReachOfTheEditors
  BY DEF EditInit, Init, ListingTold, Opened, WalkStandsOnRoad, BufferIsKnown, Alters, Retraces,
     ReachOfTheEditors, ParserBegun
<1>. QED  BY <1>1, <1>2 DEF FollowInv

LEMMA StepFollows == EditorInv /\ FollowInv /\ [EditNext]_allVars => FollowInv'
<1>1. EditorInv /\ FollowInv /\ UNCHANGED allVars => FollowInv'
  <2>. SUFFICES ASSUME EditorInv, FollowInv, UNCHANGED allVars  PROVE FollowInv'
    OBVIOUS
  <2>1. UNCHANGED vars /\ [Next]_vars /\ UNCHANGED editVars
        /\ UNCHANGED <<edit, stage, listing, buf, epos, eidx, outcome, image>>
    BY DEF allVars, vars, editVars
  <2>2. ParserTells' /\ Retraces'
    BY <2>1, StepTells, StepRetraces DEF EditorInv, FollowInv
  <2>3. ListingTold' /\ WalkStandsOnRoad' /\ ReachOfTheEditors'
    BY <2>1, EditStays, ListingStays
       DEF FollowInv, ListingTold, Opened, WalkStandsOnRoad, ReachOfTheEditors, Named
  <2>4. Alters => Altered(listing.image, buf)' /\ EditStandsOnRoad'
    BY <2>1, AlterationStays DEF FollowInv, BufferIsKnown
  <2>5. Alters /\ IsSizeEdit => AppendIsSeen'
    BY <2>1, AppendStaysSeen DEF FollowInv, BufferIsKnown
  <2>6. BufferIsKnown'
    BY <2>1, <2>4, <2>5, EditStays DEF FollowInv, BufferIsKnown, Alters
  <2>. QED  BY <2>2, <2>3, <2>6 DEF FollowInv
<1>. QED
  BY <1>1, ReadingFollows, RefuseFollows, OpenFollows, AppendFollows, SourceRefusalFollows,
     PassFollows, CountFollows, PastBufferFollows, NoEntryFollows, EntryEditFollows, ResizeFollows,
     WriteFollows DEF EditNext, Editor

(***************************************************************************)
(* An edit changes the kind of no header on the road, unless it writes the *)
(* e_flags of a payload that is too short for them.                        *)
(***************************************************************************)
LEMMA KindStays ==
  ASSUME EditorInv, FollowInv, Written, NEW k \in DOMAIN Road,
         HasHeader(listing.image, Road[k]), ~(NamesListedEntry /\ ShortPayload)
  PROVE  image.header[Road[k]].kind = listing.image.header[Road[k]].kind
<1>. DEFINE d == listing.image
            e == edit.entry + 1
<1>1. /\ DOMAIN Road = 1..(Len(listing.entries) + 1) /\ Len(listing.entries) \in Nat
      /\ DOMAIN listing.entries = 1..Len(listing.entries)
      /\ Road[k] \in Nat /\ Fixed \in Nat
  BY RoadIsOffsets, FixedAssumption DEF EditorInv
<1>2. SUFFICES ASSUME MayAlterKind(d, Road[k])  PROVE FALSE
  BY <1>1, WrittenIsAltered DEF Altered
<1>3. /\ edit.tool = "patch_arch" /\ edit.elf /\ NamesEntry /\ epos + 3 <= Road[k]
      /\ HasHeader(d, epos) => Road[k] = epos + d.header[epos].size + 3
  BY <1>2 DEF MayAlterKind, NamesEntry, IsSizeEdit, Written
<1>4. /\ k = edit.entry + 1 => Road[k] = epos
      /\ k <= edit.entry /\ k <= Len(listing.entries) => Road[k] + Fixed <= epos
      /\ edit.entry + 1 \notin DOMAIN Road => Road[k] <= epos
      /\ epos \in Nat /\ edit.entry \in Nat
  BY <1>3, EditedPlace
<1>5. k > e /\ e \in DOMAIN listing.entries
  BY <1>1, <1>3, <1>4
<1>6. /\ Road[e] = epos /\ Continues(d, epos) /\ Road[e + 1] = epos + StepAt(d, epos)
      /\ e \in DOMAIN Road /\ e + 1 \in DOMAIN Road /\ Named = epos
  <2>1. Road[e] = epos /\ e \in DOMAIN Road /\ e + 1 \in DOMAIN Road
    BY <1>1, <1>3, <1>4, <1>5, WrittenIsAltered DEF EditStandsOnRoad
  <2>2. Named = Road[e]
    BY <1>5, RoadIsOffsets DEF Named, EditorInv
  <2>. QED  BY <1>5, <2>1, <2>2, WrittenIsAltered DEF ListingTells
<1>7. d.header[epos].padded >= 4 /\ d.header[epos].size \in Nat /\ d.header[epos].padded \in Nat
  <2>1. NamesListedEntry
    BY <1>1, <1>3, <1>4, <1>5 DEF NamesListedEntry
  <2>2. d.header[epos].size \in Nat /\ d.header[epos].padded \in Nat
    BY <1>4, <1>6, FileHeader DEF Continues, EditorInv, EditTypeOK, IsFile
  <2>3. ~(d.header[epos].padded < 4)
    BY <1>3, <1>6, <2>1 DEF ShortPayload
  <2>. QED  BY <2>2, <2>3
<1>8. Road[e + 1] <= Road[k]
  <2>1. CASE k = e + 1
    BY <1>1, <2>1
  <2>2. CASE k # e + 1
    <3>1. e + 1 < k
      BY <1>1, <1>4, <1>5, <2>2
    <3>2. Road[e + 1] + Fixed <= Road[k]
      BY <1>6, <3>1, WrittenIsAltered DEF ListingTells
    <3>3. Road[e + 1] \in Nat
      BY <1>6, RoadIsOffsets DEF EditorInv
    <3>. QED  BY <1>1, <3>2, <3>3
  <2>. QED  BY <2>1, <2>2
<1>9. Road[k] = epos + d.header[epos].size + 3
  BY <1>3, <1>6 DEF Continues
<1>10. Road[e + 1] = epos + d.header[epos].size + d.header[epos].padded
  BY <1>4, <1>6, <1>7 DEF StepAt
<1>. HIDE DEF d, e
<1>. QED  BY <1>4, <1>7, <1>8, <1>9, <1>10

(***************************************************************************)
(* Where the size is the same and the kind too, the parser goes on from a  *)
(* header of the written file if it went on from it before.                *)
(***************************************************************************)
LEMMA StillContinues ==
  ASSUME EditorInv, FollowInv, Written, image.size = listing.image.size,
         NEW k \in DOMAIN Road, Continues(listing.image, Road[k]),
         image.header[Road[k]].kind = listing.image.header[Road[k]].kind
  PROVE  Continues(image, Road[k])
<1>. DEFINE d == listing.image
<1>1. /\ Road[k] \in Nat /\ image.len \in Nat /\ d.len \in Nat
  BY RoadIsOffsets DEF EditorInv, EditTypeOK, IsFile, IsImage
<1>2. HasHeader(d, Road[k])
  BY DEF Continues
<1>3. /\ image.first = d.first /\ image.len >= d.len /\ HasHeader(image, Road[k])
      /\ image.header[Road[k]].size = d.header[Road[k]].size
  BY <1>1, <1>2, WrittenIsAltered
<1>4. d.header[Road[k]].size \in Nat
  BY <1>1, <1>2, FileHeader DEF EditorInv, EditTypeOK, IsFile
<1>. QED  BY <1>1, <1>3, <1>4 DEF Continues

(***************************************************************************)
(* The parser does not stop on the road where it can go on.                *)
(***************************************************************************)
LEMMA GoesOn ==
  ASSUME EditorInv, FollowInv, Written, pc = "done", Len(entries) + 1 \in Known
  PROVE  pos = Road[Len(entries) + 1] /\ ~Continues(image, Road[Len(entries) + 1])
BY DEF FollowInv, Retraces, ParserTells, ParserBegun, Written

LEMMA HeldByTheEdit ==
  ASSUME EditorInv, FollowInv, EditedAndListed
  PROVE  Written /\ ParserBegun
<1>1. ParserBegun /\ image.magic
  BY DEF EditedAndListed, ParserBegun, FollowInv, ParserTells
<1>2. listing.image.magic
  BY <1>1 DEF EditedAndListed, FollowInv, BufferIsKnown, Alters, Altered
<1>. QED  BY <1>1, <1>2 DEF Written, EditedAndListed

(***************************************************************************)
(* An edit that alters neither a kind nor a size on the road is listed as  *)
(* the file was.                                                           *)
(***************************************************************************)
LEMMA ListedAsBefore ==
  ASSUME EditorInv, FollowInv, EditedAndListed, Known = DOMAIN Road,
         \A k \in DOMAIN listing.entries : Continues(image, Road[k]),
         ~Continues(image, listing.stop)
  PROVE  entries = listing.entries /\ pos = listing.stop
<1>1. Written /\ ParserBegun /\ pc = "done"
  BY HeldByTheEdit DEF EditedAndListed
<1>2. /\ DOMAIN Road = 1..(Len(listing.entries) + 1) /\ Len(listing.entries) \in Nat
      /\ DOMAIN listing.entries = 1..Len(listing.entries)
      /\ \A i \in DOMAIN listing.entries : Road[i] = listing.entries[i]
      /\ Road[Len(listing.entries) + 1] = listing.stop
      /\ listing.entries \in Seq(Nat) /\ entries \in Seq(Nat)
      /\ Len(entries) \in Nat /\ DOMAIN entries = 1..Len(entries)
  BY RoadIsOffsets DEF EditorInv, EditTypeOK, WalkInv, TypeOK
<1>3. \A i \in DOMAIN Road : i \in DOMAIN entries => entries[i] = Road[i]
  BY <1>1 DEF FollowInv, Retraces, Written
<1>4. ~(Len(entries) < Len(listing.entries))
  <2>. SUFFICES ASSUME Len(entries) < Len(listing.entries)  PROVE FALSE
    OBVIOUS
  <2>1. Len(entries) + 1 \in Known /\ Len(entries) + 1 \in DOMAIN listing.entries
    BY <1>2
  <2>. QED  BY <1>1, <2>1, GoesOn
<1>5. ~(Len(entries) > Len(listing.entries))
  <2>. SUFFICES ASSUME Len(entries) > Len(listing.entries)  PROVE FALSE
    OBVIOUS
  <2>1. /\ Len(listing.entries) + 1 \in DOMAIN entries
        /\ Len(listing.entries) + 1 \in DOMAIN Road
    BY <1>2
  <2>2. entries[Len(listing.entries) + 1] = listing.stop
    BY <1>2, <1>3, <2>1
  <2>3. Continues(image, entries[Len(listing.entries) + 1])
    BY <2>1 DEF FollowInv, ParserTells
  <2>. QED  BY <2>2, <2>3
<1>6. Len(entries) = Len(listing.entries)
  BY <1>2, <1>4, <1>5
<1>7. \A i \in 1..Len(entries) : entries[i] = listing.entries[i]
  BY <1>2, <1>3, <1>6
<1>8. entries = listing.entries
  BY <1>2, <1>6, <1>7
<1>9. pos = listing.stop
  <2>1. Len(entries) + 1 \in Known /\ Len(entries) + 1 = Len(listing.entries) + 1
    BY <1>2, <1>6
  <2>2. pos = Road[Len(entries) + 1]
    BY <1>1, <2>1, GoesOn
  <2>. QED  BY <1>2, <2>1, <2>2
<1>. QED  BY <1>8, <1>9

(***************************************************************************)
(* Nothing stops the parser at an offset where it did not stop before, and *)
(* nothing makes it go on where it did, if neither size nor kind differs.  *)
(***************************************************************************)
LEMMA StillStops ==
  ASSUME EditorInv, FollowInv, Written, ~IsSizeEdit, ~(NamesListedEntry /\ ShortPayload)
  PROVE  ~Continues(image, listing.stop)
<1>. DEFINE d == listing.image
<1>1. /\ listing.stop \in Nat /\ Len(listing.entries) + 1 \in DOMAIN Road
      /\ Road[Len(listing.entries) + 1] = listing.stop
  BY RoadIsOffsets DEF EditorInv, EditTypeOK
<1>2. /\ image.first = d.first /\ image.len = d.len /\ image.size = d.size
      /\ ~Continues(d, listing.stop)
  <2>1. Altered(d, image) /\ image.first = d.first /\ ~Continues(d, listing.stop)
    BY WrittenIsAltered DEF ListingTells
  <2>2. image.size = d.size
    BY DEF FollowInv, BufferIsKnown, Alters, Written
  <2>. QED  BY <2>1, <2>2 DEF Altered
<1>3. CASE HasHeader(d, listing.stop)
  <2>1. image.header[listing.stop].size = d.header[listing.stop].size
    BY <1>1, <1>3, WrittenIsAltered
  <2>2. image.header[listing.stop].kind = d.header[listing.stop].kind
    BY <1>1, <1>3, KindStays
  <2>. QED  BY <1>2, <1>3, <2>1, <2>2 DEF Continues, HasHeader
<1>4. CASE ~HasHeader(d, listing.stop)
  BY <1>2, <1>4 DEF Continues, HasHeader
<1>. QED  BY <1>3, <1>4

LEMMA RoadHasKinds ==
  ASSUME EditorInv, FollowInv, Written, NEW k \in DOMAIN listing.entries,
         IsSizeEdit \/ ~(NamesListedEntry /\ ShortPayload)
  PROVE  /\ k \in DOMAIN Road /\ Continues(listing.image, Road[k])
         /\ image.header[Road[k]].kind = listing.image.header[Road[k]].kind
<1>1. k \in DOMAIN Road /\ Continues(listing.image, Road[k])
  BY RoadIsOffsets, WrittenIsAltered DEF EditorInv, ListingTells
<1>2. IsSizeEdit => ~ShortPayload
  BY DEF IsSizeEdit, ShortPayload
<1>. QED  BY <1>1, <1>2, KindStays DEF Continues

(***************************************************************************)
(* Sizes move only what follows.                                           *)
(***************************************************************************)
LEMMA MovesOnlyWhatFollows == EditorInv /\ FollowInv => SizesMoveOnlyWhatFollows
<1>. SUFFICES ASSUME EditorInv, FollowInv, EditedAndListed
     PROVE  IF IsSizeEdit
            THEN /\ \A i \in DOMAIN entries \cap DOMAIN listing.entries :
                      (edit.padded # Unchanged => i <= edit.entry + 1)
                        => entries[i] = listing.entries[i]
                 /\ (edit.size = Unchanged /\ NamesListedEntry)
                      => Len(entries) > edit.entry
            ELSE entries = listing.entries \/ (NamesListedEntry /\ ShortPayload)
  BY DEF SizesMoveOnlyWhatFollows
<1>1. Written /\ ParserBegun /\ pc = "done"
  BY HeldByTheEdit DEF EditedAndListed
<1>2. /\ DOMAIN Road = 1..(Len(listing.entries) + 1) /\ Len(listing.entries) \in Nat
      /\ DOMAIN listing.entries = 1..Len(listing.entries)
      /\ \A i \in DOMAIN listing.entries : i \in DOMAIN Road /\ Road[i] = listing.entries[i]
      /\ entries \in Seq(Nat) /\ Len(entries) \in Nat
  BY RoadIsOffsets DEF EditorInv, WalkInv, TypeOK
<1>3. CASE IsSizeEdit
  <2>1. ASSUME NEW i \in DOMAIN entries \cap DOMAIN listing.entries,
               edit.padded # Unchanged => i <= edit.entry + 1
        PROVE  entries[i] = listing.entries[i]
    <3>1. i \in Known
      BY <1>2, <2>1 DEF Known
    <3>. QED  BY <1>1, <1>2, <3>1 DEF FollowInv, Retraces, Written
  <2>2. ASSUME edit.size = Unchanged, NamesListedEntry, ~(Len(entries) > edit.entry)
        PROVE  FALSE
    <3>. DEFINE k == Len(entries) + 1
    <3>1. edit.entry \in Nat /\ edit.entry < Len(listing.entries)
      BY <1>2, <2>2 DEF NamesListedEntry
    <3>2. k \in DOMAIN listing.entries /\ k \in Known
      <4>1. k \in DOMAIN listing.entries /\ k <= edit.entry + 1
        BY <1>2, <2>2, <3>1
      <4>. QED  BY <1>2, <4>1 DEF Known
    <3>. HIDE DEF k
    <3>3. image.size = listing.image.size
      BY <1>1, <2>2 DEF FollowInv, BufferIsKnown, Alters, Written
    <3>4. Continues(image, Road[k])
      BY <1>1, <1>3, <3>2, <3>3, RoadHasKinds, StillContinues
    <3>. QED  BY <1>1, <3>2, <3>4, GoesOn DEF k
  <2>. QED  BY <1>3, <2>1, <2>2, <1>2
<1>4. ASSUME ~IsSizeEdit, ~(NamesListedEntry /\ ShortPayload)
      PROVE  entries = listing.entries
  <2>1. Known = DOMAIN Road
    BY <1>4 DEF Known
  <2>2. image.size = listing.image.size
    BY <1>1, <1>4 DEF FollowInv, BufferIsKnown, Alters, Written
  <2>3. \A k \in DOMAIN listing.entries : Continues(image, Road[k])
    BY <1>1, <1>4, <2>2, RoadHasKinds, StillContinues
  <2>. QED  BY <1>1, <1>4, <2>1, <2>3, StillStops, ListedAsBefore
<1>. QED  BY <1>3, <1>4

(***************************************************************************)
(* A size below half a word is the size the driver uses.                   *)
(***************************************************************************)
LEMMA SmallSize == ASSUME NEW n \in 1..(HalfWord - 1)  PROVE SignedWord(n) = n
<1>. USE HalfWordAssumption
<1>1. n \in Nat /\ n < HalfWord /\ n < 2 * HalfWord
  OBVIOUS
<1>2. n % (2 * HalfWord) = n
  BY <1>1
<1>. QED  BY <1>1, <1>2 DEF SignedWord

(***************************************************************************)
(* What an appended entry finds: the road of the listing, which the parser *)
(* comes along again, and the appended header where it ends.               *)
(***************************************************************************)
LEMMA AppendedFile ==
  ASSUME EditorInv, FollowInv, EditedAndListed, AppendsOneEntry, WellFormedBefore,
         image.size \in listing.image.size..(HalfWord - 1)
  PROVE  /\ Written /\ ParserBegun /\ Known = DOMAIN Road
         /\ \A k \in DOMAIN listing.entries : Continues(image, Road[k])
         /\ listing.stop \in Nat /\ HasHeader(image, listing.stop)
         /\ image.header[listing.stop].kind \in Kinds
         /\ image.header[listing.stop].size >= Fixed
         /\ image.header[listing.stop].size <= image.len - listing.stop
         /\ listing.stop + StepAt(image, listing.stop) >= image.len
         /\ listing.stop - image.first = listing.image.size
         /\ SignedWord(image.size) = image.size
<1>. DEFINE d == listing.image
            h == edit.append.header[edit.append.first]
            n == SliceLength(edit.append)
<1>1. Written /\ ParserBegun /\ IsSizeEdit
  BY HeldByTheEdit DEF AppendsOneEntry
<1>2. /\ d.size \in 1..(HalfWord - 1) /\ listing.stop = d.len /\ d.len = d.first + d.size
      /\ h.kind \in Kinds /\ h.size <= n /\ edit.padded = Unchanged
  BY DEF WellFormedBefore, AppendsOneEntry
<1>3. /\ image.len = d.len + n /\ n \in Nat /\ n >= Fixed
      /\ h.size >= Fixed /\ n <= h.size + h.padded
      /\ image.header[d.len] = h
  BY <1>1 DEF FollowInv, BufferIsKnown, Alters, AppendIsSeen, Written
<1>4. /\ d.len \in Nat /\ d.first \in Nat /\ image.len \in Nat /\ Fixed \in Nat
      /\ image.first = d.first /\ d.size \in Nat /\ image.size \in Nat
  BY <1>1, WrittenIsAltered, FixedAssumption DEF EditorInv, EditTypeOK, IsFile, IsImage
<1>5. HasHeader(image, d.len)
  <2>1. d.len + Fixed <= image.len
    <3>. HIDE DEF n, d
    <3>. QED  BY <1>3, <1>4
  <2>. QED  BY <2>1 DEF HasHeader
<1>6. h \in Header
  BY <1>3, <1>4, <1>5, FileHeader DEF EditorInv, EditTypeOK, IsFile
<1>7. h.size \in Nat /\ h.padded \in Nat
  BY <1>6 DEF Header
<1>8. Known = DOMAIN Road
  BY <1>2 DEF Known
<1>9. SignedWord(d.size) = d.size /\ SignedWord(image.size) = image.size
  <2>1. image.size \in 1..(HalfWord - 1)
    BY <1>2, <1>4, HalfWordAssumption
  <2>. QED  BY <1>2, <2>1, SmallSize
<1>10. ASSUME NEW k \in DOMAIN listing.entries
       PROVE  Continues(image, Road[k])
  <2>1. /\ Continues(d, Road[k]) /\ Road[k] \in Nat
        /\ image.header[Road[k]].kind = d.header[Road[k]].kind
    BY <1>1, RoadHasKinds, RoadIsOffsets DEF EditorInv
  <2>2. HasHeader(d, Road[k])
    BY <2>1 DEF Continues
  <2>3. /\ HasHeader(image, Road[k]) /\ image.len >= d.len
        /\ image.header[Road[k]].size = d.header[Road[k]].size
    BY <1>1, <2>1, <2>2, WrittenIsAltered
  <2>4. d.header[Road[k]].size \in Nat
    BY <2>1, <2>2, FileHeader DEF EditorInv, EditTypeOK, IsFile
  <2>5. Road[k] - image.first < SignedWord(image.size)
    BY <1>4, <1>9, <2>1 DEF Continues
  <2>. QED  BY <1>4, <2>1, <2>3, <2>4, <2>5 DEF Continues
<1>11. d.len + StepAt(image, d.len) >= image.len
  <2>1. StepAt(image, d.len) = h.size + h.padded
    BY <1>3 DEF StepAt
  <2>. HIDE DEF n, h, d
  <2>. QED  BY <1>3, <1>4, <1>7, <2>1
<1>12. h.size <= image.len - d.len
  <2>. HIDE DEF n, h, d
  <2>. QED  BY <1>2, <1>3, <1>4, <1>7
<1>13. listing.stop - image.first = d.size
  BY <1>2, <1>4
<1>. HIDE DEF d, h, n
<1>14. /\ listing.stop = d.len /\ image.header[d.len] = h /\ h.kind \in Kinds /\ h.size >= Fixed
       /\ listing.stop \in Nat
  BY <1>2, <1>3, <1>4
<1>15. \A k \in DOMAIN listing.entries : Continues(image, Road[k])
  BY <1>10
<1>. QED  BY <1>1, <1>5, <1>8, <1>9, <1>11, <1>12, <1>13, <1>14, <1>15 DEF d

(***************************************************************************)
(* Left outside, the appended entry changes nothing of the listing but a   *)
(* note.                                                                   *)
(***************************************************************************)
LEMMA AppendedOutside ==
  ASSUME EditorInv, FollowInv, EditedAndListed, AppendsOneEntry, WellFormedBefore,
         image.size = listing.image.size
  PROVE  entries = listing.entries /\ "further entry outside" \in notes
<1>1. image.size \in listing.image.size..(HalfWord - 1)
  BY HalfWordAssumption DEF WellFormedBefore
<1>2. /\ Known = DOMAIN Road
      /\ \A k \in DOMAIN listing.entries : Continues(image, Road[k])
      /\ HasHeader(image, listing.stop)
      /\ image.header[listing.stop].kind \in Kinds
      /\ image.header[listing.stop].size >= Fixed
      /\ listing.stop - image.first = listing.image.size
      /\ SignedWord(image.size) = image.size
  BY <1>1, AppendedFile
<1>3. image.size \in Nat
  BY DEF EditorInv, EditTypeOK, IsFile, IsImage
<1>4. ~(listing.stop - image.first < SignedWord(image.size))
  BY <1>2, <1>3
<1>5. entries = listing.entries /\ pos = listing.stop
  BY <1>2, <1>4, ListedAsBefore DEF Continues
<1>6. pc = "done" /\ Readable(pos) /\ IsEntryKind(pos)
  BY <1>2, <1>5 DEF EditedAndListed, Readable, HasHeader, IsEntryKind, HeaderAt
<1>7. ~ShortHeader(pos)
  <2>1. image.header[listing.stop].size \in Nat /\ Fixed \in Nat
    <3>1. IsFile(image) /\ listing.stop \in Nat
      BY DEF EditorInv, EditTypeOK
    <3>. QED  BY <1>2, <3>1, FileHeader, FixedAssumption DEF IsFile
  <2>. QED  BY <1>2, <1>5, <2>1 DEF ShortHeader, HeaderAt
<1>. QED  BY <1>5, <1>6, <1>7 DEF FollowInv, ParserTells

(***************************************************************************)
(* Sequences of the same elements are the same.                            *)
(***************************************************************************)
LEMMA SameSequence ==
  ASSUME NEW s \in Seq(Nat), NEW t \in Seq(Nat), Len(s) = Len(t),
         \A i \in 1..Len(t) : s[i] = t[i]
  PROVE  s = t
OBVIOUS

(***************************************************************************)
(* Taken in, it is the last entry that is listed and the last header that  *)
(* the driver reads.                                                       *)
(***************************************************************************)
LEMMA AppendedInside ==
  ASSUME EditorInv, FollowInv, EditedAndListed, AppendsOneEntry, WellFormedBefore,
         image.size \in (listing.image.size + 1)..(HalfWord - 1)
  PROVE  LET grown == listing.entries \o <<listing.image.len>>
         IN  entries = grown /\ (dpc \notin {"enter", "walk"} => visited = grown)
<1>. DEFINE m == Len(listing.entries)
            grown == listing.entries \o <<listing.image.len>>
<1>0. listing.image.size \in Nat /\ image.size \in Nat /\ image.len \in Nat /\ IsImage(image)
      /\ Fixed \in Nat \ {0}
  BY FixedAssumption DEF EditorInv, EditTypeOK, IsFile, IsImage
<1>1. image.size \in listing.image.size..(HalfWord - 1)
  BY <1>0, HalfWordAssumption
<1>2. /\ Written /\ ParserBegun /\ Known = DOMAIN Road
      /\ \A k \in DOMAIN listing.entries : Continues(image, Road[k])
      /\ listing.stop \in Nat /\ HasHeader(image, listing.stop)
      /\ image.header[listing.stop].kind \in Kinds
      /\ image.header[listing.stop].size >= Fixed
      /\ image.header[listing.stop].size <= image.len - listing.stop
      /\ listing.stop + StepAt(image, listing.stop) >= image.len
      /\ listing.stop - image.first = listing.image.size
      /\ SignedWord(image.size) = image.size
  BY <1>1, AppendedFile
<1>3. Continues(image, listing.stop)
  <2>1. listing.stop - image.first < SignedWord(image.size)
    BY <1>0, <1>2
  <2>. QED  BY <1>2, <2>1 DEF Continues
<1>4. /\ DOMAIN Road = 1..(m + 1) /\ m \in Nat
      /\ DOMAIN listing.entries = 1..m
      /\ \A i \in DOMAIN listing.entries : Road[i] = listing.entries[i]
      /\ Road[m + 1] = listing.stop
      /\ listing.entries \in Seq(Nat) /\ entries \in Seq(Nat) /\ visited \in Seq(Nat)
      /\ Len(entries) \in Nat /\ DOMAIN entries = 1..Len(entries)
      /\ listing.stop = listing.image.len
  BY RoadIsOffsets DEF EditorInv, EditTypeOK, WalkInv, TypeOK, WellFormedBefore
<1>5. /\ \A i \in DOMAIN Road : i \in DOMAIN entries => entries[i] = Road[i]
      /\ Chained(entries, pos)
  BY <1>2 DEF FollowInv, Retraces, Written, EditorInv, WalkInv, SameRoad
<1>6. \A k \in DOMAIN Road : Continues(image, Road[k])
  <2>. SUFFICES ASSUME NEW k \in DOMAIN Road  PROVE Continues(image, Road[k])
    OBVIOUS
  <2>1. k \in DOMAIN listing.entries \/ k = m + 1
    BY <1>4
  <2>. QED  BY <1>2, <1>3, <1>4, <2>1
<1>7. ~(Len(entries) <= m)
  <2>. SUFFICES ASSUME Len(entries) <= m  PROVE FALSE
    OBVIOUS
  <2>1. Len(entries) + 1 \in Known
    BY <1>2, <1>4
  <2>. QED  BY <1>2, <1>6, <2>1, GoesOn DEF EditedAndListed
<1>8. entries[m + 1] = listing.stop /\ m + 1 \in DOMAIN entries
  <2>. DEFINE n == Len(entries)
  <2>1. m \in Nat /\ n \in Nat /\ DOMAIN entries = 1..n /\ DOMAIN Road = 1..(m + 1) /\ ~(n <= m)
    BY <1>4, <1>7
  <2>. HIDE DEF m, n
  <2>2. m + 1 \in DOMAIN entries /\ m + 1 \in DOMAIN Road
    BY <2>1
  <2>3. Road[m + 1] = listing.stop
    BY <1>4
  <2>. QED  BY <1>5, <2>2, <2>3
<1>9. ~Readable(listing.stop + Stride(listing.stop))
  <2>1. Stride(listing.stop) = StepAt(image, listing.stop)
    BY DEF Stride, HeaderAt, StepAt
  <2>2. Stride(listing.stop) \in Nat
    BY <1>0, <1>2, ReadableHeader DEF HasHeader, Readable
  <2>. QED  BY <1>0, <1>2, <2>1, <2>2 DEF Readable
<1>10. ~(Len(entries) > m + 1)
  <2>. SUFFICES ASSUME Len(entries) > m + 1  PROVE FALSE
    OBVIOUS
  <2>1. (m + 1) + 1 \in DOMAIN entries
    BY <1>4
  <2>2. entries[(m + 1) + 1] = entries[m + 1] + Stride(entries[m + 1])
        /\ Readable(entries[(m + 1) + 1])
    BY <1>5, <1>8, <2>1 DEF Chained
  <2>. QED  BY <1>8, <1>9, <2>2
<1>11. Len(entries) = m + 1
  <2>. DEFINE n == Len(entries)
  <2>1. m \in Nat /\ n \in Nat /\ ~(n <= m) /\ ~(n > m + 1)
    BY <1>4, <1>7, <1>10
  <2>. HIDE DEF m, n
  <2>2. n = m + 1
    BY <2>1
  <2>. QED  BY <2>2 DEF n
<1>12. /\ grown \in Seq(Nat) /\ Len(grown) = m + 1
       /\ \A i \in 1..m : grown[i] = listing.entries[i]
       /\ grown[m + 1] = listing.stop
  BY <1>2, <1>4
<1>13. \A i \in 1..(m + 1) : entries[i] = grown[i]
  <2>. SUFFICES ASSUME NEW i \in 1..(m + 1)  PROVE entries[i] = grown[i]
    OBVIOUS
  <2>1. entries[i] = Road[i]
    BY <1>4, <1>5, <1>11
  <2>2. CASE i = m + 1
    BY <1>8, <1>12, <2>2
  <2>3. CASE i # m + 1
    <3>1. i \in 1..m
      BY <1>4, <2>3
    <3>. QED  BY <1>4, <1>12, <2>1, <3>1
  <2>. QED  BY <2>2, <2>3
<1>. HIDE DEF grown, m
<1>14. entries = grown
  BY <1>4, <1>11, <1>12, <1>13
<1>15. pos = listing.stop + Stride(listing.stop)
  <2>1. entries # <<>>
    BY <1>4, <1>8
  <2>. QED  BY <1>5, <1>8, <1>11, <2>1 DEF Chained
<1>16. ASSUME dpc \notin {"enter", "walk"}
       PROVE  visited = grown
  <2>1. DriverBegun /\ BothWalked
    BY <1>16 DEF DriverBegun, BothWalked, EditedAndListed
  <2>2. /\ Len(entries) <= Len(visited)
        /\ \A i \in DOMAIN entries \cap DOMAIN visited : entries[i] = visited[i]
    BY <2>1, RoadAgrees DEF ReportsWhatTheDriverReads, EditorInv
  <2>3. /\ Len(entries) < Len(visited) => pos = visited[Len(entries) + 1]
        /\ \A i \in DOMAIN visited : Readable(visited[i])
    BY <1>2, <2>1 DEF EditorInv, WalkInv, SameRoad, Meet, Chained
  <2>4. Len(visited) \in Nat /\ DOMAIN visited = 1..Len(visited)
    BY <1>4
  <2>5. ~(Len(entries) < Len(visited))
    <3>. SUFFICES ASSUME Len(entries) < Len(visited)  PROVE FALSE
      OBVIOUS
    <3>1. Len(entries) + 1 \in DOMAIN visited
      BY <1>4, <2>4
    <3>. QED  BY <1>9, <1>15, <2>3, <3>1
  <2>6. Len(visited) = Len(entries)
    <3>. DEFINE n == Len(entries)
                v == Len(visited)
    <3>1. n \in Nat /\ v \in Nat /\ n <= v /\ ~(n < v)
      BY <1>4, <2>2, <2>4, <2>5
    <3>. HIDE DEF n, v
    <3>2. v = n
      BY <3>1
    <3>. QED  BY <3>2 DEF n, v
  <2>7. visited = entries
    <3>1. DOMAIN visited = DOMAIN entries
      BY <1>4, <2>4, <2>6
    <3>2. \A i \in 1..Len(entries) : visited[i] = entries[i]
      BY <1>4, <2>2, <3>1
    <3>3. entries \in Seq(Nat) /\ visited \in Seq(Nat)
      BY <1>4
    <3>. QED  BY <2>6, <3>2, <3>3, SameSequence
  <2>. QED  BY <1>14, <2>7
<1>. QED  BY <1>14, <1>16 DEF grown

(***************************************************************************)
(* Whatever the command line, an editor holds and writes a container.      *)
(***************************************************************************)
THEOREM EditorsWriteContainers == EditSpec => []EditTypeOK
<1>1. EditorInv => EditTypeOK
  BY DEF EditorInv
<1>. QED  BY <1>1, EditInitIsInv, StepKeepsEditorInv, PTL DEF EditSpec

(***************************************************************************)
(* For every file and command line, the entry an editor changes is the one *)
(* that has the given index in the listing of the file.                    *)
(***************************************************************************)
THEOREM EditorsEditTheListedEntry == EditSpec => []EditsTheListedEntry
<1>1. EditorInv => EditsTheListedEntry
  BY DEF EditorInv, WalkFollowsListing, EditsTheListedEntry
<1>. QED  BY <1>1, EditInitIsInv, StepKeepsEditorInv, PTL DEF EditSpec

(***************************************************************************)
(* What the parser reports of an edited file is what the driver reads of   *)
(* it, as of any other.                                                    *)
(***************************************************************************)
THEOREM EditedFilesAreReported ==
  EditSpec => [](/\ ReportsWhatTheDriverReads
                 /\ LossIsNotedUnlessHeaderShort
                 /\ FurtherEntryIsDead
                 /\ OnlyTheLastEntryExtends)
<1>1. EditorInv => /\ ReportsWhatTheDriverReads /\ LossIsNotedUnlessHeaderShort
                   /\ FurtherEntryIsDead /\ OnlyTheLastEntryExtends
  BY RoadAgrees, LossHasAReason, FurtherEntryIsOutside, KeptExtends DEF EditorInv
<1>. QED  BY <1>1, EditInitIsInv, StepKeepsEditorInv, PTL DEF EditSpec

(***************************************************************************)
(* Of every file and edit.                                                 *)
(***************************************************************************)
LEMMA EveryEditFollows == EditSpec => [](EditorInv /\ FollowInv)
<1>1. EditInit => EditorInv /\ FollowInv
  BY EditInitIsInv, InitFollows
<1>2. EditorInv /\ FollowInv /\ [EditNext]_allVars => (EditorInv /\ FollowInv)'
  BY StepKeepsEditorInv, StepFollows
<1>. QED  BY <1>1, <1>2, PTL DEF EditSpec

(***************************************************************************)
(* For every file and command line, an editor that finds no entry under an *)
(* index the listing has met the one header that crosses the declared end; *)
(* one that edits an entry the listing does not have, reads past the       *)
(* buffer for it or counts for ever was warned by the listing.             *)
(***************************************************************************)
THEOREM EditorsReachWhatIsSaid == EditSpec => []ReachOfTheEditors
<1>1. FollowInv => ReachOfTheEditors
  BY DEF FollowInv
<1>. QED  BY <1>1, EveryEditFollows, PTL

(***************************************************************************)
(* For every file, a size edit leaves every entry up to the edited one     *)
(* where the listing had it, and any other edit leaves the whole list.     *)
(***************************************************************************)
THEOREM EditsMoveOnlyWhatFollows == EditSpec => []SizesMoveOnlyWhatFollows
BY MovesOnlyWhatFollows, EveryEditFollows, PTL

(***************************************************************************)
(* For every well-formed file and every source, an appended entry is       *)
(* outside until the size grows by anything at all, and then both the      *)
(* listing and the driver have it.                                         *)
(***************************************************************************)
THEOREM OneUnitTakesTheEntryIn == EditSpec => []AppendedEntryCountsByOneUnit
<1>1. EditorInv /\ FollowInv => AppendedEntryCountsByOneUnit
  <2>1. image.size = listing.image.size /\ EditedAndListed /\ AppendsOneEntry
          /\ WellFormedBefore /\ EditorInv /\ FollowInv
          => entries = listing.entries /\ "further entry outside" \in notes
    BY AppendedOutside
  <2>. QED  BY <2>1, AppendedInside DEF AppendedEntryCountsByOneUnit
<1>. QED  BY <1>1, EveryEditFollows, PTL

------------------------------------------------------------------------------
(***************************************************************************)
(* How much of a call is ahead: the stages of the editor, within a listing *)
(* those of the parser, and within a walk the bytes it has not passed or   *)
(* the entries it has still to count.                                      *)
(***************************************************************************)
StageRank == [list |-> 5, append |-> 4, walk |-> 3, spinning |-> 3, resize |-> 2,
              write |-> 1, edited |-> 0, failed |-> 0]

ParserRank == [open |-> 3, walk |-> 2, tail |-> 1, done |-> 0, error |-> 0]

StagesLeft == 4 * StageRank[stage] + ParserRank[pc]

BytesAhead(p, len) == IF p < len THEN len - p ELSE 0

StepsLeft ==
  IF stage \notin {"walk", "spinning"} THEN BytesAhead(pos, image.len)
  ELSE IF edit.entry >= 0 THEN edit.entry - eidx
  ELSE BytesAhead(epos, buf.len)

Measured == StagesLeft \in Nat /\ StepsLeft \in Nat

NearerTheEnd ==
  \/ StagesLeft' < StagesLeft
  \/ StagesLeft' = StagesLeft /\ StepsLeft' < StepsLeft

NoFurther == StagesLeft' = StagesLeft /\ StepsLeft' = StepsLeft

(***************************************************************************)
(* An editor never counts past the entry it looks for.                     *)
(***************************************************************************)
CountsUp == stage \in {"walk", "spinning"} /\ edit.entry >= 0 => eidx <= edit.entry

LEMMA StepCountsUp == EditTypeOK /\ StageOK /\ CountsUp /\ [EditNext]_allVars => CountsUp'
<1>. SUFFICES ASSUME EditTypeOK, StageOK, CountsUp, [EditNext]_allVars,
                     stage' \in {"walk", "spinning"}, edit'.entry >= 0
              PROVE  (eidx <= edit.entry)'
  BY DEF CountsUp
<1>1. CASE stage \notin {"walk", "spinning"}
  <2>1. eidx' = 0 /\ edit' = edit
    BY <1>1 DEF BeginWalk, AfterAppending, EditNext, Lists, Loads, Editor, RefuseFile, OpenFile, AppendBytes,
       RefuseSource, PassHeader, CountForEver, ReadPastBuffer, FindNoEntry, AtEntry, SetFlags,
       SetArch, SetPadded, SetFatbinSize, WriteFile, Fail, Patched, Overrun, Listed, editVars,
       allVars
  <2>. QED  BY <2>1
<1>2. CASE stage \in {"walk", "spinning"}
  <2>1. edit' = edit /\ (eidx' = eidx \/ (eidx # edit.entry /\ eidx' = eidx + 1))
    BY <1>2 DEF EditNext, Lists, Loads, Editor, RefuseFile, OpenFile, AppendBytes,
       RefuseSource, PassHeader, CountForEver, ReadPastBuffer, FindNoEntry, AtEntry, SetFlags,
       SetArch, SetPadded, SetFatbinSize, WriteFile, Fail, Patched, Overrun, Listed, editVars,
       allVars
  <2>2. edit \in Edits /\ eidx \in Nat
    BY <1>2 DEF EditTypeOK, StageOK
  <2>3. edit.entry \in Int /\ edit.entry >= 0 /\ eidx <= edit.entry
    BY <1>2, <2>1, <2>2, CommandLine DEF CountsUp
  <2>. QED  BY <2>1, <2>2, <2>3
<1>. QED  BY <1>1, <1>2

LEMMA CallIsMeasured == EditTypeOK /\ StageOK /\ CountsUp => Measured
<1>. SUFFICES ASSUME EditTypeOK, StageOK, CountsUp  PROVE Measured
  OBVIOUS
<1>1. stage \in DOMAIN StageRank /\ pc \in DOMAIN ParserRank
  BY DEF EditTypeOK, TypeOK, StageRank, ParserRank
<1>2. StageRank[stage] \in Nat /\ ParserRank[pc] \in Nat
  BY <1>1 DEF StageRank, ParserRank
<1>3. StagesLeft \in Nat
  BY <1>2 DEF StagesLeft
<1>4. ASSUME NEW p \in Nat, NEW len \in Nat  PROVE BytesAhead(p, len) \in Nat
  BY DEF BytesAhead
<1>5. CASE stage \in {"walk", "spinning"}
  <2>1. edit \in Edits /\ epos \in Nat /\ buf.len \in Nat /\ eidx \in Nat
    BY <1>5 DEF EditTypeOK, StageOK, IsFile, IsImage
  <2>2. edit.entry \in Int /\ (edit.entry >= 0 => eidx <= edit.entry)
    BY <1>5, <2>1, CommandLine DEF CountsUp
  <2>3. edit.entry >= 0 => edit.entry - eidx \in Nat
    BY <2>1, <2>2
  <2>. QED  BY <1>3, <1>4, <1>5, <2>1, <2>3 DEF Measured, StepsLeft
<1>6. CASE stage \notin {"walk", "spinning"}
  <2>1. pos \in Nat /\ image.len \in Nat
    BY DEF EditTypeOK, TypeOK, IsImage
  <2>. QED  BY <1>3, <1>4, <1>6, <2>1 DEF Measured, StepsLeft
<1>. QED  BY <1>5, <1>6

(***************************************************************************)
(* The next stage, wherever the parser then stands.                        *)
(***************************************************************************)
LEMMA StageEnds ==
  ASSUME EditTypeOK, EditTypeOK',
         StageRank[stage'] < StageRank[stage]
  PROVE  NearerTheEnd
<1>1. ParserRank[pc] \in 0..3 /\ ParserRank[pc'] \in 0..3
  BY DEF EditTypeOK, TypeOK, ParserRank
<1>2. StageRank[stage] \in 0..5 /\ StageRank[stage'] \in 0..5
  BY DEF EditTypeOK, StageRank
<1>3. StagesLeft' = 4 * StageRank[stage'] + ParserRank[pc']
  BY DEF StagesLeft, StageRank, ParserRank
<1>4. StagesLeft' < StagesLeft
  <2> DEFINE a == StageRank[stage]
             b == StageRank[stage']
             c == ParserRank[pc]
             d == ParserRank[pc']
  <2>1. a \in 0..5 /\ b \in 0..5 /\ c \in 0..3 /\ d \in 0..3 /\ b < a
    BY <1>1, <1>2
  <2>2. StagesLeft = 4 * a + c /\ StagesLeft' = 4 * b + d
    BY <1>3 DEF StagesLeft
  <2> HIDE DEF a, b, c, d
  <2>. QED  BY <2>1, <2>2
<1>. QED  BY <1>4 DEF NearerTheEnd

LEMMA StageGoesDown ==
  ASSUME \/ stage = "list" /\ stage' \in {"append", "walk", "failed"}
         \/ stage = "append" /\ stage' \in {"walk", "resize", "failed"}
         \/ stage = "walk" /\ stage' \in {"resize", "write", "failed"}
         \/ stage = "resize" /\ stage' = "write"
         \/ stage = "write" /\ stage' = "edited"
  PROVE  StageRank[stage'] < StageRank[stage]
BY DEF StageRank

(***************************************************************************)
(* A step of the parser: another of its phases, or a header passed, which  *)
(* takes at least the fixed size because shorter ones end its walk.        *)
(***************************************************************************)
LEMMA ParserGoesDown ==
  ASSUME EditTypeOK, Lists
  PROVE  NearerTheEnd
<1>1. stage' = stage /\ stage \in {"list", "edited"} /\ StageRank' = StageRank
  BY DEF Lists, editVars, StageRank
<1>2. StageRank[stage] \in Nat
  BY <1>1 DEF StageRank
<1>3. ASSUME \/ pc = "open" /\ pc' \in {"walk", "error"}
             \/ pc = "walk" /\ pc' = "tail"
             \/ pc = "tail" /\ pc' = "done"
      PROVE  NearerTheEnd
  <2>1. ParserRank[pc'] < ParserRank[pc] /\ ParserRank[pc] \in Nat /\ ParserRank[pc'] \in Nat
    BY <1>3 DEF ParserRank
  <2>2. StagesLeft' = 4 * StageRank[stage] + ParserRank[pc']
    BY <1>1 DEF StagesLeft, ParserRank
  <2> DEFINE a == StageRank[stage]
             c == ParserRank[pc]
             d == ParserRank[pc']
  <2>3. StagesLeft = 4 * a + c /\ StagesLeft' = 4 * a + d /\ d < c
        /\ a \in Nat /\ c \in Nat /\ d \in Nat
    BY <1>2, <2>1, <2>2 DEF StagesLeft
  <2> HIDE DEF a, c, d
  <2>4. StagesLeft' < StagesLeft
    BY <2>3
  <2>. QED  BY <2>4 DEF NearerTheEnd
<1>4. CASE ReadEntry
  <2>1. /\ pc' = pc /\ image' = image /\ Readable(pos)
        /\ ~ShortHeader(pos) /\ pos' = pos + Stride(pos)
    BY <1>4 DEF ReadEntry
  <2>2. image.header[pos].size \in Nat /\ image.header[pos].padded \in Nat /\ image.len \in Nat /\ pos \in Nat
    BY <2>1, FileHeader DEF Readable, HasHeader, EditTypeOK, TypeOK, IsImage
  <2>3. pos < image.len /\ pos' \in Nat /\ pos' > pos
    BY <2>1, <2>2, FixedAssumption DEF Readable, ShortHeader, Stride, HeaderAt
  <2>4. StepsLeft = image.len - pos
    BY <1>1, <2>3 DEF StepsLeft, BytesAhead
  <2>5. StepsLeft' = IF pos' < image.len THEN image.len - pos' ELSE 0
    BY <1>1, <2>1 DEF StepsLeft, BytesAhead
  <2>6. StepsLeft' < StepsLeft
    BY <2>2, <2>3, <2>4, <2>5
  <2>7. StagesLeft' = StagesLeft
    BY <1>1, <2>1 DEF StagesLeft, StageRank, ParserRank
  <2>. QED  BY <2>6, <2>7 DEF NearerTheEnd
<1>. QED
  BY <1>3, <1>4 DEF Lists, Parser, OpenContainer, RaiseError, LeaveContainer,
     HeaderPastBuffer, StopAtShortHeader, StopAtBadHeader, LookPastTheEnd, Break

(***************************************************************************)
(* A header passed: counted on the way to the index, also where a stride   *)
(* of zero keeps the walk at one offset, or behind the walk to an end that *)
(* no index stops before.                                                  *)
(***************************************************************************)
LEMMA PassGoesDown ==
  ASSUME EditTypeOK, StageOK, CountsUp, PassHeader
  PROVE  NearerTheEnd
<1>1. /\ stage = "walk" /\ stage' = "walk" /\ pc' = pc /\ edit' = edit /\ buf' = buf
      /\ eidx # edit.entry /\ eidx' = eidx + 1 /\ epos < buf.len
  BY DEF PassHeader, vars, parserVars
<1>2. edit.entry \in Int /\ eidx \in Nat /\ epos \in Nat /\ buf.len \in Nat /\ IsFile(buf)
  BY <1>1, CommandLine DEF EditTypeOK, StageOK, IsFile, IsImage
<1>3. PICK h \in ReadAt(epos) : /\ edit.entry >= 0 \/ h.size + h.padded > 0
                                /\ epos' = epos + h.size + h.padded
  BY DEF PassHeader, CanCome
<1>4. StepsLeft' < StepsLeft
  <2>1. CASE edit.entry >= 0
    <3>1. StepsLeft = edit.entry - eidx /\ StepsLeft' = edit.entry - (eidx + 1)
      BY <1>1, <2>1 DEF StepsLeft
    <3>. QED  BY <1>2, <3>1
  <2>2. CASE ~(edit.entry >= 0)
    <3>1. h \in Header
      BY <1>2, FileHeader, UnknownAssumption DEF ReadAt, IsFile
    <3>2. epos' \in Nat /\ epos' > epos
      BY <1>2, <1>3, <2>2, <3>1 DEF Header
    <3>3. /\ StepsLeft = buf.len - epos
          /\ StepsLeft' = IF epos' < buf.len THEN buf.len - epos' ELSE 0
      BY <1>1, <2>2 DEF StepsLeft, BytesAhead
    <3>. QED  BY <1>1, <1>2, <3>2, <3>3
  <2>. QED  BY <2>1, <2>2
<1>5. StagesLeft' = StagesLeft
  BY <1>1 DEF StagesLeft, StageRank, ParserRank
<1>. QED  BY <1>4, <1>5 DEF NearerTheEnd

LEMMA EditorGoesDown ==
  ASSUME EditTypeOK, EditTypeOK', StageOK, CountsUp, Editor, ~CountForEver
  PROVE  NearerTheEnd
<1>1. CASE PassHeader
  BY <1>1, PassGoesDown
<1>2. CASE ~PassHeader
  <2>1. \/ stage = "list" /\ stage' \in {"append", "walk", "failed"}
        \/ stage = "append" /\ stage' \in {"walk", "resize", "failed"}
        \/ stage = "walk" /\ stage' \in {"resize", "write", "failed"}
        \/ stage = "resize" /\ stage' = "write"
        \/ stage = "write" /\ stage' = "edited"
    BY <1>2 DEF Editor, RefuseFile, OpenFile, AppendBytes, RefuseSource, ReadPastBuffer,
       FindNoEntry, SetFlags, SetArch, SetPadded, SetFatbinSize, WriteFile, Listed, Fail,
       BeginWalk, AfterAppending, AtEntry, Patched, Overrun
  <2>. QED  BY <2>1, StageGoesDown, StageEnds
<1>. QED  BY <1>1, <1>2

(***************************************************************************)
(* The steps that bring nothing nearer: the driver's, and the one into a   *)
(* count without end.                                                      *)
(***************************************************************************)
LEMMA NothingNearer == Loads \/ CountForEver => NoFurther
<1>1. ASSUME Loads  PROVE NoFurther
  BY <1>1 DEF Loads, Driver, DriverEnter, DriverVisit, DriverSpins, DriverLeavesBuffer,
     NoFurther, StagesLeft, StepsLeft, StageRank, ParserRank, BytesAhead, editVars, parserVars
<1>2. ASSUME CountForEver  PROVE NoFurther
  <2>1. /\ stage = "walk" /\ stage' = "spinning"
        /\ UNCHANGED <<pc, pos, image, edit, buf, eidx, epos>>
    BY <1>2 DEF CountForEver, vars, parserVars
  <2>2. StagesLeft' = StagesLeft
    BY <2>1 DEF StagesLeft, StageRank, ParserRank
  <2>3. StepsLeft' = StepsLeft
    BY <2>1 DEF StepsLeft, BytesAhead
  <2>. QED  BY <2>2, <2>3 DEF NoFurther
<1>. QED  BY <1>1, <1>2

(***************************************************************************)
(* An editor counts for ever only for a negative index, at a stride of     *)
(* zero, and not patch_size.py, which stops at a header that short.        *)
(***************************************************************************)
SpinsAtZeroStride == stage = "spinning" => NeverReturns

LEMMA CountNeverReturns ==
  ASSUME EditTypeOK, StageOK, CountForEver
  PROVE  NeverReturns'
<1>1. /\ stage = "walk" /\ UNCHANGED <<edit, buf, epos>> /\ InReach(epos) /\ epos < buf.len
      /\ edit # NoEdit
  BY DEF CountForEver, StageOK
<1>2. PICK h \in ReadAt(epos) : ~(edit.entry >= 0) /\ ~(h.size + h.padded > 0)
  BY DEF CountForEver, CanCome
<1>3. /\ edit.entry \in Int /\ epos \in Nat /\ IsFile(buf) /\ IsImage(buf)
      /\ buf.len \in Nat /\ buf.first \in Nat /\ buf.size \in Nat /\ Fixed \in Nat \ {0}
  BY <1>1, CommandLine, FixedAssumption DEF EditTypeOK, IsFile, IsImage
<1>4. h \in Header
  BY <1>3, FileHeader, UnknownAssumption DEF ReadAt
<1>5. h.size = 0 /\ h.padded = 0 /\ edit.entry < 0
  BY <1>2, <1>3, <1>4 DEF Header
<1>6. ~IsSizeEdit
  <2>. SUFFICES ASSUME IsSizeEdit  PROVE FALSE
    OBVIOUS
  <2>1. epos + Fixed <= EntriesBound(buf) /\ buf.header[epos].size >= Fixed
    BY <1>1 DEF InReach, Yields
  <2>2. HasHeader(buf, epos)
    BY <1>3, <2>1 DEF EntriesBound, HasHeader
  <2>3. h = buf.header[epos]
    BY <2>2 DEF ReadAt
  <2>. QED  BY <1>3, <1>5, <2>1, <2>3
<1>7. NeverReturns
  BY <1>1, <1>5, <1>6 DEF NeverReturns
<1>. QED
  BY <1>1, <1>7 DEF NeverReturns, IsSizeEdit, InReach, Yields, EntriesBound, ReadAt, HasHeader

LEMMA StepSpinsAtZeroStride ==
  EditTypeOK /\ StageOK /\ SpinsAtZeroStride /\ [EditNext]_allVars => SpinsAtZeroStride'
<1>. SUFFICES ASSUME EditTypeOK, StageOK, SpinsAtZeroStride, [EditNext]_allVars,
                     stage' = "spinning"
              PROVE  NeverReturns'
  BY DEF SpinsAtZeroStride
<1>1. CASE CountForEver
  BY <1>1, CountNeverReturns
<1>2. CASE ~CountForEver
  <2>1. UNCHANGED <<stage, edit, buf, epos>>
    BY <1>2 DEF EditNext, Lists, Loads, Editor, RefuseFile, OpenFile, AppendBytes,
       RefuseSource, PassHeader, ReadPastBuffer, FindNoEntry, AtEntry, SetFlags, SetArch,
       SetPadded, SetFatbinSize, WriteFile, Fail, BeginWalk, AfterAppending, Patched,
       Overrun, Listed, editVars, allVars
  <2>. QED
    BY <2>1 DEF SpinsAtZeroStride, NeverReturns, IsSizeEdit, InReach, Yields, EntriesBound,
       ReadAt, HasHeader
<1>. QED  BY <1>1, <1>2

(***************************************************************************)
(* Calls run out, on every file and command line, but for one: each step   *)
(* of a listing or an edit brings it nearer to its end, also where a       *)
(* stride of zero keeps the editor's walk at one header, and the driver's  *)
(* steps take nothing back.  The step that brings it no nearer is the one  *)
(* into a count without end, and an editor counts so only for a negative   *)
(* index at a stride of zero, in patch_entry.py and patch_arch.py.         *)
(***************************************************************************)
THEOREM CallsRunOut ==
  EditSpec => /\ []Measured
              /\ []SpinsAtZeroStride
              /\ [][/\ ~Loads /\ ~CountForEver => NearerTheEnd
                    /\ Loads \/ CountForEver => NoFurther]_allVars
<1> DEFINE Inv == EditTypeOK /\ StageOK /\ CountsUp
<1>1. EditInit => CountsUp /\ SpinsAtZeroStride
  BY DEF EditInit, CountsUp, SpinsAtZeroStride
<1>2. EditorInv => EditTypeOK /\ StageOK
  BY DEF EditorInv
<1>3. Inv /\ EditTypeOK' /\ [EditNext]_allVars
        => [/\ ~Loads /\ ~CountForEver => NearerTheEnd
            /\ Loads \/ CountForEver => NoFurther]_allVars
  BY ParserGoesDown, EditorGoesDown, NothingNearer DEF EditNext
<1>4. EditorInv /\ CountsUp /\ [EditNext]_allVars => CountsUp'
  BY <1>2, StepCountsUp
<1>5. EditorInv /\ SpinsAtZeroStride /\ [EditNext]_allVars => SpinsAtZeroStride'
  BY <1>2, StepSpinsAtZeroStride
<1>6. EditSpec => []EditorInv
  BY EditInitIsInv, StepKeepsEditorInv, PTL DEF EditSpec
<1>7. EditSpec => []CountsUp /\ []SpinsAtZeroStride
  BY <1>1, <1>4, <1>5, <1>6, PTL DEF EditSpec
<1>8. EditorInv /\ CountsUp => Inv /\ Measured
  BY <1>2, CallIsMeasured
<1>9. EditorInv => EditTypeOK
  BY <1>2
<1>. QED
  <2> HIDE DEF Inv
  <2>. QED  BY <1>3, <1>6, <1>7, <1>8, <1>9, PTL DEF EditSpec
==============================================================================
