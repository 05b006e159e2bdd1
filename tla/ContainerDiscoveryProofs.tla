----------------------- MODULE ContainerDiscoveryProofs -----------------------
(***************************************************************************)
(* find_containers hands over exactly the containers a file registers or   *)
(* chains, and no caller that returns loses one, for every set of files.   *)
(*                                                                         *)
(* The argument: while the generator runs, what it has handed over is what *)
(* the wrapper records before `next` point at, and the links of a piece of *)
(* the chain whose every stride stays in the piece or leads to where the   *)
(* walk stands (Explored).  A walk that ends has therefore handed over a   *)
(* set closed under strides, and the chain is the least of those.  Inside  *)
(* the chain offsets only grow, so nothing but two wrapper records can     *)
(* hand the same offset over twice.                                        *)
(***************************************************************************)
EXTENDS ContainerDiscovery, FiniteSetTheorems, TLAPS

Offsets == Registered \cup Nat

TypeInv ==
  /\ file \in Files /\ caller \in Callers
  /\ gpc \in {"open", "wrappers", "chain", "exhausted"}
  /\ next \in Nat \ {0} /\ pos \in Nat
  /\ item \in Offsets \cup {NoOffset}
  /\ handed \in Seq(Offsets) /\ out \in Seq(Offsets) /\ skipped \in Seq(Offsets)

(***************************************************************************)
(* What the wrapper records before the next one have led to.               *)
(***************************************************************************)
Points(n, v) == /\ Resolved(file.wrappers[n])
                /\ VaToOff(file, file.wrappers[n].data) = v

RegisteredBefore(k) ==
  {v \in Registered : \E n \in DOMAIN file.wrappers : n < k /\ Points(n, v)}

WrapperInv ==
  /\ seen = RegisteredBefore(next)
  /\ seen \subseteq Elements(handed)
  /\ gpc = "open" => next = 1 /\ handed = <<>>
  /\ gpc = "wrappers" => file.shape = "ELF" /\ Elements(handed) \subseteq seen
  /\ gpc = "chain" => file.shape = "ELF" /\ file.fatbin.off # NoOffset
  /\ (gpc \in {"chain", "exhausted"} /\ file.shape = "ELF") => next \notin DOMAIN file.wrappers

(***************************************************************************)
(* Every stride out of the links S stays in S or leads to p.               *)
(***************************************************************************)
Explored(S, p) ==
  /\ S \subseteq Links
  /\ file.fatbin.off \in Links => file.fatbin.off \in S \cup {p}
  /\ \A q \in S : q + ChainStride(q) \in Links => q + ChainStride(q) \in S \cup {p}

ChainInv ==
  /\ file.shape = "ELF" => Elements(handed) \subseteq seen \cup Chained
  /\ gpc = "chain" =>
       /\ pos \in Links => pos \in Chained
       /\ \A h \in Elements(handed) : h \in seen \/ (h \in Nat /\ h < pos)
       /\ \E S \in SUBSET Elements(handed) : Explored(S, pos)
  /\ (gpc = "exhausted" /\ file.shape = "ELF") => Chained \subseteq Elements(handed)

RepeatInv ==
  \A i, j \in DOMAIN handed :
    (i # j /\ handed[i] = handed[j]) =>
      \E m, n \in DOMAIN file.wrappers : /\ m # n /\ m < next /\ n < next
                                         /\ Points(m, handed[i])
                                         /\ Points(n, handed[i])

(***************************************************************************)
(* What the generator has handed over, the caller has dealt with, the one  *)
(* at hand excepted.                                                       *)
(***************************************************************************)
AtHand == IF item = NoOffset THEN {} ELSE {item}

ReportInv ==
  /\ Len(handed) = Len(out) + Len(skipped) + (IF item = NoOffset THEN 0 ELSE 1)
  /\ Elements(handed) = Elements(out) \cup Elements(skipped) \cup AtHand
  /\ caller = "describe" =>
       /\ skipped = <<>>
       /\ handed = IF item = NoOffset THEN out ELSE Append(out, item)
  /\ result = "returned" => gpc = "exhausted" /\ item = NoOffset

DiscoveryInv == /\ TypeInv /\ WrapperInv /\ ChainInv /\ RepeatInv /\ ReportInv
                /\ RejectedFilesHoldNothing

------------------------------------------------------------------------------
(***************************************************************************)
(* A file is what it is: what is derived from it does not change.          *)
(***************************************************************************)
LEMMA FileStays ==
  ASSUME file' = file
  PROVE  /\ Registered' = Registered
         /\ Offsets' = Offsets
         /\ \A n, v : Points(n, v)' <=> Points(n, v)
         /\ \A k : RegisteredBefore(k)' = RegisteredBefore(k)
<1>1. \A w : Resolved(w)' <=> Resolved(w)
  BY DEF Resolved
<1>2. Registered' = Registered
  BY <1>1 DEF Registered
<1>3. \A n, v : Points(n, v)' <=> Points(n, v)
  BY <1>1 DEF Points
<1>4. \A k : RegisteredBefore(k)' = RegisteredBefore(k)
  BY <1>2, <1>3 DEF RegisteredBefore
<1>. QED  BY <1>2, <1>3, <1>4 DEF Offsets

LEMMA ChainStays ==
  ASSUME file' = file
  PROVE  /\ Links' = Links
         /\ Chained' = Chained
         /\ \A S, p : Explored(S, p)' <=> Explored(S, p)
<1>1. \A p : /\ InSection(p)' <=> InSection(p)
             /\ HasMagic(p)' <=> HasMagic(p)
             /\ ChainStride(p)' = ChainStride(p)
  BY DEF InSection, HasMagic, ChainStride
<1>2. Links' = Links
  BY <1>1 DEF Links
<1>3. \A S : HoldsTheChain(S)' <=> HoldsTheChain(S)
  BY <1>1, <1>2 DEF HoldsTheChain
<1>4. Chained' = Chained
  BY <1>2, <1>3 DEF Chained
<1>5. \A S, p : Explored(S, p)' <=> Explored(S, p)
  BY <1>1, <1>2 DEF Explored
<1>. QED  BY <1>2, <1>4, <1>5

LEMMA NoneIsNoOffset == NoOffset \notin Offsets
BY FilesAssumption DEF Offsets, Registered, Resolved

(***************************************************************************)
(* Appending to what was handed over adds one offset and moves none.       *)
(***************************************************************************)
LEMMA AppendAdds ==
  ASSUME NEW T, NEW s \in Seq(T), NEW x \in T
  PROVE  /\ Append(s, x) \in Seq(T)
         /\ Len(Append(s, x)) = Len(s) + 1 /\ Len(s) \in Nat
         /\ Elements(Append(s, x)) = Elements(s) \cup {x}
         /\ \A i \in DOMAIN s : Append(s, x)[i] = s[i]
         /\ \A i \in DOMAIN Append(s, x) : i \in DOMAIN s \/ Append(s, x)[i] = x
         /\ \A i, j \in DOMAIN Append(s, x) :
              i # j => i \in DOMAIN s \/ j \in DOMAIN s
<1>1. /\ Append(s, x) \in Seq(T) /\ Len(s) \in Nat
      /\ Len(Append(s, x)) = Len(s) + 1
      /\ DOMAIN s = 1..Len(s) /\ DOMAIN Append(s, x) = 1..(Len(s) + 1)
      /\ \A i \in 1..Len(s) : Append(s, x)[i] = s[i]
      /\ Append(s, x)[Len(s) + 1] = x
  OBVIOUS
<1>2. \A i \in 1..(Len(s) + 1) : i \in 1..Len(s) \/ i = Len(s) + 1
  BY <1>1
<1>3. \A i \in DOMAIN Append(s, x) :
        (i \in DOMAIN s /\ Append(s, x)[i] = s[i]) \/ Append(s, x)[i] = x
  BY <1>1, <1>2
<1>4. Elements(Append(s, x)) = Elements(s) \cup {x}
  <2>1. Elements(Append(s, x)) \subseteq Elements(s) \cup {x}
    BY <1>3 DEF Elements
  <2>2. Elements(s) \subseteq Elements(Append(s, x))
    <3>. SUFFICES ASSUME NEW i \in DOMAIN s PROVE s[i] \in Elements(Append(s, x))
      BY DEF Elements
    <3>1. i \in DOMAIN Append(s, x) /\ Append(s, x)[i] = s[i]
      BY <1>1
    <3>. QED  BY <3>1 DEF Elements
  <2>3. x \in Elements(Append(s, x))
    <3>1. Len(s) + 1 \in DOMAIN Append(s, x)
      BY <1>1
    <3>. QED  BY <1>1, <3>1 DEF Elements
  <2>. QED  BY <2>1, <2>2, <2>3
<1>. QED  BY <1>1, <1>2, <1>3, <1>4

LEMMA TwoAreTwo ==
  ASSUME NEW a, NEW b, a # b
  PROVE  Cardinality({a, b}) = 2
<1>1. Cardinality({a}) = 1 /\ IsFiniteSet({a})
  BY FS_Singleton
<1>2. Cardinality({a} \cup {b}) = Cardinality({a}) + 1
  BY <1>1, FS_AddElement
<1>3. {a} \cup {b} = {a, b}
  OBVIOUS
<1>. QED  BY <1>1, <1>2, <1>3

LEMMA EmptyHoldsNothing ==
  ASSUME NEW T, NEW s \in Seq(T), Elements(s) = {}
  PROVE  s = <<>>
<1>1. DOMAIN s = {}
  BY DEF Elements
<1>. QED  BY <1>1

------------------------------------------------------------------------------
(***************************************************************************)
(* The initial state.                                                      *)
(***************************************************************************)
LEMMA DiscoveryInit == Init => DiscoveryInv
<1>. SUFFICES ASSUME Init PROVE DiscoveryInv
  OBVIOUS
<1>1. TypeInv
  BY DEF Init, TypeInv
<1>2. Elements(<<>>) = {} /\ DOMAIN (<<>>) = {}
  BY DEF Elements
<1>3. RegisteredBefore(1) = {}
  <2>1. file.wrappers \in Seq([valid : BOOLEAN, data : Nat])
    BY FilesAssumption DEF Init, IsFile
  <2>2. \A n \in DOMAIN file.wrappers : ~(n < 1)
    BY <2>1
  <2>. QED  BY <2>2 DEF RegisteredBefore
<1>4. WrapperInv
  BY <1>2, <1>3 DEF Init, WrapperInv
<1>5. ChainInv
  BY <1>2 DEF Init, ChainInv
<1>6. RepeatInv
  BY <1>2 DEF Init, RepeatInv
<1>7. ReportInv
  BY <1>2 DEF Init, ReportInv, AtHand
<1>8. RejectedFilesHoldNothing
  BY DEF Init, RejectedFilesHoldNothing
<1>. QED  BY <1>1, <1>4, <1>5, <1>6, <1>7, <1>8 DEF DiscoveryInv

------------------------------------------------------------------------------
(***************************************************************************)
(* The actions.  First what each of them leaves alone.                     *)
(***************************************************************************)
LEMMA FileTypes ==
  ASSUME TypeInv
  PROVE  /\ file.wrappers \in Seq([valid : BOOLEAN, data : Nat])
         /\ file.len \in Nat
         /\ file.fatbin.off \in Nat \cup {NoOffset}
         /\ \A p \in 0..(file.len - 1) : ChainStride(p) \in Nat
<1>1. IsFile(file)
  BY FilesAssumption DEF TypeInv
<1>2. \A p \in 0..(file.len - 1) : IsHeader(file.header[p])
  BY <1>1 DEF IsFile
<1>3. \A p \in 0..(file.len - 1) : ChainStride(p) \in Nat
  BY <1>2 DEF IsHeader, ChainStride
<1>. QED  BY <1>1, <1>3 DEF IsFile

(***************************************************************************)
(* Moving to the next wrapper record adds what the one passed points at.   *)
(***************************************************************************)
LEMMA NextRecord ==
  ASSUME TypeInv, next \in DOMAIN file.wrappers
  PROVE  /\ Resolved(file.wrappers[next])
              => /\ VaToOff(file, file.wrappers[next].data) \in Registered
                 /\ Points(next, VaToOff(file, file.wrappers[next].data))
                 /\ RegisteredBefore(next + 1)
                      = RegisteredBefore(next)
                          \cup {VaToOff(file, file.wrappers[next].data)}
         /\ ~Resolved(file.wrappers[next])
              => RegisteredBefore(next + 1) = RegisteredBefore(next)
<1>1. \A n \in DOMAIN file.wrappers : n \in Nat
  BY FileTypes
<1>2. \A n \in DOMAIN file.wrappers : n < next + 1 <=> n < next \/ n = next
  BY <1>1 DEF TypeInv
<1>3. ~Resolved(file.wrappers[next])
        => RegisteredBefore(next + 1) = RegisteredBefore(next)
  BY <1>2 DEF RegisteredBefore, Points
<1>4. ASSUME Resolved(file.wrappers[next])
      PROVE  /\ VaToOff(file, file.wrappers[next].data) \in Registered
             /\ Points(next, VaToOff(file, file.wrappers[next].data))
             /\ RegisteredBefore(next + 1)
                  = RegisteredBefore(next)
                      \cup {VaToOff(file, file.wrappers[next].data)}
  <2>1. VaToOff(file, file.wrappers[next].data) \in Registered
    BY <1>4 DEF Registered
  <2>2. \A v : Points(next, v) <=> v = VaToOff(file, file.wrappers[next].data)
    BY <1>4 DEF Points
  <2>. QED  BY <1>2, <2>1, <2>2 DEF RegisteredBefore
<1>. QED  BY <1>3, <1>4

LEMMA AllRecords ==
  ASSUME TypeInv, next \notin DOMAIN file.wrappers
  PROVE  RegisteredBefore(next) = Registered
<1>1. DOMAIN file.wrappers = 1..Len(file.wrappers) /\ Len(file.wrappers) \in Nat
  BY FileTypes
<1>2. next > Len(file.wrappers)
  BY <1>1 DEF TypeInv
<1>3. \A n \in DOMAIN file.wrappers : n < next
  BY <1>1, <1>2 DEF TypeInv
<1>. QED  BY <1>3 DEF RegisteredBefore, Registered, Points

(***************************************************************************)
(* What is yielded is an offset.                                           *)
(***************************************************************************)
LEMMA YieldsAnOffset ==
  ASSUME TypeInv, NEW p \in Offsets, item = NoOffset, Yield(p)
  PROVE  /\ item' = p /\ p # NoOffset
         /\ handed' \in Seq(Offsets) /\ Len(handed') = Len(handed) + 1
         /\ Elements(handed') = Elements(handed) \cup {p}
         /\ \A i \in DOMAIN handed : handed'[i] = handed[i]
         /\ \A i \in DOMAIN handed' : i \in DOMAIN handed \/ handed'[i] = p
         /\ \A i, j \in DOMAIN handed' :
              i # j => i \in DOMAIN handed \/ j \in DOMAIN handed
         /\ UNCHANGED <<args, report, result>>
<1>1. handed' = Append(handed, p) /\ item' = p /\ handed \in Seq(Offsets)
  BY DEF Yield, TypeInv
<1>2. p # NoOffset
  BY NoneIsNoOffset
<1>. QED  BY <1>1, <1>2, AppendAdds DEF Yield

LEMMA YieldReported ==
  ASSUME TypeInv, ReportInv, NEW p \in Offsets, result = "running",
         item = NoOffset, Yield(p)
  PROVE  ReportInv'
<1>1. /\ UNCHANGED <<caller, out, skipped, result>>
      /\ item' = p /\ p # NoOffset /\ handed' = Append(handed, p)
      /\ Len(handed') = Len(handed) + 1 /\ Len(handed) \in Nat
      /\ Elements(handed') = Elements(handed) \cup {p}
  BY YieldsAnOffset DEF Yield, args, report, TypeInv
<1>2. Len(out) \in Nat /\ Len(skipped) \in Nat
  BY DEF TypeInv
<1>3. Len(handed') = Len(out) + Len(skipped) + 1
  BY <1>1, <1>2 DEF ReportInv
<1>4. Elements(handed') = Elements(out) \cup Elements(skipped) \cup {p}
  BY <1>1 DEF ReportInv, AtHand
<1>5. /\ Elements(out)' = Elements(out) /\ Elements(skipped)' = Elements(skipped)
      /\ Elements(handed)' = Elements(handed') /\ AtHand' = {p}
  BY <1>1 DEF AtHand, Elements
<1>6. result' # "returned"
  BY <1>1
<1>7. caller' = "describe" => skipped' = <<>> /\ handed' = Append(out', item')
  BY <1>1 DEF ReportInv
<1>. QED  BY <1>1, <1>3, <1>4, <1>5, <1>6, <1>7 DEF ReportInv

(***************************************************************************)
(* A step that hands nothing over and takes nothing in.                    *)
(***************************************************************************)
LEMMA QuietStep ==
  ASSUME DiscoveryInv, UNCHANGED <<args, item, handed, report>>,
         next' \in Nat, next' >= next, pos' \in Nat,
         gpc' \in {"open", "wrappers", "chain", "exhausted"},
         result' # "returned"
  PROVE  TypeInv' /\ RepeatInv' /\ ReportInv'
<1>1. file' = file /\ Offsets' = Offsets /\ \A n, v : Points(n, v)' <=> Points(n, v)
  BY FileStays DEF args
<1>2. TypeInv'
  <2>1. next' \in Nat \ {0}
    BY DEF DiscoveryInv, TypeInv
  <2>. QED  BY <1>1, <2>1 DEF DiscoveryInv, TypeInv, args, report
<1>3. RepeatInv'
  <2>1. \A n \in DOMAIN file.wrappers : n < next => n < next'
    BY FileTypes DEF DiscoveryInv, TypeInv
  <2>. QED  BY <1>1, <2>1 DEF DiscoveryInv, RepeatInv
<1>4. ReportInv'
  <2>1. /\ Elements(out)' = Elements(out) /\ Elements(skipped)' = Elements(skipped)
        /\ Elements(handed)' = Elements(handed) /\ AtHand' = AtHand
    BY DEF AtHand, Elements, report
  <2>. QED  BY <2>1 DEF DiscoveryInv, ReportInv, args, report
<1>. QED  BY <1>2, <1>3, <1>4

(***************************************************************************)
(* The generator stops because something was raised.                       *)
(***************************************************************************)
LEMMA RaiseStep ==
  ASSUME DiscoveryInv, NEW what, what # "returned", Raise(what),
         RejectedFilesHoldNothing'
  PROVE  DiscoveryInv'
<1>1. /\ UNCHANGED <<args, item, handed, report, seen, gpc, next, pos>>
      /\ result' = what
  BY DEF Raise, generator
<1>2. /\ file' = file /\ Elements(handed)' = Elements(handed)
      /\ RegisteredBefore(next)' = RegisteredBefore(next)
      /\ Chained' = Chained /\ Links' = Links
      /\ \A S, p : Explored(S, p)' <=> Explored(S, p)
  BY <1>1, FileStays, ChainStays DEF args, Elements
<1>3. TypeInv' /\ RepeatInv' /\ ReportInv'
  BY <1>1, QuietStep DEF DiscoveryInv, TypeInv
<1>4. WrapperInv'
  BY <1>1, <1>2 DEF DiscoveryInv, WrapperInv
<1>5. ChainInv'
  BY <1>1, <1>2 DEF DiscoveryInv, ChainInv
<1>. QED  BY <1>3, <1>4, <1>5 DEF DiscoveryInv

(***************************************************************************)
(* The chain holds the start of the section and what its strides lead to,  *)
(* and lies inside every explored piece nothing leads out of.              *)
(***************************************************************************)
LEMMA ChainStarts ==
  ASSUME file.fatbin.off # NoOffset, file.fatbin.off \in Links
  PROVE  file.fatbin.off \in Chained
BY DEF Chained, HoldsTheChain

LEMMA ChainGoesOn ==
  ASSUME NEW p \in Chained, p + ChainStride(p) \in Links
  PROVE  p + ChainStride(p) \in Chained
BY DEF Chained, HoldsTheChain

LEMMA ExploredHoldsTheChain ==
  ASSUME NEW S, NEW p, Explored(S, p), p \in Links => p \in S
  PROVE  Chained \subseteq S
<1>1. S \in SUBSET Links /\ HoldsTheChain(S)
  BY DEF Explored, HoldsTheChain
<1>. QED  BY <1>1 DEF Chained

LEMMA LinkedIsLink ==
  ASSUME TypeInv, Linked
  PROVE  pos \in Links /\ pos \in Nat /\ ChainStride(pos) \in Nat
<1>1. pos \in 0..(file.len - 1)
  BY FileTypes DEF TypeInv, Linked, Fits
<1>. QED  BY <1>1, FileTypes DEF Links, Linked, TypeInv

(***************************************************************************)
(* One round of the chain's loop: where it stood is handed over by now,    *)
(* and the explored piece grows by it.                                     *)
(***************************************************************************)
LEMMA ChainRound ==
  ASSUME DiscoveryInv, Linked, Advance, file' = file,
         Elements(handed') = Elements(handed) \cup {pos}
  PROVE  /\ next' = next /\ pos' \in Nat /\ gpc' \in {"chain", "exhausted"}
         /\ WrapperInv' /\ ChainInv'
<1>1. /\ pos \in Links /\ pos \in Nat /\ ChainStride(pos) \in Nat
      /\ gpc = "chain" /\ file.shape = "ELF" /\ file.fatbin.off # NoOffset
  BY LinkedIsLink DEF DiscoveryInv, Linked, Runs, WrapperInv
<1>2. /\ next' = next /\ seen' = seen /\ pos' = pos + ChainStride(pos)
      /\ gpc' = IF ChainStride(pos) = 0 THEN "exhausted" ELSE "chain"
  BY DEF Advance
<1>3. /\ Elements(handed)' = Elements(handed) \cup {pos}
      /\ RegisteredBefore(next)' = RegisteredBefore(next)
      /\ Chained' = Chained /\ Links' = Links
      /\ \A S, p : Explored(S, p)' <=> Explored(S, p)
  BY <1>2, FileStays, ChainStays DEF Elements
<1>4. WrapperInv'
  BY <1>1, <1>2, <1>3 DEF DiscoveryInv, WrapperInv
<1>5. pos \in Chained
  BY <1>1 DEF DiscoveryInv, ChainInv
<1>6. pos' \in Links => pos' \in Chained
  BY <1>2, <1>5, ChainGoesOn
<1>7. PICK S \in SUBSET Elements(handed) : Explored(S, pos)
  BY <1>1 DEF DiscoveryInv, ChainInv
<1>8. Explored(S \cup {pos}, pos')
  BY <1>1, <1>2, <1>7 DEF Explored
<1>9. S \cup {pos} \in SUBSET (Elements(handed)')
  BY <1>3
<1>10. (file.shape = "ELF" => Elements(handed) \subseteq seen \cup Chained)'
  BY <1>1, <1>2, <1>3, <1>5 DEF DiscoveryInv, ChainInv
<1>11. CASE ChainStride(pos) = 0
  <2>1. pos' = pos /\ gpc' = "exhausted"
    BY <1>1, <1>2, <1>11
  <2>2. Chained \subseteq S \cup {pos}
    BY <1>8, <2>1, ExploredHoldsTheChain
  <2>3. ChainInv'
    BY <1>3, <1>9, <1>10, <2>1, <2>2 DEF ChainInv
  <2>. QED  BY <1>1, <1>2, <1>4, <2>1, <2>3
<1>12. CASE ChainStride(pos) # 0
  <2>1. pos' \in Nat /\ pos < pos' /\ gpc' = "chain"
    BY <1>1, <1>2, <1>12
  <2>2. \A h \in Elements(handed)' : h \in seen' \/ (h \in Nat /\ h < pos')
    <3>1. \A h \in Elements(handed) : h \in seen \/ (h \in Nat /\ h < pos)
      BY <1>1 DEF DiscoveryInv, ChainInv
    <3>. QED  BY <1>1, <1>2, <1>3, <2>1, <3>1
  <2>3. \E T \in SUBSET (Elements(handed)') : Explored(T, pos')
    BY <1>8, <1>9
  <2>4. \E T \in SUBSET (Elements(handed)') : Explored(T, pos)'
    BY <1>2, <1>3, <2>3, ChainStays
  <2>5. ChainInv'
    BY <1>3, <1>6, <1>10, <2>1, <2>2, <2>4 DEF ChainInv
  <2>. QED  BY <1>2, <1>4, <2>1, <2>5
<1>. QED  BY <1>11, <1>12

(***************************************************************************)
(* The steps of the generator that hand nothing over.                      *)
(***************************************************************************)
LEMMA StillRunning ==
  ASSUME result' = "running"
  PROVE  RejectedFilesHoldNothing'
BY DEF RejectedFilesHoldNothing

LEMMA RejectFileOK == DiscoveryInv /\ RejectFile => DiscoveryInv'
<1>. SUFFICES ASSUME DiscoveryInv, RejectFile PROVE DiscoveryInv'
  OBVIOUS
<1>1. /\ handed' = <<>> /\ file' = file /\ file.shape # "ELF"
      /\ Raise("InputError")
  BY DEF RejectFile, Runs, Raise, generator, args, DiscoveryInv, WrapperInv
<1>2. RejectedFilesHoldNothing'
  BY <1>1 DEF RejectedFilesHoldNothing
<1>. QED  BY <1>1, <1>2, RaiseStep

LEMMA OtherRaisesOK == DiscoveryInv /\ (LibraryError \/ SectionPastFile) => DiscoveryInv'
<1>. SUFFICES ASSUME DiscoveryInv, LibraryError \/ SectionPastFile PROVE DiscoveryInv'
  OBVIOUS
<1>1. PICK what \in {"ELFError", "ValueError"} : Raise(what)
  BY DEF LibraryError, SectionPastFile
<1>2. RejectedFilesHoldNothing'
  BY <1>1 DEF Raise, RejectedFilesHoldNothing
<1>. QED  BY <1>1, <1>2, RaiseStep

LEMMA OpenELFOK == DiscoveryInv /\ OpenELF => DiscoveryInv'
<1>. SUFFICES ASSUME DiscoveryInv, OpenELF PROVE DiscoveryInv'
  OBVIOUS
<1>1. /\ UNCHANGED <<args, item, handed, report>>
      /\ file' = file /\ next' = next /\ pos' = pos /\ seen' = seen
      /\ gpc' = "wrappers" /\ result' = "running" /\ file.shape = "ELF"
      /\ handed = <<>>
  BY DEF OpenELF, Runs, args, DiscoveryInv, WrapperInv
<1>2. /\ Elements(handed)' = {} /\ Elements(handed) = {}
      /\ RegisteredBefore(next)' = RegisteredBefore(next)
      /\ Chained' = Chained
  BY <1>1, FileStays, ChainStays DEF Elements
<1>3. TypeInv' /\ RepeatInv' /\ ReportInv'
  BY <1>1, QuietStep DEF DiscoveryInv, TypeInv
<1>4. WrapperInv' /\ ChainInv'
  BY <1>1, <1>2 DEF DiscoveryInv, WrapperInv, ChainInv
<1>. QED  BY <1>1, <1>3, <1>4, StillRunning DEF DiscoveryInv

LEMMA SkipWrapperOK == DiscoveryInv /\ SkipWrapper => DiscoveryInv'
<1>. SUFFICES ASSUME DiscoveryInv, SkipWrapper PROVE DiscoveryInv'
  OBVIOUS
<1>1. /\ UNCHANGED <<args, item, handed, report>> /\ next \in Nat
      /\ file' = file /\ next' = next + 1 /\ pos' = pos /\ seen' = seen
      /\ gpc' = "wrappers" /\ gpc = "wrappers" /\ result' = "running"
  BY DEF SkipWrapper, Runs, args, DiscoveryInv, TypeInv
<1>2. RegisteredBefore(next') = RegisteredBefore(next)
  BY <1>1, NextRecord DEF SkipWrapper, DiscoveryInv
<1>3. /\ Elements(handed)' = Elements(handed)
      /\ RegisteredBefore(next)' = RegisteredBefore(next')
      /\ Chained' = Chained
  BY <1>1, FileStays, ChainStays DEF Elements
<1>4. TypeInv' /\ RepeatInv' /\ ReportInv'
  BY <1>1, QuietStep DEF DiscoveryInv, TypeInv
<1>5. WrapperInv' /\ ChainInv'
  BY <1>1, <1>2, <1>3 DEF DiscoveryInv, WrapperInv, ChainInv
<1>. QED  BY <1>1, <1>4, <1>5, StillRunning DEF DiscoveryInv

(***************************************************************************)
(* The wrappers are done: every resolved record has been followed.         *)
(***************************************************************************)
LEMMA WrappersAreFollowed ==
  ASSUME DiscoveryInv, WrappersDone
  PROVE  /\ seen = Registered /\ file.shape = "ELF" /\ item = NoOffset
         /\ Elements(handed) = Registered
<1>1. seen = Registered
  BY AllRecords DEF DiscoveryInv, WrapperInv, WrappersDone
<1>. QED  BY <1>1 DEF DiscoveryInv, WrapperInv, WrappersDone, Runs

LEMMA ExhaustedOK ==
  ASSUME DiscoveryInv, gpc \in {"wrappers", "chain"}, item = NoOffset,
         result = "running", Exhausted,
         next \notin DOMAIN file.wrappers,
         Chained \subseteq Elements(handed)
  PROVE  DiscoveryInv'
<1>1. /\ UNCHANGED <<args, item, handed, report>>
      /\ file' = file /\ next' = next /\ pos' = pos /\ seen' = seen
      /\ gpc' = "exhausted" /\ result' = "running"
  BY DEF Exhausted, args
<1>2. /\ Elements(handed)' = Elements(handed)
      /\ RegisteredBefore(next)' = RegisteredBefore(next)
      /\ Chained' = Chained
  BY <1>1, FileStays, ChainStays DEF Elements
<1>3. TypeInv' /\ RepeatInv' /\ ReportInv'
  BY <1>1, QuietStep DEF DiscoveryInv, TypeInv
<1>4. WrapperInv' /\ ChainInv'
  BY <1>1, <1>2 DEF DiscoveryInv, WrapperInv, ChainInv
<1>. QED  BY <1>1, <1>3, <1>4, StillRunning DEF DiscoveryInv

LEMMA NoSectionOK == DiscoveryInv /\ NoSection => DiscoveryInv'
<1>. SUFFICES ASSUME DiscoveryInv, NoSection PROVE DiscoveryInv'
  OBVIOUS
<1>1. /\ seen = Registered /\ Elements(handed) = Registered /\ Chained = {}
      /\ next \notin DOMAIN file.wrappers
  BY WrappersAreFollowed DEF NoSection, WrappersDone, Chained
<1>2. CASE seen # {}
  BY <1>1, <1>2, ExhaustedOK DEF NoSection, WrappersDone, Runs
<1>3. CASE seen = {}
  <2>1. Raise("InputError")
    BY <1>3 DEF NoSection
  <2>2. handed = <<>>
    BY <1>1, <1>3, EmptyHoldsNothing DEF DiscoveryInv, TypeInv
  <2>3. /\ handed' = <<>> /\ Registered' = {} /\ Chained' = {}
    BY <1>1, <1>3, <2>1, <2>2, FileStays, ChainStays DEF Raise, generator, args
  <2>4. RejectedFilesHoldNothing'
    BY <2>3 DEF RejectedFilesHoldNothing
  <2>. QED  BY <2>1, <2>4, RaiseStep
<1>. QED  BY <1>2, <1>3

LEMMA EnterSectionOK == DiscoveryInv /\ EnterSection => DiscoveryInv'
<1>. SUFFICES ASSUME DiscoveryInv, EnterSection PROVE DiscoveryInv'
  OBVIOUS
<1>1. /\ UNCHANGED <<args, item, handed, report>>
      /\ file' = file /\ next' = next /\ pos' = file.fatbin.off /\ seen' = seen
      /\ gpc' = "chain" /\ result' = "running" /\ file.fatbin.off # NoOffset
      /\ next \notin DOMAIN file.wrappers
  BY DEF EnterSection, WrappersDone, Runs, args
<1>2. /\ file.shape = "ELF" /\ Elements(handed) = seen
      /\ pos' \in Nat /\ next \in Nat
  BY <1>1, WrappersAreFollowed, FileTypes DEF EnterSection, DiscoveryInv, TypeInv
<1>3. /\ Elements(handed)' = Elements(handed)
      /\ RegisteredBefore(next)' = RegisteredBefore(next)
      /\ Chained' = Chained /\ Links' = Links
      /\ \A S, p : Explored(S, p)' <=> Explored(S, p)
  BY <1>1, FileStays, ChainStays DEF Elements
<1>4. TypeInv' /\ RepeatInv' /\ ReportInv'
  BY <1>1, <1>2, QuietStep DEF DiscoveryInv
<1>5. WrapperInv'
  BY <1>1, <1>2, <1>3 DEF DiscoveryInv, WrapperInv
<1>6. pos' \in Links => pos' \in Chained
  BY <1>1, ChainStarts
<1>7. Explored({}, pos)'
  <2>1. Explored({}, pos')
    BY <1>1 DEF Explored
  <2>. QED  BY <1>3, <2>1
<1>8. ChainInv'
  BY <1>1, <1>2, <1>3, <1>6, <1>7 DEF ChainInv
<1>. QED  BY <1>1, <1>4, <1>5, <1>8, StillRunning DEF DiscoveryInv

LEMMA ChainEndsOK == DiscoveryInv /\ (EndOfChain \/ BrokenChain) => DiscoveryInv'
<1>. SUFFICES ASSUME DiscoveryInv, EndOfChain \/ BrokenChain PROVE DiscoveryInv'
  OBVIOUS
<1>1. gpc = "chain" /\ item = NoOffset /\ result = "running" /\ Exhausted
  BY DEF EndOfChain, BrokenChain, Runs
<1>2. pos \notin Links
  BY DEF EndOfChain, BrokenChain, Links
<1>3. PICK S \in SUBSET Elements(handed) : Explored(S, pos)
  BY <1>1 DEF DiscoveryInv, ChainInv
<1>4. Chained \subseteq Elements(handed)
  BY <1>2, <1>3, ExploredHoldsTheChain
<1>5. next \notin DOMAIN file.wrappers
  BY <1>1 DEF DiscoveryInv, WrapperInv
<1>. QED  BY <1>1, <1>4, <1>5, ExhaustedOK

LEMMA ChainKnownOK == DiscoveryInv /\ ChainKnown => DiscoveryInv'
<1>. SUFFICES ASSUME DiscoveryInv, ChainKnown PROVE DiscoveryInv'
  OBVIOUS
<1>1. /\ UNCHANGED <<args, item, handed, report>> /\ file' = file
      /\ Linked /\ Advance /\ pos \in seen /\ result' = "running"
  BY DEF ChainKnown, Linked, Runs, args
<1>2. Elements(handed') = Elements(handed) \cup {pos}
  BY <1>1 DEF DiscoveryInv, WrapperInv
<1>3. /\ next' = next /\ pos' \in Nat /\ gpc' \in {"chain", "exhausted"}
      /\ WrapperInv' /\ ChainInv'
  BY <1>1, <1>2, ChainRound
<1>4. TypeInv' /\ RepeatInv' /\ ReportInv'
  BY <1>1, <1>3, QuietStep DEF DiscoveryInv, TypeInv
<1>. QED  BY <1>1, <1>3, <1>4, StillRunning DEF DiscoveryInv

(***************************************************************************)
(* The steps that hand an offset over.  Two equal offsets in what is       *)
(* handed over were there before, or the new one equals an old one.        *)
(***************************************************************************)
LEMMA YieldRepeats ==
  ASSUME DiscoveryInv, NEW p \in Offsets, item = NoOffset, Yield(p),
         next' \in Nat, next' >= next,
         p \in Elements(handed) =>
           \E m, n \in DOMAIN file.wrappers :
             m # n /\ m < next' /\ n < next' /\ Points(m, p) /\ Points(n, p)
  PROVE  RepeatInv'
<1>1. /\ file' = file /\ \A n, v : Points(n, v)' <=> Points(n, v)
      /\ \A i \in DOMAIN handed : handed'[i] = handed[i]
      /\ \A i \in DOMAIN handed' : i \in DOMAIN handed \/ handed'[i] = p
      /\ \A i, j \in DOMAIN handed' :
              i # j => i \in DOMAIN handed \/ j \in DOMAIN handed
  BY FileStays, YieldsAnOffset DEF DiscoveryInv, args
<1>2. \A n \in DOMAIN file.wrappers : n < next => n < next'
  BY FileTypes DEF DiscoveryInv, TypeInv
<1>3. \A i \in DOMAIN handed : handed[i] \in Elements(handed)
  BY DEF Elements
<1>4. ASSUME NEW i \in DOMAIN handed', NEW j \in DOMAIN handed',
             i # j, handed'[i] = handed'[j]
      PROVE  \E m, n \in DOMAIN file.wrappers :
               /\ m # n /\ m < next' /\ n < next'
               /\ Points(m, handed'[i]) /\ Points(n, handed'[i])
  <2>1. CASE i \in DOMAIN handed /\ j \in DOMAIN handed
    BY <1>1, <1>2, <1>4, <2>1 DEF DiscoveryInv, RepeatInv
  <2>2. CASE ~(i \in DOMAIN handed /\ j \in DOMAIN handed)
    <3>1. handed'[i] = p /\ p \in Elements(handed)
      BY <1>1, <1>3, <1>4, <2>2
    <3>. QED  BY <3>1
  <2>. QED  BY <2>1, <2>2
<1>. QED  BY <1>1, <1>4 DEF RepeatInv

LEMMA YieldTyped ==
  ASSUME DiscoveryInv, NEW p \in Offsets, item = NoOffset, result = "running",
         Yield(p), next' \in Nat, next' >= next, pos' \in Nat,
         gpc' \in {"open", "wrappers", "chain", "exhausted"}
  PROVE  /\ TypeInv' /\ ReportInv' /\ RejectedFilesHoldNothing'
         /\ file' = file /\ Elements(handed') = Elements(handed) \cup {p}
<1>1. /\ UNCHANGED <<args, report, result>> /\ file' = file /\ item' = p
      /\ handed' \in Seq(Offsets) /\ Elements(handed') = Elements(handed) \cup {p}
  BY YieldsAnOffset DEF DiscoveryInv, args
<1>2. next' \in Nat \ {0} /\ Offsets' = Offsets
  BY <1>1, FileStays DEF DiscoveryInv, TypeInv
<1>3. TypeInv'
  BY <1>1, <1>2 DEF DiscoveryInv, TypeInv, args, report
<1>4. ReportInv'
  BY YieldReported DEF DiscoveryInv
<1>. QED  BY <1>1, <1>3, <1>4, StillRunning

LEMMA YieldRawContainerOK == DiscoveryInv /\ YieldRawContainer => DiscoveryInv'
<1>. SUFFICES ASSUME DiscoveryInv, YieldRawContainer PROVE DiscoveryInv'
  OBVIOUS
<1>1. /\ item = NoOffset /\ result = "running" /\ Yield(0) /\ 0 \in Offsets
      /\ gpc' = "exhausted" /\ next' = next /\ pos' = pos /\ seen' = seen
      /\ file.shape # "ELF" /\ handed = <<>>
  BY DEF YieldRawContainer, Runs, Offsets, DiscoveryInv, WrapperInv
<1>2. Elements(handed) = {}
  BY <1>1 DEF Elements
<1>3. RepeatInv'
  BY <1>1, <1>2, YieldRepeats DEF DiscoveryInv, TypeInv
<1>4. /\ TypeInv' /\ ReportInv' /\ RejectedFilesHoldNothing' /\ file' = file
      /\ Elements(handed') = Elements(handed) \cup {0}
  BY <1>1, YieldTyped DEF DiscoveryInv, TypeInv
<1>5. /\ Elements(handed)' = Elements(handed')
      /\ RegisteredBefore(next)' = RegisteredBefore(next)
  BY <1>1, <1>4, FileStays DEF Elements
<1>6. WrapperInv' /\ ChainInv'
  BY <1>1, <1>4, <1>5 DEF DiscoveryInv, WrapperInv, ChainInv
<1>. QED  BY <1>3, <1>4, <1>6 DEF DiscoveryInv

LEMMA YieldWrapperOK == DiscoveryInv /\ YieldWrapper => DiscoveryInv'
<1>. SUFFICES ASSUME DiscoveryInv, YieldWrapper PROVE DiscoveryInv'
  OBVIOUS
<1> DEFINE v == VaToOff(file, file.wrappers[next].data)
<1>1. /\ item = NoOffset /\ result = "running" /\ gpc = "wrappers" /\ gpc' = gpc
      /\ next \in DOMAIN file.wrappers /\ Resolved(file.wrappers[next])
      /\ Yield(v) /\ next \in Nat /\ next' = next + 1 /\ pos' = pos
      /\ seen' = seen \cup {item'}
  BY DEF YieldWrapper, Runs, DiscoveryInv, TypeInv
<1>2. /\ v \in Offsets /\ Points(next, v)
      /\ RegisteredBefore(next') = RegisteredBefore(next) \cup {v}
  BY <1>1, NextRecord DEF DiscoveryInv, Offsets
<1>3. item' = v
  BY <1>1 DEF Yield
<1>. HIDE DEF v
<1>4. ASSUME v \in Elements(handed)
      PROVE  \E m, n \in DOMAIN file.wrappers :
               m # n /\ m < next' /\ n < next' /\ Points(m, v) /\ Points(n, v)
  <2>1. v \in RegisteredBefore(next)
    BY <1>1, <1>4 DEF DiscoveryInv, WrapperInv
  <2>2. PICK n \in DOMAIN file.wrappers : n < next /\ Points(n, v)
    BY <2>1 DEF RegisteredBefore
  <2>3. n # next /\ n < next' /\ next < next'
    BY <1>1, <2>2, FileTypes DEF DiscoveryInv
  <2>. QED  BY <1>1, <1>2, <2>2, <2>3
<1>5. RepeatInv'
  BY <1>1, <1>2, <1>4, YieldRepeats
<1>6. /\ TypeInv' /\ ReportInv' /\ RejectedFilesHoldNothing' /\ file' = file
      /\ Elements(handed') = Elements(handed) \cup {v}
  BY <1>1, <1>2, YieldTyped DEF DiscoveryInv, TypeInv
<1>7. /\ Elements(handed)' = Elements(handed')
      /\ RegisteredBefore(next)' = RegisteredBefore(next')
      /\ Chained' = Chained
  BY <1>1, <1>6, FileStays, ChainStays DEF Elements
<1>8. WrapperInv' /\ ChainInv'
  BY <1>1, <1>2, <1>3, <1>6, <1>7 DEF DiscoveryInv, WrapperInv, ChainInv
<1>. QED  BY <1>5, <1>6, <1>8 DEF DiscoveryInv

LEMMA ChainYieldOK == DiscoveryInv /\ ChainYield => DiscoveryInv'
<1>. SUFFICES ASSUME DiscoveryInv, ChainYield PROVE DiscoveryInv'
  OBVIOUS
<1>1. /\ item = NoOffset /\ result = "running" /\ gpc = "chain"
      /\ Linked /\ Advance /\ pos \notin seen /\ Yield(pos)
  BY DEF ChainYield, Linked, Runs
<1>2. pos \in Nat /\ pos \in Offsets
  BY DEF DiscoveryInv, TypeInv, Offsets
<1>3. Elements(handed') = Elements(handed) \cup {pos} /\ file' = file
  BY <1>1, <1>2, YieldsAnOffset DEF DiscoveryInv, args
<1>4. /\ next' = next /\ pos' \in Nat /\ gpc' \in {"chain", "exhausted"}
      /\ WrapperInv' /\ ChainInv'
  BY <1>1, <1>3, ChainRound
<1>5. next \in Nat
  BY DEF DiscoveryInv, TypeInv
<1>6. TypeInv' /\ ReportInv' /\ RejectedFilesHoldNothing'
  BY <1>1, <1>2, <1>4, <1>5, YieldTyped
<1>7. pos \notin Elements(handed)
  <2>1. \A h \in Elements(handed) : h \in seen \/ (h \in Nat /\ h < pos)
    BY <1>1 DEF DiscoveryInv, ChainInv
  <2>2. ~(pos < pos)
    BY <1>2
  <2>. QED  BY <1>1, <2>1, <2>2
<1>8. RepeatInv'
  BY <1>1, <1>2, <1>4, <1>5, <1>7, YieldRepeats
<1>. QED  BY <1>4, <1>6, <1>8 DEF DiscoveryInv

(***************************************************************************)
(* The caller's steps.  The generator stays where it is suspended.         *)
(***************************************************************************)
LEMMA GeneratorWaits ==
  ASSUME DiscoveryInv, UNCHANGED <<args, generator>>
  PROVE  WrapperInv' /\ ChainInv' /\ RepeatInv'
<1>1. /\ file' = file /\ gpc' = gpc /\ next' = next /\ pos' = pos
      /\ seen' = seen /\ handed' = handed
  BY DEF args, generator
<1>2. /\ Elements(handed)' = Elements(handed)
      /\ RegisteredBefore(next)' = RegisteredBefore(next)
      /\ Chained' = Chained /\ Links' = Links
      /\ \A S, p : Explored(S, p)' <=> Explored(S, p)
      /\ \A n, v : Points(n, v)' <=> Points(n, v)
  BY <1>1, FileStays, ChainStays DEF Elements
<1>3. WrapperInv'
  BY <1>1, <1>2 DEF DiscoveryInv, WrapperInv
<1>4. ChainInv'
  BY <1>1, <1>2 DEF DiscoveryInv, ChainInv
<1>5. RepeatInv'
  BY <1>1, <1>2 DEF DiscoveryInv, RepeatInv
<1>. QED  BY <1>3, <1>4, <1>5

LEMMA ParseItemOK == DiscoveryInv /\ ParseItem => DiscoveryInv'
<1>. SUFFICES ASSUME DiscoveryInv, ParseItem PROVE DiscoveryInv'
  OBVIOUS
<1>1. /\ UNCHANGED <<args, generator>> /\ handed' = handed /\ file' = file
      /\ item # NoOffset /\ item' = NoOffset /\ result' = "running"
      /\ out' = Append(out, item) /\ skipped' = skipped /\ caller' = caller
  BY DEF ParseItem, Suspended, args, generator
<1>2. /\ item \in Offsets /\ out \in Seq(Offsets) /\ skipped \in Seq(Offsets)
      /\ Len(skipped) \in Nat /\ Offsets' = Offsets
  BY <1>1, FileStays DEF DiscoveryInv, TypeInv
<1>3. /\ out' \in Seq(Offsets) /\ Len(out') = Len(out) + 1 /\ Len(out) \in Nat
      /\ Elements(out') = Elements(out) \cup {item}
  BY <1>1, <1>2, AppendAdds
<1>4. TypeInv'
  BY <1>1, <1>2, <1>3 DEF DiscoveryInv, TypeInv, generator, args
<1>5. /\ Elements(out)' = Elements(out') /\ Elements(skipped)' = Elements(skipped)
      /\ Elements(handed)' = Elements(handed) /\ AtHand' = {} /\ AtHand = {item}
  BY <1>1 DEF Elements, AtHand
<1>6. ReportInv'
  <2>1. Len(handed') = Len(out') + Len(skipped')
    BY <1>1, <1>2, <1>3 DEF DiscoveryInv, ReportInv
  <2>2. Len(out') \in Nat /\ Len(skipped') \in Nat
    BY <1>1, <1>2, <1>3
  <2>. QED  BY <1>1, <1>3, <1>5, <2>1, <2>2 DEF DiscoveryInv, ReportInv
<1>. QED  BY <1>1, <1>4, <1>6, GeneratorWaits, StillRunning DEF DiscoveryInv

LEMMA SurveySkipsOK == DiscoveryInv /\ SurveySkips => DiscoveryInv'
<1>. SUFFICES ASSUME DiscoveryInv, SurveySkips PROVE DiscoveryInv'
  OBVIOUS
<1>1. /\ UNCHANGED <<args, generator>> /\ handed' = handed /\ file' = file
      /\ item # NoOffset /\ item' = NoOffset /\ result' = "running"
      /\ skipped' = Append(skipped, item) /\ out' = out
      /\ caller' = caller /\ caller = "survey"
  BY DEF SurveySkips, Suspended, args, generator
<1>2. /\ item \in Offsets /\ out \in Seq(Offsets) /\ skipped \in Seq(Offsets)
      /\ Len(out) \in Nat /\ Offsets' = Offsets
  BY <1>1, FileStays DEF DiscoveryInv, TypeInv
<1>3. /\ skipped' \in Seq(Offsets) /\ Len(skipped') = Len(skipped) + 1
      /\ Len(skipped) \in Nat
      /\ Elements(skipped') = Elements(skipped) \cup {item}
  BY <1>1, <1>2, AppendAdds
<1>4. TypeInv'
  BY <1>1, <1>2, <1>3 DEF DiscoveryInv, TypeInv, generator, args
<1>5. /\ Elements(out)' = Elements(out) /\ Elements(skipped)' = Elements(skipped')
      /\ Elements(handed)' = Elements(handed) /\ AtHand' = {} /\ AtHand = {item}
  BY <1>1 DEF Elements, AtHand
<1>6. ReportInv'
  <2>1. Len(handed') = Len(out') + Len(skipped')
    BY <1>1, <1>2, <1>3 DEF DiscoveryInv, ReportInv
  <2>2. Len(out') \in Nat /\ Len(skipped') \in Nat
    BY <1>1, <1>2, <1>3
  <2>. QED  BY <1>1, <1>3, <1>5, <2>1, <2>2 DEF DiscoveryInv, ReportInv
<1>. QED  BY <1>1, <1>4, <1>6, GeneratorWaits, StillRunning DEF DiscoveryInv

LEMMA DescribeAbortsOK == DiscoveryInv /\ DescribeAborts => DiscoveryInv'
<1>. SUFFICES ASSUME DiscoveryInv, DescribeAborts PROVE DiscoveryInv'
  OBVIOUS
<1>1. PICK what \in {"ValueError", "InputError"} : Raise(what)
  BY DEF DescribeAborts, ParseError
<1>2. item' # NoOffset
  BY DEF DescribeAborts, Suspended, Raise
<1>3. RejectedFilesHoldNothing'
  BY <1>2 DEF RejectedFilesHoldNothing
<1>. QED  BY <1>1, <1>3, RaiseStep

LEMMA ReturnOK == DiscoveryInv /\ Return => DiscoveryInv'
<1>. SUFFICES ASSUME DiscoveryInv, Return PROVE DiscoveryInv'
  OBVIOUS
<1>1. /\ UNCHANGED <<args, generator, item, report>> /\ file' = file
      /\ gpc = "exhausted" /\ item = NoOffset /\ result' = "returned"
  BY DEF Return, Runs, args
<1>2. TypeInv'
  BY <1>1, FileStays DEF DiscoveryInv, TypeInv, args, generator, report
<1>3. ReportInv'
  <2>1. /\ Elements(out)' = Elements(out) /\ Elements(skipped)' = Elements(skipped)
        /\ Elements(handed)' = Elements(handed) /\ AtHand' = AtHand
    BY <1>1 DEF AtHand, Elements, report, generator
  <2>. QED
    BY <1>1, <2>1 DEF DiscoveryInv, ReportInv, args, report, generator
<1>4. RejectedFilesHoldNothing'
  BY <1>1 DEF RejectedFilesHoldNothing
<1>. QED  BY <1>1, <1>2, <1>3, <1>4, GeneratorWaits DEF DiscoveryInv

------------------------------------------------------------------------------
(***************************************************************************)
(* The inductive invariant holds throughout.                               *)
(***************************************************************************)
LEMMA DiscoveryStutter == DiscoveryInv /\ UNCHANGED vars => DiscoveryInv'
<1>. SUFFICES ASSUME DiscoveryInv, UNCHANGED vars PROVE DiscoveryInv'
  OBVIOUS
<1>1. /\ UNCHANGED <<args, generator, item, report>> /\ file' = file
      /\ result' = result
  BY DEF vars, args
<1>2. TypeInv'
  BY <1>1, FileStays DEF DiscoveryInv, TypeInv, args, generator, report
<1>3. ReportInv'
  <2>1. /\ Elements(out)' = Elements(out) /\ Elements(skipped)' = Elements(skipped)
        /\ Elements(handed)' = Elements(handed) /\ AtHand' = AtHand
    BY <1>1 DEF AtHand, Elements, report, generator
  <2>. QED
    BY <1>1, <2>1 DEF DiscoveryInv, ReportInv, args, report, generator
<1>4. RejectedFilesHoldNothing'
  <2>1. Registered' = Registered /\ Chained' = Chained
    BY <1>1, FileStays, ChainStays
  <2>. QED
    BY <1>1, <2>1 DEF DiscoveryInv, RejectedFilesHoldNothing, generator
<1>. QED  BY <1>1, <1>2, <1>3, <1>4, GeneratorWaits DEF DiscoveryInv

THEOREM DiscoveryInvariant == Spec => []DiscoveryInv
<1>1. DiscoveryInv /\ [Next]_vars => DiscoveryInv'
  <2>. SUFFICES ASSUME DiscoveryInv, [Next]_vars PROVE DiscoveryInv'
    OBVIOUS
  <2>1. CASE Generator
    BY <2>1, YieldRawContainerOK, RejectFileOK, OtherRaisesOK, OpenELFOK,
       SkipWrapperOK, YieldWrapperOK, NoSectionOK, EnterSectionOK,
       ChainEndsOK, ChainKnownOK, ChainYieldOK DEF Generator
  <2>2. CASE Caller
    BY <2>2, ParseItemOK, DescribeAbortsOK, SurveySkipsOK, ReturnOK DEF Caller
  <2>3. CASE UNCHANGED vars
    BY <2>3, DiscoveryStutter
  <2>. QED  BY <2>1, <2>2, <2>3 DEF Next
<1>. QED  BY <1>1, DiscoveryInit, PTL DEF Spec

(***************************************************************************)
(* A call that returns on an ELF was handed exactly the containers that    *)
(* are registered or chained (find_containers, walk_nv_fatbin).            *)
(***************************************************************************)
THEOREM HandsOverExactlyTheContainers == Spec => []EveryContainerIsHanded
<1>1. DiscoveryInv => EveryContainerIsHanded
  <2>. SUFFICES ASSUME DiscoveryInv, result = "returned", file.shape = "ELF"
                PROVE  Elements(handed) = Registered \cup Chained
    BY DEF EveryContainerIsHanded
  <2>1. gpc = "exhausted"
    BY DEF DiscoveryInv, ReportInv
  <2>2. seen = Registered
    BY <2>1, AllRecords DEF DiscoveryInv, WrapperInv
  <2>. QED  BY <2>1, <2>2 DEF DiscoveryInv, WrapperInv, ChainInv
<1>. QED  BY <1>1, DiscoveryInvariant, PTL

(***************************************************************************)
(* Nothing but two wrapper records hands the same offset over twice        *)
(* (find_containers, "seen").                                              *)
(***************************************************************************)
THEOREM OnlyRecordsRepeat == Spec => []OnlyWrappersRepeat
<1>1. DiscoveryInv => OnlyWrappersRepeat
  <2>. SUFFICES ASSUME DiscoveryInv, NEW i \in DOMAIN handed, NEW j \in DOMAIN handed,
                       i # j, handed[i] = handed[j]
                PROVE  Cardinality({n \in DOMAIN file.wrappers :
                         /\ Resolved(file.wrappers[n])
                         /\ VaToOff(file, file.wrappers[n].data) = handed[i]}) > 1
    BY DEF OnlyWrappersRepeat
  <2> DEFINE both == {n \in DOMAIN file.wrappers :
                         /\ Resolved(file.wrappers[n])
                         /\ VaToOff(file, file.wrappers[n].data) = handed[i]}
  <2>1. PICK m, n \in DOMAIN file.wrappers :
          m # n /\ Points(m, handed[i]) /\ Points(n, handed[i])
    BY DEF DiscoveryInv, RepeatInv
  <2>2. {m, n} \subseteq both
    BY <2>1 DEF Points
  <2>3. IsFiniteSet(both)
    <3>1. /\ DOMAIN file.wrappers = 1..Len(file.wrappers)
          /\ Len(file.wrappers) \in Nat
      BY FileTypes DEF DiscoveryInv
    <3>2. IsFiniteSet(1..Len(file.wrappers))
      BY <3>1, FS_Interval
    <3>. QED  BY <3>1, <3>2, FS_Subset
  <2>4. Cardinality({m, n}) = 2
    BY <2>1, TwoAreTwo
  <2>5. Cardinality({m, n}) <= Cardinality(both) /\ Cardinality(both) \in Nat
    BY <2>2, <2>3, FS_Subset, FS_CardinalityType
  <2>. QED  BY <2>4, <2>5
<1>. QED  BY <1>1, DiscoveryInvariant, PTL

(***************************************************************************)
(* A file that is refused was handed nothing and holds nothing             *)
(* (find_containers, InputError).                                          *)
(***************************************************************************)
THEOREM RefusalsAreRight == Spec => []RejectedFilesHoldNothing
<1>1. DiscoveryInv => RejectedFilesHoldNothing
  BY DEF DiscoveryInv
<1>. QED  BY <1>1, DiscoveryInvariant, PTL

(***************************************************************************)
(* Every container handed over is parsed or counted as given up, and a     *)
(* report describe returns leaves none out (describe, survey_file).        *)
(***************************************************************************)
THEOREM ReportsLoseNothing == Spec => []ReportAccountsForEveryContainer
<1>1. DiscoveryInv => ReportAccountsForEveryContainer
  <2>. SUFFICES ASSUME DiscoveryInv, result = "returned"
                PROVE  /\ Len(out) + Len(skipped) = Len(handed)
                       /\ Elements(out) \cup Elements(skipped) = Elements(handed)
                       /\ caller = "describe" => out = handed
    BY DEF ReportAccountsForEveryContainer
  <2>1. item = NoOffset /\ AtHand = {}
    BY DEF DiscoveryInv, ReportInv, AtHand
  <2>2. Len(out) \in Nat /\ Len(skipped) \in Nat
    BY DEF DiscoveryInv, TypeInv
  <2>. QED  BY <2>1, <2>2 DEF DiscoveryInv, ReportInv
<1>. QED  BY <1>1, DiscoveryInvariant, PTL

------------------------------------------------------------------------------
(***************************************************************************)
(* How much of a call is ahead: the phases of the generator, in a phase    *)
(* the wrapper records not looked at or the bytes the chain has not        *)
(* passed, and the container the caller is at.                             *)
(***************************************************************************)
PhaseRank == [open |-> 4, wrappers |-> 3, chain |-> 2, exhausted |-> 1]

PhasesLeft == IF result = "running" THEN PhaseRank[gpc] ELSE 0

StepsLeft ==
  IF gpc = "wrappers"
  THEN IF next \in DOMAIN file.wrappers THEN Len(file.wrappers) + 1 - next ELSE 0
  ELSE IF gpc = "chain" /\ pos < file.len THEN file.len - pos ELSE 0

InHand == IF item = NoOffset THEN 0 ELSE 1

Measured == PhasesLeft \in Nat /\ StepsLeft \in Nat /\ InHand \in Nat

NearerTheEnd ==
  \/ PhasesLeft' < PhasesLeft
  \/ PhasesLeft' = PhasesLeft /\ StepsLeft' < StepsLeft
  \/ PhasesLeft' = PhasesLeft /\ StepsLeft' = StepsLeft /\ InHand' < InHand

LEMMA CallIsMeasured == TypeInv => Measured
<1>. SUFFICES ASSUME TypeInv  PROVE Measured
  OBVIOUS
<1>1. PhasesLeft \in Nat /\ InHand \in Nat
  BY DEF PhasesLeft, PhaseRank, InHand, TypeInv
<1>2. CASE gpc = "wrappers" /\ next \in DOMAIN file.wrappers
  <2>1. next \in 1..Len(file.wrappers) /\ Len(file.wrappers) \in Nat
    BY <1>2, FileTypes
  <2>2. Len(file.wrappers) + 1 - next \in Nat
    BY <2>1
  <2>. QED  BY <1>1, <1>2, <2>2 DEF Measured, StepsLeft
<1>3. CASE gpc = "chain" /\ pos < file.len
  <2>1. file.len - pos \in Nat
    BY <1>3, FileTypes DEF TypeInv
  <2>. QED  BY <1>1, <1>3, <2>1 DEF Measured, StepsLeft
<1>4. CASE ~(gpc = "wrappers" /\ next \in DOMAIN file.wrappers)
           /\ ~(gpc = "chain" /\ pos < file.len)
  BY <1>1, <1>4 DEF Measured, StepsLeft
<1>. QED  BY <1>2, <1>3, <1>4

(***************************************************************************)
(* The next phase, or the end of the call.                                 *)
(***************************************************************************)
LEMMA PhaseEnds ==
  ASSUME TypeInv, TypeInv', result = "running",
         \/ result' # "running"
         \/ gpc = "open" /\ gpc' \in {"wrappers", "exhausted"}
         \/ gpc = "wrappers" /\ gpc' \in {"chain", "exhausted"}
         \/ gpc = "chain" /\ gpc' = "exhausted"
  PROVE  NearerTheEnd
<1>1. gpc \in DOMAIN PhaseRank /\ gpc' \in DOMAIN PhaseRank
  BY DEF TypeInv, PhaseRank
<1>2. PhasesLeft = PhaseRank[gpc] /\ PhasesLeft' = IF result' = "running" THEN PhaseRank[gpc'] ELSE 0
  BY DEF PhasesLeft
<1>3. PhasesLeft' < PhasesLeft
  BY <1>1, <1>2 DEF PhaseRank, TypeInv
<1>. QED  BY <1>3 DEF NearerTheEnd

LEMMA RecordPassed ==
  ASSUME TypeInv, Runs("wrappers"), next \in DOMAIN file.wrappers,
         next' = next + 1, UNCHANGED <<args, gpc, result>>
  PROVE  NearerTheEnd
<1>1. next \in 1..Len(file.wrappers) /\ Len(file.wrappers) \in Nat
      /\ DOMAIN file.wrappers = 1..Len(file.wrappers)
  BY FileTypes
<1>2. StepsLeft = Len(file.wrappers) + 1 - next
  BY DEF StepsLeft, Runs
<1>3. StepsLeft' = IF next + 1 \in DOMAIN file.wrappers
                   THEN Len(file.wrappers) + 1 - (next + 1) ELSE 0
  BY DEF StepsLeft, Runs, args
<1>4. StepsLeft' < StepsLeft
  BY <1>1, <1>2, <1>3
<1>5. PhasesLeft' = PhasesLeft
  BY DEF PhasesLeft
<1>. QED  BY <1>4, <1>5 DEF NearerTheEnd

LEMMA LinkPassed ==
  ASSUME TypeInv, TypeInv', Linked, Advance, UNCHANGED <<args, result>>
  PROVE  NearerTheEnd
<1>1. CASE ChainStride(pos) = 0
  BY <1>1, PhaseEnds DEF Linked, Runs, Advance
<1>2. CASE ChainStride(pos) # 0
  <2>1. pos \in 0..(file.len - 1) /\ file.len \in Nat
    BY FileTypes DEF Linked, Fits, TypeInv
  <2>2. ChainStride(pos) \in Nat /\ pos' = pos + ChainStride(pos) /\ gpc' = gpc /\ gpc = "chain"
    BY <1>2, <2>1, FileTypes DEF Advance, Linked, Runs
  <2>3. StepsLeft = file.len - pos
    BY <2>1, <2>2 DEF StepsLeft
  <2>4. StepsLeft' = IF pos' < file.len THEN file.len - pos' ELSE 0
    BY <2>2 DEF StepsLeft, args
  <2>5. StepsLeft' < StepsLeft
    <3> DEFINE n == ChainStride(pos)
    <3>1. n \in Nat /\ n # 0 /\ pos' = pos + n
      BY <1>2, <2>2
    <3> HIDE DEF n
    <3>. QED  BY <2>1, <2>3, <2>4, <3>1
  <2>6. PhasesLeft' = PhasesLeft
    BY <2>2 DEF PhasesLeft
  <2>. QED  BY <2>5, <2>6 DEF NearerTheEnd
<1>. QED  BY <1>1, <1>2

LEMMA ItemDealtWith ==
  ASSUME Suspended, item' = NoOffset, UNCHANGED <<args, generator, result>>
  PROVE  NearerTheEnd
<1>1. PhasesLeft' = PhasesLeft /\ StepsLeft' = StepsLeft
  BY DEF PhasesLeft, StepsLeft, args, generator
<1>2. InHand = 1 /\ InHand' = 0
  BY DEF InHand, Suspended
<1>. QED  BY <1>1, <1>2 DEF NearerTheEnd

(***************************************************************************)
(* Discovery runs out, on every file and whatever sizes its headers        *)
(* declare: each step of the generator or its caller brings the call       *)
(* nearer to its end, a zero stride included, so that none goes on for     *)
(* ever (find_containers, walk_nv_fatbin).                                 *)
(***************************************************************************)
THEOREM DiscoveryRunsOut == Spec => []Measured /\ [][NearerTheEnd]_vars
<1>1. TypeInv /\ TypeInv' /\ [Next]_vars => [NearerTheEnd]_vars
  <2>. SUFFICES ASSUME TypeInv, TypeInv', Next  PROVE NearerTheEnd
    OBVIOUS
  <2>1. CASE YieldRawContainer \/ OpenELF
    BY <2>1, PhaseEnds DEF YieldRawContainer, OpenELF, Runs, Yield
  <2>2. CASE RejectFile \/ LibraryError \/ SectionPastFile
    BY <2>2, PhaseEnds DEF RejectFile, LibraryError, SectionPastFile, Runs, Raise
  <2>3. CASE SkipWrapper
    BY <2>3, RecordPassed DEF SkipWrapper, Runs
  <2>4. CASE YieldWrapper
    BY <2>4, RecordPassed DEF YieldWrapper, Yield, Runs
  <2>5. CASE NoSection \/ EnterSection \/ EndOfChain \/ BrokenChain
    BY <2>5, PhaseEnds DEF NoSection, EnterSection, EndOfChain, BrokenChain,
       WrappersDone, Runs, Raise, Exhausted
  <2>6. CASE ChainKnown
    BY <2>6, LinkPassed DEF ChainKnown
  <2>7. CASE ChainYield
    BY <2>7, LinkPassed DEF ChainYield, Yield
  <2>8. CASE ParseItem \/ SurveySkips
    BY <2>8, ItemDealtWith DEF ParseItem, SurveySkips
  <2>9. CASE DescribeAborts \/ Return
    BY <2>9, PhaseEnds DEF DescribeAborts, Return, ParseError, Raise, Runs, Suspended
  <2>. QED
    BY <2>1, <2>2, <2>3, <2>4, <2>5, <2>6, <2>7, <2>8, <2>9 DEF Next, Generator, Caller
<1>2. DiscoveryInv => TypeInv
  BY DEF DiscoveryInv
<1>. QED
  BY <1>1, <1>2, CallIsMeasured, DiscoveryInvariant, PTL DEF Spec
==============================================================================
