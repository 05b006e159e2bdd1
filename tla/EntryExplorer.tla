---------------------------- MODULE EntryExplorer ----------------------------
(***************************************************************************)
(* The page docs/entry-explorer.html: up to four entries a reader edits, a *)
(* check box for CUDA_FORCE_PTX_JIT, six presets, and the outcome, which   *)
(* every handler draws anew.  The page has its own implementation of the   *)
(* rule, with its own account of why each entry lost.  One action per      *)
(* handler; drawing is part of each.                                       *)
(***************************************************************************)
EXTENDS EntryOrder, SequencesExt

CONSTANTS Capacity,      \* entries at which "add entry" is disabled
          EditKinds,     \* kinds the reader picks from the list
          TypedArchs,    \* numbers the reader types; 0 also for no number
          EditBits,      \* bits of the flags field the reader toggles
          NoEntry, NoPreset

ASSUME ExplorerAssumption ==
  /\ Capacity \in Nat \ {0}
  /\ EditKinds \subseteq {"PTX", "ELF", "MERCURY", "INDEX", "TILEIR"}
  /\ TypedArchs \subseteq Int
  /\ EditBits \subseteq {16, 20, 21, 24}
  /\ NoEntry \notin Nat

VARIABLES entries,   \* the entries on the page
          forced,    \* the check box
          pressed,   \* the preset whose button is pressed
          shown      \* what the last drawing shows

vars == <<entries, forced, pressed, shown>>

GPU == [sm |-> 89, suffix |-> ""]

E(kind, arch, flags) ==
  [kind |-> kind, arch |-> arch, flags |-> flags, elfArch |-> NoArch]

PRESETS ==
  [ cubinBeatsPTX    |-> <<E("PTX", 89, {}), E("ELF", 89, {})>>,
    kindOutranksArch |-> <<E("ELF", 86, {}), E("PTX", 89, {})>>,
    bit24            |-> <<E("ELF", 89, {24}), E("ELF", 89, {})>>,
    lastPTX          |-> <<E("PTX", 89, {}), E("PTX", 89, {})>>,
    suffix           |-> <<E("ELF", 89, {20})>>,
    obf              |-> <<E("PTX", 89, {16}), E("ELF", 75, {})>> ]

------------------------------------------------------------------------------
(***************************************************************************)
(* compatible and select.  A verdict is the incumbent and, for the entries *)
(* that lost so far, the level they are said to have lost at; 0 stands for *)
(* the entries that were no candidates.                                    *)
(***************************************************************************)
Winning == 5

Compatible(e) ==
  /\ e.kind \in RankedKinds
  /\ ArchSuffix(e) = GPU.suffix
  /\ e.arch <= GPU.sm
  /\ e.kind = "ELF" => Generation(e.arch) = Generation(GPU.sm)

InPool(es, force, i) ==
  Compatible(es[i]) /\ ~(force /\ es[i].kind = "ELF")

Verdict(best, why) == [best |-> best, why |-> why]

(***************************************************************************)
(* One round of the loop: candidate c against the incumbent.               *)
(***************************************************************************)
SeparatingLevel(e, f) ==
  IF e.kind # f.kind THEN 1
  ELSE IF e.arch # f.arch THEN 2
  ELSE IF e.kind = "ELF" /\ Deprioritised(e) # Deprioritised(f) THEN 3
  ELSE 4

Displaces(c, b) ==
  CASE SeparatingLevel(c, b) = 1 -> KindRank[c.kind] > KindRank[b.kind]
    [] SeparatingLevel(c, b) = 2 -> c.arch > b.arch
    [] SeparatingLevel(c, b) = 3 -> Deprioritised(b)
    [] SeparatingLevel(c, b) = 4 -> c.kind = "PTX"

\* Mutant: the level is noted on the challenger, whoever lost.
RoundMutant(es, v, c) ==
  IF v.best = NoEntry THEN Verdict(c, v.why)
  ELSE Verdict(IF Displaces(es[c], es[v.best]) THEN c ELSE v.best,
               [v.why EXCEPT ![c] = SeparatingLevel(es[c], es[v.best])])

Round(es, v, c) ==
  IF v.best = NoEntry THEN Verdict(c, v.why)
  ELSE LET level == SeparatingLevel(es[c], es[v.best])
       IN  IF Displaces(es[c], es[v.best])
           THEN Verdict(c, [v.why EXCEPT ![v.best] = level])
           ELSE Verdict(v.best, [v.why EXCEPT ![c] = level])

(***************************************************************************)
(* The loop over the pool: the verdict once the entries up to k are seen.  *)
(***************************************************************************)
NoVerdict(es, force) ==
  Verdict(NoEntry, [i \in DOMAIN es |-> IF InPool(es, force, i) THEN Winning ELSE 0])

Verdicts(es, force) ==
  LET after[k \in 0..Len(es)] ==
        IF k = 0 THEN NoVerdict(es, force)
        ELSE IF InPool(es, force, k) THEN Round(es, after[k - 1], k) ELSE after[k - 1]
  IN  after

Select(es, force) == Verdicts(es, force)[Len(es)]

(***************************************************************************)
(* render: the sentence shown and the levels lit in the list.              *)
(***************************************************************************)
Sentence(es, v) == IF v.best = NoEntry THEN "nothing runs"
                   ELSE IF 16 \in es[v.best].flags THEN "refused at load"
                   ELSE "executes"

Lit(v) == {v.why[i] : i \in DOMAIN v.why} \ {Winning}

Drawing(es, force) ==
  LET v == Select(es, force)
  IN  [winner |-> v.best, why |-> v.why, lit |-> Lit(v),
       sentence |-> Sentence(es, v)]

Render == shown' = Drawing(entries', forced')

ClearPreset == pressed' = NoPreset

------------------------------------------------------------------------------
Load(name) == /\ entries' = PRESETS[name]
              /\ pressed' = name
              /\ UNCHANGED forced
              /\ Render

Init == /\ entries = PRESETS.cubinBeatsPTX
        /\ pressed = "cubinBeatsPTX"
        /\ forced = FALSE
        /\ shown = Drawing(entries, forced)

Edit(es) == /\ entries' = es
            /\ ClearPreset
            /\ UNCHANGED forced
            /\ Render

Swap(i, j) == Edit([entries EXCEPT ![i] = entries[j], ![j] = entries[i]])

MoveEarlier(i) == i > 1 /\ Swap(i - 1, i)

MoveLater(i) == i < Len(entries) /\ Swap(i, i + 1)

RemoveEntry(i) == /\ Len(entries) > 1
                  /\ Edit(RemoveAt(entries, i))

\* The list fires only when another kind is picked.
SetKind(i, kind) == /\ kind # entries[i].kind
                    /\ Edit([entries EXCEPT ![i].kind = kind])

\* parseInt of no number, and of zero, falls back to 89.
Clamp(a) == IF a = 0 THEN 89 ELSE IF a < 1 THEN 1 ELSE IF a > 999 THEN 999 ELSE a

SetArch(i, a) == Edit([entries EXCEPT ![i].arch = Clamp(a)])

Toggle(flags, b) == IF b \in flags THEN flags \ {b} ELSE flags \cup {b}

ToggleBit(i, b) == Edit([entries EXCEPT ![i].flags = Toggle(@, b)])

AddEntry == /\ Len(entries) < Capacity
            /\ Edit(Append(entries, E("ELF", 89, {})))

\* Mutant: the box is ticked and nothing is drawn.
ToggleForceMutant == /\ forced' = ~forced
                     /\ ClearPreset
                     /\ UNCHANGED <<entries, shown>>

ToggleForce == /\ forced' = ~forced
               /\ ClearPreset
               /\ UNCHANGED entries
               /\ Render

EditEntry(i) == \/ MoveEarlier(i) \/ MoveLater(i) \/ RemoveEntry(i)
                \/ \E kind \in EditKinds : SetKind(i, kind)
                \/ \E a \in TypedArchs : SetArch(i, a)
                \/ \E b \in EditBits : ToggleBit(i, b)

Next == \/ \E name \in DOMAIN PRESETS : Load(name)
        \/ \E i \in DOMAIN entries : EditEntry(i)
        \/ AddEntry
        \/ ToggleForce

Spec == Init /\ [][Next]_vars

------------------------------------------------------------------------------
(***************************************************************************)
(* "The rule shown here is would_execute() from the fat binary parser"     *)
(* (the foot of the page): whatever was edited and in whatever order, the  *)
(* winner on the screen is the entry the parser's rule selects from the    *)
(* entries and the check box as they are now, and the sentence says of it  *)
(* what the load does: an obfuscated winner is refused and does not        *)
(* execute.                                                                *)
(***************************************************************************)
RulePool == Pool(entries, GPU, IF forced THEN "force-ptx-jit" ELSE "default")

PageShowsTheRule ==
  IF RulePool = {} THEN shown.winner = NoEntry /\ shown.sentence = "nothing runs"
  ELSE /\ BestOf(entries, RulePool, shown.winner)
       /\ shown.sentence = IF 16 \in entries[shown.winner].flags
                           THEN "refused at load" ELSE "executes"

(***************************************************************************)
(* Every other entry says why it lost.  The reason names a level at which  *)
(* it lost to an incumbent that may itself have been displaced, so the     *)
(* winner beats it at that level or at a higher one, never at a lower.     *)
(***************************************************************************)
LostAt(e, f) == IF BetterKind(e, f) THEN 1
                ELSE IF BetterArch(e, f) THEN 2
                ELSE IF BetterFlag(e, f) THEN 3 ELSE 4

EveryLoserIsExplained ==
  \A i \in DOMAIN entries \ {shown.winner} :
    IF i \notin RulePool THEN shown.why[i] = 0
    ELSE /\ shown.winner # NoEntry
         /\ shown.why[i] \in LostAt(entries[shown.winner], entries[i])..4
==============================================================================
