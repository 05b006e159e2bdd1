------------------------------ MODULE RulePlayer ------------------------------
(***************************************************************************)
(* The page docs/entry-selection.html: one fixed container of six entries, *)
(* played through the levels of the rule in eight steps by a timer that    *)
(* reschedules itself, while the reader pauses, restarts or jumps.         *)
(*                                                                         *)
(* A timer is known by a handle.  The page keeps one handle; a timer whose *)
(* handle is overwritten can no longer be cleared.                         *)
(***************************************************************************)
EXTENDS EntryOrder

CONSTANTS Handles,     \* handles for timers that are pending at one time
          MaxClicks,   \* how often the reader clicks, the bound of the model
          NoTimer, NoLevel

ASSUME PlayerAssumption == /\ NoTimer \notin Handles
                           /\ MaxClicks \in Nat
                           /\ NoLevel \notin Nat

VARIABLES step,      \* the step the page is at
          playing,   \* whether the button says so: "Pause" or "Play"
          timer,     \* the handle the page keeps
          pending,   \* what each pending timer will call
          painted,   \* what the last paint put on the page
          clicks

playerVars == <<step, playing, timer, pending, painted, clicks>>

------------------------------------------------------------------------------
Device == [sm |-> 89, suffix |-> ""]

Row(kind, arch, flags) ==
  [kind |-> kind, arch |-> arch, flags |-> flags, elfArch |-> NoArch]

ENTRIES == <<Row("PTX", 89, {}), Row("ELF", 75, {}), Row("ELF", 86, {}),
             Row("ELF", 89, {24}), Row("ELF", 89, {}), Row("ELF", 89, {})>>

\* The level at which each entry leaves, written beside it.
Dies == <<1, 0, 2, 3, NoLevel, 4>>

STEPS == 0..7

\* Steps 1 to 5 each apply a level; the last two show the winner on the GPU.
Kill(s) == IF s \in 1..5 THEN s - 1 ELSE NoLevel

ShowsWinner(s) == s > 5

GATES == 0..4

Left(g) == 5 - g

(***************************************************************************)
(* paint: the rows crossed out, the counts on the gates reached so far,    *)
(* and the row drawn as the winner.                                        *)
(***************************************************************************)
Picture(s) ==
  [dead   |-> {i \in DOMAIN ENTRIES : \E k \in 0..s : Kill(k) # NoLevel /\ Kill(k) = Dies[i]},
   gates  |-> {<<g, Left(g)>> : g \in {h \in GATES : IF Kill(s) # NoLevel THEN h <= Kill(s)
                                                     ELSE ShowsWinner(s)}},
   winner |-> {i \in DOMAIN ENTRIES : ShowsWinner(s) /\ Dies[i] = NoLevel}]

Paint == painted' = Picture(step')

------------------------------------------------------------------------------
Drop(h) == [k \in DOMAIN pending \ {h} |-> pending[k]]

With(p, h, callback) == [k \in DOMAIN p \cup {h} |->
                           IF k = h THEN callback ELSE p[k]]

(***************************************************************************)
(* schedule: clear the timer the page knows of, then set the next one.     *)
(* p is what is pending when it is called, after a timer has fired.        *)
(***************************************************************************)
\* Mutant: the timer that is pending is not cleared.
ScheduleMutant(p) ==
  \E h \in Handles \ DOMAIN p : /\ timer' = h
                                /\ pending' = With(p, h, "advance")

Schedule(p) ==
  \E h \in Handles \ (DOMAIN p \ {timer}) :
    /\ timer' = h
    /\ pending' = With([k \in DOMAIN p \ {timer} |-> p[k]], h, "advance")

Start(p) == playing' = TRUE /\ Schedule(p)

Stop == /\ playing' = FALSE
        /\ pending' = Drop(timer)
        /\ timer' = NoTimer

(***************************************************************************)
(* How the page opens: on one fixed frame (?step=), on the last frame      *)
(* without motion, or on the last frame with a timer that starts it over.  *)
(***************************************************************************)
PlayerInit == /\ step \in STEPS
              /\ painted = Picture(step)
              /\ clicks = 0
              /\ \/ /\ playing = FALSE
                    /\ timer = NoTimer /\ pending = <<>>
                 \/ /\ step = 7 /\ playing = TRUE
                    /\ timer \in Handles
                    /\ pending = [h \in {timer} |-> "open"]

\* Mutant: the step after the last is not the first.
AdvanceMutant(h) == /\ pending[h] = "advance"
                    /\ step' = IF step = 7 THEN step ELSE step + 1
                    /\ Paint
                    /\ IF playing THEN Schedule(Drop(h)) ELSE UNCHANGED <<timer, pending>>
                    /\ UNCHANGED <<playing, clicks>>

Advance(h) == /\ pending[h] = "advance"
              /\ step' = (step + 1) % 8
              /\ Paint
              /\ IF playing THEN Schedule(Drop(h))
                 ELSE pending' = Drop(h) /\ UNCHANGED timer
              /\ UNCHANGED <<playing, clicks>>

Opening(h) == /\ pending[h] = "open"
              /\ step' = 0
              /\ Paint
              /\ Start(Drop(h))
              /\ UNCHANGED clicks

Fire == \E h \in DOMAIN pending : Advance(h) \/ Opening(h)

Click == clicks < MaxClicks /\ clicks' = clicks + 1

PressPlay == /\ Click
             /\ IF playing THEN Stop ELSE Start(pending)
             /\ UNCHANGED <<step, painted>>

PressAgain == /\ Click
              /\ step' = 0
              /\ Paint
              /\ Start(pending)

\* Mutant: the page jumps and is not painted.
PressTickMutant(s) == /\ Click
                      /\ Stop
                      /\ step' = s
                      /\ UNCHANGED painted

PressTick(s) == /\ Click
                /\ Stop
                /\ step' = s
                /\ Paint

Reader == PressPlay \/ PressAgain \/ \E s \in STEPS : PressTick(s)

PlayerNext == Fire \/ Reader

PlayerSpec == PlayerInit /\ [][PlayerNext]_playerVars

(***************************************************************************)
(* The browser calls a pending timer; the reader may do nothing.           *)
(***************************************************************************)
FairPlayerSpec == PlayerSpec /\ WF_playerVars(Fire)

------------------------------------------------------------------------------
(***************************************************************************)
(* While it plays exactly one timer is pending, the one the page can       *)
(* clear; while it does not, none is: no click in the opening three        *)
(* seconds, nor any later one, makes it run at double speed or run on      *)
(* after a pause (schedule, stop and start).                               *)
(***************************************************************************)
OneTimerWhilePlaying ==
  DOMAIN pending = IF playing THEN {timer} ELSE {}

(***************************************************************************)
(* The steps tell the rule's story about the six entries: after any clicks *)
(* the rows standing are those no level applied so far removes, each gate  *)
(* shows how many it leaves, and the winner is the entry the rule selects  *)
(* (ENTRIES, GATES and STEPS against the levels of would_execute).         *)
(***************************************************************************)
Default == Pool(ENTRIES, Device, "default")

BeatenBy(level, i, j) ==
  CASE level = 1 -> BetterKind(ENTRIES[i], ENTRIES[j])
    [] level = 2 -> BetterArch(ENTRIES[i], ENTRIES[j])
    [] level = 3 -> BetterFlag(ENTRIES[i], ENTRIES[j])
    [] level = 4 -> Outranks(ENTRIES, i, j)

StandingAfter(level) ==
  {j \in Default : \A i \in Default \ {j}, l \in 1..level : ~BeatenBy(l, i, j)}

PictureFollowsTheRule ==
  /\ step > 0 => DOMAIN ENTRIES \ painted.dead
                   = StandingAfter(IF ShowsWinner(step) THEN 4 ELSE Kill(step))
  /\ \A gate \in painted.gates : gate[2] = Cardinality(StandingAfter(gate[1]))
  /\ \A i \in painted.winner : BestOf(ENTRIES, Default, i)

(***************************************************************************)
(* Left alone it plays the whole story over and over, unless it was last   *)
(* stopped: it never gets stuck at a step (advance, schedule).             *)
(***************************************************************************)
PlaysOn == \A s \in STEPS : <>[]playing => []<>(step = s)
==============================================================================
