----------------------------- MODULE Backplane -----------------------------
(***************************************************************************)
(* The wire-OR lines of the S-100 backplane: pINT (pin 73), pHOLD (pin    *)
(* 74), NMI* (pin 12) and the vectored-interrupt lines VI0-VI7.           *)
(*                                                                         *)
(* Nobody polls a board.  A board remembers which pins it last pulled      *)
(* (Board::intWire_, viWire_, nmiWire_, holdWire_), says so when a         *)
(* register of its own moved (intChanged, nmiChanged, holdChanged), and    *)
(* the bus keeps one counter per pin.  An 88-VI card watches the VI lines  *)
(* and drives pin 73 from them, so a VI line that moves makes the bus      *)
(* re-evaluate a third party (notifyViWatchers).                           *)
(*                                                                         *)
(* Every board that is not an 88-VI is modelled by what its assertsInt,    *)
(* assertsVi, assertsNmi and requestsBus return; the 88-VI by its          *)
(* registers.  RESTORE is three separate steps per board, because the      *)
(* enable flag is loaded behind the wires' back and they are re-driven     *)
(* only at the end.                                                        *)
(***************************************************************************)
EXTENDS Integers, FiniteSets

CONSTANTS
  Boards,    \* every card that can stand in a slot
  Watchers,  \* the cards that watch the VI lines: 88-VI/RTC cards
  Lines,     \* the VI levels in use; VI0 is the highest priority
  CanPull,   \* CanPull[b]: the pins the registers of b are able to drive
  Levels     \* the current-level values the guest writes to an 88-VI

pINT  == 73
pHOLD == 74
NMI   == 12
NoLine == 99   \* an RTC strap that is not installed (IrqJumper::None)

Pins == Lines \cup {pINT, pHOLD, NMI}
IntPins == Lines \cup {pINT}   \* what intChanged() re-evaluates

ASSUME BackplaneAssumption ==
  /\ IsFiniteSet(Boards)
  /\ Watchers \subseteq Boards
  /\ Lines \subseteq 0..7
  /\ CanPull \in [Boards -> SUBSET Pins]
  /\ Levels \subseteq 0..7

VARIABLES
  slots,    \* Bus::boards_
  enabled,  \* Board::enabled_
  req,      \* the pins an ordinary board's registers ask for
  vi,       \* the registers of each 88-VI
  wire,     \* wire[p]: the boards whose cached flag says they pull pin p
  count,    \* intCount_, nmiCount_, holdCount_ and viCount_, by pin
  viMask,   \* Bus::viMask_, the lines an 88-VI reads
  restore,  \* the pass Machine::restore is in
  todo      \* the boards that pass has still to visit

vars == <<slots, enabled, req, vi, wire, count, viMask, restore, todo>>

ViRegisters ==
  [viEnabled : BOOLEAN, levelLive : BOOLEAN, curLevel : 0..7,
   rtcEnabled : BOOLEAN, rtcInt : BOOLEAN, rtcJumper : Lines \cup {NoLine}]

\* VirtcBoard::reset(PowerOn) for a card whose RTC strap is j.
ViPowerOn(j) ==
  [viEnabled |-> FALSE, levelLive |-> FALSE, curLevel |-> 0,
   rtcEnabled |-> FALSE, rtcInt |-> FALSE, rtcJumper |-> j]

\* The counters of the bus never go below zero: nothing is taken off a pin
\* twice (Bus::detach and the three *Changed functions each subtract).
TypeOK ==
  /\ slots \subseteq Boards
  /\ enabled \in [Boards -> BOOLEAN]
  /\ req \in [Boards -> SUBSET Pins]
  /\ vi \in [Watchers -> ViRegisters]
  /\ wire \in [Pins -> SUBSET Boards]
  /\ count \in [Pins -> Nat]
  /\ viMask \subseteq Lines
  /\ restore \in {"no", "apply", "drive"}
  /\ todo \subseteq slots
  /\ restore = "no" => todo = {}
-----------------------------------------------------------------------------
(***************************************************************************)
(* What a board's registers say about its pins, before enabled_ gates it.  *)
(***************************************************************************)

RtcLines(r) == IF r.rtcInt THEN {r.rtcJumper} \cap Lines ELSE {}

\* VirtcBoard::winner() on the pending lines: the highest-priority one, if
\* the current-level register admits it.
LowestMutant(S) == CHOOSE i \in S : \A j \in S : i >= j
Highest(S) == CHOOSE i \in S : \A j \in S : i <= j
HasWinner(r, pending) ==
  /\ pending # {}
  /\ r.levelLive => Highest(pending) < r.curLevel

\* assertsInt, assertsVi, assertsNmi and requestsBus of a board whose request
\* is q, whose 88-VI registers are r, on a bus that shows the VI lines in mask.
Asserts(b, p, q, r, mask) ==
  IF b \notin Watchers THEN p \in q[b]
  ELSE IF p = pINT THEN r[b].viEnabled /\ HasWinner(r[b], mask \cup RtcLines(r[b]))
  ELSE p \in RtcLines(r[b])

Pulls(b, p) == enabled[b] /\ Asserts(b, p, req, vi, viMask)
PullsNext(b, p) == enabled'[b] /\ Asserts(b, p, req', vi', viMask')

-----------------------------------------------------------------------------
(***************************************************************************)
(* Board b re-evaluates its pins P, after slots', enabled', req' and vi'   *)
(* are set: intChanged is Redrive(b, IntPins), nmiChanged and holdChanged  *)
(* their own pin.  A VI line whose wire-OR moved makes every attached      *)
(* watcher re-evaluate pin 73.  A watcher's VI pins cannot move there:     *)
(* they do not depend on the VI lines, and its own handlers end in         *)
(* intChanged.                                                             *)
(***************************************************************************)
Rewired(p, B) == (wire[p] \ B) \cup {b \in B : PullsNext(b, p)}

\* The counter of pin p after the cards pulling it, cached in wire[p], become w.
CountAfter(p, w) ==
  LET before == wire[p] \cap slots
      after == w \cap slots'
  IN  count[p] + Cardinality(after \ before) - Cardinality(before \ after)

Notified == IF viMask' # viMask THEN Watchers \cap slots' ELSE {}

Redrive(b, P) ==
  LET asked(p) == IF p \in P THEN {b} ELSE {} IN
  /\ viMask' = {i \in Lines : CountAfter(i, Rewired(i, asked(i))) > 0}
  /\ wire' = [p \in Pins |->
                Rewired(p, IF p = pINT THEN asked(p) \cup Notified ELSE asked(p))]
  /\ count' = [p \in Pins |-> CountAfter(p, wire'[p])]
-----------------------------------------------------------------------------
\* An empty backplane; a card outside it is in its construction state.
Init ==
  /\ slots = {}
  /\ enabled = [b \in Boards |-> TRUE]
  /\ req = [b \in Boards |-> {}]
  /\ vi = [w \in Watchers |-> ViPowerOn(NoLine)]
  /\ wire = [p \in Pins |-> {}]
  /\ count = [p \in Pins |-> 0]
  /\ viMask = {}
  /\ restore = "no"
  /\ todo = {}

NotRestoring == restore = "no" /\ UNCHANGED <<restore, todo>>

\* Bus::attach: a card built and configured on the bench, where no bus was
\* connected; the flags its handlers left are counted as found.
Attach(b) ==
  /\ NotRestoring
  /\ b \notin slots
  /\ slots' = slots \cup {b}
  /\ \E e \in BOOLEAN : enabled' = [enabled EXCEPT ![b] = e]
  /\ IF b \in Watchers
     THEN /\ \E j \in Lines \cup {NoLine} : vi' = [vi EXCEPT ![b] = ViPowerOn(j)]
          /\ req' = req
     ELSE /\ \E q \in SUBSET CanPull[b] : req' = [req EXCEPT ![b] = q]
          /\ vi' = vi
  /\ Redrive(b, Pins)

\* Bus::detach, then the card is destroyed: its wires leave with it.
Detach(b) ==
  /\ NotRestoring
  /\ b \in slots
  /\ slots' = slots \ {b}
  /\ enabled' = [enabled EXCEPT ![b] = TRUE]
  /\ req' = [req EXCEPT ![b] = {}]
  /\ vi' = IF b \in Watchers THEN [vi EXCEPT ![b] = ViPowerOn(NoLine)] ELSE vi
  /\ Redrive(b, Pins)

\* Board::setEnabled
SetEnabledMutant(b) ==
  /\ NotRestoring
  /\ b \in slots
  /\ enabled' = [enabled EXCEPT ![b] = ~enabled[b]]
  /\ UNCHANGED <<slots, req, vi, wire, count, viMask>>

SetEnabled(b) ==
  /\ NotRestoring
  /\ b \in slots
  /\ enabled' = [enabled EXCEPT ![b] = ~enabled[b]]
  /\ UNCHANGED <<slots, req, vi>>
  /\ Redrive(b, Pins)

\* A register of an ordinary card moved (a port write, a character taken off a
\* line, a deadline) and the handler announced the wires it may have moved.
RequestMoves(b, P, q) ==
  /\ NotRestoring
  /\ b \in slots \ Watchers
  /\ q # req[b] \cap P
  /\ req' = [req EXCEPT ![b] = (req[b] \ P) \cup q]
  /\ UNCHANGED <<slots, enabled, vi>>
  /\ Redrive(b, P)

IntRequest(b)  == \E q \in SUBSET (CanPull[b] \cap IntPins) : RequestMoves(b, IntPins, q)
NmiRequest(b)  == \E q \in SUBSET (CanPull[b] \cap {NMI}) : RequestMoves(b, {NMI}, q)
HoldRequest(b) == \E q \in SUBSET (CanPull[b] \cap {pHOLD}) : RequestMoves(b, {pHOLD}, q)

\* Every handler of the 88-VI sets registers and ends in intChanged().
ViHandler(w, r) ==
  /\ NotRestoring
  /\ w \in slots
  /\ vi' = [vi EXCEPT ![w] = r]
  /\ UNCHANGED <<slots, enabled, req>>
  /\ Redrive(w, IntPins)

\* OUT 376 octal: only an enabled card decodes its port.
ControlWrite(w) ==
  /\ enabled[w]
  /\ \E live, clear, rtc, on \in BOOLEAN, lvl \in Levels :
       ViHandler(w, [vi[w] EXCEPT !.viEnabled = on, !.levelLive = live, !.curLevel = lvl,
                                  !.rtcEnabled = rtc, !.rtcInt = @ /\ ~clear])

\* The divider's tick; armRtc keeps it running exactly while it is observable.
RtcFire(w) ==
  /\ vi[w].rtcEnabled
  /\ vi[w].rtcJumper # NoLine
  /\ ViHandler(w, [vi[w] EXCEPT !.rtcInt = TRUE])

\* SET virtc0 RTC_INTERRUPT=..., then configChanged().
MoveRtcJumper(w) ==
  \E j \in Lines \cup {NoLine} : ViHandler(w, [vi[w] EXCEPT !.rtcJumper = j])

\* RESET PowerOn (a bus reset leaves the card alone).
ViReset(w) == ViHandler(w, ViPowerOn(vi[w].rtcJumper))
-----------------------------------------------------------------------------
(***************************************************************************)
(* Machine::restore, from the point where it can no longer fail: every     *)
(* board is loaded (or powered on, when the snapshot does not hold it),    *)
(* then every board's pins are driven again.                               *)
(***************************************************************************)
RestoreBegin ==
  /\ restore = "no"
  /\ slots # {}
  /\ restore' = "apply"
  /\ todo' = slots
  /\ UNCHANGED <<slots, enabled, req, vi, wire, count, viMask>>

\* A pass visits b; the last visit ends the pass.
Visit(b, pass, next) ==
  /\ restore = pass
  /\ b \in todo
  /\ IF todo = {b} THEN restore' = next /\ todo' = (IF next = "no" THEN {} ELSE slots)
     ELSE restore' = restore /\ todo' = todo \ {b}
  /\ UNCHANGED slots

\* Board::deserialize writes enabled_ directly.  The cards' own deserialize
\* re-drives the interrupt pins in most cards and in every watcher; the pHOLD
\* and NMI* pins, and the pins of the other cards, wait for the second pass.
RestoreApply(b) ==
  /\ Visit(b, "apply", "drive")
  /\ \E e \in BOOLEAN : enabled' = [enabled EXCEPT ![b] = e]
  /\ IF b \in Watchers
     THEN /\ req' = req
          /\ \E r \in [viEnabled : BOOLEAN, levelLive : BOOLEAN, curLevel : Levels,
                       rtcEnabled : BOOLEAN, rtcInt : BOOLEAN, rtcJumper : {vi[b].rtcJumper}] :
               vi' = [vi EXCEPT ![b] = r]
     ELSE /\ \E q \in SUBSET CanPull[b] : req' = [req EXCEPT ![b] = q]
          /\ vi' = vi
  /\ \/ Redrive(b, IntPins)
     \/ b \notin Watchers /\ UNCHANGED <<wire, count, viMask>>

\* The second pass: intChanged(), nmiChanged(), holdChanged().
RestoreDrive(b) ==
  /\ Visit(b, "drive", "no")
  /\ UNCHANGED <<enabled, req, vi>>
  /\ Redrive(b, Pins)
-----------------------------------------------------------------------------
Next ==
  \/ \E b \in Boards : \/ Attach(b) \/ Detach(b) \/ SetEnabled(b)
                       \/ IntRequest(b) \/ NmiRequest(b) \/ HoldRequest(b)
                       \/ RestoreApply(b) \/ RestoreDrive(b)
  \/ \E w \in Watchers : ControlWrite(w) \/ RtcFire(w) \/ MoveRtcJumper(w) \/ ViReset(w)
  \/ RestoreBegin

Spec == Init /\ [][Next]_vars
-----------------------------------------------------------------------------
\* The check Bus::verifyInt, verifyNmi, verifyHold and verifyVi make of the
\* counters: each one is the number of attached cards whose flag is up, and the
\* mask an 88-VI reads is the lines with a counter above zero.
CountsRight ==
  /\ \A p \in Pins : count[p] = Cardinality(wire[p] \cap slots)
  /\ viMask = {i \in Lines : count[i] > 0}

\* During RESTORE only the cards the second pass has still to visit may carry a
\* flag that is not what their registers say.
AwaitsDrive(b) ==
  /\ b \notin Watchers
  /\ restore = "apply" \/ (restore = "drive" /\ b \in todo)

\* The other half of those checks ("WIRE IS STALE"): a card's flag is what its
\* registers say, for every card and pin, however the registers moved; a
\* watcher's pin 73 also follows the lines that other cards pull.
WiresHonest ==
  \A p \in Pins, b \in slots : AwaitsDrive(b) \/ (b \in wire[p] <=> Pulls(b, p))

\* What the processor and the run loop read (intPending, nmiAsserted,
\* holdPending) is the wire-OR of the enabled cards in the slots, although
\* nobody asks them: no request is lost and none outlives its card.
PinIsWireOr ==
  restore = "no" =>
    \A p \in Pins : count[p] > 0 <=> \E b \in slots : Pulls(b, p)

\* A card that pulls a VI line an 88-VI admits reaches pin 73 through that
\* third party, in whatever order line, card, level and enables came.
RequestReachesPin73 ==
  \A b \in slots, w \in slots \cap Watchers, i \in Lines :
    /\ restore = "no"
    /\ Pulls(b, i)
    /\ enabled[w] /\ vi[w].viEnabled
    /\ vi[w].levelLive => i < vi[w].curLevel
    => count[pINT] > 0
=============================================================================
