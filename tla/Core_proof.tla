------------------------------ MODULE Core_proof ------------------------------
(***************************************************************************)
(* Proofs about what every card of the machine shares: the pins of the     *)
(* backplane, the queue of deadlines, the cycles of the bus with their     *)
(* decode tables, and SNAPSHOT and RESTORE.                                *)
(***************************************************************************)
EXTENDS Backplane, EventQueue, DecodeCache, Snapshots, FiniteSetTheorems, SequenceTheorems,
        WellFoundedInduction, TLAPS

(***************************************************************************)
(* The backplane, for every set of cards and every wiring.                 *)
(*                                                                         *)
(* The inductive invariant is the type invariant, CountsRight and          *)
(* WiresHonest together: a counter stays right because it is moved by the  *)
(* difference of two finite sets of cards, and a flag stays right because  *)
(* Redrive covers every pin the step can have moved, the ones of the VI    *)
(* watchers included.  What the processor and an 88-VI see follows.        *)
(***************************************************************************)
IInv == TypeOK /\ CountsRight /\ WiresHonest

\* The flag of card c on pin p is what its registers say.
Honest(p, c) == c \in wire[p] <=> Pulls(c, p)

\* The pins are distinct: the VI lines are numbered below pins 12, 73 and 74.
LEMMA PinFacts ==
  /\ pINT \in Pins /\ pHOLD \in Pins /\ NMI \in Pins
  /\ pINT \notin Lines /\ pHOLD \notin Lines /\ NMI \notin Lines /\ NoLine \notin Lines
  /\ Lines \subseteq Pins /\ IntPins \subseteq Pins
BY BackplaneAssumption DEF Pins, IntPins, pINT, pHOLD, NMI, NoLine

\* Any set of cards cut down to a subset of Boards is finite.
LEMMA CardsFinite ==
  ASSUME NEW S, S \subseteq Boards
  PROVE  IsFiniteSet(S) /\ Cardinality(S) \in Nat
<1>1. IsFiniteSet(S)
  BY FS_Subset, BackplaneAssumption
<1> QED
  BY <1>1, FS_CardinalityType

\* The counter of a pin moved by intWireChanged and its like, by attach and by
\* detach, is again the number of attached cards that pull it.
LEMMA CounterMoves ==
  ASSUME TypeOK, CountsRight, slots' \subseteq Boards,
         NEW p \in Pins, NEW w, w \subseteq Boards
  PROVE  CountAfter(p, w) = Cardinality(w \cap slots')
<1> DEFINE before == wire[p] \cap slots
           after  == w \cap slots'
<1>1. before \subseteq Boards /\ after \subseteq Boards
  BY DEF TypeOK
<1>2. /\ IsFiniteSet(before) /\ Cardinality(before) \in Nat
      /\ IsFiniteSet(after) /\ Cardinality(after) \in Nat
      /\ IsFiniteSet(before \cap after) /\ Cardinality(before \cap after) \in Nat
  BY <1>1, CardsFinite
<1>3. /\ Cardinality(after \ before) = Cardinality(after) - Cardinality(after \cap before)
      /\ Cardinality(before \ after) = Cardinality(before) - Cardinality(before \cap after)
  BY <1>2, FS_Difference
<1>4. after \cap before = before \cap after
  OBVIOUS
<1>5. count[p] = Cardinality(before)
  BY DEF CountsRight
<1>6. CountAfter(p, w) = count[p] + Cardinality(after \ before) - Cardinality(before \ after)
  BY DEF CountAfter
<1>7. CountAfter(p, w) = Cardinality(after)
  <2> HIDE DEF before, after
  <2> QED
    BY <1>2, <1>3, <1>4, <1>5, <1>6
<1> QED
  BY <1>7

\* Redrive leaves flags, counters and the VI mask well typed and right.
LEMMA RedriveCounts ==
  ASSUME TypeOK, CountsRight, slots' \subseteq Boards,
         NEW b \in Boards, NEW P \in SUBSET Pins, Redrive(b, P)
  PROVE  /\ wire' \in [Pins -> SUBSET Boards]
         /\ count' \in [Pins -> Nat]
         /\ viMask' \subseteq Lines
         /\ CountsRight'
<1> DEFINE asked(p) == IF p \in P THEN {b} ELSE {}
           cards(p) == IF p = pINT THEN asked(p) \cup Notified ELSE asked(p)
<1>1. Notified \subseteq Boards
  BY BackplaneAssumption DEF Notified
<1>2. \A p \in Pins : Rewired(p, asked(p)) \subseteq Boards /\ Rewired(p, cards(p)) \subseteq Boards
  BY <1>1 DEF Rewired, TypeOK
<1>3. /\ viMask' = {i \in Lines : CountAfter(i, Rewired(i, asked(i))) > 0}
      /\ wire' = [p \in Pins |-> Rewired(p, cards(p))]
      /\ count' = [p \in Pins |-> CountAfter(p, wire'[p])]
  BY DEF Redrive
<1>4. wire' \in [Pins -> SUBSET Boards]
  BY <1>2, <1>3
<1>5. \A p \in Pins : count'[p] = Cardinality(wire'[p] \cap slots')
  BY <1>3, <1>4, CounterMoves
<1>6. count' \in [Pins -> Nat]
  <2>1. \A p \in Pins : Cardinality(wire'[p] \cap slots') \in Nat
    BY <1>4, CardsFinite
  <2> QED
    BY <2>1, <1>3, <1>5
<1>7. \A i \in Lines : count'[i] = CountAfter(i, Rewired(i, asked(i)))
  BY <1>3, PinFacts
<1> QED
  BY <1>3, <1>4, <1>5, <1>6, <1>7 DEF CountsRight

(***************************************************************************)
(* What Redrive(b, P) does to honesty when only the registers of b moved:  *)
(* b is honest on the pins P, and every other card stays honest -- a       *)
(* watcher because it is re-evaluated whenever the VI lines moved.         *)
(***************************************************************************)
LEMMA RedriveHonest ==
  ASSUME TypeOK, slots' \subseteq Boards,
         NEW b \in Boards, NEW P \in SUBSET Pins, Redrive(b, P),
         \A c \in Boards \ {b} : /\ enabled'[c] = enabled[c]
                                 /\ req'[c] = req[c]
                                 /\ c \in Watchers => vi'[c] = vi[c]
  PROVE  /\ \A p \in P : Honest(p, b)'
         /\ \A p \in Pins, c \in slots' \ {b} : Honest(p, c) => Honest(p, c)'
<1> DEFINE asked(p) == IF p \in P THEN {b} ELSE {}
           cards(p) == IF p = pINT THEN asked(p) \cup Notified ELSE asked(p)
<1>1. \A p \in Pins : wire'[p] = Rewired(p, cards(p))
  BY DEF Redrive
<1>2. ASSUME NEW p \in Pins, NEW c \in Boards
      PROVE  c \in wire'[p] <=> IF c \in cards(p) THEN PullsNext(c, p) ELSE c \in wire[p]
  BY <1>1 DEF Rewired
<1>3. \A p \in Pins, c \in Boards : PullsNext(c, p) <=> Pulls(c, p)'
  BY DEF PullsNext, Pulls
<1>4. \A p \in P : Honest(p, b)'
  BY <1>2, <1>3 DEF Honest
<1>5. ASSUME NEW p \in Pins, NEW c \in slots' \ {b}, Honest(p, c)
      PROVE  Honest(p, c)'
  <2>1. CASE c \in cards(p)
    BY <2>1, <1>2, <1>3 DEF Honest
  <2>2. CASE c \notin cards(p)
    <3>1. p = pINT /\ c \in Watchers => viMask' = viMask
      BY <2>2 DEF Notified
    <3>2. Asserts(c, p, req', vi', viMask') <=> Asserts(c, p, req, vi, viMask)
      BY <3>1 DEF Asserts
    <3>3. Pulls(c, p)' <=> Pulls(c, p)
      BY <3>2 DEF Pulls
    <3> QED
      BY <2>2, <1>2, <3>3, <1>5 DEF Honest
  <2> QED
    BY <2>1, <2>2
<1> QED
  BY <1>4, <1>5

-----------------------------------------------------------------------------
\* Highest(S) is a least element of a non-empty set of VI levels.
LEMMA HighestIsLeast ==
  ASSUME NEW S, S \subseteq 0..7, S # {}
  PROVE  Highest(S) \in S /\ \A j \in S : Highest(S) <= j
<1>1. \E i \in S : \A j \in S : i <= j
  <2>1. PICK x \in S : TRUE
    OBVIOUS
  <2>2. x \in {0, 1, 2, 3, 4, 5, 6, 7} /\ \A j \in S : j \in {0, 1, 2, 3, 4, 5, 6, 7}
    BY <2>1
  <2>3. CASE S \cap {0, 1, 2, 3} # {}
    <3>1. CASE 0 \in S
      BY <3>1, <2>2
    <3>2. CASE 0 \notin S /\ 1 \in S
      BY <3>2, <2>2
    <3>3. CASE 0 \notin S /\ 1 \notin S /\ 2 \in S
      BY <3>3, <2>2
    <3>4. CASE 0 \notin S /\ 1 \notin S /\ 2 \notin S /\ 3 \in S
      BY <3>4, <2>2
    <3> QED
      BY <2>3, <3>1, <3>2, <3>3, <3>4
  <2>4. CASE S \cap {0, 1, 2, 3} = {}
    <3>1. CASE 4 \in S
      BY <3>1, <2>2, <2>4
    <3>2. CASE 4 \notin S /\ 5 \in S
      BY <3>2, <2>2, <2>4
    <3>3. CASE 4 \notin S /\ 5 \notin S /\ 6 \in S
      BY <3>3, <2>2, <2>4
    <3>4. CASE 4 \notin S /\ 5 \notin S /\ 6 \notin S /\ 7 \in S
      BY <3>4, <2>2, <2>4
    <3> QED
      BY <2>1, <2>2, <2>4, <3>1, <3>2, <3>3, <3>4
  <2> QED
    BY <2>3, <2>4
<1> QED
  BY <1>1 DEF Highest

\* Init establishes the inductive invariant: nothing is pulled or counted.
LEMMA InitIInv == Init => IInv
<1> SUFFICES ASSUME Init PROVE IInv
  OBVIOUS
<1>1. NoLine \notin Lines /\ \A w \in Watchers : vi[w] = ViPowerOn(NoLine)
  BY PinFacts DEF Init
<1>2. TypeOK
  BY BackplaneAssumption DEF Init, TypeOK, ViRegisters, ViPowerOn
<1>3. CountsRight
  BY FS_EmptySet, PinFacts DEF Init, CountsRight
<1>4. WiresHonest
  BY DEF Init, WiresHonest
<1> QED
  BY <1>2, <1>3, <1>4 DEF IInv

(***************************************************************************)
(* A step that moves registers of b only and re-drives the pins P keeps    *)
(* the invariant, if the pins of b outside P are still told by its         *)
(* registers and no card is dropped from the second RESTORE pass.          *)
(***************************************************************************)
LEMMA RedriveStep ==
  ASSUME IInv, NEW b \in Boards, NEW P \in SUBSET Pins, Redrive(b, P),
         slots' \subseteq slots \cup {b},
         \A c \in Boards \ {b} : /\ enabled'[c] = enabled[c]
                                 /\ req'[c] = req[c]
                                 /\ c \in Watchers => vi'[c] = vi[c],
         enabled' \in [Boards -> BOOLEAN],
         req' \in [Boards -> SUBSET Pins],
         vi' \in [Watchers -> ViRegisters],
         restore' \in {"no", "apply", "drive"},
         todo' \subseteq slots',
         restore' = "no" => todo' = {},
         \A p \in Pins \ P : b \in slots' => (AwaitsDrive(b) \/ Honest(p, b))',
         \A c \in slots' \ {b} : AwaitsDrive(c) => AwaitsDrive(c)'
  PROVE  IInv'
<1>1. slots' \subseteq Boards
  BY DEF IInv, TypeOK
<1>2. TypeOK' /\ CountsRight'
  BY <1>1, RedriveCounts DEF IInv, TypeOK
<1>3. /\ \A p \in P : Honest(p, b)'
      /\ \A p \in Pins, c \in slots' \ {b} : Honest(p, c) => Honest(p, c)'
  BY <1>1, RedriveHonest DEF IInv
<1>4. \A p \in Pins, c \in slots : AwaitsDrive(c) \/ Honest(p, c)
  BY DEF IInv, WiresHonest, Honest
<1>5. \A p \in Pins, c \in slots' : (AwaitsDrive(c) \/ Honest(p, c))'
  <2> SUFFICES ASSUME NEW p \in Pins, NEW c \in slots'
               PROVE  (AwaitsDrive(c) \/ Honest(p, c))'
    OBVIOUS
  <2>1. CASE c # b
    <3>1. c \in slots
      BY <2>1
    <3> QED
      BY <2>1, <3>1, <1>3, <1>4
  <2>2. CASE c = b /\ p \in P
    BY <2>2, <1>3
  <2>3. CASE c = b /\ p \notin P
    BY <2>3
  <2> QED
    BY <2>1, <2>2, <2>3
<1>6. WiresHonest'
  BY <1>5 DEF WiresHonest, Honest
<1> QED
  BY <1>2, <1>6 DEF IInv

\* A card that is plugged in announces its lines, and a watcher is told of the others'.
LEMMA AttachStep ==
  ASSUME IInv, NEW b \in Boards, Attach(b)
  PROVE  IInv'
<1> USE DEF Attach, NotRestoring
<1>1. /\ slots' \subseteq slots \cup {b} /\ todo' \subseteq slots'
      /\ restore' \in {"no", "apply", "drive"} /\ (restore' = "no" => todo' = {})
  BY DEF IInv, TypeOK
<1>2. enabled' \in [Boards -> BOOLEAN]
  BY DEF IInv, TypeOK
<1>3. req' \in [Boards -> SUBSET Pins] /\ vi' \in [Watchers -> ViRegisters]
  <2>1. CASE b \in Watchers
    <3>1. PICK j \in Lines \cup {NoLine} : vi' = [vi EXCEPT ![b] = ViPowerOn(j)]
      BY <2>1
    <3>2. ViPowerOn(j) \in ViRegisters
      BY DEF ViPowerOn, ViRegisters
    <3> QED
      BY <2>1, <3>1, <3>2 DEF IInv, TypeOK
  <2>2. CASE b \notin Watchers
    <3>1. PICK q \in SUBSET CanPull[b] : req' = [req EXCEPT ![b] = q]
      BY <2>2
    <3>2. q \in SUBSET Pins
      BY BackplaneAssumption
    <3> QED
      BY <2>2, <3>1, <3>2 DEF IInv, TypeOK
  <2> QED
    BY <2>1, <2>2
<1>4. \A c \in Boards \ {b} : /\ enabled'[c] = enabled[c]
                              /\ req'[c] = req[c]
                              /\ c \in Watchers => vi'[c] = vi[c]
  BY DEF IInv, TypeOK
<1>5. \A c \in slots' \ {b} : AwaitsDrive(c) => AwaitsDrive(c)'
  BY DEF AwaitsDrive
<1>6. Redrive(b, Pins)
  OBVIOUS
<1> HIDE DEF Attach, NotRestoring
<1> QED
  BY <1>1, <1>2, <1>3, <1>4, <1>5, <1>6, RedriveStep

\* A card that is pulled lets go of every line it held.
LEMMA DetachStep ==
  ASSUME IInv, NEW b \in Boards, Detach(b)
  PROVE  IInv'
<1> USE DEF Detach, NotRestoring
<1>1. /\ slots' = slots \ {b} /\ todo' \subseteq slots'
      /\ restore' \in {"no", "apply", "drive"} /\ (restore' = "no" => todo' = {})
  BY DEF IInv, TypeOK
<1>2. enabled' \in [Boards -> BOOLEAN] /\ req' \in [Boards -> SUBSET Pins]
  BY DEF IInv, TypeOK
<1>3. vi' \in [Watchers -> ViRegisters]
  BY DEF IInv, TypeOK, ViRegisters, ViPowerOn
<1>4. \A c \in Boards \ {b} : /\ enabled'[c] = enabled[c]
                              /\ req'[c] = req[c]
                              /\ c \in Watchers => vi'[c] = vi[c]
  BY DEF IInv, TypeOK
<1>5. \A c \in slots' \ {b} : AwaitsDrive(c) => AwaitsDrive(c)'
  BY DEF AwaitsDrive
<1>6. Redrive(b, Pins) /\ b \notin slots'
  OBVIOUS
<1> HIDE DEF Detach, NotRestoring
<1> QED
  BY <1>1, <1>2, <1>3, <1>4, <1>5, <1>6, RedriveStep

\* A card that is disabled lets go of its lines, and drives them again when enabled.
LEMMA SetEnabledStep ==
  ASSUME IInv, NEW b \in Boards, SetEnabled(b)
  PROVE  IInv'
<1> USE DEF SetEnabled, NotRestoring
<1>1. /\ slots' \subseteq slots \cup {b} /\ todo' \subseteq slots'
      /\ restore' \in {"no", "apply", "drive"} /\ (restore' = "no" => todo' = {})
  BY DEF IInv, TypeOK
<1>2. /\ enabled' \in [Boards -> BOOLEAN]
      /\ req' \in [Boards -> SUBSET Pins]
      /\ vi' \in [Watchers -> ViRegisters]
  BY DEF IInv, TypeOK
<1>3. \A c \in Boards \ {b} : /\ enabled'[c] = enabled[c]
                              /\ req'[c] = req[c]
                              /\ c \in Watchers => vi'[c] = vi[c]
  BY DEF IInv, TypeOK
<1>4. \A c \in slots' \ {b} : AwaitsDrive(c) => AwaitsDrive(c)'
  BY DEF AwaitsDrive
<1>5. Redrive(b, Pins)
  OBVIOUS
<1> HIDE DEF SetEnabled, NotRestoring
<1> QED
  BY <1>1, <1>2, <1>3, <1>4, <1>5, RedriveStep

\* The three announcements of an ordinary card: it moves only the pins it announces.
LEMMA RequestStep ==
  ASSUME IInv, NEW b \in Boards, NEW P \in SUBSET Pins, NEW q \in SUBSET P,
         RequestMoves(b, P, q)
  PROVE  IInv'
<1> USE DEF RequestMoves, NotRestoring
<1>1. /\ slots' \subseteq slots \cup {b} /\ todo' \subseteq slots'
      /\ restore' \in {"no", "apply", "drive"} /\ (restore' = "no" => todo' = {})
  BY DEF IInv, TypeOK
<1>2. /\ enabled' \in [Boards -> BOOLEAN]
      /\ req' \in [Boards -> SUBSET Pins]
      /\ vi' \in [Watchers -> ViRegisters]
  BY DEF IInv, TypeOK
<1>3. \A c \in Boards \ {b} : /\ enabled'[c] = enabled[c]
                              /\ req'[c] = req[c]
                              /\ c \in Watchers => vi'[c] = vi[c]
  BY DEF IInv, TypeOK
<1>4. \A c \in slots' \ {b} : AwaitsDrive(c) => AwaitsDrive(c)'
  BY DEF AwaitsDrive
<1>5. ASSUME NEW p \in Pins \ P
      PROVE  Honest(p, b)'
  <2>1. /\ ~AwaitsDrive(b) /\ b \in slots /\ b \notin Watchers
        /\ p \in req'[b] <=> p \in req[b]
    BY DEF IInv, TypeOK, AwaitsDrive
  <2>2. Honest(p, b)
    BY <2>1 DEF IInv, WiresHonest, Honest
  <2>3. Pulls(b, p)' <=> Pulls(b, p)
    BY <2>1 DEF Pulls, Asserts
  <2>4. b \in wire'[p] <=> b \in wire[p]
    BY <2>1 DEF Redrive, Rewired, Notified
  <2> QED
    BY <2>2, <2>3, <2>4 DEF Honest
<1>6. Redrive(b, P)
  OBVIOUS
<1> HIDE DEF RequestMoves, NotRestoring
<1> QED
  BY <1>1, <1>2, <1>3, <1>4, <1>5, <1>6, RedriveStep

\* A watcher drives no pin but pin 73 and the VI lines.
LEMMA WatcherOffPins ==
  ASSUME IInv, NEW w \in Watchers, NEW p \in Pins \ IntPins
  PROVE  /\ ~Pulls(w, p) /\ ~PullsNext(w, p)
         /\ w \in slots => w \notin wire[p]
<1>1. p # pINT /\ p \notin Lines
  BY DEF IntPins
<1>2. ~Pulls(w, p) /\ ~PullsNext(w, p)
  BY <1>1, BackplaneAssumption DEF Pulls, PullsNext, Asserts, RtcLines
<1>3. ~AwaitsDrive(w)
  BY DEF AwaitsDrive
<1> QED
  BY <1>2, <1>3, BackplaneAssumption DEF IInv, WiresHonest

\* What a watcher drives it drives anew, and it never pulls the lines it watches.
LEMMA WatcherRedrive ==
  ASSUME IInv, NEW w \in Watchers, w \in slots, Redrive(w, IntPins)
  PROVE  \A p \in Pins \ IntPins : Honest(p, w)'
<1> SUFFICES ASSUME NEW p \in Pins \ IntPins
             PROVE  Honest(p, w)'
  OBVIOUS
<1>1. w \notin wire'[p]
  BY WatcherOffPins, BackplaneAssumption DEF Redrive, Rewired, IntPins
<1>2. ~Pulls(w, p)'
  BY WatcherOffPins DEF Pulls, PullsNext
<1> QED
  BY <1>1, <1>2 DEF Honest

\* A write to the 88-VI: its registers, then its own lines.
LEMMA ViHandlerStep ==
  ASSUME IInv, NEW w \in Watchers, NEW r \in ViRegisters, ViHandler(w, r)
  PROVE  IInv'
<1> USE DEF ViHandler, NotRestoring
<1>1. /\ slots' \subseteq slots \cup {w} /\ todo' \subseteq slots' /\ w \in Boards
      /\ restore' \in {"no", "apply", "drive"} /\ (restore' = "no" => todo' = {})
  BY BackplaneAssumption DEF IInv, TypeOK
<1>2. /\ enabled' \in [Boards -> BOOLEAN]
      /\ req' \in [Boards -> SUBSET Pins]
      /\ vi' \in [Watchers -> ViRegisters]
  BY DEF IInv, TypeOK
<1>3. \A c \in Boards \ {w} : /\ enabled'[c] = enabled[c]
                              /\ req'[c] = req[c]
                              /\ c \in Watchers => vi'[c] = vi[c]
  BY DEF IInv, TypeOK
<1>4. \A c \in slots' \ {w} : AwaitsDrive(c) => AwaitsDrive(c)'
  BY DEF AwaitsDrive
<1>5. Redrive(w, IntPins) /\ w \in slots /\ IntPins \in SUBSET Pins
  BY PinFacts
<1>6. \A p \in Pins \ IntPins : Honest(p, w)'
  BY <1>5, WatcherRedrive
<1> HIDE DEF ViHandler, NotRestoring
<1> QED
  BY <1>1, <1>2, <1>3, <1>4, <1>5, <1>6, RedriveStep

\* Every handler of the 88-VI leaves well-typed registers.
LEMMA WatcherStep ==
  ASSUME IInv, NEW w \in Watchers,
         ControlWrite(w) \/ RtcFire(w) \/ MoveRtcJumper(w) \/ ViReset(w)
  PROVE  IInv'
<1>1. vi[w] \in ViRegisters
  BY DEF IInv, TypeOK
<1>2. CASE ControlWrite(w)
  <2>1. PICK lit, clear, rtc, on \in BOOLEAN, lvl \in Levels :
          ViHandler(w, [vi[w] EXCEPT !.viEnabled = on, !.levelLive = lit, !.curLevel = lvl,
                                     !.rtcEnabled = rtc, !.rtcInt = @ /\ ~clear])
    BY <1>2 DEF ControlWrite
  <2>2. lvl \in 0..7
    BY BackplaneAssumption
  <2>3. [vi[w] EXCEPT !.viEnabled = on, !.levelLive = lit, !.curLevel = lvl,
                      !.rtcEnabled = rtc, !.rtcInt = @ /\ ~clear] \in ViRegisters
    BY <1>1, <2>2, ZenonT(60) DEF ViRegisters
  <2> QED
    BY <2>1, <2>3, ViHandlerStep
<1>3. CASE RtcFire(w)
  <2>1. [vi[w] EXCEPT !.rtcInt = TRUE] \in ViRegisters
    BY <1>1 DEF ViRegisters
  <2> QED
    BY <1>3, <2>1, ViHandlerStep DEF RtcFire
<1>4. CASE MoveRtcJumper(w)
  <2>1. PICK j \in Lines \cup {NoLine} : ViHandler(w, [vi[w] EXCEPT !.rtcJumper = j])
    BY <1>4 DEF MoveRtcJumper
  <2>2. [vi[w] EXCEPT !.rtcJumper = j] \in ViRegisters
    BY <1>1 DEF ViRegisters
  <2> QED
    BY <2>1, <2>2, ViHandlerStep
<1>5. CASE ViReset(w)
  <2>1. ViPowerOn(vi[w].rtcJumper) \in ViRegisters
    BY <1>1 DEF ViRegisters, ViPowerOn
  <2> QED
    BY <1>5, <2>1, ViHandlerStep DEF ViReset
<1> QED
  BY <1>2, <1>3, <1>4, <1>5

\* RESTORE begins: from here on the ordinary cards may carry stale flags.
LEMMA RestoreBeginStep ==
  ASSUME IInv, RestoreBegin
  PROVE  IInv'
<1> USE DEF RestoreBegin
<1>1. TypeOK'
  BY DEF IInv, TypeOK
<1>2. CountsRight'
  BY DEF IInv, CountsRight
<1>3. ASSUME NEW p \in Pins, NEW b \in slots'
      PROVE  (AwaitsDrive(b) \/ (b \in wire[p] <=> Pulls(b, p)))'
  <2>1. AwaitsDrive(b) => AwaitsDrive(b)'
    BY DEF AwaitsDrive
  <2>2. (b \in wire[p] <=> Pulls(b, p)) <=> (b \in wire[p] <=> Pulls(b, p))'
    BY DEF Pulls
  <2> QED
    BY <2>1, <2>2 DEF IInv, WiresHonest
<1> QED
  BY <1>1, <1>2, <1>3 DEF IInv, WiresHonest

\* Where a visit leaves the pass.
LEMMA VisitFacts ==
  ASSUME IInv, NEW b \in Boards, NEW p, NEW next \in {"no", "drive"},
         p \in {"apply", "drive"}, Visit(b, p, next)
  PROVE  /\ b \in slots /\ slots' = slots /\ todo' \subseteq slots'
         /\ restore' \in {"no", "apply", "drive"}
         /\ restore' = "no" => todo' = {}
         /\ restore' \in {p, next}
         /\ restore' = p /\ p # next => todo' = todo \ {b}
         /\ restore' = "drive" /\ p = "apply" => todo' = slots
BY DEF Visit, IInv, TypeOK

\* RESTORE gives one card its registers while the cards not yet visited drive nothing.
LEMMA RestoreApplyStep ==
  ASSUME IInv, NEW b \in Boards, RestoreApply(b)
  PROVE  IInv'
<1> USE DEF RestoreApply
<1>1. /\ b \in slots /\ slots' = slots /\ todo' \subseteq slots'
      /\ restore' \in {"no", "apply", "drive"} /\ (restore' = "no" => todo' = {})
      /\ restore = "apply"
      /\ restore' = "apply" \/ (restore' = "drive" /\ todo' = slots)
  BY VisitFacts DEF Visit
<1>2. enabled' \in [Boards -> BOOLEAN]
  BY DEF IInv, TypeOK
<1>3. req' \in [Boards -> SUBSET Pins] /\ vi' \in [Watchers -> ViRegisters]
  <2>1. CASE b \in Watchers
    <3>1. PICK r \in [viEnabled : BOOLEAN, levelLive : BOOLEAN, curLevel : Levels,
                      rtcEnabled : BOOLEAN, rtcInt : BOOLEAN, rtcJumper : {vi[b].rtcJumper}] :
            vi' = [vi EXCEPT ![b] = r]
      BY <2>1
    <3>2. r \in ViRegisters
      <4>1. vi[b].rtcJumper \in Lines \cup {NoLine}
        BY <2>1 DEF IInv, TypeOK, ViRegisters
      <4> QED
        BY <4>1, BackplaneAssumption DEF ViRegisters
    <3> QED
      BY <2>1, <3>1, <3>2 DEF IInv, TypeOK
  <2>2. CASE b \notin Watchers
    <3>1. PICK q \in SUBSET CanPull[b] : req' = [req EXCEPT ![b] = q]
      BY <2>2
    <3>2. q \in SUBSET Pins
      BY BackplaneAssumption
    <3> QED
      BY <2>2, <3>1, <3>2 DEF IInv, TypeOK
  <2> QED
    BY <2>1, <2>2
<1>4. \A c \in Boards \ {b} : /\ enabled'[c] = enabled[c]
                              /\ req'[c] = req[c]
                              /\ c \in Watchers => vi'[c] = vi[c]
  BY DEF IInv, TypeOK
<1>5. \A c \in slots : c \notin Watchers => AwaitsDrive(c)'
  BY <1>1 DEF AwaitsDrive
<1>6. \A c \in slots' \ {b} : AwaitsDrive(c) => AwaitsDrive(c)'
  BY <1>1, <1>5 DEF AwaitsDrive
<1>7. CASE Redrive(b, IntPins)
  <2>1. \A p \in Pins \ IntPins : (AwaitsDrive(b) \/ Honest(p, b))'
    BY <1>1, <1>5, <1>7, WatcherRedrive
  <2>2. slots' \subseteq slots \cup {b} /\ IntPins \in SUBSET Pins
    BY <1>1, PinFacts
  <2> HIDE DEF RestoreApply
  <2> QED
    BY <1>1, <1>2, <1>3, <1>4, <1>6, <1>7, <2>1, <2>2, RedriveStep
<1>8. CASE b \notin Watchers /\ UNCHANGED <<wire, count, viMask>>
  <2>1. TypeOK' /\ CountsRight'
    BY <1>1, <1>2, <1>3, <1>8 DEF IInv, TypeOK, CountsRight
  <2>2. ASSUME NEW p \in Pins, NEW c \in slots'
        PROVE  (AwaitsDrive(c) \/ (c \in wire[p] <=> Pulls(c, p)))'
    <3>1. CASE c \notin Watchers
      BY <3>1, <1>1, <1>5
    <3>2. CASE c \in Watchers
      <4>1. ~AwaitsDrive(c) /\ c # b /\ c \in Boards /\ c \in slots
        BY <3>2, <1>1, <1>8, BackplaneAssumption DEF AwaitsDrive
      <4>2. Pulls(c, p)' <=> Pulls(c, p)
        BY <3>2, <4>1, <1>4, <1>8 DEF Pulls, Asserts
      <4> QED
        BY <4>1, <4>2, <1>8 DEF IInv, WiresHonest
    <3> QED
      BY <3>1, <3>2
  <2> QED
    BY <2>1, <2>2 DEF IInv, WiresHonest
<1> QED
  BY <1>7, <1>8

\* RESTORE has one card drive its lines.
LEMMA RestoreDriveStep ==
  ASSUME IInv, NEW b \in Boards, RestoreDrive(b)
  PROVE  IInv'
<1> USE DEF RestoreDrive
<1>1. /\ slots' \subseteq slots \cup {b} /\ todo' \subseteq slots'
      /\ restore' \in {"no", "apply", "drive"} /\ (restore' = "no" => todo' = {})
  BY VisitFacts
<1>2. /\ enabled' \in [Boards -> BOOLEAN]
      /\ req' \in [Boards -> SUBSET Pins]
      /\ vi' \in [Watchers -> ViRegisters]
  BY DEF IInv, TypeOK
<1>3. \A c \in Boards \ {b} : /\ enabled'[c] = enabled[c]
                              /\ req'[c] = req[c]
                              /\ c \in Watchers => vi'[c] = vi[c]
  OBVIOUS
<1>4. \A c \in slots' \ {b} : AwaitsDrive(c) => AwaitsDrive(c)'
  BY DEF AwaitsDrive, Visit
<1>5. Redrive(b, Pins)
  OBVIOUS
<1> HIDE DEF RestoreDrive
<1> QED
  BY <1>1, <1>2, <1>3, <1>4, <1>5, RedriveStep

\* Every step of the backplane keeps the invariant: one case for each handler.
LEMMA StepIInv == IInv /\ [Next]_vars => IInv'
<1> SUFFICES ASSUME IInv, [Next]_vars
             PROVE  IInv'
  OBVIOUS
<1>1. ASSUME NEW b \in Boards, IntRequest(b)
      PROVE  IInv'
  <2>1. PICK q \in SUBSET (CanPull[b] \cap IntPins) : RequestMoves(b, IntPins, q)
    BY <1>1 DEF IntRequest
  <2>2. q \in SUBSET IntPins /\ IntPins \in SUBSET Pins
    BY PinFacts
  <2> QED
    BY <2>1, <2>2, RequestStep
<1>2. ASSUME NEW b \in Boards, NmiRequest(b)
      PROVE  IInv'
  <2>1. PICK q \in SUBSET (CanPull[b] \cap {NMI}) : RequestMoves(b, {NMI}, q)
    BY <1>2 DEF NmiRequest
  <2>2. q \in SUBSET {NMI} /\ {NMI} \in SUBSET Pins
    BY PinFacts
  <2> QED
    BY <2>1, <2>2, RequestStep
<1>3. ASSUME NEW b \in Boards, HoldRequest(b)
      PROVE  IInv'
  <2>1. PICK q \in SUBSET (CanPull[b] \cap {pHOLD}) : RequestMoves(b, {pHOLD}, q)
    BY <1>3 DEF HoldRequest
  <2>2. q \in SUBSET {pHOLD} /\ {pHOLD} \in SUBSET Pins
    BY PinFacts
  <2> QED
    BY <2>1, <2>2, RequestStep
<1>4. CASE UNCHANGED vars
  <2>1. TypeOK' /\ CountsRight'
    BY <1>4 DEF vars, IInv, TypeOK, CountsRight
  <2>2. \A p \in Pins, b \in slots' :
          (AwaitsDrive(b) \/ (b \in wire[p] <=> Pulls(b, p)))'
    BY <1>4 DEF vars, IInv, WiresHonest, AwaitsDrive, Pulls
  <2> QED
    BY <2>1, <2>2 DEF IInv, WiresHonest
<1> QED
  BY <1>1, <1>2, <1>3, <1>4, AttachStep, DetachStep, SetEnabledStep, WatcherStep,
     RestoreBeginStep, RestoreApplyStep, RestoreDriveStep DEF Next

\* The counters, the flags and the registers agree in every reachable state.
THEOREM Invariance == Spec => []IInv
<1>1. Init => IInv
  BY InitIInv
<1>2. IInv /\ [Next]_vars => IInv'
  BY StepIInv
<1> QED
  BY <1>1, <1>2, PTL DEF Spec

\* No counter of the bus ever goes below zero, and every register stays in range.
THEOREM TypeCorrect == Spec => []TypeOK
<1>1. IInv => TypeOK
  BY DEF IInv
<1> QED
  BY <1>1, Invariance, PTL

\* What Bus::verifyInt, verifyNmi, verifyHold and verifyVi check of the counters
\* holds always, for any cards and any wiring.
THEOREM CountersAreRight == Spec => []CountsRight
<1>1. IInv => CountsRight
  BY DEF IInv
<1> QED
  BY <1>1, Invariance, PTL

\* No card is ever left with a stale flag outside RESTORE, the cards that watch
\* the lines of others included.
THEOREM FlagsAreHonest == Spec => []WiresHonest
<1>1. IInv => WiresHonest
  BY DEF IInv
<1> QED
  BY <1>1, Invariance, PTL

\* A counter above zero means some attached card pulls the pin now, and no other.
LEMMA CountMeansPulled ==
  ASSUME IInv, restore = "no", NEW p \in Pins
  PROVE  count[p] > 0 <=> \E b \in slots : Pulls(b, p)
<1>1. /\ IsFiniteSet(wire[p] \cap slots) /\ Cardinality(wire[p] \cap slots) \in Nat
      /\ count[p] = Cardinality(wire[p] \cap slots)
  BY CardsFinite DEF IInv, TypeOK, CountsRight
<1>2. count[p] > 0 <=> wire[p] \cap slots # {}
  BY <1>1, FS_EmptySet
<1>3. \A b \in slots : b \in wire[p] <=> Pulls(b, p)
  BY DEF IInv, WiresHonest, AwaitsDrive
<1> QED
  BY <1>2, <1>3

\* The processor and the run loop read the wire-OR although they ask no card.
THEOREM PinsAreWireOr == Spec => []PinIsWireOr
<1>1. IInv => PinIsWireOr
  BY CountMeansPulled DEF PinIsWireOr
<1> QED
  BY <1>1, Invariance, PTL

\* A request on a VI line the 88-VI admits has reached pin 73 by the time anyone
\* can look, in whatever order the line, the level and the enables were set.
THEOREM RequestsReachPin73 == Spec => []RequestReachesPin73
<1>1. ASSUME IInv, NEW b \in slots, NEW w \in slots \cap Watchers, NEW i \in Lines,
             restore = "no", Pulls(b, i), enabled[w], vi[w].viEnabled,
             vi[w].levelLive => i < vi[w].curLevel
      PROVE  count[pINT] > 0
  <2>1. i \in Pins /\ pINT \in Pins /\ i \in 0..7
    BY PinFacts, BackplaneAssumption
  <2>2. i \in viMask
    <3>1. count[i] > 0
      BY <1>1, <2>1, CountMeansPulled
    <3> QED
      BY <1>1, <3>1 DEF IInv, CountsRight
  <2> DEFINE pending == viMask \cup RtcLines(vi[w])
  <2>3. pending \subseteq 0..7 /\ i \in pending
    BY <1>1, <2>2, BackplaneAssumption DEF IInv, TypeOK, RtcLines
  <2>4. Highest(pending) <= i /\ Highest(pending) \in 0..7
    BY <2>3, HighestIsLeast
  <2>5. vi[w].curLevel \in 0..7
    BY <1>1 DEF IInv, TypeOK, ViRegisters
  <2>6. HasWinner(vi[w], pending)
    <3> HIDE DEF pending
    <3> QED
      BY <1>1, <2>1, <2>3, <2>4, <2>5 DEF HasWinner
  <2>7. Pulls(w, pINT)
    BY <1>1, <2>6 DEF Pulls, Asserts
  <2> QED
    BY <1>1, <2>1, <2>7, CountMeansPulled
<1>2. IInv => RequestReachesPin73
  BY <1>1 DEF RequestReachesPin73
<1> QED
  BY <1>2, Invariance, PTL
-----------------------------------------------------------------------------
(***************************************************************************)
(* The event queue, for any number of cards and every bound.               *)
(*                                                                         *)
(* Nothing in the queue ties a number to a card but the discipline of the  *)
(* cards: each holds one number, cancels it before it asks for another,    *)
(* and the counter never goes back.  The inductive invariant says so:      *)
(* every number anywhere has been given out (Numbered), so the next one is *)
(* nobody's; a live job's number is held by its owner (NoOrphanDeadline)   *)
(* and by nobody else (CancelIsMine); and what a card holds is live, with  *)
(* one entry in the heap (Armed), unless POWER or RESTORE has still to     *)
(* visit the card.                                                         *)
(***************************************************************************)
Numbered ==
  \A c \in Clocks : /\ \A x \in heap[c] : x.h \in 1..nextHandle
                    /\ \A j \in live[c] : j.h \in 1..nextHandle

Armed(b) ==
  /\ [h |-> wake[b], owner |-> b] \in live[where[b]]
  /\ \E x \in heap[where[b]] : {y \in heap[where[b]] : y.h = wake[b]} = {x}

AllArmed == \A b \in Timed : where[b] # "out" /\ b \notin pass /\ wake[b] # kNone => Armed(b)

Queue == QueueTypeOK /\ Numbered /\ CancelIsMine /\ NoOrphanDeadline /\ AllArmed
QueueInv == Queue /\ NothingOverdue

\* The two clocks are different places, and neither is "out".
LEMMA Places == "main" \in Clocks /\ "out" \notin Clocks
BY DEF Clocks

(***************************************************************************)
(* refresh() of one card, on a queue from which the step has taken some    *)
(* entries and some jobs of that card only (Fire) or none.                 *)
(***************************************************************************)
LEMMA Refreshes ==
  ASSUME Queue, NEW b \in Timed, NEW c \in Clocks, where[b] = c,
         NEW items \in SUBSET heap[c], NEW jobs \in SUBSET live[c], NEW now \in Nat,
         \A x \in heap[c] \ items : \E j \in live[c] : j.h = x.h /\ j.owner = b,
         \A j \in live[c] \ jobs : j.owner = b,
         Refresh(b, c, items, jobs, now),
         t' \in [Clocks -> Nat], target' \in Nat, draining' \in BOOLEAN,
         UNCHANGED where, pass' \subseteq pass, pass \ pass' \subseteq {b}
  PROVE  /\ Queue'
         /\ \A x \in heap'[c] : IsLive(live'[c], x.h) =>
              x.when > now \/ (x \in items /\ IsLive(jobs, x.h))
         /\ \A e \in Clocks \ {c} : heap'[e] = heap[e] /\ live'[e] = live[e]
<1> USE EventQueueAssumption
<1> DEFINE kept == Cancel(jobs, wake[b])
           new(d) == [when |-> now + d, h |-> nextHandle + 1]
           job == [h |-> nextHandle + 1, owner |-> b]
<1>0. /\ nextHandle \in Nat /\ wake \in [Timed -> 0..nextHandle]
      /\ heap \in [Clocks -> SUBSET Item] /\ live \in [Clocks -> SUBSET Job]
      /\ where \in [Timed -> Clocks \cup {"out"}] /\ c # "out"
      /\ pass \subseteq Attached("main")
  BY Places DEF Queue, QueueTypeOK
<1>1. /\ kept \subseteq live[c]
      /\ \A j \in kept : j.h # wake[b]
      /\ \A j \in live[c] : j.owner # b => j \in kept
  <2>1. \A j \in live[c] : j.owner # b => j.h # wake[b]
    BY DEF Queue, CancelIsMine
  <2> QED
    BY <2>1 DEF Cancel
<1>2. \A j \in kept : j.owner # b
  BY <1>1 DEF Queue, NoOrphanDeadline
<1>3. CASE /\ wake' = [wake EXCEPT ![b] = kNone]
           /\ live' = [live EXCEPT ![c] = kept]
           /\ heap' = [heap EXCEPT ![c] = items]
           /\ UNCHANGED nextHandle
  <2>1. /\ live'[c] = kept /\ heap'[c] = items
        /\ \A e \in Clocks \ {c} : heap'[e] = heap[e] /\ live'[e] = live[e]
        /\ wake'[b] = 0 /\ \A a \in Timed \ {b} : wake'[a] = wake[a]
    BY <1>0, <1>3 DEF kNone
  <2>2. QueueTypeOK'
    BY <1>0, <1>1, <1>3, <2>1 DEF QueueTypeOK, kNone, Attached, Queue
  <2>3. Numbered'
    BY <1>1, <1>3, <2>1 DEF Queue, Numbered
  <2>4. CancelIsMine'
    <3> SUFFICES ASSUME NEW a \in Timed, NEW e \in Clocks, NEW j \in live'[e], j.h = wake'[a]
                 PROVE  j.owner = a
      BY DEF CancelIsMine
    <3>1. j \in live[e] /\ j.h \in 1..nextHandle
      BY <1>1, <2>1 DEF Queue, Numbered
    <3>2. a # b
      BY <3>1, <2>1, <1>0
    <3> QED
      BY <3>1, <3>2, <2>1 DEF Queue, CancelIsMine
  <2>5. NoOrphanDeadline'
    <3> SUFFICES ASSUME NEW e \in Clocks, NEW j \in live'[e]
                 PROVE  where[j.owner] = e /\ wake'[j.owner] = j.h
      BY DEF NoOrphanDeadline
    <3>1. j \in live[e] /\ j.owner \in Timed
      BY <1>0, <1>1, <2>1 DEF Job
    <3>2. where[j.owner] = e /\ wake[j.owner] = j.h
      BY <3>1 DEF Queue, NoOrphanDeadline
    <3>3. j.owner # b
      BY <3>2, <1>2, <2>1
    <3> QED
      BY <3>1, <3>2, <3>3, <2>1
  <2>6. AllArmed'
    <3> SUFFICES ASSUME NEW a \in Timed, where[a] # "out", a \notin pass', wake'[a] # kNone
                 PROVE  Armed(a)'
      BY DEF AllArmed
    <3>1. a # b /\ a \notin pass /\ wake'[a] = wake[a]
      BY <2>1 DEF kNone
    <3>2. Armed(a)
      BY <3>1 DEF Queue, AllArmed
    <3>3. CASE where[a] = c
      <4>1. [h |-> wake[a], owner |-> a] \in live'[c]
        BY <3>1, <3>2, <3>3, <1>1, <2>1 DEF Armed
      <4>2. \A x \in heap[c] \ items : x.h # wake[a]
        BY <3>1 DEF Queue, CancelIsMine
      <4>3. {y \in heap'[c] : y.h = wake[a]} = {y \in heap[c] : y.h = wake[a]}
        BY <4>2, <2>1
      <4> QED
        BY <4>1, <4>3, <3>1, <3>2, <3>3 DEF Armed
    <3>4. CASE where[a] # c
      BY <3>1, <3>2, <3>4, <2>1, <1>0 DEF Armed
    <3> QED
      BY <3>3, <3>4
  <2>7. \A x \in heap'[c] : IsLive(live'[c], x.h) => x \in items /\ IsLive(jobs, x.h)
    BY <2>1 DEF IsLive, Cancel
  <2> QED
    BY <2>1, <2>2, <2>3, <2>4, <2>5, <2>6, <2>7 DEF Queue
<1>4. ASSUME NEW d \in 1..MaxDelay,
             nextHandle' = nextHandle + 1,
             wake' = [wake EXCEPT ![b] = nextHandle + 1],
             live' = [live EXCEPT ![c] = kept \cup {job}],
             heap' = [heap EXCEPT ![c] = items \cup {new(d)}]
      PROVE  /\ Queue'
             /\ \A x \in heap'[c] : IsLive(live'[c], x.h) =>
                  x.when > now \/ (x \in items /\ IsLive(jobs, x.h))
             /\ \A e \in Clocks \ {c} : heap'[e] = heap[e] /\ live'[e] = live[e]
  <2>1. /\ live'[c] = kept \cup {job} /\ heap'[c] = items \cup {new(d)}
        /\ \A e \in Clocks \ {c} : heap'[e] = heap[e] /\ live'[e] = live[e]
        /\ wake'[b] = nextHandle + 1 /\ \A a \in Timed \ {b} : wake'[a] = wake[a]
    BY <1>0, <1>4
  <2>2. new(d) \in Item /\ job \in Job /\ new(d).h = nextHandle + 1 /\ job.h = nextHandle + 1
    BY <1>0 DEF Item, Job
  <2>3. QueueTypeOK'
    <3>1. wake' \in [Timed -> 0..nextHandle']
      BY <1>0, <1>4
    <3>2. heap' \in [Clocks -> SUBSET Item] /\ live' \in [Clocks -> SUBSET Job]
      BY <1>0, <1>1, <1>4, <2>2
    <3> QED
      BY <1>0, <1>4, <3>1, <3>2 DEF QueueTypeOK, Attached, Queue
  <2>4. Numbered'
    <3> SUFFICES ASSUME NEW e \in Clocks
                 PROVE  /\ \A x \in heap'[e] : x.h \in 1..(nextHandle + 1)
                        /\ \A j \in live'[e] : j.h \in 1..(nextHandle + 1)
      BY <1>4 DEF Numbered
    <3>1. /\ \A x \in heap[e] : x.h \in 1..(nextHandle + 1)
          /\ \A j \in live[e] : j.h \in 1..(nextHandle + 1)
      BY <1>0 DEF Queue, Numbered
    <3>2. nextHandle + 1 \in 1..(nextHandle + 1)
      BY <1>0
    <3> QED
      BY <3>1, <3>2, <1>1, <2>1, <2>2
  <2>5. \A a \in Timed : wake[a] # nextHandle + 1
    BY <1>0
  <2>6. CancelIsMine'
    <3> SUFFICES ASSUME NEW a \in Timed, NEW e \in Clocks, NEW j \in live'[e], j.h = wake'[a]
                 PROVE  j.owner = a
      BY DEF CancelIsMine
    <3>1. CASE j \in live[e]
      <4>1. j.h \in 1..nextHandle
        BY <3>1 DEF Queue, Numbered
      <4>2. a # b
        BY <4>1, <2>1, <1>0
      <4> QED
        BY <4>2, <3>1, <2>1 DEF Queue, CancelIsMine
    <3>2. CASE j \notin live[e]
      <4>1. j = job
        BY <3>2, <1>1, <2>1
      <4> QED
        BY <4>1, <2>1, <2>2, <2>5
    <3> QED
      BY <3>1, <3>2
  <2>7. NoOrphanDeadline'
    <3> SUFFICES ASSUME NEW e \in Clocks, NEW j \in live'[e]
                 PROVE  where[j.owner] = e /\ wake'[j.owner] = j.h
      BY DEF NoOrphanDeadline
    <3>1. CASE j \in live[e] /\ j.owner # b
      <4>1. where[j.owner] = e /\ wake[j.owner] = j.h /\ j.owner \in Timed
        BY <3>1, <1>0 DEF Queue, NoOrphanDeadline, Job
      <4> QED
        BY <4>1, <3>1, <2>1
    <3>2. CASE j \in live[e] /\ j.owner = b
      <4>1. e = c
        BY <3>2 DEF Queue, NoOrphanDeadline
      <4>2. j \notin kept
        BY <3>2, <1>2
      <4>3. j = job
        BY <4>1, <4>2, <2>1
      <4> QED
        BY <4>1, <4>3, <2>1
    <3>3. CASE j \notin live[e]
      <4>1. j = job /\ e = c
        BY <3>3, <1>1, <2>1
      <4> QED
        BY <4>1, <2>1
    <3> QED
      BY <3>1, <3>2, <3>3
  <2>8. AllArmed'
    <3> SUFFICES ASSUME NEW a \in Timed, where[a] # "out", a \notin pass', wake'[a] # kNone
                 PROVE  Armed(a)'
      BY DEF AllArmed
    <3>1. CASE a = b
      <4>1. \A y \in items : y.h # nextHandle + 1
        BY <1>0 DEF Queue, Numbered
      <4>2. {y \in heap'[c] : y.h = nextHandle + 1} = {new(d)}
        BY <4>1, <2>1, <2>2
      <4>3. job \in live'[c] /\ new(d) \in heap'[c]
        BY <2>1
      <4>4. wake'[a] = nextHandle + 1 /\ where'[a] = c
        BY <3>1, <2>1
      <4> HIDE DEF new
      <4> QED
        BY <3>1, <4>2, <4>3, <4>4 DEF Armed
    <3>2. CASE a # b /\ where[a] = c
      <4>1. Armed(a) /\ wake'[a] = wake[a]
        BY <3>2, <2>1 DEF Queue, AllArmed
      <4>2. [h |-> wake[a], owner |-> a] \in live'[c]
        BY <4>1, <3>2, <1>1, <2>1 DEF Armed
      <4>3. \A x \in heap[c] \ items : x.h # wake[a]
        BY <3>2 DEF Queue, CancelIsMine
      <4>4. {y \in heap'[c] : y.h = wake[a]} = {y \in heap[c] : y.h = wake[a]}
        BY <4>3, <2>1, <2>2, <2>5
      <4> QED
        BY <4>1, <4>2, <4>4, <3>2 DEF Armed
    <3>3. CASE a # b /\ where[a] # c
      <4>1. Armed(a) /\ wake'[a] = wake[a]
        BY <3>3, <2>1 DEF Queue, AllArmed
      <4> QED
        BY <4>1, <3>3, <2>1, <1>0 DEF Armed
    <3> QED
      BY <3>1, <3>2, <3>3
  <2>9. \A x \in heap'[c] : IsLive(live'[c], x.h) =>
          x.when > now \/ (x \in items /\ IsLive(jobs, x.h))
    <3> SUFFICES ASSUME NEW x \in heap'[c], IsLive(live'[c], x.h)
                 PROVE  x.when > now \/ (x \in items /\ IsLive(jobs, x.h))
      OBVIOUS
    <3>1. CASE x = new(d)
      BY <3>1
    <3>2. CASE x # new(d)
      <4>1. x \in items /\ x.h # nextHandle + 1
        BY <3>2, <2>1, <1>0 DEF Queue, Numbered
      <4> QED
        BY <4>1, <2>1, <2>2 DEF IsLive, Cancel
    <3> QED
      BY <3>1, <3>2
  <2> QED
    BY <2>1, <2>3, <2>4, <2>6, <2>7, <2>8, <2>9 DEF Queue
<1> QED
  BY <1>3, <1>4 DEF Refresh

-----------------------------------------------------------------------------
\* The empty queue, with no card attached.
LEMMA StartsSound == QueueInit => QueueInv
<1> SUFFICES ASSUME QueueInit PROVE QueueInv
  OBVIOUS
<1> USE EventQueueAssumption, Places DEF QueueInit
<1>1. QueueTypeOK
  <2>1. t \in [Clocks -> Nat] /\ heap \in [Clocks -> SUBSET Item] /\ live \in [Clocks -> SUBSET Job]
    OBVIOUS
  <2>2. wake \in [Timed -> 0..nextHandle] /\ where \in [Timed -> Clocks \cup {"out"}]
    BY DEF kNone
  <2> QED
    BY <2>1, <2>2 DEF QueueTypeOK, Attached
<1>2. Numbered /\ CancelIsMine /\ NoOrphanDeadline
  BY DEF Numbered, CancelIsMine, NoOrphanDeadline
<1>3. AllArmed
  BY DEF AllArmed
<1>4. NothingOverdue
  BY DEF NothingOverdue
<1> QED
  BY <1>1, <1>2, <1>3, <1>4 DEF QueueInv, Queue

\* refresh() outside the drain of a queue: a port access, or the visit of POWER
\* or RESTORE to a card.
LEMMA CardRefreshes ==
  ASSUME QueueInv, NEW b \in Timed, where[b] # "out",
         Refresh(b, where[b], heap[where[b]], live[where[b]], t[where[b]]),
         UNCHANGED <<t, where, target, draining>>,
         pass' \subseteq pass, pass \ pass' \subseteq {b}
  PROVE  QueueInv'
<1>1. /\ where[b] \in Clocks /\ t \in [Clocks -> Nat]
      /\ target \in Nat /\ draining \in BOOLEAN
  BY DEF QueueInv, Queue, QueueTypeOK
<1>2. /\ Queue'
      /\ \A x \in heap'[where[b]] : IsLive(live'[where[b]], x.h) =>
           x.when > t[where[b]] \/ (x \in heap[where[b]] /\ IsLive(live[where[b]], x.h))
      /\ \A e \in Clocks \ {where[b]} : heap'[e] = heap[e] /\ live'[e] = live[e]
  <2> DEFINE c == where[b]
  <2>1. Queue /\ c \in Clocks /\ t[c] \in Nat
    BY <1>1 DEF QueueInv
  <2>2. /\ t' \in [Clocks -> Nat] /\ target' \in Nat /\ draining' \in BOOLEAN
        /\ UNCHANGED where
    BY <1>1
  <2>3. /\ \A x \in heap[c] \ heap[c] : \E j \in live[c] : j.h = x.h /\ j.owner = b
        /\ \A j \in live[c] \ live[c] : j.owner = b
        /\ heap[c] \in SUBSET heap[c] /\ live[c] \in SUBSET live[c]
    OBVIOUS
  <2>4. Refresh(b, c, heap[c], live[c], t[c])
    OBVIOUS
  <2>5. where[b] = c
    OBVIOUS
  <2> HIDE DEF c
  <2>6. /\ Queue'
        /\ \A x \in heap'[c] : IsLive(live'[c], x.h) =>
             x.when > t[c] \/ (x \in heap[c] /\ IsLive(live[c], x.h))
        /\ \A e \in Clocks \ {c} : heap'[e] = heap[e] /\ live'[e] = live[e]
    BY <2>1, <2>2, <2>3, <2>4, <2>5, Refreshes
  <2> QED
    BY <2>6 DEF c
<1>3. NothingOverdue'
  <2>1. CASE where[b] = "main"
    BY <1>1, <1>2, <2>1 DEF NothingOverdue, QueueInv
  <2>2. CASE where[b] # "main"
    <3>1. heap'["main"] = heap["main"] /\ live'["main"] = live["main"]
      BY <1>2, <2>2, Places
    <3> QED
      BY <3>1 DEF NothingOverdue, QueueInv
  <2> QED
    BY <2>1, <2>2
<1> QED
  BY <1>2, <1>3 DEF QueueInv

\* The callback of a deadline: its owner refreshes a queue without it.
LEMMA FireKeeps ==
  ASSUME QueueInv, NEW x \in heap["main"], NEW j \in live["main"], Fire(x, j)
  PROVE  QueueInv'
<1> USE Places
<1> DEFINE b == j.owner
<1>1. /\ heap["main"] \subseteq Item /\ live["main"] \subseteq Job
      /\ t \in [Clocks -> Nat] /\ target \in Nat /\ draining \in BOOLEAN
  BY DEF QueueInv, Queue, QueueTypeOK
<1>2. b \in Timed /\ where[b] = "main"
  BY <1>1 DEF Job, QueueInv, Queue, NoOrphanDeadline
<1>3. t' \in [Clocks -> Nat] /\ t'["main"] \in Nat
  BY <1>1 DEF Fire, Later, Item
<1>4. UNCHANGED <<where, target, draining, pass>> /\ draining
  BY DEF Fire
<1>5. Queue'
  <2>1. Queue
    BY DEF QueueInv
  <2>2. PICK now \in Nat, items \in SUBSET heap["main"], jobs \in SUBSET live["main"] :
          now = t'["main"] /\ items = heap["main"] \ {x} /\ jobs = live["main"] \ {j}
    BY <1>3
  <2>3. Refresh(b, "main", items, jobs, now) /\ j.h = x.h
    BY <2>2 DEF Fire, Refresh
  <2>4. /\ \A y \in heap["main"] \ items : \E k \in live["main"] : k.h = y.h /\ k.owner = b
        /\ \A k \in live["main"] \ jobs : k.owner = b
    BY <2>2, <2>3
  <2>5. /\ target' \in Nat /\ draining' \in BOOLEAN
        /\ UNCHANGED where /\ pass' \subseteq pass /\ pass \ pass' \subseteq {b}
    BY <1>1, <1>4
  <2>6. b \in Timed /\ where[b] = "main" /\ "main" \in Clocks /\ t' \in [Clocks -> Nat]
    BY <1>2, <1>3
  <2> HIDE DEF b
  <2> QED
    BY <2>1, <2>3, <2>4, <2>5, <2>6, Refreshes
<1> QED
  BY <1>4, <1>5 DEF QueueInv, NothingOverdue

\* The steps that arm nothing and take away at most a tombstone, a card or time.
LEMMA SkipKeeps ==
  ASSUME QueueInv, NEW x \in heap["main"], Skip(x)
  PROVE  QueueInv'
<1> USE Places
<1>1. /\ heap' = [heap EXCEPT !["main"] = @ \ {x}]
      /\ UNCHANGED <<t, live, nextHandle, where, wake, target, draining, pass>>
      /\ draining /\ ~IsLive(live["main"], x.h)
  BY DEF Skip
<1>2. heap \in [Clocks -> SUBSET Item]
  BY DEF QueueInv, Queue, QueueTypeOK
<1>3. /\ heap'["main"] = heap["main"] \ {x}
      /\ \A e \in Clocks \ {"main"} : heap'[e] = heap[e]
  BY <1>1, <1>2
<1>4. QueueTypeOK' /\ Numbered' /\ CancelIsMine' /\ NoOrphanDeadline'
  BY <1>1, <1>2, <1>3
     DEF QueueInv, Queue, QueueTypeOK, Attached, Numbered, CancelIsMine, NoOrphanDeadline
<1>5. AllArmed'
  <2> SUFFICES ASSUME NEW a \in Timed, where[a] # "out", a \notin pass, wake[a] # kNone
               PROVE  Armed(a)'
    BY <1>1 DEF AllArmed
  <2>1. Armed(a) /\ where[a] \in Clocks
    BY DEF QueueInv, Queue, AllArmed, QueueTypeOK
  <2>2. CASE where[a] = "main"
    <3>1. x.h # wake[a]
      BY <1>1, <2>1, <2>2 DEF Armed, IsLive
    <3>2. {y \in heap'["main"] : y.h = wake[a]} = {y \in heap["main"] : y.h = wake[a]}
      BY <1>3, <3>1
    <3> QED
      BY <1>1, <2>1, <2>2, <3>2 DEF Armed
  <2>3. CASE where[a] # "main"
    BY <1>1, <1>3, <2>1, <2>3 DEF Armed
  <2> QED
    BY <2>2, <2>3
<1> QED
  BY <1>1, <1>4, <1>5 DEF QueueInv, Queue, NothingOverdue

\* The begin of an advance, and its end with nothing left that is due.
LEMMA AdvanceKeeps ==
  ASSUME QueueInv, AdvanceBegin \/ AdvanceEnd
  PROVE  QueueInv'
<1> USE Places, EventQueueAssumption
<1>1. UNCHANGED <<heap, live, nextHandle, where, wake, pass>>
  BY DEF AdvanceBegin, AdvanceEnd
<1>2. Numbered' /\ CancelIsMine' /\ NoOrphanDeadline' /\ AllArmed'
  BY <1>1 DEF QueueInv, Queue, Numbered, CancelIsMine, NoOrphanDeadline, AllArmed, Armed
<1>3. QueueTypeOK' /\ NothingOverdue'
  <2>1. /\ t \in [Clocks -> Nat] /\ target \in Nat /\ heap["main"] \subseteq Item
        /\ QueueTypeOK
    BY DEF QueueInv, Queue, QueueTypeOK
  <2>2. CASE AdvanceBegin
    <3>1. t["main"] \in Nat
      BY <2>1
    <3>2. target' \in Nat /\ draining' = TRUE /\ UNCHANGED t
      BY <2>2, <3>1 DEF AdvanceBegin
    <3> QED
      BY <1>1, <2>1, <3>2 DEF QueueTypeOK, Attached, NothingOverdue
  <2>3. CASE AdvanceEnd
    <3>1. /\ t' = [t EXCEPT !["main"] = target] /\ draining' = FALSE /\ UNCHANGED target
          /\ \A x \in heap["main"] : ~(x.when <= target)
      BY <2>3 DEF AdvanceEnd, Due
    <3>2. t'["main"] = target /\ t' \in [Clocks -> Nat]
      BY <2>1, <3>1
    <3>3. \A x \in heap["main"] : x.when \in Nat
      BY <2>1 DEF Item
    <3>4. NothingOverdue'
      BY <1>1, <2>1, <3>1, <3>2, <3>3 DEF NothingOverdue
    <3> QED
      BY <1>1, <2>1, <3>1, <3>2, <3>4 DEF QueueTypeOK, Attached
  <2> QED
    BY <2>2, <2>3
<1> QED
  BY <1>2, <1>3 DEF QueueInv, Queue

\* POWER and RESTORE empty the machine's queue and owe every card a visit.
LEMMA EmptyKeeps ==
  ASSUME QueueInv, Power \/ Restore
  PROVE  QueueInv'
<1> USE Places, EventQueueAssumption
<1>1. /\ heap' = [heap EXCEPT !["main"] = {}] /\ live' = [live EXCEPT !["main"] = {}]
      /\ pass' = Attached("main") /\ UNCHANGED <<where, wake, target, draining>>
  BY DEF Power, Restore
<1>2. QueueTypeOK
  BY DEF QueueInv, Queue
<1>3. /\ heap'["main"] = {} /\ live'["main"] = {}
      /\ \A e \in Clocks \ {"main"} : heap'[e] = heap[e] /\ live'[e] = live[e]
  BY <1>1, <1>2 DEF QueueTypeOK
<1>4. nextHandle' \in Nat /\ nextHandle' >= nextHandle /\ t' \in [Clocks -> Nat]
  BY <1>2 DEF QueueTypeOK, Power, Restore, KeepHighest, Later
<1>5. QueueTypeOK'
  <2>1. wake' \in [Timed -> 0..nextHandle']
    BY <1>1, <1>2, <1>4 DEF QueueTypeOK
  <2> QED
    BY <1>1, <1>2, <1>4, <2>1 DEF QueueTypeOK, Attached
<1>6. Numbered'
  BY <1>2, <1>3, <1>4 DEF QueueInv, Queue, Numbered, QueueTypeOK
<1>7. CancelIsMine' /\ NoOrphanDeadline'
  BY <1>1, <1>3 DEF QueueInv, Queue, CancelIsMine, NoOrphanDeadline
<1>8. AllArmed'
  BY <1>1, <1>2, <1>3 DEF QueueInv, Queue, AllArmed, Armed, Attached, QueueTypeOK
<1>9. NothingOverdue'
  BY <1>3 DEF NothingOverdue
<1> QED
  BY <1>5, <1>6, <1>7, <1>8, <1>9 DEF QueueInv, Queue

\* A card made holds no number; one taken out cancels the one it holds.
LEMMA CardComesAndGoes ==
  ASSUME QueueInv, NEW b \in Timed, Build(b) \/ RemoveCard(b)
  PROVE  QueueInv'
<1> USE Places
<1>1. /\ AtBoundary /\ wake' = [wake EXCEPT ![b] = kNone]
      /\ UNCHANGED <<t, heap, nextHandle, target, draining, pass>>
      /\ \E p \in Clocks \cup {"out"} : where' = [where EXCEPT ![b] = p]
  BY DEF Build, RemoveCard
<1>2. QueueTypeOK
  BY DEF QueueInv, Queue
<1>3. /\ \A e \in Clocks : live'[e] \subseteq live[e]
      /\ \A e \in Clocks : \A j \in live[e] : j.owner # b => j \in live'[e]
      /\ \A e \in Clocks : \A j \in live'[e] : j.owner # b
      /\ live' \in [Clocks -> SUBSET Job]
  <2>1. CASE Build(b)
    BY <1>2, <2>1 DEF Build, QueueInv, Queue, NoOrphanDeadline, QueueTypeOK
  <2>2. CASE RemoveCard(b)
    <3>1. live' = [live EXCEPT !["main"] = Cancel(@, wake[b])] /\ where[b] = "main"
      BY <2>2 DEF RemoveCard
    <3>2. /\ live'["main"] = Cancel(live["main"], wake[b])
          /\ \A e \in Clocks \ {"main"} : live'[e] = live[e]
      BY <1>2, <3>1 DEF QueueTypeOK
    <3>3. \A e \in Clocks : \A j \in live[e] : j.h = wake[b] => j.owner = b
      BY DEF QueueInv, Queue, CancelIsMine
    <3>4. \A e \in Clocks : \A j \in live[e] : j.owner = b => e = "main" /\ j.h = wake[b]
      BY <3>1 DEF QueueInv, Queue, NoOrphanDeadline
    <3>5. live' \in [Clocks -> SUBSET Job]
      BY <1>2, <3>1 DEF QueueTypeOK, Cancel
    <3> QED
      BY <3>2, <3>3, <3>4, <3>5 DEF Cancel
  <2> QED
    BY <2>1, <2>2
<1>4. \A a \in Timed \ {b} : wake'[a] = wake[a] /\ where'[a] = where[a]
  BY <1>1, <1>2 DEF QueueTypeOK
<1>5. wake'[b] = 0
  BY <1>1, <1>2 DEF QueueTypeOK, kNone
<1>6. QueueTypeOK'
  <2>1. where' \in [Timed -> Clocks \cup {"out"}] /\ wake' \in [Timed -> 0..nextHandle]
    BY <1>1, <1>2 DEF QueueTypeOK, kNone
  <2>2. pass' = {}
    BY <1>1 DEF AtBoundary
  <2> QED
    BY <1>1, <1>2, <1>3, <2>1, <2>2 DEF QueueTypeOK
<1>7. Numbered' /\ NothingOverdue'
  BY <1>1, <1>3 DEF QueueInv, Queue, Numbered, NothingOverdue, IsLive
<1>8. CancelIsMine'
  <2> SUFFICES ASSUME NEW a \in Timed, NEW e \in Clocks, NEW j \in live'[e], j.h = wake'[a]
               PROVE  j.owner = a
    BY DEF CancelIsMine
  <2>1. j \in live[e] /\ j.h \in 1..nextHandle
    BY <1>3 DEF QueueInv, Queue, Numbered
  <2>2. a # b
    BY <1>5, <2>1
  <2> QED
    BY <1>4, <2>1, <2>2 DEF QueueInv, Queue, CancelIsMine
<1>9. NoOrphanDeadline'
  <2> SUFFICES ASSUME NEW e \in Clocks, NEW j \in live'[e]
               PROVE  where'[j.owner] = e /\ wake'[j.owner] = j.h
    BY DEF NoOrphanDeadline
  <2>1. j \in live[e] /\ j.owner \in Timed \ {b}
    BY <1>2, <1>3 DEF QueueTypeOK, Job
  <2> QED
    BY <1>4, <2>1 DEF QueueInv, Queue, NoOrphanDeadline
<1>10. AllArmed'
  <2> SUFFICES ASSUME NEW a \in Timed, where'[a] # "out", a \notin pass, wake'[a] # kNone
               PROVE  Armed(a)'
    BY <1>1 DEF AllArmed
  <2>1. a # b /\ where'[a] = where[a] /\ wake'[a] = wake[a]
    BY <1>4, <1>5 DEF kNone
  <2>2. Armed(a) /\ where[a] \in Clocks
    BY <1>2, <2>1 DEF QueueInv, Queue, AllArmed, QueueTypeOK
  <2> QED
    BY <1>1, <1>3, <2>1, <2>2 DEF Armed
<1> QED
  BY <1>6, <1>7, <1>8, <1>9, <1>10 DEF QueueInv, Queue

\* A machine load takes the built cards over, into an empty queue.
LEMMA LoadKeeps ==
  ASSUME QueueInv, LoadMachine
  PROVE  QueueInv'
<1> USE Places
<1>1. QueueTypeOK
  BY DEF QueueInv, Queue
<1>2. /\ t' = [c \in Clocks |-> 0] /\ heap' = [c \in Clocks |-> {}]
      /\ live' = [c \in Clocks |-> {}] /\ pass' = Attached("scratch")
      /\ where' = [b \in Timed |-> IF where[b] = "scratch" THEN "main" ELSE "out"]
      /\ wake' = [b \in Timed |-> IF where[b] = "scratch" THEN wake[b] ELSE kNone]
      /\ UNCHANGED <<nextHandle, target, draining>>
  BY DEF LoadMachine, Powered
<1>3. QueueTypeOK'
  <2>1. wake' \in [Timed -> 0..nextHandle] /\ where' \in [Timed -> Clocks \cup {"out"}]
    BY <1>1, <1>2 DEF QueueTypeOK, kNone
  <2>2. pass' \subseteq {b \in Timed : where'[b] = "main"}
    BY <1>2 DEF Attached
  <2> QED
    BY <1>1, <1>2, <2>1, <2>2 DEF QueueTypeOK, Attached
<1>4. Numbered' /\ CancelIsMine' /\ NoOrphanDeadline' /\ NothingOverdue'
  BY <1>2 DEF Numbered, CancelIsMine, NoOrphanDeadline, NothingOverdue
<1>5. AllArmed'
  BY <1>2 DEF AllArmed, Attached
<1> QED
  BY <1>3, <1>4, <1>5 DEF QueueInv, Queue

\* Every step of the queue and of its cards keeps the invariant.
LEMMA StepKeeps == QueueInv /\ [QueueNext]_queueVars => QueueInv'
<1> SUFFICES ASSUME QueueInv, [QueueNext]_queueVars PROVE QueueInv'
  OBVIOUS
<1>1. ASSUME NEW b \in Timed, Handler(b) PROVE QueueInv'
  <2>1. /\ where[b] # "out" /\ UNCHANGED <<t, where, target, draining, pass>>
        /\ Refresh(b, where[b], heap[where[b]], live[where[b]], t[where[b]])
    BY <1>1 DEF Handler
  <2> QED
    BY <2>1, CardRefreshes
<1>2. ASSUME NEW b \in Timed, Rearm(b) PROVE QueueInv'
  <2>1. /\ b \in pass /\ pass' = pass \ {b} /\ UNCHANGED <<t, where, target, draining>>
        /\ Refresh(b, "main", heap["main"], live["main"], t["main"])
    BY <1>2 DEF Rearm
  <2>2. where[b] = "main"
    BY <2>1 DEF QueueInv, Queue, QueueTypeOK, Attached
  <2> QED
    BY <2>1, <2>2, CardRefreshes
<1>3. ASSUME NEW b \in Timed, Build(b) \/ RemoveCard(b) PROVE QueueInv'
  BY <1>3, CardComesAndGoes
<1>4. ASSUME NEW x \in heap["main"], Skip(x) PROVE QueueInv'
  BY <1>4, SkipKeeps
<1>5. ASSUME NEW x \in heap["main"], NEW j \in live["main"], Fire(x, j) PROVE QueueInv'
  BY <1>5, FireKeeps
<1>6. CASE AdvanceBegin \/ AdvanceEnd
  BY <1>6, AdvanceKeeps
<1>7. CASE Power \/ Restore
  BY <1>7, EmptyKeeps
<1>8. CASE LoadMachine
  BY <1>8, LoadKeeps
<1>9. CASE UNCHANGED queueVars
  BY <1>9 DEF queueVars, QueueInv, Queue, QueueTypeOK, Attached, Numbered, CancelIsMine, NoOrphanDeadline,
              AllArmed, Armed, NothingOverdue
<1> QED
  BY <1>1, <1>2, <1>3, <1>4, <1>5, <1>6, <1>7, <1>8, <1>9 DEF QueueNext

\* The invariant holds from the start and for ever.
LEMMA Inductive == QueueSpec => []QueueInv
BY StartsSound, StepKeeps, PTL DEF QueueSpec
-----------------------------------------------------------------------------
\* The types of the queue, for any cards and bounds; only cards of the machine
\* are owed a visit.
THEOREM QueueTypeCorrect == QueueSpec => []QueueTypeOK
<1>1. QueueInv => QueueTypeOK
  BY DEF QueueInv, Queue
<1> QED
  BY <1>1, Inductive, PTL

\* The cancel before every re-arm reaches nobody else's deadline, whatever POWER,
\* RESTORE and machine loads came between the two.
THEOREM CancelsAreMine == QueueSpec => []CancelIsMine
<1>1. QueueInv => CancelIsMine
  BY DEF QueueInv, Queue
<1> QED
  BY <1>1, Inductive, PTL

\* No deadline is left behind by a re-arm or by a card that has gone.
THEOREM NoOrphans == QueueSpec => []NoOrphanDeadline
<1>1. QueueInv => NoOrphanDeadline
  BY DEF QueueInv, Queue
<1> QED
  BY <1>1, Inductive, PTL

\* What a card has armed is in the queue until it fires or is withdrawn.
THEOREM NoneLost == QueueSpec => []NoDeadlineLost
<1>1. QueueInv => NoDeadlineLost
  <2> SUFFICES ASSUME QueueInv, NEW b \in Timed,
                      where[b] # "out", b \notin pass, wake[b] # kNone
               PROVE  /\ [h |-> wake[b], owner |-> b] \in live[where[b]]
                      /\ Cardinality({x \in heap[where[b]] : x.h = wake[b]}) = 1
    BY DEF NoDeadlineLost
  <2>1. Armed(b)
    BY DEF QueueInv, Queue, AllArmed
  <2> QED
    BY <2>1, FS_Singleton DEF Armed
<1> QED
  BY <1>1, Inductive, PTL

\* Between instructions no live deadline has been passed over.
THEOREM NoneOverdue == QueueSpec => []NothingOverdue
<1>1. QueueInv => NothingOverdue
  BY DEF QueueInv
<1> QED
  BY <1>1, Inductive, PTL
-----------------------------------------------------------------------------
(***************************************************************************)
(* The alarm clock.  refresh() of a card in the machine is the abstract    *)
(* Reset of its alarm, because what it cancels is its own and all it has;  *)
(* an entry that fires is the first of the earliest alarms, because it was *)
(* not late (InTime) and no other live entry has its number.               *)
(***************************************************************************)
\* While time advances it stays between the last deadline and the end.
InTime ==
  draining => /\ pass = {} /\ t["main"] <= target
              /\ \A x \in heap["main"] : IsLive(live["main"], x.h) => x.when >= t["main"]
RInv == QueueInv /\ InTime

\* An alarm of the abstract clock is a heap entry whose deadline is live.
LEMMA AlarmsAre ==
  \A a : a \in Alarms <=> \E x \in heap["main"], j \in live["main"] :
           x.h = j.h /\ a = [board |-> j.owner, when |-> x.when, turn |-> x.h]
<1> TAKE a
<1>1. ASSUME a \in Alarms
      PROVE  \E x \in heap["main"], j \in live["main"] :
               x.h = j.h /\ a = [board |-> j.owner, when |-> x.when, turn |-> x.h]
  <2>1. PICK p \in Pending : a = [board |-> p[2].owner, when |-> p[1].when, turn |-> p[1].h]
    BY <1>1 DEF Alarms
  <2>2. p[1] \in heap["main"] /\ p[2] \in live["main"] /\ p[1].h = p[2].h
    BY <2>1 DEF Pending
  <2> QED
    BY <2>1, <2>2
<1>2. ASSUME NEW x \in heap["main"], NEW j \in live["main"], x.h = j.h,
             a = [board |-> j.owner, when |-> x.when, turn |-> x.h]
      PROVE  a \in Alarms
  <2>1. <<x, j>> \in Pending
    BY <1>2 DEF Pending
  <2> QED
    BY <1>2, <2>1 DEF Alarms
<1> QED
  BY <1>1, <1>2

\* refresh() of a card in the machine withdraws its alarm or sets it anew.
LEMMA RefreshResets ==
  ASSUME Queue, NEW b \in Timed, where[b] = "main",
         NEW items \in SUBSET heap["main"], NEW jobs \in SUBSET live["main"], NEW m \in Nat,
         \A x \in heap["main"] \ items : \E j \in live["main"] : j.h = x.h /\ j.owner = b,
         \A j \in live["main"] \ jobs : j.owner = b,
         Refresh(b, "main", items, jobs, m)
  PROVE  Abstract!Reset(b, m)
<1> DEFINE kept == Cancel(jobs, wake[b])
           others == {a \in Alarms : a.board # b}
           al(x, j) == [board |-> j.owner, when |-> x.when, turn |-> x.h]
<1>1. /\ heap \in [Clocks -> SUBSET Item] /\ live \in [Clocks -> SUBSET Job] /\ nextHandle \in Nat
  BY DEF Queue, QueueTypeOK
<1>2. /\ \A j \in kept : j \in live["main"] /\ j.owner # b
      /\ \A j \in live["main"] : j.owner # b => j \in kept
  <2>1. \A j \in live["main"] : (j.h = wake[b] => j.owner = b) /\ (j.owner = b => j.h = wake[b])
    BY Places DEF Queue, CancelIsMine, NoOrphanDeadline
  <2> QED
    BY <2>1 DEF Cancel
<1> HIDE DEF kept
<1>3. ASSUME NEW x \in heap["main"], NEW j \in kept, x.h = j.h
      PROVE  x \in items
  <2>1. \A k \in live["main"] : k.h = j.h => k.owner = j.owner
    <3> SUFFICES ASSUME NEW k \in live["main"], k.h = j.h
                 PROVE  k.owner = j.owner
      OBVIOUS
    <3>1. j \in live["main"] /\ j.owner \in Timed /\ wake[j.owner] = j.h
      BY <1>1, <1>2, Places DEF Queue, NoOrphanDeadline, Job
    <3> QED
      BY <3>1, Places DEF Queue, CancelIsMine
  <2> QED
    BY <1>2, <1>3, <2>1
\* The alarms of the others, seen from the new queue.
<1>4. \A a : a \in others <=> \E x \in items, j \in kept : x.h = j.h /\ a = al(x, j)
  <2>1. ASSUME NEW a \in others
        PROVE  \E x \in items, j \in kept : x.h = j.h /\ a = al(x, j)
    <3>1. PICK x \in heap["main"], j \in live["main"] : x.h = j.h /\ a = al(x, j)
      BY <2>1, AlarmsAre
    <3>2. j \in kept
      BY <1>2, <2>1, <3>1
    <3> QED
      BY <1>3, <3>1, <3>2
  <2>2. ASSUME NEW x \in items, NEW j \in kept, x.h = j.h
        PROVE  al(x, j) \in others
    <3>1. x \in heap["main"] /\ j \in live["main"] /\ j.owner # b
      BY <1>2
    <3>2. al(x, j) \in Alarms
      BY <2>2, <3>1, AlarmsAre
    <3> QED
      BY <3>1, <3>2
  <2> QED
    BY <2>1, <2>2
<1>5. \A a : a \in Alarms' <=> \E x \in heap'["main"], j \in live'["main"] :
                                 x.h = j.h /\ a = al(x, j)
  <2>1. (\A a : a \in Alarms <=> \E x \in heap["main"], j \in live["main"] :
                                   x.h = j.h /\ a = al(x, j))'
    BY AlarmsAre, PTL
  <2> QED
    BY <2>1
<1> HIDE DEF al
<1>6. CASE heap'["main"] = items /\ live'["main"] = kept
  <2>1. Alarms' = others
    BY <1>4, <1>5, <1>6
  <2> QED
    BY <2>1 DEF Abstract!Reset, Abstract!Others
<1>7. ASSUME NEW d \in 1..MaxDelay,
             heap'["main"] = items \cup {[when |-> m + d, h |-> nextHandle + 1]},
             live'["main"] = kept \cup {[h |-> nextHandle + 1, owner |-> b]}
      PROVE  Abstract!Reset(b, m)
  <2> DEFINE y == [when |-> m + d, h |-> nextHandle + 1]
             i == [h |-> nextHandle + 1, owner |-> b]
             n == al(y, i)
  <2>1. /\ y.h = nextHandle + 1 /\ i.h = nextHandle + 1 /\ n.board = b /\ n.when = m + d
        /\ n.turn = nextHandle + 1
    BY DEF al
  <2>2. \A x \in items : x.h \in 1..nextHandle
    BY Places DEF Queue, Numbered
  <2>3. \A j \in kept : j.h \in 1..nextHandle
    BY <1>2, Places DEF Queue, Numbered
  <2> HIDE DEF y, i, n
  <2>4. heap'["main"] = items \cup {y} /\ live'["main"] = kept \cup {i}
    BY <1>7 DEF y, i
  <2>5. (\A x \in items : x.h # i.h) /\ (\A j \in kept : j.h # y.h)
    BY <1>1, <2>1, <2>2, <2>3
  <2>6. Alarms' = others \cup {n}
    <3>1. \A a : a \in Alarms' <=> a \in others \/ a = n
      <4>1. ASSUME NEW a \in Alarms'
            PROVE  a \in others \/ a = n
        <5>1. PICK x \in items \cup {y}, j \in kept \cup {i} : x.h = j.h /\ a = al(x, j)
          BY <1>5, <2>4, <4>1
        <5>2. CASE x \in items
          BY <1>4, <2>5, <5>1, <5>2
        <5>3. CASE x = y
          BY <2>5, <5>1, <5>3 DEF n
        <5> QED
          BY <5>2, <5>3
      <4>2. others \subseteq Alarms'
        BY <1>4, <1>5, <2>4
      <4>3. n \in Alarms'
        <5>1. y \in heap'["main"] /\ i \in live'["main"] /\ y.h = i.h
          BY <2>1, <2>4
        <5> QED
          BY <1>5, <5>1 DEF n
      <4> QED
        BY <4>1, <4>2, <4>3
    <3> QED
      BY <3>1
  <2>7. \A k \in others : k.turn < n.turn
    <3>1. \A x, j : al(x, j).turn = x.h
      BY DEF al
    <3> QED
      BY <1>1, <1>4, <2>1, <2>2, <3>1
  <2>8. n.board = b /\ n.when - m \in 1..MaxDelay
    BY <2>1
  <2> HIDE DEF others
  <2>9. n \in Alarms' /\ Alarms' = others \cup {n}
    BY <2>6
  <2> QED
    BY <2>7, <2>8, <2>9 DEF Abstract!Reset, Abstract!Others, others
<1> QED
  <2>1. CASE heap' = [heap EXCEPT !["main"] = items] /\ live' = [live EXCEPT !["main"] = kept]
    BY <1>1, <1>6, <2>1, Places
  <2>2. CASE \E d \in 1..MaxDelay :
               /\ heap' = [heap EXCEPT !["main"] = items \cup {[when |-> m + d, h |-> nextHandle + 1]}]
               /\ live' = [live EXCEPT !["main"] = kept \cup {[h |-> nextHandle + 1, owner |-> b]}]
    BY <1>1, <1>7, <2>2, Places
  <2> QED
    BY <2>1, <2>2 DEF Refresh, kept

\* A step that leaves the live entries of the machine alone sets no alarm.
LEMMA AlarmsStay ==
  ASSUME live'["main"] = live["main"],
         \A x : IsLive(live["main"], x.h) => (x \in heap'["main"] <=> x \in heap["main"])
  PROVE  Alarms' = Alarms
<1>1. (\A a : a \in Alarms <=> \E x \in heap["main"], j \in live["main"] :
         x.h = j.h /\ a = [board |-> j.owner, when |-> x.when, turn |-> x.h])'
  BY AlarmsAre, PTL
<1>2. ASSUME NEW a \in Alarms' PROVE a \in Alarms
  <2>1. PICK x \in heap'["main"], j \in live'["main"] :
          x.h = j.h /\ a = [board |-> j.owner, when |-> x.when, turn |-> x.h]
    BY <1>1, <1>2
  <2>2. x \in heap["main"]
    BY <2>1 DEF IsLive
  <2> QED
    BY <2>1, <2>2, AlarmsAre
<1>3. ASSUME NEW a \in Alarms PROVE a \in Alarms'
  <2>1. PICK x \in heap["main"], j \in live["main"] :
          x.h = j.h /\ a = [board |-> j.owner, when |-> x.when, turn |-> x.h]
    BY <1>3, AlarmsAre
  <2>2. x \in heap'["main"]
    BY <2>1 DEF IsLive
  <2> QED
    BY <1>1, <2>1, <2>2
<1> QED
  BY <1>2, <1>3

\* A clock without live deadlines is an abstract clock without alarms.
LEMMA NoAlarms == ASSUME live'["main"] = {} PROVE Alarms' = {}
<1>1. (\A a : a \in Alarms <=> \E x \in heap["main"], j \in live["main"] :
         x.h = j.h /\ a = [board |-> j.owner, when |-> x.when, turn |-> x.h])'
  BY AlarmsAre, PTL
<1> QED
  BY <1>1

Invisible == UNCHANGED <<t["main"], Alarms>>
Mapped == Abstract!Next \/ Invisible

\* The callback of a deadline: its alarm rings at its moment.
LEMMA FireRings ==
  ASSUME RInv, NEW x \in heap["main"], NEW j \in live["main"], Fire(x, j)
  PROVE  Abstract!Next
<1> USE Places
<1> DEFINE a == [board |-> j.owner, when |-> x.when, turn |-> x.h]
<1>1. /\ Queue /\ heap["main"] \subseteq Item /\ live["main"] \subseteq Job
      /\ t \in [Clocks -> Nat]
  BY DEF RInv, QueueInv, Queue, QueueTypeOK
<1>2. /\ j.h = x.h /\ draining /\ t' = [t EXCEPT !["main"] = Later(@, x.when)]
      /\ \A y \in heap["main"] \ {x} : Before(x, y)
      /\ Refresh(j.owner, "main", heap["main"] \ {x}, live["main"] \ {j}, t'["main"])
  BY DEF Fire, Top
<1>3. x.when \in Nat /\ x.when >= t["main"] /\ t["main"] \in Nat
  BY <1>1, <1>2 DEF RInv, InTime, IsLive, Item
<1>4. t'["main"] = x.when
  BY <1>1, <1>2, <1>3 DEF Later
<1>5. a \in Alarms
  BY <1>2, AlarmsAre
<1>6. j.owner \in Timed /\ where[j.owner] = "main"
  BY <1>1 DEF Queue, NoOrphanDeadline, Job
<1>7. Abstract!Reset(j.owner, t'["main"])
  <2>1. PICK m \in Nat, items \in SUBSET heap["main"], jobs \in SUBSET live["main"] :
          m = t'["main"] /\ items = heap["main"] \ {x} /\ jobs = live["main"] \ {j}
    BY <1>3, <1>4
  <2>2. Refresh(j.owner, "main", items, jobs, m)
    BY <1>2, <2>1
  <2>3. /\ \A y \in heap["main"] \ items : \E k \in live["main"] : k.h = y.h /\ k.owner = j.owner
        /\ \A k \in live["main"] \ jobs : k.owner = j.owner
    BY <1>2, <2>1
  <2>4. Abstract!Reset(j.owner, m)
    BY <1>1, <1>6, <2>2, <2>3, RefreshResets
  <2> QED
    BY <2>1, <2>4
<1>8. ASSUME NEW k \in Alarms \ {a}
      PROVE  a.when < k.when \/ (a.when = k.when /\ a.turn < k.turn)
  <2>1. PICK y \in heap["main"], i \in live["main"] :
          y.h = i.h /\ k = [board |-> i.owner, when |-> y.when, turn |-> y.h]
    BY <1>8, AlarmsAre
  <2>2. y # x
    <3> SUFFICES ASSUME y = x PROVE FALSE
      OBVIOUS
    <3>1. i.h = j.h /\ wake[i.owner] = i.h /\ i.owner \in Timed
      BY <1>1, <1>2, <2>1 DEF Queue, NoOrphanDeadline, Job
    <3>2. j.owner = i.owner
      BY <1>1, <3>1 DEF Queue, CancelIsMine
    <3> QED
      BY <1>8, <2>1, <3>2
  <2>3. Before(x, y)
    BY <1>2, <2>2
  <2> QED
    BY <2>1, <2>3 DEF Before
<1>9. Abstract!Ring(a)
  BY <1>4, <1>7, <1>8 DEF Abstract!Ring
<1> QED
  BY <1>5, <1>9 DEF Abstract!Next

\* Every step of the queue is a step of the abstract clock or invisible to it.
LEMMA StepMaps == ASSUME RInv, QueueNext PROVE Mapped
<1> USE Places
<1>1. /\ Queue /\ NothingOverdue /\ heap \in [Clocks -> SUBSET Item]
      /\ live \in [Clocks -> SUBSET Job] /\ t \in [Clocks -> Nat] /\ t["main"] \in Nat
      /\ where \in [Timed -> Clocks \cup {"out"}]
  BY DEF RInv, QueueInv, Queue, QueueTypeOK
\* A card of the machine sets its alarm.
<1>2. ASSUME NEW b \in Timed, where[b] = "main", t' = t,
             Refresh(b, "main", heap["main"], live["main"], t["main"])
      PROVE  Mapped
  <2>1. Abstract!Reset(b, t["main"])
    BY <1>1, <1>2, RefreshResets
  <2> QED
    BY <1>2, <2>1 DEF Mapped, Abstract!Next, Abstract!Set
<1>3. ASSUME NEW b \in Timed, Handler(b) PROVE Mapped
  <2>1. /\ where[b] \in Clocks /\ t' = t
        /\ Refresh(b, where[b], heap[where[b]], live[where[b]], t[where[b]])
    BY <1>1, <1>3 DEF Handler
  <2>2. CASE where[b] = "main"
    BY <1>2, <2>1, <2>2
  <2>3. CASE where[b] # "main"
    <3>1. heap'["main"] = heap["main"] /\ live'["main"] = live["main"]
      BY <1>1, <2>1, <2>3 DEF Refresh
    <3> QED
      BY <2>1, <3>1, AlarmsStay DEF Mapped, Invisible
  <2> QED
    BY <2>2, <2>3
<1>4. ASSUME NEW b \in Timed, Rearm(b) PROVE Mapped
  <2>1. t' = t /\ Refresh(b, "main", heap["main"], live["main"], t["main"]) /\ b \in pass
    BY <1>4 DEF Rearm
  <2>2. where[b] = "main"
    BY <1>1, <2>1 DEF Queue, QueueTypeOK, Attached
  <2> QED
    BY <1>2, <2>1, <2>2
<1>5. ASSUME NEW b \in Timed, Build(b) PROVE Mapped
  <2>1. t' = t /\ heap' = heap /\ live' = live
    BY <1>5 DEF Build
  <2> QED
    BY <2>1, AlarmsStay DEF Mapped, Invisible
\* A card that goes withdraws its alarm.
<1>6. ASSUME NEW b \in Timed, RemoveCard(b) PROVE Mapped
  <2>1. /\ t' = t /\ heap' = heap /\ where[b] = "main"
        /\ live'["main"] = Cancel(live["main"], wake[b])
    BY <1>1, <1>6 DEF RemoveCard
  <2>2. \A j \in live["main"] : j.h = wake[b] <=> j.owner = b
    BY <1>1 DEF Queue, CancelIsMine, NoOrphanDeadline
  <2>3. (\A a : a \in Alarms <=> \E x \in heap["main"], j \in live["main"] :
           x.h = j.h /\ a = [board |-> j.owner, when |-> x.when, turn |-> x.h])'
    BY AlarmsAre, PTL
  <2>4. Alarms' = {a \in Alarms : a.board # b}
    BY <2>1, <2>2, <2>3, AlarmsAre DEF Cancel
  <2>5. Abstract!Set(b)
    BY <2>1, <2>4 DEF Abstract!Set, Abstract!Reset, Abstract!Others
  <2> QED
    BY <2>5 DEF Mapped, Abstract!Next
<1>7. ASSUME NEW x \in heap["main"], Skip(x) PROVE Mapped
  <2>1. /\ t' = t /\ live' = live /\ heap'["main"] = heap["main"] \ {x}
        /\ ~IsLive(live["main"], x.h)
    BY <1>1, <1>7 DEF Skip
  <2> QED
    BY <2>1, AlarmsStay DEF Mapped, Invisible
<1>8. ASSUME NEW x \in heap["main"], NEW j \in live["main"], Fire(x, j) PROVE Mapped
  BY <1>8, FireRings DEF Mapped
<1>9. CASE AdvanceBegin
  <2>1. t' = t /\ heap' = heap /\ live' = live
    BY <1>9 DEF AdvanceBegin
  <2> QED
    BY <2>1, AlarmsStay DEF Mapped, Invisible
\* An advance ends short of the next alarm.
<1>10. CASE AdvanceEnd
  <2>1. /\ heap' = heap /\ live' = live /\ t'["main"] = target /\ draining
        /\ \A x \in heap["main"] : ~(x.when <= target)
    BY <1>1, <1>10 DEF AdvanceEnd, Due
  <2>2. target \in Nat /\ t["main"] <= target /\ \A x \in heap["main"] : x.when \in Nat
    BY <1>1, <2>1 DEF RInv, InTime, Queue, QueueTypeOK, Item
  <2>3. Alarms' = Alarms
    BY <2>1, AlarmsStay
  <2>4. \A a \in Alarms : a.when > target
    BY <2>1, <2>2, AlarmsAre
  <2>5. CASE target > t["main"]
    <3>1. Abstract!Pass
      BY <2>1, <2>2, <2>3, <2>4, <2>5 DEF Abstract!Pass
    <3> QED
      BY <3>1 DEF Mapped, Abstract!Next
  <2>6. CASE target = t["main"]
    BY <2>1, <2>3, <2>6 DEF Mapped, Invisible
  <2> QED
    BY <1>1, <2>2, <2>5, <2>6
\* POWER, RESTORE and another machine end everything.
<1>11. CASE Power \/ Restore \/ LoadMachine
  <2>1. live'["main"] = {} /\ t'["main"] \in Nat
    BY <1>1, <1>11, EventQueueAssumption DEF Power, Restore, LoadMachine
  <2> QED
    BY <2>1, NoAlarms DEF Mapped, Abstract!Next, Abstract!Wipe
<1> QED
  BY <1>3, <1>4, <1>5, <1>6, <1>7, <1>8, <1>9, <1>10, <1>11 DEF QueueNext

\* The clock stays within its bound, and no live deadline falls behind it.
LEMMA TimeInBounds == ASSUME RInv, [QueueNext]_queueVars PROVE InTime'
<1> USE Places
<1>1. /\ Queue /\ NothingOverdue /\ heap \in [Clocks -> SUBSET Item] /\ target \in Nat
      /\ live \in [Clocks -> SUBSET Job] /\ t \in [Clocks -> Nat] /\ t["main"] \in Nat
      /\ heap["main"] \subseteq Item
  BY DEF RInv, QueueInv, Queue, QueueTypeOK
<1>2. CASE AdvanceBegin
  <2>1. PICK dt \in 1..(MaxTime - t["main"]) : target' = t["main"] + dt
    BY <1>2 DEF AdvanceBegin
  <2>2. /\ ~draining /\ UNCHANGED <<t, heap, live, pass>> /\ pass = {} /\ t["main"] <= target'
    BY <1>1, <1>2, <2>1, EventQueueAssumption DEF AdvanceBegin, AtBoundary
  <2>3. \A x \in heap["main"] : x.when \in Nat
    BY <1>1 DEF Item
  <2> QED
    BY <1>1, <2>2, <2>3 DEF InTime, NothingOverdue
<1>3. ASSUME NEW x \in heap["main"], Skip(x) PROVE InTime'
  <2>1. UNCHANGED <<t, live, target, draining, pass>> /\ heap'["main"] \subseteq heap["main"]
    BY <1>1, <1>3 DEF Skip
  <2> QED
    BY <2>1 DEF InTime, RInv
<1>4. ASSUME NEW x \in heap["main"], NEW j \in live["main"], Fire(x, j) PROVE InTime'
  <2>1. /\ j.h = x.h /\ draining /\ x.when <= target /\ UNCHANGED <<target, where, draining, pass>>
        /\ t' = [t EXCEPT !["main"] = Later(@, x.when)]
        /\ \A y \in heap["main"] \ {x} : Before(x, y)
        /\ Refresh(j.owner, "main", heap["main"] \ {x}, live["main"] \ {j}, t'["main"])
    BY <1>4 DEF Fire, Top, Due
  <2>2. t'["main"] = x.when /\ x.when \in Nat
    BY <1>1, <2>1 DEF RInv, InTime, IsLive, Item, Later
  <2>3. \A y \in heap["main"] \ {x} : y.when \in Nat /\ x.when <= y.when
    BY <1>1, <2>1, <2>2 DEF Before, Item
  <2>4. \A y \in heap'["main"] : y \in heap["main"] \ {x} \/ y.when >= t'["main"]
    BY <1>1, <2>1, <2>2 DEF Refresh
  <2> QED
    BY <2>1, <2>2, <2>3, <2>4 DEF InTime, RInv
<1>5. CASE AdvanceEnd
  BY <1>5 DEF AdvanceEnd, InTime
<1>6. CASE UNCHANGED queueVars
  BY <1>6 DEF queueVars, InTime, RInv
<1>7. ASSUME ~draining, draining' = draining PROVE InTime'
  BY <1>7 DEF InTime
<1>8. ASSUME NEW b \in Timed, Handler(b) \/ Build(b) \/ RemoveCard(b) PROVE InTime'
  BY <1>7, <1>8 DEF Handler, Build, RemoveCard, AtBoundary
<1>9. CASE Power \/ Restore \/ LoadMachine
  BY <1>7, <1>9 DEF Power, Restore, LoadMachine, AtBoundary
\* POWER and RESTORE are over before an advance begins.
<1>10. ASSUME NEW b \in Timed, Rearm(b) PROVE InTime'
  <2>1. ~draining /\ draining' = draining
    BY <1>1, <1>10 DEF Rearm, RInv, InTime, Queue, QueueTypeOK
  <2> QED
    BY <1>7, <2>1
<1> QED
  BY <1>2, <1>3, <1>4, <1>5, <1>6, <1>8, <1>9, <1>10 DEF QueueNext

\* The queue with its tombstones, process-wide numbers, POWER, RESTORE and cards
\* that change machines is an alarm clock: every step of it sets, withdraws or
\* rings one card's alarm, lets time pass short of the next, wipes all, or cannot
\* be seen.
THEOREM QueueIsAnAlarmClock == QueueSpec => ImplementsAlarmClock
<1>1. QueueInit => RInv /\ Abstract!Init
  <2>1. ASSUME QueueInit PROVE Alarms = {}
    BY <2>1, AlarmsAre, Places DEF QueueInit
  <2> QED
    BY <2>1, StartsSound, Places DEF QueueInit, RInv, InTime, Abstract!Init
<1>2. RInv /\ [QueueNext]_queueVars => RInv'
  BY StepKeeps, TimeInBounds DEF RInv
<1>3. RInv /\ [QueueNext]_queueVars => [Abstract!Next]_(Abstract!vars)
  <2> SUFFICES ASSUME RInv, [QueueNext]_queueVars
               PROVE  Abstract!Next \/ UNCHANGED Abstract!vars
    OBVIOUS
  <2>1. CASE QueueNext
    BY <2>1, StepMaps DEF Mapped, Invisible, Abstract!vars
  <2>2. CASE UNCHANGED queueVars
    <3>1. t' = t /\ heap' = heap /\ live' = live
      BY <2>2 DEF queueVars
    <3> QED
      BY <3>1, AlarmsStay DEF Abstract!vars
  <2> QED
    BY <2>1, <2>2
<1> QED
  BY <1>1, <1>2, <1>3, PTL DEF QueueSpec, ImplementsAlarmClock, Abstract!Spec
-----------------------------------------------------------------------------
(***************************************************************************)
(* Bus cycles and the decode tables, for every set of cards and every      *)
(* decode a card may have that keeps the contracts of board.h.             *)
(*                                                                         *)
(* TablesAreExact is inductive beside the types: a step either sets the    *)
(* dirty flag, or leaves the wiring alone and keeps or rebuilds the        *)
(* tables.  The rebuild is right because a slot is the answer for every    *)
(* address of its page when all cards are page-uniform, and when they are  *)
(* not, because every address was probed.                                  *)
(***************************************************************************)

\* The first card in slot order exists whenever some attached card qualifies.
LEMMA FirstInIsIn ==
  ASSUME DecodeTypeOK, NEW S, S \subseteq In, S # {}
  PROVE  FirstIn(S) \in S
<1> DEFINE places == {i \in DOMAIN boards : boards[i] \in S}
           R == OpToRel(<, Nat)
<1>1. DOMAIN boards \subseteq Nat
  BY DEF DecodeTypeOK
<1>2. places \subseteq Nat /\ places # {}
  BY <1>1 DEF In
<1>3. PICK i \in places : \A j \in places : <<j, i>> \notin R
  <2> HIDE DEF places, R
  <2>1. IsWellFoundedOn(R, Nat)
    BY NatLessThanWellFounded DEF R
  <2> QED
    BY <1>2, <2>1, WFMin
<1>4. \A j \in places : ~(j < i)
  BY <1>2, <1>3 DEF OpToRel
<1>5. \A j \in 1..(i-1) : boards[j] \notin S
  <2> SUFFICES ASSUME NEW j \in 1..(i-1), boards[j] \in S
               PROVE  FALSE
    OBVIOUS
  <2>1. i \in 1..Len(boards)
    BY DEF DecodeTypeOK
  <2>2. j \in DOMAIN boards /\ j < i
    BY <2>1 DEF DecodeTypeOK
  <2> QED
    BY <2>2, <1>4
<1>6. \E k \in DOMAIN boards : boards[k] \in S /\ \A j \in 1..(k-1) : boards[j] \notin S
  BY <1>5
<1> QED
  BY <1>6 DEF FirstIn

\* Only cards in the machine answer a cycle.
LEMMA AnsweringIn ==
  ASSUME DecodeTypeOK, NEW c, NEW ph
  PROVE  Answering(c, ph) \subseteq In /\ In \subseteq Cards
<1>1. In \subseteq Cards
  BY DEF In, DecodeTypeOK
<1> DEFINE driving == {b \in In : Decodes(b, c, ph)}
           own == {b \in driving : c.type \in {"MemRead", "IoRead"} /\ c \in strap[b].onBoard}
<1>2. own # {} => FirstIn(own) \in own
  BY FirstInIsIn
<1> QED
  BY <1>1, <1>2 DEF Answering

\* The first card of a set is in it, and there is none only when the set is empty.
LEMMA FirstFacts ==
  ASSUME DecodeTypeOK, NEW S, S \subseteq In
  PROVE  /\ S = {} => First(S) = NoCard
         /\ S # {} => First(S) \in S /\ First(S) # NoCard
         /\ First(S) \in Cards \cup {NoCard}
         /\ ~Many(S) => {First(S)} \ {NoCard} = S
<1>1. In \subseteq Cards /\ NoCard \notin Cards
  BY DecodeCacheAssumption DEF In, DecodeTypeOK
<1>2. S = {} => First(S) = NoCard
  BY DEF First
<1>3. S # {} => First(S) \in S /\ First(S) # NoCard
  BY <1>1, FirstInIsIn DEF First
<1>4. ~Many(S) => {First(S)} \ {NoCard} = S
  BY <1>2, <1>3 DEF Many
<1> QED
  BY <1>1, <1>2, <1>3, <1>4

\* Any cycle resolves to a well-formed slot.
LEMMA ResolveType ==
  ASSUME DecodeTypeOK, NEW c
  PROVE  Resolve(c) \in SlotType
<1>1. First(Answering(c, Phantom(c))) \in Cards \cup {NoCard}
  BY AnsweringIn, FirstFacts
<1> QED
  BY <1>1 DEF Resolve, SlotType, Phantom, Many

\* On a backplane of page-uniform cards two reads, or two writes, of one page
\* resolve alike.
LEMMA UniformResolve ==
  ASSUME DecodeTypeOK, In \subseteq Uniform,
         NEW c \in MemCycles, NEW d \in MemCycles,
         c.type = d.type, PageOf[c.at] = PageOf[d.at]
  PROVE  Resolve(c) = Resolve(d)
<1>1. \A b \in In : PageUniform(strap[b])
  BY DecodeCacheAssumption DEF DecodeTypeOK, In
<1>2. \A b \in In : /\ c \in strap[b].clear <=> d \in strap[b].clear
                    /\ c \in strap[b].shadowed <=> d \in strap[b].shadowed
                    /\ c \in strap[b].shadows <=> d \in strap[b].shadows
                    /\ c \in strap[b].onBoard <=> d \in strap[b].onBoard
  BY <1>1 DEF PageUniform
<1>3. Phantom(c) = Phantom(d)
  BY <1>2, Zenon DEF Phantom
<1>4. \A ph : {b \in In : Decodes(b, c, ph)} = {b \in In : Decodes(b, d, ph)}
  BY <1>2 DEF Decodes
<1>5. \A ph : Answering(c, ph) = Answering(d, ph)
  <2> TAKE ph
  <2> DEFINE X == {b \in In : Decodes(b, c, ph)}
             Y == {b \in In : Decodes(b, d, ph)}
  <2>1. X = Y
    BY <1>4
  <2>2. {b \in X : c.type \in {"MemRead", "IoRead"} /\ c \in strap[b].onBoard}
        = {b \in Y : d.type \in {"MemRead", "IoRead"} /\ d \in strap[b].onBoard}
    BY <1>2, <2>1
  <2> QED
    BY <2>1, <2>2 DEF Answering
<1> QED
  BY <1>3, <1>5 DEF Resolve

\* What Bus::rebuild puts in the tables is right for every cycle they serve.
LEMMA RebuiltIsExact ==
  ASSUME DecodeTypeOK
  PROVE  /\ Rebuilt \in [Keys -> SlotType]
         /\ \A c \in MemCycles \cup IoCycles :
              KeyOf(c) \in Keys /\ (Rebuilt[KeyOf(c)].slow \/ Rebuilt[KeyOf(c)] = Resolve(c))
<1>1. ASSUME NEW k \in Keys
      PROVE  PageSlot(k) \in SlotType
  <2> DEFINE slot == Resolve([type |-> k.type, at |-> Base[k.at]])
  <2>1. slot \in SlotType
    BY ResolveType
  <2>2. [slot EXCEPT !.slow = TRUE] \in SlotType
    <3> HIDE DEF slot
    <3> QED
      BY <2>1 DEF SlotType
  <2> QED
    BY <2>1, <2>2 DEF PageSlot
<1>2. Rebuilt \in [Keys -> SlotType]
  BY <1>1, ResolveType DEF Rebuilt
<1>3. ASSUME NEW c \in IoCycles
      PROVE  KeyOf(c) \in Keys /\ Rebuilt[KeyOf(c)] = Resolve(c)
  <2>1. c \notin MemCycles
    BY DEF MemCycles, IoCycles, MemTypes, IoTypes
  <2> QED
    BY <2>1 DEF KeyOf, Keys, Rebuilt
<1>4. ASSUME NEW c \in MemCycles
      PROVE  KeyOf(c) \in Keys /\ (Rebuilt[KeyOf(c)].slow \/ Rebuilt[KeyOf(c)] = Resolve(c))
  <2> DEFINE k == [type |-> c.type, at |-> PageOf[c.at]]
             base == [type |-> k.type, at |-> Base[k.at]]
             slot == Resolve(base)
             probed == {Resolve([type |-> k.type, at |-> a]) : a \in {x \in Mem : PageOf[x] = k.at}}
  <2>1. /\ c.type \in MemTypes /\ c.at \in Mem /\ c = [type |-> c.type, at |-> c.at]
        /\ k \in Keys /\ KeyOf(c) = k /\ k \notin IoCycles
    BY DecodeCacheAssumption DEF MemCycles, KeyOf, Keys, IoCycles, MemTypes, IoTypes
  <2>2. Rebuilt[k] = PageSlot(k)
    BY <2>1 DEF Rebuilt
  <2>3. base \in MemCycles /\ base.type = c.type /\ PageOf[base.at] = PageOf[c.at]
    BY <2>1, DecodeCacheAssumption DEF MemCycles
  <2>4. CASE In \subseteq Uniform
    <3>1. Resolve(c) = slot
      BY <2>3, <2>4, UniformResolve
    <3>2. PageSlot(k) = slot
      BY <2>4 DEF PageSlot
    <3> QED
      BY <2>1, <2>2, <3>1, <3>2
  <2>5. CASE ~(In \subseteq Uniform) /\ probed \subseteq {slot}
    <3>1. Resolve([type |-> k.type, at |-> c.at]) \in probed
      BY <2>1
    <3>2. Resolve(c) = slot
      BY <2>1, <2>5, <3>1
    <3>3. PageSlot(k) = slot
      BY <2>5 DEF PageSlot
    <3> QED
      BY <2>1, <2>2, <3>2, <3>3
  <2>6. CASE ~(In \subseteq Uniform) /\ ~(probed \subseteq {slot})
    <3>1. PageSlot(k) = [slot EXCEPT !.slow = TRUE]
      BY <2>6 DEF PageSlot
    <3>2. slot \in SlotType
      BY ResolveType
    <3>3. PageSlot(k).slow
      <4> HIDE DEF slot
      <4> QED
        BY <3>1, <3>2 DEF SlotType
    <3> QED
      BY <2>1, <2>2, <3>3
  <2> QED
    BY <2>4, <2>5, <2>6
<1> QED
  BY <1>2, <1>3, <1>4

\* On an I/O cycle PHANTOM* makes no difference to who answers.
LEMMA SettledSame ==
  ASSUME DecodeTypeOK, NEW c \in MemCycles \cup IoCycles
  PROVE  /\ Answering(c, Settled(c)) = Answering(c, Phantom(c))
         /\ Resolve(c).who = First(Answering(c, Settled(c)))
         /\ Resolve(c).slow = Many(Answering(c, Settled(c)))
         /\ Settled(c) = (c \in MemCycles /\ Resolve(c).phantom)
<1>1. CASE c \in MemCycles
  BY <1>1 DEF Settled, Resolve, Phantom
<1>2. CASE c \notin MemCycles
  <2>1. \A b \in In : c \in strap[b].clear <=> c \in strap[b].shadowed
    <3>1. c \in Cycles \ MemCycles
      BY <1>2 DEF Cycles
    <3>2. \A b \in In : b \in Cards /\ strap[b] \in Straps[b]
      BY AnsweringIn DEF DecodeTypeOK
    <3> QED
      BY <3>1, <3>2, DecodeCacheAssumption
  <2>2. {b \in In : Decodes(b, c, FALSE)} = {b \in In : Decodes(b, c, Phantom(c))}
    BY <2>1 DEF Decodes
  <2>3. Answering(c, FALSE) = Answering(c, Phantom(c))
    BY <2>2 DEF Answering
  <2>4. Settled(c) = FALSE
    BY <1>2 DEF Settled
  <2> QED
    BY <1>2, <2>3, <2>4 DEF Resolve
<1> QED
  BY <1>1, <1>2

\* A slot that is right for cycle c serves it as the exact path would.
LEMMA ServedIsExact ==
  ASSUME DecodeTypeOK, NEW c \in MemCycles \cup IoCycles, NEW watching, ~Resolve(c).slow
  PROVE  /\ Served(c, Resolve(c), watching).phantom = Exact(c).phantom
         /\ Served(c, Resolve(c), watching).responder = Exact(c).responder
         /\ Served(c, Resolve(c), watching).touched = Exact(c).touched
         /\ Served(c, Resolve(c), watching).unclaimed = Exact(c).unclaimed
         /\ Served(c, Resolve(c), watching).seen = watching
<1> DEFINE A == Answering(c, Settled(c))
           who == Resolve(c).who
<1>1. A \subseteq In /\ ~Many(A) /\ who = First(A)
  BY AnsweringIn, SettledSame
<1>2. {who} \ {NoCard} = A
  BY <1>1, FirstFacts
<1>3. Settled(c) = (c \in MemCycles /\ Resolve(c).phantom)
  BY SettledSame
<1> HIDE DEF A, who
<1>4. Served(c, Resolve(c), watching)
      = [Effect(c, A, Settled(c), watching) EXCEPT !.contended = contended]
  BY <1>2, <1>3 DEF Served, who
<1>5. Exact(c) = Effect(c, A, Settled(c), {b \in In \cap Snoopers : inUse[b]})
  BY DEF Exact, A
<1> QED
  BY <1>4, <1>5 DEF Effect

-----------------------------------------------------------------------------
DecodeInv == DecodeTypeOK /\ TablesAreExact /\ CycleIsExact

\* A bus that has decoded nothing trusts no table.
LEMMA InitDecodeInv == DecodeInit => DecodeInv
<1> SUFFICES ASSUME DecodeInit PROVE DecodeInv
  OBVIOUS
<1>1. DecodeTypeOK
  <2>1. boards \in Seq(Cards) /\ DOMAIN boards = {}
    BY DEF DecodeInit
  <2>2. tables \in [Keys -> SlotType]
    BY DEF DecodeInit, SlotType
  <2> QED
    BY <2>1, <2>2 DEF DecodeInit, DecodeTypeOK
<1> QED
  BY <1>1 DEF DecodeInit, DecodeInv, TablesAreExact, CycleIsExact, NoCycle

\* A step between cycles sets the dirty flag: nothing is claimed of the tables.
LEMMA DirtyStep ==
  ASSUME DecodeTypeOK', dirty', last' = NoCycle
  PROVE  DecodeInv'
BY DEF DecodeInv, TablesAreExact, CycleIsExact, NoCycle

\* A card that is plugged in makes the tables untrusted.
LEMMA AttachCardStep ==
  ASSUME DecodeInv, NEW b \in Cards, AttachCard(b)
  PROVE  DecodeInv'
<1> USE DEF AttachCard
<1>1. boards' \in Seq(Cards)
  BY DEF DecodeInv, DecodeTypeOK
<1>2. \A i, j \in DOMAIN boards' : boards'[i] = boards'[j] => i = j
  <2>1. /\ boards \in Seq(Cards) /\ \A i \in DOMAIN boards : boards[i] # b
        /\ \A i, j \in DOMAIN boards : boards[i] = boards[j] => i = j
    BY DEF DecodeInv, DecodeTypeOK, In
  <2>2. /\ DOMAIN boards' = 1..(Len(boards) + 1) /\ boards'[Len(boards) + 1] = b
        /\ \A i \in 1..Len(boards) : boards'[i] = boards[i]
        /\ DOMAIN boards = 1..Len(boards) /\ Len(boards) \in Nat
    BY <2>1
  <2> QED
    BY <2>1, <2>2
<1>3. inUse' \in [Cards -> BOOLEAN] /\ \A c \in Cards : strap'[c] \in Straps[c]
  BY DEF DecodeInv, DecodeTypeOK
<1>4. DecodeTypeOK'
  BY <1>1, <1>2, <1>3 DEF DecodeInv, DecodeTypeOK
<1> QED
  BY <1>4, DirtyStep

\* A card pulled out leaves the others in their order, each once.
LEMMA DetachCardStep ==
  ASSUME DecodeInv, NEW b \in Cards, DetachCard(b)
  PROVE  DecodeInv'
<1> USE DEF DetachCard
<1>1. PICK i \in DOMAIN boards :
         boards[i] = b /\ boards' = [j \in 1..(Len(boards) - 1) |-> boards[IF j < i THEN j ELSE j + 1]]
  OBVIOUS
<1>2. /\ boards \in Seq(Cards) /\ \A k, j \in DOMAIN boards : boards[k] = boards[j] => k = j
      /\ DOMAIN boards = 1..Len(boards) /\ Len(boards) \in Nat /\ i \in 1..Len(boards)
  BY DEF DecodeInv, DecodeTypeOK
<1>3. \A j \in 1..(Len(boards) - 1) : (IF j < i THEN j ELSE j + 1) \in 1..Len(boards)
  BY <1>2
<1>4. boards' \in Seq(Cards) /\ DOMAIN boards' = 1..(Len(boards) - 1)
  <2>1. \A j \in 1..(Len(boards) - 1) : boards[IF j < i THEN j ELSE j + 1] \in Cards
    BY <1>2, <1>3
  <2>2. Len(boards) - 1 \in Nat
    BY <1>2
  <2> QED
    BY <1>1, <2>1, <2>2, IsASeq
<1>5. \A k, j \in DOMAIN boards' : boards'[k] = boards'[j] => k = j
  <2> SUFFICES ASSUME NEW k \in 1..(Len(boards) - 1), NEW j \in 1..(Len(boards) - 1),
                      boards'[k] = boards'[j]
               PROVE  k = j
    BY <1>4
  <2> DEFINE at(n) == IF n < i THEN n ELSE n + 1
  <2>1. boards'[k] = boards[at(k)] /\ boards'[j] = boards[at(j)]
    BY <1>1
  <2>2. at(k) \in 1..Len(boards) /\ at(j) \in 1..Len(boards)
    BY <1>3
  <2>3. at(k) = at(j)
    BY <1>2, <2>1, <2>2
  <2> QED
    BY <1>2, <2>3
<1>6. DecodeTypeOK'
  BY <1>4, <1>5 DEF DecodeInv, DecodeTypeOK, Invalidated
<1> QED
  BY <1>6, DirtyStep DEF Invalidated

\* A strap that is moved, or a card enabled or disabled, does the same.
LEMMA StrapStep ==
  ASSUME DecodeInv, NEW b \in In, EnableCard(b) \/ Rewire(b)
  PROVE  DecodeInv'
<1>1. b \in Cards /\ Straps[b] \subseteq Strapping
  BY AnsweringIn, DecodeCacheAssumption DEF DecodeInv
<1>2. DecodeTypeOK' /\ dirty' /\ last' = NoCycle
  <2>1. CASE EnableCard(b)
    BY <1>1, <2>1 DEF EnableCard, DecodeInv, DecodeTypeOK
  <2>2. CASE Rewire(b)
    <3>1. \A c \in Cards : strap'[c] \in Straps[c]
      BY <1>1, <2>2 DEF Rewire, StrapMoves, DecodeInv, DecodeTypeOK
    <3> QED
      BY <2>2, <3>1 DEF Rewire, StrapMoves, Announced, DecodeInv, DecodeTypeOK
  <2> QED
    BY <2>1, <2>2
<1> QED
  BY <1>2, DirtyStep

\* Who answers depends on the boards, the enables and the straps alone.
LEMMA SameWiring ==
  ASSUME UNCHANGED <<boards, inUse, strap>>, NEW c
  PROVE  Resolve(c)' = Resolve(c) /\ In' = In
<1>1. In' = In
  BY DEF In
<1>2. Phantom(c)' = Phantom(c)
  BY <1>1 DEF Phantom
<1>3. \A S : FirstIn(S)' = FirstIn(S)
  BY DEF FirstIn
<1>4. \A ph : Answering(c, ph)' = Answering(c, ph)
  BY <1>1, <1>3 DEF Answering, Decodes
<1>5. \A S : First(S)' = First(S)
  BY <1>3 DEF First
<1> QED
  BY <1>1, <1>2, <1>4, <1>5 DEF Resolve

\* The fields of what a cycle did that CycleIsExact compares.
Agree(c, did) ==
  /\ \A f \in {"phantom", "responder", "touched", "unclaimed"} : did[f] = Exact(c)[f]
  /\ c.type # "IntAck" => did.seen = Exact(c).seen

(***************************************************************************)
(* A cycle that leaves tables the wiring of this state agrees with keeps   *)
(* the invariant: either nothing moved, or a card said so.                 *)
(***************************************************************************)
LEMMA SettleStep ==
  ASSUME DecodeTypeOK, NEW c \in Cycles, NEW did, NEW dirtyNow \in BOOLEAN,
         Settle(c, did, dirtyNow), Agree(c, did), did.contended \in BOOLEAN,
         tables' \in [Keys -> SlotType], snoopers' \subseteq Snoopers,
         ~dirtyNow =>
           /\ snoopers' = In \cap Snoopers
           /\ \A d \in MemCycles \cup IoCycles :
                tables'[KeyOf(d)].slow \/ tables'[KeyOf(d)] = Resolve(d)
  PROVE  DecodeInv'
<1>1. CycleIsExact'
  <2>1. last' = [type |-> c.type, did |-> did, exact |-> Exact(c)]
    BY DEF Settle
  <2> QED
    BY <2>1 DEF Agree, CycleIsExact
<1>2. CASE dirty' = dirtyNow /\ UNCHANGED <<boards, inUse, strap>>
  <2>1. DecodeTypeOK'
    BY <1>2 DEF Settle, DecodeTypeOK
  <2>2. ASSUME ~dirty'
        PROVE  /\ snoopers' = In' \cap Snoopers
               /\ \A d \in MemCycles \cup IoCycles :
                    tables'[KeyOf(d)].slow \/ tables'[KeyOf(d)] = Resolve(d)'
    BY <1>2, <2>2, SameWiring
  <2>3. TablesAreExact'
    BY <2>2 DEF TablesAreExact
  <2> QED
    BY <1>1, <2>1, <2>3 DEF DecodeInv
<1>3. CASE \E b \in (did.touched \cup did.seen) \cap In : StrapMoves(b)
  <2>1. PICK b \in In : StrapMoves(b)
    BY <1>3
  <2>2. b \in Cards
    BY AnsweringIn
  <2>3. \A x \in Cards : strap'[x] \in Straps[x]
    BY <2>1, <2>2 DEF StrapMoves, DecodeTypeOK
  <2>4. DecodeTypeOK' /\ dirty'
    BY <2>1, <2>3 DEF StrapMoves, Announced, Settle, DecodeTypeOK
  <2> QED
    BY <1>1, <2>4 DEF DecodeInv, TablesAreExact
<1> QED
  BY <1>2, <1>3 DEF Settle

\* The exact path says whether two cards answered.
LEMMA ExactType ==
  ASSUME NEW c
  PROVE  Exact(c).contended \in BOOLEAN
BY DEF Exact, Effect, Many

\* A cycle of the processor: served by the tables or exactly, then settled.
LEMMA BusCycleStep ==
  ASSUME DecodeInv, NEW c \in MemCycles \cup IoCycles, BusCycle(c)
  PROVE  DecodeInv'
<1> DEFINE s == tables'[KeyOf(c)]
           watching == {b \in snoopers' : inUse[b]}
           did == IF s.slow THEN [Exact(c) EXCEPT !.seen = watching] ELSE Served(c, s, watching)
<1>1. /\ tables' \in [Keys -> SlotType]
      /\ snoopers' = In \cap Snoopers
      /\ \A d \in MemCycles \cup IoCycles :
           tables'[KeyOf(d)].slow \/ tables'[KeyOf(d)] = Resolve(d)
  <2>1. CASE dirty
    BY <2>1, RebuiltIsExact DEF BusCycle, Watching, DecodeInv
  <2>2. CASE ~dirty
    BY <2>2 DEF BusCycle, DecodeInv, DecodeTypeOK, TablesAreExact
  <2> QED
    BY <2>1, <2>2
<1>2. Settle(c, did, FALSE)
  BY DEF BusCycle
<1>3. c \in Cycles /\ c.type # "IntAck"
  BY DEF Cycles, MemCycles, IoCycles, MemTypes, IoTypes
<1>4. watching = {b \in In \cap Snoopers : inUse[b]} /\ Exact(c).seen = watching
  BY <1>1 DEF Exact, Effect
<1>5. Agree(c, did) /\ did.contended \in BOOLEAN
  <2> HIDE DEF watching
  <2>1. CASE s.slow
    <3>1. did = [Exact(c) EXCEPT !.seen = watching]
      BY <2>1
    <3> HIDE DEF did
    <3> QED
      BY <3>1, <1>4, ExactType DEF Agree, Exact, Effect
  <2>2. CASE ~s.slow
    <3>1. s = Resolve(c)
      BY <1>1, <2>2
    <3>2. did = Served(c, Resolve(c), watching)
      BY <2>2, <3>1
    <3>3. ~Resolve(c).slow
      BY <2>2, <3>1
    <3>4. did.contended \in BOOLEAN
      BY <3>2 DEF Served, Effect, DecodeInv, DecodeTypeOK
    <3> HIDE DEF did
    <3> QED
      BY <1>3, <1>4, <3>2, <3>3, <3>4, ServedIsExact DEF Agree, DecodeInv
  <2> QED
    BY <2>1, <2>2
<1> HIDE DEF did
<1> QED
  BY <1>1, <1>2, <1>3, <1>5, SettleStep DEF DecodeInv

\* An acknowledge never goes by the tables.
LEMMA AcknowledgeStep ==
  ASSUME DecodeInv, Acknowledge
  PROVE  DecodeInv'
<1> DEFINE did == [Exact(IntAck) EXCEPT !.seen = {b \in snoopers : inUse[b]}]
<1>1. Settle(IntAck, did, dirty)
  BY DEF Acknowledge
<1>2. Agree(IntAck, did) /\ did.contended \in BOOLEAN
  BY ExactType DEF Agree, Exact, Effect, IntAck
<1>3. IntAck \in Cycles
  BY DEF Cycles
<1> HIDE DEF did
<1> QED
  BY <1>1, <1>2, <1>3, SettleStep DEF Acknowledge, DecodeInv, DecodeTypeOK, TablesAreExact

\* Every step of the bus keeps what the tables promise: one case for each operation.
LEMMA StepDecodeInv == DecodeInv /\ [DecodeNext]_decodeVars => DecodeInv'
<1> SUFFICES ASSUME DecodeInv, [DecodeNext]_decodeVars
             PROVE  DecodeInv'
  OBVIOUS
<1>1. CASE UNCHANGED decodeVars
  <2>1. DecodeTypeOK' /\ CycleIsExact'
    BY <1>1 DEF decodeVars, DecodeInv, DecodeTypeOK, CycleIsExact
  <2>2. \A c : Resolve(c)' = Resolve(c)
    BY <1>1, SameWiring DEF decodeVars
  <2>3. In' = In
    BY <1>1 DEF decodeVars, In
  <2>4. TablesAreExact'
    BY <1>1, <2>2, <2>3 DEF decodeVars, DecodeInv, TablesAreExact
  <2> QED
    BY <2>1, <2>4 DEF DecodeInv
<1>2. ASSUME NEW b \in Cards, EnableCard(b) \/ Rewire(b)
      PROVE  DecodeInv'
  BY <1>2, StrapStep DEF EnableCard, Rewire
<1> QED
  BY <1>1, <1>2, BusCycleStep, AcknowledgeStep, AttachCardStep, DetachCardStep DEF DecodeNext

\* The inductive invariant of the decode tables, of every behaviour (bus.cpp:546-711).
THEOREM DecodeInvariance == DecodeSpec => []DecodeInv
BY InitDecodeInv, StepDecodeInv, PTL DEF DecodeSpec

\* Types hold, and no card is in two boards.
THEOREM DecodeTypeCorrect == DecodeSpec => []DecodeTypeOK
<1>1. DecodeInv => DecodeTypeOK
  BY DEF DecodeInv
<1> QED
  BY <1>1, DecodeInvariance, PTL

\* Bus::verifySlot never aborts, for any cards that keep the contracts.
THEOREM TablesNeverStale == DecodeSpec => []TablesAreExact
<1>1. DecodeInv => TablesAreExact
  BY DEF DecodeInv
<1> QED
  BY <1>1, DecodeInvariance, PTL

\* The fast path touches the cards the exact path would, on every cycle.
THEOREM CachedCyclesAreExact == DecodeSpec => []CycleIsExact
<1>1. DecodeInv => CycleIsExact
  BY DEF DecodeInv
<1> QED
  BY <1>1, DecodeInvariance, PTL

\* What Bus::peek shows is what a read would bring, by whichever of its two ways.
LEMMA PeekShowsTheRead ==
  ASSUME DecodeTypeOK, TablesAreExact
  PROVE  PeekIsRead
<1> SUFFICES ASSUME NEW a \in Mem,
                    ~Exact([type |-> "MemRead", at |-> a]).contended
             PROVE  PeekWho(a) = Exact([type |-> "MemRead", at |-> a]).touched \cap Peekable
  BY DEF PeekIsRead
<1> DEFINE c == [type |-> "MemRead", at |-> a]
           A == Answering(c, Phantom(c))
           can == A \cap Peekable
<1>1. c \in MemCycles /\ IsRead(c)
  BY DEF MemCycles, MemTypes, IsRead
<1>2. Settled(c) = Phantom(c)
  BY <1>1 DEF Settled, Phantom
<1>3. A \subseteq In /\ can \subseteq In
  BY AnsweringIn
<1>4. Exact(c).touched = {First(A)} \ {NoCard} /\ ~Many(A)
  BY <1>1, <1>2 DEF Exact, Effect
<1>5. NoCard \notin Peekable
  BY DecodeCacheAssumption
<1>6. {First(A)} \ {NoCard} = A
  BY <1>3, <1>4, FirstFacts
<1>7. ~Many(can)
  BY <1>4 DEF Many
<1>8. {First(can)} \ {NoCard} = can
  BY <1>3, <1>7, FirstFacts
<1>9. CASE ~dirty /\ ~tables[KeyOf(c)].slow
  <2>1. tables[KeyOf(c)] = Resolve(c)
    BY <1>1, <1>9 DEF TablesAreExact
  <2>2. tables[KeyOf(c)].who = First(A)
    BY <2>1 DEF Resolve
  <2>3. PeekWho(a) = {First(A)} \cap Peekable
    BY <1>9, <2>2 DEF PeekWho
  <2> QED
    BY <1>4, <1>5, <2>3
<1>10. CASE ~(~dirty /\ ~tables[KeyOf(c)].slow)
  <2>1. PeekWho(a) = {First(can)} \ {NoCard}
    BY <1>10 DEF PeekWho
  <2> QED
    BY <1>4, <1>6, <1>8, <2>1
<1> QED
  BY <1>9, <1>10

\* DISASM and the tracer show the byte a read would bring, from the same card, for any
\* cards and any order of rewiring: by the tables while they are trusted, and by asking
\* every card in turn while they are not.
THEOREM PeeksAreReads == DecodeSpec => []PeekIsRead
<1>1. DecodeInv => PeekIsRead
  BY PeekShowsTheRead DEF DecodeInv
<1> QED
  BY <1>1, DecodeInvariance, PTL

-----------------------------------------------------------------------------
(***************************************************************************)
(* Snapshots.  What a type saves is a list of sixty compositions; of these *)
(* the proof needs only that each begins with whether the board is enabled *)
(* and that one type alone has banks (StatesBegin).  A RESTORE then is     *)
(* right board by board and part by part (ReadIsBack), because the names   *)
(* of the boards tell them and their sections apart (NamesDiffer).         *)
(***************************************************************************)
(***************************************************************************)
(* What the boards save.                                                   *)
(***************************************************************************)
Kinds == {"regs", "due", "span", "phase", "any", "clip", "same", "select", "bounded"}
Unbanked == Seq(Kinds)
Begun == {q \in Unbanked : 1 \in DOMAIN q /\ q[1] = "regs"}

\* States are put one after the other.
LEMMA StatesJoin ==
  /\ \A x \in Unbanked, y \in Unbanked : x \o y \in Unbanked
  /\ \A x \in Begun, y \in Unbanked : x \o y \in Begun
<1>1. \A x \in Unbanked, y \in Unbanked : x \o y \in Unbanked
  BY ConcatProperties DEF Unbanked
<1>2. ASSUME NEW x \in Begun, NEW y \in Unbanked PROVE x \o y \in Begun
  <2>1. /\ x \in Seq(Kinds) /\ y \in Seq(Kinds)
        /\ 1 \in DOMAIN x /\ x[1] = "regs"
    BY DEF Begun, Unbanked
  <2>2. Len(x) \in Nat /\ Len(y) \in Nat /\ 1 <= Len(x)
    BY <2>1
  <2>3. /\ x \o y \in Seq(Kinds) /\ Len(x \o y) = Len(x) + Len(y)
        /\ (x \o y)[1] = x[1]
    BY <2>1, <2>2, ConcatProperties
  <2>4. 1 \in DOMAIN (x \o y)
    BY <2>2, <2>3
  <2> QED
    BY <2>1, <2>3, <2>4 DEF Begun, Unbanked
<1> QED
  BY <1>1, <1>2

\* The parts that stand alone, and the chips.
LEMMA ChipsSave ==
  {Regs, DueAt, Span, Phase, Listed, Clip, Same, Select, Bounded, TwoStageTxState, Mc6850State, Uart1602State, Intel8251State, Sig2651State, Tms5501State, Sio2PortState(1), Sio2PortState(2), BitSerialState, Intel8253State, Intel8255State, Intel8259aState, I8257State, Am95xxState, Msm5832State, Bt453State, Wd17xxState, Upd765State, Hd63484State, Cpu8080State, Cpu8085State, CpuZ80State, ClockState, Heads, HdfState} \subseteq Unbanked
<1>1. {Regs, DueAt, Span, Phase, Listed, Clip, Same, Select, Bounded} \subseteq Unbanked
  BY DEF Unbanked, Kinds, Regs, DueAt, Span, Phase, Listed, Clip, Same, Select, Bounded
<1>2. TwoStageTxState \in Unbanked
  BY <1>1, StatesJoin DEF TwoStageTxState
<1>3. Mc6850State \in Unbanked
  BY <1>1, <1>2, StatesJoin DEF Mc6850State
<1>4. Uart1602State \in Unbanked
  BY <1>1, <1>2, StatesJoin DEF Uart1602State
<1>5. Intel8251State \in Unbanked
  BY <1>1, <1>2, StatesJoin DEF Intel8251State
<1>6. Sig2651State \in Unbanked
  BY <1>1, <1>2, StatesJoin DEF Sig2651State
<1>7. Tms5501State \in Unbanked
  BY <1>1, <1>2, StatesJoin DEF Tms5501State
<1>8. Sio2PortState(1) \in Unbanked /\ Sio2PortState(2) \in Unbanked
  BY <1>3, StatesJoin DEF Sio2PortState
<1>9. BitSerialState \in Unbanked
  BY <1>1, StatesJoin DEF BitSerialState
<1>10. Intel8253State \in Unbanked
  BY <1>1, StatesJoin DEF Intel8253State
<1>11. Intel8255State \in Unbanked
  BY <1>1, StatesJoin DEF Intel8255State
<1>12. Intel8259aState \in Unbanked
  BY <1>1, StatesJoin DEF Intel8259aState
<1>13. I8257State \in Unbanked
  BY <1>1, StatesJoin DEF I8257State
<1>14. Am95xxState \in Unbanked
  BY <1>1, StatesJoin DEF Am95xxState
<1>15. Msm5832State \in Unbanked
  BY <1>1, StatesJoin DEF Msm5832State
<1>16. Bt453State \in Unbanked
  BY <1>1, StatesJoin DEF Bt453State
<1>17. Wd17xxState \in Unbanked
  BY <1>1, StatesJoin DEF Wd17xxState
<1>18. Upd765State \in Unbanked
  BY <1>1, StatesJoin DEF Upd765State
<1>19. Hd63484State \in Unbanked
  BY <1>1, StatesJoin DEF Hd63484State
<1>20. Cpu8080State \in Unbanked
  BY <1>1, StatesJoin DEF Cpu8080State
<1>21. Cpu8085State \in Unbanked
  BY <1>1, StatesJoin DEF Cpu8085State
<1>22. CpuZ80State \in Unbanked
  BY <1>1, StatesJoin DEF CpuZ80State
<1>23. ClockState \in Unbanked
  BY <1>1, StatesJoin DEF ClockState
<1>24. Heads \in Unbanked
  BY <1>1, StatesJoin DEF Heads
<1>25. HdfState \in Unbanked
  BY <1>1, StatesJoin DEF HdfState
<1> QED
  BY <1>1, <1>2, <1>3, <1>4, <1>5, <1>6, <1>7, <1>8, <1>9, <1>10, <1>11, <1>12, <1>13, <1>14, <1>15, <1>16, <1>17, <1>18, <1>19, <1>20, <1>21, <1>22, <1>23, <1>24, <1>25

\* Every board but the banks of memory saves whether it is enabled, and no banks.
LEMMA BoardsSave == \A type \in DOMAIN StateOf \ {"bankmem"} : StateOf[type] \in Begun
<1>1. BoardState \in Begun
  BY ChipsSave, StatesJoin DEF BoardState, Begun, Regs
<1>2. CpuBoardState \in Begun
  BY <1>1, ChipsSave, StatesJoin DEF CpuBoardState
<1>3. Cpu8085BoardState \in Begun
  BY <1>1, ChipsSave, StatesJoin DEF Cpu8085BoardState
<1>4. CpuZ80BoardState \in Begun
  BY <1>1, ChipsSave, StatesJoin DEF CpuZ80BoardState
<1>5. ZcbState \in Begun
  BY <1>4, ChipsSave, StatesJoin DEF ZcbState
<1>6. MemoryState \in Begun
  BY <1>1, ChipsSave, StatesJoin DEF MemoryState
<1>7. FrontPanelState \in Begun
  BY <1>1, ChipsSave, StatesJoin DEF FrontPanelState
<1>8. TurnkeyState \in Begun
  BY <1>1, ChipsSave, StatesJoin DEF TurnkeyState
<1>9. Sio2State \in Begun
  BY <1>1, ChipsSave, StatesJoin DEF Sio2State
<1>10. SerialBaseState \in Begun
  BY <1>1, ChipsSave, StatesJoin DEF SerialBaseState
<1>11. CassetteBaseState \in Begun
  BY <1>10, ChipsSave, StatesJoin DEF CassetteBaseState
<1>12. UioState \in Begun
  BY <1>11, ChipsSave, StatesJoin DEF UioState
<1>13. SolState \in Begun
  BY <1>1, ChipsSave, StatesJoin DEF SolState
<1>14. Io4State \in Begun
  BY <1>1, ChipsSave, StatesJoin DEF Io4State
<1>15. StrapSerialState \in Begun
  BY <1>1, ChipsSave, StatesJoin DEF StrapSerialState
<1>16. InterfacerOneState \in Begun
  BY <1>1, ChipsSave, StatesJoin DEF InterfacerOneState
<1>17. BitstreamerState \in Begun
  BY <1>1, ChipsSave, StatesJoin DEF BitstreamerState
<1>18. Bitstreamer2State \in Begun
  BY <1>1, ChipsSave, StatesJoin DEF Bitstreamer2State
<1>19. PmmiState \in Begun
  BY <1>1, ChipsSave, StatesJoin DEF PmmiState
<1>20. PioState \in Begun
  BY <1>1, ChipsSave, StatesJoin DEF PioState
<1>21. Pio4State \in Begun
  BY <1>1, ChipsSave, StatesJoin DEF Pio4State
<1>22. LpcState \in Begun
  BY <1>1, ChipsSave, StatesJoin DEF LpcState
<1>23. C700State \in Begun
  BY <1>1, ChipsSave, StatesJoin DEF C700State
<1>24. VirtcState \in Begun
  BY <1>1, ChipsSave, StatesJoin DEF VirtcState
<1>25. Rtc100State \in Begun
  BY <1>1, ChipsSave, StatesJoin DEF Rtc100State
<1>26. Ss1State \in Begun
  BY <1>1, ChipsSave, StatesJoin DEF Ss1State
<1>27. MusicState \in Begun
  BY <1>1, ChipsSave, StatesJoin DEF MusicState
<1>28. D7aState \in Begun
  BY <1>1, ChipsSave, StatesJoin DEF D7aState
<1>29. HostBridgeState \in Begun
  BY <1>1, ChipsSave, StatesJoin DEF HostBridgeState
<1>30. SbcState \in Begun
  BY <1>1, ChipsSave, StatesJoin DEF SbcState
<1>31. Pb1State \in Begun
  BY <1>1, ChipsSave, StatesJoin DEF Pb1State
<1>32. V2Z80RomState \in Begun
  BY <1>1, ChipsSave, StatesJoin DEF V2Z80RomState
<1>33. CadzillaState \in Begun
  BY <1>1, ChipsSave, StatesJoin DEF CadzillaState
<1>34. DazzlerState \in Begun
  BY <1>1, ChipsSave, StatesJoin DEF DazzlerState
<1>35. Dazzler2State \in Begun
  BY <1>34, ChipsSave, StatesJoin DEF Dazzler2State
<1>36. VdmState \in Begun
  BY <1>1, ChipsSave, StatesJoin DEF VdmState
<1>37. Vdb8024State \in Begun
  BY <1>1, ChipsSave, StatesJoin DEF Vdb8024State
<1>38. FwiiState \in Begun
  BY <1>1, ChipsSave, StatesJoin DEF FwiiState
<1>39. HardSectorState \in Begun
  BY <1>1, ChipsSave, StatesJoin DEF HardSectorState
<1>40. MdsState \in Begun
  BY <1>39, ChipsSave, StatesJoin DEF MdsState
<1>41. NorthStarState \in Begun
  BY <1>1, ChipsSave, StatesJoin DEF NorthStarState
<1>42. MdsAState \in Begun
  BY <1>41, ChipsSave, StatesJoin DEF MdsAState
<1>43. MdsADState \in Begun
  BY <1>41, ChipsSave, StatesJoin DEF MdsADState
<1>44. VersaFloppyState \in Begun
  BY <1>1, ChipsSave, StatesJoin DEF VersaFloppyState
<1>45. TarbellState \in Begun
  BY <1>1, ChipsSave, StatesJoin DEF TarbellState
<1>46. TarbellDdState \in Begun
  BY <1>45, ChipsSave, StatesJoin DEF TarbellDdState
<1>47. CromemcoFdcState \in Begun
  BY <1>1, ChipsSave, StatesJoin DEF CromemcoFdcState
<1>48. DualModeState \in Begun
  BY <1>1, ChipsSave, StatesJoin DEF DualModeState
<1>49. MicropolisState \in Begun
  BY <1>1, ChipsSave, StatesJoin DEF MicropolisState
<1>50. Disk1State \in Begun
  BY <1>1, ChipsSave, StatesJoin DEF Disk1State
<1>51. Disk1aState \in Begun
  BY <1>1, ChipsSave, StatesJoin DEF Disk1aState
<1>52. FdcPlusState \in Begun
  BY <1>1, ChipsSave, StatesJoin DEF FdcPlusState
<1>53. IcomState \in Begun
  BY <1>1, ChipsSave, StatesJoin DEF IcomState
<1>54. JadeState \in Begun
  BY <1>1, ChipsSave, StatesJoin DEF JadeState
<1>55. HdskState \in Begun
  BY <1>1, ChipsSave, StatesJoin DEF HdskState
<1>56. DualIdeState \in Begun
  BY <1>1, ChipsSave, StatesJoin DEF DualIdeState
<1>57. DualSdState \in Begun
  BY <1>1, ChipsSave, StatesJoin DEF DualSdState
<1> QED
  BY <1>1, <1>2, <1>3, <1>4, <1>5, <1>6, <1>7, <1>8, <1>9, <1>10, <1>11, <1>12, <1>13, <1>14, <1>15, <1>16, <1>17, <1>18, <1>19, <1>20, <1>21, <1>22, <1>23, <1>24, <1>25, <1>26, <1>27, <1>28, <1>29, <1>30, <1>31, <1>32, <1>33, <1>34, <1>35, <1>36, <1>37, <1>38, <1>39, <1>40, <1>41, <1>42, <1>43, <1>44, <1>45, <1>46, <1>47, <1>48, <1>49, <1>50, <1>51, <1>52, <1>53, <1>54, <1>55, <1>56, <1>57 DEF StateOf

-----------------------------------------------------------------------------
(***************************************************************************)
(* Types.                                                                  *)
(***************************************************************************)
AllKinds == Kinds \cup {"segs"}
OneOf(S) == {<<n>> : n \in S}
Bank == Nat \X {1, 2}
PartValues(part, own) ==
  CASE part \in {"regs", "due"} -> OneOf(Nat)
    [] part \in {"span", "phase", "select", "bounded"} -> OneOf(Int)
    [] part = "any" -> Seq(Nat)
    [] part \in {"clip", "same"} -> [1..own -> Nat]
    [] part = "segs" -> [1..(IF own = 2 THEN 2 ELSE 3) -> Bank]
\* In the file a span is what is left, and nothing says how many drives or banks there are.
SavedValues(part) ==
  CASE part \in {"regs", "due", "span"} -> OneOf(Nat)
    [] part \in {"phase", "select", "bounded"} -> OneOf(Int)
    [] part \in {"any", "clip", "same"} -> Seq(Nat)
    [] part = "segs" -> Seq(Bank)

BoardOK(b) ==
  /\ DOMAIN b = {"id", "type", "own", "vals"}
  /\ b.type \in DOMAIN StateOf /\ b.own \in {1, 2}
  /\ DOMAIN b.vals = DOMAIN StateOf[b.type]
  /\ \A i \in DOMAIN b.vals : b.vals[i] \in PartValues(StateOf[b.type][i], b.own)
SectionOK(s) ==
  /\ DOMAIN s = {"id", "type", "extra", "vals"}
  /\ s.type \in DOMAIN StateOf
  /\ DOMAIN s.vals = DOMAIN StateOf[s.type]
  /\ \A i \in DOMAIN s.vals : s.vals[i] \in SavedValues(StateOf[s.type][i])
Distinct(list) ==
  \A i, j \in DOMAIN list : lowerAscii(list[i].id) = lowerAscii(list[j].id) => i = j
FileOK(f) ==
  /\ DOMAIN f = {"ver", "good", "t", "boards"}
  /\ f.t \in Nat
  /\ Distinct(f.boards)
  /\ \A i \in DOMAIN f.boards : SectionOK(f.boards[i])

\* A machine of two boards, or of the processor alone.
Frame ==
  /\ fitted = [i \in 1..Len(fitted) |-> fitted[i]]
  /\ \/ Len(fitted) = 1 /\ fitted[1].id = "cpu"
     \/ Len(fitted) = 2 /\ fitted[1].id \in {"a", "A", "b"} /\ fitted[2].id = "cpu"
SnapTypes ==
  /\ time \in Nat
  /\ Frame
  /\ \A i \in DOMAIN fitted : BoardOK(fitted[i])
  /\ file # <<>> => FileOK(file)
SnapInv == SnapTypes /\ RestoredOrTold

\* Every board begins with whether it is enabled, and only the bank card saves banks.
LEMMA StatesBegin ==
  \A type \in DOMAIN StateOf :
    /\ \A i \in DOMAIN StateOf[type] :
         /\ StateOf[type][i] \in AllKinds
         /\ StateOf[type][i] = "segs" => type = "bankmem"
    /\ 1 \in DOMAIN StateOf[type] /\ StateOf[type][1] = "regs"
<1>1. ASSUME NEW type \in DOMAIN StateOf, type # "bankmem"
      PROVE  /\ \A i \in DOMAIN StateOf[type] :
                  StateOf[type][i] \in AllKinds /\ StateOf[type][i] # "segs"
             /\ 1 \in DOMAIN StateOf[type] /\ StateOf[type][1] = "regs"
  <2>1. StateOf[type] \in Begun
    BY <1>1, BoardsSave
  <2>2. StateOf[type] \in Seq(Kinds)
    BY <2>1 DEF Begun, Unbanked
  <2>3. \A i \in DOMAIN StateOf[type] : StateOf[type][i] \in Kinds
    BY <2>2
  <2> QED
    BY <2>1, <2>3 DEF Begun, AllKinds, Kinds
<1>2. /\ StateOf["bankmem"] \in Seq(AllKinds)
      /\ Len(StateOf["bankmem"]) = 3 /\ StateOf["bankmem"][1] = "regs"
  <2> DEFINE x == <<"regs">>
             y == <<"segs">>
  <2>1. /\ x \in Seq(AllKinds) /\ Len(x) = 1 /\ x[1] = "regs"
        /\ y \in Seq(AllKinds) /\ Len(y) = 1
    BY DEF AllKinds, Kinds
  <2>2. StateOf["bankmem"] = (x \o y) \o x
    BY DEF StateOf, MemBankState, BoardState, Regs, Segs
  <2> HIDE DEF x, y
  <2>3. /\ x \o y \in Seq(AllKinds) /\ Len(x \o y) = Len(x) + Len(y)
        /\ \A i \in 1..Len(x) + Len(y) : (x \o y)[i] = IF i <= Len(x) THEN x[i] ELSE y[i - Len(x)]
    BY <2>1, ConcatProperties
  <2>4. /\ (x \o y) \o x \in Seq(AllKinds) /\ Len((x \o y) \o x) = 3
        /\ ((x \o y) \o x)[1] = "regs"
    BY <2>1, <2>3, ConcatProperties
  <2> QED
    BY <2>2, <2>4
<1>3. /\ \A i \in DOMAIN StateOf["bankmem"] : StateOf["bankmem"][i] \in AllKinds
      /\ 1 \in DOMAIN StateOf["bankmem"] /\ StateOf["bankmem"][1] = "regs"
  BY <1>2 DEF AllKinds, Kinds
<1> QED
  BY <1>1, <1>3

\* A new board, or one that has run, has values of its types.
LEMMA ValueIs ==
  ASSUME NEW part \in AllKinds, NEW own \in {1, 2}, NEW stamp \in Nat, NEW due \in Nat
  PROVE  Value(part, own, stamp, due) \in PartValues(part, own)
<1>1. CASE part \in {"regs", "due", "span", "phase", "select", "bounded"}
  BY <1>1 DEF Value, PartValues, OneOf
<1>2. CASE part = "any"
  <2>1. stamp % 2 \in {0, 1}
    OBVIOUS
  <2>2. [i \in 1..(stamp % 2) |-> stamp] \in Seq(Nat)
    BY <2>1
  <2> QED
    BY <1>2, <2>2 DEF Value, PartValues
<1>3. CASE part \in {"clip", "same"}
  BY <1>3 DEF Value, PartValues
<1>4. CASE part = "segs"
  <2>1. Banks(own, stamp) \in [1..(IF own = 2 THEN 2 ELSE 3) -> Bank]
    BY DEF Banks, Bank
  <2> QED
    BY <1>4, <2>1 DEF Value, PartValues
<1> QED
  BY <1>1, <1>2, <1>3, <1>4 DEF AllKinds, Kinds

\* What is written of a part has the types of the file.
LEMMA WrittenIs ==
  ASSUME NEW part \in AllKinds, NEW own \in {1, 2}, NEW val \in PartValues(part, own), NEW now \in Nat
  PROVE  Written(part, val, now) \in SavedValues(part)
<1>1. CASE part \in {"regs", "due"}
  BY <1>1 DEF Written, PartValues, SavedValues, OneOf
<1>2. CASE part \in {"select", "bounded"}
  BY <1>2 DEF Written, PartValues, SavedValues, OneOf
<1>3. CASE part \in {"span", "phase"}
  <2>1. PICK n \in Int : val = <<n>>
    BY <1>3 DEF PartValues, OneOf
  <2>2. val[1] = n /\ Max0(n - now) \in Nat /\ now - n \in Int
    BY <2>1 DEF Max0
  <2> QED
    BY <1>3, <2>2 DEF Written, SavedValues, OneOf
<1>4. CASE part = "any"
  BY <1>4 DEF Written, PartValues, SavedValues
<1>5. CASE part \in {"clip", "same"}
  <2>1. val \in [1..own -> Nat]
    BY <1>5 DEF PartValues
  <2>2. val \in Seq(Nat)
    BY <2>1
  <2> QED
    BY <1>5, <2>2 DEF Written, SavedValues
<1>6. CASE part = "segs"
  <2>1. val \in [1..(IF own = 2 THEN 2 ELSE 3) -> Bank]
    BY <1>6 DEF PartValues
  <2>2. val \in Seq(Bank)
    BY <2>1
  <2> QED
    BY <1>6, <2>2 DEF Written, SavedValues
<1> QED
  BY <1>1, <1>2, <1>3, <1>4, <1>5, <1>6 DEF AllKinds, Kinds

\* What a part is after it has been read, and how it compares with the file.  Back says of one
\* part what IsBack says of a board, Differs what Deviates says.
Back(part, own, val, saved, now) ==
  CASE part = "clip" -> \A j \in DOMAIN val \intersect DOMAIN saved : val[j] = saved[j]
    [] part \in {"select", "bounded"} -> val[1] < own /\ (val # saved => saved[1] >= own)
    [] part = "segs" -> val = saved /\ \A j \in DOMAIN val : val[j][2] = own
    [] OTHER -> Written(part, val, now) = saved
Differs(part, own, val, saved) ==
  \/ part = "select" /\ saved[1] >= own
  \/ part = "same" /\ saved # val
  \/ part = "segs" /\ Len(saved) # Len(val)
  \/ part = "segs" /\ \E j \in DOMAIN val : val[j][2] # own

\* What a part reads of a section that has its types, is of the part's own types.
LEMMA ReadIs ==
  ASSUME NEW part \in AllKinds, NEW own \in {1, 2}, NEW was \in PartValues(part, own),
         NEW saved \in SavedValues(part), NEW now \in Nat
  PROVE  ReadPart(part, own, was, saved, now) \in PartValues(part, own)
<1>1. CASE part \in {"regs", "due"}
  BY <1>1 DEF ReadPart, PartValues, SavedValues
<1>2. CASE part = "select"
  BY <1>2 DEF ReadPart, PartValues, SavedValues
<1>3. CASE part = "bounded"
  BY <1>3 DEF ReadPart, Selected, PartValues, SavedValues, OneOf
<1>4. CASE part \in {"span", "phase"}
  <2>1. PICK n \in Int : saved = <<n>>
    BY <1>4 DEF SavedValues, OneOf
  <2>2. saved[1] = n
    BY <2>1
  <2> QED
    BY <1>4, <2>2 DEF ReadPart, PartValues, OneOf
<1>5. CASE part = "any"
  BY <1>5 DEF ReadPart, PartValues, SavedValues
<1>6. CASE part = "clip"
  <2>1. saved \in Seq(Nat) /\ was \in [1..own -> Nat]
    BY <1>6 DEF PartValues, SavedValues
  <2>2. \A i \in 1..own : i <= Len(saved) => saved[i] \in Nat
    BY <2>1
  <2>3. [i \in 1..own |-> IF i <= Len(saved) THEN saved[i] ELSE was[i]] \in [1..own -> Nat]
    BY <2>1, <2>2
  <2> QED
    BY <1>6, <2>3 DEF ReadPart, PartValues
<1>7. CASE part = "same"
  <2>1. saved \in Seq(Nat) /\ was \in [1..own -> Nat]
    BY <1>7 DEF PartValues, SavedValues
  <2>2. Len(saved) = own => saved \in [1..own -> Nat]
    BY <2>1
  <2> QED
    BY <1>7, <2>1, <2>2 DEF ReadPart, PartValues
<1>8. CASE part = "segs"
  <2> DEFINE n == IF own = 2 THEN 2 ELSE 3
  <2>1. saved \in Seq(Bank) /\ was \in [1..n -> Bank]
    BY <1>8 DEF PartValues, SavedValues
  <2>2. \A i \in 1..n : i <= Len(saved) => saved[i] \in Bank
    BY <2>1
  <2>3. [i \in DOMAIN was |-> IF i <= Len(saved) THEN saved[i] ELSE was[i]] \in [1..n -> Bank]
    BY <2>1, <2>2
  <2> QED
    BY <1>8, <2>3 DEF ReadPart, PartValues
<1> QED
  BY <1>1, <1>2, <1>3, <1>4, <1>5, <1>6, <1>7, <1>8 DEF AllKinds, Kinds

\* A part that has been read is what was saved, unless it is one of those that differ.
LEMMA ReadIsBack ==
  ASSUME NEW part \in AllKinds, NEW own \in {1, 2}, NEW was \in PartValues(part, own),
         NEW saved \in SavedValues(part), NEW now \in Nat,
         part = "segs" => Len(saved) <= Len(was)
  PROVE  LET val == ReadPart(part, own, was, saved, now)
         IN  Back(part, own, val, saved, now) <=> ~Differs(part, own, val, saved)
<1> DEFINE val == ReadPart(part, own, was, saved, now)
<1>1. CASE part \in {"regs", "due", "any"}
  BY <1>1 DEF ReadPart, Back, Differs, Written
<1>2. CASE part = "select"
  <2>1. saved[1] \in Int
    BY <1>2 DEF SavedValues, OneOf
  <2>2. val = saved
    BY <1>2 DEF ReadPart
  <2> QED
    BY <1>2, <2>1, <2>2 DEF Back, Differs
<1>3. CASE part = "bounded"
  <2>1. saved[1] \in Int
    BY <1>3 DEF SavedValues, OneOf
  <2>2. val = IF saved[1] < own THEN saved ELSE <<-1>>
    BY <1>3 DEF ReadPart, Selected
  <2>3. val[1] < own /\ (val # saved => saved[1] >= own)
    BY <2>1, <2>2
  <2> QED
    BY <1>3, <2>3 DEF Back, Differs
<1>4. CASE part = "span"
  <2>1. PICK n \in Nat : saved = <<n>>
    BY <1>4 DEF SavedValues, OneOf
  <2>2. val = <<now + n>>
    BY <1>4, <2>1 DEF ReadPart
  <2>3. Written(part, val, now) = saved
    BY <1>4, <2>1, <2>2 DEF Written, Max0
  <2> QED
    BY <1>4, <2>3 DEF Back, Differs
<1>5. CASE part = "phase"
  <2>1. PICK n \in Int : saved = <<n>>
    BY <1>5 DEF SavedValues, OneOf
  <2>2. val = <<now - n>>
    BY <1>5, <2>1 DEF ReadPart
  <2>3. Written(part, val, now) = saved
    BY <1>5, <2>1, <2>2 DEF Written
  <2> QED
    BY <1>5, <2>3 DEF Back, Differs
<1>6. CASE part = "clip"
  <2>1. saved \in Seq(Nat)
    BY <1>6 DEF SavedValues
  <2>2. val = [i \in 1..own |-> IF i <= Len(saved) THEN saved[i] ELSE was[i]]
    BY <1>6 DEF ReadPart
  <2>3. \A j \in DOMAIN val \intersect DOMAIN saved : val[j] = saved[j]
    BY <2>1, <2>2
  <2> QED
    BY <1>6, <2>3 DEF Back, Differs
<1>7. CASE part = "same"
  BY <1>7 DEF Back, Differs, Written
<1>8. CASE part = "segs"
  <2>1. saved \in Seq(Bank) /\ was \in Seq(Bank)
    <3>1. was \in [1..(IF own = 2 THEN 2 ELSE 3) -> Bank]
      BY <1>8 DEF PartValues
    <3> QED
      BY <1>8, <3>1 DEF SavedValues
  <2>2. val = [i \in DOMAIN was |-> IF i <= Len(saved) THEN saved[i] ELSE was[i]]
    BY <1>8 DEF ReadPart
  <2>3. /\ DOMAIN was = 1..Len(was) /\ Len(was) \in Nat
        /\ DOMAIN saved = 1..Len(saved) /\ Len(saved) \in Nat
        /\ saved = [i \in 1..Len(saved) |-> saved[i]]
    BY <2>1
  <2>4. DOMAIN val = 1..Len(was) /\ Len(val) = Len(was)
    BY <2>2, <2>3
  <2>5. Len(saved) = Len(val) => val = saved
    BY <2>2, <2>3, <2>4
  <2> HIDE DEF val
  <2>6. Back(part, own, val, saved, now) <=> val = saved /\ \A j \in DOMAIN val : val[j][2] = own
    BY <1>8 DEF Back
  <2>7. Differs(part, own, val, saved) <=> Len(saved) # Len(val) \/ \E j \in DOMAIN val : val[j][2] # own
    BY <1>8 DEF Differs
  <2>8. Back(part, own, val, saved, now) <=> ~Differs(part, own, val, saved)
    BY <2>5, <2>6, <2>7
  <2> QED
    BY <2>8 DEF val
<1> QED
  BY <1>1, <1>2, <1>3, <1>4, <1>5, <1>6, <1>7, <1>8 DEF AllKinds, Kinds

-----------------------------------------------------------------------------
(***************************************************************************)
(* A board.                                                                *)
(***************************************************************************)
\* What IsNew says of a board's parts.
NewParts(b) == \A i \in DOMAIN b.vals : StateOf[b.type][i] # "clip" =>
                 b.vals[i] = Value(StateOf[b.type][i], b.own, 0, 0)

\* A board that comes out of power() has its types, and but for a bank card it is as new and
\* waits for nothing.
LEMMA PowersOn ==
  ASSUME NEW b, BoardOK(b), NEW now \in Nat
  PROVE  /\ BoardOK(AtPowerOn(b))
         /\ AtPowerOn(b).id = b.id /\ AtPowerOn(b).type = b.type
         /\ b.type # "bankmem" => NewParts(AtPowerOn(b)) /\ ~Busy(AtPowerOn(b), now)
<1> DEFINE Part(i) == CASE StateOf[b.type][i] = "clip" -> b.vals[i]
                        [] StateOf[b.type][i] = "segs" -> [j \in DOMAIN b.vals[i] |-> <<0, b.vals[i][j][2]>>]
                        [] OTHER -> Value(StateOf[b.type][i], b.own, 0, 0)
           c == AtPowerOn(b)
<1>1. /\ DOMAIN c = DOMAIN b
      /\ c.id = b.id /\ c.type = b.type /\ c.own = b.own
      /\ c.vals = [i \in DOMAIN b.vals |-> Part(i)]
  BY DEF AtPowerOn, BoardOK
<1>2. /\ b.type \in DOMAIN StateOf /\ b.own \in {1, 2} /\ DOMAIN b.vals = DOMAIN StateOf[b.type]
      /\ \A i \in DOMAIN b.vals :
           /\ StateOf[b.type][i] \in AllKinds
           /\ StateOf[b.type][i] = "segs" => b.type = "bankmem"
           /\ b.vals[i] \in PartValues(StateOf[b.type][i], b.own)
      /\ 1 \in DOMAIN b.vals /\ StateOf[b.type][1] = "regs"
  BY StatesBegin DEF BoardOK
<1>3. \A i \in DOMAIN b.vals : Value(StateOf[b.type][i], b.own, 0, 0) \in PartValues(StateOf[b.type][i], b.own)
  BY <1>2, ValueIs
<1>4. ASSUME NEW i \in DOMAIN b.vals PROVE Part(i) \in PartValues(StateOf[b.type][i], b.own)
  <2>1. CASE StateOf[b.type][i] = "segs"
    <3> DEFINE v == b.vals[i]
               n == IF b.own = 2 THEN 2 ELSE 3
    <3>1. v \in [1..n -> Bank]
      BY <1>2, <2>1 DEF PartValues
    <3> HIDE DEF v, n
    <3>2. \A j \in 1..n : v[j][2] \in {1, 2}
      BY <3>1 DEF Bank
    <3>3. [j \in DOMAIN v |-> <<0, v[j][2]>>] \in [1..n -> Bank]
      BY <3>1, <3>2 DEF Bank
    <3> QED
      BY <2>1, <3>3 DEF PartValues, v, n
  <2> QED
    BY <1>2, <1>3, <2>1
<1> HIDE DEF c, Part
<1>5. BoardOK(c)
  BY <1>1, <1>2, <1>4 DEF BoardOK
<1>6. ASSUME b.type # "bankmem" PROVE NewParts(c) /\ ~Busy(c, now)
  <2>1. ASSUME NEW i \in DOMAIN b.vals, StateOf[b.type][i] # "clip"
        PROVE  c.vals[i] = Value(StateOf[b.type][i], b.own, 0, 0)
    BY <1>1, <1>2, <1>6, <2>1 DEF Part
  <2>2. DOMAIN c.vals = DOMAIN b.vals
    BY <1>1
  <2>3. NewParts(c)
    BY <1>1, <2>1, <2>2 DEF NewParts
  <2>4. \A i \in DOMAIN b.vals : StateOf[b.type][i] \in {"due", "regs"} => c.vals[i][1] = 0
    BY <2>1 DEF Value
  <2>5. c.vals[1][1] % 2 # 1
    BY <1>2, <2>4
  <2>6. ~Busy(c, now)
    BY <1>1, <1>2, <2>2, <2>4, <2>5 DEF Busy
  <2> QED
    BY <2>3, <2>6
<1> QED
  BY <1>1, <1>5, <1>6 DEF c

\* A board that has been read keeps its types, and each part is what was saved or differs.
LEMMA Reads ==
  ASSUME NEW b, BoardOK(b), NEW s, SectionOK(s), s.type = b.type, NEW now \in Nat
  PROVE  LET c == Deserialize(b, s, now)
         IN  /\ BoardOK(c)
             /\ c.id = b.id /\ c.type = b.type
             /\ FitsBuild(b, s) => \A i \in DOMAIN c.vals :
                  Back(StateOf[c.type][i], c.own, c.vals[i], s.vals[i], now)
                    <=> ~Differs(StateOf[c.type][i], c.own, c.vals[i], s.vals[i])
<1> DEFINE c == Deserialize(b, s, now)
           Part(i) == ReadPart(StateOf[b.type][i], b.own, b.vals[i], s.vals[i], now)
<1>1. /\ DOMAIN c = DOMAIN b
      /\ c.id = b.id /\ c.type = b.type /\ c.own = b.own
      /\ c.vals = [i \in DOMAIN b.vals |-> Part(i)]
  BY DEF Deserialize, BoardOK
<1>2. /\ b.type \in DOMAIN StateOf /\ b.own \in {1, 2}
      /\ DOMAIN b.vals = DOMAIN StateOf[b.type] /\ DOMAIN s.vals = DOMAIN b.vals
      /\ \A i \in DOMAIN b.vals :
           /\ StateOf[b.type][i] \in AllKinds
           /\ b.vals[i] \in PartValues(StateOf[b.type][i], b.own)
           /\ s.vals[i] \in SavedValues(StateOf[b.type][i])
  BY StatesBegin DEF BoardOK, SectionOK
<1>3. \A i \in DOMAIN b.vals : Part(i) \in PartValues(StateOf[b.type][i], b.own)
  BY <1>2, ReadIs
<1>4. ASSUME FitsBuild(b, s), NEW i \in DOMAIN b.vals
      PROVE  Back(StateOf[b.type][i], b.own, Part(i), s.vals[i], now)
               <=> ~Differs(StateOf[b.type][i], b.own, Part(i), s.vals[i])
  <2>1. StateOf[b.type][i] = "segs" => Len(s.vals[i]) <= Len(b.vals[i])
    BY <1>4 DEF FitsBuild
  <2> QED
    BY <1>2, <2>1, ReadIsBack
<1> HIDE DEF c, Part
<1>5. BoardOK(c)
  BY <1>1, <1>2, <1>3 DEF BoardOK
<1>6. FitsBuild(b, s) => \A i \in DOMAIN c.vals :
        Back(StateOf[c.type][i], c.own, c.vals[i], s.vals[i], now)
          <=> ~Differs(StateOf[c.type][i], c.own, c.vals[i], s.vals[i])
  BY <1>1, <1>4
<1> QED
  BY <1>1, <1>5, <1>6 DEF c

\* What RESTORE makes of a board: what the file says of it, or a new one.
LEMMA Restores ==
  ASSUME NEW b, BoardOK(b), NEW f, FileOK(f), NEW now \in Nat
  PROVE  LET r == RestoredBoard(b, f, now)
         IN  /\ BoardOK(r)
             /\ r.id = b.id /\ r.type = b.type
             /\ ~IsRestored(b, f) /\ b.type # "bankmem" => NewParts(r) /\ ~Busy(r, now)
             /\ IsRestored(b, f) =>
                  \E j \in Find(f.boards, b.id) :
                    /\ f.boards[j].type = r.type
                    /\ \A i \in DOMAIN r.vals :
                         Back(StateOf[r.type][i], r.own, r.vals[i], f.boards[j].vals[i], now)
                           <=> ~Differs(StateOf[r.type][i], r.own, r.vals[i], f.boards[j].vals[i])
<1>1. CASE Matches(b, f) = {}
  <2>1. RestoredBoard(b, f, now) = AtPowerOn(b)
    BY <1>1 DEF RestoredBoard
  <2>2. ~IsRestored(b, f)
    BY <1>1 DEF IsRestored
  <2> QED
    BY <2>1, <2>2, PowersOn
<1>2. CASE Matches(b, f) # {}
  <2> DEFINE j == CHOOSE i \in Matches(b, f) : TRUE
             s == f.boards[j]
             c == Deserialize(b, s, now)
  <2>1. j \in Matches(b, f)
    BY <1>2
  <2>2. /\ j \in Find(f.boards, b.id) /\ j \in DOMAIN f.boards
        /\ s.type = b.type
    BY <2>1 DEF Matches, Find
  <2>3. \A i \in Matches(b, f) : i = j
    BY <2>1 DEF Matches, Find, FileOK, Distinct
  <2>4. IsRestored(b, f) <=> FitsBuild(b, s)
    BY <2>1, <2>3 DEF IsRestored
  <2>5. RestoredBoard(b, f, now) = IF FitsBuild(b, s) THEN c ELSE AtPowerOn(c)
    BY <1>2 DEF RestoredBoard
  <2>6. SectionOK(s)
    BY <2>2 DEF FileOK
  <2> HIDE DEF j
  <2>7. /\ BoardOK(c) /\ c.id = b.id /\ c.type = b.type
        /\ FitsBuild(b, s) => \A i \in DOMAIN c.vals :
             Back(StateOf[c.type][i], c.own, c.vals[i], s.vals[i], now)
               <=> ~Differs(StateOf[c.type][i], c.own, c.vals[i], s.vals[i])
    BY <2>2, <2>6, Reads
  <2> HIDE DEF c
  <2>8. CASE FitsBuild(b, s)
    BY <2>2, <2>4, <2>5, <2>7, <2>8
  <2>9. CASE ~FitsBuild(b, s)
    <3>1. /\ BoardOK(AtPowerOn(c)) /\ AtPowerOn(c).id = c.id /\ AtPowerOn(c).type = c.type
          /\ c.type # "bankmem" => NewParts(AtPowerOn(c)) /\ ~Busy(AtPowerOn(c), now)
      BY <2>7, PowersOn
    <3> QED
      BY <2>4, <2>5, <2>7, <2>9, <3>1
  <2> QED
    BY <2>8, <2>9
<1> QED
  BY <1>1, <1>2

\* A section has the types of the file.
LEMMA SectionIs ==
  ASSUME NEW b, BoardOK(b), NEW now \in Nat
  PROVE  SectionOK(Section(b, now)) /\ Section(b, now).id = b.id
<1>1. \A i \in DOMAIN b.vals :
        Written(StateOf[b.type][i], b.vals[i], now) \in SavedValues(StateOf[b.type][i])
  BY StatesBegin, WrittenIs DEF BoardOK
<1> QED
  BY <1>1 DEF Section, SectionOK, BoardOK

\* A board that runs, and a new one.
LEMMA ValuesAre ==
  ASSUME NEW type \in DOMAIN StateOf, NEW own \in {1, 2}, NEW stamp \in Nat, NEW due \in Nat
  PROVE  /\ DOMAIN Values(type, own, stamp, due) = DOMAIN StateOf[type]
         /\ \A i \in DOMAIN StateOf[type] :
              Values(type, own, stamp, due)[i] \in PartValues(StateOf[type][i], own)
BY StatesBegin, ValueIs DEF Values
\* A board that is plugged in new has values of its type.
LEMMA NewBoardIs ==
  ASSUME NEW id, NEW type \in DOMAIN StateOf, NEW own \in {1, 2}
  PROVE  BoardOK(NewBoard(id, type, own)) /\ NewBoard(id, type, own).id = id
BY ValuesAre DEF NewBoard, BoardOK

\* New straps: as many drives and banks as they say.
LEMMA ResizedIs ==
  ASSUME NEW b, BoardOK(b), NEW own \in {1, 2}
  PROVE  BoardOK(Resized(b, own)) /\ Resized(b, own).id = b.id
<1> DEFINE Part(i) ==
             CASE StateOf[b.type][i] = "clip" -> [j \in 1..own |-> IF j <= Len(b.vals[i]) THEN b.vals[i][j] ELSE 0]
               [] StateOf[b.type][i] = "same" -> [j \in 1..own |-> 0]
               [] StateOf[b.type][i] = "segs" -> Banks(own, 0)
               [] StateOf[b.type][i] = "select" /\ b.type # "t16fdc" -> Selected(b.vals[i], own)
               [] OTHER -> b.vals[i]
           c == Resized(b, own)
<1>1. /\ DOMAIN c = DOMAIN b
      /\ c.id = b.id /\ c.type = b.type /\ c.own = own
      /\ c.vals = [i \in DOMAIN b.vals |-> Part(i)]
  BY DEF Resized, BoardOK
<1>2. /\ b.type \in DOMAIN StateOf /\ b.own \in {1, 2} /\ DOMAIN b.vals = DOMAIN StateOf[b.type]
      /\ \A i \in DOMAIN b.vals :
           /\ StateOf[b.type][i] \in AllKinds
           /\ b.vals[i] \in PartValues(StateOf[b.type][i], b.own)
  BY StatesBegin DEF BoardOK
<1>3. ASSUME NEW i \in DOMAIN b.vals PROVE Part(i) \in PartValues(StateOf[b.type][i], own)
  <2> DEFINE part == StateOf[b.type][i]
             v == b.vals[i]
  <2>1. part \in AllKinds /\ v \in PartValues(part, b.own)
    BY <1>2
  <2>2. CASE part \in {"regs", "due", "span", "phase", "any", "bounded"}
    BY <2>1, <2>2 DEF PartValues
  <2>3. CASE part = "select"
    <3>1. v \in OneOf(Int)
      BY <2>1, <2>3 DEF PartValues
    <3>2. Selected(v, own) \in OneOf(Int)
      BY <3>1 DEF Selected, OneOf
    <3> QED
      BY <2>3, <3>1, <3>2 DEF PartValues
  <2>4. CASE part = "clip"
    <3>1. v \in [1..b.own -> Nat]
      BY <2>1, <2>4 DEF PartValues
    <3>2. Len(v) = b.own
      BY <1>2, <3>1
    <3> HIDE DEF v
    <3>3. \A j \in 1..own : j <= Len(v) => v[j] \in Nat
      BY <1>2, <3>1, <3>2
    <3>4. [j \in 1..own |-> IF j <= Len(v) THEN v[j] ELSE 0] \in [1..own -> Nat]
      BY <3>3
    <3> QED
      BY <2>4, <3>4 DEF PartValues, v
  <2>5. CASE part = "same"
    BY <2>5 DEF PartValues
  <2>6. CASE part = "segs"
    <3>1. Banks(own, 0) \in [1..(IF own = 2 THEN 2 ELSE 3) -> Bank]
      BY DEF Banks, Bank
    <3> QED
      BY <2>6, <3>1 DEF PartValues
  <2> QED
    BY <2>1, <2>2, <2>3, <2>4, <2>5, <2>6 DEF AllKinds, Kinds
<1> HIDE DEF c, Part
<1>4. BoardOK(c)
  BY <1>1, <1>2, <1>3 DEF BoardOK
<1> QED
  BY <1>1, <1>4 DEF c

-----------------------------------------------------------------------------
(***************************************************************************)
(* Every step keeps the invariant.                                         *)
(***************************************************************************)
\* The boards may change, but stay in their slots under their names.
LEMMA SameFrame ==
  ASSUME Frame, DOMAIN fitted' = DOMAIN fitted,
         fitted' = [i \in DOMAIN fitted |-> fitted'[i]],
         \A i \in DOMAIN fitted : fitted'[i].id = fitted[i].id
  PROVE  Frame'
<1>1. Len(fitted) \in {1, 2} /\ DOMAIN fitted = 1..Len(fitted)
  BY DEF Frame
<1>2. Len(fitted') = Len(fitted)
  BY <1>1
<1> QED
  BY <1>1, <1>2 DEF Frame

\* The names of a machine's boards tell them apart, capital letters or not.
LEMMA NamesDiffer ==
  ASSUME Frame
  PROVE  /\ Distinct(fitted)
         /\ \A i, j \in DOMAIN fitted : fitted[i].id = fitted[j].id => i = j
<1>1. DOMAIN fitted = 1..Len(fitted)
  BY DEF Frame
<1>2. CASE Len(fitted) = 1
  BY <1>1, <1>2 DEF Distinct
<1>3. CASE Len(fitted) = 2
  <2>1. fitted[1].id \in {"a", "A", "b"} /\ fitted[2].id = "cpu"
    BY <1>3 DEF Frame
  <2>2. lowerAscii(fitted[1].id) # lowerAscii(fitted[2].id) /\ fitted[1].id # fitted[2].id
    BY <2>1 DEF lowerAscii
  <2>3. DOMAIN fitted = {1, 2}
    BY <1>1, <1>3
  <2> QED
    BY <2>2, <2>3 DEF Distinct
<1> QED
  BY <1>2, <1>3 DEF Frame

\* The property, of a machine, its queue and a file.
NewAt(b, q) == NewParts(b) /\ \A e \in q : e.id # b.id
BackAt(b, s, q, now) ==
  /\ \A i \in DOMAIN b.vals : Back(StateOf[b.type][i], b.own, b.vals[i], s.vals[i], now)
  /\ {e.wake : e \in {x \in q : x.id = b.id}} = IF Busy(b, now) THEN Deadlines(b.type) ELSE {}
DiffersAt(b, s, now) ==
  \/ \E i \in DOMAIN b.vals : Differs(StateOf[b.type][i], b.own, b.vals[i], s.vals[i])
  \/ b.type \in Forgets /\ Busy(b, now)
ToldAt(list, now, q, f, named) ==
  /\ now = f.t
  /\ \A j \in DOMAIN f.boards : f.boards[j].id \in named \/ Find(list, f.boards[j].id) # {}
  /\ \A i \in DOMAIN list :
       IF list[i].id \in named THEN NewAt(list[i], q) \/ list[i].type = "bankmem"
       ELSE \E j \in Find(f.boards, list[i].id) :
              /\ f.boards[j].type = list[i].type
              /\ BackAt(list[i], f.boards[j], q, now) <=> ~DiffersAt(list[i], f.boards[j], now)
\* RestoredOrTold says of the present state, and of the next, what ToldAt says of its parts.
LEMMA ToldIs ==
  /\ RestoredOrTold <=> (result = "restored" => ToldAt(fitted, time, queue, file, notes))
  /\ RestoredOrTold' <=> (result' = "restored" => ToldAt(fitted', time', queue', file', notes'))
<1>1. RestoredOrTold <=> (result = "restored" => ToldAt(fitted, time, queue, file, notes))
  BY DEF RestoredOrTold, IsNew, IsBack, PartIsBack, Deviates, ToldAt, NewAt, NewParts, BackAt, Back,
         DiffersAt, Differs
<1>2. RestoredOrTold' <=> (result' = "restored" => ToldAt(fitted', time', queue', file', notes'))
  BY DEF RestoredOrTold, IsNew, IsBack, PartIsBack, Deviates, ToldAt, NewAt, NewParts, BackAt, Back,
         DiffersAt, Differs
<1> QED
  BY <1>1, <1>2

\* The deadlines a board arms, and the two that arm none.
LEMMA WakesOf ==
  ASSUME NEW b, NEW now
  PROVE  {e.wake : e \in Rearmed(b, now)} = IF Busy(b, now) THEN Rearms(b.type) ELSE {}
<1>1. CASE Busy(b, now)
  <2>1. Rearmed(b, now) = {[id |-> b.id, wake |-> w] : w \in Rearms(b.type)}
    BY <1>1 DEF Rearmed
  <2>3. \A w : [id |-> b.id, wake |-> w].wake = w
    OBVIOUS
  <2>4. \A e : e \in Rearmed(b, now) <=> \E w \in Rearms(b.type) : e = [id |-> b.id, wake |-> w]
    BY <2>1
  <2>2. \A w : w \in {e.wake : e \in Rearmed(b, now)} <=> w \in Rearms(b.type)
    BY <2>3, <2>4, Zenon
  <2> QED
    BY <1>1, <2>2
<1>2. CASE ~Busy(b, now)
  BY <1>2 DEF Rearmed
<1> QED
  BY <1>1, <1>2
\* The acknowledge of an 88-C700 and the call of a modem are not armed again.
LEMMA ForgetsNothing == \A type \in Forgets : Rearms(type) = {}
BY DEF Forgets, Rearms, Refreshed

\* A machine as it is built, nothing saved yet.
LEMMA InitSnapInv == SnapInit => SnapInv
<1> SUFFICES ASSUME SnapInit PROVE SnapInv
  OBVIOUS
<1>1. PICK type \in CardTypes, own \in {1, 2} :
        fitted = <<NewBoard("a", type, own), NewBoard("cpu", "t8080", 1)>>
  BY DEF SnapInit
<1>2. type \in DOMAIN StateOf /\ "t8080" \in DOMAIN StateOf
  BY TypesAssumption DEF StateOf
<1>3. /\ BoardOK(NewBoard("a", type, own)) /\ NewBoard("a", type, own).id = "a"
      /\ BoardOK(NewBoard("cpu", "t8080", 1)) /\ NewBoard("cpu", "t8080", 1).id = "cpu"
  BY <1>2, NewBoardIs
<1>4. /\ Len(fitted) = 2 /\ DOMAIN fitted = {1, 2}
      /\ fitted[1] = NewBoard("a", type, own) /\ fitted[2] = NewBoard("cpu", "t8080", 1)
      /\ fitted = [i \in 1..Len(fitted) |-> fitted[i]]
  BY <1>1
<1>5. Frame /\ \A i \in DOMAIN fitted : BoardOK(fitted[i])
  BY <1>3, <1>4 DEF Frame
<1>6. time \in Nat /\ file = <<>> /\ result # "restored"
  BY DEF SnapInit
<1> QED
  BY <1>5, <1>6 DEF SnapInv, SnapTypes, RestoredOrTold

\* SNAPSHOT: a section for each board, in a file of the present release.
LEMMA SnapshotKeeps == ASSUME SnapInv, Snapshot PROVE SnapInv'
<1>1. /\ UNCHANGED <<fitted, time>> /\ result' = "none"
      /\ file' = [ver |-> kFormatVersion, good |-> TRUE, t |-> time,
                  boards |-> [i \in DOMAIN fitted |-> Section(fitted[i], time)]]
  BY DEF Snapshot
<1>2. /\ DOMAIN file' = {"ver", "good", "t", "boards"} /\ file'.t = time
      /\ file'.boards = [i \in DOMAIN fitted |-> Section(fitted[i], time)]
  BY <1>1
<1>3. \A i \in DOMAIN fitted : SectionOK(Section(fitted[i], time)) /\ Section(fitted[i], time).id = fitted[i].id
  BY SectionIs DEF SnapInv, SnapTypes
<1>4. Distinct(file'.boards)
  BY <1>2, <1>3, NamesDiffer DEF SnapInv, SnapTypes, Distinct
<1>5. FileOK(file')
  BY <1>2, <1>3, <1>4 DEF FileOK, SnapInv, SnapTypes
<1>6. Frame'
  BY <1>1 DEF SnapInv, SnapTypes, Frame
<1> QED
  BY <1>1, <1>5, <1>6 DEF SnapInv, SnapTypes, RestoredOrTold

\* The guest runs.
LEMMA RunKeeps == ASSUME SnapInv, Run PROVE SnapInv'
<1>1. PICK busy \in {0, 1} :
        fitted' = [i \in DOMAIN fitted |->
                     [fitted[i] EXCEPT !.vals = Values(fitted[i].type, fitted[i].own, 2 * time' + busy,
                                                       time' + busy * (MaxSteps + 1))]]
  BY DEF Run
<1> DEFINE stamp == 2 * time' + busy
           due == time' + busy * (MaxSteps + 1)
<1>2. /\ time \in Nat /\ time' = time + 1 /\ UNCHANGED file /\ result' = "none"
      /\ Frame /\ (file # <<>> => FileOK(file))
  BY DEF Run, SnapInv, SnapTypes
<1>3. stamp \in Nat /\ due \in Nat /\ time' \in Nat
  BY <1>2, StepsAssumption
<1> HIDE DEF stamp, due
<1>4. ASSUME NEW i \in DOMAIN fitted
      PROVE  BoardOK(fitted'[i]) /\ fitted'[i].id = fitted[i].id
  <2> DEFINE b == fitted[i]
             v == Values(b.type, b.own, stamp, due)
  <2>1. BoardOK(b)
    BY DEF SnapInv, SnapTypes
  <2>2. fitted'[i] = [b EXCEPT !.vals = v]
    BY <1>1 DEF stamp, due
  <2>3. /\ DOMAIN v = DOMAIN StateOf[b.type]
        /\ \A k \in DOMAIN StateOf[b.type] : v[k] \in PartValues(StateOf[b.type][k], b.own)
    BY <1>3, <2>1, ValuesAre DEF BoardOK
  <2> HIDE DEF b, v
  <2>4. BoardOK([b EXCEPT !.vals = v]) /\ [b EXCEPT !.vals = v].id = b.id
    BY <2>1, <2>3 DEF BoardOK
  <2> QED
    BY <2>2, <2>4 DEF b
<1>5. DOMAIN fitted' = DOMAIN fitted /\ fitted' = [i \in DOMAIN fitted |-> fitted'[i]]
  BY <1>1
<1>6. Frame'
  BY <1>2, <1>4, <1>5, SameFrame
<1> QED
  BY <1>2, <1>3, <1>4, <1>5, <1>6 DEF SnapInv, SnapTypes, RestoredOrTold

\* SET of how many drives or banks a board has.
LEMMA SetStrapsKeeps == ASSUME SnapInv, SetStraps PROVE SnapInv'
<1>1. PICK i \in DOMAIN fitted : fitted' = [fitted EXCEPT ![i] = Resized(fitted[i], 3 - fitted[i].own)]
  BY DEF SetStraps
<1>2. /\ UNCHANGED <<time, file>> /\ result' = "none"
      /\ Frame /\ \A k \in DOMAIN fitted : BoardOK(fitted[k])
  BY DEF SetStraps, SnapInv, SnapTypes
<1>3. 3 - fitted[i].own \in {1, 2}
  BY <1>2 DEF BoardOK
<1>4. BoardOK(Resized(fitted[i], 3 - fitted[i].own)) /\ Resized(fitted[i], 3 - fitted[i].own).id = fitted[i].id
  BY <1>2, <1>3, ResizedIs
<1>5. /\ DOMAIN fitted' = DOMAIN fitted /\ fitted' = [k \in DOMAIN fitted |-> fitted'[k]]
      /\ \A k \in DOMAIN fitted : BoardOK(fitted'[k]) /\ fitted'[k].id = fitted[k].id
  BY <1>1, <1>2, <1>4
<1>6. Frame'
  BY <1>2, <1>5, SameFrame
<1> QED
  BY <1>2, <1>5, <1>6 DEF SnapInv, SnapTypes, RestoredOrTold

\* A board is renamed, replaced or removed.
LEMMA RebuildKeeps == ASSUME SnapInv, Rebuild PROVE SnapInv'
<1>1. /\ Len(fitted) = 2 /\ UNCHANGED <<time, file>> /\ result' = "none"
      /\ Frame /\ \A k \in DOMAIN fitted : BoardOK(fitted[k])
  BY DEF Rebuild, SnapInv, SnapTypes
<1>2. PICK id \in {"A", "b"}, type \in {fitted[1].type, "fp"}, go \in BOOLEAN :
        fitted' = IF go THEN <<fitted[2]>> ELSE [fitted EXCEPT ![1] = NewBoard(id, type, 1)]
  BY DEF Rebuild
<1>3. DOMAIN fitted = {1, 2} /\ fitted[2].id = "cpu" /\ BoardOK(fitted[1]) /\ BoardOK(fitted[2])
  BY <1>1 DEF Frame
<1>4. type \in DOMAIN StateOf
  <2>1. "fp" \in DOMAIN StateOf
    BY DEF StateOf
  <2> QED
    BY <1>3, <2>1 DEF BoardOK
<1>5. BoardOK(NewBoard(id, type, 1)) /\ NewBoard(id, type, 1).id = id
  BY <1>4, NewBoardIs
<1>6. CASE go
  <2>1. Len(fitted') = 1 /\ DOMAIN fitted' = {1} /\ fitted'[1] = fitted[2]
        /\ fitted' = [i \in 1..Len(fitted') |-> fitted'[i]]
    BY <1>2, <1>6
  <2>2. Frame'
    BY <1>3, <2>1 DEF Frame
  <2> QED
    BY <1>1, <1>3, <2>1, <2>2 DEF SnapInv, SnapTypes, RestoredOrTold
<1>7. CASE ~go
  <2> DEFINE new == NewBoard(id, type, 1)
  <2>4. fitted' = [fitted EXCEPT ![1] = new]
    BY <1>2, <1>7
  <2> HIDE DEF new
  <2>5. fitted = [i \in DOMAIN fitted |-> fitted[i]] /\ 1 \in DOMAIN fitted
    BY <1>1, <1>3 DEF Frame
  <2>6. /\ DOMAIN fitted' = {1, 2} /\ fitted'[1] = new /\ fitted'[2] = fitted[2]
        /\ fitted' = [i \in DOMAIN fitted |-> fitted'[i]]
    <3>1. fitted' = [i \in DOMAIN fitted |-> IF i = 1 THEN new ELSE fitted[i]]
      BY <2>4, <2>5
    <3> QED
      BY <1>3, <3>1
  <2>1. /\ DOMAIN fitted' = {1, 2}
        /\ fitted'[1] = NewBoard(id, type, 1) /\ fitted'[2] = fitted[2]
        /\ fitted' = [i \in DOMAIN fitted |-> fitted'[i]]
    BY <2>6 DEF new
  <2>2. DOMAIN fitted = 1..2
    BY <1>3
  <2>3. Len(fitted') = 2
    BY <2>1, <2>2
  <2>7. Frame'
    BY <1>3, <1>5, <2>1, <2>2, <2>3 DEF Frame
  <2> QED
    BY <1>1, <1>3, <1>5, <2>1, <2>7 DEF SnapInv, SnapTypes, RestoredOrTold
<1> QED
  BY <1>6, <1>7

\* The file grows old, is cut, or is spoiled.
LEMMA RefileKeeps == ASSUME SnapInv, Refile PROVE SnapInv'
<1>1. UNCHANGED <<fitted, time>> /\ result' = "none" /\ FileOK(file) /\ SnapTypes
  BY DEF Refile, SnapInv, SnapTypes
<1>2. FileOK(file')
  <2>1. CASE \E v \in {stateSince(fitted[1].type) - 1, kFormatVersion + 1} : file' = [file EXCEPT !.ver = v]
    BY <1>1, <2>1 DEF FileOK
  <2>2. CASE file' = [file EXCEPT !.good = FALSE]
    BY <1>1, <2>2 DEF FileOK
  <2>3. CASE \E i \in DOMAIN file.boards, n \in {-1, 1} : file' = [file EXCEPT !.boards[i].extra = n]
    <3>1. PICK i \in DOMAIN file.boards, n \in {-1, 1} : file' = [file EXCEPT !.boards[i].extra = n]
      BY <2>3
    <3> DEFINE s == [file.boards[i] EXCEPT !.extra = n]
               list == [file.boards EXCEPT ![i] = s]
    <3>2. DOMAIN file' = DOMAIN file /\ file'.t = file.t /\ file'.boards = list
      BY <1>1, <3>1 DEF FileOK
    <3>3. SectionOK(file.boards[i])
      BY <1>1 DEF FileOK
    <3>4. SectionOK(s) /\ s.id = file.boards[i].id
      BY <3>3 DEF SectionOK
    <3> HIDE DEF s
    <3>5. /\ DOMAIN list = DOMAIN file.boards
          /\ \A k \in DOMAIN list : SectionOK(list[k]) /\ list[k].id = file.boards[k].id
      BY <1>1, <3>4 DEF FileOK
    <3> HIDE DEF list
    <3> QED
      BY <1>1, <3>2, <3>5 DEF FileOK, Distinct
  <2> QED
    BY <2>1, <2>2, <2>3 DEF Refile
<1>3. Frame'
  BY <1>1 DEF SnapTypes, Frame
<1> QED
  BY <1>1, <1>2, <1>3 DEF SnapInv, SnapTypes, RestoredOrTold

\* RESTORE.  What it names are the boards it did not read and the sections that found none;
\* and what is armed under a board's name is what that board arms.
LEMMA RestoreKeeps == ASSUME SnapInv, RestoreFile PROVE SnapInv'
<1>1. /\ UNCHANGED file /\ SnapTypes /\ (file # <<>> => FileOK(file))
  BY DEF RestoreFile, SnapInv, SnapTypes
<1>2. CASE result' = "refused" /\ UNCHANGED <<fitted, time>>
  BY <1>1, <1>2 DEF SnapInv, SnapTypes, Frame, RestoredOrTold
<1>3. CASE /\ Readable(file)
           /\ result' = "restored" /\ notes' = Noted(file) /\ time' = file.t
           /\ fitted' = [i \in DOMAIN fitted |-> RestoredBoard(fitted[i], file, ClockFirst(file))]
           /\ queue' = UNION {Rearmed(fitted'[i], time') : i \in DOMAIN fitted}
  <2> DEFINE now == file.t
             Sec(j) == file.boards[j]
  <2>1. FileOK(file) /\ now \in Nat
    BY <1>1, <1>3 DEF Readable, FileOK
  <2>2. \A i \in DOMAIN fitted : fitted'[i] = RestoredBoard(fitted[i], file, now)
    BY <1>3 DEF ClockFirst
  <2>3. ASSUME NEW i \in DOMAIN fitted
        PROVE  /\ BoardOK(fitted'[i])
               /\ fitted'[i].id = fitted[i].id /\ fitted'[i].type = fitted[i].type
               /\ ~IsRestored(fitted[i], file) /\ fitted[i].type # "bankmem" =>
                    NewParts(fitted'[i]) /\ ~Busy(fitted'[i], now)
               /\ IsRestored(fitted[i], file) =>
                    \E j \in Find(file.boards, fitted[i].id) :
                      /\ Sec(j).type = fitted'[i].type
                      /\ \A k \in DOMAIN fitted'[i].vals :
                           Back(StateOf[fitted'[i].type][k], fitted'[i].own, fitted'[i].vals[k], Sec(j).vals[k], now)
                             <=> ~Differs(StateOf[fitted'[i].type][k], fitted'[i].own, fitted'[i].vals[k], Sec(j).vals[k])
    <3>1. BoardOK(fitted[i])
      BY <1>1 DEF SnapTypes
    <3> QED
      BY <2>1, <2>2, <3>1, Restores
  <2>4. DOMAIN fitted' = DOMAIN fitted /\ fitted' = [i \in DOMAIN fitted |-> fitted'[i]]
    BY <1>3
  <2>5. Frame /\ Frame'
    BY <1>1, <2>3, <2>4, SameFrame DEF SnapTypes
  <2>6. SnapTypes'
    BY <1>1, <1>3, <2>1, <2>3, <2>4, <2>5 DEF SnapTypes
  <2>7. ASSUME NEW i \in DOMAIN fitted
        PROVE  fitted[i].id \in notes' <=> ~IsRestored(fitted[i], file)
    <3>1. \A j \in DOMAIN fitted : fitted[j].id = fitted[i].id => j = i
      BY <2>5, NamesDiffer
    <3>2. \A j \in DOMAIN file.boards : Sec(j).id = fitted[i].id => Find(fitted, Sec(j).id) # {}
      BY DEF Find
    <3> QED
      BY <1>3, <3>1, <3>2 DEF Noted
  <2>8. ASSUME NEW i \in DOMAIN fitted
        PROVE  {x \in queue' : x.id = fitted'[i].id} = Rearmed(fitted'[i], now)
    <3>1. \A j \in DOMAIN fitted : fitted'[j].id = fitted'[i].id => j = i
      BY <2>5, NamesDiffer, <2>3
    <3>2. \A j \in DOMAIN fitted : \A x \in Rearmed(fitted'[j], now) : x.id = fitted'[j].id
      BY DEF Rearmed
    <3>3. \A x : x \in queue' <=> \E j \in DOMAIN fitted : x \in Rearmed(fitted'[j], now)
      BY <1>3
    <3> QED
      BY <3>1, <3>2, <3>3
  <2>9. \A j \in DOMAIN file.boards : Sec(j).id \in notes' \/ Find(fitted', Sec(j).id) # {}
    <3>1. \A id : Find(fitted', id) = Find(fitted, id)
      BY <2>3, <2>4 DEF Find
    <3> QED
      BY <1>3, <3>1 DEF Noted
  <2>10. ASSUME NEW i \in DOMAIN fitted, fitted[i].id \in notes', fitted[i].type # "bankmem"
         PROVE  NewAt(fitted'[i], queue')
    <3>1. NewParts(fitted'[i]) /\ ~Busy(fitted'[i], now)
      BY <2>3, <2>7, <2>10
    <3>2. {x \in queue' : x.id = fitted'[i].id} = {}
      BY <2>8, <3>1 DEF Rearmed
    <3> QED
      BY <3>1, <3>2 DEF NewAt
  <2>11. ASSUME NEW i \in DOMAIN fitted, fitted[i].id \notin notes'
         PROVE  \E j \in Find(file.boards, fitted[i].id) :
                  /\ Sec(j).type = fitted'[i].type
                  /\ BackAt(fitted'[i], Sec(j), queue', now) <=> ~DiffersAt(fitted'[i], Sec(j), now)
    <3> DEFINE b == fitted'[i]
    <3>1. PICK j \in Find(file.boards, fitted[i].id) :
            /\ Sec(j).type = b.type
            /\ \A k \in DOMAIN b.vals :
                 Back(StateOf[b.type][k], b.own, b.vals[k], Sec(j).vals[k], now)
                   <=> ~Differs(StateOf[b.type][k], b.own, b.vals[k], Sec(j).vals[k])
      BY <2>3, <2>7, <2>11
    <3>2. {x \in queue' : x.id = b.id} = Rearmed(b, now)
      BY <2>8
    <3> HIDE DEF b, now, Sec
    <3>3. {e.wake : e \in {x \in queue' : x.id = b.id}} = IF Busy(b, now) THEN Rearms(b.type) ELSE {}
      BY <3>2, WakesOf
    <3>4. {e.wake : e \in {x \in queue' : x.id = b.id}} = (IF Busy(b, now) THEN Deadlines(b.type) ELSE {})
            <=> ~(b.type \in Forgets /\ Busy(b, now))
      BY <3>3, ForgetsNothing DEF Deadlines
    <3>5. BackAt(b, Sec(j), queue', now) <=> ~DiffersAt(b, Sec(j), now)
      BY <3>1, <3>4 DEF BackAt, DiffersAt
    <3> QED
      BY <3>1, <3>5 DEF b
  <2>12. ToldAt(fitted', time', queue', file', notes')
    BY <1>1, <1>3, <2>3, <2>4, <2>9, <2>10, <2>11 DEF ToldAt
  <2> QED
    BY <2>6, <2>12, ToldIs DEF SnapInv
<1> QED
  BY <1>2, <1>3 DEF RestoreFile

\* Every step keeps the invariant: one case for each thing that can happen.
LEMMA StepSnapInv == SnapInv /\ [SnapNext]_snapVars => SnapInv'
<1> SUFFICES ASSUME SnapInv, [SnapNext]_snapVars PROVE SnapInv'
  OBVIOUS
<1>1. CASE UNCHANGED snapVars
  BY <1>1, ToldIs DEF snapVars, SnapInv, SnapTypes, Frame
<1> QED
  BY <1>1, SnapshotKeeps, RestoreKeeps, RunKeeps, SetStrapsKeeps, RebuildKeeps, RefileKeeps DEF SnapNext

\* The inductive invariant, of every behaviour.
LEMMA SnapInvariance == SnapSpec => []SnapInv
BY InitSnapInv, StepSnapInv, PTL DEF SnapSpec

\* Types: boards and sections are what their types save, for any types of board and any number
\* of steps (statefile.cpp, and every serialize and deserialize).
THEOREM SnapTypeCorrect == SnapSpec => []SnapTypes
<1>1. SnapInv => SnapTypes
  BY DEF SnapInv
<1> QED
  BY <1>1, SnapInvariance, PTL

\* After every RESTORE that is not refused, each board is what the file says of it and waits for
\* what it waited for, or was named and is as new; but for the cards that Deviates lists
\* (Machine::restore, machine.cpp:289-425).
THEOREM RestoresRight == SnapSpec => []RestoredOrTold
<1>1. SnapInv => RestoredOrTold
  BY DEF SnapInv
<1> QED
  BY <1>1, SnapInvariance, PTL
=============================================================================
