------------------------------- MODULE SlotCards -------------------------------
(***************************************************************************)
(* Three more hard-sector controllers on the platter of HardSector.  The   *)
(* North Star MDS-A and MDS-A-D take a write byte by byte, in the sector   *)
(* it was begun in or not at all.  The Vector Graphic Micropolis board     *)
(* keeps the slot and writes it at the boundary, where the head is then.   *)
(* Each has one deadline, the next boundary, while it has work there.      *)
(*                                                                         *)
(* The guest looks, then gives a command: on the North Star boards both    *)
(* are one memory read.  READY is not held: any time may pass between two  *)
(* accesses.                                                               *)
(***************************************************************************)
EXTENDS HardSector

CONSTANTS
  ScWindow,    \* the ticks after a boundary in which a write may begin
  ScBody,      \* where a sector's bytes begin
  FreeTicks,   \* the North Star's own pulse, with no sector hole to see
  MotorTicks,  \* its motors run on; and the Micropolis's timer
  ScDouble,    \* the disks of double density
  ScOneSided   \* the disks with one side

ASSUME SlotCardsAssumption ==
  /\ {ScWindow, ScBody, FreeTicks, MotorTicks} \subseteq Nat \ {0}
  /\ ScWindow < ScBody /\ ScBody < HsSectorTicks
  /\ HsSectorTicks <= FreeTicks
  /\ ScDouble \subseteq HsDisks /\ ScOneSided \subseteq HsDisks
  /\ \A g \in HsRigs : \A c \in g.commands :
       /\ g.kind = "mdsad" /\ c.op = "orders" => c.side \in 0..1
       /\ g.kind = "vgmdc" /\ c.op = "select" => c.n \in Bays /\ c.side \in 0..1

NorthStars == {"mdsa", "mdsad"}
ScKinds == NorthStars \cup {"vgmdc"}
Unread == <<>>
Surface(track, side) == track + (side * HsTracks)
HasSide(d, side) == side = 0 \/ d \notin ScOneSided
-----------------------------------------------------------------------------
(***************************************************************************)
(* North Star: the rotation, and the end of a sector.                      *)
(***************************************************************************)
Real(m) == m.card.motorOn /\ Spins(m)
Side(c) == IF c.kind = "mdsad" THEN c.orders.side ELSE 0
Rotation(m, t) ==
  IF Real(m) THEN [real |-> TRUE, into |-> Into(t), sector |-> SectorAt(t)]
             ELSE [real |-> FALSE, into |-> m.card.free, sector |-> Nowhere]
InWindow(r) == r.into < ScWindow

EndSector(m) ==
  [m EXCEPT !.card.wr = "idle", !.card.wrPos = 0, !.card.rdFor = Unread, !.card.rdPos = 0, !.card.forced = FALSE]
NsSelectDrive(m, n) ==
  LET k == IF n \in Bays THEN n ELSE Nowhere IN
    IF k = m.card.sel THEN m ELSE [EndSector(m) EXCEPT !.card.sel = k]
NsStepMutant(m, inward) ==
  IF ~HasDrive(m) THEN m ELSE [m EXCEPT !.bay[m.card.sel].track = IF inward THEN Inward(@) ELSE Outward(@)]
NsStep(m, inward) ==
  IF ~HasDrive(m) THEN m
  ELSE [EndSector(m) EXCEPT !.bay[m.card.sel].track = IF inward THEN Inward(@) ELSE Outward(@)]

\* scheduleWake: present at each pulse, while armed and strapped.
ScheduleWake(m, t) ==
  [m EXCEPT !.card.wake = IF ~(m.card.armed /\ m.card.strap) THEN NoTime
                          ELSE (IF Real(m) THEN HsSectorTicks ELSE FreeTicks) - Rotation(m, t).into]
ArmInterruptMutant(m, on, t) == [m EXCEPT !.card.armed = on]
ArmInterrupt(m, on, t) ==
  IF m.card.armed = on THEN m ELSE ScheduleWake([m EXCEPT !.card.armed = on], t)

\* controllerReset.
NsReset(m, t) ==
  LET r == EndSector(ArmInterrupt(NsSelectDrive([m EXCEPT !.card.motorOn = FALSE], Nowhere), FALSE, t)) IN
    IF m.card.kind = "mdsa" THEN [r EXCEPT !.card.stepFf = FALSE]
    ELSE [r EXCEPT !.card.orders = [side |-> 0, dd |-> FALSE, step |-> FALSE]]

\* tick: what the platter has done since the card last looked.
MotorOff(m) ==
  IF ~(m.card.motorOn /\ m.card.motorReal /\ m.card.motorIn = NoTime) THEN m
  ELSE LET off == [m EXCEPT !.card.motorOn = FALSE] IN
         IF m.card.kind = "mdsa" THEN NsSelectDrive(off, Nowhere) ELSE off
Passed(c, real) == IF real THEN c.crossedHole ELSE c.crossedFree
NsTick(m) ==
  LET o == MotorOff(m)
      looked == [o EXCEPT !.card.crossedHole = FALSE, !.card.crossedFree = FALSE]
  IN CASE Real(o) # o.card.lastReal -> EndSector([looked EXCEPT !.card.lastReal = Real(o)])
       [] Real(o) = o.card.lastReal /\ Passed(o.card, Real(o)) -> EndSector([looked EXCEPT !.card.sf = TRUE])
       [] OTHER -> o
-----------------------------------------------------------------------------
(***************************************************************************)
(* North Star: reading and writing.                                        *)
(***************************************************************************)
\* loadSector: once a sector; rdSide is history, the side it was read from.
Readable(m, r) == r.real /\ HasSide(Sel(m).disk, Side(m.card))
LoadSector(m, r) ==
  IF m.card.rdFor # Unread THEN m
  ELSE [m EXCEPT !.card.rdFor = <<r.sector>>, !.card.rdPos = 0, !.card.rdValid = Readable(m, r), !.card.rdSide = Side(m.card),
                 !.card.buf = IF Readable(m, r) THEN m.shelf[Sel(m).disk][<<Surface(Sel(m).track, Side(m.card)), r.sector>>]
                              ELSE @]

\* body, which reads the sector if it has to be asked.
BodyLoads(m, r) == m.card.wr = "idle" /\ ~m.card.forced /\ r.real /\ r.into >= ScBody
BodyLooked(m, r) == IF BodyLoads(m, r) THEN LoadSector(m, r) ELSE m
NsReadData(m, r) ==
  LET l == IF m.card.wr = "idle" /\ (m.card.forced \/ BodyLoads(m, r)) THEN LoadSector(m, r) ELSE m IN
    IF l.card.wr = "idle" /\ l.card.rdFor # Unread /\ l.card.rdValid /\ l.card.rdPos <= HsBytes
    THEN [l EXCEPT !.card.rdPos = @ + 1] ELSE l

\* beginWrite, only in the window.
BeginWrite(m, r) ==
  IF ~InWindow(r) THEN m
  ELSE [m EXCEPT !.card.wr = "preamble", !.card.wrDD = (m.card.kind = "mdsad" /\ m.card.orders.dd), !.card.wrPos = 0,
                 !.card.wTrack = Surface(IF HasDrive(m) THEN Sel(m).track ELSE 0, Side(m.card)),
                 !.card.wSector = r.sector, !.card.wrSide = Side(m.card), !.card.rdFor = Unread]

\* commitWrite.
Commits(m) ==
  /\ m.card.lastReal /\ Spins(m) /\ ~Sel(m).ro
  /\ m.card.wrDD = (Sel(m).disk \in ScDouble) /\ HasSide(Sel(m).disk, m.card.wrSide)
Committed(m) ==
  IF Commits(m) THEN [m EXCEPT !.shelf[Sel(m).disk][<<m.card.wTrack, m.card.wSector>>] = m.card.wbuf] ELSE m

\* writeData: zeros, a sync, one more at double density, and a sector.
NsWriteData(m, zero) ==
  CASE m.card.wr \in {"idle", "done"} -> m
    [] m.card.wr = "preamble" /\ zero -> m
    [] m.card.wr = "preamble" /\ ~zero -> [m EXCEPT !.card.wr = IF m.card.wrDD THEN "sync" ELSE "data"]
    [] m.card.wr = "sync" -> [m EXCEPT !.card.wr = "data"]
    [] OTHER -> LET n == [m EXCEPT !.card.wbuf[m.card.wrPos + 1] = Len(where), !.card.wrPos = @ + 1] IN
                  IF n.card.wrPos = HsBytes THEN [Committed(n) EXCEPT !.card.wr = "done"] ELSE n
-----------------------------------------------------------------------------
(***************************************************************************)
(* North Star: the commands.                                               *)
(***************************************************************************)
MotorSet(m) == [m EXCEPT !.card.motorOn = TRUE, !.card.motorIn = IF m.card.motorReal THEN MotorTicks ELSE NoTime]

\* The MDS-A's.
MdsaCommand(m, c, r, t) ==
  CASE c.op = "select" -> IF m.card.motorOn THEN NsSelectDrive(m, c.n) ELSE m
    [] c.op = "write" -> BeginWrite(m, r)
    [] c.op = "step" -> [(IF m.card.stepFf /\ ~c.on THEN NsStep(m, m.card.dirIn) ELSE m) EXCEPT !.card.stepFf = c.on]
    [] c.op = "arm" -> ArmInterrupt(m, c.on, t)
    [] c.op = "flag" -> [m EXCEPT !.card.sf = FALSE]
    [] c.op = "reset" -> NsReset(m, t)
    [] c.op = "direction" -> [m EXCEPT !.card.dirIn = c.on]
    [] OTHER -> m

\* The MDS-A-D's, and its orders: a drive, a side, a density, a step.
MdsadCommand(m, c, r, t) ==
  CASE c.op = "orders" ->
         LET o == NsSelectDrive([m EXCEPT !.card.orders = [side |-> c.side, dd |-> c.dd, step |-> c.step]], c.n) IN
           IF m.card.orders.step /\ ~c.step THEN NsStep(o, c.on) ELSE o
    [] c.op = "write" -> BeginWrite(m, r)
    [] c.op = "arm" -> ArmInterrupt(m, c.on, t)
    [] c.op = "flag" -> [m EXCEPT !.card.sf = FALSE]
    [] c.op = "body" -> [m EXCEPT !.card.forced = TRUE]
    [] c.op = "motor" -> MotorSet(m)
    [] c.op = "reset" -> NsReset(m, t)
    [] OTHER -> m

\* access: look, then obey.
NsAccessed(m, look, c, t) ==
  LET r == Rotation(m, t)
      l == IF look = "data" THEN NsReadData(m, r) ELSE BodyLooked(m, r)
  IN CASE m.card.kind = "mdsa" -> MdsaCommand(IF c.motor THEN MotorSet(l) ELSE l, c, r, t)
       [] m.card.kind # "mdsa" /\ c.op = "orders" -> MdsadCommand(m, c, r, t)
       [] OTHER -> MdsadCommand(l, c, r, t)
-----------------------------------------------------------------------------
(***************************************************************************)
(* Micropolis.                                                             *)
(***************************************************************************)
VgChosen(m) == m.card.selected
VgDrive(m) == m.bay[m.card.unit]
VgSpins(m) == VgChosen(m) /\ VgDrive(m).disk # NoDisk
KeyOf(m, t) == <<m.card.unit, m.card.head, VgDrive(m).track, SectorAt(t)>>

VgRearm(m, t) ==
  [m EXCEPT !.card.wake = IF (m.card.wrt \/ m.card.armed) /\ VgSpins(m) THEN HsSectorTicks - Into(t) ELSE NoTime,
            !.card.came = FALSE]

\* endWrite: on the disk that is there, where the head is; the rest of a short write stays 0.
EndWriteMutant(m) ==
  IF ~m.card.wrt THEN m
  ELSE LET e == [m EXCEPT !.card.wrt = FALSE] d == VgDrive(m) IN
         IF d.disk = NoDisk \/ d.ro \/ ~HasSide(d.disk, m.card.head) THEN e
         ELSE [e EXCEPT !.shelf[d.disk][<<Surface(d.track, m.card.head), m.card.wSector>>] = m.card.wbuf]
EndWrite(m) ==
  IF ~m.card.wrt THEN m
  ELSE LET e == [m EXCEPT !.card.wrt = FALSE, !.card.rdFor = Unread] d == VgDrive(m) IN
         IF d.disk = NoDisk \/ d.ro \/ ~HasSide(d.disk, m.card.head) THEN e
         ELSE [e EXCEPT !.shelf[d.disk][<<Surface(d.track, m.card.head), m.card.wSector>>] = m.card.wbuf]
VgReset(m, t) == VgRearm([EndWrite(m) EXCEPT !.card.selected = FALSE, !.card.armed = FALSE, !.card.sf = FALSE], t)
Settle(m, t) ==
  IF m.card.timedOut \/ m.card.motorIn > NoTime THEN m ELSE VgReset([m EXCEPT !.card.timedOut = TRUE], t)

\* slotUnderHead, a cache of one; and the reads of the sector, status and data registers.
SlotUnderHead(m, t) ==
  IF m.card.rdFor = KeyOf(m, t) THEN m
  ELSE [m EXCEPT !.card.rdFor = KeyOf(m, t),
                 !.card.buf = IF HasSide(VgDrive(m).disk, m.card.head)
                              THEN m.shelf[VgDrive(m).disk][<<Surface(VgDrive(m).track, m.card.head), SectorAt(t)>>]
                              ELSE [i \in Slots |-> Skipped]]
VgRead(m, look, t) ==
  LET s == [Settle(m, t) EXCEPT !.card.motorIn = MotorTicks, !.card.timedOut = FALSE] IN
    IF look # "sector" /\ VgSpins(s) /\ ~s.card.wrt /\ Into(t) >= ScBody THEN SlotUnderHead(s, t) ELSE s

\* writeData, with TF.
VgWriteData(m, t) ==
  IF ~(m.card.wrt /\ VgSpins(m) /\ Into(t) >= ScBody) THEN m
  ELSE [m EXCEPT !.card.wbuf = [i \in Slots |-> IF i = m.card.wrPos + 1 THEN Len(where) ELSE m.card.wbuf[i]],
                 !.card.wrPos = IF @ > HsBytes THEN @ ELSE @ + 1]

\* command.
VgWriteBegins(m) == VgSpins(m) /\ ~m.card.wrt
VgCommand(m, c, t) ==
  CASE c.op = "select" -> VgRearm([m EXCEPT !.card.selected = TRUE, !.card.unit = c.n, !.card.head = c.side], t)
    [] c.op = "arm" -> VgRearm([m EXCEPT !.card.armed = c.on, !.card.sf = @ /\ c.on], t)
    [] c.op = "step" -> IF VgChosen(m) THEN [m EXCEPT !.bay[m.card.unit].track = IF c.on THEN Inward(@) ELSE Outward(@)]
                        ELSE m
    [] c.op = "write" -> IF ~VgWriteBegins(m) THEN m
                         ELSE VgRearm([m EXCEPT !.card.wrt = TRUE, !.card.wSector = SectorAt(t), !.card.wrPos = 0,
                                                !.card.wbuf = [i \in Slots |-> Skipped]], t)
    [] c.op = "reset" -> VgReset(m, t)
    [] OTHER -> m
VgTick(m, t) ==
  LET e == EndWrite(Settle(m, t)) IN VgRearm([e EXCEPT !.card.sf = @ \/ e.card.armed], t)
-----------------------------------------------------------------------------
(***************************************************************************)
(* History: each write begun, whether the head left its place before it    *)
(* was done, or the guest gave it up for another, and whether it was done. *)
(***************************************************************************)
PlaceUnder(m, t) ==
  IF m.card.kind = "vgmdc"
  THEN IF VgSpins(m) THEN <<VgDrive(m).disk, <<Surface(VgDrive(m).track, m.card.head), SectorAt(t)>> >> ELSE <<>>
  ELSE IF Real(m) THEN <<Sel(m).disk, <<Surface(Sel(m).track, m.card.wrSide), SectorAt(t)>> >> ELSE <<>>
Unfinished(m) == IF m.card.kind = "vgmdc" THEN m.card.wrt ELSE m.card.wr # "done"
Fits(m) ==
  IF m.card.kind = "vgmdc" THEN ~VgDrive(m).ro /\ HasSide(VgDrive(m).disk, m.card.head)
  ELSE ~Sel(m).ro /\ m.card.wrDD = (Sel(m).disk \in ScDouble) /\ HasSide(Sel(m).disk, m.card.wrSide)
Begun(m, n, t) ==
  LET under == PlaceUnder(n, t) IN
    [disk |-> IF under = <<>> THEN NoDisk ELSE under[1], place |-> IF under = <<>> THEN <<>> ELSE under[2],
     ro |-> under # <<>> /\ ~Fits(n), left |-> FALSE, done |-> FALSE]
Seen(w, m, t) ==
  IF w = <<>> \/ w[Len(w)].done \/ (w[Len(w)].disk # NoDisk /\ PlaceUnder(m, t) = <<w[Len(w)].disk, w[Len(w)].place>>)
  THEN w ELSE [w EXCEPT ![Len(w)].left = TRUE]
GivenUp(w) == IF w = <<>> \/ w[Len(w)].done THEN w ELSE [w EXCEPT ![Len(w)].left = TRUE, ![Len(w)].done = TRUE]
WriteDone(w, n) == IF w = <<>> \/ Unfinished(n) THEN w ELSE [w EXCEPT ![Len(w)].done = TRUE]
-----------------------------------------------------------------------------
(***************************************************************************)
(* The actions.                                                            *)
(***************************************************************************)
ScIs(kinds) == card.kind \in kinds
Begins(m, c, t) ==
  c.op = "write" /\ (IF m.card.kind = "vgmdc" THEN VgWriteBegins(m) /\ ~m.card.timedOut
                                              ELSE InWindow(Rotation(m, t)))

\* A memory read of the command page; of the write page.
NsAccess(look, c) ==
  /\ ScIs(NorthStars)
  /\ \E m \in {NsTick(HsMachine)} :
       /\ Begins(m, c, turned) => Len(where) < guest.writes
       /\ \E n \in {NsAccessed(m, look, c, turned)} :
            /\ Becomes(n)
            /\ where' = IF Begins(m, c, turned)
                        THEN Append(GivenUp(where), Begun(m, n, turned))
                        ELSE Seen(Seen(where, m, turned), n, turned)
  /\ HsStill
NsWrite(zero) ==
  /\ ScIs(NorthStars)
  /\ \E m \in {NsTick(HsMachine)} : \E n \in {NsWriteData(m, zero)} :
       /\ Becomes(n)
       /\ where' = IF n.card.wr = "done" /\ m.card.wr = "data" THEN WriteDone(where, n) ELSE where
  /\ HsStill

\* The Micropolis board's registers.
VgLook(look) == ScIs({"vgmdc"}) /\ Becomes(VgRead(HsMachine, look, turned)) /\ HsStill /\ where' = WriteDone(where, VgRead(HsMachine, look, turned))
VgGive == ScIs({"vgmdc"}) /\ Becomes(VgWriteData(Settle(HsMachine, turned), turned)) /\ HsStill /\ where' = WriteDone(where, Settle(HsMachine, turned))
VgObey(c) ==
  /\ ScIs({"vgmdc"})
  /\ \E m \in {Settle(HsMachine, turned)} : \E n \in {IF m.card.timedOut THEN m ELSE VgCommand(m, c, turned)} :
       /\ Begins(m, c, turned) => Len(where) < guest.writes
       /\ Becomes(n)
       /\ where' = IF Begins(m, c, turned) THEN Append(WriteDone(where, m), Begun(m, n, turned))
                   ELSE WriteDone(Seen(where, n, turned), n)
  /\ HsStill

\* MOUNT, UNMOUNT, RESET and POWER.  MOUNT looks for no boundary: came is history, a disk put in since the
\* Micropolis board last did.
ScChange(m, u, d, ro) ==
  LET e == IF m.card.kind = "vgmdc" THEN [m EXCEPT !.card.rdFor = Unread]
           ELSE IF m.card.sel = u THEN EndSector(m) ELSE m
      s == [e EXCEPT !.bay[u].disk = d, !.bay[u].ro = ro, !.card.came = @ \/ d # NoDisk]
  IN IF m.card.kind = "vgmdc" /\ d = NoDisk THEN VgRearm(s, turned) ELSE s
ScByHand(m) ==
  /\ hands > 0 /\ Becomes(m) /\ hands' = hands - 1 /\ UNCHANGED <<guest, turned>>
  /\ where' = WriteDone(Seen(where, m, turned), m)
ScMount(u, d, ro) == ScIs(ScKinds) /\ (\A w \in Bays : bay[w].disk # d) /\ ScByHand(ScChange(HsMachine, u, d, ro))
ScUnmount(u) == ScIs(ScKinds) /\ bay[u].disk # NoDisk /\ ScByHand(ScChange(HsMachine, u, NoDisk, FALSE))
ScReset(power) ==
  /\ ScIs(ScKinds)
  /\ ScByHand(CASE card.kind = "vgmdc" /\ power -> [VgReset(HsMachine, turned) EXCEPT !.card.timedOut = TRUE, !.card.motorIn = NoTime]
                [] card.kind = "mdsad" \/ (card.kind = "mdsa" /\ power) -> ScheduleWake(NsReset(HsMachine, turned), turned)
                [] card.kind = "mdsa" /\ ~power -> ScheduleWake(HsMachine, turned)
                [] OTHER -> HsMachine)

\* A tick; the deadline is at a boundary, and what it does comes before any access.
ScTick ==
  /\ ScIs(ScKinds)
  /\ turned' = (turned + 1) % (HsSectorTicks * HsSectors)
  /\ \E m \in {[HsMachine EXCEPT
       !.card = [card EXCEPT !.motorIn = OneLess(@), !.wake = OneLess(@),
                             !.free = IF ScIs(NorthStars) THEN (@ + 1) % FreeTicks ELSE @,
                             !.crossedHole = ScIs(NorthStars) /\ (@ \/ Into(turned') = 0),
                             !.crossedFree = ScIs(NorthStars) /\ (@ \/ card.free + 1 = FreeTicks)]]} :
     \E n \in {CASE card.wake # 1 -> m
                 [] card.wake = 1 /\ card.kind = "vgmdc" -> VgTick(m, turned')
                 [] OTHER -> ScheduleWake(NsTick(m), turned')} :
       /\ Becomes(n)
       /\ where' = IF card.kind = "vgmdc" THEN Seen(WriteDone(where, n), n, turned') ELSE Seen(where, n, turned')
  /\ UNCHANGED <<guest, hands>>
-----------------------------------------------------------------------------
\* A card just powered on, with a disk in drive 0, strapped for its interrupt or not.
ScInit ==
  /\ guest \in {g \in HsRigs : g.kind \in ScKinds}
  /\ card = [kind |-> guest.kind, strap |-> guest.strap, sel |-> Nowhere, armed |-> FALSE, sf |-> FALSE, wake |-> NoTime,
             motorReal |-> guest.motorReal, motorOn |-> FALSE, motorIn |-> NoTime,
             free |-> 0, crossedHole |-> FALSE, crossedFree |-> FALSE, lastReal |-> FALSE,
             wr |-> "idle", wrDD |-> FALSE, wrPos |-> 0, wTrack |-> 0, wSector |-> Nowhere, wrSide |-> 0,
             wbuf |-> [i \in Slots |-> Skipped], rdFor |-> Unread, rdValid |-> FALSE, rdPos |-> 0, rdSide |-> 0,
             buf |-> [i \in Slots |-> Skipped], forced |-> FALSE, stepFf |-> FALSE, dirIn |-> FALSE,
             orders |-> [side |-> 0, dd |-> FALSE, step |-> FALSE],
             selected |-> FALSE, unit |-> 0, head |-> 0, wrt |-> FALSE, timedOut |-> TRUE, came |-> FALSE]
  /\ bay = [u \in Bays |-> [disk |-> IF u = 0 THEN guest.disk ELSE NoDisk,
                            ro |-> FALSE, track |-> 0, loaded |-> FALSE]]
  /\ shelf = [d \in HsDisks |-> [p \in (0..(2 * HsTracks - 1)) \X (0..(HsSectors - 1)) |-> [i \in Slots |-> AsItCame]]]
  /\ turned = 0 /\ where = <<>> /\ hands = guest.hands

ScNext ==
  \/ \E look \in {"data", "status"}, c \in guest.commands : NsAccess(look, c)
  \/ \E zero \in BOOLEAN : NsWrite(zero)
  \/ \E look \in {"data", "sector"} : VgLook(look)
  \/ VgGive
  \/ \E c \in guest.commands : VgObey(c)
  \/ \E u \in Bays, d \in HsDisks, ro \in BOOLEAN : ScMount(u, d, ro)
  \/ \E u \in Bays : ScUnmount(u)
  \/ \E power \in BOOLEAN : ScReset(power)
  \/ ScTick

\* Any of the five cards.
SlotInit == HsInit \/ ScInit
SlotNext == HsNext \/ ScNext
SlotSpec == SlotInit /\ [][SlotNext]_hsVars
-----------------------------------------------------------------------------
(***************************************************************************)
(* What is to hold.                                                        *)
(***************************************************************************)
\* A sector on a disk is the original or one write, whole.  A write during which the head never
\* left its place is there; on a North Star board a write the head left is nowhere, and none is
\* ever cut short.
SlotIsWhole ==
  ScIs(ScKinds) =>
    /\ \A d \in HsDisks : \A p \in DOMAIN shelf[d] :
         \/ shelf[d][p] = [i \in Slots |-> AsItCame]
         \/ \E w \in HsWrites :
              /\ \A i \in Slots : shelf[d][p][i] \in (IF card.kind = "vgmdc" THEN {w, Skipped} ELSE {w})
              /\ where[w].left => card.kind = "vgmdc"
              /\ ~where[w].left => where[w].disk = d /\ where[w].place = p /\ ~where[w].ro
         \/ card.kind = "vgmdc" /\ shelf[d][p] = [i \in Slots |-> Skipped]
    /\ \A w \in HsWrites :
         where[w].done /\ ~where[w].left /\ ~where[w].ro /\ where[w].disk # NoDisk
           => shelf[where[w].disk][where[w].place] # [i \in Slots |-> AsItCame]

\* What the card keeps of a sector is what is under the head: on a North Star board, unless the
\* orders named the other side in the middle of it.
SlotIsFresh ==
  LET m == HsMachine n == NsTick(HsMachine) IN
    /\ card.kind = "vgmdc" /\ VgSpins(m) /\ card.rdFor = KeyOf(m, turned) /\ HasSide(VgDrive(m).disk, card.head)
         => card.buf = shelf[VgDrive(m).disk][<<Surface(VgDrive(m).track, card.head), SectorAt(turned)>>]
    /\ ScIs(NorthStars) /\ n.card.rdFor # Unread /\ n.card.rdValid /\ n.card.rdSide = Side(n.card)
         => /\ Real(n)
            /\ n.card.buf = n.shelf[Sel(n).disk][<<Surface(Sel(n).track, n.card.rdSide), SectorAt(turned)>>]

\* A card with work at the next boundary has its deadline there, and within one period of either pulse:
\* a write is always ended and an interrupt always raised, with nobody looking.  (A disk put into
\* the Micropolis board's drive meanwhile waits for the next command.)
PulseIsAwaited ==
  /\ ScIs(NorthStars) /\ card.armed /\ card.strap => card.wake \in 1..FreeTicks
  /\ ScIs({"vgmdc"}) /\ (card.wrt \/ card.armed) /\ VgSpins(HsMachine) /\ ~card.came
       => card.wake = HsSectorTicks - Into(turned)

\* Every hard-sector card: what is on a disk is whole and where it was meant to go.
SlotsAreWhole == SlotLandsWhereArmed /\ SlotIsWhole
\* Every hard-sector card: what the guest reads is under the head.
SlotsAreFresh == ReadIsUnderHead /\ SlotIsFresh
=============================================================================
