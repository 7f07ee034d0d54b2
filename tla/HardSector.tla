------------------------------ MODULE HardSector ------------------------------
(***************************************************************************)
(* The MITS hard-sector disk systems, the 88-DCDD and the 88-MDS: three    *)
(* ports around a platter that turns whether or not anybody looks.         *)
(*                                                                         *)
(* The sector under the head and the byte in it are read off the clock;    *)
(* the card keeps one slot it has read and one it is being given, both     *)
(* remembered by position, and every access first looks whether the        *)
(* platter has left them behind.  A slot is written when the head leaves   *)
(* it, with whatever the guest gave.  The 88-MDS has a motor with two      *)
(* timers and a settling time in front of the same card.                   *)
(***************************************************************************)
EXTENDS Integers, Sequences

CONSTANTS
  HsTracks, HsSectors, HsBytes,  \* the shape of a disk
  HsDrives,      \* drives on the chain
  HsDisks,       \* the disks there are
  HsSectorTicks, HsReadStart, HsWriteStart,  \* a sector's length, and where its bytes begin
  MotorOnDelay, DisableTimer, StepSettle,    \* the 88-MDS's times, in ticks
  HsRigs         \* the machines looked at

\* A rig: kind, "dcdd" or "mds" here; disk, what is in drive 0; motorReal, the motor strap; commands, the bytes its guest gives the
\* command port; writes, how many it arms; hands, how often the operator does something meanwhile.

ASSUME HardSectorAssumption ==
  /\ {HsTracks, HsSectors, HsBytes, HsDrives, HsSectorTicks} \subseteq Nat \ {0}
  /\ HsReadStart \in Nat /\ HsWriteStart \in Nat
  /\ \A g \in HsRigs : g.disk \in HsDisks
  /\ HsWriteStart + HsBytes <= HsSectorTicks

VARIABLES
  guest,   \* the machine, of HsRigs
  card,    \* the card's registers, and its motor
  bay,     \* bay[u]: what is in drive u, and where its head is
  shelf,   \* shelf[d]: what is on disk d
  turned,  \* T-states into the revolution
  where,   \* history: where each write armed so far was to go
  hands    \* what is left of the operator's moves

hsVars == <<guest, card, bay, shelf, turned, where, hands>>

Bays == 0..(HsDrives - 1)
Places == (0..(HsTracks - 1)) \X (0..(HsSectors - 1))
Slots == 1..HsBytes
NoDisk == "none"
Nowhere == -1
AsItCame == 0     \* a byte that was on the disk when it came
Skipped == -1     \* a byte of a write the guest never gave
NoTime == 0

MitsKinds == {"dcdd", "mds"}
HsMachine == [card |-> card, bay |-> bay, shelf |-> shelf]
-----------------------------------------------------------------------------
(***************************************************************************)
(* Where the head is.                                                      *)
(***************************************************************************)
HasDrive(m) == m.card.sel # Nowhere
Sel(m) == m.bay[m.card.sel]
Spins(m) == HasDrive(m) /\ Sel(m).disk # NoDisk
Into(t) == t % HsSectorTicks
SectorAt(t) == (t \div HsSectorTicks) % HsSectors
LowerOf(a, b) == IF a < b THEN a ELSE b

\* The byte under the read head, the first being 0, held at the last; and under the write head.
ByteIndex(t) ==
  IF Into(t) < HsReadStart THEN Nowhere ELSE LowerOf(Into(t) - HsReadStart, HsBytes - 1)
WriteIndex(t) == IF Into(t) < HsWriteStart THEN Nowhere ELSE Into(t) - HsWriteStart

\* The 88-MDS: enabled and not timed out; at speed.  The 88-DCDD has neither.
SystemOn(c) == c.enabled /\ c.sel # Nowhere /\ (c.motorReal => c.offIn # NoTime)
AtSpeed(c) == SystemOn(c) /\ (c.motorReal => c.speedIn = NoTime)
HeadLoaded(m) == IF m.card.kind = "dcdd" THEN Sel(m).loaded ELSE AtSpeed(m.card)
Online(m) == HasDrive(m) /\ (m.card.kind = "mds" => Sel(m).disk # NoDisk /\ SystemOn(m.card))
SectorChannelLive(m) == m.card.kind = "mds" => AtSpeed(m.card) /\ m.card.settleIn = NoTime
-----------------------------------------------------------------------------
(***************************************************************************)
(* The two slots.                                                          *)
(***************************************************************************)
InvalidatePosition(m) == [m EXCEPT !.card.bufSector = Nowhere, !.card.readPos = 0]

\* The rest of a short write is its last byte.
Padded(c) ==
  [i \in Slots |-> IF i <= c.writePos THEN c.wbuf[i] ELSE c.wbuf[c.writePos]]

\* flushWrite: the head leaves the slot, and what was given is on the disk.
FlushWrite(m) ==
  LET c == m.card
      closed == [m EXCEPT !.card.writing = FALSE, !.card.writePos = 0]
      reread == IF c.bufSector = c.wSector THEN [closed EXCEPT !.card.bufSector = Nowhere] ELSE closed
  IN CASE ~c.writing -> m
       [] c.writing /\ (~Spins(m) \/ c.writePos = 0 \/ c.wSector = Nowhere) -> closed
       [] OTHER -> IF Sel(m).ro THEN reread
                   ELSE [reread EXCEPT !.shelf[Sel(m).disk][<<c.wTrack, c.wSector>>] = Padded(c)]

\* syncSector: the read head does not wait to be asked.
SyncSector(m, t) ==
  IF ~Spins(m) \/ ~HeadLoaded(m) \/ SectorAt(t) = m.card.bufSector THEN m
  ELSE LET f == FlushWrite(m) IN
         [f EXCEPT !.card.bufSector = SectorAt(t), !.card.readPos = 0,
                   !.card.buf = f.shelf[Sel(f).disk][<<Sel(f).track, SectorAt(t)>>]]

\* armWrite: whatever is pending goes first.
ArmWrite(m, t) ==
  [FlushWrite(m) EXCEPT
     !.card.writing = TRUE, !.card.writePos = 0, !.card.wTrack = Sel(m).track,
     !.card.wSector = IF Spins(m) THEN SectorAt(t) ELSE Nowhere,
     !.card.wbuf = [i \in Slots |-> Skipped]]
-----------------------------------------------------------------------------
(***************************************************************************)
(* Selecting and stepping.                                                 *)
(***************************************************************************)
\* onSelect: the 88-MDS's motor starts when its system goes from off to on.
OnSelect(c, n) ==
  CASE c.kind = "dcdd" -> c
    [] c.kind = "mds" /\ n = Nowhere -> [c EXCEPT !.enabled = FALSE, !.speedIn = NoTime, !.settleIn = NoTime]
    [] OTHER -> [c EXCEPT !.enabled = TRUE, !.offIn = DisableTimer,
                          !.speedIn = IF SystemOn(c) THEN @ ELSE MotorOnDelay]

Reselected(m, n) == [m EXCEPT !.card = [OnSelect(@, n) EXCEPT !.sel = n]]
SelectDriveMutant(m, n) ==
  LET f == Reselected(m, n) IN IF n = m.card.sel THEN f ELSE InvalidatePosition(FlushWrite(f))
SelectDrive(m, n) ==
  LET f == FlushWrite(m)
      s == Reselected(f, n)
  IN IF n = f.card.sel /\ n # Nowhere THEN s ELSE InvalidatePosition(s)

\* A step: the 88-DCDD obeys both directions, the 88-MDS steps out when given both.
Inward(k) == IF k < HsTracks - 1 THEN k + 1 ELSE k
Outward(k) == IF k > 0 THEN k - 1 ELSE k
Stepping(kind, v, k) ==
  CASE "out" \in v /\ kind = "mds" -> Outward(k)
    [] "out" \in v /\ "in" \in v -> Outward(Inward(k))
    [] "out" \in v -> Outward(k)
    [] OTHER -> Inward(k)
StepHeadMutant(m, v) == [FlushWrite(m) EXCEPT !.bay[m.card.sel].track = Stepping(m.card.kind, v, @)]
StepHead(m, v) ==
  InvalidatePosition([FlushWrite(m) EXCEPT !.bay[m.card.sel].track = Stepping(m.card.kind, v, @)])

\* command: independent bits, from the lowest.
DcddCommand(m, v, t) ==
  LET a == IF {"in", "out"} \cap v # {} THEN StepHead(m, v) ELSE m
      b == IF "load" \in v THEN [a EXCEPT !.bay[m.card.sel].loaded = TRUE] ELSE a
      c == IF "unload" \in v
           THEN InvalidatePosition([FlushWrite(b) EXCEPT !.bay[m.card.sel].loaded = FALSE]) ELSE b
  IN IF "write" \in v THEN ArmWrite(c, t) ELSE c

MdsCommand(m, v, t) ==
  LET a == IF {"in", "out"} \cap v # {}
           THEN [StepHead(m, v) EXCEPT !.card.settleIn = StepSettle, !.card.offIn = DisableTimer] ELSE m
      b == IF "load" \in v THEN [a EXCEPT !.card.offIn = DisableTimer] ELSE a
  IN IF "write" \in v THEN ArmWrite(b, t) ELSE b

MitsCommand(m, v, t) ==
  CASE ~HasDrive(m) -> m
    [] HasDrive(m) /\ m.card.kind = "dcdd" -> DcddCommand(m, v, t)
    [] OTHER -> MdsCommand(m, v, t)
-----------------------------------------------------------------------------
(***************************************************************************)
(* The ports.                                                              *)
(***************************************************************************)
Becomes(m) == card' = m.card /\ bay' = m.bay /\ shelf' = m.shelf
HsStill == UNCHANGED <<guest, turned, hands>>

\* IN 08, and IN 09 when its channel is live: both look where the platter is.
HsReadStatus ==
  /\ Online(HsMachine) /\ Becomes(SyncSector(HsMachine, turned))
  /\ HsStill /\ UNCHANGED where
HsReadSector ==
  /\ Online(HsMachine) /\ HeadLoaded(HsMachine) /\ SectorChannelLive(HsMachine) /\ Spins(HsMachine)
  /\ Becomes(SyncSector(HsMachine, turned))
  /\ HsStill /\ UNCHANGED where

\* IN 0A: what the guest gets, and the card after it.
DataFrom(m, t) == SyncSector(m, t).card.buf[ByteIndex(t) + 1]
HsReadData ==
  /\ Online(HsMachine) /\ HeadLoaded(HsMachine)
  /\ \E m \in {SyncSector(HsMachine, turned)} :
       Becomes(IF ByteIndex(turned) = Nowhere THEN m ELSE [m EXCEPT !.card.readPos = ByteIndex(turned) + 1])
  /\ HsStill /\ UNCHANGED where

\* OUT 08: bit 7, or a drive there is not, deselects.
HsSelect(n) ==
  /\ Becomes(SelectDrive(HsMachine, IF n \in Bays THEN n ELSE Nowhere))
  /\ HsStill /\ UNCHANGED where

\* OUT 09.  History: a write armed is to go where the head is.
HsCommand(v) ==
  /\ "write" \in v => Len(where) < guest.writes
  /\ Becomes(MitsCommand(HsMachine, v, turned))
  /\ where' = IF "write" \notin v \/ ~HasDrive(HsMachine) THEN where
              ELSE Append(where, [disk |-> bay'[card'.sel].disk, ro |-> bay'[card'.sel].ro,
                                  place |-> <<card'.wTrack, card'.wSector>>, given |-> FALSE])
  /\ HsStill

\* OUT 0A: the byte lands in the slot the write circuit takes next.
HsWriteData ==
  /\ card.writing
  /\ LET slot == IF Spins(HsMachine) /\ WriteIndex(turned) > 0 THEN WriteIndex(turned) ELSE 0 IN
       /\ card' = [card EXCEPT !.wbuf = [i \in Slots |-> IF i = slot + 1 THEN Len(where) ELSE card.wbuf[i]],
                               !.writePos = slot + 1]
       /\ where' = [where EXCEPT ![Len(where)].given = @ \/ slot < HsBytes]
  /\ HsStill /\ UNCHANGED <<bay, shelf>>
-----------------------------------------------------------------------------
(***************************************************************************)
(* The operator, and time.                                                 *)
(***************************************************************************)
HsByHand(m) == hands > 0 /\ Becomes(m) /\ hands' = hands - 1 /\ UNCHANGED <<guest, turned, where>>

LeftBehind(m, u) == IF m.card.sel = u THEN InvalidatePosition(FlushWrite(m)) ELSE m
HsMount(u, d, ro) ==
  /\ \A w \in Bays : bay[w].disk # d
  /\ HsByHand([LeftBehind(HsMachine, u) EXCEPT !.bay[u].disk = d, !.bay[u].ro = ro])
HsUnmount(u) ==
  /\ bay[u].disk # NoDisk
  /\ HsByHand([LeftBehind(HsMachine, u) EXCEPT !.bay[u].disk = NoDisk, !.bay[u].ro = FALSE, !.bay[u].loaded = FALSE])

\* RESET and POWER.
HsReset ==
  LET f == FlushWrite(HsMachine) IN
    HsByHand(InvalidatePosition([Reselected(f, Nowhere) EXCEPT !.bay = [u \in Bays |-> [bay[u] EXCEPT !.loaded = FALSE]]]))

\* SET drives=, below the one selected, and back up again: it is deselected, and nothing flushed.
HsSetDrives ==
  /\ card.sel > 0 /\ \A u \in Bays : u >= card.sel => bay[u].disk = NoDisk
  /\ HsByHand([HsMachine EXCEPT !.card.sel = Nowhere,
                 !.bay = [u \in Bays |-> IF u < card.sel THEN bay[u] ELSE [bay[u] EXCEPT !.track = 0, !.loaded = FALSE]]])

OneLess(n) == IF n > 0 THEN n - 1 ELSE 0
HsTick ==
  /\ turned' = (turned + 1) % (HsSectorTicks * HsSectors)
  /\ card' = [card EXCEPT !.offIn = OneLess(@), !.speedIn = OneLess(@), !.settleIn = OneLess(@)]
  /\ UNCHANGED <<guest, bay, shelf, where, hands>>
-----------------------------------------------------------------------------
\* A card just powered on, with a disk in each drive there is one for.
HsInit ==
  /\ guest \in {g \in HsRigs : g.kind \in MitsKinds}
  /\ card = [kind |-> guest.kind, motorReal |-> guest.motorReal, sel |-> Nowhere, writing |-> FALSE, writePos |-> 0,
             wSector |-> Nowhere, wTrack |-> Nowhere, wbuf |-> [i \in Slots |-> Skipped],
             buf |-> [i \in Slots |-> Skipped], bufSector |-> Nowhere, readPos |-> 0,
             enabled |-> FALSE, offIn |-> NoTime, speedIn |-> NoTime, settleIn |-> NoTime]
  /\ bay = [u \in Bays |-> [disk |-> IF u = 0 THEN guest.disk ELSE NoDisk,
                            ro |-> FALSE, track |-> 0, loaded |-> FALSE]]
  /\ shelf = [d \in HsDisks |-> [p \in Places |-> [i \in Slots |-> AsItCame]]]
  /\ turned = 0 /\ where = <<>> /\ hands = guest.hands

HsGuest ==
  \/ HsReadStatus \/ HsReadSector \/ HsReadData \/ HsWriteData
  \/ \E n \in 0..HsDrives : HsSelect(n)
  \/ \E v \in guest.commands : HsCommand(v.bits)
HsOperator ==
  \/ \E u \in Bays, d \in HsDisks, ro \in BOOLEAN : HsMount(u, d, ro)
  \/ \E u \in Bays : HsUnmount(u)
  \/ HsReset \/ HsSetDrives
HsNext == card.kind \in MitsKinds /\ (HsGuest \/ HsOperator \/ HsTick)

HsSpec == HsInit /\ [][HsNext]_hsVars
-----------------------------------------------------------------------------
(***************************************************************************)
(* What is to hold.                                                        *)
(***************************************************************************)
HsWrites == 1..Len(where)
Holds(d, p, w) == \E i \in Slots : shelf[d][p][i] = w
Pending(w) == card.writing /\ card.writePos > 0 /\ w = Len(where)
SamePlace(v, w) == where[v].disk = where[w].disk /\ where[v].place = where[w].place

\* Every sector on a disk is the original or one write, whole, and each write is in the one
\* place the head was at when the write was armed: not on the disk that came after, not in the
\* track stepped to, not in the next sector.  A write the guest gave bytes for is there, or
\* pending with the card still standing there, or written over by a later one.
SlotLandsWhereArmed ==
  card.kind \in MitsKinds =>
  /\ \A d \in HsDisks, p \in Places :
       \/ shelf[d][p] = [i \in Slots |-> AsItCame]
       \/ \E w \in HsWrites :
            /\ where[w].disk = d /\ where[w].place = p /\ ~where[w].ro
            /\ \A i \in Slots : shelf[d][p][i] \in {w, Skipped}
  /\ \A w \in HsWrites :
       where[w].given /\ where[w].disk # NoDisk /\ ~where[w].ro =>
         \/ Holds(where[w].disk, where[w].place, w)
         \/ Pending(w) /\ HasDrive(HsMachine) /\ bay[card.sel].disk = where[w].disk /\ bay[card.sel].track = card.wTrack
         \/ \E v \in HsWrites : v > w /\ SamePlace(v, w)

\* A byte the guest reads is the one under the head now, of the track the head is on and the
\* disk that is in the drive: the slot the card keeps is never one it was left with.
ReadIsUnderHead ==
  LET m == HsMachine IN
    card.kind \in MitsKinds /\ Online(m) /\ HeadLoaded(m) /\ Spins(m) /\ ByteIndex(turned) # Nowhere
      => LET after == SyncSector(m, turned) IN
           DataFrom(m, turned) = after.shelf[Sel(m).disk][<<Sel(m).track, SectorAt(turned)>>][ByteIndex(turned) + 1]
=============================================================================
