----------------------------- MODULE MCDiskCards -----------------------------
(***************************************************************************)
(* One disk card at a time on the bench: a Disk 1A with its uPD765, a MITS *)
(* hard-sector card, or one of the North Star and Micropolis boards; and a *)
(* rig for each question.  The cards that are not on it stand as they were *)
(* powered on.                                                             *)
(***************************************************************************)
EXTENDS FloppyDma, SlotCards

VARIABLE bench
-----------------------------------------------------------------------------
(***************************************************************************)
(* The Disk 1A: two drives, diskettes of three cylinders, two sectors of   *)
(* two bytes.                                                              *)
(***************************************************************************)
SenseIntStatus == [op |-> "sense_int"]
Moves(op, us, mt, hd, c, r, eot) ==
  [op |-> op, us |-> us, mt |-> mt, hd |-> hd, c |-> c, h |-> hd, r |-> r, eot |-> eot, good |-> TRUE]
Seek(us, c) == [op |-> "seek", us |-> us, hd |-> 0, c |-> c]
Recalibrate(us) == [op |-> "recalibrate", us |-> us, hd |-> 0]

Plain == [commands |-> {SenseIntStatus}, gives |-> 2, wp |-> {}, heads |-> 2, moves |-> {}, nd |-> FALSE, at0 |-> 0]

\* Reads and writes over one side and two, from either, to the end and past it.
Transfers ==
  [Plain EXCEPT !.commands = {Moves("read", 0, TRUE, 0, 0, 2, 2), Moves("read", 0, FALSE, 0, 0, 1, 2),
                              Moves("read", 0, FALSE, 1, 0, 2, 3), Moves("write", 0, TRUE, 0, 0, 1, 2),
                              Moves("write", 0, FALSE, 1, 0, 1, 1), Moves("write", 0, TRUE, 1, 0, 2, 2),
                              Moves("read", 0, FALSE, 0, 1, 1, 1), Moves("write", 0, TRUE, 0, 0, 2, 1)},
               !.moves = {"dma"}]

\* The same without DMA, and on a diskette of one side.
ByHand == [Transfers EXCEPT !.nd = TRUE]
OneSided == [Transfers EXCEPT !.heads = 1, !.wp = {1},
               !.commands = @ \cup {Moves("write", 1, FALSE, 0, 0, 1, 1)}]

\* The other commands.
Others ==
  [Plain EXCEPT !.commands = {Moves("read_track", 0, FALSE, 0, 0, 1, 2), Moves("read_id", 0, FALSE, 1, 0, 1, 1),
                              Moves("format", 0, FALSE, 0, 0, 1, 2), Moves("scan", 0, FALSE, 0, 0, 1, 2),
                              [Moves("format", 0, FALSE, 1, 0, 1, 1) EXCEPT !.good = FALSE],
                              Moves("read_deleted", 0, FALSE, 0, 0, 1, 2), Moves("write", 0, FALSE, 0, 0, 2, 2),
                              [op |-> "sense_drive", us |-> 1, hd |-> 1], [op |-> "unknown"],
                              [op |-> "specify", us |-> 1, hd |-> 1, nd |-> TRUE]},
               !.moves = {"reset"}]

\* Two drives seeking at once, with a transfer the guest tries meanwhile, and diskettes swapped.
Overlapped ==
  [Plain EXCEPT !.commands = {SenseIntStatus, Recalibrate(0), Seek(0, 2), Recalibrate(1), Seek(1, 1)},
                !.gives = 3, !.at0 = 1]
Swapped ==
  [Plain EXCEPT !.commands = {SenseIntStatus, Recalibrate(0), Seek(0, 2), Seek(1, 1),
                              Moves("read", 1, FALSE, 0, 1, 1, 1)},
                !.at0 = 1, !.moves = {"swap"}]
FarOut == [Plain EXCEPT !.commands = {SenseIntStatus, Recalibrate(0)}, !.at0 = 2,
                        !.moves = {"swap", "motor", "reset"}]

\* Diskettes, the cable and the reset line, in the middle of a transfer.
Disturbed ==
  [Plain EXCEPT !.commands = {Moves("read", 0, TRUE, 0, 0, 1, 2), Moves("write", 1, TRUE, 0, 0, 2, 2)},
               !.moves = {"swap", "select", "reset"}]

MCRigs == {Transfers, ByHand, OneSided, Others, Overlapped, Swapped, FarOut, Disturbed}
-----------------------------------------------------------------------------
(***************************************************************************)
(* The MITS cards: two tracks of two sectors of two bytes.                 *)
(***************************************************************************)
Mits(kind, real, given, arms, moved) ==
  [kind |-> kind, disk |-> IF kind = "mdsa" THEN "B" ELSE "A", motorReal |-> real, strap |-> TRUE, commands |-> given, writes |-> arms, hands |-> moved]

Bits(v) == [bits |-> v]
MCMitsRigs ==
  {Mits("dcdd", FALSE, {Bits({"in", "load"}), Bits({"write"}), Bits({"in", "out", "write"})}, 1, 0),
   Mits("dcdd", FALSE, {Bits({"load", "write"}), Bits({"in", "load"})}, 1, 1),
   Mits("mds", FALSE, {Bits({"in"}), Bits({"in", "out", "write"})}, 1, 0),
   Mits("mds", TRUE, {Bits({"load"}), Bits({"in", "write"})}, 1, 1)}

(***************************************************************************)
(* The North Star boards: writes in both densities, steps in the middle;   *)
(* then interrupts, disks swapped, reset.                                  *)
(***************************************************************************)
MdsaOrder(op, n, on, runs) == [op |-> op, n |-> n, on |-> on, motor |-> runs]
MdsadOrder(op, on) == [op |-> op, on |-> on]
Orders(n, side, dd, step, on) == [op |-> "orders", n |-> n, side |-> side, dd |-> dd, step |-> step, on |-> on]

MCNorthStarRigs ==
  {Mits("mdsa", FALSE, {MdsaOrder("select", 0, FALSE, TRUE), MdsaOrder("write", 0, FALSE, FALSE),
                        MdsaOrder("step", 0, TRUE, FALSE), MdsaOrder("step", 0, FALSE, FALSE),
                        MdsaOrder("direction", 0, TRUE, FALSE)}, 1, 0),
   Mits("mdsa", TRUE, {MdsaOrder("select", 0, FALSE, TRUE), MdsaOrder("write", 0, FALSE, FALSE)}, 1, 0),
   Mits("mdsa", FALSE, {MdsaOrder("select", 0, FALSE, TRUE), MdsaOrder("write", 0, FALSE, FALSE)}, 1, 1),
   Mits("mdsa", FALSE, {MdsaOrder("select", 0, FALSE, TRUE), MdsaOrder("arm", 0, TRUE, FALSE),
                        MdsaOrder("flag", 0, TRUE, FALSE), MdsaOrder("reset", 0, TRUE, FALSE)}, 0, 1),
   Mits("mdsad", FALSE, {Orders(0, 1, TRUE, TRUE, TRUE), Orders(1, 0, FALSE, FALSE, FALSE),
                         MdsadOrder("motor", FALSE),
                         MdsadOrder("write", FALSE), MdsadOrder("body", FALSE)}, 1, 0),
   Mits("mdsad", FALSE, {Orders(0, 1, FALSE, FALSE, FALSE), MdsadOrder("motor", FALSE), MdsadOrder("write", FALSE)}, 1, 1),
   Mits("mdsad", FALSE, {Orders(0, 1, FALSE, FALSE, FALSE), MdsadOrder("motor", FALSE),
                         MdsadOrder("arm", TRUE), MdsadOrder("arm", FALSE), MdsadOrder("flag", FALSE),
                         MdsadOrder("reset", FALSE)}, 0, 1)}

(***************************************************************************)
(* The Micropolis board, the same way.                                     *)
(***************************************************************************)
VgOrder(op, n, side, on) == [op |-> op, n |-> n, side |-> side, on |-> on]

MCMicropolisRigs ==
  {Mits("vgmdc", FALSE, {VgOrder("select", 0, 0, TRUE), VgOrder("step", 0, 0, TRUE), VgOrder("write", 0, 0, TRUE)}, 1, 0),
   Mits("vgmdc", FALSE, {VgOrder("select", 0, 0, TRUE), VgOrder("select", 1, 1, TRUE), VgOrder("write", 0, 0, TRUE)}, 1, 0),
   Mits("vgmdc", FALSE, {VgOrder("select", 0, 0, TRUE), VgOrder("write", 0, 0, TRUE)}, 1, 1),
   Mits("vgmdc", FALSE, {VgOrder("select", 0, 0, TRUE), VgOrder("arm", 1, 1, TRUE), VgOrder("arm", 1, 1, FALSE),
                         VgOrder("reset", 0, 0, FALSE)}, 0, 1)}

MCSlotRigs == MCMitsRigs \cup MCNorthStarRigs \cup MCMicropolisRigs
-----------------------------------------------------------------------------
\* Nothing on the bench of that kind.
NoDma ==
  /\ rig = Plain /\ chip = BlankChip /\ drive = <<>> /\ cable = Straight /\ dma = 0 /\ mem = <<>>
  /\ hold = Drq(chip) /\ int = IntPin(chip) /\ wake = 0 /\ motor = [on |-> FALSE, off |-> 0, wake |-> 0]
  /\ job = NoJob /\ calibrated = {} /\ left = [commands |-> 0, moves |-> 0]
NoSlots ==
  /\ guest = <<>> /\ card = [kind |-> "none"] /\ bay = <<>> /\ shelf = <<>>
  /\ turned = 0 /\ where = <<>> /\ hands = 0

BenchInit ==
  \/ bench = "dma" /\ Init /\ NoSlots
  \/ bench = "slots" /\ SlotInit /\ NoDma
BenchNext ==
  /\ UNCHANGED bench
  /\ \/ bench = "dma" /\ Next /\ UNCHANGED hsVars
     \/ bench = "slots" /\ SlotNext /\ UNCHANGED vars
BenchSpec == BenchInit /\ [][BenchNext]_<<bench, vars, hsVars>>
=============================================================================
