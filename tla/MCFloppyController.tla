------------------------- MODULE MCFloppyController -------------------------
(***************************************************************************)
(* A drive of two cylinders, two sectors of two bytes a track.              *)
(***************************************************************************)
EXTENDS FloppyController
CONSTANTS a, none

MCDrives == {a}
Cmd(op, flags) == [op |-> op, flags |-> flags]
MCCommands ==
  {Cmd("restore", {"v"}), Cmd("seek", {"v"}), Cmd("stepIn", {"u"}), Cmd("stepOut", {}),
   Cmd("readSector", {"m", "e"}), Cmd("writeSector", {"m"}),
   Cmd("readAddress", {"e"}), Cmd("readTrack", {}), Cmd("writeTrack", {}),
   Cmd("forceInterrupt", {"now"}), Cmd("forceInterrupt", {"ready", "notReady"})}
=============================================================================
