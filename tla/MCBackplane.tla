---------------------------- MODULE MCBackplane ----------------------------
(***************************************************************************)
(* Three cards: a serial card that pulls VI0 and pin 73, a DMA disk card  *)
(* that pulls pHOLD and NMI*, and an 88-VI/RTC on VI0, VI7 or neither.    *)
(***************************************************************************)
EXTENDS Backplane
CONSTANTS serial, disk, virtc

MCBoards == {serial, disk, virtc}
MCWatchers == {virtc}
MCLines == {0, 7}
MCLevels == {7}
MCCanPull == [b \in MCBoards |-> CASE b = serial -> {0, pINT}
                                   [] b = disk -> {pHOLD, NMI}
                                   [] OTHER -> {}]
=============================================================================
