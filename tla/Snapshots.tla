------------------------------ MODULE Snapshots ------------------------------
(***************************************************************************)
(* SNAPSHOT and RESTORE (core/machine.cpp, core/statefile.cpp, and the      *)
(* serialize and deserialize of every board and chip): a machine is saved,  *)
(* goes on, gains and loses boards, has its straps changed; the file grows  *)
(* old, is cut or relabelled; and the machine is restored from it.          *)
(*                                                                         *)
(* What a board saves is a sequence of parts, in the order of the code.     *)
(* The registers, latches and buffers of a fixed size that stand together   *)
(* are one part; what has a size or a meaning of its own is another.        *)
(***************************************************************************)
EXTENDS Integers, Sequences, FiniteSets

CONSTANTS CardTypes,  \* the types of board that are saved and restored
          MaxSteps    \* a bound: what happens to a machine

ASSUME StepsAssumption == MaxSteps \in Nat

-----------------------------------------------------------------------------
(* The kinds of part.                                                       *)
Regs == <<"regs">>      \* registers, latches, buffers, memory of a fixed size
DueAt == <<"due">>      \* a T-state of the machine's clock
Span == <<"span">>      \* how many T-states are left
Phase == <<"phase">>    \* how many T-states have gone by
Listed == <<"any">>        \* as many as the file has
Clip == <<"clip">>      \* one for each drive; those of drives that are not there are passed over
Same == <<"same">>      \* memory, taken when it is as large as the card's
Segs == <<"segs">>      \* banks of memory, of the size they have in the file
Select == <<"select">>  \* the drive that is selected
Bounded == <<"bounded">>\* the same, none when there is no such drive

(* The chips. *)
TwoStageTxState == DueAt
Mc6850State == Regs \o TwoStageTxState \o DueAt
Uart1602State == Regs \o TwoStageTxState \o DueAt
Intel8251State == Regs \o DueAt \o TwoStageTxState
Sig2651State == Regs \o DueAt \o TwoStageTxState
Tms5501State == Regs \o DueAt \o Regs \o TwoStageTxState \o DueAt
Sio2PortState(channels) == IF channels = 1 THEN Mc6850State ELSE Mc6850State \o Mc6850State
BitSerialState == Regs \o DueAt \o Listed \o Regs \o DueAt \o Regs
Intel8253State == Regs \o Phase \o Regs
Intel8255State == Regs
Intel8259aState == Regs
I8257State == Regs
Am95xxState == Regs \o Span \o Regs
Msm5832State == Regs
Bt453State == Regs
Wd17xxState == Regs \o DueAt \o Regs \o DueAt \o Listed \o Regs
Upd765State == Regs \o DueAt \o Regs \o Listed \o Regs \o DueAt \o Regs \o DueAt
Hd63484State == Regs \o Listed \o Regs \o Same \o Regs \o Listed \o DueAt \o Regs \o DueAt \o Regs
Cpu8080State == Regs
Cpu8085State == Regs
CpuZ80State == Regs
ClockState == DueAt

(* The boards.  What comes first in each is whether the board is enabled. *)
BoardState == Regs
CpuBoardState == BoardState \o Cpu8080State
Cpu8085BoardState == BoardState \o Cpu8085State
CpuZ80BoardState == BoardState \o CpuZ80State
ZcbState == CpuZ80BoardState \o Intel8251State \o Intel8255State \o Regs
MemoryState == BoardState \o Regs
MemBankState == BoardState \o Segs \o Regs
FrontPanelState == BoardState \o Regs
TurnkeyState == BoardState \o Regs \o Sio2PortState(1)
Sio2State == BoardState \o Sio2PortState(2)
SerialBaseState == BoardState \o Uart1602State \o Regs
CassetteBaseState == SerialBaseState \o Regs
UioState == CassetteBaseState \o Sio2PortState(1) \o Regs
SolState == BoardState \o Uart1602State \o Uart1602State \o Regs
Io4State == BoardState \o Uart1602State \o Uart1602State \o Regs
StrapSerialState == BoardState \o Regs
InterfacerOneState == BoardState \o Uart1602State \o Regs \o Uart1602State \o Regs
BitstreamerState == BoardState \o Intel8251State \o Regs
Bitstreamer2State == BoardState \o Intel8251State \o Intel8251State \o Intel8251State \o Regs
PmmiState == BoardState \o Uart1602State \o Regs
PioState == BoardState \o Regs
Pio4State == BoardState \o Regs
LpcState == BoardState \o Regs \o Listed
C700State == BoardState \o Regs
VirtcState == BoardState \o Regs
Rtc100State == BoardState \o Regs \o Msm5832State
Ss1State == BoardState \o Msm5832State \o Sig2651State \o Intel8253State
              \o Intel8259aState \o Intel8259aState \o Am95xxState
MusicState == BoardState \o Regs
D7aState == BoardState \o Regs
HostBridgeState == BoardState \o Regs \o Listed \o Regs \o Listed \o Listed \o Regs
SbcState == BoardState \o Intel8251State \o Regs
Pb1State == BoardState \o Regs
V2Z80RomState == BoardState \o Regs
CadzillaState == BoardState \o Hd63484State \o Bt453State \o Regs \o Same \o DueAt \o Regs
DazzlerState == BoardState \o Regs
Dazzler2State == DazzlerState \o Regs
VdmState == BoardState \o Regs \o DueAt
Vdb8024State == BoardState \o Regs
FwiiState == BoardState \o Regs
HardSectorState == BoardState \o Regs \o Select \o Clip \o Regs
MdsState == HardSectorState \o Regs \o DueAt
NorthStarState == BoardState \o Bounded \o Regs \o DueAt \o Regs \o DueAt \o Clip \o Regs \o DueAt \o Regs
MdsAState == NorthStarState \o Regs
MdsADState == NorthStarState \o Regs
VersaFloppyState == BoardState \o Regs \o Clip \o Wd17xxState
TarbellState == BoardState \o Bounded \o Regs \o Clip \o Wd17xxState
TarbellDdState == TarbellState \o Regs \o I8257State
CromemcoFdcState == BoardState \o Select \o Regs \o Clip \o Wd17xxState \o Tms5501State
DualModeState == BoardState \o Regs \o DueAt \o Regs
MicropolisState == BoardState \o Regs \o DueAt \o Regs
Heads == Regs
Disk1State == BoardState \o Regs \o Heads \o Upd765State \o BitSerialState
Disk1aState == BoardState \o Regs \o DueAt \o Heads \o Upd765State
HdfState == Regs \o DueAt \o Regs \o DueAt \o Regs \o DueAt \o Regs
FdcPlusState == BoardState \o Regs \o DueAt \o Regs \o DueAt \o HdfState
IcomState == BoardState \o Regs
JadeState == BoardState \o Regs \o DueAt \o Regs \o ClockState \o CpuZ80State \o Wd17xxState \o Heads
HdskState == BoardState \o Regs
DualIdeState == BoardState \o Regs
DualSdState == BoardState \o Regs

(* What each type saves. *)
StateOf ==
  [t8080 |-> CpuBoardState, t8085 |-> Cpu8085BoardState, z80 |-> CpuZ80BoardState,
   vgzcb |-> ZcbState, memory |-> MemoryState, bankmem |-> MemBankState, fp |-> FrontPanelState,
   turnkey |-> TurnkeyState, t2sio |-> Sio2State, sio |-> SerialBaseState, acr |-> CassetteBaseState,
   uio |-> UioState, sol |-> SolState, io4 |-> Io4State, gsio |-> StrapSerialState,
   interfacer1 |-> InterfacerOneState, vgbs |-> BitstreamerState, vgbsii |-> Bitstreamer2State,
   pmmi |-> PmmiState, pio |-> PioState, t4pio |-> Pio4State, lpc |-> LpcState, c700 |-> C700State,
   virtc |-> VirtcState, rtc100 |-> Rtc100State, ss1 |-> Ss1State, music6 |-> MusicState,
   d7a |-> D7aState, hostbridge |-> HostBridgeState, sbc |-> SbcState, pb1 |-> Pb1State,
   v2z80rom |-> V2Z80RomState, cadzilla |-> CadzillaState, dazzler2 |-> Dazzler2State,
   vdm1 |-> VdmState, vdb8024 |-> Vdb8024State, vgfwii |-> FwiiState, dcdd |-> HardSectorState,
   mds |-> MdsState, mdsa |-> MdsAState, mdsad |-> MdsADState, versafloppy |-> VersaFloppyState,
   tarbelldd |-> TarbellDdState, t16fdc |-> CromemcoFdcState, vgdmdc |-> DualModeState,
   vgmdc |-> MicropolisState, disk1 |-> Disk1State, disk1a |-> Disk1aState,
   fdcplus |-> FdcPlusState, icom |-> IcomState, jadedd |-> JadeState, hdsk |-> HdskState,
   dualide |-> DualIdeState, dualsd |-> DualSdState]

(* The deadlines it has in the queue of the clock.  As it is read it arms     *)
(* them again, but for the acknowledge of an 88-C700 and the call of a modem. *)
Refreshed == {"vgzcb", "turnkey", "t2sio", "sio", "acr", "uio", "io4", "interfacer1", "vgbs", "ss1",
              "sbc", "mdsa", "mdsad", "versafloppy", "tarbelldd", "t16fdc", "cadzilla", "vgmdc"}
Rearms(type) ==
  CASE type \in Refreshed -> {"wake"}
    [] type = "disk1" -> {"chip", "line"}
    [] type = "disk1a" -> {"chip", "motor"}
    [] type = "jadedd" -> {"host"}
    [] type \in {"virtc", "rtc100"} -> {"tick"}
    [] type = "vgbsii" -> {"wake", "tick"}
    [] OTHER -> {}
Forgets == {"c700", "pmmi"}
Deadlines(type) == IF type \in Forgets THEN {"wake"} ELSE Rearms(type)

\* The types whose straps say how much there is to save.
Resizable == {type \in DOMAIN StateOf :
             \E i \in DOMAIN StateOf[type] : StateOf[type][i] \in {"clip", "same", "segs"}}

ASSUME TypesAssumption == CardTypes \subseteq DOMAIN StateOf

-----------------------------------------------------------------------------
VARIABLES
  fitted,   \* the boards: [id, type, own, vals], own is how many drives or banks
  time,    \* the clock
  queue,   \* the deadlines that are armed: [id, wake]
  file,    \* the snapshot, or <<>>: [ver, good, t, boards]
  notes,   \* the boards the last RESTORE named, by id
  result,  \* what the last command was: "none", "refused", "restored"
  steps
snapVars == <<fitted, time, queue, file, notes, result, steps>>

Max0(n) == IF n < 0 THEN 0 ELSE n

(* The banks of a card: how many, and how large, is up to its straps. *)
Banks(own, stamp) == [i \in 1..(IF own = 2 THEN 2 ELSE 3) |-> <<stamp, own>>]

(* A part of a board that has run: the time of the run is its mark, and it is *)
(* odd when something is under way, until "due".                              *)
Value(part, own, stamp, due) ==
  CASE part = "regs" -> <<stamp>>
    [] part \in {"due", "span", "phase"} -> <<due>>
    [] part = "any" -> [i \in 1..(stamp % 2) |-> stamp]
    [] part \in {"clip", "same"} -> [i \in 1..own |-> stamp]
    [] part = "segs" -> Banks(own, stamp)
    [] part \in {"select", "bounded"} -> <<own - 1>>
Values(type, own, stamp, due) ==
  [i \in DOMAIN StateOf[type] |-> Value(StateOf[type][i], own, stamp, due)]
NewBoard(id, type, own) == [id |-> id, type |-> type, own |-> own, vals |-> Values(type, own, 0, 0)]

Busy(b, now) ==
  IF \E i \in DOMAIN b.vals : StateOf[b.type][i] = "due"
    THEN \E i \in DOMAIN b.vals : StateOf[b.type][i] = "due" /\ b.vals[i][1] > now
  ELSE b.vals[1][1] % 2 = 1

-----------------------------------------------------------------------------
(* Writing, and reading what was written, part by part.                     *)
Written(part, val, now) == CASE part = "span" -> <<Max0(val[1] - now)>>
                             [] part = "phase" -> <<now - val[1]>>
                             [] OTHER -> val
Section(b, now) ==
  [id |-> b.id, type |-> b.type, extra |-> 0,
   vals |-> [i \in DOMAIN b.vals |-> Written(StateOf[b.type][i], b.vals[i], now)]]

SelectedMutant(val, own) == val
Selected(val, own) == IF val[1] < own THEN val ELSE <<-1>>

ReadPart(part, own, was, val, now) ==
  CASE part = "span" -> <<now + val[1]>>
    [] part = "phase" -> <<now - val[1]>>
    [] part = "clip" -> [i \in 1..own |-> IF i <= Len(val) THEN val[i] ELSE was[i]]
    [] part = "same" -> IF Len(val) = own THEN val ELSE was
    [] part = "segs" -> [i \in DOMAIN was |-> IF i <= Len(val) THEN val[i] ELSE was[i]]
    [] part = "bounded" -> Selected(val, own)
    [] OTHER -> val
Deserialize(b, s, now) ==
  [b EXCEPT !.vals = [i \in DOMAIN @ |-> ReadPart(StateOf[b.type][i], b.own, @[i], s.vals[i], now)]]

\* The section is read to its last byte, and no further.
FitsBuild(b, s) ==
  /\ s.extra = 0
  /\ \A i \in DOMAIN b.vals : StateOf[b.type][i] = "segs" => Len(s.vals[i]) <= Len(b.vals[i])

(* power() and reset().  Heads stay where they are, banks as large as they are. *)
AtPowerOn(b) ==
  [b EXCEPT !.vals = [i \in DOMAIN @ |->
     CASE StateOf[b.type][i] = "clip" -> @[i]
       [] StateOf[b.type][i] = "segs" -> [j \in DOMAIN @[i] |-> <<0, @[i][j][2]>>]
       [] OTHER -> Value(StateOf[b.type][i], b.own, 0, 0)]]

Rearmed(b, now) ==
  IF Busy(b, now) THEN {[id |-> b.id, wake |-> w] : w \in Rearms(b.type)} ELSE {}

-----------------------------------------------------------------------------
(* RESTORE.                                                                 *)
kFormatVersion == 7
stateSince(type) == CASE type \in {"acr", "sol"} -> 2
                      [] type = "sbc" -> 3
                      [] type = "ss1" -> 4
                      [] type = "cadzilla" -> 5
                      [] type = "z80" -> 6
                      [] OTHER -> 1

lowerAscii(id) == IF id = "A" THEN "a" ELSE id
Find(list, id) == {i \in DOMAIN list : lowerAscii(list[i].id) = lowerAscii(id)}

\* The section a board is read from, if the file has one of its type that it knows.
Matches(b, f) ==
  {i \in Find(f.boards, b.id) : f.boards[i].type = b.type /\ f.ver >= stateSince(b.type)}
Readable(f) == f # <<>> /\ f.good /\ f.ver \in 1..kFormatVersion

RestoredBoard(b, f, now) ==
  IF Matches(b, f) = {} THEN AtPowerOn(b)
  ELSE LET s == f.boards[CHOOSE i \in Matches(b, f) : TRUE]
           read == Deserialize(b, s, now)
       IN  IF FitsBuild(b, s) THEN read ELSE AtPowerOn(read)
IsRestored(b, f) == \E i \in Matches(b, f) : FitsBuild(b, f.boards[i])
Noted(f) ==
  {fitted[i].id : i \in {j \in DOMAIN fitted : ~IsRestored(fitted[j], f)}}
    \union {f.boards[i].id : i \in {j \in DOMAIN f.boards : Find(fitted, f.boards[j].id) = {}}}

\* The clock comes first: it empties the queue, and spans are counted from it.
ClockFirstMutant(f) == time
ClockFirst(f) == f.t

Counted == steps < MaxSteps /\ steps' = steps + 1
RestoreFile ==
  /\ Counted /\ UNCHANGED file
  /\ IF ~Readable(file) \/ \A i \in DOMAIN fitted : Matches(fitted[i], file) = {}
       THEN result' = "refused" /\ notes' = {} /\ UNCHANGED <<fitted, time, queue>>
       ELSE /\ result' = "restored"
            /\ notes' = Noted(file)
            /\ time' = file.t
            /\ fitted' = [i \in DOMAIN fitted |-> RestoredBoard(fitted[i], file, ClockFirst(file))]
            /\ queue' = UNION {Rearmed(fitted'[i], time') : i \in DOMAIN fitted}

Snapshot ==
  /\ Counted /\ UNCHANGED <<fitted, time, queue>>
  /\ file' = [ver |-> kFormatVersion, good |-> TRUE, t |-> time,
              boards |-> [i \in DOMAIN fitted |-> Section(fitted[i], time)]]
  /\ result' = "none" /\ notes' = {}

-----------------------------------------------------------------------------
(* What happens to the machine and to the file besides.                     *)
SnapInit ==
  /\ \E type \in CardTypes, own \in {1, 2} :
       /\ own = 1 \/ type \in Resizable
       /\ fitted = <<NewBoard("a", type, own), NewBoard("cpu", "t8080", 1)>>
  /\ time = 0 /\ queue = {} /\ file = <<>> /\ notes = {} /\ result = "none" /\ steps = 0

\* The guest runs: its boards are left idle, or waiting for a T-state out of reach.
Run ==
  /\ Counted /\ UNCHANGED <<file>> /\ result' = "none" /\ notes' = {}
  /\ time' = time + 1
  /\ \E busy \in {0, 1} :
       /\ fitted' = [i \in DOMAIN fitted |->
                      [fitted[i] EXCEPT !.vals = Values(fitted[i].type, fitted[i].own, 2 * time' + busy,
                                                       time' + busy * (MaxSteps + 1))]]
       /\ queue' = IF busy = 0 THEN {}
                   ELSE UNION {{[id |-> fitted[i].id, wake |-> w] : w \in Deadlines(fitted[i].type)} :
                               i \in DOMAIN fitted}

(* SET of how many drives or banks there are.  A hard-sector card takes its  *)
(* selection along; a 16FDC does not.                                        *)
Resized(b, own) ==
  [b EXCEPT !.own = own, !.vals = [i \in DOMAIN @ |->
     CASE StateOf[b.type][i] = "clip" -> [j \in 1..own |-> IF j <= Len(@[i]) THEN @[i][j] ELSE 0]
       [] StateOf[b.type][i] = "same" -> [j \in 1..own |-> 0]
       [] StateOf[b.type][i] = "segs" -> Banks(own, 0)
       [] StateOf[b.type][i] = "select" /\ b.type # "t16fdc" -> Selected(@[i], own)
       [] OTHER -> @[i]]]
SetStraps ==
  /\ Counted /\ UNCHANGED <<time, queue, file>> /\ result' = "none" /\ notes' = {}
  /\ \E i \in DOMAIN fitted :
       /\ fitted[i].type \in Resizable
       /\ fitted' = [fitted EXCEPT ![i] = Resized(@, 3 - @.own)]

\* A board is renamed, another takes its place, its id and all, or it goes.
Rebuild ==
  /\ Len(fitted) = 2
  /\ Counted /\ UNCHANGED <<time, file>> /\ result' = "none" /\ notes' = {}
  /\ queue' = {e \in queue : e.id # fitted[1].id}
  /\ \E id \in {"A", "b"}, type \in {fitted[1].type, "fp"}, go \in BOOLEAN :
       fitted' = IF go THEN <<fitted[2]>>
                ELSE [fitted EXCEPT ![1] = NewBoard(id, type, 1)]

\* The file is of another release, a section of it has grown or shrunk, or it is spoiled.
Refile ==
  /\ Counted /\ UNCHANGED <<fitted, time, queue>> /\ result' = "none" /\ notes' = {}
  /\ file # <<>>
  /\ \/ \E v \in {stateSince(fitted[1].type) - 1, kFormatVersion + 1} : file' = [file EXCEPT !.ver = v]
     \/ \E i \in DOMAIN file.boards, n \in {-1, 1} : file' = [file EXCEPT !.boards[i].extra = n]
     \/ file' = [file EXCEPT !.good = FALSE]

SnapNext == Snapshot \/ RestoreFile \/ Run \/ SetStraps \/ Rebuild \/ Refile
SnapSpec == SnapInit /\ [][SnapNext]_snapVars

-----------------------------------------------------------------------------
(* A board that RESTORE did not name is as it was saved: every part of it, with *)
(* as long to go to what it waits for, and what it waits for armed again; a     *)
(* drive it has is selected, and its banks are of the size its straps say.      *)
PartIsBack(b, i, s) ==
  LET part == StateOf[b.type][i]
      val == b.vals[i]
  IN  CASE part = "clip" -> \A j \in DOMAIN val \intersect DOMAIN s.vals[i] : val[j] = s.vals[i][j]
        [] part \in {"select", "bounded"} -> val[1] < b.own /\ (val # s.vals[i] => s.vals[i][1] >= b.own)
        [] part = "segs" -> val = s.vals[i] /\ \A j \in DOMAIN val : val[j][2] = b.own
        [] OTHER -> Written(part, val, time) = s.vals[i]
IsBack(b, s) == /\ \A i \in DOMAIN b.vals : PartIsBack(b, i, s)
                /\ {e.wake : e \in {x \in queue : x.id = b.id}} = IF Busy(b, time) THEN Deadlines(b.type) ELSE {}

\* What it did name is as a new board, and waits for nothing.
IsNew(b) == /\ \A i \in DOMAIN b.vals : StateOf[b.type][i] # "clip" =>
                 b.vals[i] = Value(StateOf[b.type][i], b.own, 0, 0)
            /\ \A e \in queue : e.id # b.id

(* The cards that do not keep to it: those that take a drive they have not    *)
(* got as selected, a Cadzilla with less or more memory, a bank card whose     *)
(* section has banks of other straps or fewer of them, and the two that do     *)
(* not arm their deadline.                                                    *)
Deviates(b, s) ==
  \/ \E i \in DOMAIN b.vals : \/ StateOf[b.type][i] = "select" /\ s.vals[i][1] >= b.own
                              \/ StateOf[b.type][i] = "same" /\ s.vals[i] # b.vals[i]
                              \/ StateOf[b.type][i] = "segs" /\ Len(s.vals[i]) # Len(b.vals[i])
                              \/ StateOf[b.type][i] = "segs" /\ \E j \in DOMAIN b.vals[i] : b.vals[i][j][2] # b.own
  \/ b.type \in Forgets /\ Busy(b, time)

(* After a RESTORE every board of the machine either is what the file says of it, *)
(* its deadlines armed again, or was named as not restored and is as new, and     *)
(* every section of the file has found a board or was named; Deviates lists the   *)
(* cards of which that is not so (Machine::restore, machine.cpp:289-425).         *)
RestoredOrTold ==
  result = "restored" =>
    /\ time = file.t
    /\ \A i \in DOMAIN file.boards :
         file.boards[i].id \in notes \/ Find(fitted, file.boards[i].id) # {}
    /\ \A i \in DOMAIN fitted :
         LET b == fitted[i]
         IN  IF b.id \in notes THEN IsNew(b) \/ b.type = "bankmem"
             ELSE \E j \in Find(file.boards, b.id) :
                    LET s == file.boards[j]
                    IN  s.type = b.type /\ (IsBack(b, s) <=> ~Deviates(b, s))

(* A RESTORE that is refused changes nothing (machine.cpp:289-349). *)
RefusedRestoreChangesNothing == [][result' = "refused" => UNCHANGED <<fitted, time, queue>>]_snapVars
=============================================================================
