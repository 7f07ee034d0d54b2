# A verification project for altairsim

altairsim is an S-100 computer: a backplane, the cards in it, the chips on the
cards, a debugger that runs it and two ways to drive the debugger (a command
line and an MCP server).  It runs on one thread except for the MCP session, but
it is far from sequential.  Deadlines fire inside instructions, cards rewire the
bus in the middle of a cycle, a breakpoint unwinds an instruction half way, a
DMA card takes the bus between two instructions, and a signal handler or a
client's cancel may land anywhere.

The modules here model that control logic, TLC checks them on small instances,
and TLAPS proves the most important invariants, and one refinement, for every
value of the constants.

Source paths in this file are relative to `src/` of the repository; every
modelled definition and its lines are in `PROJECT.json` under `map`.

## 1. Inventory

### The parts that are modelled

| Part | State it keeps | Operations | Hard because | What makes it correct |
|---|---|---|---|---|
| Backplane pins (`core/bus.*`, `core/board.h`) | a counter for each of pINT, pHOLD, NMI and the VI lines; each card's cached answers | attach, detach, enable, a register that moves, RESET, POWER, RESTORE | nothing recounts: a forgotten or doubled announcement is for ever; a VI line moved by one card moves what another drives | the pin a processor reads is the wire-OR of what the enabled cards' registers say |
| Event queue (`core/clock.*`) | time, a heap, the live entries, a process-wide handle counter; each card's handle | at, cancel, advance, power, restore | entries outlive their jobs; callbacks schedule and cancel while the queue drains; handles outlive clocks | no deadline is lost, leaked, stolen or out of order |
| Bus cycles (`core/bus.*`) | page tables and port tables, a dirty mark, the list of snoopers | every cycle, peek, attach, detach, rewiring | the table says what was true when it was built; a card may rewire inside the cycle | a cycle served from a table does what asking every card would |
| Run loop (`core/debug.*`, `cli/monitor.cpp`) | the boundary snapshot, the one-shot, the stop flag, latches of tape and unclaimed ports | RUN in slices, STEP n, breakpoints, DMA grants, ^C | an instruction is several cycles and any of them may be vetoed; the stop flag is cleared by whoever begins | an instruction ends as one undisturbed run of it would, and stops are heard and true |
| MCP session (`mcp/server.cpp`) | the request queue, the request in flight, the free run, a snapshot for `status` | reader, worker, slices, cancel, ^C, end of input | two threads, a process-wide flag, a signal handler | every stop reaches the run it was meant for and every request is answered |
| Processors (`cpu/*`) | registers, flags, EI's delay, HLT, an acknowledge in progress | every opcode of the 8080, 8085 and Z80; INTR, the 8085's pins, NMI and the three modes | one instruction set written three times; decimal and signed arithmetic from single flags; EI one instruction late | three processors run one program alike, and an interrupt leaves no trace |
| Interrupt chain (`chips/intel8259a.*`, `intel8253.*`, `boards/compupro-ss1.cpp`) | two cascaded controllers, a timer, a serial channel, one deadline | the command words, the acknowledge cycles, counters in six modes, RESET, POWER | priorities rotate while handlers nest; a request may go away before its acknowledge; counters move by themselves | pin 73 is the chain's answer, the newest handler ends first, no rise is lost |
| 6850 section (`chips/mc6850.*`, `twostagetx.h`, `sio2port.*`) | the registers of each chip, the card's one deadline | the four register accesses, POWER, RESTORE, the line | nobody polls: the deadline must be armed for the first moment pin 73 could want to move | pin 73 is right at every T-state |
| Other serial cards (`uart1602`, `intel8251`, `tms5501`; `io4`, `compupro-interfacer1`, `vector-bitstreamer*`, `vector-zcb`, `sd-sbc`, the TTY of `cromemco-fdc`) | the chips, the cards' masks, straps and jumpers, one deadline | programming, masking, RESET, RESTORE, the line | each card computes its next edge from enables of its own | pin 73 is right with nobody polling and no byte is lost |
| Modem (`boards/pmmi-mm103.cpp`, `host/modemline.*`) | hook, ring, carrier, Answer Phone, six timers behind one deadline | dial, answer, hang up, calls from outside, RESTORE | timers cancel one another while the guest and the far end move | no dead line is held for ever |
| FD177x on a VersaFloppy (`chips/wd17xx.*`, `boards/sd-versafloppy.*`, `boards/floppy-drive.*`) | a command, its phase and deadline, a buffer, DRQ and INTRQ, the latch, the drives | five ports, RESET, POWER, MOUNT, UNMOUNT | the guest may be late, wrong or absent, and the drive may change under a command | nothing hangs, no half sector is written, no loss goes untold |
| uPD765 on a Disk 1A (`chips/upd765.*`, `boards/compupro-disk*.cpp`) | command, buffer, four drives that seek, DMA counter, select register, motors | every command by DMA or by hand, Sense Interrupt, RESET, diskettes | seeks overlap transfers and report through four flags a drive; one deadline; IN and OUT inside a burst | a sector moves whole, a seek ends where it says, both wires are the chip's |
| Hard-sector cards (`boards/mits-hardsector.*`, `mits-88dcdd`, `mits-88mds`, `northstar-mds`, `vector-micropolis`, `core/spindle.cpp`) | the slot read, the slot being written, heads, motors, one deadline | select, step, load, read, write, MOUNT | the platter turns whether or not anybody looks; a slot is written when the head leaves it | a sector lands whole where it was armed, a read sees the sector under the head |
| Configuration (`core/value.*`, `core/board.*`, `config/toml.cpp`, `core/machine.cpp`, every card's properties) | each card's properties; the machine; the process's settings | SET, MOUNT, CONNECT, BOARDS, MACHINE, CONFIG SAVE and LOAD | a file is laid over its base table by table; properties check one another in the order they are set | a saved file loads to the same machine, and what is refused changes nothing |
| Snapshots (`core/statefile.*`, `core/machine.cpp`) | sections by board, what each card writes and reads | SNAPSHOT, RESTORE into a machine that changed, files that are old or cut | sections are matched by identity and length, board by board | a board is restored or the operator is told |

### How they meet

A processor runs bus cycles; the bus finds the card by its tables
(`DecodeCache`), the card's handler changes registers, says which pins it moved
(`Backplane`) and re-arms its one deadline (`EventQueue`).  After each
instruction the run loop (`RunLoop`) advances the clock, which calls the cards
back, lets DMA cards have the bus, and looks at the pins and at the reasons to
stop.  The MCP server (`McpSession`) and the command line drive the run loop in
slices.  The other modules are cards and processors with what is around them:
what they promise pins and clock is what the first modules take for granted.
Before any of this a machine is built (`Configuration`, `MachineFile`), and at
any moment it may be saved and restored (`Snapshots`).

### The parts that are not modelled

Parsers (TOML, JSON, expressions, command lines), disassemblers, terminals,
displays and sound, the platform layer and the arithmetic, video and calendar
chips are sequential and are tested by value.  The other FD177x cards, the
hard-disk cards, the front panel, the host bridge, the host streams behind a
card's line, the disk images' layout and the wall-clock governor are within
reach and in the plan.  `PROJECT.json` lists every part with its status.

### Hard behaviours

`PROJECT.json` lists 40 hazards, each at its line with the properties that cover
it.  The families:

* **bookkeeping without a recount**: pin counters, cached flags, page tables,
  handles -- one forgotten announcement is permanent;
* **re-entry**: a callback that schedules or cancels, an announcement that sets
  off announcements, a card that rewires the bus inside a cycle;
* **half an instruction**: a veto, its restore and its resume; an acknowledge
  of three cycles over two controllers;
* **one flag for everybody**: ^C and cancels, raised asynchronously, cleared by
  whoever begins a run;
* **nobody polls**: chips that must arm the right deadline or a guest waits for
  ever;
* **the ground moves**: drives deselected and diskettes swapped under a command,
  a platter that turns on, RESTORE and POWER at any moment;
* **the same thing three times**: instruction sets, DAA, signed order;
* **half-built machines**: files laid over bases, refused half way.

## 2. The modules

| Module | Models | Extends / uses |
|---|---|---|
| `Backplane` | `Bus` pins and `Board` flags, an 88-VI/RTC as the watcher | |
| `AlarmClock` | abstract: what a clock promises cards | |
| `EventQueue` | `Clock` and the cards' use of it; the mapping to the alarm clock | `AlarmClock` by INSTANCE |
| `DecodeCache` | `Bus::memRead` ... `ioWrite`, `rebuildDecode`, `peek`, PHANTOM* | |
| `Core_proof` | nineteen theorems, a refinement among them | `Backplane`, `EventQueue`, `DecodeCache`, `Snapshots` |
| `RunLoop` | `Debugger::run`, `serviceDma`, RUN and STEP of the monitor | |
| `RunLoop_proof` | one theorem | `RunLoop` |
| `McpSession` | the reader and the worker of `mcp/server.cpp` | |
| `McpSession_proof` | four theorems | `McpSession` |
| `SerialPort` | `Mc6850`, `TwoStageTx`, `Sio2Port` | |
| `SerialPort_proof` | four theorems | `SerialPort` |
| `FloppyController` | `Wd17xx`, `VersaFloppyBoard`, `DiskImageDrive` | |
| `FloppyController_proof` | four theorems | `FloppyController`, `SlotCards` |
| `CpuParts` | what the three cores share: registers, stack, memory through the bus | |
| `Cpu8080`, `Cpu8085`, `CpuZ80` | one opcode table each | `CpuParts` |
| `Processors` | the cores side by side, and one that is interrupted beside one that is not | the three by INSTANCE |
| `Intel8259a`, `Intel8253` | the chips as operators on their registers | |
| `InterruptChain` | the System Support 1 with its processor and the acknowledge cycles | both chips |
| `Uarts` | the 1602, the 8251 and the 5501 as operators | |
| `PmmiModem` | `ModemLine` and the MM-103's timers | |
| `SerialCards` | eight cards around those chips | `Uarts`, `PmmiModem` |
| `SerialCards_proof` | three theorems | `SerialCards` |
| `Upd765` | the controller and its drives as operators | |
| `FloppyDma` | the Disk 1A around it | `Upd765` |
| `FloppyDma_proof` | five theorems | `FloppyDma` |
| `HardSector` | the platter, the 88-DCDD and the 88-MDS | |
| `SlotCards` | the MDS-A, MDS-A-D and Micropolis on that platter | `HardSector` |
| `Chips_proof` | seven theorems | `InterruptChain`, `Processors` |
| `Settings` | what a property is: its checks, the setters' rules | |
| `IoCardSettings`, `CardSettings` | every card's properties, tables and media | `Settings` |
| `Configuration` | one card at the monitor | `CardSettings` |
| `MachineFile` | machine files, bases, SAVE and LOAD | `CardSettings` |
| `Snapshots` | SNAPSHOT and RESTORE of every card | |

`MC*.tla` give the constants values and, where one run looks at several parts,
put one of them at a time on a bench; each `.cfg` is one run.  Operators whose
name ends in `Mutant` stand before the definition they distort: they are the
plausible bug that shows a property can fail, and no specification uses them.

### Backplane

`req[b]` is what the registers of card *b* ask for, `wire[p]` the cards whose
cached flag says they pull pin *p*, `count[p]` the counter in the bus.  One
action per handler that can move a pin (`SetRequest`, `SetEnabled`, `Attach`,
`Detach`, the 88-VI's two port writes, RESET), each followed in the same step by
`Redrive`, which is `intChanged()` and its like with the re-evaluation of the
VI watchers they set off.  RESTORE is a pass over the cards and then a second
one: the invariants say what holds in between.

### EventQueue and AlarmClock

A queue entry is a pair of a moment and a handle, a live job a handle and its
owner; a cancelled entry stays in the heap.  `AdvanceBegin`, `Skip`, `Fire` and
`AdvanceEnd` are the turns of `Clock::advance`, so that callbacks interleave
with the rest.  A second clock models a machine being loaded beside the running
one, whose cards take their handles with them.  `AlarmClock` knows nothing of
heaps, tombstones or second clocks: a set of alarms, at most one a card, each
with a moment and a turn; the earliest rings, among equals the one set first.
The refinement mapping takes the live entries of the machine's heap, with their
handles as turns.  That callbacks fire at their moment and in order is part of
what refinement says.

### DecodeCache

A card is what its straps make it: the cycles it answers when PHANTOM* is high
and low, those for which it pulls PHANTOM*, and those it answers on its own
board.  Straps change between cycles and, by `Announced`, inside one.  The exact
resolution is an operator; the tables are state, filled by `Rebuilt`.
Assumptions taken from the code as a whole: no card honours PHANTOM* on port
cycles, and a card whose decode is not uniform over a page says so
(`decodeIsPageUniform`; the comment in `board.h:263` that no shipping card
overrides it is out of date: `tarbell.h:66`, `mits-turnkey.h:63`).  The
Turnkey's autostart counter moves without announcing; that is harmless only
because page 0 is kept off the fast path, and is not modelled.

### RunLoop

A guest is a record: a program from addresses to instructions, an instruction a
sequence of bus cycles after its fetch, with the machine around it and what the
operator does.  A cycle breakpoint may veto any cycle; the boundary snapshot and
the one-shot are `slot` and `skip`.  A veto restores the registers, not
`halted_`, the pending EI or the acknowledge in progress: with a card that drops
its request at the acknowledge (an 8259A) a vetoed acknowledge would not repeat.
`InstructionsAreWhole` is checked with cards that keep theirs and with
breakpoints whose cycle no committed write precedes; outside that the code
knowingly does something else (hazards list).

### McpSession

`reader` and `worker` are the two threads with the points at which each can be
overtaken; `stop` is the process-wide flag.  The kinds of request are the ones
the session treats differently: a run, a step, the start and the stop of a free
run, any other tool.  `dead` is the process killed by a second ^C.

### Processors

A core is a record, an instruction an operator on it, decoded as the source's
`switch` does.  Parts that are the same line for line in the three cores stand
in `CpuParts` once; what differs (flags, the holes of the 8080's opcode map, the
prefixes, the interrupt responses) stands in each.  A state of `Processors` is a
rig: two decimal numbers, two bytes to compare, a program of 8080 instructions on
all three, a Z80 instruction on HL beside its DD or FD form, or a core whose
lines move beside a twin whose lines do not.  T-states, bits 3 and 5 of F and WZ
are left out.

### Intel8259a, Intel8253 and InterruptChain

The chips are operators on their registers with the names of the source;
`InterruptChain` is the card, its `refresh()` (sample both controllers, announce
pin 73, arm one deadline), the processor's acceptance and the three acknowledge
cycles, with a rival card on the same pin.  The timer counts the bus's own clock,
of which a tick is several T-states.  A rig is what a guest programs and how its
handlers end.

### SerialPort

A card is a record: which channels it has, which are jumpered to pin 73, whose
modem pins are wired, character and bit times.  Transmitter deadlines are kept
as ages relative to now, so time needs no counter.  `Refresh` is the card's
`refresh()`: poll every channel, sample the pin, arm the earliest edge.

### Uarts, PmmiModem and SerialCards

The other chips are operators on a chip and its line; `SerialCards` gives each
card its registers, masks, straps and jumpers and one `refresh()` of the shape
all of them share.  A byte is its number on its line, a call its number.  The
modem is a 1602 behind `PmmiModem`, whose timers -- Clear To Send, the release
of Answer Phone, the handshake, the ring -- are moments from now.

### FloppyController

The chip's registers are one record; `todo` is what the access in progress has
still to do, alternately "run the loop" (`touch`, `poll`, `hold`, `due`) and
"serve the port".  One turn of the `while` in `Wd17xx::advance` is a step.
`timing` is fixed in a behaviour: "full" is the wait-synced chip (the default),
"real" the byte-timed one.  T-states are abstracted to the order of deadlines
and accesses, which is all the registers depend on.  Bytes are told apart by
origin: the diskette's, the guest's in the order loaded, a format's, and the
zeros the chip puts in a late guest's place.

Not modelled: density, sides, the index hole, deleted and damaged records, the
head-load output, `SET timing` during a command, RESTORE, and where the bytes of
a track lie in the image file.

### Upd765 and FloppyDma

Each access and each deadline begins with `Polled`: the drives step, a settled
head begins its command, a drive that came or went is noticed.  A granted DMA
cycle moves one byte and is a step of its own, so that IN and OUT at the prompt
may come inside a burst.  Bytes are known by their origin, moments are T-states
from now.  Terminal count, which no card drives, and deleted and damaged
records, which no image has, are left out.

### HardSector and SlotCards

The sector under the head and the byte in it are read off the clock.  The MITS
cards gather a slot and write it when the head leaves it; the North Star boards
take a write byte by byte in the sector it was begun in; the Micropolis writes at
the boundary.  Each access first looks whether the platter has turned on.  The
motors, settling times and the one deadline are there; READY held within an
access is not.

### Settings, CardSettings, MachineFile and Snapshots

A card is a function from the names of its properties to values; a row is a
property with its kind, range and step, and a setting has an outcome: whether it
was taken, and the card after it.  `Configuration` does to one card what the
monitor and its guest may do.  `MachineFile` reads a file as a sequence of
tables, finds its bases, applies one table after another and builds the machine
beside the live one, as `loadInto` does.  `Snapshots` writes each card as the
parts its `serialize` writes, each of a size and meaning of its own, and reads
them as its `deserialize` does, into a machine that may have other cards, other
straps or another memory.

## 3. The runs

| Run | Instance | States | Shows |
|---|---|---|---|
| `backplane` | a serial card (VI0, pin 73), a DMA disk (pHOLD, NMI*), an 88-VI on VI0, VI7 or neither | 553,805 | counters, flags and pins agree in every order of attach, enable, register moves, RESET and RESTORE |
| `event_queue` | two interchangeable cards, 3 T-states, delays up to 2, 4 handles | 142,026 | no deadline lost; refinement of `AlarmClock` |
| `decode_cache` | RAM, a boot card, a processor card; 2 pages, 3 addresses, 1 port | 168,924 | tables are exact whenever trusted; cycles from tables are exact; peek is what a read would see |
| `run_loop` | four guests: one polls an absent port between two HLTs beside a deck; three take interrupts and POP beside a DMA card, with breakpoints, the PC moved, the card switched off | 718,892 | whole instructions, one trap for each entry, ^C is heard, reasons are true, HLT ends |
| `mcp_session` | 3 requests of 5 kinds, a cancel, a status, a ^C, a queue of 1 | 723,242 | stops reach the right run, status is current, no starvation, every request answered |
| `processors` | every rig of `Processors`, and thirteen machines around a System Support 1 | 525,931 | DAA and compares exact, three processors agree, interrupts leave no trace; pin 73, end of interrupt, rises, latched counts |
| `serial_port` | a card of one channel whose modem pins are wired, one whose endpoint may be full, one of two channels | 113,247 | pin 73 at every T-state, two-stage transmitter, carrier loss remembered |
| `serial_cards` | an io4 three times, an Interfacer 1, a Bitstreamer II, an SBC, a ZCB, a 5501 twice, a modem three times | 219,422 | pin 73 with nobody polling, no byte lost, no dead line held |
| `floppy_controller` | a drive of 2 cylinders, 2 sectors of 2 bytes; 11 commands, two of them given, and one other intervention | 998,293 | a transfer is whole or its loss is told; a byte-timed command ends |
| `disk_cards` | eight rigs of a Disk 1A; MITS, North Star and Micropolis cards with 2 tracks of 2 sectors | 794,605 | transfers and slots are whole, seeks honest, wires and deadlines right |
| `configuration` | 53 types of card through 3 changes; 2-table files over every base, 2 edits; every saved card through 4 steps | 125,109 | files mean what they say, saved files load, refusals change nothing, RESTORE restores or tells |

One run is expected to fail, because the code does not keep what a comment of
the repository says: in `null_drive`, "a null drive is not an error and not a
crash", but the commit of a sector whose drive was deselected uses a null
pointer.

Two properties are conjunctions of what one run asks of a part.
`TransferIsWholeOrTold` of the floppy run: whatever is deselected, swapped, late
or interrupted, a sector holds what it held, a format's fill, or the guest's
bytes in order with the first of them there; and a gap in what the guest took,
or a zero in what it sent, shows as Lost Data until the next command.  (A guest
that never takes the *last* byte is not told; the chip's drain phase ends
without raising Lost Data, so the property counts a gap only when a later byte
is taken.)  `SavedFilesLoad` and `RestoredOrTold` name the exceptions they
admit: each is a place where the code loses something, and is in section 5.

### Why the bounds are enough

* *Backplane*: two drivers on a shared pin and one watcher are what double
  counting, a stale flag and a lost re-evaluation need; the pass of RESTORE
  meets each card before and after each other card.  The theorems cover the rest.
* *EventQueue*: a stolen cancel needs a handle re-issued after being kept across
  a POWER, RESTORE or change of machine: two cards and three handles do, one
  more is spare.  Ties, overdue entries and re-arming inside a callback need
  three T-states.  The theorems cover any number of cards and every bound.
* *DecodeCache*: one page with an address a card decodes apart, one without, and
  one port cover every kind of slot; the shadowing card makes PHANTOM* depend on
  the address inside a page.  The theorems cover the rest.
* *RunLoop*: a slice of one instruction puts a slice boundary everywhere; the
  guests have an instruction of every shape the code treats differently (plain,
  EI, HLT, port, two memory cycles, control transfer); the breakpoints are one
  for each kind of cycle.
* *McpSession*: a fault of one request on the next shows with two; the third lets
  the queue be full while one is served.  One cancel, one ^C and one status
  suffice because each is forgotten when a run begins.  The theorems cover any
  number.
* *Processors*: decimals take the digits at both ends and the middle, compares
  every byte about zero, sign and carry; a program of two instructions meets
  every flag one leaves and another reads; two-bit counters wrap within a rig.
* *InterruptChain*: four lines a controller are a cascade, a rival and two that
  nest and rotate; each rig asks one question.
* *SerialPort*, *SerialCards*: one byte typed beyond a full register, two
  characters of transmitter stages; each kind of wiring.  The theorems cover any
  number on a 6850.
* *FloppyController*: two bytes distinguish first, middle-missed and last; two
  sectors a multiple-record command that goes on and one that ends; two
  cylinders a step that moves and one that is stopped.  A second command finds
  what the first left (DRQ, conditions, direction, context), and one intervention
  hits every point of it.
* *FloppyDma*, *HardSector*, *SlotCards*: two units seek at once; two sectors and
  two sides end at each other, and a command may begin past its last sector; a slot
  has a byte that may be missed and one after it; time runs in the smallest ticks
  that keep the windows apart.
* *Configuration*: a coupling of two properties shows with two SETs and one more
  change; a table may come before, after and beside one of the same board; a
  snapshot meets a changed card, a changed place and a changed file.

Bounds are constants or conjuncts in guards: `MaxTime`, `MaxDelay`, `MaxHandle`;
`Toggles`, `Gestures`, `SliceSteps`, `StepMax`, `Burst` of a guest; `MaxRequests`,
`MaxCancels`, `MaxStatus`, `MaxSignals`, `MaxPending`, `MaxSlices`; `MaxTyped`,
`MaxWaiting`; `MaxCommands`, `MaxMoves`; `MaxPulses`; `Length`, `Nmis`; the
`bounds` of a serial rig, `gives`, `writes` and `hands` of a disk rig;
`MaxChanges`, `MaxEdits`, `MaxSteps`.  Registers keep their width or have a
smaller one as a constant (`ByteValues`, `ByteSize`), and wrap as in the code.

Deadlock is checked except where a rig may come to an end: in `run_loop` the
operator's gestures run out and the machine stands at the prompt; in the floppy
runs the process may be gone; in `processors` a program ends and a sum is done
in its first state; in `configuration` the allowance of changes is spent.

### Fairness

* `RunLoop`: WF of the loop's own steps (a loop that can go on does) and SF of
  each deadline (the clock advances with every instruction, so one that is armed
  again and again still comes).  Nothing is assumed of the operator.
* `McpSession`: WF of the reader's answers and hand-overs, of the worker and of
  the pacing tick; SF of a guest's run coming to its end, which the code ensures
  by the slice's bound on instructions.  Nothing is assumed of the client.
* `FloppyController`: WF of the access in progress (one call, run to its end)
  and SF of the deadline: the guest's accesses take time and the clock reaches
  the deadline however often it looks.  Nothing is assumed of the guest.
* `SerialCards`: WF of time passing and of the deadlines, which the clock calls
  once they are due.  Nothing is assumed of the guest or the far end.

The other modules state safety only and have no fairness.

## 4. The proofs

Assumptions are the `ASSUME`s of the modules -- finite sets of cards, pins apart
from each other, straps that are functions, positive character times -- and
nothing else.  Each module proves that its inductive invariant holds initially,
is kept by every action (a lemma for each action, a step for each conjunct it can
disturb) and implies the properties.

**Backplane.** The inductive invariant is `TypeOK /\ CountsRight /\ WiresHonest`.
The counters alone are not inductive (a counter moves by what the *flags* say)
and the flags alone are not (a watcher's flag depends on the VI mask, which is
computed from counters).  `CounterMoves` is the arithmetic: adding those that
newly pull and taking those that no longer do is the cardinality of the new set.
`RedriveHonest` says whom one announcement makes honest.  Each action is then
one lemma; RESTORE's second pass shrinks the set of cards still to be visited,
over which honesty is suspended.  The wire-OR and the path of a VI request to
pin 73 follow.

**EventQueue.** `QueueTypeOK /\ Numbered /\ CancelIsMine /\ NoOrphanDeadline /\ AllArmed
/\ NothingOverdue`.  `CancelIsMine` is not inductive: a re-arm takes the next
number, which must be nobody's.  `Numbered` says that every entry and every job
has a number already given out, the types say the same of what cards hold, and
RESTORE keeps the higher of two counters; so the next number is fresh.  With
`NoOrphanDeadline` a card's cancel then removes exactly its own job, and
`AllArmed` (what a card holds is live, with one entry in the heap, unless POWER
or RESTORE still owes the card a visit) survives other cards' steps.  `Refreshes`
is the one lemma about `refresh()`, used alike by a port access, a callback and a
visit; each other action is a lemma.  Nothing is overdue because an advance ends
only when the front of the heap is later than its target, and a re-arm asks for
a moment strictly in the future.

*The refinement*, `QueueIsAnAlarmClock`, is `QueueSpec => ImplementsAlarmClock`.  It
needs `InTime` besides: while the queue drains nobody awaits a visit, time has
not passed the target, and no live entry lies before the present -- so that the
entry in front, when it fires, is the abstract clock's first alarm and time stops
at it.  `AlarmsAre` says what the mapping makes of heap and jobs,
`RefreshResets` that a card's refresh is the abstract `Reset` (its new handle is
higher than every other, hence the last turn), `AlarmsStay` and `NoAlarms` serve
the invisible steps and the wipes, `FireRings` the callback; `StepMaps` puts one
step of the queue against one or none of the clock.  Nothing is proved of
liveness, and the alarm clock promises none.

**DecodeCache** (in `Core_proof`). `DecodeTypeOK /\ TablesAreExact /\ CycleIsExact`.  `UniformResolve` is
the heart: on a page all of whose cards are uniform, resolving the page's base
address resolves every address of it; `RebuiltIsExact` uses it for the tables and
`SettledSame` shows that rewiring inside a cycle marks the tables dirty before
any later cycle reads them.  `PeeksAreReads` follows from the same invariant:
where the tables are trusted the peek and the read find the same slot, and where
they are not both scan the same cards.

**Snapshots** (in `Core_proof`). `SnapTypes /\ RestoredOrTold`.  Three facts carry
it.  `StatesBegin`: every board's state begins with whether it is enabled, and one
type alone has banks; that is read off the sixty compositions of `StateOf`.
`ReadIsBack`: a part read from a section of its type is what was saved if and only
if it is none of the exceptions `Deviates` lists, kind of part by kind of part.
`NamesDiffer`: the names of a machine's boards tell them apart, so that a board
finds at most one section, what RESTORE names is what it did not read, and what
is armed under a name is what that board armed.  The proof found the property
wrong beyond the run's bound of four steps: a bank card read from a section of
*fewer* banks keeps what it had in the others, and no size says so, after a RESTORE
that did not fit has mixed them.  `Deviates` now has that case.

**RunLoop.** `StopsAreHonest` compares what a run says with what happened.  Each
latch behind a reason needs a witness in the history of the command: `Asked` (the
stop flag is up from ^C on, and until the run is told the guest gets at most one
instruction), `Caught` (a DMA cycle that met a breakpoint is behind the hit, and
the run cannot end by its steps), `Missing` and `Marked` (the halt of an unclaimed
port, the edge of the deck), `Halted` (the machine was at rest when the run said
so).  `VerdictHolds` is about the order of the tests: the verdict is the first
that holds, so what comes before it did not.

**McpSession.** `InOrder` says where every request is -- answered, in hand, queued,
with the reader -- and that this is the order sent; `Meant` that a raised flag
belongs to the request in flight; `Heard` that a cancelled run has the flag to
find until it has found it; `Published` that the snapshot follows the free run;
`Owed` that a slice which is due waits for one request at the most.  Without
`InOrder` a cancel could not be tied to the request in flight, and without `Meant`
the flag a run finds could be an older one's.

**SerialPort.** `TypeOK /\ Driven /\ Stages /\ Latched`.  `Driven`: the pin is
the OR of the chips' requests, no enabled receive interrupt is overdue, and the
armed deadline is no later than any edge.  `Stages`: the three transmitter
deadlines add up to the characters waiting.  `Latched`: a loss the guest is owed
is latched, interrupting, and not yet acknowledged.  Lemmas follow the code's
own layers: one look at one line (`Samples`, `Polls`, `Looks`), the minimum
(`Earliest`), one card (`Refreshes`), the transmitter's arithmetic (`Writes`,
`Ticks`, `Agrees`), one lemma for each action.

**SerialCards.** `CardTypes /\ (~Due => Told) /\ Streams`, for every card but the
PMMI, whose handlers the invariant leaves alone.  Every handler ends in
`Refresh`, so `Lands` shows once what a handler leaves: the pin is what the
registers ask for, a poll of a watched chip would find nothing (`Settled`), and the
deadline is no later than the first moment that is ahead.  `Told` needs all three,
since the pin alone is not inductive: time must move nothing before the deadline
(`Ages`, chip by chip, and `PassKeeps`).  `Streams` says that what a chip holds and
its line are the bytes after the last one seen, in order; `Polls` moves a byte from
the line to the chip, which needs `OneByte` -- an 8251 shifts in no byte while it
holds one, or the sum of the two would be out of order.  A handler that keeps the
bytes is one line more (`KeepsBytes`); reads, resets, arrivals and a RESTORE say
what they do to the count (`ReadFollows`, `ResetFollows`, `ArrivalFollows`).  The
assumption on a rig is that its chips are as the constructors make them, that its
jumpers run from sources there are (a parallel latch has no transmitter), and that
its bounds are numbers.

**FloppyController.** `Kept /\ Woken /\ Sound`.  A sector is whole because of what
the buffer is *while* it fills: `Asks` says that a writing chip's buffer is the
record of what the guest loaded since it was asked, in order, from its first
byte, with zeros only where Lost Data is up.  `Owed` says that the byte on offer
of a reading chip is the one after the last the guest took, unless Lost Data is
up.  `Told` carries both past the end of the command, `Unloaded` says that a chip
which has not asked yet has not been loaded, and `Woken` is about the wait-synced
timing alone: a deadline that comes over an untaken byte is a Write Track's, the
only command that may lose one there.  The lemmas are about records
(`RecordStarts`, `RecordLoads` and the like), then the chip's operators one by
one, then the actions.

**InterruptChain.** `Surroundings /\ Chips /\ Sharp /\ Nesting /\ Freezing`; the
first two are the types.  `Sharp`: the pin is right (`PinIsHonest`), the deadline
is no later than any edge (`Armed`), the slave has seen the lines it listens to
(`UpToDate`), and no rise is lost (`RiseIsLatched`).  Neither property is
inductive alone: a T-state on which the deadline is not due must move no line
the slave listens to (`TickQuiet`), which needs `Armed`, which needs to know of
every mode of a counter that its next change of OUT comes one edge nearer with
each edge and that OUT changes at no other (`EdgesCount`); a rise seen later
than it happened would find no edge, hence `UpToDate`.  `Nesting`: of two levels
in service the newer has the higher priority (`Ranked`).  That a non-specific end
takes the newest is a corollary; that a rotation keeps it so is `RankTurns`, the
arithmetic of priorities modulo the number of levels.  `Freezing`: a latched
count that is owed to the guest is still latched, and the low byte is due first.
That nobody is served who did not ask (`NoneIsPhantom`) follows from the honest
pin and `Acks`, which says what the three acknowledge cycles come to.  The
assumptions on a rig are that it is wired with lines and programmed with words
there are, and that a guest which relies on its handlers nesting starts with
nothing in service and does not set priorities by hand.

**Processors.** `ArithmeticIsExact` is about a moment, the end of a program of one
instruction or two, and so is its inductive invariant `RigRuns`: the cores are
what they were at the start, one step on, or two.  The rest is computation, laid
out as the cores are: a step that no interrupt can reach is a fetch and one
instruction (`I80Runs`, `I85Runs`, `Z80Runs` and, behind a prefix, `Z80RunsWide`);
an addition leaves the sum, its carry and its half carry (`I80Sums` and the like),
from which DAA corrects A by digits (`Corrected`); a subtraction leaves a borrow
and a zero that are the unsigned order, and K on the 8085, S against P/V on the
Z80, that are the signed one (`Ordered`, `Tells`, `Signs`).  What is left is
arithmetic: that the correction of a packed sum is the packed sum is two digits
and their carries (`SumsRight`, `DifferencesRight`), and that the sign of a
difference with its overflow is the signed order is a statement about the two
signs (`OverflowOrders`).  A word is compared by its bytes, the high one with the
low one's borrow, by DSUB on the 8085 (`I85Compares2`) and SBC HL on the Z80
(`Z80Compares2`).  The run looks at 36 of the decimals, 42 of the bytes and 18 of
the words; the theorem is about every pair of each.

**FloppyDma.** `Sane(Machine) /\ Awaited /\ WiresAgree /\ MotorStops /\
TrustIsEarned`.  `Sane` is what an operation of the chip finds: a busy unit, or one
whose seek has ended, has a seek or a status pending (`Sought`), and a command in
execution has a byte to move (`Ordered`).  `WiresAreTheChips` is not inductive
alone, since a T-state that fires no deadline must bring no step due: `Awaited`.
Every operation ends in `Refresh`, after which nothing is due (`PolledSettles`)
and the deadline is the least of what is to come (`RefreshSettles`).  For
`SeeksAreHonest` the count must follow the head through a pulse, which moves both
or neither -- but for a recalibration and a seek past the last cylinder, where
the head stops at the end of the drive and the chip counts on.  So a unit is
`Trusted` while its count is true and it runs for no end; the command that
begins a seek leaves it `Leaving`, with its first pulse to come; and a
recalibration that reports track 0 has made the count true (`Recovered`).
`Keeps` says what every other operation keeps of the three, unit by unit,
`Older` that a T-state takes trust from nobody, and `CalibrationsEarned` puts
them together for the history variable.  The cable is in it because crossed
units step each other's drives.

`TransferIsWhole` speaks of the result phase; `JobOK`, with `IInv` its inductive
invariant, says of every moment before how far an undisturbed transfer has got:
`At` K whole sectors and n bytes of the next, which is `Waiting` for its heads,
`Inside` a sector, `Between` two or `Over`; and `RightAt`, that the sectors passed
are the first K of those asked for (`Present`), that they and the n bytes agree
with the memory (`Whole`, `Part`), that everything else is as it was (`Untouched`)
and that the counter stands behind the bytes moved.  `ReadLands`, `WriteLands` and
`NextByteLands` take a byte, `PolledAt` and `AtSteady` say that a poll, a seek of
another unit or a T-state leave the place alone.  That a later sector does not
overwrite an earlier one is `PlacesDiffer`, the arithmetic of `Asked`; that a later
byte does not, in the memory, is `StoreIsFresh`, which needs the bytes to fit.  The
proof found the property false beyond the commands the run gave: a command whose R
is past its EOT asked for nothing by the old definition, and the chip, which looks
for R = EOT only (`upd765.cpp:583`), goes on sector by sector to the end of the
track; and a read of more than the memory overwrites its own first bytes.  Both
are in the property now, the first in the run too.

**HardSector and SlotCards.** The five cards hold a slot of a disk they may lose at
any moment; the inductive invariant `SlotInv` is `MitsInv` or `ScInv`, after the
family of the card on the bench, and no step leaves the family.

`MitsInv` has the two slots: the one read (`SlotRead`) is of the disk and the track
under the head or is forgotten, the one being written (`Arms`) is the last
write's and goes where that was armed or to no disk; `Whole` explains every shelf
by the writes so far.  It is inductive because whatever moves the head, chooses
another drive or changes a disk flushes the second and forgets the first *before*
it does (`FlushKeeps`, `SelectKeeps`, `HeadKeeps`, `MountKeeps`).

A North Star board finds out what the platter did when it is next looked at.  So
`NsRead` and `NsArms` speak of what the card believes -- the sector it loaded or
began to write is under the head -- only as long as no hole has gone by unseen, and
`NsTickKeeps` is the lemma that a look ends the sector before anything else when
one has.  A write the head left is then nowhere, and one it did not leave is whole
in its place.

A Micropolis board writes at the boundary, wherever the head is then.  `VgArms`
says that the head stands where the write was begun (`Stands`) unless the record
says that it left; `VgCache` that the slot kept is the one its key names, which a
write through another key would falsify if a disk were in two drives (`Unique`);
`VgWake` is `PulseIsAwaited`, which `EndWriteKeeps` and `VgTickKeeps` need.

The platter's arithmetic -- a tick is in the same sector or in the next -- is
`TurnsOn`; the assumptions added for it are that a sector is no longer than the
North Star's own pulse (`HsSectorTicks <= FreeTicks`: 20 ms against the 32768 us of
`northstar-mds.cpp:38`) and that a rig's commands name drives and sides there are.

### What is only model-checked, and why

* Liveness -- `HaltEnds`, `EveryRequestAnswered`, `CommandsEnd`,
  `NobodyHoldsADeadLine` -- is beyond this prover.
* `InstructionsAreWhole` compares an instruction with a run of it by a recursive
  function over its cycles; what such a function computes needs induction over
  data, which the provers cannot instantiate.  So do `OverlayIsExact` and
  `SavedFilesLoad`, over tables and rows, and `MachineFile` declares a `RECURSIVE`
  operator besides, without which a chain of bases cannot be written shortly.
* `ProcessorsAgree` and `InterruptLeavesNoTrace` are about every opcode of three
  tables side by side; a proof would be a case for each, and TLC runs them instead.

## 5. Notes on the code met on the way

Machine files that cannot be read back (`SavedFilesLoad` names each):

* The serial and parallel ports of a Vector ZCB, or of an 88-UIO, swapped by three
  SETs are saved in an order in which the second is refused
  (`vector-zcb.cpp:223`, `mits-88uio.cpp:108`).
* A bank card's window set as `vector` survives `card=northstar` and its saved form
  is refused; `ram` is saved truncated, or as 0 (`bankmem.cpp:630`); more than four
  banks of an `expandoram2` are refused again (`bankmem.cpp:774`).
* `stop="mm:ss"` of a cassette is saved and its tape is not
  (`cassette-board-base.cpp:301`, `proctech-sol.cpp:742`).
* An SSM PB1 whose PROM was unmounted is saved with an empty mount
  (`ssm-pb1.cpp:315`); SET of an SBC's `rom_size` or `bank` moves its sockets
  (`sd-sbc.cpp:395`); MOUNT past FFFF is taken and not read back
  (`s100-memory.cpp:646`); the sections of an 884-PIO above `ports` keep a
  connection that is not saved.
* The 5501's baud getter and setter differ at high baud (`tms5501.cpp:349`).
* `readonly` and `create` are words, and `unit` a decimal, in five cards whose
  other values are parsed as values are elsewhere (`mits-hardsector.cpp:798`).
* With `drives=1` the range of `unit` is 0..0, which means "no range", and a unit
  past the last indexes past the vector (`value.cpp:186`, `northstar-mds.cpp:854`).
* Two units may hold the console after `SET connect=console`
  (`monitor.cpp:4189`), which a file may not say.
* CONFIG LOAD builds the new machine while the live one still listens, so a file
  with a socket is refused in the process that saved it; and a load refused late
  has already truncated a capture file (`endpoint.cpp:635`, against
  `monitor.cpp:6425`).
* `[console]` and `[display]` above `base=` are overridden by the base
  (`toml.cpp:451`); a startup line with `]` ends the array early (`toml.cpp:176`);
  `saveToml` does not look whether it could write.

RESTORE (`RestoredOrTold` names the cards):

* A bank card takes RAM of another size (`bankmem.cpp:516`), and keeps what it had
  in the banks a shorter section does not reach (`bankmem.cpp:515`); the selected drive of
  hard-sector and Cromemco cards is not clamped (`mits-hardsector.cpp:464`,
  `cromemco-fdc.cpp:874`); the 88-C700's pending acknowledge and a cassette's mark
  are lost; video memory of another size is passed over in silence.
* Boards are read one by one, so a System Support 1 may sample VI lines of boards
  that come later.

The run loop and its drivers:

* Under contention `peek` may be answered by a second card when the first has no
  peek; `PeekIsRead` is stated for what a read would see on an uncontended cycle.
  `lastContended()` is stale after a cycle served from a table (`bus.cpp:637`).
* `STEP n` clears the stop request before each instruction, so a ^C between two
  of them is erased (`cli/monitor.cpp:5588`).  IN and OUT at the prompt arm the
  halt of an unclaimed port (`bus.cpp:196`).
* A cancel of any request served beside a free run ends the free run
  (`mcp/server.cpp:2433`), where `docs/DRIVING-WITH-AI.md:413` lists what ends it.
* The first ^C after a cancel nobody consumed kills the process, because both
  raise the same flag (`core/debug.cpp:40`).
* BREAK TAPE STOP misses a mark the deck reaches in the pump between two slices
  (`debug.cpp:511`).  A card disabled with its bus request up is granted the bus
  when another card asks (`debug.cpp:443`).

Processors and the interrupt chain:

* EI directly followed by DI leaves interrupts enabled (`cpu8080.cpp:643`); the
  pair is left out of the interrupt rig.  INI and its kin repeat their read on a
  veto (`cpuZ80.cpp:1105`).
* A vetoed acknowledge leaves `intFetch_` set; with an 8259A whose request has gone
  the resumed instruction is RST 7 with the level in service.
* The slave's INT and edge-triggered VI lines are sampled at `refresh()` only
  (`compupro-ss1.cpp:347`); the default level 7 cannot be reached through the card.

Chips and disks:

* DRQ survives a Force Interrupt; documented in `chips/wd17xx.cpp`.  Seek with a
  load moves no head (`wd17xx.cpp:940`).  A layout is written before its data
  (`floppy-drive.cpp:199`).
* uPD765: a write that finds no next sector has taken a byte for it; a Recalibrate
  cut short by a Seek leaves the cylinder and the head apart; a diskette swapped in
  mid-seek clears the busy flag (`upd765.cpp:367`).
* MITS `write()` never looks where the platter is (`mits-hardsector.cpp:259`); the
  side bit of an MDS-A-D in mid-sector serves the old buffer (`northstar-mds.cpp:366`);
  MOUNT on a Micropolis re-arms nothing (`vector-micropolis.cpp:285`).
* Modem: it may ring after the far end has hung up (`modemline.cpp:112`); a redial
  within a second and a half is cut off by the old release of Answer Phone; a
  caller that is not answered and has sent bytes keeps it ringing.
* RESET and POWER never clear the SBC's CTC (`sd-sbc.cpp:258`), nor the 8085's TRAP
  latch.

## 6. The plan

Done: the modules of section 2; proofs of `Backplane`, `EventQueue` with its
refinement, `DecodeCache`, `RunLoop`, `McpSession`, `SerialPort`,
`SerialCards`, `FloppyController`, `InterruptChain`, `FloppyDma`, `HardSector`,
`SlotCards`, `Snapshots` and the arithmetic of `Processors`.

Next modules: the other FD177x cards as compositions of `FloppyController`; the
hard-disk cards; the host streams (tee, mirror, telnet negotiation) and TNFS with
its retries; the host bridge's protocol; the bus clock and the governor as
functions over bounded integers.
