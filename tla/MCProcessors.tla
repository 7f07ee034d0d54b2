---------------------------- MODULE MCProcessors ----------------------------
(***************************************************************************)
(* The rigs of Processors, and the interrupt system of a System Support 1  *)
(* around one processor: controllers of four lines, a counter of two-bit   *)
(* counts.  One rig for each question, one of the two on the bench.        *)
(***************************************************************************)
EXTENDS Processors, InterruptChain

VARIABLE bench

\* Every pair of digits from both ends and the middle.
MCDecimals == {10 * tens + ones : tens, ones \in {0, 1, 4, 5, 8, 9}}
\* The bytes about zero, the sign and the carry.
MCSamples == (0..9) \cup {15, 16, 85} \cup (120..136) \cup {170, 240} \cup (246..255)
MCWords == {0, 1, 15, 16, 255, 256, 257, 4095, 4096, 32512, 32767, 32768, 32769, 33024,
            65279, 65280, 65534, 65535}

\* A and the pairs at their edges, HL where there is no program.
MCFiles == {File(255, 65535, 32768), File(154, 4096, 8191)}
MCOperands == << <<127, 128>>, <<15, 64>> >>
MCEnds == {8192, 8193, 8194, 65534, 0}
MCCounts == 1..3
MCOffsets == {0, 5, -1}

\* INR A, PUSH B, POP B, EI, DI, HLT.
MCChores == {60, 197, 193, 251, 243, 118}
-----------------------------------------------------------------------------
MCTimerIr == [n \in {0} |-> 1]

\* A cascade, initialized with ICW1 to ICW4 and all lines unmasked.
Cascade(ltim) ==
  PicWritten(PicWritten(PicWritten(PicWritten(PoweredPic,
    Icw1(ltim, FALSE, TRUE)), Data({})), Data({})), Data({}))

Eoi == Ocw2("eoi", 0)

Plain ==
  [start |-> Cascade(TRUE), toMaster |-> {Eoi}, toSlave |-> {}, modes |-> {}, counts |-> {},
   code |-> {"ei"}, vi |-> {}, int |-> FALSE, ownVi |-> {}, rival |-> "none", serial |-> FALSE,
   nested |-> TRUE, resets |-> FALSE]

\* From power-on, through the initialization words.
Cold == [Plain EXCEPT !.start = PoweredPic, !.resets = TRUE, !.vi = {0},
                      !.toMaster = {Icw1(TRUE, FALSE, TRUE), Icw1(FALSE, TRUE, FALSE),
                                    Data({}), Data({1}), Eoi}]

\* Handlers that nest: three VI lines, every order of acknowledging and ending.
Nested == [Plain EXCEPT !.vi = {0, 1, 2}, !.code = {"ei", "di"},
                        !.toMaster = {Eoi, Ocw2("rotate_eoi", 0), Ocw2("specific_eoi", 1)}]

\* The priorities set by hand.
Turned == [Plain EXCEPT !.vi = {0, 1}, !.nested = FALSE,
                        !.toMaster = {Ocw2("set_priority", 0), Ocw2("rotate_specific", 1), Eoi,
                                      Ocw3("isr", "on"), Ocw3("keep", "off"), Data({1})}]

\* The timer and the channel behind the slave.
Timed(ltim) ==
  [Plain EXCEPT !.start = Cascade(ltim), !.toSlave = {Eoi, Data({}), Data({1})},
                !.counts = IF ltim THEN {0, 1} ELSE {1},
                !.modes = IF ltim THEN {<<"lsb", 0>>, <<"msb", 2>>}
                          ELSE {<<"lsb", 0>>, <<"lsb", 3>>, <<"lsb", 4>>}]
Serial(ltim) ==
  [Plain EXCEPT !.start = Cascade(ltim), !.toSlave = {Eoi, Data({}), Data({2})},
                !.serial = TRUE, !.code = {"ei", "hlt"}]

\* Counts read while the counter runs.
Reading == [Plain EXCEPT !.modes = {<<"both", 0>>, <<"both", 2>>, <<"both", 5>>}, !.counts = {0, 1},
                         !.toMaster = {}, !.code = {}]

\* Another card on pin 73, and the channel's own jumper.
Rival(kind) == [Plain EXCEPT !.rival = kind, !.vi = {1}, !.resets = (kind = "bare")]
Jumpered(int, own) ==
  [Plain EXCEPT !.int = int, !.ownVi = own, !.serial = TRUE, !.toSlave = {Eoi, Data({2})}]

MCRigs == {Cold, Nested, Turned, Timed(TRUE), Timed(FALSE), Serial(TRUE), Serial(FALSE), Reading,
           Rival("front"), Rival("behind"), Rival("bare"), Jumpered(TRUE, {}), Jumpered(FALSE, {1})}
-----------------------------------------------------------------------------
NoProcessor == rig = [kind |-> "none"] /\ cpu = <<>> /\ seen = <<>>

BenchInit ==
  \/ bench = "processors" /\ Init /\ ChainInit /\ system = Nested
  \/ bench = "interrupts" /\ NoProcessor /\ ChainInit
BenchNext ==
  /\ UNCHANGED bench
  /\ \/ bench = "processors" /\ Next /\ UNCHANGED chainVars
     \/ bench = "interrupts" /\ ChainNext /\ UNCHANGED vars
BenchSpec == BenchInit /\ [][BenchNext]_<<bench, vars, chainVars>>

\* A program does the same on the three processors, and a prefixed instruction with an index
\* register what the plain one does with HL.
ProcessorsAgree == OneProgramThreeProcessors /\ IndexIsHL
=============================================================================
