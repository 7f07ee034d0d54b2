--------------------------- MODULE IoCardSettings ---------------------------
(***************************************************************************)
(* The settings of the processor, serial, parallel, tape and clock cards:  *)
(* the rows each lists, its own rows first and then those of each unit, in *)
(* the order a machine file is written in, and the setters that do more    *)
(* than store.                                                             *)
(***************************************************************************)
EXTENDS Settings

Bauds == <<"110", "150", "300", "600", "1200", "2400", "4800", "9600">>
Parities == <<"none", "odd", "even">>
Bits == <<"none", "0", "1", "2", "3", "4", "5", "6", "7">>

(* The rows of the chips, which a card lists under the unit the chip serves. *)
AciaRows == <<Num("baud", 50, 76800, 9600), Strap("interrupt"),
              Pick("dcd", <<"ground", "wired">>, "ground"),
              Pick("cts", <<"ground", "wired">>, "ground"), Line("connect")>>
Usart8251Rows == <<Num("baud", 50, 76800, 9600), Strap("interrupt"), Line("connect")>>
Uart2651Rows  == <<Num("baud", 50, 19200, 9600), Strap("interrupt"), Line("connect")>>
BitLineRows   == <<Num("baud", 50, 115200, 9600), Line("connect")>>
SwitchedRows  == <<Pick("baud", Bauds, "9600"), Line("connect")>>
Tty5501Rows   == <<Num("baud", 0, 76800, 9600), Text("rate", <<"full", "real">>, "full"),
                   Pick("dcd", <<"ground", "wired">>, "ground"),
                   Pick("cts", <<"ground", "wired">>, "ground"), Line("connect")>>

(* The 5501 shows the rate the line runs at, and takes the rate its register *)
(* would select, which its HBD bit (the guest's) multiplies by eight.        *)
Times(hbd) == IF hbd THEN 8 ELSE 1
Tty5501Set(s, k, v) ==
  IF k = "tty.baud" THEN Stored(s, k, v * Times(s.hbd)) ELSE Stored(s, k, v)
GuestSelects(s, rate, hbd) == [s EXCEPT !["tty.baud"] = rate * Times(hbd), !.hbd = hbd]

-----------------------------------------------------------------------------
(* Processors, and the front panel. *)
CpuRows(clock) == <<Num("clock_hz", 0, 100000000, clock), Flag("idle", TRUE)>>
PanelRows == <<Num("sense", 0, \hFF, 0)>>

(* The serial cards. *)
Sio2Rows == <<Num("port", 0, \hFC, \h10)>> \o Under("a", AciaRows) \o Under("b", AciaRows)

FrameRows(baud) ==
  <<Num("baud", 50, 25000, baud), Num("data_bits", 5, 8, 8), Num("stop_bits", 1, 2, 1),
    Pick("parity", Parities, "none")>>
SioRows(port, baud) ==
  <<Step("port", 0, \hFE, 2, port), Pick("rev", <<"0", "1">>, "1")>> \o FrameRows(baud)
    \o <<Strap("in_int"), Strap("out_int"), Line("connect")>>

BitstreamerRows == <<Step("port", 0, \hFC, 4, 0)>> \o Under("serial", SwitchedRows)
Bitstreamer2Channel == <<Pick("baud", Bauds, "9600"), Strap("rx_int"), Strap("tx_int"),
                         Line("connect")>>
Bitstreamer2Rows ==
  <<Slot("port", \h02, \h72, \h10, 2, \h02), Strap("clock_int"),
    Pick("j4_d0", <<"open", "clock-latch">>, "open")>>
    \o Under("a", Bitstreamer2Channel) \o Under("b", Bitstreamer2Channel)
    \o Under("c", Bitstreamer2Channel)

InterfacerBauds == <<"50", "75", "110", "134.5", "150", "300", "600", "1200", "1800", "2000",
                     "2400", "3600", "4800", "7200", "9600", "19200">>
InterfacerChannel(port) ==
  <<Step("port", 0, \hFE, 2, port), Flag("enabled", TRUE), Pick("baud", InterfacerBauds, "9600"),
    Pick("data_bits", <<"7", "8">>, "8"), Pick("parity_sense", <<"odd", "even">>, "odd"),
    Pick("parity", <<"on", "off">>, "off"), Pick("stop_bits", <<"1", "2">>, "1"),
    Pick("ca", <<"spacing", "marking">>, "spacing"), Pick("cd", <<"spacing", "marking">>, "spacing"),
    Pick("tx_int_enable", <<"off", "on">>, "off"), Pick("rx_int_enable", <<"off", "on">>, "off"),
    Pick("opt", <<"cf", "eoc">>, "cf"), LevelOnly("rx_int"), LevelOnly("tx_int"),
    Line("connect")>>
InterfacerRows == <<Flag("swap_ports", FALSE)>> \o Under("a", InterfacerChannel(0))
                    \o Under("b", InterfacerChannel(2))

PmmiRows ==
  <<Step("port", 0, \hFC, 4, \hC0), Line("connect"), Text("dial", <<"", "host">>, ""),
    Text("answer", <<"", "2323">>, ""), Flag("rtsdtr", FALSE), Flag("telnet", TRUE)>>

-----------------------------------------------------------------------------
(* The IO-4.  A profile is a set of straps: the row shows the profile the    *)
(* straps make up, or "custom", and setting it sets them.                    *)
Io4Straps(dav, ror, rpe, rfe, teoc, tbmt, inv, rev) ==
  [stat_dav |-> dav, stat_ror |-> ror, stat_rpe |-> rpe, stat_rfe |-> rfe,
   stat_teoc |-> teoc, stat_tbmt |-> tbmt, invert_status |-> inv, port_reversal |-> rev]
Io4Profiles ==
  [altair_rev1 |-> Io4Straps("0", "none", "none", "none", "none", "7", TRUE, FALSE),
   altair_rev0 |-> Io4Straps("5", "none", "none", "none", "none", "1", FALSE, FALSE),
   i8251       |-> Io4Straps("1", "4", "3", "5", "2", "0", FALSE, FALSE),
   proctech    |-> Io4Straps("6", "none", "none", "none", "none", "7", FALSE, FALSE),
   imsai       |-> Io4Straps("1", "none", "none", "none", "none", "0", FALSE, TRUE)]

Io4Channel ==
  <<Pick("profile", <<"custom", "altair_rev1", "altair_rev0", "i8251", "proctech", "imsai">>,
         "altair_rev1"),
    Pick("stat_dav", Bits, "0"), Pick("stat_tbmt", Bits, "7"), Pick("stat_teoc", Bits, "none"),
    Pick("stat_ror", Bits, "none"), Pick("stat_rpe", Bits, "none"), Pick("stat_rfe", Bits, "none"),
    Flag("invert_status", TRUE), Flag("port_reversal", FALSE), Strap("rx_int"), Strap("tx_int")>>
    \o FrameRows(9600) \o <<Line("connect")>>
Io4Parallel == <<Line("connect"), Pick("dav_bit", Bits, "none"),
                 Pick("dav_source", <<"self", "sibling">>, "self"),
                 Flag("dav_active_low", FALSE), Strap("int")>>
Io4Rows ==
  <<Step("port", 0, \hFC, 4, 0), Step("par_port", 0, \hFE, 2, 4)>>
    \o Under("a", Io4Channel) \o Under("b", Io4Channel)
    \o Under("pa", Io4Parallel) \o Under("pb", Io4Parallel)

\* The straps of a profile, put into the rows of a channel.
Strapped(s, ch, p) ==
  [k \in DOMAIN s |->
     IF \E n \in DOMAIN p : k = ch \o n THEN p[CHOOSE n \in DOMAIN p : k = ch \o n] ELSE s[k]]
Io4Made(s, ch) ==
  LET fits == {n \in DOMAIN Io4Profiles :
                 \A k \in DOMAIN Io4Profiles[n] : s[ch \o k] = Io4Profiles[n][k]}
  IN  IF fits = {} THEN "custom" ELSE CHOOSE n \in fits : TRUE

Io4Set(s, k, v) ==
  IF k \in {"a.profile", "b.profile"} /\ v # "custom"
    THEN Taken(Strapped(s, IF k = "a.profile" THEN "a." ELSE "b.", Io4Profiles[v]))
  ELSE IF k \in {"a.profile", "b.profile"} THEN Taken(s)
  ELSE Stored(s, k, v)
Io4Written(s, k) == CASE k = "a.profile" -> Io4Made(s, "a.")
                      [] k = "b.profile" -> Io4Made(s, "b.")
                      [] OTHER -> s[k]

(* The generic serial cards.  Their profile is kept as it was set: a row    *)
(* changed after it does not change its name, and a file says it first.     *)
SerialStraps(status, data, dav, tbmt, inv) ==
  [status_port |-> status, data_port |-> data, dav |-> dav, tbmt |-> tbmt,
   inverter_gate |-> inv]
SerialBuiltins ==
  [sior1 |-> SerialStraps(0, 1, 0, 7, TRUE), sior0 |-> SerialStraps(0, 1, 5, 1, FALSE),
   tuart |-> SerialStraps(0, 1, 6, 7, FALSE), imsai_sio2 |-> SerialStraps(3, 2, 1, 0, FALSE),
   compupro_if2 |-> SerialStraps(1, 0, 1, 0, FALSE),
   compupro_ss1 |-> SerialStraps(\h5D, \h5C, 1, 0, FALSE)]
StrapChannel(profile, is) ==
  <<Pick("profile", <<"custom", "sior1", "sior0", "tuart", "imsai_sio2", "compupro_if2",
                      "compupro_ss1">>, profile),
    Num("status_port", 0, \hFF, is.status_port), Num("data_port", 0, \hFF, is.data_port),
    Num("dav", 0, 7, is.dav), Num("tbmt", 0, 7, is.tbmt), Flag("inverter_gate", is.inverter_gate),
    AnyNum("baud", 9600), Line("connect")>>
GsioRows == Under("a", StrapChannel("sior1", SerialBuiltins.sior1))
              \o Under("b", StrapChannel("sior1", SerialStraps(2, 3, 0, 7, TRUE)))
PropioRows == StrapChannel("custom", SerialStraps(0, 1, 1, 2, FALSE))

StrapSerialSet(s, k, v) ==
  LET now == [s EXCEPT ![k] = v]
      ch == CASE k = "a.profile" -> "a." [] k = "b.profile" -> "b." [] OTHER -> ""
  IN  Taken(IF k \in {"profile", "a.profile", "b.profile"} /\ v # "custom"
              THEN Strapped(now, ch, SerialBuiltins[v]) ELSE now)

-----------------------------------------------------------------------------
(* The parallel and printer cards. *)
PioRows == <<Step("port", 0, \hFE, 2, 4)>> \o Under("out", <<Line("connect")>>)
             \o Under("in", <<Line("connect")>>)
LpcRows == <<Step("port", 0, \hFE, 2, 2), Line("connect")>>
C700Rows == <<Step("port", 0, \hFE, 2, 2), Line("connect"), Strap("interrupt"),
              Pick("interrupt_after", <<"char", "crlf">>, "char")>>

(* The 4PIO: eight sections, and units only for the ports it has.  A section *)
(* that is not there keeps its line.                                         *)
Pio4Sections == <<"ja", "jb", "ka", "kb", "la", "lb", "ma", "mb">>
Pio4Rows == <<Step("port", 0, \hF0, \h10, \h20), Num("ports", 1, 4, 1)>>
              \o [i \in 1..8 |-> Line(Pio4Sections[i] \o ".connect")]
Pio4Shown(s) == SubSeq(Pio4Rows, 1, 2 + 2 * s["ports"])

-----------------------------------------------------------------------------
(* The cassette cards.  A recorder has its settings with or without a       *)
(* cassette, but the place to stop at belongs to the cassette: off and end  *)
(* are taken, and forgotten, while there is none.                           *)
TapeRows(leader, trailer, formats, more) ==
  <<Pick("mode", <<"play", "record">>, "play"), Pick("format", <<"auto", "raw">> \o formats, "auto"),
    Num("leader", 0, 120, leader), Num("trailer", 0, 120, trailer),
    Pick("waveform", <<"square", "sine">>, "square"), Num("level", 1, 100, 36)>> \o more
    \o <<Pick("rate", <<"full", "real">>, "full"), Pick("counter", <<"on", "off">>, "on"),
         Text("stop", <<"off", "end", "0:30">>, "off")>>

RecorderRows == Under("tape", TapeRows(15, 5, <<"fsk300">>, <<>>))
AcrRows == SelectSeq(SioRows(6, 300), LAMBDA r : r.key # "connect") \o RecorderRows

\* A deck whose mark is the end of the tape shows it (the ACR) or has no mark (the Sol).
TapeStop(s, unit, v, endIsMark) ==
  IF ~s.tapes[unit] THEN IF v \in {"off", "end"} THEN Taken(s) ELSE Refused(s)
  ELSE Stored(s, unit \o ".stop", IF v = "end" /\ ~endIsMark THEN "off" ELSE v)
AcrSet(s, k, v) == IF k = "tape.stop" THEN TapeStop(s, "tape", v, TRUE) ELSE Stored(s, k, v)

\* MOUNT and UNMOUNT: a cassette comes without a mark, and takes its own with it.
TapeMounted(s, unit, there) ==
  [s EXCEPT !.tapes[unit] = there, ![unit \o ".stop"] = "off"]

(* The UIO: the cassette and the serial section may not overlap. *)
UioRows ==
  SelectSeq(SioRows(6, 300), LAMBDA r : r.key # "connect")
    \o <<Step("serial_port", 0, \hFE, 2, \h10), Pick("standard", <<"mits", "kansas">>, "mits")>>
    \o RecorderRows \o Under("serial", AciaRows)
UioSet(s, k, v) ==
  IF \/ k = "port" /\ v = s["serial_port"]
     \/ k = "serial_port" /\ v = s["port"] THEN Refused(s)
  ELSE AcrSet(s, k, v)

(* The Sol: two decks, a serial line with a rate, and two lines without. *)
DeckRows == TapeRows(3, 2, <<"cuts1200", "kcs300">>, <<Num("rc", 1000, 20000, 4000)>>)
SolRows ==
  <<Num("base", 0, \hF8, \hF8)>>
    \o Under("serial", <<Line("connect"), Num("baud", 1, 1000000, 9600), Num("data_bits", 5, 8, 8)>>)
    \o Under("printer", <<Line("connect")>>) \o Under("keyboard", <<Line("connect")>>)
    \o Under("tape1", DeckRows) \o Under("tape2", DeckRows)
SolSet(s, k, v) ==
  CASE k = "tape1.stop" -> TapeStop(s, "tape1", v, FALSE)
    [] k = "tape2.stop" -> TapeStop(s, "tape2", v, FALSE)
    [] OTHER -> Stored(s, k, v)

-----------------------------------------------------------------------------
(* Clocks, music, joysticks, and the bridge to the host. *)
VirtcRows ==
  <<Num("port", 0, \hFF, \hFE), Pick("rtc_source", <<"line", "clock">>, "line"),
    Pick("rtc_divide", <<"1", "10", "100", "1000">>, "1"), LevelOnly("rtc_interrupt")>>
Rtc100Rows == <<Step("port", 0, \hFC, 4, \hF0), Pick("interrupt", <<"none", "int">>, "none"),
                Num("restart", 0, 7, 7)>>
Ss1Rows == <<Num("base", 0, \hF0, \h50), Pick("math", <<"none", "9511a", "9512">>, "none")>>
             \o Under("serial", Uart2651Rows)
MusicRows == <<Slot("port", 0, \hF4, \h10, 4, \h24)>>
Joysticks == <<"none", "auto", "keyboard", "0", "1">>
Speakers  == <<"none", "1", "2", "3", "4", "5", "6", "7">>
D7aRows == <<Step("port", 0, \hF8, 8, \h18), Text("joystick1", Joysticks, "auto"),
             Text("joystick2", Joysticks, "auto"), Text("speaker1", Speakers, "1"),
             Text("speaker2", Speakers, "3")>>
BridgeRows == <<Num("port", 0, \hFE, \hB0), AnyText("hostdir", ""), Flag("readonly", FALSE)>>

(* The ZCB: a processor card with an 8251 and an 8255 in one group of ports, *)
(* which may not share a base.                                               *)
ZcbRows ==
  CpuRows(0) \o
  <<Step("group", 0, \hE0, \h20, 0), Step("serial_port", 0, \h1C, 4, 4),
    Step("parallel_port", 0, \h1C, 4, 8), Flag("boot", TRUE), Flag("phantom", TRUE),
    Pick("wait", <<"m1", "none", "all">>, "m1")>> \o Under("serial", SwitchedRows)
ZcbSet(s, k, v) ==
  IF \/ k = "serial_port" /\ v = s["parallel_port"]
     \/ k = "parallel_port" /\ v = s["serial_port"] THEN Refused(s)
  ELSE Stored(s, k, v)

(* The SBC: a processor of its own elsewhere, an 8251, and sockets whose     *)
(* addresses follow the size and the bank of its ROM.                        *)
SbcRows ==
  <<Pick("variant", <<"sbc100", "sbc200">>, "sbc200"), Flag("rxd2dsr", FALSE),
    Num("port", 0, \hFE, \h7C), Pick("rom_size", <<"1K", "2K", "4K", "8K">>, "2K"),
    Num("bank", 0, 7, 3), Flag("ram", TRUE), Step("start", 0, \hF000, \h1000, 0)>>
    \o Under("tty", Usart8251Rows)

RomLog(s) == CHOOSE n \in 0..3 : <<"1K", "2K", "4K", "8K">>[n + 1] = s["rom_size"]
RomBytes(s) == 1024 * 2 ^ RomLog(s)
Socketed(s) == {(s["bank"] * 8 + n) * RomBytes(s) : n \in 0..6}
SocketOf(s, at) == ((at \div RomBytes(s)) - s["bank"] * 8) % 4

-----------------------------------------------------------------------------
(* PROM sockets.  A table has an address and an image; the turnkey module   *)
(* takes any address, the ZCB one of four and no more than three sockets,   *)
(* the SBC an address of its bank whose socket no other table has.          *)
PromTables(s) == SelectSeq(s.sockets, LAMBDA t : t.mount # "none")
Plugged(s, t) == Taken([s EXCEPT !.sockets = Append(@, t)])
TurnkeyRows == <<Num("prom", 0, \hFC00, \hFC00), Step("start", 0, \hFF00, \h100, \hFC00),
                 Num("sense", 0, \hFF, 0), Num("sio_base", 0, \hFE, \h10)>>
                 \o Under("tty", AciaRows)
LoadTurnkeySocket(s, t) == Plugged(s, t)
LoadZcbSocket(s, t) ==
  IF t.at \in {\hE000, \hE400, \hE800, \hEC00} /\ Len(s.sockets) < 3
    THEN Plugged(s, t) ELSE Refused(s)
LoadSbcSocket(s, t) ==
  IF /\ s["bank"] < 8 \div (2 ^ RomLog(s))
     /\ t.at \in Socketed(s)
     /\ \A i \in DOMAIN s.sockets :
          s.sockets[i].at \in Socketed(s) =>
            SocketOf(s, s.sockets[i].at) # SocketOf(s, t.at)
    THEN Plugged(s, t) ELSE Refused(s)

(* The PROM programmer: two sockets for the chips to burn, filled by MOUNT, *)
(* and PROMs of its own, which only a machine file adds.  UNMOUNT leaves    *)
(* the entry of such a PROM with nothing in it.                             *)
Pb1Rows == <<Step("port", 0, \hF0, \h10, \h10), Step("window", 0, \hF000, \h1000, \hD000)>>
Pb1Tables(s) ==
  SelectSeq(<<[table |-> "socket", at |-> 2708, mount |-> s.u22],
              [table |-> "socket", at |-> 2716, mount |-> s.u23]>>,
            LAMBDA t : t.mount # "none") \o s.proms
LoadPb1Table(s, t) ==
  IF t.table = "socket"
    THEN IF t.mount = "none" THEN Taken(s)
         ELSE IF t.mount = "bad" THEN Refused(s)
         ELSE Stored(s, IF t.at = 2716 THEN "u23" ELSE "u22", t.mount)
  ELSE IF t.at < \h8000 \/ t.mount = "none" THEN Refused(s)
  ELSE Taken([s EXCEPT !.proms = Append(@, t)])

=============================================================================
