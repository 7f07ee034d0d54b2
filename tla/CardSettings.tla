----------------------------- MODULE CardSettings -----------------------------
(***************************************************************************)
(* The settings of the memory, video and disk cards, and of any card by    *)
(* the name of its type: what it lists, what it takes, what it shows, the  *)
(* tables it writes to a machine file and reads from one.                  *)
(***************************************************************************)
EXTENDS IoCardSettings, FiniteSets

Seeded == <<Pick("fill", <<"zero", "random">>, "random"), AnyNum("seed", 0)>>
Honors(is) == Pick("honors_phantom", <<"none", "read", "all">>, is)
Timing == Pick("timing", <<"full", "real">>, "full")
Width  == Text("width", <<"auto", "128", "8192">>, "auto")
Keyboard == Line("keyboard.connect")

-----------------------------------------------------------------------------
(* The video cards. *)
CadzillaRows ==
  <<Step("port", 0, \hF8, 8, \h70), Pick("mode", <<"640x480", "800x600", "1024x768">>, "640x480"),
    Pick("draw_rate", <<"full", "real">>, "full"), Width, Strap("interrupt")>>
DazzlerRows == <<Step("port", 0, \hFE, 2, \h0E), Width>>
Dazzler2Rows == DazzlerRows \o <<Pick("page", <<"0", "800">>, "0"), AnyNum("seed", 0)>>
Vdm1Rows ==
  <<Step("base", 0, \hFC00, \h400, \hCC00), Step("port", 0, \hFC, 4, \hCC),
    Pick("video", <<"normal", "reverse">>, "normal"),
    Pick("cursor", <<"off", "blink", "steady">>, "blink"),
    Pick("blanking", <<"none", "crvt", "control", "all">>, "none")>> \o Seeded \o <<Width>>
Vdb8024Rows ==
  <<Num("port", 0, \hFE, 0), Pick("cursor", <<"off", "blink", "steady">>, "blink"),
    Pick("video", <<"normal", "reverse">>, "normal"), Strap("interrupt"), Width, Keyboard>>
FlashwriterRows ==
  <<Step("base", \hC000, \hF800, \h800, \hF000), Step("port", 0, \h0E, 2, 0),
    Pick("interrupt", <<"none", "int">>, "none")>> \o Seeded \o <<Width, Keyboard>>

-----------------------------------------------------------------------------
(***************************************************************************)
(* The memory card.  Its regions come from a machine file; a ROM region is *)
(* a socket an image goes into and out of.  An image has a length, and an  *)
(* address of its own unless it is plain bytes.                            *)
(***************************************************************************)
Page == 256
MemoryRows == <<Honors("all"), Pick("phantom", <<"none", "read", "all">>, "all")>> \o Seeded
Images == [none |-> [at |-> -1, size |-> 0], hex |-> [at |-> \hF800, size |-> 8 * Page],
           bytes |-> [at |-> -1, size |-> 4 * Page], bad |-> [at |-> -1, size |-> 0]]
ImageFits(r) == /\ r.mount # "bad"
                /\ r.relocate \/ Images[r.mount].at \in {-1, r.at}
Sized(r) == IF r.type = "rom" THEN Images[r.mount].size ELSE Page * ((r.size + Page - 1) \div Page)
Runs(r) == r.at + r.size > \h10000

(* addRegion: on a page, with a size if it is RAM, and within the 64K. *)
LoadRegion(s, t) ==
  LET r == [t EXCEPT !.size = Sized(t)]
  IN  IF \/ t.at % Page # 0
         \/ t.type = "ram" /\ t.size = 0
         \/ t.type = "rom" /\ ~ImageFits(t)
         \/ Runs(r) THEN Refused(s)
      ELSE Taken([s EXCEPT !.regions = Append(@, r)])

(* MOUNT: the image has to be at the socket's address, and is not asked to  *)
(* end within the 64K.  UNMOUNT: an empty socket answers no page.           *)
RegionMounted(s, i, image) ==
  LET r == [s.regions[i] EXCEPT !.mount = image]
  IN  IF ~ImageFits(r) THEN Refused(s) ELSE Taken([s EXCEPT !.regions[i] = [r EXCEPT !.size = Sized(r)]])
RegionTables(s) ==
  [i \in DOMAIN s.regions |-> IF s.regions[i].type = "rom" THEN [s.regions[i] EXCEPT !.size = 0]
                              ELSE s.regions[i]]

-----------------------------------------------------------------------------
(***************************************************************************)
(* The bank-switched memory: five cards in one.  The number of banks       *)
(* follows from the RAM and the RAM from the number of banks; what one     *)
(* card has and another has not goes back to its factory value with the    *)
(* card, except the window of the Vector card.                             *)
(***************************************************************************)
BankCards == <<"vector", "cromemco64kz", "northstar", "expandoram2", "expandoram3">>
PortOf == [vector |-> \h40, cromemco64kz |-> \h40, northstar |-> \hC0,
           expandoram2 |-> \hFF, expandoram3 |-> \hFF]
BankmemRows ==
  <<Pick("card", BankCards, "vector"), Num("port", 0, \hFF, \h40),
    Pick("partition", <<"none", "ex48", "ex32">>, "none"),
    Step("window_lo", 0, \hFFFF, Page, 0), Slot("window_hi", 0, \hFFFF, Page, Page - 1, \hFFFF),
    Num("banks", 1, 11, 1), Pick("config", <<"cpm", "oasis">>, "cpm"),
    Num("bank_enable", 0, \hFF, \hFF), Num("ram", 1, 640, 64), Honors("none")>> \o Seeded

MaxBanks(s) == CASE s["card"] \in {"vector", "cromemco64kz"} -> 8
                 [] s["card"] = "northstar" -> 6
                 [] s["card"] = "expandoram2" /\ s["partition"] # "none" -> 11
                 [] OTHER -> 10
CommonBase(s) == CASE s["partition"] = "ex48" -> \hC000
                   [] s["partition"] = "ex32" -> \h8000
                   [] OTHER -> 0
BankedSize(s) == CASE s["card"] = "vector" -> s["window_hi"] - s["window_lo"] + 1
                   [] CommonBase(s) = 0 -> \h10000
                   [] OTHER -> CommonBase(s)
CommonSize(s) == IF CommonBase(s) = 0 THEN 0 ELSE \h10000 - CommonBase(s)
RamBytes(s, n) == IF s["partition"] = "ex48" /\ n = 11
                    THEN CommonSize(s) + 10 * BankedSize(s) + \h4000
                    ELSE CommonSize(s) + n * BankedSize(s)
Capped(s) == [s EXCEPT !.want = IF @ > MaxBanks(s) THEN MaxBanks(s) ELSE @]

CardChosen(s, v) ==
  LET put == Capped([s EXCEPT !["card"] = v, !["port"] = PortOf[v]])
      un2 == IF v = "expandoram2" THEN put ELSE [put EXCEPT !["partition"] = "none"]
  IN  IF v = "expandoram3" THEN un2
      ELSE [un2 EXCEPT !["config"] = "cpm", !["bank_enable"] = \hFF]

\* A window that would end before it starts is refused, its end already back at the factory's.
WindowSet(s, k, v) ==
  LET factory == IF k = "window_lo" THEN 0 ELSE \hFFFF
      put == [s EXCEPT ![k] = v]
  IN  IF v # factory /\ s["card"] # "vector" THEN Refused(s)
      ELSE IF put["window_lo"] > put["window_hi"] THEN Refused([s EXCEPT ![k] = factory])
      ELSE Taken(put)

RamSet(s, kb) ==
  IF s["card"] = "expandoram3"
    THEN IF kb \in {256, 512} THEN Taken([s EXCEPT !.boards = kb \div 256]) ELSE Refused(s)
  ELSE IF \/ s["card"] = "expandoram2" /\ s["partition"] = "none" /\ kb > 256
          \/ 1024 * kb > RamBytes(s, MaxBanks(s)) THEN Refused(s)
  ELSE LET whole == {n \in 2..MaxBanks(s) : RamBytes(s, n) <= 1024 * kb}
       IN  Taken([s EXCEPT !.want = Cardinality(whole) + 1])

BankmemSet(s, k, v) ==
  CASE k = "card" -> Taken(CardChosen(s, v))
    [] k = "partition" ->
         IF v # "none" /\ s["card"] # "expandoram2" THEN Refused(s)
         ELSE Taken(Capped([s EXCEPT !["partition"] = v]))
    [] k \in {"window_lo", "window_hi"} -> WindowSet(s, k, v)
    [] k = "banks" /\ s["card"] = "expandoram3" ->
         IF v \in {5, 10} THEN Taken([s EXCEPT !.boards = v \div 5]) ELSE Refused(s)
    [] k = "banks" -> IF v > MaxBanks(s) THEN Refused(s) ELSE Taken([s EXCEPT !.want = v])
    [] k = "ram" -> RamSet(s, v)
    [] k = "config" /\ v = "oasis" /\ s["card"] # "expandoram3" -> Refused(s)
    [] k = "bank_enable" /\ v # \hFF /\ s["card"] # "expandoram3" -> Refused(s)
    [] OTHER -> Stored(s, k, v)

BankmemBanks(s) == IF s["card"] = "expandoram3" THEN 5 * s.boards ELSE s.want
BankmemShown(s, k) ==
  CASE k = "banks" -> BankmemBanks(s)
    [] k = "ram" -> IF s["card"] = "expandoram3" THEN 256 * s.boards
                    ELSE RamBytes(s, s.want) \div 1024
    [] OTHER -> s[k]

-----------------------------------------------------------------------------
(* The disk cards. *)
DrivesRow(max, is) == Num("drives", 1, max, is)
HardSectorRows(max) == <<Num("port", 0, \hFD, \h08), DrivesRow(max, 4), Strap("interrupt")>>
MinidiskRows == HardSectorRows(4) \o <<Pick("motor", <<"free", "real">>, "free")>>
NorthStarRows(max) ==
  <<Step("base", 0, \hFC00, \h400, \hE800), DrivesRow(max, max), Strap("interrupt"),
    Pick("motor", <<"free", "real">>, "free"), Timing>>
VersaFloppyRows == <<Pick("variant", <<"vfi", "vfii">>, "vfii"), Num("port", 0, \hF8, \h60),
                     DrivesRow(4, 4), Strap("interrupt"), Timing>>
TarbellRows == <<Flag("bootstrap", TRUE), Num("port", 0, \hF8, \hF8), DrivesRow(4, 4),
                 Strap("interrupt"), Timing>>
TarbellDdRows == TarbellRows \o <<Num("dmaport", 0, \hF0, \hE0)>>
CromemcoFdcRows ==
  <<Flag("bootstrap", TRUE), Pick("boot_drive", <<"A", "B", "C", "D">>, "A"), DrivesRow(4, 4),
    Timing>> \o Under("tty", Tty5501Rows)
DualModeRows == <<Step("port", 0, \hF0, \h10, \hC0)>>
MicropolisRows ==
  <<Step("base", \hC000, \hFC00, \h400, \hF800), Pick("speed", <<"4mhz", "2mhz">>, "4mhz"),
    Pick("ready", <<"forced", "drive">>, "forced"), Strap("interrupt")>>
CompuProDiskRows(routines, routine) ==
  <<Step("port", 0, \hFC, 4, \hC0), Text("rom", <<"", "builtin">>, "builtin"),
    Num("routine", 0, routines - 1, routine), Flag("boot", TRUE)>>
Disk1Rows == CompuProDiskRows(8, 4) \o <<Pick("port3", <<"serial", "motor">>, "serial"),
               Strap("interrupt")>> \o Under("serial", BitLineRows)
Disk1aRows == CompuProDiskRows(16, 0) \o <<Flag("sense_switch", TRUE),
                Flag("mini_motor_control", TRUE), Strap("interrupt")>>
FdcBauds == <<"9600", "19200", "38400", "57600", "76800", "230400", "403200", "460800">>
FdcPlusRows == <<Text("port", <<"08", "80">>, "08"), Num("drivetype", 5, 7, 7),
                 Text("baud", FdcBauds, "403200"), Line("connect")>>
IcomRows == <<Num("port", 0, \hFE, \hC0), AnyText("rom", ""), DrivesRow(4, 2)>>
JadeRows == <<Num("port", \h40, \h43, \h43), Step("window", \hE000, \hFC00, \h400, \hE000),
              Flag("phantom", FALSE), LevelOnly("interrupt"), Pick("size", <<"8", "5">>, "8")>>
HdskRows == <<Num("port", 0, \hF8, \hA0), DrivesRow(8, 1), Strap("interrupt")>>

DiskCards == {"dcdd", "mds", "mdsa", "mdsad", "fdcplus", "hdsk", "dualide", "dualsd", "icom",
              "versafloppy", "tarbell", "tarbelldd", "jadedd", "16fdc", "64fdc", "vgdmdc",
              "vgmdc", "disk1", "disk1a"}
HardSectorBay(max, media) == Drives(max, TRUE, media, "words")
NorthStarBay(max) == Drives(max, TRUE, <<"sd", "dd", "quad">>, "words")
VersaFloppyBay == Drives(4, TRUE, <<"8sd", "8dd256">>, "parsed")
CompuProBay    == Drives(4, FALSE, <<"8ss-sd", "8ds-dd1024">>, "parsed")
TarbellBay     == Drives(4, TRUE, <<>>, "parsed")
CromemcoFdcBay == Drives(4, TRUE, <<>>, "parsed")
IcomBay        == Drives(4, TRUE, <<>>, "parsed")
JadeBay        == Drives(4, FALSE, <<>>, "parsed")
DualIdeBay     == Drives(2, FALSE, <<>>, "parsed")
DualSdBay      == Drives(2, FALSE, <<>>, "parsed")
HdskBay        == Drives(8, TRUE, <<>>, "words")
FdcPlusBay     == Drives(4, FALSE, <<>>, "words")
DualModeBay    == Drives(4, FALSE, <<>>, "words")
MicropolisBay  == Drives(4, FALSE, <<>>, "words")
Bay(c) ==
  CASE c = "dcdd" -> HardSectorBay(16, <<"8in", "fdc8mb">>)
    [] c = "mds" -> HardSectorBay(4, <<"minidisk">>)
    [] c = "mdsa" -> NorthStarBay(3)       [] c = "mdsad" -> NorthStarBay(4)
    [] c = "versafloppy" -> VersaFloppyBay [] c \in {"disk1", "disk1a"} -> CompuProBay
    [] c \in {"tarbell", "tarbelldd"} -> TarbellBay
    [] c \in {"16fdc", "64fdc"} -> CromemcoFdcBay
    [] c = "icom" -> IcomBay               [] c = "jadedd" -> JadeBay
    [] c = "dualide" -> DualIdeBay         [] c = "dualsd" -> DualSdBay
    [] c = "hdsk" -> HdskBay               [] c = "fdcplus" -> FdcPlusBay
    [] c = "vgdmdc" -> DualModeBay         [] c = "vgmdc" -> MicropolisBay

-----------------------------------------------------------------------------
(* The cards by the names of their types.                                   *)
AllRows(c) ==
  CASE c = "memory" -> MemoryRows          [] c = "bankmem" -> BankmemRows
    [] c \in {"8080", "8085", "z80"} -> CpuRows(0)
    [] c = "fp" -> PanelRows               [] c = "turnkey" -> TurnkeyRows
    [] c = "2sio" -> Sio2Rows              [] c = "sio" -> SioRows(0, 9600)
    [] c = "io4" -> Io4Rows                [] c = "gsio" -> GsioRows
    [] c = "propio" -> PropioRows          [] c = "interfacer1" -> InterfacerRows
    [] c = "vgbs" -> BitstreamerRows       [] c = "vgbsii" -> Bitstreamer2Rows
    [] c = "pmmi" -> PmmiRows              [] c = "pio" -> PioRows
    [] c = "lpc" -> LpcRows                [] c = "c700" -> C700Rows
    [] c = "4pio" -> Pio4Rows              [] c = "acr" -> AcrRows
    [] c = "uio" -> UioRows                [] c = "sol" -> SolRows
    [] c = "virtc" -> VirtcRows            [] c = "rtc100" -> Rtc100Rows
    [] c = "ss1" -> Ss1Rows                [] c = "music6" -> MusicRows
    [] c = "d7a" -> D7aRows                [] c = "hostbridge" -> BridgeRows
    [] c = "vgzcb" -> ZcbRows              [] c = "sbc" -> SbcRows
    [] c = "pb1" -> Pb1Rows                [] c = "v2z80rom" -> <<Num("port", 0, \hFF, \hD3)>>
    [] c = "cadzilla" -> CadzillaRows      [] c = "dazzler" -> DazzlerRows
    [] c = "dazzler2" -> Dazzler2Rows      [] c = "vdm1" -> Vdm1Rows
    [] c = "vdb8024" -> Vdb8024Rows        [] c = "vgfwii" -> FlashwriterRows
    [] c = "dcdd" -> HardSectorRows(16)    [] c = "mds" -> MinidiskRows
    [] c = "mdsa" -> NorthStarRows(3)      [] c = "mdsad" -> NorthStarRows(4)
    [] c = "versafloppy" -> VersaFloppyRows [] c = "tarbell" -> TarbellRows
    [] c = "tarbelldd" -> TarbellDdRows    [] c \in {"16fdc", "64fdc"} -> CromemcoFdcRows
    [] c = "vgdmdc" -> DualModeRows        [] c = "vgmdc" -> MicropolisRows
    [] c = "disk1" -> Disk1Rows            [] c = "disk1a" -> Disk1aRows
    [] c = "fdcplus" -> FdcPlusRows        [] c = "icom" -> IcomRows
    [] c = "jadedd" -> JadeRows            [] c = "hdsk" -> HdskRows
    [] c = "dualide" -> <<Num("port", 0, \hFB, \h30)>>
    [] c = "dualsd" -> <<Num("port", 0, \hFE, \h80)>>

(* What a card holds besides its rows. *)
Socketed3 == {"turnkey", "vgzcb", "sbc"}
Besides(c) ==
  CASE c \in DiskCards -> And(DriveBay(Bay(c)), [hbd |-> FALSE])
    [] c \in {"acr", "uio"} -> [tapes |-> [tape |-> FALSE]]
    [] c = "sol" -> [tapes |-> [tape1 |-> FALSE, tape2 |-> FALSE]]
    [] c \in Socketed3 -> [sockets |-> <<>>]
    [] c = "pb1" -> [u22 |-> "none", u23 |-> "none", proms |-> <<>>]
    [] c = "memory" -> [regions |-> <<>>]
    [] c = "bankmem" -> [want |-> 1, boards |-> 1]
    [] OTHER -> <<>>
NewCard(c) == And(Fresh(AllRows(c)), Besides(c))
RowsIn(c, s) == IF c = "4pio" THEN Pio4Shown(s) ELSE AllRows(c)

(* SET: the row checks the value, then the card does. *)
CardSet(c, s, k, v) ==
  CASE c = "io4" -> Io4Set(s, k, v)
    [] c \in {"gsio", "propio"} -> StrapSerialSet(s, k, v)
    [] c = "acr" -> AcrSet(s, k, v)
    [] c = "uio" -> UioSet(s, k, v)
    [] c = "sol" -> SolSet(s, k, v)
    [] c = "vgzcb" -> ZcbSet(s, k, v)
    [] c = "bankmem" -> BankmemSet(s, k, v)
    [] c \in {"16fdc", "64fdc"} /\ k # "drives" -> Tty5501Set(s, k, v)
    [] k = "drives" -> SetDrives(s, v)
    [] OTHER -> Stored(s, k, v)
Setting(c, s, k, v) ==
  IF Fits(RowOf(RowsIn(c, s), k), v) THEN CardSet(c, s, k, v) ELSE Refused(s)

(* What a row shows. *)
Shown(c, s, k) == CASE c = "io4" -> Io4Written(s, k)
                    [] c = "bankmem" -> BankmemShown(s, k)
                    [] OTHER -> s[k]

(* The tables under a board, written and read. *)
Tables(c, s) ==
  CASE c \in DiskCards -> DriveTables(Bay(c), s)
    [] c \in Socketed3 -> PromTables(s)
    [] c = "pb1" -> Pb1Tables(s)
    [] c = "memory" -> RegionTables(s)
    [] OTHER -> <<>>
LoadTable(c, s, t) ==
  CASE c \in DiskCards -> LoadDrive(Bay(c), s, t)
    [] c = "turnkey" -> LoadTurnkeySocket(s, t)
    [] c = "vgzcb" -> LoadZcbSocket(s, t)
    [] c = "sbc" -> LoadSbcSocket(s, t)
    [] c = "pb1" -> LoadPb1Table(s, t)
    [] c = "memory" -> LoadRegion(s, t)
    [] OTHER -> Refused(s)

(***************************************************************************)
(* A saved board: its rows in the order it lists them, then its tables.    *)
(* Loading it sets the rows of a new card in that order and adds the       *)
(* tables; the first refusal refuses the file.                             *)
(***************************************************************************)
SavedRows(c, s) == LET rows == RowsIn(c, s)
                   IN  [i \in DOMAIN rows |-> <<rows[i].key, Shown(c, s, rows[i].key)>>]
Saved(c, s) == [rows |-> SavedRows(c, s), tables |-> Tables(c, s)]

Also(out, Step2(_)) == IF out.ok THEN Step2(out.s) ELSE out
LoadCard(c, file) ==
  LET row(out, r) == Also(out, LAMBDA s : Setting(c, s, r[1], r[2]))
      table(out, t) == Also(out, LAMBDA s : LoadTable(c, s, t))
  IN  FoldLeft(table, FoldLeft(row, Taken(NewCard(c)), file.rows), file.tables)

=============================================================================
