--------------------------- MODULE MCConfiguration ---------------------------
(***************************************************************************)
(* Three rigs.  "card": every type of card, one at a time, through any        *)
(* MaxChanges of what is done to a card.  "machine": a machine loaded from  *)
(* every short file over every base, then changed at the monitor.           *)
(* "snapshot": every type of card, saved, run, changed and restored.         *)
(***************************************************************************)
EXTENDS Configuration, MachineFile, Snapshots

CONSTANT Rigs

AllCards ==
  {"memory", "bankmem", "8080", "fp", "turnkey", "2sio", "sio", "io4", "gsio", "propio",
   "interfacer1", "vgbs", "vgbsii", "pmmi", "pio", "lpc", "c700", "4pio", "acr", "uio", "sol",
   "virtc", "rtc100", "ss1", "music6", "d7a", "hostbridge", "vgzcb", "sbc", "pb1", "v2z80rom",
   "cadzilla", "dazzler2", "vdm1", "vdb8024", "vgfwii", "dcdd", "mds", "mdsa", "mdsad",
   "versafloppy", "tarbelldd", "16fdc", "vgdmdc", "vgmdc", "disk1", "disk1a", "fdcplus", "icom",
   "jadedd", "hdsk", "dualide", "dualsd"}

SavedTypes == DOMAIN StateOf

Rom(at) == [at |-> at, mount |-> "rom"]
Region(type, at, size, mount, relocate) ==
  [type |-> type, at |-> at, size |-> size, mount |-> mount, relocate |-> relocate]
Drive(unit, mount, readonly, media) ==
  [table |-> "drive", unit |-> unit, mount |-> mount, readonly |-> readonly, media |-> media]
Chip(table, at) == [table |-> table, at |-> at, mount |-> "chip"]
CardTables ==
  [turnkey |-> {Rom(\hFC00)},
   vgzcb |-> {Rom(\hE000), Rom(\hE100)},
   sbc |-> {Rom(\hE000), Rom(\hF000), Rom(\hF800)},
   pb1 |-> {Chip("prom", \h8000), Chip("prom", 0), Chip("socket", 2716)},
   memory |-> {Region("ram", 0, 1000, "none", FALSE), Region("rom", \hF800, 0, "none", FALSE),
               Region("rom", \hFF00, 0, "none", TRUE), Region("rom", \hFF00, 0, "hex", TRUE),
               Region("ram", 0, 0, "none", FALSE), Region("rom", \hF700, 0, "hex", FALSE)},
   dcdd |-> {Drive(0, "disk", "TRUE", "8in"), Drive(15, "disk", "true", ""),
             Drive(1, "none", "", "fdc8mb")},
   versafloppy |-> {Drive(0, "disk", "TRUE", "8sd")}]

(* Tables of files: boards fitted, replaced, changed, removed; units; parts;  *)
(* settings of the process; what is refused.                                 *)
Named(rows) == [t |-> "machine", rows |-> rows]
Board(type, id, rows) == [t |-> "board", type |-> type, id |-> id, remove |-> "", rows |-> rows]
Gone(id) == [t |-> "board", type |-> "", id |-> id, remove |-> "true", rows |-> <<>>]
Unit(rows) == [t |-> "board.unit", unit |-> "tty", rows |-> rows]
Part(x) == [t |-> "board.part", part |-> x]
Host(t, rows) == [t |-> t, rows |-> rows]

Panel == Board("fp", "x", <<<<"sense", 1>>>>)
Serial(id, where) == <<Board("sio", id, <<<<"port", 16>>>>), Unit(<<<<"connect", where>>>>)>>
BuiltIn ==
  ("plain" :> <<Named(<<<<"name", "plain">>>>), Panel>>
             \o Serial("y", "console") \o <<Host("console", <<<<"upper", TRUE>>>>)>>)
  @@ ("over" :> <<Named(<<<<"base", "plain">>>>), Board("sio", "x", <<>>),
                  Unit(<<<<"connect", "socket">>>>)>>)
  @@ ("itself" :> <<Named(<<<<"base", "itself">>>>)>>)
  @@ ("bad" :> <<Host("display", <<<<"crt", TRUE>>>>), Panel, Panel>>)

First == {<<>>, <<Named(<<<<"name", "mine">>, <<"base", "plain">>>>)>>}
           \union {<<Named(<<<<"base", b>>>>)>> : b \in {"over", "itself", "bad", "missing"}}
           \union {<<Named(<<<<"startup", "RUN">>>>)>>, <<Named(<<<<"sense", "1">>>>)>>,
                   <<Host("console", <<<<"upper", FALSE>>>>), Named(<<<<"base", "plain">>>>)>>,
                   <<Panel, Gone("x"), Named(<<<<"base", "plain">>>>)>>}
Tables2 == {Panel, Board("", "x", <<<<"sense", 2>>>>), Gone("x"), Gone("y"),
            Board("sio", "x", <<<<"port", 2>>, <<"rev", "0">>>>), Board("", "y", <<<<"baud", 300>>>>),
            Board("unknown", "z", <<>>), Board("fp", "z", <<<<"sense", 256>>>>),
            Unit(<<<<"connect", "console">>>>), Unit(<<<<"connect", "socket">>>>),
            Board("memory", "z", <<>>), Part(Region("ram", 0, 1024, "none", FALSE)),
            Host("console", <<<<"upper", FALSE>>, <<"bsdel", "bs">>>>),
            Host("display", <<<<"crt", TRUE>>, <<"nosuch", TRUE>>>>),
            Host("other", <<>>)}
\* Two tables after nothing and over a base that is there, one over any other.
Most(f) == IF f \in {<<>>, <<Named(<<<<"name", "mine">>, <<"base", "plain">>>>)>>} THEN 2 ELSE 1
ShortFiles == UNION {{f \o tables : tables \in UNION {[1..n -> Tables2] : n \in 0..Most(f)}} : f \in First}

Sets == {[id |-> i, key |-> "sense", v |-> v] : i \in {"x", "z"}, v \in {1, 256}}
          \union {[id |-> i, key |-> "connect", v |-> v] : i \in {"x", "y"}, v \in {"console", "socket"}}
          \union {[id |-> i, key |-> "port", v |-> v] : i \in {"x", "y"}, v \in {3, 4}}
Adds == {[type |-> ty, id |-> i] : ty \in {"fp", "sio"}, i \in {"x", "z"}} \union {[type |-> "unknown", id |-> "z"]}

vars == <<cardVars, machineVars, snapVars>>
NoCard == card = "" /\ s = <<>> /\ taken = TRUE /\ changes = 0
NoSnapshots == /\ fitted = <<>> /\ time = 0 /\ queue = {} /\ file = <<>> /\ notes = {}
               /\ result = "none" /\ steps = 0

Init == \/ "card" \in Rigs /\ CardInit /\ MachineInit /\ NoSnapshots
        \/ "machine" \in Rigs /\ NoCard /\ MachineInit /\ NoSnapshots
        \/ "snapshot" \in Rigs /\ NoCard /\ MachineInit /\ SnapInit
Next == \/ card # "" /\ CardNext /\ UNCHANGED <<machineVars, snapVars>>
        \/ card = "" /\ fitted = <<>> /\ MachineNext /\ UNCHANGED <<cardVars, snapVars>>
        \/ fitted # <<>> /\ SnapNext /\ UNCHANGED <<cardVars, machineVars>>
Spec == Init /\ [][Next]_vars

\* Every card and every machine that is saved comes back, but for the named cases.
SavedFilesLoad == /\ card # "" => SavedCardLoads
                  /\ card = "" => MachineTypeOK /\ SavedMachineLoads
\* What is refused, a setting, a command or a file, changes nothing.
RefusedChangesNothing == /\ RefusedSetChangesNothing
                         /\ RefusedCommandChangesNothing
                         /\ RefusedRestoreChangesNothing
=============================================================================
