----------------------------- MODULE MachineFile -----------------------------
(***************************************************************************)
(* A machine, the file it comes from and the file it is saved to           *)
(* (config/toml.cpp, core/machine.cpp), and the monitor's commands that    *)
(* change it in between.  A file is a sequence of tables; it may name      *)
(* another file as its base, and is then what changes in that one.         *)
(***************************************************************************)
EXTENDS CardSettings

CONSTANTS
  Files,    \* the files a base may name, and the built-in machines: name -> tables
  Texts,    \* the machine files that are loaded
  Edits,    \* what SET sets: [id, key, v] on a board or a unit
  Fitted,   \* what BOARDS ADD adds: [type, id]
  MaxEdits  \* a bound: what is done to a machine

ASSUME EditsAssumption == MaxEdits \in Nat

VARIABLES
  machine,  \* [name, startup, boards]; a board is [id, type, s]
  host,     \* the settings of the process: by table, by row
  loaded,   \* the text the machine came from, while nothing was changed since
  accepted, \* whether the last command was taken
  edits     \* how many there were
machineVars == <<machine, host, loaded, accepted, edits>>

-----------------------------------------------------------------------------
(* The settings of the process.  A load resets the transforms of the        *)
(* console and the other two tables; only these go into a file.             *)
FilterRows == <<Flag("upper", FALSE), Flag("strip7in", FALSE), Flag("strip7out", FALSE),
                Flag("crlf", FALSE), Flag("echo", FALSE), Flag("bell", TRUE),
                Pick("bsdel", <<"off", "bs", "del">>, "off")>>
ConsoleRows == <<Num("stop", 1, \h1F, 5), Pick("base", <<"hex", "octal">>, "hex"),
                 Num("history", 0, 10000, 50), Text("log", <<"", "off", "file">>, "")>> \o FilterRows
DisplayRows == <<Flag("focus", FALSE), Pick("keyboard", <<"console", "none">>, "console"),
                 Flag("crt", FALSE)>>
HostRows == [console |-> ConsoleRows, display |-> DisplayRows, terminal |-> FilterRows]
HostSaved == [HostRows EXCEPT !.console = FilterRows]

NewHost == [t \in DOMAIN HostRows |-> Fresh(HostRows[t])]
ResetHost(h) == [t \in DOMAIN h |-> And(h[t], Fresh(HostSaved[t]))]
HostSet(h, t, k, v) ==
  IF k \notin Keys(HostRows[t]) \/ ~Fits(RowOf(HostRows[t], k), v) THEN [ok |-> FALSE, h |-> h]
  ELSE [ok |-> TRUE, h |-> [h EXCEPT ![t][k] = IF k = "log" /\ v = "off" THEN "" ELSE v]]

-----------------------------------------------------------------------------
(* Boards in a machine: by an id of their own, in the order they were added. *)
Ids(m) == {m.boards[i].id : i \in DOMAIN m.boards}
Place(m, id) == CHOOSE i \in DOMAIN m.boards : m.boards[i].id = id
BoardOf(m, id) == m.boards[Place(m, id)]
With(m, id, s) == [m EXCEPT !.boards[Place(m, id)].s = s]
Add(m, type, id) == [m EXCEPT !.boards = Append(@, [id |-> id, type |-> type, s |-> NewCard(type)])]
Drop(m, id) == [m EXCEPT !.boards = SelectSeq(@, LAMBDA b : b.id # id)]

NewMachine == [name |-> "altair", startup |-> "", boards |-> <<>>]
NoMachine == [name |-> "none", startup |-> "", boards |-> <<>>]

(* The units of a board that have rows of their own. *)
Units(type) == CASE type = "sio" -> [tty |-> {"connect"}]
                 [] type = "2sio" -> [a |-> Keys(Under("a", AciaRows)), b |-> Keys(Under("b", AciaRows))]
                 [] OTHER -> <<>>
UnitKeys(type) == UNION Range(Units(type))
BoardKeys(type, s) == Keys(RowsIn(type, s)) \ UnitKeys(type)

(* The serial units, by where they are connected.  One process listens once  *)
(* on a port.                                                               *)
LineKeys(type) == {r.key : r \in {x \in Range(AllRows(type)) : x.opts = Endpoints}}
On(m, where) == UNION {{<<b.id, k>> : k \in {k \in LineKeys(b.type) : b.s[k] = where}} : b \in Range(m.boards)}

-----------------------------------------------------------------------------
(***************************************************************************)
(* Reading a file.  The state of the reader: the machine, the settings of  *)
(* the process, the tables that may be there once, the boards of the base  *)
(* that the file has not replaced, the board the next table is about and   *)
(* the units of it that had their table.  "open" is what the live machine  *)
(* listens on.                                                             *)
(***************************************************************************)
MaxBaseDepth == 8

Reading(m, h, open) == [ok |-> TRUE, m |-> m, h |-> h, open |-> open, once |-> {}, fromBase |-> {},
                  current |-> "", units |-> {}]
Fail(a) == [a EXCEPT !.ok = FALSE]
Each(a, seq, Step2(_, _)) == FoldLeft(LAMBDA b, x : IF b.ok THEN Step2(b, x) ELSE b, a, seq)

\* Setting a row of a board; a line that is to listen takes its port first.
Now(a, id, out) == IF out.ok THEN [a EXCEPT !.m = With(@, id, out.s)] ELSE Fail(a)
RowOn(a, b, keys, r) ==
  IF r[1] \notin keys THEN Fail(a)
  ELSE IF r[1] \in LineKeys(b.type) /\ r[2] = "socket" /\ (a.open \/ On(a.m, "socket") # {})
    THEN Fail(a)
  ELSE Now(a, b.id, Setting(b.type, b.s, r[1], r[2]))
RowSet(a, id, keys, r) == RowOn(a, BoardOf(a.m, id), keys, r)

HostNow(a, out) == IF out.ok THEN [a EXCEPT !.h = out.h] ELSE Fail(a)
HostTable(a, x) ==
  Each(a, x.rows, LAMBDA b, r : HostNow(b, HostSet(b.h, x.t, r[1], r[2])))

(* [[board]]: without a type it is about a board that is there; with one it  *)
(* fits a new board, in the place of the base's board of that id if the      *)
(* file has not fitted that itself.                                          *)
BoardRows(a, x) == LET b == BoardOf(a.m, x.id)
                   IN  Each([a EXCEPT !.current = x.id, !.units = {}], x.rows,
                            LAMBDA c, r : RowSet(c, x.id, BoardKeys(b.type, b.s), r))

RemoveTable(a, x) ==
  IF x.type # "" \/ x.rows # <<>> \/ x.id \notin Ids(a.m) THEN Fail(a)
  ELSE [a EXCEPT !.m = Drop(@, x.id), !.fromBase = @ \ {x.id}, !.current = ""]

Replaces(a, x) == x.id \in a.fromBase

\* The board of the base stays in its place.
FitTableMutant(a, x) ==
  IF Replaces(a, x)
    THEN BoardRows([a EXCEPT !.m.boards[Place(a.m, x.id)] =
                      [id |-> x.id, type |-> x.type, s |-> NewCard(x.type)]], x)
  ELSE IF x.id \in Ids(a.m) \/ x.type = "unknown" THEN Fail(a)
  ELSE BoardRows([a EXCEPT !.m = Add(@, x.type, x.id)], x)
FitTable(a, x) ==
  LET free == IF Replaces(a, x) THEN [a EXCEPT !.m = Drop(@, x.id), !.fromBase = @ \ {x.id}] ELSE a
  IN  IF x.id \in Ids(free.m) \/ x.type = "unknown" THEN Fail(a)
      ELSE BoardRows([free EXCEPT !.m = Add(@, x.type, x.id)], x)

BoardTable(a, x) ==
  IF x.id = "" \/ x.remove \notin {"", "true", "false"} THEN Fail(a)
  ELSE IF x.remove = "true" THEN RemoveTable(a, x)
  ELSE IF x.type # "" THEN FitTable(a, x)
  ELSE IF x.id \in Ids(a.m) THEN BoardRows(a, x) ELSE Fail(a)

(* The tables under a board. *)
UnitTable(a, x) ==
  IF a.current = "" THEN Fail(a)
  ELSE LET units == Units(BoardOf(a.m, a.current).type)
       IN  IF x.unit \notin DOMAIN units \/ x.unit \in a.units THEN Fail(a)
           ELSE Each([a EXCEPT !.units = @ \union {x.unit}], x.rows,
                     LAMBDA c, r : RowSet(c, c.current, units[x.unit], r))
PartTable(a, x) ==
  IF a.current = "" THEN Fail(a)
  ELSE LET b == BoardOf(a.m, a.current)
       IN  Now(a, b.id, LoadTable(b.type, b.s, x.part))

(* [machine] has its base first, wherever it is written. *)
MachineKey(a, r) == CASE r[1] = "name" -> [a EXCEPT !.m.name = r[2]]
                      [] r[1] = "startup" -> [a EXCEPT !.m.startup = r[2]]
                      [] r[1] = "base" -> a
                      [] OTHER -> Fail(a)

OneHolderMutant(a) == TRUE
OneHolder(a) == Cardinality(On(a.m, "console")) <= 1
WithOneHolder(a) == IF a.ok /\ ~OneHolder(a) THEN Fail(a) ELSE a

Laid(a, base) == [a EXCEPT !.ok = base.ok, !.m = base.m, !.h = base.h, !.fromBase = Ids(base.m)]
RECURSIVE LoadInto(_, _, _)
LoadBase(name, depth, a) ==
  IF depth >= MaxBaseDepth \/ name \notin DOMAIN Files \/ a.m.boards # <<>> THEN Fail(a)
  ELSE Laid(a, LoadInto(Files[name], depth + 1, Reading(a.m, a.h, a.open)))

\* The keys in the order they are written: a name before the base is lost.
MachineTableMutant(depth, a, x) ==
  Each(a, x.rows, LAMBDA b, r : IF r[1] = "base" THEN LoadBase(r[2], depth, b) ELSE MachineKey(b, r))
MachineTable(depth, a, x) ==
  Each(Each(a, SelectSeq(x.rows, LAMBDA r : r[1] = "base"),
            LAMBDA b, r : LoadBase(r[2], depth, b)), x.rows, MachineKey)

Once == {"machine", "console", "display", "terminal"}
OneTable(depth, a, x) ==
  IF x.t \in Once /\ x.t \in a.once THEN Fail(a)
  ELSE LET b == [a EXCEPT !.once = @ \union {x.t}]
       IN  CASE x.t = "machine" -> MachineTable(depth, b, x)
             [] x.t \in DOMAIN HostRows -> HostTable(b, x)
             [] x.t = "board" -> BoardTable(b, x)
             [] x.t = "board.unit" -> UnitTable(b, x)
             [] x.t = "board.part" -> PartTable(b, x)
             [] OTHER -> Fail(b)
LoadInto(text, depth, a) ==
  WithOneHolder(Each(a, text, LAMBDA b, x : OneTable(depth, b, x)))

(* A file is read into a machine of its own while the live one goes on, and  *)
(* the settings of the process are put back when it is refused.             *)
RestoreHostMutant(was, now) == now
RestoreHost(was, now) == was

TakenOver(read, m, h) == IF read.ok THEN read
                         ELSE [read EXCEPT !.m = m, !.h = RestoreHost(h, read.h)]
LoadTomlText(text, m, h) ==
  TakenOver(LoadInto(text, 0, Reading(NewMachine, ResetHost(h), On(m, "socket") # {})), m, h)

-----------------------------------------------------------------------------
(* Writing one: everything, without a base. *)
RowsOf(rows, keys) == SelectSeq(rows, LAMBDA r : r[1] \in keys)
SavedBoard(b) ==
  LET file == Saved(b.type, b.s)
      head == [t |-> "board", id |-> b.id, type |-> b.type, remove |-> "",
               rows |-> RowsOf(file.rows, BoardKeys(b.type, b.s))]
      units == Units(b.type)
      ofUnit(u) == [t |-> "board.unit", unit |-> u, rows |-> RowsOf(file.rows, units[u])]
      part(x) == [t |-> "board.part", part |-> x]
  IN  <<head>> \o [i \in 1..Cardinality(DOMAIN units) |-> ofUnit(SetToSeq(DOMAIN units)[i])]
        \o [i \in DOMAIN file.tables |-> part(file.tables[i])]
HostWritten(h, t) ==
  [t |-> t, rows |-> [i \in DOMAIN HostSaved[t] |-> <<HostSaved[t][i].key, h[t][HostSaved[t][i].key]>>]]

SaveTomlText(m, h) ==
  <<[t |-> "machine", rows |-> <<<<"name", m.name>>, <<"startup", m.startup>>>>],
    HostWritten(h, "display"), HostWritten(h, "console"), HostWritten(h, "terminal")>>
   \o FlattenSeq([i \in DOMAIN m.boards |-> SavedBoard(m.boards[i])])

-----------------------------------------------------------------------------
(* The monitor's commands.                                                  *)
MachineInit == /\ machine = NewMachine
               /\ host = NewHost
               /\ loaded = <<>>
               /\ accepted = TRUE
               /\ edits = 0

Command(ok, m, h) == /\ edits < MaxEdits
                     /\ edits' = edits + 1
                     /\ accepted' = ok
                     /\ machine' = m
                     /\ host' = h

(* CONFIG LOAD, and -m. *)
ConfigLoad ==
  \E text \in Texts :
    /\ edits = 0 \/ Len(text) <= 1
    /\ \E out \in {LoadTomlText(text, machine, host)} :
         /\ Command(out.ok, out.m, out.h)
         /\ loaded' = IF out.ok THEN text ELSE loaded

(* SET of a row of a board or of a unit, of the process, and BOARDS ADD.     *)
SetOne ==
  \E e \in Edits :
    /\ e.id \in Ids(machine)
    /\ e.key \in DOMAIN BoardOf(machine, e.id).s
    /\ \E out \in {RowSet(Reading(machine, host, FALSE), e.id, {e.key}, <<e.key, e.v>>)} :
         Command(out.ok, out.m, host) /\ loaded' = IF out.ok THEN <<>> ELSE loaded
SetHost ==
  \E t \in DOMAIN HostRows : \E i \in DOMAIN HostRows[t] : \E v \in Tries(HostRows[t][i]) :
    \E out \in {HostSet(host, t, HostRows[t][i].key, v)} :
      Command(out.ok, machine, out.h) /\ loaded' = IF out.ok THEN <<>> ELSE loaded
BoardsAdd ==
  \E f \in Fitted :
    LET ok == f.id \notin Ids(machine) /\ f.type # "unknown"
    IN  /\ Command(ok, IF ok THEN Add(machine, f.type, f.id) ELSE machine, host)
        /\ loaded' = IF ok THEN <<>> ELSE loaded
BoardsRemove ==
  \E id \in Ids(machine) : Command(TRUE, Drop(machine, id), host) /\ loaded' = <<>>

(* CONNECT takes the console from whoever has it; SET does not.              *)
TakeConsole(m, but) ==
  FoldSet(LAMBDA l, n : With(n, l[1], [BoardOf(n, l[1]).s EXCEPT ![l[2]] = "null"]),
          m, On(m, "console") \ {but})
Connect ==
  \E b \in Range(machine.boards) : \E k \in LineKeys(b.type), where \in Range(Endpoints) :
    \E free \in {IF where = "console" THEN TakeConsole(machine, <<b.id, k>>) ELSE machine} :
      \E out \in {RowSet(Reading(free, host, FALSE), b.id, {k}, <<k, where>>)} :
        Command(out.ok, out.m, host) /\ loaded' = IF out.ok THEN <<>> ELSE loaded

(* MACHINE none: an empty backplane. *)
MachineNone == Command(TRUE, NoMachine, ResetHost(host)) /\ loaded' = <<>>

MachineNext == ConfigLoad \/ SetOne \/ SetHost \/ BoardsAdd \/ BoardsRemove \/ Connect \/ MachineNone

-----------------------------------------------------------------------------
(* What a file says, table by table, its base written out where it names it: a *)
(* board is what the last table with a type made of it, with the values the  *)
(* rows were last given.                                                     *)
RECURSIVE WrittenOut(_)
WrittenOut(text) ==
  LET bases(x) == FlattenSeq([i \in DOMAIN x.rows |->
                    IF x.rows[i][1] = "base" THEN WrittenOut(Files[x.rows[i][2]]) ELSE <<>>])
  IN  FlattenSeq([i \in DOMAIN text |->
        IF text[i].t = "machine" THEN Append(bases(text[i]), text[i]) ELSE <<text[i]>>])

Fits2(text, id) == {i \in DOMAIN text : text[i].t = "board" /\ text[i].id = id /\ text[i].type # ""}
Goes(text, id) == {i \in DOMAIN text : text[i].t = "board" /\ text[i].id = id /\ text[i].remove = "true"}
LastFit(text, id) == Max(Fits2(text, id))
\* The board a table is about: the one of the last [[board]] before it.
About(text, i) == text[Max({j \in 1..i : text[j].t = "board"})].id
RowsAbout(text, id) ==
  LET fit == LastFit(text, id)
  IN  FlattenSeq([i \in DOMAIN text |->
    IF /\ i >= fit /\ text[i].t \in {"board", "board.unit"}
       /\ About(text, i) = id THEN text[i].rows ELSE <<>>])
LastGiven(rows, k, is) == LET at == {i \in DOMAIN rows : rows[i][1] = k}
                          IN  IF at = {} THEN is ELSE rows[Max(at)][2]
HostGiven(text, t) == FlattenSeq([i \in DOMAIN text |-> IF text[i].t = t THEN text[i].rows ELSE <<>>])


(* Whatever bases a file is laid over, and whatever it takes out, puts in and *)
(* changes, the machine is the one the tables describe, board for board and   *)
(* row for row.                                                              *)
OverlayIsExact ==
  loaded # <<>> =>
    LET text == WrittenOut(loaded)
        fitted == {id \in {text[i].id : i \in {j \in DOMAIN text : text[j].t = "board"}} :
                     /\ Fits2(text, id) # {}
                     /\ \A i \in Goes(text, id) : i < LastFit(text, id)}
    IN  /\ Ids(machine) = fitted
        /\ Len(machine.boards) = Cardinality(fitted)
        /\ \A i, j \in DOMAIN machine.boards :
             i < j => LastFit(text, machine.boards[i].id) < LastFit(text, machine.boards[j].id)
        /\ \A b \in Range(machine.boards) :
             LET given == RowsAbout(text, b.id)
                 new == NewCard(b.type)
             IN  /\ b.type = text[LastFit(text, b.id)].type
                 /\ \A k \in Keys(AllRows(b.type)) : b.s[k] = LastGiven(given, k, new[k])
        /\ machine.name = LastGiven(HostGiven(text, "machine"), "name", "altair")
        /\ \A t \in DOMAIN HostSaved : \A k \in Keys(HostSaved[t]) :
             host[t][k] = LastGiven(HostGiven(text, t), k, NewHost[t][k])

(* Boards have ids of their own, and every row holds a value it would take.   *)
MachineTypeOK ==
  /\ edits \in 0..MaxEdits /\ accepted \in BOOLEAN
  /\ Cardinality(Ids(machine)) = Len(machine.boards)
  /\ \A b \in Range(machine.boards) : \A r \in Range(AllRows(b.type)) : Fits(r, b.s[r.key])
  /\ \A t \in DOMAIN HostRows : \A r \in Range(HostRows[t]) : Fits(r, host[t][r.key])

(* A saved machine comes back as it is in a new process, unless two of its   *)
(* units hold the console; in the same process, unless a unit listens.       *)
SavedMachineLoads ==
  LET same(out) == out.ok /\ out.m = machine
                     /\ \A t \in DOMAIN host : \A k \in Keys(HostSaved[t]) : out.h[t][k] = host[t][k]
      shared == Cardinality(On(machine, "console")) > 1
  IN  \A file \in {SaveTomlText(machine, host)} :
        /\ same(LoadTomlText(file, NoMachine, NewHost)) <=> ~shared
        /\ LoadTomlText(file, machine, host).ok <=> ~shared /\ On(machine, "socket") = {}

(* A command that is refused, a file among them, leaves the machine and the    *)
(* settings of the process as they were.                                     *)
RefusedCommandChangesNothing ==
  [][~accepted' => UNCHANGED <<machine, host>>]_machineVars

=============================================================================
