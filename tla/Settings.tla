------------------------------ MODULE Settings ------------------------------
(***************************************************************************)
(* What a setting is (core/value.cpp, core/board.cpp): a card lists rows,  *)
(* a row checks a value the same way for SET, a machine file and MCP, and  *)
(* the card's own setter has the last word.  A card is a function from the *)
(* names of its rows, and of what it holds besides, to values; a setting   *)
(* has an outcome [ok, s]: whether it was taken, and the card after it.    *)
(***************************************************************************)
EXTENDS Integers, Sequences, SequencesExt

(***************************************************************************)
(* The rows.  "is" is the value of a new card; a step is the setter's own  *)
(* rule that the value is a multiple of something, past "off".             *)
(***************************************************************************)
Row(k, kind, lo, hi, step, off, opts, is) ==
  [key |-> k, kind |-> kind, lo |-> lo, hi |-> hi, step |-> step, off |-> off,
   opts |-> opts, is |-> is]
Num(k, lo, hi, is)           == Row(k, "Int", lo, hi, 1, 0, <<>>, is)
Step(k, lo, hi, step, is)    == Row(k, "Int", lo, hi, step, 0, <<>>, is)
Slot(k, lo, hi, step, off, is) == Row(k, "Int", lo, hi, step, off, <<>>, is)
AnyNum(k, is)                == Row(k, "Int", 0, 0, 1, 0, <<>>, is)
Flag(k, is)                  == Row(k, "Bool", 0, 0, 1, 0, <<>>, is)
Pick(k, opts, is)            == Row(k, "Enum", 0, 0, 1, 0, opts, is)
\* A text its setter checks against what it can be, and one it takes as it is.
Text(k, opts, is)            == Row(k, "Str", 0, 0, 1, 0, opts, is)
AnyText(k, is)               == Row(k, "Str", 0, 0, 1, 0, <<>>, is)

(* A jumper to an interrupt line, and the choices of a row without pin 73. *)
Lines == <<"vi0", "vi1", "vi2", "vi3", "vi4", "vi5", "vi6", "vi7">>
Strap(k)    == Pick(k, <<"none", "int">> \o Lines, "none")
LevelOnly(k) == Pick(k, <<"none">> \o Lines, "none")

(* The endpoints of a line: what a resolver makes of the text, if anything. *)
Endpoints == <<"null", "console", "socket">>
Line(k) == Text(k, Endpoints, "null")

(* The rows of a unit go under its name. *)
Under(unit, rows) == [i \in DOMAIN rows |-> [rows[i] EXCEPT !.key = unit \o "." \o @]]

-----------------------------------------------------------------------------
(* parseValue and validate: an integer has a range unless both ends are 0; a *)
(* choice is one of the choices.  The setter's step comes after them.        *)
Fits(r, v) ==
  CASE r.kind = "Int"  -> /\ (r.lo = 0 /\ r.hi = 0) \/ v \in r.lo..r.hi
                          /\ (v - r.off) % r.step = 0
    [] r.kind = "Bool" -> v \in BOOLEAN
    [] OTHER           -> r.opts = <<>> \/ v \in Range(r.opts)

Taken(s)   == [ok |-> TRUE, s |-> s]
Refused(s) == [ok |-> FALSE, s |-> s]

(* The plain setter: the value is stored. *)
Stored(s, k, v) == Taken([s EXCEPT ![k] = v])

(* The values worth trying on a row: the ends, beside the ends, past them. *)
Tries(r) ==
  CASE r.kind = "Bool" -> BOOLEAN
    [] r.kind = "Int" /\ r.hi = 0 -> {r.is, 1}
    [] r.kind = "Int" -> {r.is, r.lo, r.lo + 1, r.off + r.step, r.hi, r.hi + 1}
    [] r.opts = <<>> -> {r.is, "other"}
    [] OTHER -> {r.is, r.opts[1], r.opts[Len(r.opts)], "nonsense"}

Keys(rows) == {rows[i].key : i \in DOMAIN rows}
RowOf(rows, k) == rows[CHOOSE i \in DOMAIN rows : rows[i].key = k]
Fresh(rows) == [k \in Keys(rows) |-> RowOf(rows, k).is]
\* What a card holds besides its rows.
And(s, more) == [k \in DOMAIN s \union DOMAIN more |->
                  IF k \in DOMAIN more THEN more[k] ELSE s[k]]

-----------------------------------------------------------------------------
(***************************************************************************)
(* Drive tables.  A card with drives says how many it can have, whether a  *)
(* row "drives" says how many it has, which formats a diskette can be      *)
(* forced to, and how its table reads a flag: through parseValue, or by    *)
(* comparing the text with four words in lower case.                       *)
(***************************************************************************)
Drives(max, chain, media, reads) ==
  [max |-> max, chain |-> chain, media |-> media, reads |-> reads]
Empty == [image |-> "none", ro |-> FALSE, forced |-> ""]
DriveBay(d) == [disk |-> [i \in 0..d.max - 1 |-> Empty]]
DriveCount(d, s) == IF d.chain THEN s["drives"] ELSE d.max

(* "drives": refused while a drive that would go still has a disk in it.  A *)
(* drive that goes forgets the format its diskettes were forced to.         *)
SetDrivesMutant(s, n) ==
  IF \E i \in DOMAIN s.disk : i >= n /\ s.disk[i].image # "none"
    THEN Refused([s EXCEPT !["drives"] = n]) ELSE Taken([s EXCEPT !["drives"] = n])
SetDrives(s, n) ==
  IF \E i \in DOMAIN s.disk : i >= n /\ s.disk[i].image # "none" THEN Refused(s)
  ELSE Taken([s EXCEPT !["drives"] = n,
                !.disk = [i \in DOMAIN s.disk |-> IF i >= n THEN Empty ELSE s.disk[i]]])

(* MOUNT: the write protection is the image's own or the one asked for; a   *)
(* format asked for is kept by the drive, and stays when none is asked for. *)
Mounted(d, s, i, image, ro, keys) ==
  IF i >= DriveCount(d, s) \/ image = "bad" THEN Refused(s)
  ELSE Taken([s EXCEPT !.disk[i] =
                [image |-> image, ro |-> ro \/ image = "protected",
                 forced |-> IF "media" \in DOMAIN keys THEN keys.media ELSE @.forced]])
Unmounted(s, i) == [s EXCEPT !.disk[i].image = "none", !.disk[i].ro = FALSE]

(* subUnits(): a table for every drive with a disk or a forced format. *)
DriveTablesMutant(d, s) ==
  LET held == SelectSeq([n \in 1..d.max |-> n - 1], LAMBDA i : s.disk[i].image # "none")
  IN  [n \in DOMAIN held |->
         [table |-> "drive", unit |-> held[n], mount |-> s.disk[held[n]].image,
          readonly |-> IF s.disk[held[n]].ro THEN "true" ELSE "",
          media |-> s.disk[held[n]].forced]]
DriveTables(d, s) ==
  LET held == SelectSeq([n \in 1..d.max |-> n - 1],
                        LAMBDA i : \/ s.disk[i].image # "none"
                                   \/ s.disk[i].forced # "" /\ d.media # <<>>)
  IN  [n \in DOMAIN held |->
         [table |-> "drive", unit |-> held[n], mount |-> s.disk[held[n]].image,
          readonly |-> IF s.disk[held[n]].ro THEN "true" ELSE "",
          media |-> s.disk[held[n]].forced]]

(* A flag as the text of a table has it: any spelling passes the check, and *)
(* the card that compares words then takes "TRUE" for no.                   *)
Truths == {"true", "TRUE"}
FlagOf(d, text) == IF d.reads = "words" THEN text = "true" ELSE text \in Truths

(* loadSubUnit and addSubUnit: the schema refuses a drive past the last, a  *)
(* table without a disk only sets the format, and one with a disk mounts it *)
(* with the format it says, or with none.                                   *)
LoadDrive(d, s, t) ==
  IF t.unit >= DriveCount(d, s) THEN Refused(s)
  ELSE IF t.mount = "none"
    THEN Taken(IF d.media = <<>> THEN s ELSE [s EXCEPT !.disk[t.unit].forced = t.media])
  ELSE Mounted(d, s, t.unit, t.mount, FlagOf(d, t.readonly),
               IF d.media = <<>> THEN <<>> ELSE [media |-> t.media])

=============================================================================
