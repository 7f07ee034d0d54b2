---------------------------- MODULE Configuration ----------------------------
(***************************************************************************)
(* A card at the monitor: it comes from a machine file, its rows are set,  *)
(* media go in and out, and its guest writes what a row shows.             *)
(***************************************************************************)
EXTENDS CardSettings

CONSTANTS Cards,       \* the types of card
          MaxChanges,  \* what is done to a card
          FileTables   \* by card, the tables its file may have

ASSUME ChangesAssumption == MaxChanges \in Nat

VARIABLES card,    \* the type of the card
          s,       \* its rows, and what it holds besides
          taken,   \* whether the last change was taken
          changes  \* how often it was changed
cardVars == <<card, s, taken, changes>>

CardInit == /\ card \in Cards
            /\ s = NewCard(card)
            /\ taken = TRUE
            /\ changes = 0

\* Cards whose rows look at other rows, or whose files have tables, get one more change.
Coupled == {"bankmem", "vgzcb", "uio"}
Budget == IF card \in Coupled \union DOMAIN FileTables THEN MaxChanges ELSE MaxChanges - 1

Changed(out) == /\ changes < Budget
                /\ changes' = changes + 1
                /\ s' = out.s
                /\ taken' = out.ok
                /\ UNCHANGED card

(* SET.  Rows whose setters look at other rows are tried on more values.    *)
More(k) == CASE k = "window_hi" -> {\h4FF, \h1FF}
             [] k = "banks" -> {5}
             [] k = "ram" -> {256, 512}
             [] k \in {"serial_port", "parallel_port", "port"} -> {8, \h10}
             [] OTHER -> {}
SetRow ==
  \E i \in DOMAIN RowsIn(card, s) :
    LET r == RowsIn(card, s)[i]
    IN  \E v \in Tries(r) \union (IF card \in Coupled THEN More(r.key) ELSE {}) :
          Changed(Setting(card, s, r.key, v))

(* The tables of the file the card came from: they are read after the rows, *)
(* before anything goes into the card or comes out of it.                   *)
FromFile == /\ changes <= 1
            /\ card \in DOMAIN FileTables
            /\ \E t \in FileTables[card] : Changed(LoadTable(card, s, t))

(* MOUNT and UNMOUNT, of disks, of cassettes, of the chips in sockets.      *)
MountDisk ==
  /\ card \in DiskCards
  /\ \E i \in {0, 1, DriveCount(Bay(card), s)} \intersect DOMAIN s.disk,
        image \in {"disk", "protected", "bad"}, ro \in BOOLEAN,
        keys \in {<<>>} \union {[media |-> m] : m \in Range(Bay(card).media)} :
       Changed(Mounted(Bay(card), s, i, image, ro, keys))
UnmountDisk ==
  /\ card \in DiskCards
  /\ \E i \in DOMAIN s.disk : s.disk[i].image # "none" /\ Changed(Taken(Unmounted(s, i)))
TapeInOrOut ==
  /\ card \in {"acr", "uio", "sol"}
  /\ \E unit \in DOMAIN s.tapes : Changed(Taken(TapeMounted(s, unit, ~s.tapes[unit])))
ChipInOrOut ==
  \/ /\ card = "memory"
     /\ \E i \in DOMAIN s.regions, image \in DOMAIN Images :
          s.regions[i].type = "rom" /\ Changed(RegionMounted(s, i, image))
  \/ /\ card = "pb1"
     /\ \/ \E u \in {"u22", "u23"}, image \in {"none", "chip"} : Changed(Stored(s, u, image))
        \/ \E i \in DOMAIN s.proms, image \in {"none", "chip"} :
             Changed(Taken([s EXCEPT !.proms[i].mount = image]))

GuestRate == /\ card \in {"16fdc", "64fdc"}
             /\ \E rate \in {0, 110, 9600}, hbd \in BOOLEAN :
                  Changed(Taken(GuestSelects(s, rate, hbd)))

CardNext == SetRow \/ FromFile \/ MountDisk \/ UnmountDisk \/ TapeInOrOut \/ ChipInOrOut \/ GuestRate

-----------------------------------------------------------------------------
(* The states a file cannot bring back.  Two rows that may not be equal are  *)
(* set one after the other on a new card, which has a value of its own.      *)
Crossed ==
  CASE card = "vgzcb" -> s["serial_port"] = 8
    [] card = "uio" -> s["port"] = \h10
                       \/ s["tape.stop"] # "off"
    [] card = "acr" -> s["tape.stop"] # "off"
    [] card = "sol" -> s["tape1.stop"] # "off" \/ s["tape2.stop"] # "off"
    [] card \in {"16fdc", "64fdc"} -> s["tty.baud"] > 76800
    [] card = "pb1" -> \E i \in DOMAIN s.proms : s.proms[i].mount = "none"
    [] card = "memory" -> \E i \in DOMAIN s.regions : Runs(s.regions[i])
    [] card = "sbc" ->
         \E i \in DOMAIN s.sockets :
           \/ s["bank"] >= 8 \div (2 ^ RomLog(s))
           \/ s.sockets[i].at \notin Socketed(s)
           \/ \E j \in 1..(i - 1) : SocketOf(s, s.sockets[j].at) = SocketOf(s, s.sockets[i].at)
    [] card = "bankmem" ->
         \/ s["card"] # "vector" /\ (s["window_lo"] # 0 \/ s["window_hi"] # \hFFFF)
         \/ s["card"] = "vector" /\ RamBytes(s, s.want) % 1024 # 0
              /\ (s.want > 1 \/ RamBytes(s, s.want) < 1024)
         \/ s["card"] = "expandoram2" /\ s["partition"] = "none" /\ s.want > 4
    [] OTHER -> FALSE

(* What is in the card, besides its rows.  Cassettes are not saved. *)
Held == {"disk", "sockets", "regions", "proms", "u22", "u23"}

(* What a card is saved as can be loaded, and then saves the same again,     *)
(* in every state but those.                                                 *)
SavedCardLoads ==
  LET file == Saved(card, s)
      again == LoadCard(card, file)
      same == /\ Saved(card, again.s) = file
              /\ \A k \in Held \intersect DOMAIN s : again.s[k] = s[k]
  IN  (again.ok /\ same) <=> ~Crossed

(* A setting that is refused leaves the card as it was.  The exception is the *)
(* window of a bank card, whose end goes back to that of a new card.          *)
WindowForgotten == card = "bankmem" /\ \E k \in {"window_lo", "window_hi"} : s'[k] # s[k]
RefusedSetChangesNothing == [][~taken' => s' = s \/ WindowForgotten]_cardVars

=============================================================================
