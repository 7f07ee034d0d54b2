---------------------------- MODULE DecodeCache ----------------------------
(***************************************************************************)
(* Bus cycles and the decode tables behind them.                           *)
(*                                                                         *)
(* The meaning of a cycle is the exact path: resolve PHANTOM*, ask every   *)
(* card in slot order whether it answers, let all of them drive.  The fast *)
(* path serves a cycle from tables with one entry per 256-byte page and    *)
(* per port, rebuilt at the next cycle after a card called decodeChanged.  *)
(* A card may change its decode from inside the cycle it is answering or   *)
(* watching (a bank strap written by OUT, PHANTOM* released by a read), so *)
(* the tables and the wiring are two pieces of state that move apart and   *)
(* come together again.                                                    *)
(*                                                                         *)
(* A card's straps, latches and bank registers are one value, which says   *)
(* for which cycles it answers, answers under PHANTOM*, pulls PHANTOM*,    *)
(* and reads from its own chips.                                           *)
(***************************************************************************)
EXTENDS Integers, Sequences

CONSTANTS
  Cards,
  Straps,     \* Straps[b]: the decodes card b can be in
  Snoopers,   \* the cards whose wantsSnoop() is true
  Uniform,    \* the cards whose decodeIsPageUniform() is true
  Peekable,   \* the cards that can answer peek()
  Mem,        \* memory addresses
  Pages,      \* 256-byte pages
  PageOf,     \* the page of an address
  Base,       \* the first address of a page
  Ports

NoCard == "none"
MemTypes == {"MemRead", "MemWrite"}
IoTypes  == {"IoRead", "IoWrite"}
MemCycles == [type : MemTypes, at : Mem]
IoCycles  == [type : IoTypes, at : Ports]
IntAck    == [type |-> "IntAck", at |-> "vector"]
Cycles    == MemCycles \cup IoCycles \cup {IntAck}

\* What decodes(c), assertsPhantom(c) and readsOnBoard(c) return, as sets.
Strapping == [clear : SUBSET Cycles, shadowed : SUBSET Cycles,
              shadows : SUBSET Cycles, onBoard : SUBSET Cycles]

\* A memory card decodes a page or none of it when it says so, and no card looks
\* at PHANTOM* on a port or an acknowledge.
PageUniform(s) ==
  \A c, d \in MemCycles :
    c.type = d.type /\ PageOf[c.at] = PageOf[d.at] =>
      /\ c \in s.clear <=> d \in s.clear
      /\ c \in s.shadowed <=> d \in s.shadowed
      /\ c \in s.shadows <=> d \in s.shadows
      /\ c \in s.onBoard <=> d \in s.onBoard

ASSUME DecodeCacheAssumption ==
  /\ NoCard \notin Cards
  /\ Snoopers \subseteq Cards /\ Uniform \subseteq Cards /\ Peekable \subseteq Cards
  /\ PageOf \in [Mem -> Pages]
  /\ Base \in [Pages -> Mem]
  /\ \A p \in Pages : PageOf[Base[p]] = p
  /\ \A b \in Cards : Straps[b] # {} /\ Straps[b] \subseteq Strapping
  /\ \A b \in Cards : \A s \in Straps[b] :
       /\ b \in Uniform => PageUniform(s)
       /\ \A c \in Cycles \ MemCycles : c \in s.clear <=> c \in s.shadowed

VARIABLES
  boards,     \* Bus::boards_, in slot order
  inUse,      \* Board::enabled_
  strap,      \* strap[b]: the decode card b is in now
  dirty,      \* Bus::dirty_
  tables,     \* memRead_, memWrite_, ioRead_, ioWrite_
  snoopers,   \* Bus::snoopers_
  contended,  \* Bus::contended_
  last        \* the cycle just run: what the bus did, and what the exact path is

decodeVars == <<boards, inUse, strap, dirty, tables, snoopers, contended, last>>

In == {boards[i] : i \in DOMAIN boards}
-----------------------------------------------------------------------------
(***************************************************************************)
(* The exact path.                                                         *)
(***************************************************************************)

\* Bus::anyAssertsPhantom
Phantom(c) == \E b \in In : inUse[b] /\ c \in strap[b].shadows

Decodes(b, c, ph) ==
  inUse[b] /\ c \in (IF ph THEN strap[b].shadowed ELSE strap[b].clear)

\* The first card in slot order that is one of S.
FirstIn(S) ==
  boards[CHOOSE i \in DOMAIN boards : boards[i] \in S /\ \A j \in 1..(i-1) : boards[j] \notin S]

\* Bus::decoders: a card that reads on board is the only answer to its read.
Answering(c, ph) ==
  LET driving == {b \in In : Decodes(b, c, ph)}
      own == {b \in driving : c.type \in {"MemRead", "IoRead"} /\ c \in strap[b].onBoard}
  IN  IF own = {} THEN driving ELSE {FirstIn(own)}

First(S) == IF S = {} THEN NoCard ELSE FirstIn(S)
Many(S)  == \E a, b \in S : a # b

IsRead(c) == c.type \in {"MemRead", "IoRead", "IntAck"}

\* What a cycle does when the cards in answering drive it under PHANTOM* = ph:
\* one card is read, or all of them are written.
Effect(c, answering, ph, watching) ==
  [phantom |-> ph, responder |-> First(answering),
   touched |-> IF IsRead(c) THEN {First(answering)} \ {NoCard} ELSE answering,
   unclaimed |-> answering = {}, contended |-> Many(answering), seen |-> watching]

\* Only the memory paths settle PHANTOM*.
Settled(c) == c \in MemCycles /\ Phantom(c)
Exact(c) ==
  Effect(c, Answering(c, Settled(c)), Settled(c), {b \in In \cap Snoopers : inUse[b]})
-----------------------------------------------------------------------------
(***************************************************************************)
(* The tables.                                                             *)
(***************************************************************************)
Keys == [type : MemTypes, at : Pages] \cup IoCycles
KeyOf(c) == IF c \in MemCycles THEN [type |-> c.type, at |-> PageOf[c.at]] ELSE c

\* Bus::resolve
Resolve(c) ==
  LET answering == Answering(c, Phantom(c))
  IN  [who |-> First(answering), phantom |-> Phantom(c), slow |-> Many(answering)]

PageSlotMutant(k) == Resolve([type |-> k.type, at |-> Base[k.at]])

\* Bus::rebuild: unless every card is page-uniform, every address of a page is
\* probed, and a page with two answers is left to the exact path.
PageSlot(k) ==
  LET slot == Resolve([type |-> k.type, at |-> Base[k.at]])
      probed == {Resolve([type |-> k.type, at |-> a]) : a \in {x \in Mem : PageOf[x] = k.at}}
  IN  IF In \subseteq Uniform \/ probed \subseteq {slot} THEN slot
      ELSE [slot EXCEPT !.slow = TRUE]

Rebuilt == [k \in Keys |-> IF k \in IoCycles THEN Resolve(k) ELSE PageSlot(k)]

\* The cards that get every cycle.
Watching == In \cap Snoopers

\* memRead, memWrite, ioRead and ioWrite, served from slot s: the fast path
\* leaves contended_ as the cycle before left it.
Served(c, s, watching) ==
  LET did == Effect(c, {s.who} \ {NoCard}, c \in MemCycles /\ s.phantom, watching)
  IN  [did EXCEPT !.contended = contended]
-----------------------------------------------------------------------------
NoCycle == [type |-> "none"]

DecodeInit ==
  /\ boards = <<>>
  /\ inUse = [b \in Cards |-> TRUE]
  /\ strap \in [Cards -> UNION {Straps[b] : b \in Cards}]
  /\ \A b \in Cards : strap[b] \in Straps[b]
  /\ dirty = TRUE
  /\ tables = [k \in Keys |-> [who |-> NoCard, phantom |-> FALSE, slow |-> FALSE]]
  /\ snoopers = {}
  /\ contended = FALSE
  /\ last = NoCycle

\* A card that answers or watches a cycle may move a strap of its own in it; it
\* says so by decodeChanged(), and the tables are dirty from then on.
AnnouncedMutant == dirty
Announced == TRUE

StrapMoves(b) ==
  /\ \E s \in Straps[b] : strap' = [strap EXCEPT ![b] = s]
  /\ dirty' = Announced
  /\ UNCHANGED <<boards, inUse>>

\* Bus::settle and what the cards do in the cycle.
Settle(c, did, dirtyNow) ==
  /\ contended' = did.contended
  /\ last' = [type |-> c.type, did |-> did, exact |-> Exact(c)]
  /\ \/ dirty' = dirtyNow /\ UNCHANGED <<boards, inUse, strap>>
     \/ \E b \in (did.touched \cup did.seen) \cap In : StrapMoves(b)

\* memRead, memWrite, ioRead, ioWrite
BusCycle(c) ==
  /\ c \in MemCycles \cup IoCycles
  /\ tables' = IF dirty THEN Rebuilt ELSE tables
  /\ snoopers' = IF dirty THEN Watching ELSE snoopers
  /\ LET s == tables'[KeyOf(c)]
         watching == {b \in snoopers' : inUse[b]}
     IN  Settle(c, IF s.slow THEN [Exact(c) EXCEPT !.seen = watching]
                   ELSE Served(c, s, watching), FALSE)

\* intAck asks the cards the exact way, but does not rebuild.
Acknowledge ==
  /\ UNCHANGED <<tables, snoopers>>
  /\ Settle(IntAck, [Exact(IntAck) EXCEPT !.seen = {b \in snoopers : inUse[b]}], dirty)
-----------------------------------------------------------------------------
\* Bus::attach and Bus::detach
AttachCard(b) ==
  /\ b \notin In
  /\ boards' = Append(boards, b)
  /\ \E s \in Straps[b] : strap' = [strap EXCEPT ![b] = s]
  /\ \E e \in BOOLEAN : inUse' = [inUse EXCEPT ![b] = e]
  /\ dirty' = TRUE
  /\ last' = NoCycle
  /\ UNCHANGED <<tables, snoopers, contended>>

InvalidatedMutant == dirty
Invalidated == TRUE

DetachCard(b) ==
  /\ \E i \in DOMAIN boards :
       /\ boards[i] = b
       /\ boards' = [j \in 1..(Len(boards) - 1) |-> boards[IF j < i THEN j ELSE j + 1]]
  /\ dirty' = Invalidated
  /\ last' = NoCycle
  /\ UNCHANGED <<inUse, strap, tables, snoopers, contended>>

\* Board::setEnabled
EnableCard(b) ==
  /\ b \in In
  /\ inUse' = [inUse EXCEPT ![b] = ~inUse[b]]
  /\ dirty' = TRUE
  /\ last' = NoCycle
  /\ UNCHANGED <<boards, strap, tables, snoopers, contended>>

\* SET of a property, a reset, POWER, a chip pulled from its socket.
Rewire(b) ==
  /\ b \in In
  /\ StrapMoves(b)
  /\ last' = NoCycle
  /\ UNCHANGED <<tables, snoopers, contended>>

DecodeNext ==
  \/ \E c \in MemCycles \cup IoCycles : BusCycle(c)
  \/ Acknowledge
  \/ \E b \in Cards : AttachCard(b) \/ DetachCard(b) \/ EnableCard(b) \/ Rewire(b)

DecodeSpec == DecodeInit /\ [][DecodeNext]_decodeVars
-----------------------------------------------------------------------------
SlotType == [who : Cards \cup {NoCard}, phantom : BOOLEAN, slow : BOOLEAN]

DecodeTypeOK ==
  /\ boards \in Seq(Cards)
  /\ \A i, j \in DOMAIN boards : boards[i] = boards[j] => i = j
  /\ inUse \in [Cards -> BOOLEAN]
  /\ \A b \in Cards : strap[b] \in Straps[b]
  /\ dirty \in BOOLEAN
  /\ tables \in [Keys -> SlotType]
  /\ snoopers \subseteq Snoopers
  /\ contended \in BOOLEAN

\* What Bus::verifySlot aborts on: while the tables are trusted, a slot that is
\* not left to the exact path names the only driver of every cycle it serves, and
\* the PHANTOM* level of each -- for every order of rewiring, in and out of cycles.
TablesAreExact ==
  ~dirty =>
    /\ snoopers = In \cap Snoopers
    /\ \A c \in MemCycles \cup IoCycles :
         tables[KeyOf(c)].slow \/ tables[KeyOf(c)] = Resolve(c)

\* A cached cycle reads, writes and wakes exactly the cards the exact path does,
\* under the same PHANTOM* level, and blames the same responder.  (The contention
\* flag and the watchers of an acknowledge are the two exceptions, see below.)
CycleIsExact ==
  last.type # "none" =>
    /\ \A f \in {"phantom", "responder", "touched", "unclaimed"} :
         last.did[f] = last.exact[f]
    /\ last.type # "IntAck" => last.did.seen = last.exact.seen

\* Bus::peek: the card whose byte DISASM shows at address a, by the cache or by
\* the exact scan, which goes on to the next card when one cannot be peeked.
PeekWho(a) ==
  LET c == [type |-> "MemRead", at |-> a]
      s == tables[KeyOf(c)]
  IN  IF ~dirty /\ ~s.slow THEN {s.who} \cap Peekable
      ELSE LET can == Answering(c, Phantom(c)) \cap Peekable
           IN  {First(can)} \ {NoCard}

\* What the disassembler and the tracer show is what a read would bring, from the
\* same card, whether or not the tables are dirty; only contention may differ.
PeekIsRead ==
  \A a \in Mem :
    LET e == Exact([type |-> "MemRead", at |-> a])
    IN  ~e.contended => PeekWho(a) = e.touched \cap Peekable
=============================================================================
