--------------------------- MODULE MCDecodeCache ---------------------------
(***************************************************************************)
(* Two pages, the first with two addresses, and one port.  A RAM card that *)
(* honours PHANTOM* on reads and can be strapped out of page 0; a boot     *)
(* card that shadows the first address of page 0 only (it decodes a low    *)
(* address line), watches the bus, and once released answers the port and  *)
(* the acknowledge; a processor card with its own port and memory behind   *)
(* closed data-in buffers, or with those buffers open as a second RAM.     *)
(***************************************************************************)
EXTENDS DecodeCache
CONSTANTS ram, boot, board

MCCards == {ram, boot, board}
MCMem == {0, 1, 10}
MCPages == {0, 1}
MCPageOf == [a \in MCMem |-> IF a = 10 THEN 1 ELSE 0]
MCBase == [p \in MCPages |-> IF p = 0 THEN 0 ELSE 10]
MCPorts == {5}

Reads(A)  == [type : {"MemRead"}, at : A]
Writes(A) == [type : {"MemWrite"}, at : A]
PortIO    == [type : {"IoRead", "IoWrite"}, at : {5}]

RamAt(A) == [clear |-> Reads(A) \cup Writes(A), shadowed |-> Writes(A),
             shadows |-> {}, onBoard |-> {}]
BootArmed == [clear |-> Reads({0}), shadowed |-> Reads({0}),
              shadows |-> Reads({0}) \cup Writes({0, 1}), onBoard |-> {}]
Own(C) == [clear |-> C, shadowed |-> C, shadows |-> {}, onBoard |-> C]
Vector == [clear |-> {IntAck} \cup PortIO, shadowed |-> {IntAck} \cup PortIO,
           shadows |-> {}, onBoard |-> {}]

MCStraps == [b \in MCCards |->
               CASE b = ram -> {RamAt({0, 1, 10}), RamAt({10})}
                 [] b = boot -> {BootArmed, Vector}
                 [] b = board -> {Own(Reads({0, 1}) \cup PortIO), RamAt({0, 1})}]
MCSnoopers == {boot}
MCUniform == {ram, board}
MCPeekable == {ram, boot}
=============================================================================
