SPECIFICATION DecodeSpec
CONSTANTS
  ram = ram
  boot = boot
  board = board
  Cards <- MCCards
  Straps <- MCStraps
  Snoopers <- MCSnoopers
  Uniform <- MCUniform
  Peekable <- MCPeekable
  Mem <- MCMem
  Pages <- MCPages
  PageOf <- MCPageOf
  Base <- MCBase
  Ports <- MCPorts
INVARIANTS
  TablesAreExact
  CycleIsExact
  PeekIsRead
