SPECIFICATION Spec
CONSTANT Guests <- MCGuests
INVARIANTS StopsAreHonest
PROPERTIES InstructionsAreWhole HaltEnds
CHECK_DEADLOCK FALSE
