\* A long-running process (no exit, no signal): two threads, one subsystem, the stdout stream and one more name, four calls.
CONSTANTS
  a1 = a1
  a2 = a2
  Apps = {a1, a2}
  NoThread = NoThread
  Names = {"main"}
  StreamNames = {"stdout", "file"}
  Levels = {0, 6}
  MaxCalls = 4
  MaxObjects = 2
  Exits = FALSE
  Crashes = FALSE
SPECIFICATION Spec
INVARIANT NoInvalidAccess
CHECK_DEADLOCK FALSE
