SPECIFICATION MCSpec
CONSTANTS
  v1 = v1
  v2 = v2
  None = None
  Values <- PackValues
  Followers <- PackFollowers
  MaxInserts = 4
  MaxAppends = 3
  MaxBytes = 16480
  LP_NUMELE_UNKNOWN = 2
  Commands <- ShortCommands
  MaxCommands = 2
INVARIANT TreeIsCompressed
INVARIANT PackReadsBack
INVARIANT HeaderIsTrue
INVARIANT WalksBackwards
INVARIANT FirstWholeCommand
PROPERTY TreeIsMap
CHECK_DEADLOCK FALSE
