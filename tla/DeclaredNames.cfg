\* Two declarations in up to five constructs, or four and a syntax error; two
\* block macros, the second with a use of the first; command lines of at most
\* two sources.
SPECIFICATION NamesSpec
CONSTANTS
  Names = {"va_list", "T", "a"}
  BuiltinTypes <- MCBuiltins
  Hash <- MCHash
  MinBuckets = 2
  MaxBuckets = 4
  MaxDecls = 2
  MaxOpen = 5
  MaxErrors = 1
INVARIANTS
  NamesAsInC
  TablesStayApart
  Hygienic
  ExitsTruly
CHECK_DEADLOCK FALSE
