SPECIFICATION WatchingSpec
CONSTANTS
 Files <- MCFiles
 Matchers <- MCMatchers
 CustomNames = {".mylspignore", ".[x"}
 InvalidNames = {".[x"}
 IgnoreFiles <- MCIgnoreFiles
 MaxEdits = 2
INVARIANT HonouredAreWatched
CHECK_DEADLOCK FALSE
