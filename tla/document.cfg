SPECIFICATION DocumentSpec
CONSTANTS
 Callers = {"c1", "c2"}
 Contents <- MCContents
 Grammars = {"json", "yaml"}
 Types = {"outline", "tokens"}
 Needs <- MCNeeds
 Sources = {"q"}
 Compiles <- MCCompiles
 Buffers = {0, 2}
 MayPanic = TRUE
 MaxGenerations = 2
 NoOne = NoOne
 Docs <- MCDocs
 Amounts = {0, 1, 3}
INVARIANT RangesAgree
PROPERTIES AnswersAreTheSnapshots CallsReturn
CHECK_DEADLOCK FALSE
