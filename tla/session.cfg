SPECIFICATION ClientSpec
CONSTANTS
 Declarations <- MCDeclarations
 Implemented = {"rename_prepare", "will_save_wait_until"}
 Modes = {"disabled", "enabled", "configurable", "configurableOff"}
 Clients <- MCClients
 Called = {"rename", "rename_prepare", "will_save_wait_until", "supertypes"}
 Requests = {"r1", "r2"}
 Carries = {TRUE, FALSE}
 Settings <- MCSettings
 Files <- MCFiles
 Matchers <- MCMatchers
 CustomNames = {".mylspignore", ".[x"}
 InvalidNames = {".[x"}
 IgnoreFiles <- MCIgnoreFiles
 MaxEdits = 2
INVARIANTS GateAgreesWithClient WarnsOnce EncodingAgreed ImplementorDecides AsksWithinMandate QuiescentAgrees RegisteredTruthful ClientLearns ListFollowsDisk
PROPERTY Converges
CHECK_DEADLOCK FALSE
