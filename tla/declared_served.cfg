SPECIFICATION SessionSpec
CONSTANTS
 Declarations <- MCDeclarations
 Implemented = {"rename_prepare", "will_save_wait_until"}
 Modes = {"disabled", "enabled", "configurable", "configurableOff"}
 Clients <- MCClients
 Called = {"rename", "rename_prepare", "will_save_wait_until", "supertypes"}
 Requests = {"r1"}
INVARIANT DeclaredIsServed
