SPECIFICATION StoreSpec
CONSTANTS
 u1 = u1
 u2 = u2
 f1 = f1
 Urls = {u1, u2}
 Folders = {f1}
 Matched = {u1, u2}
 Encoded = {u2}
 Ignorable = {u1}
 Under <- MCUnder
 SaveTexts <- MCSaveTexts
 ClientVersions = {1, 2}
 FreshVersions = FALSE
 FileWatching = TRUE
 MultiThread = FALSE
 MaxClock = 4
INVARIANTS TypeOK MirrorsEditor WorkspaceJustified
PROPERTY NeverSilentlyStale
