SPECIFICATION FairRefresh
CONSTANTS
 u1 = u1
 f1 = f1
 f2 = f2
 Urls = {u1}
 Folders = {f1}
 Matched = {u1}
 Encoded = {}
 Ignorable = {u1}
 Under <- MCUnder
 SaveTexts <- MCAnySaves
 ClientVersions = {1, 2}
 FreshVersions = FALSE
 FileWatching = TRUE
 MultiThread = TRUE
 MaxClock = 3
 Polls = {1}
 MaxOrphans = 1
 WalkMayFail = TRUE
INVARIANT StampSound
PROPERTY Settles
