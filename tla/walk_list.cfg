SPECIFICATION HistorySpec
CONSTANTS
 u1 = u1
 f1 = f1
 Urls = {u1}
 Folders = {f1}
 Matched = {u1}
 Encoded = {}
 Ignorable = {u1}
 Under <- MCUnder
 SaveTexts <- MCSaves
 ClientVersions = {1}
 FreshVersions = FALSE
 FileWatching = TRUE
 MultiThread = TRUE
 MaxClock = 3
 Polls = {1}
 MaxOrphans = 1
 WalkMayFail = TRUE
INVARIANT ListStaleOnlyIfCrossed
PROPERTIES OpenLostOnlyToLoad StrayOnlyByLoad
