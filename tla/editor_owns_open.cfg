SPECIFICATION RefreshSpec
CONSTANTS
 u1 = u1
 f1 = f1
 f2 = f2
 Urls = {u1}
 Folders = {f1}
 Matched = {u1}
 Encoded = {}
 Ignorable = {}
 Under <- MCUnder
 SaveTexts <- MCTextSaves
 ClientVersions = {1, 2}
 FreshVersions = FALSE
 FileWatching = TRUE
 MultiThread = TRUE
 MaxClock = 3
 Polls = {1}
 MaxOrphans = 1
 WalkMayFail = TRUE
INVARIANT EditorOwnsOpen
