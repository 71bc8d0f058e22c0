SPECIFICATION DispatchSpec
CONSTANTS
 u1 = u1
 f1 = f1
 r1 = r1
 Requests = {r1}
 Urls = {u1}
 Folders = {}
 Matched = {u1}
 Encoded = {}
 Ignorable = {}
 Under <- MCUnder
 SaveTexts <- MCTextSaves
 ClientVersions = {1, 2, 3}
 FreshVersions = TRUE
 FileWatching = FALSE
 MultiThread = TRUE
 MaxClock = 4
INVARIANT CacheIsClients
PROPERTY AnswersAreFresh
