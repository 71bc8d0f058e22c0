SPECIFICATION TokenSpec
CONSTANTS
 Texts <- MCTexts
 Inserts <- MCInserts
 Encodings = {"utf-8", "utf-16"}
 NoStream = NoStream
 MaxDeltas = 1
 Highlights <- MCHighlights
INVARIANTS TextsAgree TreeSound CacheIsServed InsertsAsInFull StreamFollows
