SPECIFICATION BatchesSpec
CONSTANTS
 N = 2
 Widths = {0, 2}
 Values <- MCValues
 Errors = {"handler", "content_modified", "io", "method_not_found"}
 Listings <- MCListings
 Urls = {1, 2, 3}
 MaxLooks = 2
 MaxClock = 2
 Paths = {1, 2}
 Walks <- MCWalks
 MaxWrites = 2
INVARIANTS PollMerged PollOwnVersions EntriesOfOwnRead
PROPERTIES ImplementsSerial Finishes
CHECK_DEADLOCK FALSE
