\* Popups that close, dawdle or go on; translators that ask once or twice
\* past the cap.
CONSTANTS
    Popups = {p1, p2}
    Runs = {1, 2}
    MaxHops = 2
    MaxFetches = 4
    MaxResends = 1
    TTL = 2
SPECIFICATION FairSpec
CHECK_DEADLOCK FALSE
INVARIANTS TypeOK ParkedWhereFound AnswersReachTheirFetch BrowserFetchesBounded
PROPERTIES EveryEngineFreed RequestsAnswered
