\* One tab with two requests and a logout; enough tokens for all of them to refresh.
CONSTANTS
    t1 = t1
    r1 = r1
    r2 = r2
    Logout = Logout
    Tabs <- MCTabs
    Reqs <- MCReqs
    MaxTokens = 5
SPECIFICATION FairSpec
INVARIANTS
    TypeOK
    QueuedHaveRefresher
    SessionSurvives
PROPERTY
    QueuedAreResent
