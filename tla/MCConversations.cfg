SPECIFICATION ConversationsSpec
CONSTANTS
    Outcomes <- JobOutcomes
    Texts <- Answers
    ChromeTexts <- Menus
    Idle = 1
    Total = 4
    WallEvery = 2
    Threads = {t1, t2, t3}
    NoThread = NoThread
    Limit = 1
    Rounds = 1
    MaxChanges = 2
    Chats = {c1}
    Providers = {"chatgpt", "claude"}
    Turns = {n1, n2}
    MaxUrls = 3
    MaxSetbacks = 1
    UsageKeys = {u1, u2}
    UsageProviders = {q1, q2}
    NoKey = NoKey
    PageSize = 1
    RecentEvents = 2
    MaxLogged = 3
    MaxUpdates = 2
CHECK_DEADLOCK FALSE
INVARIANTS RowAgrees WholeAnswer PagesOnce UrlsKept LogTold
PROPERTIES EndReleased SendEnds
