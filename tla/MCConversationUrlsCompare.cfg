SPECIFICATION ConversationSpec
CONSTANTS
    Chats = {c1}
    Providers = {"chatgpt", "claude"}
    Turns = {n1, n2}
    MaxUrls = 2
    MaxSetbacks = 0
CHECK_DEADLOCK FALSE
INVARIANTS UrlsKeptInCompare
