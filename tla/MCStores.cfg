CONSTANTS
    Turn = {t1}
    Viewer = {v1}
    Saver = {s1}
    Clearer = {k1}
    Nobody = Nobody
    MaxMessages = 2
    MaxSummaries = 2
    MaxCrashes = 1
    Caller = {c1, c2}
    Account = {a1, a2}
    Registration = {r1, r2}
    MaxTokens = 3
    MaxLogouts = 2
    MaxGeneration = 4
    MaxIds = 2
    Channel = {chat, sub}
    SubSession = {sub}
    NoChannel = NoChannel
    MaxRestarts = 1
    Process = {p1, p2}
    NoProcess = NoProcess
    Key = {key1}
    Text = {x1}
    Chat = {chat1, chat2}
    NoRecord = NoRecord
    NoAsk = NoAsk
    MaxUuids = 2
    MaxCalls = 3
    MaxDeaths = 1
SPECIFICATION StoresSpec
INVARIANTS MemoryTypeOK NothingHidden SummariesHold
INVARIANTS StoredIsUsable LogoutHolds
INVARIANTS AtMostOnce CompleteIsTrue
INVARIANTS IndexIsSound ChannelIsDurable EndIsDurable
PROPERTY AccountIsKept
CHECK_DEADLOCK FALSE
