SPECIFICATION MessagesSpec
CONSTANTS
    Requests <- MCRequests
    Width <- MCWidth
    Forms <- MCForms
    Nets <- MCNets
    Ssid = {home, cabin}
    Mixed = Mixed
    Conn = {c1, c2}
    None = None
    NULL = NULL
    PageSize = 2
    MaxNets = 6
    MaxPage = 4
    NoInfo = NoInfo
    Hour = 3
    Week = 10
    WeekBase = 5
    Far = 30
    Stamps <- MCStamps
    Lists <- MCLists
    Net = {n1, n2, n3}
    NoNet = NoNet
INVARIANTS
    MessagesTypeOK
    RequestsMet
    JsonKept
    NothingLeft
    StaysInList
    AllSent
    FoundRightly
PROPERTIES
    JoinsPosted
    SleepsWhenTold
    ActsOnTime
