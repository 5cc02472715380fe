SPECIFICATION ServicesSpec
CONSTANTS
    Inbounds = {i1, i2}
    Bridges = {b1, b2}
    Streams = {s1}
    NoInbound = NoInbound
    NoBridge = NoBridge
    Turns = {t1, t2, t3}
    RevokedCap = 2
    CapTokenTTL = 3
    RevokeTTL = 1
    MaxNow = 4
    Requests = {x1, x2}
    ExeNames = {n1, n2}
    NoName = NoName
    Devices = {e1, e2}
    Clients = {g3, g4}
    MaxTokens = 4
    Handlers = {h1, h2}
    Proxied = {q1}
    NoTunnel = NoTunnel
    Messages = {m1, m2, m3}
    Runs = {a1}
    QueueCap = 1
    NoThread = NoThread
    NoSession = NoSession
    Loops = {l2, l3}
    ChannelRequests = {x3, x4}
    NoLoop = NoLoop
    MaxMessages = 2
    MaxStarts = 3
    MaxReboots = 1
    Senders = {f1, f2}
    Room = Room
    MaxTexts = 4
    Tenants = {w3, w4}
    Boxes = {bx1, bx2}
    OpenclawBoxes = {bx1}
    Bots = {tg, wa}
    PushBots = {wa}
    Channels = {ch1, ch2}
    ImRequests = {y1, y2}
    NoBox = NoBox
    MaxAsked = 3
    MaxBoots = 1
    Waits = {v3, v4}
    MaxCodes = 2
    Fronts = {f4, f5}
    RemoteTokens = {o1}
    SessionRows = {j1}
    NoRowId = NoRowId
    NoToken = NoToken
    Machines = {o2}
    Uses = {x5, x6}
    Links = {j3, j4}
    Procs = {z2}
    NoMachine = NoMachine
    NoLink = NoLink
    NoProc = NoProc
    MaxRenames = 1
    Copies = {z1}
    Lines = {n3, n4}
    Empty = Empty
    Paths = {o3, o4}
    NoPath = NoPath
    HerePath = o3
    Operations <- PatchOperations
    Sources <- PatchSources
VIEW ServicesView
INVARIANTS
    ServicesTypeOK
    ConnectedIsFound
    TokensSound
    BindFailedIsClean
    NothingTwice
    
    
PROPERTY
    ThreadKept
\* A service whose actors are done stops.
CHECK_DEADLOCK FALSE
