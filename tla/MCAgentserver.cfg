SPECIFICATION AgentserverSpec
CONSTANTS
    Tasks = {k1, k2}
    Letters = {l1}
    Polls = {p1, p2}
    Cancels = {c1}
    Creators = {c2, c3}
    Admins = {d3}
    SandboxIds = {s2, s3, s4}
    Limits = {0, 1}
    Null = Null
    Users = {u1, u2}
    Founder = u1
    Drafts = {d1, d2}
    Promoters = {h3}
    PRPollers = {p3}
    NoDraft = NoDraft
    MaxRestarts = 1
    Visits = {v1, v2}
    Emails = {e3, e4}
    Subjects = {s5}
    NoSubject = NoSubject
    MaxAccounts = 2
    Tabs = {w1, w2}
    Grants = {g1, g2}
    Replicas = {r1, r2}
    NoGrant = NoGrant
    MaxRotations = 2
    Items = {t4, t5}
    Persons = {v5, v6}
    Curator = v6
    Teams = {y3}
    System = System
    Calls = {q2}
    NoItem = NoItem
    NoPerson = NoPerson
    MaxPerAuthor = 1
    Movers = {v5}
    MaxMoves = 1
    Prompts = {q3, q4}
    AnswerLines = 2
    RpdLimits = {0}
    DefaultMaxRPD = 1
    HasGeminiKey = TRUE
    Session = Session
    NoRow = NoRow
    NoLimit = NoLimit
    MaxRpdChanges = 1
    MaxDays = 2
    Forwards = {f1, f2}
    TokenTTL = 2
    TokenMargin = 1
    TokenLives = {1, 4}
    MaxConnections = 3
    Creds = {b1, b2}
    Completes = {c4, c5}
    Removes = {d4, d5}
    NoCred = NoCred
    MaxCredRestarts = 1
    Kubectls = {k3, k4, k5}
    Rotates = {TRUE, FALSE}
    MaxRefreshes = 3
    MaxProxyRestarts = 1
    ToolCalls = {x1, x2}
    OpIds = {n1}
    Workplaces = {o1, o2}
    LogCapacity = 1
    OpTTL = 1
    MaxList = 1
    MaxTicks = 2
    NoOp = NoOp
    Keys = {a1}
    Clients = {a3}
    Tenants = {a5, a6}
    Peppers = {"none", "pepper"}
    MaxLife = 2
    DefaultLife = 1
    MaxKeyDays = 2
    NoKey = NoKey
    Boxes = {y5}
    Works = {w3, w4}
    MaxStarts = 2
    NoBox = NoBox
    Pods = {b3}
    DraftRefs = {b4}
    GitRefs = {b5}
    MaxEdits = 1
VIEW AgentserverView
INVARIANTS
    AgentserverTypeOK
    TakenOnce
    OvershootBounded
    
    
    AnswersAreOpen
    AccountsSound
    ConnectionUsable
    UsageSound
    ProvisionsSound
    
\* A service whose actors are done stops.
CHECK_DEADLOCK FALSE
