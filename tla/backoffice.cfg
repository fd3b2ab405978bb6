SPECIFICATION Spec
CONSTANTS
    Parts = {"console", "storefront", "devices", "staff", "tickets", "triage", "notices", "invoices",
             "suppression", "switches", "halves", "passwords", "orderMail", "limits", "intake"}
    Tabs = {"t1", "t2", "t3", "t4"}
    Browsers = {"b1", "b2"}
    BrowserOf <- MCBrowserOf
    Consoles = {"b1"}
    MaxTokens = 3
    People = {"u1", "u2", "u3"}
    Owners = {"u1"}
    Slugs = {"orders", "staff"}
    RoleSlugs = {"orders"}
    Manage = "staff"
    StaffRequests = {"d1"}
    TicketIds = {"t1", "t2", "t3"}
    Contacts = {"c1", "c2"}
    NoTicket = "none"
    TicketRequests = {"q1", "q2"}
    MaxReopens = 2
    Events = {"e1", "e2", "e3", "e4"}
    TicketOf <- MCTicketOf
    Dispatchers = {"d1", "d2"}
    BreakerThreshold = 2
    Sales = {"s1", "s2", "s3"}
    Issuers = {"i1", "i2"}
    MaxNumberings = 2
    Mailboxes = {"a1", "a2"}
    Instances = {"n1", "n2"}
    Callbacks = {"b1", "b2"}
    Pairs = {"p1", "p2"}
    Servers = {"n1", "n2"}
    Forms = {"f1", "f2"}
    Phrases = {"p0", "p1"}
    Links = {"l1", "l2"}
    AuthRequests = {"q1", "q2"}
    Happenings = {"e1"}
    Hosts = {"n1", "n2"}
    Hooks = {"h1", "h2", "h3"}
    MaxSends = 2
    Fleet = {"n1", "n2"}
    Visits = {"v1", "v2"}
    Route <- MCRoute
    MaxHits <- MCMaxHits
    Enquiries = {"q1", "q2"}
    Texts = {"m1", "m2"}
    Origins = {"a1", "a2"}
    Signals <- MCSignals
    SpamScore = 5
    BurstSize = 1
    NewestRows = 1
    LastDay = 1
CHECK_DEADLOCK FALSE
INVARIANTS OneTokenPerSession ConsoleIsCurrent StaffHolds TicketsHold NoticesHold BooksAreInOrder ReportsAreKept SwitchesAreHonoured PasswordsHold OrderMailHolds RateLimitsHold IntakeHolds
PROPERTIES HandlersFollowTable
