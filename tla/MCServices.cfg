\* Auto replies, backups, the folder list, the activity log and logins, one at a time.
CONSTANTS
    Workers = {w1, w2}
    Senders = {sender, me}
    Account = me
    LastDay = 2
    LastClient = 2
    MaxReplies = 2
    Retention = 1
    Loop = loop
    Requests = {r1}
    Never = never
    Frequencies = {"daily", "weekly", "monthly"}
    Period <- PeriodOf
    Longest = 3
    MaxCrashes = 1
    Tick = tick
    Lists = {l1}
    Pages = {p1}
    Names = {inbox, source}
    Source = source
    MaxChanges = 2
    Users = {u1}
    Keep = 1
    MaxEntries = 4
    Browsers = {b1, b2}
    Addresses = {a1}
    AddressOf <- SharedAddress
    Passwords = {old, new}
    Lifetime = 2
    MaxFailures = 2
    Window = 1
    MaxLogins = 2
    MaxCount = 3
SPECIFICATION Spec
INVARIANTS
    TypeOK
    OneReplyPerDay
    SlotsAreEarned
    StampIsTrue
    LockoutIsEarned
PROPERTIES
    BackupsRecur
    NoSilentFailure
    FoldersNotStale
    FoldersConverge
    OnlyShownDeleted
    SessionsLast
