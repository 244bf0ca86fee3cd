SPECIFICATION FairSpec
CONSTANTS
    k1 = k1
    k2 = k2
    p = p
    q = q
    c1 = c1
    c2 = c2
    Absent = Absent
    Keys = {k1, k2}
    Revisions = {0, 1}
    Payloads = {p, q}
    Records <- MCAlerts
    Consumers = {c1, c2}
    FromBeginning = TRUE
    MaxMessages = 1
    MaxLog = 2
    MaxCrashes = 1
PROPERTIES
    Converges
