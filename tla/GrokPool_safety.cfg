SPECIFICATION Spec
CONSTANTS
    Emails = {e1}
    MaxGen = 2
    MaxLogins = 2
    MaxRotate = 1
    Requests = {}
    Workers = {w1}
    Admins = {a1}
    Faults = {"loss", "revoke", "crash", "redis"}
INVARIANTS
    NeverReplaysToken
    ImportsPersisted
