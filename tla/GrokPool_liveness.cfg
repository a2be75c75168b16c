SPECIFICATION Spec
CONSTANTS
    Emails = {e1}
    MaxGen = 1
    MaxLogins = 1
    MaxRotate = 1
    Requests = {q1}
    Workers = {w1}
    Admins = {}
    Faults = {"revoke"}
PROPERTIES
    TokensRenewed
    DeadLoginEnds
    CooldownEnds
