SPECIFICATION Spec
CONSTANTS
    Writers = {w1}
    Ids = {1, 2}
    Times = {0, 1}
    MaxEvents = 2
    NoLink = NoLink
    Rows = {r1, r2}
    NoRow = NoRow
    Users = {u1, u2}
    Kinds = {"developer", "qa_reviewer", "release_manager"}
    Groups = {"implementation_quality", "release_security"}
    Named = {}
    NoGroup = NoGroup
    Forever = 1
    MaxRequests = 3
    NoIntent = NoIntent
INVARIANTS DutiesSeparated
CHECK_DEADLOCK FALSE
