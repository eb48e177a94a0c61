SPECIFICATION Spec
CONSTANTS
    Writers = {w1, w2}
    Ids = {1, 2}
    Times = {0, 1}
    MaxEvents = 2
    NoLink = NoLink
    Rows = {r1, r2}
    NoRow = NoRow
    Users = {u1, u2}
    Kinds = {"developer", "product_owner"}
    Groups = {"implementation_quality"}
    Named = {"implementation_quality"}
    NoGroup = NoGroup
    Forever = 2
    MaxRequests = 3
    NoIntent = NoIntent
SYMMETRY Symmetry
INVARIANTS TypeOK AssignmentsUnlessRaced ChainUnlessSkewed
CHECK_DEADLOCK FALSE
