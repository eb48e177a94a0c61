SPECIFICATION Spec
CONSTANTS
    Criteria <- MCCriteria
    Loops = {l1}
    Page = page
    Client = client
    Slots = {l1, page, client}
    NoRequest = NoRequest
    Idle = Idle
    Due = Due
    NoForm = NoForm
    OnPage = OnPage
INVARIANTS TypeOK VerdictUnlessRaced ShownFailureStays
PROPERTIES VerdictFinal
CHECK_DEADLOCK FALSE
