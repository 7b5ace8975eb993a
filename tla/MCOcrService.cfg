CONSTANTS
    None = None
    MaxRequests <- MCMaxRequests
    MaxSelections <- MCMaxSelections
SPECIFICATION Spec
CHECK_DEADLOCK FALSE
INVARIANTS
    MailboxIsDrained
    NewestIsHeld
    PublishedFollowsWorker
PROPERTIES
    CallbacksInOrder
    NewestIsAnswered
