\* Two papers, one with a conversation on file; any two actions of the user, and
\* whatever they meet.
CONSTANTS
    Subjects = {"a", "b"}
    Opened = "a"
    Filed = "b"
    Providers = {1, 2}
    FirstProvider = 1
    Loaders = {1}
    MaxMessages = 3
    MaxSessions = 3
    MaxPermissions = 1
    MaxClicks = 2
SPECIFICATION FairSpec
CHECK_DEADLOCK FALSE
INVARIANTS TypeOK FiledWhereSaidWithCare SummaryFollowsMessage
PROPERTIES MessagesAnswered SwitchGetsThrough 
