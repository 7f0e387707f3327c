CONSTANTS
    MaxConns = 3
    Timeout = 2
    Buttons = {"cancel", "now"}
    OnTimeout = "now"
    OnDismiss = "cancel"
    NoButton = "-"
    MaxKeys = 1
SPECIFICATION Spec
INVARIANT TypeOK
INVARIANT BannersTrue
INVARIANT ApprovedOnPurpose
PROPERTY VerdictSpec
CHECK_DEADLOCK FALSE
