CONSTANTS
    alice = alice
    bob = bob
    NoEmail = NoEmail
    NoRecord = NoRecord
    Logins <- AllLogins
    Emails = {"mail"}
    PlanIds = {"gold"}
    Receivers <- BothReceive
    SmtpModes = {TRUE, FALSE}
    MaxActions = 2
    MaxSessions = 2
    MaxIds <- IdsByMode
    MaxMails = 1
    MaxRestarts = 1
SPECIFICATION Spec
SYMMETRY Symmetric
CHECK_DEADLOCK FALSE
INVARIANTS TypeOK OneSession EmailsMatch SavedIsCurrent PlansInSync
