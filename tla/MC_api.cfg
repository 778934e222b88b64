SPECIFICATION Spec
CONSTANTS
    Requests = {r1, r2, r3}
    Nothing = Nothing
    AdminKey = "adminKey"
    MaxFaults = 1
    Arrivals <- MCArrivals
    Databases <- MCDatabases
SYMMETRY MCSymmetry
CHECK_DEADLOCK FALSE
INVARIANTS TypeOK AnsweredKeyAuthenticates AdminLockedOutByRename RefusalChangesNothing LostDefaultHasCause ZoneFollowsBranding RowsStayApart MailFateHasCause
