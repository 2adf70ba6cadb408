SPECIFICATION EditingSpec
CONSTANTS
    Limit = 3
    Times = {t7}
    Recurrence = {weekdays}
    Delays = {5}
    Bad = Bad
    Nothing = Nothing
PROPERTIES
    EditsKeepPending
