SPECIFICATION MCSpec
CONSTANTS
    me = me
    other = other
    Null = Null
    Malformed = Malformed
    None = None
    Tags = {1, 2, 3}
    Names = {1, 2}
    Owners <- MCOwners
    Owner <- me
    PageSize = 1
    MaxEdits = 2
    MinTitle = 3
    MaxTitle = 5
    MinDate = 10
    Today = 20
    Titles <- MCTitles
    Dates <- MCDates
INVARIANT WarningsAreShown
CHECK_DEADLOCK FALSE
