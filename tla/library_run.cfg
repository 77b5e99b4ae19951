SPECIFICATION Spec
CONSTANTS
    a = a
    b = b
    film = film
    id = id
    Shows = {a, b}
    Films = {film}
    LastSeason = 2
    AiredThisYear <- MCAiredThisYear
    ImdbMaxSeason <- MCImdbMaxSeason
    LastEpisode = 2
    Identities = {id}
    Lookups <- MCLookups
    Libraries <- MCLibraries
    MaxCommands = 2
    Addons = {addon}
INVARIANTS TypeOK ReportExact
PROPERTY WantedKept
CHECK_DEADLOCK FALSE
