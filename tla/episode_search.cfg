SPECIFICATION Spec
CONSTANTS
    a = a
    b = b
    old = old
    lab = lab
    Configured = {a, b}
    Stale = {old}
    Experimental = {lab}
    Offers <- MCOffers
    Wanted <- MCWanted
    Preferred = {"english"}
    Quality <- MCQuality
    Keys = {"debrid"}
INVARIANTS TypeOK AskedOnce GivesUpAfterEveryone SuspectsNotTried
