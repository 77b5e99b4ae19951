SPECIFICATION Spec
CONSTANTS
    Episodes = {e1, e2}
    Film = film
    Servers = {s1, s2}
    MaxRuns = 1
    EarlierRuns <- MCEarlierRuns
    MaxRewrites = 1
SYMMETRY Symmetry
INVARIANTS TypeOK FileKeepsUp VanishedDisabled
