SPECIFICATION Spec
CONSTANTS
    c1 = c1
    c2 = c2
    w1 = w1
    w2 = w2
    other = other
    Commits = {c1, c2}
    Weights = {w1, w2}
    Others = {other}
    Code = {}
    Trust = FALSE
    Dirs = {d1, d2}
    Hardware = {h1, h2}
    Expected = h1
    Strict = FALSE
    d1 = d1
    d2 = d2
    h1 = h1
    h2 = h2
    Empty <- MCEmpty
    Closures = {}
    Heads = {c1}
    Mirrors <- MCMirrors
    MaxRuns = 2
    MaxResolves = 1
    MaxMoves = 1
SYMMETRY SymDirs
INVARIANTS TypeOK OneCommit BundleIsBound ReportIsOfItsRuns
CHECK_DEADLOCK FALSE
