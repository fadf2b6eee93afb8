CONSTANTS
    Absent = Absent
    MaxStarts = 3
    MaxCalls = 3
    MaxOutages = 2
    MaxInstalls = 2
    Docs = {d1, d2}
    Texture = {a, e}
    Empty = e
    Baseline = {d1}
    MaxEdited = 2
    MaxBreaks = 1
    Documents = {"d1", "d2"}
    ProjectOf <- OneEach
    Words = {"x", "y"}
    MaxRow = 2
    MaxPurges = 1
    Generations = {g1, g2, g3}
    First = {g1, g2}
    Writers = {w1, w2}
    Readers = {r1}
    NoOne = NoOne
    MaxWrites = 3
    Workers = {w1, w2}
    Targets = {f1}
    Items = {i1, i2}
    MaxAttempts = 3
    MaxRuns = 2
    MaxDeaths = 2
    Paths = {p, q}
    Contents <- TwoContents
    Versions = {1, 2}
    MaxChanges = 2
    MaxFaults = 1
    Texts = {1, 2}
    Codes = {3, 4}
    DocumentOf <- TwoOfEach
    Alike <- Resemblance
    Inside = {2, 4}
    Folded = {1}
    Moved = {2, 3}
    TopKs = {1, 3}
    FuseFloor = 3
    Scale = 1090305216
    MaxEdits = 1
    LineKinds <- Kinds
    MaxLines <- Lengths
    MostLines = 2
    OverlapLines = 2
    OverlapShare = 2
    Lookahead = 2
SPECIFICATION Spec
INVARIANTS ModelsAreExclusive IndexesAreWhole TestGenerationsAreSafe RecoveryIsTrue RetrievalIsExact ChunksAreExact
PROPERTY LexicalIsExact
CHECK_DEADLOCK FALSE
