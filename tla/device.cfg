CONSTANTS
    Enrols = {e1, e2}
    Firsts = {f1}
    Cds = {c1}
    Uses = {u1}
    Logouts = {l1}
    Tokens = {t1, t2}
    Targets = {lab, gpu}
    Dirs = {d1, d2}
    Default = d1
    None = None
SPECIFICATION Spec
INVARIANTS
    TypeOK
    StateHasKey
    ReportIsTrue
    SettingsKept
CONSTRAINT Followed
SYMMETRY Symmetry
CHECK_DEADLOCK FALSE
