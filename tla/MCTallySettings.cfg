SPECIFICATION Spec
CONSTANTS
    g1 = g1
    g2 = g2
    m1 = m1
    Company = {c1, c2}
    NoCompany = NoCompany
    Config = {g1, g2}
    Blank = Blank
    Master = {m1}
    NoMaster = NoMaster
    Needs <- NeedsOfTwo
    Catalog <- BlankCatalog
    Admin = {a1, a2}
    NoTask = NoTask
INVARIANTS
    TypeOK
    SettingsMatchActive
PROPERTY
    SwitchStopsPosting
SYMMETRY
    Symmetry
