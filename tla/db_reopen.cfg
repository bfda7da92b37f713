\* An existing database is opened.
CONSTANTS
    Keys = {1, 2, 3, 4, 5, 6}
    Values = {1, 2}
    Order = 4
    KeyMod = 64
    Callers <- Reopening
SPECIFICATION Spec
PROPERTIES
    OpenReads
