\* Redis in use; an edit; polls, one page and the event stream, which may break.
SPECIFICATION FairSpec
CONSTANTS
    Editors = {e1}
    Importers = {}
    Readers = {r1}
    Stream = s
    None = none
    Redis = TRUE
    MaxAsks = 1
    MaxQueue = 1
    MaxPages = 1
    MaxConnects = 1
PROPERTIES OldIsMarked
