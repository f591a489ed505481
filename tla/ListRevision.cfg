\* Redis in use; an edit and an import; one HTTP thread; the browser polls and loads one page.
SPECIFICATION Spec
CONSTANTS
    Editors = {e1}
    Importers = {i1}
    Readers = {r1}
    Stream = s
    None = none
    Redis = TRUE
    MaxAsks = 1
    MaxQueue = 1
    MaxPages = 1
    MaxConnects = 0
INVARIANTS RevisionIdentifies
