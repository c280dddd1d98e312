SPECIFICATION Spec
CONSTANTS
    Task = {t1, t2, t3}
    Db = {d1}
    NoDb = NoDb
    MaxHandle = 2
    MaxVersion = 2
SYMMETRY Symmetry
INVARIANTS ServableIsWhole
PROPERTIES PublishedIsCurrent AnswersAreWhole
