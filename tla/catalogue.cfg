SPECIFICATION CatalogueSpec
CONSTANTS
    Request = {r1, r2}
    Name = {n1, n2}
    Text = {t1, t2, t3}
    Kinds = {"terms", "rules"}
    Says <- TheTexts
    n1 = n1
    t1 = t1
    t2 = t2
    t3 = t3
    Whole = Whole
    None = None
    MaxMishaps = 1
SYMMETRY Symmetry
INVARIANTS ListsAreCurrent MetricsAreCurrent
