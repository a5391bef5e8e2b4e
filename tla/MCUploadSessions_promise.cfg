SPECIFICATION UploadSpec
CONSTANTS
    r1 = r1
    r2 = r2
    Requests = {r1, r2}
    Cleaner = cleaner
    Parts = {1}
    Tokens = {t1, t2, t3}
    Claims = {k1}
    Recoveries = {q1, q2, q3, q4, q5}
    Nil = Nil
SYMMETRY Alike
INVARIANTS
    AssetIsWhole
    ReleasedIsEmpty
PROPERTIES
    PromiseSpec
CHECK_DEADLOCK FALSE
