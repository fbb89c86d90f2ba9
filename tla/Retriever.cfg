CONSTANTS
    Jobs = {j1, j2}
    Tenants = {t1, t2}
    Files = {f1, f2}
    v1 = v1
    v2 = v2
    Versions = {v1, v2}
    Shipped = v1
    ChunksOf <- MCChunksOf
    TopK = 2
    Threshold = 2
    Distance <- MCDistance
SPECIFICATION Spec
SYMMETRY Symmetry
INVARIANTS FilesWhole DocumentsRanked DocumentsFound OwnDocuments
PROPERTY UploadIndexed
