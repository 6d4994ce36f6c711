CONSTANTS
    u1 = u1
    c1 = c1
    f1 = f1
    i1 = i1
    r1 = r1
    NoAsset = NoAsset
    Uploads <- MCUploads
    Copies <- MCCopies
    Foreign <- MCForeign
    Restores <- MCRestores
    Readers <- MCReaders
    MaxUploadSize = 2
    MaxStarts = 2
SPECIFICATION Spec
INVARIANTS TypeOK UploadedOpens OrphanHasCause
PROPERTIES ReadsWhole
CHECK_DEADLOCK FALSE
