CONSTANTS
    u1 = u1
    c1 = c1
    f1 = f1
    i1 = i1
    r1 = r1
    NoAsset = NoAsset
    Uploads <- OneUpload
    Copies <- NoCopies
    Foreign <- MCForeign
    Restores <- MCRestores
    Readers <- MCReaders
    MaxUploadSize = 2
    MaxStarts = 2
SPECIFICATION Spec
INVARIANTS DeliveredPathServed
CHECK_DEADLOCK FALSE
