CONSTANTS
    w1 = w1
    w2 = w2
    r1 = r1
    dev = dev
    prod = prod
    main = main
    n1 = n1
    Blank = Blank
    DefaultName = n1
    Nobody = Nobody
    DefaultPipe = main
    Writers <- MCWriters
    Readers <- MCReaders
    Envs <- MCEnvs
    Pipes <- MCPipes
    Names <- MCNames
    Jobs <- MCJobs
SYMMETRY MCSymmetry
SPECIFICATION Spec
INVARIANTS TypeOK OrphansNotServed OverviewExact
PROPERTIES ColumnsOutlast
