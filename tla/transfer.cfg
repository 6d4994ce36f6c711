CONSTANTS
    dev = dev
    prod = prod
    main = main
    a1 = a1
    t1 = t1
    t2 = t2
    u1 = u1
    j1 = j1
    NoAlias = NoAlias
    Any = Any
    Envs <- MCEnvs
    Pipes <- MCPipes
    Aliases <- MCAliases
    Texts <- MCTexts
    Json <- MCJson
    ConsoleTexts <- MCConsole
    Unfit <- MCUnfit
    InitialRows <- MCTables
    ForeignArchives <- MCForeign
    FirstFresh = 5
    MaxSelections = 2
    MaxRequests = 3
SPECIFICATION Spec
INVARIANTS TypeOK
PROPERTIES ExportComplete  OnlyKeyedItemsStray PreviewKept
