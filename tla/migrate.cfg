CONSTANTS
    m1 = m1
    m2 = m2
    dev = dev
    prod = prod
    a1 = a1
    a2 = a2
    NoAlias = NoAlias
    Migrations <- MCMigrations
    Scopes <- MCScopes
    Aliases <- MCAliases
    Jobs <- MCJobs
    InitialRows <- MCTables
    InitialAssets <- MCAssets
    InitialFiles <- MCFiles
    ConsoleTexts <- MCTexts
    FirstFresh = 4
    MaxEdits = 1
    LockEnabled = TRUE
SYMMETRY MCSymmetry
SPECIFICATION Spec
INVARIANTS TypeOK RefsServed SucceededIsStored
PROPERTIES OnlyOverwriteReplaces CreatesInItsPlace ImplementsTable
CHECK_DEADLOCK FALSE
