SPECIFICATION FairSpec
CONSTANTS
    m1 = m1
    v1 = v1
    v2 = v2
    acct = acct
    open = open
    chan = chan
    top1 = top1
    NoMessage = NoMessage
    NoTx = NoTx
    Messages = {m1}
    Wallets = {acct}
    Admins = {open, chan, top1}
    Workers = {v1, v2}
    AdminKind <- MCAdminKind
    AdminWallet <- MCAdminWallet
    Amounts <- MCAmounts
    LineOf <- AllExpress
    WorkerLine <- ExpressWorkers
    WalletOf <- OneWallet
    Cost <- MCCost
    IntMax = 15
    ColumnMax = 4
    Faults = {"apiCrash", "workerCrash", "dispatcherStop", "connLoss", "dbError", "dbLost",
              "publishNack", "sessionLoss"}
    MaxFaults = 2
    DeliveryLimit = 1
INVARIANTS
    TypeOK
    LInv
    BooksBalance
    OneWorkerPerMessage
    NoLostCharge
    AnswersAreTrue
PROPERTIES
    ImplementsAtomicLedger
    EveryChargeSettles
