SPECIFICATION Spec
CONSTANTS
    m1 = m1
    m2 = m2
    m3 = m3
    w1 = w1
    w2 = w2
    acct = acct
    t1 = t1
    NoMessage = NoMessage
    Messages = {m1, m2, m3}
    Workers = {w1, w2}
    Wallets = {acct}
    TopUps = {}
    LineOf <- AllNormal
    WorkerLine <- NormalWorkers
    WalletOf <- OneWallet
    Cost <- MCCost
    Limit <- TwoSlots
    TopUpWallet <- TopUpTo
    TopUpAmount <- TopUpBy
    DeliveryLimit = 1
    InitialBalance <- Balance2
    Faults = {"apiCrash", "workerCrash", "redisError", "redisLost", "dbError"}
    MaxFaults = 2
SYMMETRY Symmetry
INVARIANTS
    CreditInv
    SlotsMatchRequests
    AtMostOneDebit
    RefundedIsNotCharged
    CreditConserved
    DebitIsCovered
PROPERTIES
    TerminalIsFinal
