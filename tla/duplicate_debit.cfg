SPECIFICATION Spec
CONSTANTS
    m1 = m1
    m2 = m2
    m3 = m3
    w1 = w1
    w2 = w2
    acct = acct
    t1 = t1
    NoMessage = NoMessage
    Messages = {m1}
    Workers = {w1, w2}
    Wallets = {acct}
    TopUps = {}
    LineOf <- AllNormal
    WorkerLine <- NormalWorkers
    WalletOf <- OneWallet
    Cost <- MCCost
    Limit <- OneSlot
    TopUpWallet <- TopUpTo
    TopUpAmount <- TopUpBy
    DeliveryLimit = 1
    InitialBalance <- Balance2
    Faults = {"dispatcherStop"}
    MaxFaults = 1
INVARIANTS
    AtMostOneDebit
