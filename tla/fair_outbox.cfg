SPECIFICATION FairSpec
CONSTANTS
    a1 = a1
    a2 = a2
    b1 = b1
    z1 = z1
    x1 = x1
    acct = acct
    Messages = {a1, a2, b1, x1}
    Wallets = {acct}
    Channels <- Names
    ChannelOf <- MCChannelOf
    LineOf <- MCLineOf
    WalletOf <- OneWallet
    Cost <- UnitCost
    Limit = 2
    Window = 3
    Faults = {"dispatcherStop", "publishNack"}
    MaxFaults = 1
    DeliveryLimit = 20
INVARIANTS
    SelectionKeepsOrder
    FInv
    FifoUnlessLate
PROPERTIES
    BatchIsFair
    EveryChannelServed
    ImplementsDispatcher
    EveryRowPublished
