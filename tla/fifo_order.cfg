SPECIFICATION Spec
CONSTANTS
    a1 = a1
    a2 = a2
    b1 = b1
    z1 = z1
    x1 = x1
    acct = acct
    Messages = {a1, a2, b1}
    Wallets = {acct}
    Channels <- Names
    ChannelOf <- MCChannelOf
    LineOf <- MCLineOf
    WalletOf <- OneWallet
    Cost <- UnitCost
    Limit = 2
    Window = 3
    Faults = {}
    MaxFaults = 0
    DeliveryLimit = 20
INVARIANTS
    FifoPerChannel
