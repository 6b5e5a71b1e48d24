------------------------- MODULE WalletTransactions -------------------------
(***************************************************************************)
(* The transactions on wallet rows, statement by statement (mutateAndRecord*)
(* and DeductAndEnqueue in persistence/wallet_repository.go): SELECT FOR   *)
(* UPDATE takes the row lock and reads the balance, the new balance is     *)
(* computed in memory from what was read, and the commit makes it visible  *)
(* with its ledger row.  Nothing a transaction writes is visible before it *)
(* commits, so the statements between the read and the commit are one step.*)
(* The requests that run them are here too: the send operation without a   *)
(* reservation store and the writes of the admin API.                      *)
(*                                                                         *)
(* A transaction is named by who runs it: a request or a worker.  pc[x] is *)
(* the next statement of x, or the HTTP status its client was given.       *)
(***************************************************************************)
EXTENDS WalletLedger, Money

CONSTANTS
    Admins,         \* the requests to the admin API
    AdminKind,      \* AdminKind[a]: what a asks for
    AdminWallet,    \* AdminWallet[a]: the wallet it is about
    Amounts,        \* the amounts a request may carry
    NoTx            \* the holder of a row that is not locked

AdminKinds == {"createWallet", "topUp", "createChannel"}

ASSUME AdminAssumption ==
    /\ AdminKind \in [Admins -> AdminKinds]
    /\ AdminWallet \in [Admins -> Wallets]
    /\ Amounts \subseteq Int
    /\ Admins \cap Messages = {}
    /\ NoTx \notin Admins \cup Messages
    /\ \A l \in Lines : Cost[l] <= ColumnMax

VARIABLES
    wallets,    \* the wallet rows that exist
    channels,   \* the wallets that have a channel
    ledger,     \* ledger[w]: the balance w was created with plus its ledger rows
    applied,    \* the admin requests whose effect is committed
    holder,     \* holder[w]: the transaction that has row w locked
    work,       \* work[x]: the balance transaction x has in memory
    units,      \* units[a]: the amount of top-up a as Money
    pc          \* pc[x]: see above

tableVars == <<wallets, channels, ledger, applied>>

Step(x, s) == pc' = [pc EXCEPT ![x] = s]

Requests == Messages \cup Admins

InTransaction == {"lock", "write", "commit"}

-----------------------------------------------------------------------------
(* The wallet row.                                                         *)

\* Mutant: a plain SELECT.
LockWalletPlain(x, w) ==
    /\ pc[x] = "lock"
    /\ w \in wallets
    /\ holder' = [holder EXCEPT ![w] = x]
    /\ work' = [work EXCEPT ![x] = balance[w]]
    /\ Step(x, "write")

\* SELECT ... FOR UPDATE waits for the transaction that holds the row.
LockWallet(x, w) ==
    /\ pc[x] = "lock"
    /\ w \in wallets
    /\ holder[w] = NoTx
    /\ holder' = [holder EXCEPT ![w] = x]
    /\ work' = [work EXCEPT ![x] = balance[w]]
    /\ Step(x, "write")

\* UPDATE of the balance, and the ledger row.
WriteBalance(x, new) ==
    /\ pc[x] = "write"
    /\ Fits(new)
    /\ work' = [work EXCEPT ![x] = new]
    /\ Step(x, "commit")
    /\ UNCHANGED holder

\* What a commit shows to the others.
CommitBalance(x, w, amount) ==
    /\ balance' = [balance EXCEPT ![w] = work[x]]
    /\ ledger' = [ledger EXCEPT ![w] = @ + amount]
    /\ holder' = [holder EXCEPT ![w] = NoTx]

\* The end of a transaction, by rollback or with its connection.
Release(S) == holder' = [w \in Wallets |-> IF holder[w] \in S THEN NoTx ELSE holder[w]]

-----------------------------------------------------------------------------
(* A request to send, without a reservation store: DeductAndEnqueue.       *)

\* Bad input, a full line, no channel, no price.
RefuseRequest(m) ==
    /\ pc[m] = "new"
    /\ \E code \in {"400", "429", "500"} : Step(m, code)
    /\ NoFault
    /\ UNCHANGED <<tableVars, dbVars, holder, work, units>>

BeginCharge(m) ==
    /\ pc[m] = "new"
    /\ WalletOf[m] \in channels
    /\ Step(m, "lock")
    /\ NoFault
    /\ UNCHANGED <<tableVars, dbVars, holder, work, units>>

LockCharge(m) ==
    /\ LockWallet(m, WalletOf[m])
    /\ NoFault
    /\ UNCHANGED <<tableVars, dbVars, units>>

WriteCharge(m) ==
    /\ work[m] >= CostOf(m)
    /\ WriteBalance(m, Subtract(work[m], CostOf(m)))
    /\ NoFault
    /\ UNCHANGED <<tableVars, dbVars, units>>

ChargeInsufficient(m) ==
    /\ pc[m] = "write"
    /\ work[m] < CostOf(m)
    /\ Step(m, "422")
    /\ Release({m})
    /\ NoFault
    /\ UNCHANGED <<tableVars, dbVars, work, units>>

\* The balance, the ledger row and the outbox row, in one commit.
CommitCharge(m, code) ==
    /\ pc[m] = "commit"
    /\ CommitBalance(m, WalletOf[m], -CostOf(m))
    /\ debits' = [debits EXCEPT ![m] = @ + 1]
    /\ InsertOutbox(m)
    /\ Step(m, code)
    /\ UNCHANGED <<wallets, channels, applied, status, work, units>>

-----------------------------------------------------------------------------
(* The writes of the admin API.                                            *)

Asks(a, kind) == pc[a] = "new" /\ AdminKind[a] = kind

\* No admin key, or input that does not parse or validate.
RefuseAdmin(a) ==
    /\ pc[a] = "new"
    /\ \E code \in {"400", "401"} : Step(a, code)
    /\ NoFault
    /\ UNCHANGED <<tableVars, dbVars, holder, work, units>>

Created(a, code) ==
    LET w == AdminWallet[a] IN
    /\ Asks(a, "createWallet")
    /\ w \notin wallets
    /\ \E amount \in Amounts : \E u \in NewMoney(amount) :
        /\ Fits(u)
        /\ balance' = [balance EXCEPT ![w] = u]
        /\ ledger' = [ledger EXCEPT ![w] = u]
    /\ wallets' = wallets \cup {w}
    /\ applied' = applied \cup {a}
    /\ Step(a, code)
    /\ UNCHANGED <<channels, debits, outbox, status, holder, work, units>>

\* The insert fails because the balance does not fit its column.
CreateWalletOverflows(a) ==
    /\ Asks(a, "createWallet")
    /\ \E amount \in Amounts : \E u \in NewMoney(amount) : ~Fits(u)
    /\ Step(a, "500")
    /\ NoFault
    /\ UNCHANGED <<tableVars, dbVars, holder, work, units>>

AddChannel(a, code) ==
    LET w == AdminWallet[a] IN
    /\ Asks(a, "createChannel")
    /\ w \in wallets \ channels
    /\ channels' = channels \cup {w}
    /\ applied' = applied \cup {a}
    /\ Step(a, code)
    /\ UNCHANGED <<wallets, ledger, dbVars, holder, work, units>>

\* Mutant: the error of the insert is dropped.
ChannelConflictDropped(a) ==
    /\ Asks(a, "createChannel")
    /\ AdminWallet[a] \notin wallets \ channels
    /\ Step(a, "201")
    /\ NoFault
    /\ UNCHANGED <<tableVars, dbVars, holder, work, units>>

\* The wallet does not exist, or the name is taken.
ChannelConflict(a) ==
    /\ Asks(a, "createChannel")
    /\ AdminWallet[a] \notin wallets \ channels
    /\ Step(a, "500")
    /\ NoFault
    /\ UNCHANGED <<tableVars, dbVars, holder, work, units>>

BeginTopUp(a) ==
    /\ Asks(a, "topUp")
    /\ \E amount \in Amounts : \E u \in NewMoney(amount) :
        /\ IsPositive(u)
        /\ units' = [units EXCEPT ![a] = u]
    /\ Step(a, "lock")
    /\ NoFault
    /\ UNCHANGED <<tableVars, dbVars, holder, work>>

LockTopUp(a) ==
    /\ LockWallet(a, AdminWallet[a])
    /\ NoFault
    /\ UNCHANGED <<tableVars, dbVars, units>>

\* "wallet not found"
TopUpUnknownWallet(a) ==
    /\ pc[a] = "lock"
    /\ AdminWallet[a] \notin wallets
    /\ Step(a, "500")
    /\ NoFault
    /\ UNCHANGED <<tableVars, dbVars, holder, work, units>>

WriteTopUp(a) ==
    /\ WriteBalance(a, Add(work[a], units[a]))
    /\ NoFault
    /\ UNCHANGED <<tableVars, dbVars, units>>

TopUpOverflows(a) ==
    /\ pc[a] = "write"
    /\ ~Fits(Add(work[a], units[a]))
    /\ Step(a, "500")
    /\ Release({a})
    /\ NoFault
    /\ UNCHANGED <<tableVars, dbVars, work, units>>

CommitTopUp(a, code) ==
    /\ pc[a] = "commit"
    /\ CommitBalance(a, AdminWallet[a], units[a])
    /\ applied' = applied \cup {a}
    /\ Step(a, code)
    /\ UNCHANGED <<wallets, channels, debits, outbox, status, work, units>>

-----------------------------------------------------------------------------
(* Faults of the API process and of its calls.                             *)

\* A statement or the insert of an admin request fails: rollback.
StatementFails(x) ==
    /\ Fault("dbError")
    /\ \/ pc[x] \in InTransaction
       \/ x \in Admins /\ pc[x] = "new" /\ AdminKind[x] # "topUp"
    /\ Step(x, "500")
    /\ Release({x})
    /\ UNCHANGED <<tableVars, dbVars, work, units>>

\* The API dies; its connections, and with them its transactions, end.
ApiCrash ==
    /\ Fault("apiCrash")
    /\ \E x \in Requests : pc[x] \in InTransaction
    /\ pc' = [x \in DOMAIN pc |->
                IF x \in Requests /\ pc[x] \in InTransaction THEN "dead" ELSE pc[x]]
    /\ Release(Requests)
    /\ UNCHANGED <<tableVars, dbVars, work, units>>

ChargeStep(m) ==
    \/ RefuseRequest(m) \/ BeginCharge(m) \/ LockCharge(m) \/ WriteCharge(m)
    \/ ChargeInsufficient(m)
    \/ NoFault /\ CommitCharge(m, "202")

AdminStep(a) ==
    \/ RefuseAdmin(a) \/ CreateWalletOverflows(a) \/ ChannelConflict(a)
    \/ BeginTopUp(a) \/ LockTopUp(a) \/ TopUpUnknownWallet(a) \/ WriteTopUp(a)
    \/ TopUpOverflows(a)
    \/ NoFault /\ (Created(a, "201") \/ AddChannel(a, "201") \/ CommitTopUp(a, "200"))

\* The effect is committed, and the API only sees an error.
CommitReplyLost(x) ==
    /\ Fault("dbLost")
    /\ \/ x \in Messages /\ CommitCharge(x, "500")
       \/ x \in Admins /\ (Created(x, "500") \/ AddChannel(x, "500") \/ CommitTopUp(x, "500"))
=============================================================================
