---------------------------- MODULE WalletService ----------------------------
(***************************************************************************)
(* WalletService.mutateWallet in concurrent transactions on PostgreSQL.  A *)
(* mutation locks the wallet row (SELECT ... FOR UPDATE), looks for an     *)
(* entry with its idempotency key, applies its change to the balances it   *)
(* read and saves the row and the entry.  A deposit is a transaction of    *)
(* one mutation; callers that pass their own transaction make several: two *)
(* for a settlement, its failure and its retry, one per winner for a       *)
(* resolution.  Nothing is visible before the commit, and rows are freed   *)
(* only then, so that transactions may wait for each other in a circle,    *)
(* which PostgreSQL breaks by aborting one.  A transaction can also die at *)
(* any point (a refusal, a lost connection, a crash, a later step of the   *)
(* caller failing), which rolls it back.                                   *)
(***************************************************************************)
EXTENDS Ledger, Sequences

CONSTANTS
    Requests,       \* requests and jobs, one transaction each, retries included
    Asks,           \* the entries each asks for, in the order of its mutations
    ValidKeys,      \* keys of at least 8 characters
    NoRequest

ASSUME AsksAssumption ==
    /\ \A r \in Requests :
          /\ Len(Asks[r]) \in Nat \ {0}
          /\ \A i \in 1 .. Len(Asks[r]) :
                Asks[r][i].user \in Users /\ Asks[r][i].type \in EntryTypes
    /\ NoRequest \notin Requests

VARIABLES
    ledger,         \* committed rows of wallets and wallet_entries
    pc,             \* where each request is
    at,             \* which of its mutations it is in
    rowLock,        \* the request whose transaction locks a user's wallet row
    draft,          \* balances a transaction sees in the rows it has locked
    written,        \* entries it has saved and not committed
    read            \* history: balances in a row when it was locked

vars == <<ledger, pc, at, rowLock, draft, written, read>>

Ended == {"done", "failed"}
Open  == {"waiting", "locked", "saved"}

NoDraft == [u \in Users |-> EmptyWallet]

\* The mutation a request is in.
Ask(r) == Asks[r][at[r]]

TypeOK ==
    /\ DOMAIN ledger.wallet \subseteq Users
    /\ \A u \in DOMAIN ledger.wallet : ledger.wallet[u] \in Wallets
    /\ \A e \in ledger.entries : e.user \in DOMAIN ledger.wallet
    /\ pc \in [Requests -> {"idle"} \cup Open \cup Ended]
    /\ at \in [Requests -> Nat]
    /\ \A r \in Requests : /\ at[r] \in 1 .. Len(Asks[r]) + 1
                           /\ pc[r] = "saved" <=> at[r] = Len(Asks[r]) + 1
    /\ rowLock \in [Users -> Requests \cup {NoRequest}]
    /\ draft \in [Requests -> [Users -> Wallets]]
    /\ DOMAIN written = Requests
    /\ \A r \in Requests : \A e \in written[r] : e.user \in Users
    /\ read \in [Requests -> [Users -> Wallets]]

Init ==
    /\ ledger = EmptyLedger
    /\ pc = [r \in Requests |-> "idle"]
    /\ at = [r \in Requests |-> 1]
    /\ rowLock = [u \in Users |-> NoRequest]
    /\ draft = [r \in Requests |-> NoDraft]
    /\ written = [r \in Requests |-> {}]
    /\ read = [r \in Requests |-> NoDraft]

\* Registration commits the user and the wallet in one transaction; a user who
\* has a wallet keeps it.
CreateWalletForUser(u) ==
    /\ u \notin DOMAIN ledger.wallet
    /\ ledger' = [ledger EXCEPT !.wallet =
                    [v \in DOMAIN @ \cup {u} |-> IF v = u THEN EmptyWallet ELSE @[v]]]
    /\ UNCHANGED <<pc, at, rowLock, draft, written, read>>

Arrive(r) ==
    /\ pc[r] = "idle"
    /\ pc' = [pc EXCEPT ![r] = "waiting"]
    /\ UNCHANGED <<ledger, at, rowLock, draft, written, read>>

\* Wrong on purpose: a transaction that throws is never rolled back.
FinishHoldingRow(r, outcome) ==
    /\ pc' = [pc EXCEPT ![r] = outcome]
    /\ rowLock' = IF outcome = "failed" THEN rowLock
                  ELSE [u \in Users |-> IF rowLock[u] = r THEN NoRequest ELSE rowLock[u]]
    /\ at' = [at EXCEPT ![r] = 1]
    /\ draft' = [draft EXCEPT ![r] = NoDraft]
    /\ written' = [written EXCEPT ![r] = {}]
    /\ read' = [read EXCEPT ![r] = NoDraft]

\* The transaction ends, frees its rows and is forgotten.
Finish(r, outcome) ==
    /\ pc' = [pc EXCEPT ![r] = outcome]
    /\ rowLock' = [u \in Users |-> IF rowLock[u] = r THEN NoRequest ELSE rowLock[u]]
    /\ at' = [at EXCEPT ![r] = 1]
    /\ draft' = [draft EXCEPT ![r] = NoDraft]
    /\ written' = [written EXCEPT ![r] = {}]
    /\ read' = [read EXCEPT ![r] = NoDraft]

\* Amount and key of the mutation are checked first, and a user without a wallet
\* is not found: it throws, and with it the transaction.
Reject(r) ==
    /\ pc[r] = "waiting"
    /\ \/ ~(Ask(r).amount \in Nat \ {0} /\ Ask(r).key \in ValidKeys)
       \/ Ask(r).user \notin DOMAIN ledger.wallet
    /\ Finish(r, "failed")
    /\ UNCHANGED ledger

\* The mutation goes on to the row.
Seeks(r) ==
    /\ pc[r] = "waiting"
    /\ Ask(r).amount \in Nat \ {0} /\ Ask(r).key \in ValidKeys
    /\ Ask(r).user \in DOMAIN ledger.wallet

\* Wrong on purpose: the row is read without a lock.
LockWalletWithoutWaiting(r) ==
    LET u == Ask(r).user
    IN  /\ Seeks(r)
        /\ rowLock' = [rowLock EXCEPT ![u] = r]
        /\ draft' = IF rowLock[u] = r THEN draft
                    ELSE [draft EXCEPT ![r] = [@ EXCEPT ![u] = ledger.wallet[u]]]
        /\ read' = IF rowLock[u] = r THEN read
                   ELSE [read EXCEPT ![r] = [@ EXCEPT ![u] = ledger.wallet[u]]]
        /\ pc' = [pc EXCEPT ![r] = "locked"]
        /\ UNCHANGED <<ledger, at, written>>

\* Wrong on purpose: what the transaction itself has saved is not read again.
LockWalletForgetful(r) ==
    LET u == Ask(r).user
    IN  /\ Seeks(r)
        /\ rowLock[u] \in {NoRequest, r}
        /\ rowLock' = [rowLock EXCEPT ![u] = r]
        /\ draft' = [draft EXCEPT ![r] = [@ EXCEPT ![u] = ledger.wallet[u]]]
        /\ read' = [read EXCEPT ![r] = [@ EXCEPT ![u] = ledger.wallet[u]]]
        /\ pc' = [pc EXCEPT ![r] = "locked"]
        /\ UNCHANGED <<ledger, at, written>>

\* SELECT ... FOR UPDATE waits for the holder of the row and reads what the last
\* commit left there, or what the transaction itself has saved.
LockWallet(r) ==
    LET u == Ask(r).user
    IN  /\ Seeks(r)
        /\ rowLock[u] \in {NoRequest, r}
        /\ rowLock' = [rowLock EXCEPT ![u] = r]
        /\ draft' = IF rowLock[u] = r THEN draft
                    ELSE [draft EXCEPT ![r] = [@ EXCEPT ![u] = ledger.wallet[u]]]
        /\ read' = IF rowLock[u] = r THEN read
                   ELSE [read EXCEPT ![r] = [@ EXCEPT ![u] = ledger.wallet[u]]]
        /\ pc' = [pc EXCEPT ![r] = "locked"]
        /\ UNCHANGED <<ledger, at, written>>

\* An entry with the key is in the ledger or among those the transaction saved.
Known(r) == Replayed([ledger EXCEPT !.entries = @ \cup written[r]], Ask(r))

\* The next mutation, or the commit.
Proceed(r) ==
    /\ at' = [at EXCEPT ![r] = @ + 1]
    /\ pc' = [pc EXCEPT ![r] = IF at[r] = Len(Asks[r]) THEN "saved" ELSE "waiting"]

\* The mutation is answered from the row as it is.
Replay(r) ==
    /\ pc[r] = "locked"
    /\ Known(r)
    /\ Proceed(r)
    /\ UNCHANGED <<ledger, rowLock, draft, written, read>>

\* The balances cover the change: row and entry are saved, not yet committed.
Save(r) ==
    LET e   == Ask(r)
        new == Applied(draft[r][e.user], e.type, e.amount)
    IN  /\ pc[r] = "locked"
        /\ ~Known(r)
        /\ Fits(new)
        /\ draft' = [draft EXCEPT ![r] = [@ EXCEPT ![e.user] = new]]
        /\ written' = [written EXCEPT ![r] = @ \cup {e}]
        /\ Proceed(r)
        /\ UNCHANGED <<ledger, rowLock, read>>

\* The balances do not cover it: the operation throws.
Refuse(r) ==
    LET e == Ask(r)
    IN  /\ pc[r] = "locked"
        /\ ~Known(r)
        /\ ~Fits(Applied(draft[r][e.user], e.type, e.amount))
        /\ Finish(r, "failed")
        /\ UNCHANGED ledger

\* Wrong on purpose: the balances are committed and the entries are not.
CommitWithoutEntry(r) ==
    /\ pc[r] = "saved"
    /\ ledger' = [ledger EXCEPT !.wallet =
                    [u \in DOMAIN @ |-> IF rowLock[u] = r THEN draft[r][u] ELSE @[u]]]
    /\ Finish(r, "done")

\* COMMIT, which UNIQUE (wallet_id, idempotency_key) must allow.
Commit(r) ==
    /\ pc[r] = "saved"
    /\ \A e \in written[r] : ~Replayed(ledger, e)
    /\ ledger' = [wallet  |-> [u \in DOMAIN ledger.wallet |->
                                  IF rowLock[u] = r THEN draft[r][u] ELSE ledger.wallet[u]],
                  entries |-> ledger.entries \cup written[r]]
    /\ Finish(r, "done")

\* The transaction dies before it commits.
RollBack(r) ==
    /\ pc[r] \in Open
    /\ Finish(r, "failed")
    /\ UNCHANGED ledger

\* Requests that wait for a row another one has locked.
Blocked == {r \in Requests : Seeks(r) /\ rowLock[Ask(r).user] \notin {NoRequest, r}}

\* Those of them that wait for one another.
Circle(S) == S # {} /\ {rowLock[Ask(r).user] : r \in S} = S

\* PostgreSQL looks for circles (deadlock_timeout) and aborts somebody in one.
AbortVictim ==
    \E S \in SUBSET Blocked :
        /\ Circle(S)
        /\ \E r \in S : Finish(r, "failed")
        /\ UNCHANGED ledger

Transact(r) ==
    Reject(r) \/ LockWallet(r) \/ Replay(r) \/ Save(r) \/ Refuse(r) \/ Commit(r)

Next ==
    \/ \E u \in Users : CreateWalletForUser(u)
    \/ \E r \in Requests : Arrive(r) \/ Transact(r) \/ RollBack(r)
    \/ AbortVictim

\* PostgreSQL grants a free row to a waiter, looks for circles, and the service
\* awaits every statement, so a transaction under way goes on.  Nobody has to
\* register or to send a request.
Fairness == WF_vars(AbortVictim) /\ \A r \in Requests : WF_vars(Transact(r))

Spec == Init /\ [][Next]_vars /\ Fairness

-----------------------------------------------------------------------------
Contract == INSTANCE LedgerContract

\* Whatever the interleaving of transactions on the wallets, the committed
\* balances are what the committed entries add up to: no update is lost and none
\* is applied without its entry (mutateWallet holds every row from its first
\* read to the commit).
ImplementsContract == Contract!Spec

\* A request is answered successfully only once the keys of all its mutations are
\* in the ledger, so a caller who repeats them is never charged again
\* (mutateWallet, replay).
DoneIsRecorded ==
    \A r \in Requests : pc[r] = "done" =>
        \A i \in 1 .. Len(Asks[r]) : Replayed(ledger, Asks[r][i])

\* The users whose rows a transaction has read so far.
Reads(r) ==
    {Asks[r][i].user : i \in {j \in 1 .. Len(Asks[r]) :
                                 j < at[r] \/ (j = at[r] /\ pc[r] = "locked")}}

\* What a transaction has read from a row is what is committed there until it
\* ends, through all its mutations of this and other wallets (pessimistic_write).
DraftIsCurrent ==
    \A r \in Requests : \A u \in Reads(r) :
        u \in DOMAIN ledger.wallet /\ read[r][u] = ledger.wallet[u]

\* A request that arrived is answered: no row stays locked by a transaction that
\* ended, every refusal frees the rows of all its mutations, and who waits in a
\* circle is let go (mutateWallet's transaction).
EveryRequestEnds == <>[](\A r \in Requests : pc[r] \notin Open)

\* Transactions lock wallets in an order that lets none wait in a circle, as the
\* decision on row locks has it (settleDebit, release and reserve lock the YES
\* user before the NO user, settleCredit the winners trade by trade).
NobodyDeadlocks == \A S \in SUBSET Blocked : ~Circle(S)
=============================================================================
