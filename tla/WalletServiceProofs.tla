------------------------- MODULE WalletServiceProofs -------------------------
(***************************************************************************)
(* Theorems about WalletService, for any users, requests, mutations and    *)
(* amounts: the row locks make what a transaction read stay current until  *)
(* it commits, however many rows it needs and whoever is aborted.          *)
(***************************************************************************)
EXTENDS WalletService, LedgerTheorems

USE AsksAssumption, IntMaxAssumption

LedgerTypeOK ==
    /\ DOMAIN ledger.wallet \subseteq Users
    /\ \A u \in DOMAIN ledger.wallet : ledger.wallet[u] \in Wallets
    /\ \A e \in ledger.entries : e.user \in DOMAIN ledger.wallet

\* A transaction holds exactly the rows it has read, and one that has not begun
\* or has ended is at its first mutation, with nothing read.
HoldsRows ==
    \A r \in Requests :
        /\ \A u \in Users : rowLock[u] = r <=> u \in Reads(r)
        /\ pc[r] \notin Open => at[r] = 1
        /\ \A e \in written[r] : e.user \in Reads(r)

\* The keys of the mutations a transaction is through with are in the ledger or
\* among what it has written.
PassedAreKnown ==
    \A r \in Requests : pc[r] \in Open => \A i \in 1 .. Len(Asks[r]) : i < at[r] =>
        \E x \in ledger.entries \cup written[r] :
            x.user = Asks[r][i].user /\ x.key = Asks[r][i].key

\* The inductive invariant.  DraftIsCurrent is not inductive by itself: without
\* HoldsRows another transaction could commit to the row in between; and without
\* PassedAreKnown a commit could forget a mutation that was a replay.
WalletInv == TypeOK /\ HoldsRows /\ DraftIsCurrent /\ PassedAreKnown /\ DoneIsRecorded

\* Balances that fit their columns are the balances of a row.
LEMMA WalletsOf ==
    ASSUME NEW w \in Wallets, NEW type \in EntryTypes, NEW amount,
           Fits(Applied(w, type, amount))
    PROVE  Applied(w, type, amount) \in Wallets
<1> DEFINE v == Applied(w, type, amount)
<1>1. v = [available |-> v.available, reserved |-> v.reserved]
  BY DEF Applied, EntryTypes
<1>. QED BY <1>1 DEF Fits, Wallets

\* No balances at all are the balances of a new row.
LEMMA NoDraftType == EmptyWallet \in Wallets /\ NoDraft \in [Users -> Wallets]
  BY DEF EmptyWallet, Wallets, NoDraft

\* A request that locked a row is in one of its mutations.
LEMMA LockedAsks ==
    ASSUME TypeOK, NEW r \in Requests, pc[r] = "locked"
    PROVE  at[r] \in 1 .. Len(Asks[r]) /\ Ask(r).user \in Users /\ Ask(r).type \in EntryTypes
<1>1. at[r] \in 1 .. Len(Asks[r]) + 1 /\ at[r] # Len(Asks[r]) + 1 /\ Len(Asks[r]) \in Nat
  BY AsksAssumption DEF TypeOK
<1>2. at[r] \in 1 .. Len(Asks[r])
  BY <1>1
<1>. QED BY <1>2, AsksAssumption DEF Ask

\* Who is not at a step reads what he read before it.
LEMMA ReadsOfOthers ==
    ASSUME NEW q \in Requests, pc'[q] = pc[q], at'[q] = at[q]
    PROVE  Reads(q)' = Reads(q)
  BY DEF Reads

\* The end of a transaction frees its rows and disturbs no other, if it changes
\* no row but its own.
LEMMA FinishKeeps ==
    ASSUME WalletInv, NEW r \in Requests, pc[r] \in Open,
           NEW outcome \in Ended, Finish(r, outcome), LedgerTypeOK',
           \A u \in Users : rowLock[u] # r /\ u \in DOMAIN ledger.wallet =>
               u \in DOMAIN ledger'.wallet /\ ledger'.wallet[u] = ledger.wallet[u],
           ledger.entries \subseteq ledger'.entries,
           outcome = "done" =>
               \A i \in 1 .. Len(Asks[r]) : Replayed(ledger', Asks[r][i])
    PROVE  WalletInv'
<1>1. \A q \in Requests \ {r} :
         /\ pc'[q] = pc[q] /\ at'[q] = at[q]
         /\ written'[q] = written[q] /\ read'[q] = read[q]
  BY DEF Finish, WalletInv, TypeOK
<1>2. pc'[r] = outcome /\ at'[r] = 1 /\ outcome \notin Open \cup {"idle", "locked", "saved"}
  BY DEF Finish, WalletInv, TypeOK, Ended, Open
<1>3. TypeOK'
  <2>1. pc' \in [Requests -> {"idle"} \cup Open \cup Ended] /\ at' \in [Requests -> Nat]
    BY DEF Finish, WalletInv, TypeOK
  <2>2. ASSUME NEW q \in Requests
        PROVE  /\ at'[q] \in 1 .. Len(Asks[q]) + 1
               /\ pc'[q] = "saved" <=> at'[q] = Len(Asks[q]) + 1
    <3>1. CASE q = r
      BY <3>1, <1>2
    <3>2. CASE q # r
      BY <3>2, <1>1 DEF WalletInv, TypeOK
    <3>. QED BY <3>1, <3>2
  <2>3. rowLock' \in [Users -> Requests \cup {NoRequest}]
    BY DEF Finish, WalletInv, TypeOK
  <2>4. draft' \in [Requests -> [Users -> Wallets]] /\ read' \in [Requests -> [Users -> Wallets]]
    BY NoDraftType DEF Finish, WalletInv, TypeOK
  <2>5. DOMAIN written' = Requests /\ \A q \in Requests : \A e \in written'[q] : e.user \in Users
    BY DEF Finish, WalletInv, TypeOK
  <2>. QED BY <2>1, <2>2, <2>3, <2>4, <2>5 DEF TypeOK, LedgerTypeOK
<1>4. Reads(r)' = {}
  BY <1>2 DEF Reads, Open
<1>5. \A q \in Requests \ {r} : Reads(q)' = Reads(q)
  BY <1>1, ReadsOfOthers
<1>6. HoldsRows'
  <2> SUFFICES ASSUME NEW q \in Requests
               PROVE  /\ \A u \in Users : rowLock'[u] = q <=> u \in Reads(q)'
                      /\ pc'[q] \notin Open => at'[q] = 1
                      /\ \A e \in written'[q] : e.user \in Reads(q)'
    BY DEF HoldsRows
  <2>1. CASE q = r
    BY <2>1, <1>2, <1>4 DEF Finish, WalletInv, TypeOK
  <2>2. CASE q # r
    BY <2>2, <1>1, <1>5 DEF Finish, WalletInv, HoldsRows, TypeOK
  <2>. QED BY <2>1, <2>2
<1>7. DraftIsCurrent'
  <2> SUFFICES ASSUME NEW q \in Requests \ {r}, NEW u \in Reads(q)
               PROVE  u \in DOMAIN ledger'.wallet /\ read'[q][u] = ledger'.wallet[u]
    BY <1>4, <1>5 DEF DraftIsCurrent
  <2>1. u \in Users /\ u \in DOMAIN ledger.wallet /\ read[q][u] = ledger.wallet[u]
    BY DEF WalletInv, DraftIsCurrent, TypeOK
  <2>2. rowLock[u] = q
    BY <2>1 DEF WalletInv, HoldsRows
  <2>. QED BY <1>1, <2>1, <2>2
<1>8. PassedAreKnown'
  BY <1>1, <1>2 DEF WalletInv, PassedAreKnown
<1>9. DoneIsRecorded'
  <2> SUFFICES ASSUME NEW q \in Requests, pc'[q] = "done", NEW i \in 1 .. Len(Asks[q])
               PROVE  Replayed(ledger', Asks[q][i])
    BY DEF DoneIsRecorded, Replayed
  <2>1. CASE q = r
    BY <2>1, <1>2
  <2>2. CASE q # r
    BY <2>2, <1>1 DEF WalletInv, DoneIsRecorded, Replayed
  <2>. QED BY <2>1, <2>2
<1>. QED BY <1>3, <1>6, <1>7, <1>8, <1>9 DEF WalletInv

\* A transaction that throws, dies or is aborted.
LEMMA FailKeeps ==
    ASSUME WalletInv, NEW r \in Requests, pc[r] \in Open, Finish(r, "failed"),
           UNCHANGED ledger
    PROVE  WalletInv'
<1>1. LedgerTypeOK'
  BY DEF WalletInv, TypeOK, LedgerTypeOK
<1>. QED BY <1>1, FinishKeeps DEF Ended

\* The commit changes rows the transaction holds, which no other has read.
LEMMA CommitKeeps ==
    ASSUME WalletInv, NEW r \in Requests, Commit(r)
    PROVE  WalletInv'
<1>1. /\ DOMAIN ledger'.wallet = DOMAIN ledger.wallet
      /\ \A u \in DOMAIN ledger.wallet :
            ledger'.wallet[u] = IF rowLock[u] = r THEN draft[r][u] ELSE ledger.wallet[u]
      /\ ledger'.entries = ledger.entries \cup written[r]
  BY DEF Commit
<1>2. \A e \in written[r] : e.user \in DOMAIN ledger.wallet
  BY DEF WalletInv, HoldsRows, DraftIsCurrent
<1>3. LedgerTypeOK'
  <2>1. \A u \in DOMAIN ledger.wallet : ledger'.wallet[u] \in Wallets
    BY <1>1 DEF WalletInv, TypeOK
  <2>. QED BY <1>1, <1>2, <2>1 DEF WalletInv, TypeOK, LedgerTypeOK
<1>4. \A i \in 1 .. Len(Asks[r]) : Replayed(ledger', Asks[r][i])
  <2>1. pc[r] \in Open /\ at[r] = Len(Asks[r]) + 1
    BY DEF Commit, Open, WalletInv, TypeOK
  <2>. QED BY <1>1, <2>1 DEF WalletInv, PassedAreKnown, Replayed
<1>. QED BY <1>1, <1>3, <1>4, FinishKeeps DEF Commit, Ended, Open

\* A request that begins is at its first mutation and has read nothing.
LEMMA ArriveKeeps ==
    ASSUME WalletInv, NEW r \in Requests, Arrive(r)
    PROVE  WalletInv'
<1>1. \A q \in Requests \ {r} : pc'[q] = pc[q]
  BY DEF Arrive, WalletInv, TypeOK
<1>2. pc[r] = "idle" /\ pc'[r] = "waiting" /\ at[r] = 1 /\ UNCHANGED at
  BY DEF Arrive, WalletInv, TypeOK, HoldsRows, Open
<1>3. TypeOK'
  <2>1. pc' \in [Requests -> {"idle"} \cup Open \cup Ended]
    BY DEF Arrive, WalletInv, TypeOK, Open
  <2>2. ASSUME NEW q \in Requests
        PROVE  pc'[q] = "saved" <=> at'[q] = Len(Asks[q]) + 1
    BY <1>1, <1>2 DEF WalletInv, TypeOK
  <2>. QED BY <2>1, <2>2 DEF Arrive, WalletInv, TypeOK
<1>4. \A q \in Requests : Reads(q)' = Reads(q)
  BY <1>1, <1>2 DEF Reads
<1>5. HoldsRows'
  BY <1>1, <1>2, <1>4 DEF Arrive, WalletInv, HoldsRows
<1>6. DraftIsCurrent'
  BY <1>4 DEF Arrive, WalletInv, DraftIsCurrent
<1>7. PassedAreKnown'
  BY <1>1, <1>2 DEF Arrive, WalletInv, PassedAreKnown
<1>8. DoneIsRecorded'
  BY <1>1, <1>2 DEF Arrive, WalletInv, DoneIsRecorded, Replayed
<1>. QED BY <1>3, <1>5, <1>6, <1>7, <1>8 DEF WalletInv

\* A new wallet is no row any transaction has read.
LEMMA CreateKeeps ==
    ASSUME WalletInv, NEW u \in Users, CreateWalletForUser(u)
    PROVE  WalletInv'
<1>1. /\ DOMAIN ledger'.wallet = DOMAIN ledger.wallet \cup {u}
      /\ ledger'.wallet[u] = EmptyWallet
      /\ \A v \in DOMAIN ledger.wallet : ledger'.wallet[v] = ledger.wallet[v]
      /\ ledger'.entries = ledger.entries
  BY DEF CreateWalletForUser, WalletInv, TypeOK
<1>2. TypeOK'
  BY <1>1, NoDraftType DEF CreateWalletForUser, WalletInv, TypeOK
<1>3. \A q \in Requests : Reads(q)' = Reads(q)
  BY DEF CreateWalletForUser, Reads
<1>4. HoldsRows'
  BY <1>3 DEF CreateWalletForUser, WalletInv, HoldsRows
<1>5. DraftIsCurrent'
  BY <1>1, <1>3 DEF CreateWalletForUser, WalletInv, DraftIsCurrent
<1>6. PassedAreKnown'
  BY <1>1 DEF CreateWalletForUser, WalletInv, PassedAreKnown
<1>7. DoneIsRecorded'
  BY <1>1 DEF CreateWalletForUser, WalletInv, DoneIsRecorded, Replayed
<1>. QED BY <1>2, <1>4, <1>5, <1>6, <1>7 DEF WalletInv

\* The row a transaction gets is one that no other has read.
LEMMA LockKeeps ==
    ASSUME WalletInv, NEW r \in Requests, LockWallet(r)
    PROVE  WalletInv'
<1> DEFINE u == Ask(r).user
<1>1. /\ pc[r] = "waiting" /\ at[r] \in 1 .. Len(Asks[r])
      /\ u \in Users /\ u \in DOMAIN ledger.wallet /\ rowLock[u] \in {NoRequest, r}
  BY DEF LockWallet, Seeks, Ask, WalletInv, TypeOK
<1>2. /\ pc'[r] = "locked" /\ UNCHANGED <<ledger, at, written>>
      /\ \A q \in Requests \ {r} : pc'[q] = pc[q] /\ read'[q] = read[q]
  BY DEF LockWallet, WalletInv, TypeOK
<1>3. /\ rowLock' = [rowLock EXCEPT ![u] = r]
      /\ read'[r][u] = IF rowLock[u] = r THEN read[r][u] ELSE ledger.wallet[u]
      /\ \A v \in Users \ {u} : read'[r][v] = read[r][v]
  BY <1>1 DEF LockWallet, WalletInv, TypeOK
<1>4. TypeOK'
  <2>1. ledger.wallet[u] \in Wallets
    BY <1>1 DEF WalletInv, TypeOK
  <2>2. draft' \in [Requests -> [Users -> Wallets]]
    BY <2>1 DEF LockWallet, WalletInv, TypeOK
  <2>3. read' \in [Requests -> [Users -> Wallets]]
    BY <2>1 DEF LockWallet, WalletInv, TypeOK
  <2>4. pc' \in [Requests -> {"idle"} \cup Open \cup Ended]
    BY DEF LockWallet, WalletInv, TypeOK, Open
  <2>5. ASSUME NEW q \in Requests
        PROVE  pc'[q] = "saved" <=> at'[q] = Len(Asks[q]) + 1
    BY <1>1, <1>2 DEF WalletInv, TypeOK
  <2>6. rowLock' \in [Users -> Requests \cup {NoRequest}]
    BY <1>3 DEF WalletInv, TypeOK
  <2>. QED BY <1>2, <2>2, <2>3, <2>4, <2>5, <2>6 DEF WalletInv, TypeOK
<1>5. \A q \in Requests \ {r} : Reads(q)' = Reads(q)
  BY <1>2, ReadsOfOthers
<1>6. Reads(r)' = Reads(r) \cup {u}
  BY <1>1, <1>2 DEF Reads, Ask
<1>7. HoldsRows'
  <2> SUFFICES ASSUME NEW q \in Requests
               PROVE  /\ \A v \in Users : rowLock'[v] = q <=> v \in Reads(q)'
                      /\ pc'[q] \notin Open => at'[q] = 1
                      /\ \A e \in written'[q] : e.user \in Reads(q)'
    BY DEF HoldsRows
  <2>1. CASE q = r
    BY <2>1, <1>1, <1>2, <1>3, <1>6 DEF WalletInv, HoldsRows, TypeOK, Open
  <2>2. CASE q # r
    BY <2>2, <1>1, <1>2, <1>3, <1>5 DEF WalletInv, HoldsRows, TypeOK
  <2>. QED BY <2>1, <2>2
<1>8. DraftIsCurrent'
  <2> SUFFICES ASSUME NEW q \in Requests, NEW v \in Reads(q)'
               PROVE  v \in DOMAIN ledger.wallet /\ read'[q][v] = ledger.wallet[v]
    BY <1>2 DEF DraftIsCurrent
  <2>1. CASE q # r
    BY <2>1, <1>2, <1>5 DEF WalletInv, DraftIsCurrent
  <2>2. CASE q = r /\ v = u
    BY <2>2, <1>1, <1>3 DEF WalletInv, DraftIsCurrent, HoldsRows
  <2>3. CASE q = r /\ v # u
    <3>1. v \in Reads(r) /\ v \in Users
      BY <2>3, <1>6 DEF WalletInv, DraftIsCurrent, TypeOK
    <3>. QED BY <2>3, <3>1, <1>3 DEF WalletInv, DraftIsCurrent
  <2>. QED BY <2>1, <2>2, <2>3
<1>9. PassedAreKnown'
  BY <1>1, <1>2 DEF WalletInv, PassedAreKnown, Open
<1>10. DoneIsRecorded'
  BY <1>2 DEF WalletInv, DoneIsRecorded, Replayed
<1>. QED BY <1>4, <1>7, <1>8, <1>9, <1>10 DEF WalletInv

\* A mutation that is answered: its key is known now, its row was read before.
LEMMA ProceedKeeps ==
    ASSUME WalletInv, NEW r \in Requests, pc[r] = "locked", Proceed(r),
           UNCHANGED <<ledger, rowLock, read>>,
           draft' \in [Requests -> [Users -> Wallets]],
           DOMAIN written' = Requests,
           \A q \in Requests \ {r} : written'[q] = written[q],
           written[r] \subseteq written'[r],
           \A e \in written'[r] \ written[r] : e.user = Ask(r).user,
           \E x \in ledger.entries \cup written'[r] :
               x.user = Ask(r).user /\ x.key = Ask(r).key
    PROVE  WalletInv'
<1>1. at[r] \in 1 .. Len(Asks[r]) /\ Ask(r).user \in Users
  BY DEF Ask, WalletInv, TypeOK
<1>2. /\ at'[r] = at[r] + 1
      /\ pc'[r] = IF at[r] = Len(Asks[r]) THEN "saved" ELSE "waiting"
      /\ \A q \in Requests \ {r} : pc'[q] = pc[q] /\ at'[q] = at[q]
  BY <1>1 DEF Proceed, WalletInv, TypeOK
<1>3. TypeOK'
  <2>1. at' \in [Requests -> Nat]
    BY DEF Proceed, WalletInv, TypeOK
  <2>2. pc' \in [Requests -> {"idle"} \cup Open \cup Ended]
    BY DEF Proceed, WalletInv, TypeOK, Open
  <2>3. ASSUME NEW q \in Requests
        PROVE  /\ at'[q] \in 1 .. Len(Asks[q]) + 1
               /\ pc'[q] = "saved" <=> at'[q] = Len(Asks[q]) + 1
    <3>1. CASE q = r
      BY <3>1, <1>1, <1>2
    <3>2. CASE q # r
      BY <3>2, <1>2 DEF WalletInv, TypeOK
    <3>. QED BY <3>1, <3>2
  <2>4. \A q \in Requests : \A e \in written'[q] : e.user \in Users
    BY <1>1 DEF WalletInv, TypeOK
  <2>. QED BY <2>1, <2>2, <2>3, <2>4 DEF WalletInv, TypeOK
<1>4. \A q \in Requests \ {r} : Reads(q)' = Reads(q)
  BY <1>2, ReadsOfOthers
<1>5. Reads(r)' = Reads(r) /\ Ask(r).user \in Reads(r)
  BY <1>1, <1>2 DEF Reads, Ask
<1>6. HoldsRows'
  <2> SUFFICES ASSUME NEW q \in Requests
               PROVE  /\ \A v \in Users : rowLock'[v] = q <=> v \in Reads(q)'
                      /\ pc'[q] \notin Open => at'[q] = 1
                      /\ \A e \in written'[q] : e.user \in Reads(q)'
    BY DEF HoldsRows
  <2>1. CASE q = r
    BY <2>1, <1>2, <1>5 DEF WalletInv, HoldsRows, Open
  <2>2. CASE q # r
    BY <2>2, <1>2, <1>4 DEF WalletInv, HoldsRows
  <2>. QED BY <2>1, <2>2
<1>7. DraftIsCurrent'
  BY <1>4, <1>5 DEF WalletInv, DraftIsCurrent
<1>8. PassedAreKnown'
  <2> SUFFICES ASSUME NEW q \in Requests, pc'[q] \in Open,
                      NEW i \in 1 .. Len(Asks[q]), i < at'[q]
               PROVE  \E x \in ledger.entries \cup written'[q] :
                         x.user = Asks[q][i].user /\ x.key = Asks[q][i].key
    BY DEF PassedAreKnown
  <2>1. CASE q # r
    BY <2>1, <1>2 DEF WalletInv, PassedAreKnown
  <2>2. CASE q = r /\ i = at[r]
    BY <2>2 DEF Ask
  <2>3. CASE q = r /\ i # at[r]
    <3>1. i < at[r]
      BY <2>3, <1>1, <1>2
    <3>. QED BY <2>3, <3>1 DEF WalletInv, PassedAreKnown, Open
  <2>. QED BY <2>1, <2>2, <2>3
<1>9. DoneIsRecorded'
  BY <1>2 DEF WalletInv, DoneIsRecorded, Replayed
<1>. QED BY <1>3, <1>6, <1>7, <1>8, <1>9 DEF WalletInv

\* A replay changes nothing, and its key was known.
LEMMA ReplayKeeps ==
    ASSUME WalletInv, NEW r \in Requests, Replay(r)
    PROVE  WalletInv'
<1>1. \E x \in ledger.entries \cup written[r] :
         x.user = Ask(r).user /\ x.key = Ask(r).key
  BY DEF Replay, Known, Replayed
<1>2. draft' \in [Requests -> [Users -> Wallets]] /\ DOMAIN written' = Requests
  BY DEF Replay, WalletInv, TypeOK
<1>. QED BY <1>1, <1>2, ProceedKeeps DEF Replay

\* What is saved is within the columns and invisible to all other requests.
LEMMA SaveKeeps ==
    ASSUME WalletInv, NEW r \in Requests, Save(r)
    PROVE  WalletInv'
<1> DEFINE e   == Ask(r)
           new == Applied(draft[r][e.user], e.type, e.amount)
<1>1. /\ pc[r] = "locked" /\ at[r] \in 1 .. Len(Asks[r])
      /\ e.user \in Users /\ e.type \in EntryTypes
  BY LockedAsks DEF Save, WalletInv
<1>2. new \in Wallets
  <2>1. draft[r][e.user] \in Wallets
    BY <1>1 DEF WalletInv, TypeOK
  <2>2. Fits(new)
    BY DEF Save
  <2>. QED BY <1>1, <2>1, <2>2, WalletsOf
<1>3. draft' \in [Requests -> [Users -> Wallets]]
  <2>1. draft' = [draft EXCEPT ![r] = [@ EXCEPT ![e.user] = new]]
    BY DEF Save
  <2>. QED BY <2>1, <1>1, <1>2 DEF WalletInv, TypeOK
<1>4. /\ DOMAIN written' = Requests
      /\ \A q \in Requests \ {r} : written'[q] = written[q]
      /\ written'[r] = written[r] \cup {e}
  BY DEF Save, WalletInv, TypeOK
<1>. QED BY <1>1, <1>3, <1>4, ProceedKeeps DEF Save

-----------------------------------------------------------------------------
\* The strengthened invariant holds whatever the requests and their interleaving
\* (mutateWallet).
THEOREM WalletInvariant == Spec => []WalletInv
<1>1. Init => WalletInv
  <2> SUFFICES ASSUME Init PROVE WalletInv
    OBVIOUS
  <2>1. TypeOK
    <3>1. \A r \in Requests : 1 \in 1 .. Len(Asks[r]) + 1 /\ 1 # Len(Asks[r]) + 1
      OBVIOUS
    <3>. QED BY <3>1, NoDraftType DEF Init, EmptyLedger, TypeOK
  <2>2. \A r \in Requests : Reads(r) = {}
    BY DEF Init, Reads
  <2>. QED BY <2>1, <2>2 DEF Init, EmptyLedger, WalletInv, HoldsRows, DraftIsCurrent,
                             PassedAreKnown, DoneIsRecorded, Open
<1>2. WalletInv /\ [Next]_vars => WalletInv'
  <2> SUFFICES ASSUME WalletInv, [Next]_vars PROVE WalletInv'
    OBVIOUS
  <2>1. ASSUME NEW u \in Users, CreateWalletForUser(u)
        PROVE  WalletInv'
    BY <2>1, CreateKeeps
  <2>2. ASSUME NEW r \in Requests, Arrive(r)
        PROVE  WalletInv'
    BY <2>2, ArriveKeeps
  <2>3. ASSUME NEW r \in Requests, LockWallet(r)
        PROVE  WalletInv'
    BY <2>3, LockKeeps
  <2>4. ASSUME NEW r \in Requests, Reject(r) \/ Refuse(r) \/ RollBack(r)
        PROVE  WalletInv'
    BY <2>4, FailKeeps DEF Reject, Refuse, RollBack, Open
  <2>5. ASSUME NEW r \in Requests, Replay(r) \/ Save(r)
        PROVE  WalletInv'
    BY <2>5, ReplayKeeps, SaveKeeps
  <2>6. ASSUME NEW r \in Requests, Commit(r)
        PROVE  WalletInv'
    BY <2>6, CommitKeeps
  <2>7. CASE AbortVictim
    <3>1. PICK S \in SUBSET Blocked : Circle(S) /\ (\E r \in S : Finish(r, "failed"))
                                      /\ UNCHANGED ledger
      BY <2>7 DEF AbortVictim
    <3>2. PICK r \in S : Finish(r, "failed")
      BY <3>1
    <3>3. r \in Requests /\ pc[r] \in Open
      BY <3>2 DEF Blocked, Seeks, Open
    <3>. QED BY <3>1, <3>2, <3>3, FailKeeps
  <2>8. CASE UNCHANGED vars
    <3>1. \A r \in Requests : Reads(r)' = Reads(r)
      BY <2>8 DEF vars, Reads
    <3>. QED BY <2>8, <3>1 DEF vars, WalletInv, TypeOK, HoldsRows, DraftIsCurrent,
                               PassedAreKnown, DoneIsRecorded, Replayed
  <2>. QED BY <2>1, <2>2, <2>3, <2>4, <2>5, <2>6, <2>7, <2>8 DEF Next, Transact
<1>. QED BY <1>1, <1>2, PTL DEF Spec

\* Balances stay within their column in the rows and in every transaction.
THEOREM WalletTypeCorrect == Spec => []TypeOK
  BY WalletInvariant, PTL DEF WalletInv

\* What a transaction has read under its locks is what is committed until it ends,
\* however many requests compete for however many rows.
THEOREM DraftsAreCurrent == Spec => []DraftIsCurrent
  BY WalletInvariant, PTL DEF WalletInv

\* No request is answered successfully before all its keys are in the ledger.
THEOREM AnswersAreRecorded == Spec => []DoneIsRecorded
  BY WalletInvariant, PTL DEF WalletInv

-----------------------------------------------------------------------------
(* The contract of the ledger.                                             *)

\* The contract speaks of the operators of Ledger.
LEMMA ContractIsSound == ASSUME NEW L PROVE Contract!Sound(L) <=> Sound(L)
<1>1. ASSUME NEW f
      PROVE  Contract!SumFunction(f) = SumFunction(f)
  BY DEF Contract!SumFunction, SumFunction, Contract!SumFunctionOnSet, SumFunctionOnSet,
         Contract!FoldFunctionOnSet, FoldFunctionOnSet, Contract!MapThenFoldSet, MapThenFoldSet
<1>2. ASSUME NEW E, NEW u
      PROVE  Contract!Balance(E, u) = Balance(E, u)
  BY <1>1 DEF Contract!Balance, Balance, Contract!Total, Total, Contract!Cents, Cents
<1>. QED BY <1>2 DEF Contract!Sound, Sound, Contract!OneEntryPerKey, OneEntryPerKey,
                     Contract!Fits, Fits

\* What a transaction sees: the committed entries and its own.
Seen(r) == ledger.entries \cup written[r]

\* The balances a transaction has in the rows it has read are those that the
\* entries it sees add up to, and no key is among these entries twice.
DraftAddsUp(r) ==
    /\ Countable(written[r]) /\ \A e \in written[r] : e.amount \in Nat \ {0}
    /\ OneEntryPerKey(Seen(r))
    /\ \A u \in Reads(r) : draft[r][u] = Balance(Seen(r), u)

\* A mutation that got to its row asks for a positive amount.
LockedIsPositive == \A r \in Requests : pc[r] = "locked" => Ask(r).amount \in Nat \ {0}

\* Sound is not inductive by itself: the balances that a commit makes visible have
\* to be those of the entries it makes visible, which only the row locks ensure.
LedgerInv ==
    /\ Sound(ledger) /\ Countable(ledger.entries)
    /\ \A r \in Requests : DraftAddsUp(r)

\* Amounts are looked at before the row is locked.
LEMMA AmountsAreChecked == Spec => []LockedIsPositive
<1>1. Init => LockedIsPositive
  BY DEF Init, LockedIsPositive
<1>2. WalletInv /\ LockedIsPositive /\ [Next]_vars => LockedIsPositive'
  <2> SUFFICES ASSUME WalletInv, LockedIsPositive, [Next]_vars, NEW q \in Requests,
                      pc'[q] = "locked"
               PROVE  Asks[q][at'[q]].amount \in Nat \ {0}
    BY DEF LockedIsPositive, Ask
  <2>1. CASE pc[q] = "locked" /\ at'[q] = at[q]
    BY <2>1 DEF LockedIsPositive, Ask
  <2>2. ASSUME NEW r \in Requests, NEW outcome \in Ended, Finish(r, outcome)
        PROVE  pc[q] = "locked" /\ at'[q] = at[q]
    BY <2>2 DEF Finish, Ended, WalletInv, TypeOK
  <2>3. ASSUME NEW r \in Requests, Reject(r) \/ Refuse(r) \/ RollBack(r) \/ Commit(r)
        PROVE  pc[q] = "locked" /\ at'[q] = at[q]
    BY <2>2, <2>3 DEF Reject, Refuse, RollBack, Commit, Ended
  <2>4. ASSUME NEW r \in Requests, Replay(r) \/ Save(r) \/ Arrive(r)
        PROVE  pc[q] = "locked" /\ at'[q] = at[q]
    BY <2>4 DEF Replay, Save, Proceed, Arrive, WalletInv, TypeOK
  <2>5. ASSUME NEW r \in Requests, LockWallet(r)
        PROVE  Asks[q][at'[q]].amount \in Nat \ {0}
    <3>1. UNCHANGED at /\ (q # r => pc'[q] = pc[q])
      BY <2>5 DEF LockWallet, WalletInv, TypeOK
    <3>2. CASE q = r
      BY <2>5, <3>1, <3>2 DEF LockWallet, Seeks, Ask
    <3>. QED BY <2>1, <3>1, <3>2
  <2>6. CASE AbortVictim
    <3>1. PICK r \in Requests : Finish(r, "failed")
      BY <2>6 DEF AbortVictim, Blocked
    <3>. QED BY <2>1, <2>2, <3>1 DEF Ended
  <2>7. ASSUME NEW u \in Users, CreateWalletForUser(u)
        PROVE  pc[q] = "locked" /\ at'[q] = at[q]
    BY <2>7 DEF CreateWalletForUser
  <2>8. UNCHANGED vars => pc[q] = "locked" /\ at'[q] = at[q]
    BY DEF vars
  <2>. QED BY <2>1, <2>3, <2>4, <2>5, <2>6, <2>7, <2>8 DEF Next, Transact
<1>. QED BY <1>1, <1>2, WalletInvariant, PTL DEF Spec

\* The users of what a transaction has written are those of rows no other holds.
LEMMA WritesApart ==
    ASSUME WalletInv, NEW q \in Requests, NEW r \in Requests, q # r, NEW u \in Reads(q)
    PROVE  \A e \in written[r] : e.user # u
<1>1. u \in Users /\ rowLock[u] = q
  BY DEF WalletInv, DraftIsCurrent, TypeOK, HoldsRows
<1>2. ASSUME NEW e \in written[r], e.user = u
      PROVE  FALSE
  BY <1>1, <1>2 DEF WalletInv, HoldsRows
<1>. QED BY <1>2

\* A step that leaves the committed entries and what a transaction has as they are.
LEMMA DraftFrame ==
    ASSUME NEW q \in Requests, DraftAddsUp(q), ledger'.entries = ledger.entries,
           written'[q] = written[q], draft'[q] = draft[q], Reads(q)' \subseteq Reads(q)
    PROVE  DraftAddsUp(q)'
  BY DEF DraftAddsUp, Seen

\* A transaction that has ended, or has not begun, has read and written nothing.
LEMMA DraftEnded ==
    ASSUME NEW q \in Requests, OneEntryPerKey(ledger'.entries), written'[q] = {},
           Reads(q)' = {}
    PROVE  DraftAddsUp(q)'
<1>1. Seen(q)' = ledger'.entries
  BY DEF Seen
<1>. QED BY <1>1, FS_EmptySet DEF DraftAddsUp, Countable

\* The end of a transaction that does not commit.
LEMMA FailAddsUp ==
    ASSUME WalletInv, LedgerInv, NEW r \in Requests, Finish(r, "failed"), UNCHANGED ledger
    PROVE  LedgerInv'
<1>1. written'[r] = {} /\ Reads(r)' = {}
  BY DEF Finish, Reads, WalletInv, TypeOK
<1>2. ASSUME NEW q \in Requests \ {r}
      PROVE  /\ written'[q] = written[q] /\ draft'[q] = draft[q]
             /\ Reads(q)' = Reads(q)
  BY DEF Finish, Reads, WalletInv, TypeOK
<1>3. OneEntryPerKey(ledger'.entries)
  BY DEF LedgerInv, Sound
<1>4. \A q \in Requests : DraftAddsUp(q)'
  BY <1>1, <1>2, <1>3, DraftFrame, DraftEnded DEF LedgerInv
<1>. QED BY <1>4 DEF LedgerInv

\* What a step does to the ledger.
Grows == Sound(ledger') /\ DOMAIN ledger.wallet \subseteq DOMAIN ledger'.wallet
         /\ ledger.entries \subseteq ledger'.entries

\* A commit makes visible what the transaction has seen, in the rows it has locked.
LEMMA CommitAddsUp ==
    ASSUME WalletInv, LedgerInv, NEW r \in Requests, Commit(r)
    PROVE  LedgerInv' /\ Grows
<1>1. /\ DOMAIN ledger'.wallet = DOMAIN ledger.wallet
      /\ \A u \in DOMAIN ledger.wallet :
            ledger'.wallet[u] = IF rowLock[u] = r THEN draft[r][u] ELSE ledger.wallet[u]
      /\ ledger'.entries = Seen(r)
  BY DEF Commit, Seen
<1>2. DraftAddsUp(r)
  BY DEF LedgerInv
<1>3. \A e \in written[r] : e.user \in Reads(r) /\ e.user \in DOMAIN ledger.wallet
  BY DEF WalletInv, HoldsRows, DraftIsCurrent
<1>4. Countable(ledger'.entries)
  BY <1>1, <1>2, CountableUnion DEF DraftAddsUp, LedgerInv, Seen
<1>5. ASSUME NEW u \in DOMAIN ledger.wallet
      PROVE  ledger'.wallet[u] = Balance(ledger'.entries, u) /\ Fits(ledger'.wallet[u])
  <2>1. u \in Users
    BY DEF WalletInv, TypeOK
  <2>2. CASE rowLock[u] = r
    <3>1. u \in Reads(r)
      BY <2>1, <2>2 DEF WalletInv, HoldsRows
    <3>2. draft[r][u] = Balance(Seen(r), u)
      BY <1>2, <3>1 DEF DraftAddsUp
    <3>3. Fits(draft[r][u])
      BY <2>1 DEF WalletInv, TypeOK, Wallets, Fits
    <3>. QED BY <1>1, <2>2, <3>2, <3>3
  <2>3. CASE rowLock[u] # r
    <3>1. \A e \in written[r] : e.user # u
      BY <1>3, <2>1, <2>3 DEF WalletInv, HoldsRows
    <3>2. {e \in Seen(r) : e.user = u} = {e \in ledger.entries : e.user = u}
      BY <3>1 DEF Seen
    <3>3. Balance(Seen(r), u) = Balance(ledger.entries, u)
      BY <3>2, BalanceOfUser
    <3>. QED BY <1>1, <2>3, <3>3 DEF LedgerInv, Sound
  <2>. QED BY <2>2, <2>3
<1>6. \A e \in ledger'.entries : e.user \in DOMAIN ledger'.wallet /\ e.amount \in Nat \ {0}
  BY <1>1, <1>2, <1>3 DEF DraftAddsUp, Seen, LedgerInv, Sound
<1>7. Sound(ledger')
  BY <1>1, <1>2, <1>5, <1>6 DEF Sound, DraftAddsUp
<1>8. DraftAddsUp(r)'
  <2>1. written'[r] = {} /\ Reads(r)' = {}
    BY DEF Commit, Finish, Reads, WalletInv, TypeOK
  <2>. QED BY <1>7, <2>1, DraftEnded DEF Sound
<1>9. ASSUME NEW q \in Requests \ {r}
      PROVE  DraftAddsUp(q)'
  <2>1. /\ written'[q] = written[q] /\ draft'[q] = draft[q]
        /\ Reads(q)' = Reads(q) /\ Seen(q)' = Seen(q) \cup written[r]
    BY <1>1 DEF Commit, Finish, Reads, WalletInv, TypeOK, Seen
  <2>2. DraftAddsUp(q)
    BY DEF LedgerInv
  <2>3. OneEntryPerKey(Seen(q) \cup written[r])
    <3>1. ASSUME NEW e \in written[q], NEW f \in written[r]
          PROVE  e.user # f.user
      <4>1. e.user \in Reads(q)
        BY DEF WalletInv, HoldsRows
      <4>. QED BY <4>1, WritesApart
    <3>. QED BY <1>2, <2>2, <3>1 DEF DraftAddsUp, Seen, OneEntryPerKey
  <2>4. ASSUME NEW u \in Reads(q)
        PROVE  draft[q][u] = Balance(Seen(q) \cup written[r], u)
    <3>1. {e \in Seen(q) \cup written[r] : e.user = u} = {e \in Seen(q) : e.user = u}
      BY WritesApart
    <3>2. Balance(Seen(q) \cup written[r], u) = Balance(Seen(q), u)
      BY <3>1, BalanceOfUser
    <3>. QED BY <2>2, <3>2 DEF DraftAddsUp
  <2>. QED BY <2>1, <2>2, <2>3, <2>4 DEF DraftAddsUp
<1>. QED BY <1>1, <1>4, <1>7, <1>8, <1>9 DEF LedgerInv, Grows, Seen

\* The row that is read is what the committed entries add up to.
LEMMA LockAddsUp ==
    ASSUME WalletInv, LedgerInv, NEW r \in Requests, LockWallet(r)
    PROVE  LedgerInv'
<1> DEFINE u == Ask(r).user
<1>1. /\ pc[r] = "waiting" /\ at[r] \in 1 .. Len(Asks[r])
      /\ u \in Users /\ u \in DOMAIN ledger.wallet
  <2>1. Seeks(r)
    BY DEF LockWallet
  <2>2. pc[r] = "waiting" /\ u \in DOMAIN ledger.wallet
    BY <2>1 DEF Seeks
  <2>3. at[r] \in 1 .. Len(Asks[r])
    BY <2>2 DEF WalletInv, TypeOK
  <2>. QED BY <2>2, <2>3 DEF WalletInv, TypeOK
<1>2. UNCHANGED <<ledger, at, written>> /\ pc'[r] = "locked"
  BY DEF LockWallet, WalletInv, TypeOK
<1>3. ASSUME NEW q \in Requests \ {r}
      PROVE  draft'[q] = draft[q] /\ Reads(q)' = Reads(q)
  BY DEF LockWallet, Reads, WalletInv, TypeOK
<1>4. Reads(r)' = Reads(r) \cup {u}
  BY <1>1, <1>2 DEF Reads, Ask
<1>5. /\ draft'[r][u] = IF rowLock[u] = r THEN draft[r][u] ELSE ledger.wallet[u]
      /\ \A v \in Users \ {u} : draft'[r][v] = draft[r][v]
  BY <1>1 DEF LockWallet, WalletInv, TypeOK
<1>6. DraftAddsUp(r)
  BY DEF LedgerInv
<1>7. ASSUME NEW v \in Reads(r) \cup {u}
      PROVE  draft'[r][v] = Balance(Seen(r), v)
  <2>1. v \in Users
    BY <1>1 DEF WalletInv, DraftIsCurrent, TypeOK
  <2>2. CASE v \in Reads(r)
    <3>1. rowLock[v] = r
      BY <2>1, <2>2 DEF WalletInv, HoldsRows
    <3>2. draft'[r][v] = draft[r][v]
      BY <1>5, <2>1, <3>1
    <3>. QED BY <1>6, <2>2, <3>2 DEF DraftAddsUp
  <2>3. CASE v \notin Reads(r)
    <3>1. v = u /\ rowLock[u] # r
      BY <2>1, <2>3 DEF WalletInv, HoldsRows
    <3>2. \A e \in written[r] : e.user # u
      BY <2>3, <3>1 DEF WalletInv, HoldsRows
    <3>3. {e \in Seen(r) : e.user = u} = {e \in ledger.entries : e.user = u}
      BY <3>2 DEF Seen
    <3>4. Balance(Seen(r), u) = Balance(ledger.entries, u)
      BY <3>3, BalanceOfUser
    <3>. QED BY <1>1, <1>5, <3>1, <3>4 DEF LedgerInv, Sound
  <2>. QED BY <2>2, <2>3
<1>8. DraftAddsUp(r)'
  BY <1>2, <1>4, <1>6, <1>7 DEF DraftAddsUp, Seen
<1>9. \A q \in Requests \ {r} : DraftAddsUp(q)'
  BY <1>2, <1>3, DraftFrame DEF LedgerInv
<1>. QED BY <1>2, <1>8, <1>9 DEF LedgerInv

\* A mutation that is saved counts in the balances of its transaction.
LEMMA SaveAddsUp ==
    ASSUME WalletInv, LockedIsPositive, LedgerInv, NEW r \in Requests, Save(r)
    PROVE  LedgerInv'
<1> DEFINE e == Ask(r)
           new == Applied(draft[r][e.user], e.type, e.amount)
<1>1. /\ pc[r] = "locked" /\ at[r] \in 1 .. Len(Asks[r])
      /\ e.user \in Users /\ e.type \in EntryTypes
  BY LockedAsks DEF Save, WalletInv
<1>2. /\ UNCHANGED ledger
      /\ written'[r] = written[r] \cup {e}
      /\ draft'[r] = [draft[r] EXCEPT ![e.user] = new]
      /\ \A x \in Seen(r) : ~(x.user = e.user /\ x.key = e.key)
  BY DEF Save, Known, Replayed, Seen, WalletInv, TypeOK
<1>3. e.amount \in Nat \ {0}
  BY <1>1 DEF LockedIsPositive
<1>4. ASSUME NEW q \in Requests \ {r}
      PROVE  written'[q] = written[q] /\ draft'[q] = draft[q] /\ Reads(q)' = Reads(q)
  BY DEF Save, Proceed, Reads, WalletInv, TypeOK
<1>5. Reads(r)' = Reads(r) /\ e.user \in Reads(r)
  <2>1. at'[r] = at[r] + 1 /\ pc'[r] # "locked"
    BY <1>1 DEF Save, Proceed, WalletInv, TypeOK
  <2>2. \A j \in 1 .. Len(Asks[r]) :
           /\ j < at'[r] \/ (j = at'[r] /\ pc'[r] = "locked") <=> j < at[r] \/ j = at[r]
           /\ j < at[r] \/ (j = at[r] /\ pc[r] = "locked") <=> j < at[r] \/ j = at[r]
    BY <1>1, <2>1
  <2>. QED BY <1>1, <2>2 DEF Reads, Ask
<1>6. DraftAddsUp(r)
  BY DEF LedgerInv
<1>7. Countable(written[r] \cup {e}) /\ Countable(Seen(r))
  BY <1>1, <1>3, <1>6, CountableAdd, CountableUnion DEF DraftAddsUp, Seen, LedgerInv
<1>8. Seen(r)' = Seen(r) \cup {e} /\ e \notin Seen(r)
  BY <1>2 DEF Seen
<1>9. OneEntryPerKey(Seen(r) \cup {e})
  BY <1>2, <1>6 DEF DraftAddsUp, OneEntryPerKey
<1>10. ASSUME NEW u \in Reads(r)
       PROVE  draft'[r][u] = Balance(Seen(r) \cup {e}, u)
  <2>1. draft[r][u] = Balance(Seen(r), u)
    BY <1>6 DEF DraftAddsUp
  <2>2. Balance(Seen(r) \cup {e}, u) =
           IF e.user = u THEN Applied(Balance(Seen(r), u), e.type, e.amount)
           ELSE Balance(Seen(r), u)
    BY <1>1, <1>3, <1>7, <1>8, BalanceAdd
  <2>3. u \in Users
    BY DEF WalletInv, DraftIsCurrent, TypeOK
  <2>4. draft'[r][u] = IF u = e.user THEN new ELSE draft[r][u]
    BY <1>2, <2>3 DEF WalletInv, TypeOK
  <2> HIDE DEF e
  <2>. QED BY <2>1, <2>2, <2>4
<1>11. DraftAddsUp(r)'
  BY <1>2, <1>3, <1>5, <1>6, <1>7, <1>8, <1>9, <1>10 DEF DraftAddsUp
<1>12. \A q \in Requests \ {r} : DraftAddsUp(q)'
  BY <1>2, <1>4, DraftFrame DEF LedgerInv
<1>. QED BY <1>2, <1>11, <1>12 DEF LedgerInv

\* A new wallet is empty, and nobody has posted to it.
LEMMA CreateAddsUp ==
    ASSUME WalletInv, LedgerInv, NEW u \in Users, CreateWalletForUser(u)
    PROVE  LedgerInv' /\ Grows
<1>1. /\ DOMAIN ledger'.wallet = DOMAIN ledger.wallet \cup {u}
      /\ u \notin DOMAIN ledger.wallet
      /\ ledger'.wallet[u] = EmptyWallet
      /\ \A v \in DOMAIN ledger.wallet : ledger'.wallet[v] = ledger.wallet[v]
      /\ ledger'.entries = ledger.entries
  BY DEF CreateWalletForUser, WalletInv, TypeOK
<1>2. Balance(ledger.entries, u) = EmptyWallet
  <2>1. {e \in ledger.entries : e.user = u} = {e \in {} : e.user = u}
    BY <1>1 DEF WalletInv, TypeOK
  <2>. QED BY <2>1, BalanceOfUser, BalanceEmpty
<1>3. Fits(EmptyWallet)
  BY DEF Fits, EmptyWallet
<1>4. Sound(ledger')
  BY <1>1, <1>2, <1>3 DEF LedgerInv, Sound
<1>5. \A q \in Requests : Reads(q)' = Reads(q) /\ UNCHANGED <<draft, written>>
  BY DEF CreateWalletForUser, Reads
<1>6. \A q \in Requests : DraftAddsUp(q)'
  BY <1>1, <1>5, DraftFrame DEF LedgerInv
<1>. QED BY <1>1, <1>4, <1>6 DEF LedgerInv, Grows

\* Every step keeps the balances in step with the entries, committed or not.
LEMMA StepAddsUp ==
    ASSUME WalletInv, LockedIsPositive, LedgerInv, [Next]_vars
    PROVE  LedgerInv' /\ (UNCHANGED ledger \/ Grows)
<1>1. ASSUME NEW u \in Users, CreateWalletForUser(u)
      PROVE  LedgerInv' /\ Grows
  BY <1>1, CreateAddsUp
<1>2. ASSUME NEW r \in Requests, Arrive(r)
      PROVE  LedgerInv' /\ UNCHANGED ledger
  <2>1. \A q \in Requests : /\ Reads(q)' \subseteq Reads(q)
                            /\ UNCHANGED <<ledger, draft, written>>
    BY <1>2 DEF Arrive, Reads, WalletInv, TypeOK
  <2>. QED BY <2>1, DraftFrame DEF LedgerInv
<1>3. ASSUME NEW r \in Requests, LockWallet(r)
      PROVE  LedgerInv' /\ UNCHANGED ledger
  BY <1>3, LockAddsUp DEF LockWallet
<1>4. ASSUME NEW r \in Requests, Reject(r) \/ Refuse(r) \/ RollBack(r)
      PROVE  LedgerInv' /\ UNCHANGED ledger
  BY <1>4, FailAddsUp DEF Reject, Refuse, RollBack
<1>5. ASSUME NEW r \in Requests, Replay(r)
      PROVE  LedgerInv' /\ UNCHANGED ledger
  <2>1. \A q \in Requests : /\ Reads(q)' = Reads(q)
                            /\ UNCHANGED <<ledger, draft, written>>
    BY <1>5 DEF Replay, Proceed, Reads, WalletInv, TypeOK
  <2>. QED BY <2>1, DraftFrame DEF LedgerInv
<1>6. ASSUME NEW r \in Requests, Save(r)
      PROVE  LedgerInv' /\ UNCHANGED ledger
  BY <1>6, SaveAddsUp DEF Save
<1>7. ASSUME NEW r \in Requests, Commit(r)
      PROVE  LedgerInv' /\ Grows
  BY <1>7, CommitAddsUp
<1>8. CASE AbortVictim
  <2>1. PICK r \in Requests : Finish(r, "failed") /\ UNCHANGED ledger
    BY <1>8 DEF AbortVictim, Blocked
  <2>. QED BY <2>1, FailAddsUp
<1>9. CASE UNCHANGED vars
  <2>1. \A q \in Requests : Reads(q)' = Reads(q)
    BY <1>9 DEF vars, Reads
  <2>2. UNCHANGED <<ledger, draft, written>>
    BY <1>9 DEF vars
  <2>. QED BY <2>1, <2>2, DraftFrame DEF LedgerInv
<1>. QED BY <1>1, <1>2, <1>3, <1>4, <1>5, <1>6, <1>7, <1>8, <1>9 DEF Next, Transact

\* The committed balances, and those in every transaction, are what the entries add
\* up to (mutateWallet).
LEMMA LedgerInvariant == Spec => []LedgerInv
<1>1. Init => LedgerInv
  <2> SUFFICES ASSUME Init PROVE LedgerInv
    OBVIOUS
  <2>1. Sound(ledger) /\ Countable(ledger.entries)
    BY FS_EmptySet DEF Init, EmptyLedger, Sound, OneEntryPerKey, Countable
  <2>2. ASSUME NEW q \in Requests
        PROVE  DraftAddsUp(q)
    BY FS_EmptySet DEF Init, EmptyLedger, DraftAddsUp, Seen, Reads, OneEntryPerKey, Countable
  <2>. QED BY <2>1, <2>2 DEF LedgerInv
<1>2. WalletInv /\ LockedIsPositive /\ LedgerInv /\ [Next]_vars => LedgerInv'
  BY StepAddsUp
<1>. QED BY <1>1, <1>2, WalletInvariant, AmountsAreChecked, PTL DEF Spec

\* However transactions on the wallets interleave, wait for each other, are aborted
\* or die, the ledger keeps what its contract promises.
THEOREM WalletImplementsContract == Spec => ImplementsContract
<1>1. Init => Contract!Init
  BY ContractIsSound DEF Init, EmptyLedger, Contract!Init, Sound, OneEntryPerKey
<1>2. WalletInv /\ WalletInv' /\ LockedIsPositive /\ LedgerInv /\ [Next]_vars
        => [Contract!Grow]_ledger
  <2> SUFFICES ASSUME WalletInv, WalletInv', LockedIsPositive, LedgerInv, [Next]_vars,
                      ledger' # ledger
               PROVE  Contract!Grow
    OBVIOUS
  <2>1. Grows
    BY StepAddsUp
  <2>2. DOMAIN ledger'.wallet \subseteq Users
    BY DEF WalletInv, TypeOK
  <2>. QED BY <2>1, <2>2, ContractIsSound DEF Grows, Contract!Grow
<1>. QED BY <1>1, <1>2, WalletInvariant, AmountsAreChecked, LedgerInvariant, PTL
         DEF Spec, ImplementsContract, Contract!Spec
-----------------------------------------------------------------------------
(* When transactions deadlock, and when they cannot.                       *)

\* Every transaction locks the rows it needs in the order of the rank.
LocksInOrder(rank) ==
    \A r \in Requests : \A i, j \in 1 .. Len(Asks[r]) :
        i < j => rank[Asks[r][i].user] <= rank[Asks[r][j].user]

\* Who holds a row and waits for another one waits for one of a higher rank.
LEMMA WaitsForHigher ==
    ASSUME WalletInv, NEW rank \in [Users -> Nat], LocksInOrder(rank),
           \A u, v \in Users : rank[u] = rank[v] => u = v,
           NEW r \in Blocked, NEW h \in Blocked, rowLock[Ask(r).user] = h
    PROVE  /\ rank[Ask(r).user] \in Nat /\ rank[Ask(h).user] \in Nat
           /\ rank[Ask(r).user] < rank[Ask(h).user]
<1>. USE DEF WalletInv
<1>1. ASSUME NEW q \in Blocked
      PROVE  q \in Requests /\ pc[q] = "waiting" /\ at[q] \in 1 .. Len(Asks[q])
             /\ Ask(q).user \in Users /\ rowLock[Ask(q).user] # q
  <2>1. q \in Requests /\ pc[q] = "waiting" /\ rowLock[Ask(q).user] # q
        /\ Ask(q).user \in DOMAIN ledger.wallet
    BY DEF Blocked, Seeks
  <2>2. at[q] \in 1 .. Len(Asks[q]) + 1 /\ at[q] # Len(Asks[q]) + 1 /\ Len(Asks[q]) \in Nat
    BY <2>1, AsksAssumption DEF TypeOK
  <2>. QED BY <2>1, <2>2 DEF TypeOK
<1>2. Ask(r).user \in Reads(h)
  BY <1>1 DEF HoldsRows
<1>3. PICK i \in 1 .. Len(Asks[h]) : i < at[h] /\ Asks[h][i].user = Ask(r).user
  BY <1>1, <1>2 DEF Reads
<1>4. rank[Ask(r).user] <= rank[Ask(h).user]
  BY <1>1, <1>3 DEF LocksInOrder, Ask
<1>5. rank[Ask(r).user] # rank[Ask(h).user]
  BY <1>1
<1>6. rank[Ask(r).user] \in Nat /\ rank[Ask(h).user] \in Nat
  BY <1>1
<1>. QED BY <1>4, <1>5, <1>6

\* If all transactions lock the wallets they need in one and the same order of the
\* users, no two of them ever wait for each other in a circle: what the decision on
\* row locks asks for is enough, for any number of transactions and mutations
\* (mutateWallet; settleDebit and settleCredit have no such order).
THEOREM OrderedLocksNeverDeadlock ==
    ASSUME NEW rank \in [Users -> Nat], LocksInOrder(rank),
           \A u, v \in Users : rank[u] = rank[v] => u = v
    PROVE  Spec => []NobodyDeadlocks
<1>1. WalletInv => NobodyDeadlocks
  <2> SUFFICES ASSUME WalletInv, NEW S \in SUBSET Blocked, Circle(S)
               PROVE  FALSE
    BY DEF NobodyDeadlocks
  <2>. DEFINE ranks == {rank[Ask(r).user] : r \in S}
              below == OpToRel(<, Nat)
  <2>1. \A r \in S : rowLock[Ask(r).user] \in S
    BY DEF Circle
  <2>2. \A h \in S : \E r \in S : rowLock[Ask(r).user] = h
    BY DEF Circle
  <2>3. \A r \in S : rank[Ask(r).user] \in Nat
    BY <2>1, WaitsForHigher
  <2>4. \A n \in ranks : \E m \in ranks : <<m, n>> \in below
    <3> SUFFICES ASSUME NEW h \in S
                 PROVE  \E m \in ranks : <<m, rank[Ask(h).user]>> \in below
      OBVIOUS
    <3>1. PICK r \in S : rowLock[Ask(r).user] = h
      BY <2>2
    <3>2. rank[Ask(r).user] < rank[Ask(h).user]
      BY <3>1, WaitsForHigher
    <3>. QED BY <2>3, <3>2 DEF OpToRel
  <2>5. ranks \subseteq Nat /\ ranks # {}
    BY <2>3 DEF Circle
  <2>6. \E n \in ranks : \A m \in ranks : ~(<<m, n>> \in below)
    BY <2>5, NatLessThanWellFounded, WFMin
  <2>. QED BY <2>4, <2>6
<1>. QED BY <1>1, WalletInvariant, PTL
=============================================================================
