------------------------- MODULE SettlementsProofs -------------------------
(***************************************************************************)
(* Proofs about Settlements, for any users, expenses, payments and number  *)
(* of requests.                                                            *)
(***************************************************************************)
EXTENDS Settlements, LedgerTheorems, TLAPS

-----------------------------------------------------------------------------
(* The shape of the data *)

\* What a request is made of, by its kind.
LEMMA RequestShape ==
  ASSUME TypeOK, NEW r \in Requests
  PROVE  /\ req[r].op = "settle" => /\ req[r].caller \in Users
                                    /\ req[r].payment \in Payments
                                    /\ req[r].payment.from \in Users
                                    /\ req[r].payment.to \in Users
                                    /\ req[r].payment.amount \in Int
         /\ req[r].op = "delete" => /\ req[r].caller \in Users
                                    /\ req[r].target \in SettlementIds
         /\ req[r].target \in SettlementIds =>
              req[r].op \in {"settle", "delete"} /\ req[r].caller \in Users
  <1>1. req[r] \in NewRequests \cup StoredRequests \cup {NullRequest}
    BY DEF TypeOK
  <1> QED
    BY <1>1, LedgerAssumption DEF NewRequests, StoredRequests, NullRequest

\* Naming the settlement a request has created.
LEMMA RequestFields ==
  ASSUME TypeOK, NEW r \in Requests, NEW s
  PROVE  /\ [req[r] EXCEPT !.target = s].target = s
         /\ [req[r] EXCEPT !.target = s].op = req[r].op
         /\ [req[r] EXCEPT !.target = s].caller = req[r].caller
         /\ [req[r] EXCEPT !.target = s].payment = req[r].payment
  <1>1. req[r] \in NewRequests \cup StoredRequests \cup {NullRequest}
    BY DEF TypeOK
  <1> QED
    BY <1>1 DEF NewRequests, StoredRequests, NullRequest

\* A settlement row that is unused or gone.
LEMMA BlankShape ==
  ASSUME NEW s \in {"unused", "live", "deleted", "gone"}
  PROVE  Blank(s) \in SettlementRows /\ Blank(s).status = s
  BY DEF Blank, SettlementRows

\* The row that recording a payment leaves.
LEMMA LiveShape ==
  ASSUME NEW p \in Payments
  PROVE  /\ LiveSettlement(p) \in SettlementRows
         /\ LiveSettlement(p).status = "live"
         /\ \A u : isParty(u, LiveSettlement(p)) <=> isParty(u, p)
  BY LedgerAssumption DEF LiveSettlement, SettlementRows, isParty

\* The domains of the functions the steps change.
LEMMA Domains ==
  ASSUME TypeOK
  PROVE  /\ DOMAIN pc = Requests /\ DOMAIN req = Requests /\ DOMAIN seen = Requests
         /\ DOMAIN rows = Requests /\ DOMAIN moved = Requests
         /\ DOMAIN settlement = SettlementIds /\ DOMAIN table = ExpenseIds
         /\ DOMAIN splitRows = ExpenseIds
  BY DEF TypeOK

-----------------------------------------------------------------------------
(* Type correctness, with the steps each kind of request can be at *)

\* The group starts without expenses and payments, and the server idle.
LEMMA InitIInv == Init => IInv
  <1> SUFFICES ASSUME Init PROVE IInv
    OBVIOUS
  <1> USE DEF Init
  <1>1. TypeOK
    BY LedgerAssumption, BlankShape DEF TypeOK, Finished, InFlight
  <1>2. StepOK /\ DeleteOK /\ AuditPendingOK /\ AuditIsTrue
    BY DEF StepOK, DeleteOK, AuditPendingOK, AuditIsTrue
  <1>3. SplitRowsOK
    BY LedgerAssumption DEF SplitRowsOK, LiveExpenses
  <1>4. RowsOK /\ CapHolds
    BY DEF RowsOK, CapHolds
  <1> QED
    BY <1>1, <1>2, <1>3, <1>4 DEF IInv

\* Each step gives every variable a value of its type.
LEMMA TypeNext == TypeOK /\ StepOK /\ [Next]_vars => TypeOK'
  <1> SUFFICES ASSUME TypeOK, StepOK, [Next]_vars PROVE TypeOK'
    OBVIOUS
  <1> USE DEF TypeOK, Goto, InFlight, Finished
  <1>1. ASSUME NEW r \in Requests, Receive(r) PROVE TypeOK'
    BY <1>1 DEF Receive
  <1>2. ASSUME NEW r \in Requests, Authorize(r) PROVE TypeOK'
    BY <1>2 DEF Authorize
  <1>3. ASSUME NEW r \in Requests, LoadGroup(r) PROVE TypeOK'
    BY <1>3 DEF LoadGroup
  <1>4. ASSUME NEW r \in Requests, FindGroup(r) PROVE TypeOK'
    BY <1>4 DEF FindGroup
  <1>5. ASSUME NEW r \in Requests, ReadExpenses(r) PROVE TypeOK'
    BY <1>5 DEF ReadExpenses
  <1>6. ASSUME NEW r \in Requests, ReadSplits(r) PROVE TypeOK'
    BY <1>6 DEF ReadSplits
  <1>7. ASSUME NEW r \in Requests, ReadSettlements(r) PROVE TypeOK'
    BY <1>7 DEF ReadSettlements
  <1>8. ASSUME NEW r \in Requests, Create(r) PROVE TypeOK'
    <2>1. CASE UNCHANGED <<settlement, req, moved>>
      BY <1>8, <2>1 DEF Create
    <2>2. ASSUME NEW s \in SettlementIds,
                 settlement' = [settlement EXCEPT ![s] = LiveSettlement(req[r].payment)],
                 req' = [req EXCEPT ![r] = [@ EXCEPT !.target = s]],
                 LedgerMoves, Goto(r, "audit")
          PROVE  TypeOK'
      <3>1. req[r].op = "settle" /\ req[r] \in NewRequests \cup StoredRequests
        BY <1>8 DEF Create, StepOK, NullRequest
      <3>2. [req[r] EXCEPT !.target = s] \in StoredRequests
        BY <3>1 DEF NewRequests, StoredRequests
      <3>3. LiveSettlement(req[r].payment) \in SettlementRows
        BY <3>1, RequestShape, LiveShape
      <3> QED
        BY <1>8, <2>2, <3>2, <3>3 DEF Create, LedgerMoves
    <2> QED
      BY <1>8, <2>1, <2>2 DEF Create
  <1>9. ASSUME NEW r \in Requests, LookUp(r) PROVE TypeOK'
    BY <1>9 DEF LookUp
  <1>10. ASSUME NEW r \in Requests, Read(r) PROVE TypeOK'
    BY <1>10 DEF Read
  <1>11. ASSUME NEW r \in Requests, Delete(r) PROVE TypeOK'
    <2>1. req[r].target \in SettlementIds
      BY <1>11, RequestShape DEF Delete, StepOK
    <2>2. [settlement[req[r].target] EXCEPT !.status = "deleted"] \in SettlementRows
      BY <2>1 DEF SettlementRows
    <2> QED
      BY <1>11, <2>1, <2>2 DEF Delete, LedgerMoves
  <1>12. ASSUME NEW r \in Requests, RecordAudit(r) PROVE TypeOK'
    <2>1. req[r].target \in SettlementIds /\ req[r].op \in {"settle", "delete"}
          /\ req[r].caller \in Users
      BY <1>12, RequestShape DEF RecordAudit, StepOK
    <2> QED
      BY <1>12, <2>1 DEF RecordAudit
  <1>13. ASSUME NEW r \in Requests, Fail(r) PROVE TypeOK'
    BY <1>13 DEF Fail
  <1>14. ASSUME NEW e \in ExpenseIds, NEW x \in Entries, WriteExpense(e, x) PROVE TypeOK'
    BY <1>14 DEF WriteExpense, ExpenseStore!Publish, ExpenseStore!Replace, LedgerMoves,
                 requestVars
  <1>15. ASSUME NEW e \in ExpenseIds, RemoveExpense(e) PROVE TypeOK'
    BY <1>15 DEF RemoveExpense, ExpenseStore!Remove, LedgerMoves, requestVars
  <1>16. ASSUME NEW u \in Users, AddMember(u) PROVE TypeOK'
    BY <1>16 DEF AddMember, requestVars
  <1>17. ASSUME DeleteGroup PROVE TypeOK'
    BY <1>17, BlankShape DEF DeleteGroup, ExpenseStore!Close, LedgerMoves, requestVars
  <1>18. ASSUME UNCHANGED vars PROVE TypeOK'
    BY <1>18 DEF vars
  <1> QED
    BY <1>1, <1>2, <1>3, <1>4, <1>5, <1>6, <1>7, <1>8, <1>9, <1>10, <1>11, <1>12,
       <1>13, <1>14, <1>15, <1>16, <1>17, <1>18 DEF Next, Step, Idle

\* A request moves on to a step that its kind of request has.
LEMMA StepNext == TypeOK /\ StepOK /\ [Next]_vars => StepOK'
  <1> SUFFICES ASSUME TypeOK, StepOK, [Next]_vars PROVE StepOK'
    OBVIOUS
  <1> USE DEF TypeOK, StepOK, Goto
  <1>1. ASSUME NEW r \in Requests, Receive(r) PROVE StepOK'
    BY <1>1 DEF Receive, NewRequests
  <1>2. ASSUME NEW r \in Requests, Authorize(r) PROVE StepOK'
    BY <1>2 DEF Authorize
  <1>3. ASSUME NEW r \in Requests, LoadGroup(r) PROVE StepOK'
    BY <1>3 DEF LoadGroup
  <1>4. ASSUME NEW r \in Requests, FindGroup(r) PROVE StepOK'
    BY <1>4 DEF FindGroup
  <1>5. ASSUME NEW r \in Requests, ReadExpenses(r) PROVE StepOK'
    BY <1>5 DEF ReadExpenses
  <1>6. ASSUME NEW r \in Requests, ReadSplits(r) PROVE StepOK'
    BY <1>6 DEF ReadSplits
  <1>7. ASSUME NEW r \in Requests, ReadSettlements(r) PROVE StepOK'
    BY <1>7 DEF ReadSettlements
  <1>8. ASSUME NEW r \in Requests, Create(r) PROVE StepOK'
    <2>1. CASE Goto(r, "failed") /\ UNCHANGED req
      BY <2>1
    <2>2. ASSUME NEW s \in SettlementIds,
                 req' = [req EXCEPT ![r] = [@ EXCEPT !.target = s]],
                 Goto(r, "audit")
          PROVE  StepOK'
      <3>1. req'[r].target = s /\ pc'[r] = "audit"
        BY <2>2, RequestFields
      <3> QED
        BY <2>2, <3>1
    <2> QED
      BY <1>8, <2>1, <2>2 DEF Create
  <1>9. ASSUME NEW r \in Requests, LookUp(r) PROVE StepOK'
    BY <1>9 DEF LookUp
  <1>10. ASSUME NEW r \in Requests, Read(r) PROVE StepOK'
    BY <1>10 DEF Read
  <1>11. ASSUME NEW r \in Requests, Delete(r) PROVE StepOK'
    BY <1>11, RequestShape DEF Delete
  <1>12. ASSUME NEW r \in Requests, RecordAudit(r) PROVE StepOK'
    BY <1>12 DEF RecordAudit
  <1>13. ASSUME NEW r \in Requests, Fail(r) PROVE StepOK'
    BY <1>13 DEF Fail
  <1>14. ASSUME UNCHANGED <<req, pc>> PROVE StepOK'
    BY <1>14
  <1> QED
    BY <1>1, <1>2, <1>3, <1>4, <1>5, <1>6, <1>7, <1>8, <1>9, <1>10, <1>11, <1>12,
       <1>13, <1>14
    DEF Next, Step, Idle, WriteExpense, RemoveExpense, AddMember, DeleteGroup, requestVars, vars

-----------------------------------------------------------------------------
(* What a request has read of the ledger *)

\* Whoever changes the ledger marks every request.
LEMMA MovedNext ==
  ASSUME TypeOK, StepOK, [Next]_vars
  PROVE  \/ UNCHANGED <<table, splitRows, settlement>>
         \/ moved' = [r \in Requests |-> TRUE]
  BY DEF Next, Step, Idle, vars, Receive, Authorize, LoadGroup, FindGroup, ReadExpenses,
         ReadSplits, ReadSettlements, Create, LookUp, Read, Delete, RecordAudit, Fail,
         WriteExpense, RemoveExpense, AddMember, DeleteGroup, LedgerMoves

\* The split rows stay those of the write that readers see.
LEMMA SplitRowsNext == TypeOK /\ StepOK /\ SplitRowsOK /\ [Next]_vars => SplitRowsOK'
  <1> SUFFICES ASSUME TypeOK, StepOK, SplitRowsOK, [Next]_vars PROVE SplitRowsOK'
    OBVIOUS
  <1> USE LedgerAssumption, Domains DEF SplitRowsOK, LiveExpenses
  <1>1. CASE UNCHANGED <<table, splitRows>>
    BY <1>1
  <1>2. ASSUME NEW e \in ExpenseIds, NEW x \in Entries, WriteExpense(e, x) PROVE SplitRowsOK'
    <2>1. table' = [table EXCEPT ![e] = x] /\ splitRows' = [splitRows EXCEPT ![e] = x.shares]
      BY <1>2 DEF WriteExpense, ExpenseStore!Publish, ExpenseStore!Replace
    <2> QED
      BY <2>1
  <1>3. ASSUME NEW e \in ExpenseIds, RemoveExpense(e) PROVE SplitRowsOK'
    BY <1>3 DEF RemoveExpense, ExpenseStore!Remove
  <1>4. CASE DeleteGroup
    BY <1>4 DEF DeleteGroup, ExpenseStore!Close
  <1> QED
    BY <1>1, <1>2, <1>3, <1>4
    DEF Next, Step, Idle, vars, Receive, Authorize, LoadGroup, FindGroup, ReadExpenses,
        ReadSplits, ReadSettlements, Create, LookUp, Read, Delete, RecordAudit, Fail, AddMember

\* The ledger, when nothing writes to it.
LEMMA LedgerStays ==
  ASSUME UNCHANGED <<table, splitRows, settlement>>
  PROVE  /\ LiveExpenses' = LiveExpenses
         /\ Ledger' = Ledger
         /\ LivePayments' = LivePayments
         /\ Net' = Net
  <1>1. LiveExpenses' = LiveExpenses
    BY DEF LiveExpenses
  <1>2. Ledger' = Ledger
    BY <1>1 DEF Ledger
  <1>3. LivePayments' = LivePayments
    BY DEF LivePayments
  <1> QED
    BY <1>1, <1>2, <1>3 DEF Net

\* The request that takes a step, or none.
LEMMA OneMoves ==
  ASSUME TypeOK, StepOK, [Next]_vars, NEW p \in Requests,
         ~(/\ pc'[p] = pc[p] /\ req'[p] = req[p] /\ rows'[p] = rows[p]
           /\ moved'[p] \in {moved[p], TRUE})
  PROVE  Receive(p) \/ Step(p) \/ Fail(p)
  <1> USE Domains DEF Goto, LedgerMoves
  <1>1. ASSUME NEW r \in Requests, Receive(r) \/ Step(r) \/ Fail(r) PROVE r = p
    <2>1. ASSUME r # p
          PROVE  /\ pc'[p] = pc[p] /\ req'[p] = req[p] /\ rows'[p] = rows[p]
                 /\ moved'[p] \in {moved[p], TRUE}
      BY <1>1, <2>1
      DEF Step, Receive, Authorize, LoadGroup, FindGroup, ReadExpenses,
          ReadSplits, ReadSettlements, Create, LookUp, Read, Delete, RecordAudit, Fail
    <2> QED
      BY <2>1
  <1> QED
    BY <1>1 DEF Next, Idle, vars, WriteExpense, RemoveExpense, AddMember, DeleteGroup,
                requestVars

\* Reading the splits of the expenses read before completes the ledger.
LEMMA SplitsComplete ==
  ASSUME TypeOK, SplitRowsOK, NEW read,
         read = {Row(e, table[e].payer, table[e].amount, << >>) : e \in LiveExpenses}
  PROVE  {[x EXCEPT !.shares = splitRows[x.id]] : x \in read} = Ledger
  <1>1. ASSUME NEW e \in LiveExpenses
        PROVE  [Row(e, table[e].payer, table[e].amount, << >>) EXCEPT
                  !.shares = splitRows[Row(e, table[e].payer, table[e].amount, << >>).id]]
                 = Row(e, table[e].payer, table[e].amount, table[e].shares)
    BY <1>1 DEF Row, SplitRowsOK
  <1> DEFINE Bare(e) == Row(e, table[e].payer, table[e].amount, << >>)
             Full(e) == Row(e, table[e].payer, table[e].amount, table[e].shares)
             Reread(x) == [x EXCEPT !.shares = splitRows[x.id]]
  <1>2. \A e \in LiveExpenses : Reread(Bare(e)) = Full(e)
    BY <1>1
  <1> HIDE DEF Bare, Full, Reread
  <1>3. read = {Bare(e) : e \in LiveExpenses} /\ Ledger = {Full(e) : e \in LiveExpenses}
    BY DEF Bare, Full, Ledger
  <1>4. {Reread(x) : x \in read} = {Full(e) : e \in LiveExpenses}
    BY <1>2, <1>3
  <1> QED
    BY <1>3, <1>4 DEF Reread

\* What a request has read stays the ledger for as long as nothing moves it.
LEMMA RowsNext == TypeOK /\ StepOK /\ SplitRowsOK /\ RowsOK /\ [Next]_vars => RowsOK'
  <1> SUFFICES ASSUME TypeOK, StepOK, SplitRowsOK, RowsOK, [Next]_vars,
                      NEW p \in Requests, ~moved'[p]
               PROVE  /\ pc'[p] = "read_splits" =>
                           rows'[p] = {Row(e, table'[e].payer, table'[e].amount, << >>)
                                         : e \in LiveExpenses'}
                      /\ pc'[p] = "read_settlements" => rows'[p] = Ledger'
    BY DEF RowsOK
  <1> USE Domains DEF Goto
  <1>1. UNCHANGED <<table, splitRows, settlement>>
    BY MovedNext
  <1>2. LiveExpenses' = LiveExpenses /\ Ledger' = Ledger
    BY <1>1, LedgerStays
  <1>3. CASE /\ pc'[p] = pc[p] /\ rows'[p] = rows[p]
             /\ moved'[p] \in {moved[p], TRUE}
    BY <1>1, <1>2, <1>3 DEF RowsOK, TypeOK
  <1>4. CASE ReadExpenses(p)
    BY <1>1, <1>2, <1>4 DEF ReadExpenses
  <1>5. CASE ReadSplits(p)
    <2>1. /\ pc[p] = "read_splits" /\ ~moved[p] /\ pc'[p] = "read_settlements"
          /\ rows'[p] = {[x EXCEPT !.shares = splitRows[x.id]] : x \in rows[p]}
      BY <1>5 DEF ReadSplits
    <2>2. rows[p] = {Row(e, table[e].payer, table[e].amount, << >>) : e \in LiveExpenses}
      BY <2>1 DEF RowsOK
    <2> QED
      BY <1>2, <2>1, <2>2, SplitsComplete
  <1>6. ASSUME (Receive(p) \/ Step(p) \/ Fail(p)) /\ ~ReadExpenses(p) /\ ~ReadSplits(p)
        PROVE  pc'[p] \notin {"read_splits", "read_settlements"}
    BY <1>6
    DEF Step, Receive, Authorize, LoadGroup, FindGroup, ReadSettlements, Create, LookUp, Read,
        Delete, RecordAudit, Fail
  <1> QED
    BY <1>3, <1>4, <1>5, <1>6, OneMoves

\* A payment stays within the debt for as long as nothing moves the ledger.
LEMMA CapNext == TypeOK /\ StepOK /\ RowsOK /\ CapHolds /\ [Next]_vars => CapHolds'
  <1> SUFFICES ASSUME TypeOK, StepOK, RowsOK, CapHolds, [Next]_vars,
                      NEW p \in Requests, pc'[p] = "insert", ~moved'[p]
               PROVE  req'[p].payment.amount
                        <= Owed(Net', req'[p].payment.from, req'[p].payment.to)
    BY DEF CapHolds
  <1> USE Domains DEF Goto
  <1>1. UNCHANGED <<table, splitRows, settlement>>
    BY MovedNext
  <1>2. LivePayments' = LivePayments /\ Net' = Net
    BY <1>1, LedgerStays
  <1>3. CASE /\ pc'[p] = pc[p] /\ req'[p] = req[p]
             /\ moved'[p] \in {moved[p], TRUE}
    BY <1>2, <1>3 DEF CapHolds, TypeOK
  <1>4. CASE ReadSettlements(p)
    <2>1. /\ pc[p] = "read_settlements" /\ ~moved[p] /\ req'[p] = req[p]
          /\ req[p].payment.amount <= Owed(NetBalances(Users, rows[p], LivePayments),
                                           req[p].payment.from, req[p].payment.to)
      BY <1>4 DEF ReadSettlements
    <2>2. rows[p] = Ledger
      BY <2>1 DEF RowsOK
    <2>3. req[p].payment.amount <= Owed(Net, req[p].payment.from, req[p].payment.to)
      BY <2>1, <2>2 DEF Net
    <2> QED
      BY <1>2, <2>1, <2>3
  <1>5. ASSUME (Receive(p) \/ Step(p) \/ Fail(p)) /\ ~ReadSettlements(p)
        PROVE  pc'[p] # "insert"
    BY <1>5
    DEF Step, Receive, Authorize, LoadGroup, FindGroup, ReadExpenses, ReadSplits, Create, LookUp,
        Read, Delete, RecordAudit, Fail
  <1> QED
    BY <1>3, <1>4, <1>5, OneMoves

-----------------------------------------------------------------------------
(* The life of a settlement *)

\* What a step does to the settlement rows.
LEMMA SettlementEffect ==
  ASSUME TypeOK, StepOK, [Next]_vars, NEW s \in SettlementIds
  PROVE  \/ settlement'[s] = settlement[s]
         \/ \E r \in Requests :
              /\ Create(r) /\ settlement[s].status = "unused"
              /\ settlement'[s] = LiveSettlement(req[r].payment)
              /\ req'[r] = [req[r] EXCEPT !.target = s]
              /\ pc'[r] = "audit"
         \/ \E r \in Requests :
              /\ Delete(r) /\ req[r].target = s /\ settlement[s].status = "live"
              /\ settlement'[s] = [settlement[s] EXCEPT !.status = "deleted"]
         \/ DeleteGroup /\ settlement[s].status # "unused" /\ settlement'[s] = Blank("gone")
  <1> USE Domains DEF Goto
  <1>1. ASSUME NEW r \in Requests, Create(r), settlement'[s] # settlement[s]
        PROVE  /\ settlement[s].status = "unused"
               /\ settlement'[s] = LiveSettlement(req[r].payment)
               /\ req'[r] = [req[r] EXCEPT !.target = s]
               /\ pc'[r] = "audit"
    BY <1>1 DEF Create
  <1>2. ASSUME NEW r \in Requests, Delete(r), settlement'[s] # settlement[s]
        PROVE  /\ req[r].target = s /\ settlement[s].status = "live"
               /\ settlement'[s] = [settlement[s] EXCEPT !.status = "deleted"]
    BY <1>2, RequestShape DEF Delete, StepOK
  <1>3. ASSUME DeleteGroup, settlement'[s] # settlement[s]
        PROVE  settlement[s].status # "unused" /\ settlement'[s] = Blank("gone")
    BY <1>3 DEF DeleteGroup
  <1>4. \/ UNCHANGED settlement
        \/ \E r \in Requests : Create(r) \/ Delete(r)
        \/ DeleteGroup
    BY DEF Next, Step, Idle, vars, Receive, Authorize, LoadGroup, FindGroup, ReadExpenses,
           ReadSplits, ReadSettlements, LookUp, Read, RecordAudit, Fail,
           WriteExpense, RemoveExpense, AddMember
  <1> QED
    BY <1>1, <1>2, <1>3, <1>4

\* Once recorded, never unused again; once deleted, never live again; and the
\* two parties stay who they are until the row is gone.
LEMMA SettlementStays ==
  ASSUME TypeOK, StepOK, [Next]_vars, NEW s \in SettlementIds
  PROVE  /\ settlement[s].status # "unused" => settlement'[s].status # "unused"
         /\ settlement[s].status \notin {"unused", "live"} => settlement'[s].status # "live"
         /\ settlement[s].status # "unused" /\ settlement'[s].status # "gone" =>
              /\ settlement[s].status # "gone"
              /\ \A u : isParty(u, settlement[s]) => isParty(u, settlement'[s])
  <1>1. settlement[s] \in SettlementRows
    BY DEF TypeOK
  <1>2. \A row \in SettlementRows :
          /\ [row EXCEPT !.status = "deleted"].status = "deleted"
          /\ [row EXCEPT !.status = "deleted"].from = row.from
          /\ [row EXCEPT !.status = "deleted"].to = row.to
    BY DEF SettlementRows
  <1>3. Blank("gone").status = "gone"
    BY BlankShape
  <1> QED
    BY <1>1, <1>2, <1>3, SettlementEffect DEF isParty

\* What is about to be deleted was recorded for the caller.
LEMMA DeleteNext == TypeOK /\ StepOK /\ DeleteOK /\ [Next]_vars => DeleteOK'
  <1> SUFFICES ASSUME TypeOK, StepOK, DeleteOK, [Next]_vars,
                      NEW p \in Requests, pc'[p] = "delete"
               PROVE  /\ settlement'[req'[p].target].status # "unused"
                      /\ settlement'[req'[p].target].status # "gone" =>
                           isParty(req'[p].caller, settlement'[req'[p].target])
    BY DEF DeleteOK
  <1> USE Domains DEF Goto
  <1>1. CASE pc'[p] = pc[p] /\ req'[p] = req[p]
    <2>1. req[p].target \in SettlementIds
      BY <1>1, RequestShape DEF StepOK
    <2>2. /\ settlement[req[p].target].status # "unused"
          /\ settlement[req[p].target].status # "gone" =>
               isParty(req[p].caller, settlement[req[p].target])
      BY <1>1 DEF DeleteOK
    <2> QED
      BY <1>1, <2>1, <2>2, SettlementStays
  <1>2. CASE Read(p)
    <2>1. /\ settlement[req[p].target].status = "live"
          /\ isParty(req[p].caller, settlement[req[p].target])
          /\ req'[p] = req[p] /\ settlement' = settlement
      BY <1>2 DEF Read
    <2> QED
      BY <2>1
  <1>3. ASSUME (Receive(p) \/ Step(p) \/ Fail(p)) /\ ~Read(p)
        PROVE  pc'[p] # "delete"
    BY <1>3
    DEF Step, Receive, Authorize, LoadGroup, FindGroup, ReadExpenses, ReadSplits,
        ReadSettlements, Create, LookUp, Delete, RecordAudit, Fail
  <1> QED
    BY <1>1, <1>2, <1>3, OneMoves

\* A request reaches its audit only when what it reports has happened.
LEMMA PendingNext ==
  TypeOK /\ StepOK /\ DeleteOK /\ AuditPendingOK /\ [Next]_vars => AuditPendingOK'
  <1> SUFFICES ASSUME TypeOK, StepOK, DeleteOK, AuditPendingOK, [Next]_vars,
                      NEW p \in Requests, pc'[p] = "audit"
               PROVE  /\ settlement'[req'[p].target].status # "unused"
                      /\ req'[p].op = "delete" => settlement'[req'[p].target].status # "live"
    BY DEF AuditPendingOK
  <1> USE Domains DEF Goto
  <1>1. CASE pc'[p] = pc[p] /\ req'[p] = req[p]
    <2>1. req[p].target \in SettlementIds
      BY <1>1 DEF StepOK
    <2>2. /\ settlement[req[p].target].status # "unused"
          /\ req[p].op = "delete" => settlement[req[p].target].status # "live"
      BY <1>1 DEF AuditPendingOK
    <2> QED
      BY <1>1, <2>1, <2>2, SettlementStays
  <1>2. CASE Create(p)
    <2>1. PICK s \in SettlementIds :
            /\ settlement' = [settlement EXCEPT ![s] = LiveSettlement(req[p].payment)]
            /\ req' = [req EXCEPT ![p] = [@ EXCEPT !.target = s]]
      BY <1>2 DEF Create
    <2>2. req'[p].target = s /\ req'[p].op = "settle"
      BY <1>2, <2>1, RequestFields DEF Create, StepOK
    <2>3. settlement'[s].status = "live"
      BY <1>2, <2>1, LiveShape, RequestShape DEF Create, StepOK
    <2> QED
      BY <2>2, <2>3
  <1>3. CASE Delete(p)
    <2>1. req[p].target \in SettlementIds /\ req'[p] = req[p] /\ pc[p] = "delete"
      BY <1>3, RequestShape DEF Delete, StepOK
    <2>2. settlement[req[p].target].status # "unused"
      BY <2>1 DEF DeleteOK
    <2>3. settlement[req[p].target] \in SettlementRows
      BY <2>1 DEF TypeOK
    <2>4. [settlement[req[p].target] EXCEPT !.status = "deleted"].status = "deleted"
      BY <2>3 DEF SettlementRows
    <2> QED
      BY <1>3, <2>1, <2>2, <2>4 DEF Delete
  <1>4. ASSUME (Receive(p) \/ Step(p) \/ Fail(p)) /\ ~Create(p) /\ ~Delete(p)
        PROVE  pc'[p] # "audit"
    BY <1>4
    DEF Step, Receive, Authorize, LoadGroup, FindGroup, ReadExpenses, ReadSplits,
        ReadSettlements, LookUp, Read, RecordAudit, Fail
  <1> QED
    BY <1>1, <1>2, <1>3, <1>4, OneMoves

\* What the audit trail says stays true.
LEMMA AuditNext ==
  TypeOK /\ StepOK /\ AuditPendingOK /\ AuditIsTrue /\ [Next]_vars => AuditIsTrue'
  <1> SUFFICES ASSUME TypeOK, StepOK, AuditPendingOK, AuditIsTrue, [Next]_vars,
                      NEW a \in audit'
               PROVE  /\ settlement'[a.entity].status # "unused"
                      /\ a.action = "delete" => settlement'[a.entity].status # "live"
    BY DEF AuditIsTrue
  <1>1. CASE a \in audit
    <2>1. a.entity \in SettlementIds
      BY <1>1 DEF TypeOK
    <2>2. /\ settlement[a.entity].status # "unused"
          /\ a.action = "delete" => settlement[a.entity].status # "live"
      BY <1>1 DEF AuditIsTrue
    <2> QED
      BY <2>1, <2>2, SettlementStays
  <1>2. ASSUME NEW r \in Requests, RecordAudit(r), a \notin audit
        PROVE  /\ settlement'[a.entity].status # "unused"
               /\ a.action = "delete" => settlement'[a.entity].status # "live"
    <2>1. a = [action |-> req[r].op, entity |-> req[r].target, actor |-> req[r].caller]
      BY <1>2 DEF RecordAudit
    <2> QED
      BY <1>2, <2>1 DEF RecordAudit, AuditPendingOK
  <1>3. UNCHANGED audit \/ \E r \in Requests : RecordAudit(r)
    BY DEF Next, Step, Idle, vars, Receive, Authorize, LoadGroup, FindGroup, ReadExpenses,
           ReadSplits, ReadSettlements, Create, LookUp, Read, Delete, Fail,
           WriteExpense, RemoveExpense, AddMember, DeleteGroup, requestVars
  <1> QED
    BY <1>1, <1>2, <1>3

\* The invariant is kept by every step.
LEMMA InvNext == IInv /\ [Next]_vars => IInv'
  BY TypeNext, StepNext, SplitRowsNext, RowsNext, CapNext, DeleteNext, PendingNext, AuditNext
  DEF IInv

\* A payment appears and is deleted only by one of its parties.
LEMMA PartyStep ==
  ASSUME IInv, [Next]_vars, NEW s \in SettlementIds,
         settlement'[s].status # settlement[s].status, settlement'[s].status # "gone"
  PROVE  \E r \in Requests : /\ pc'[r] # pc[r]
                             /\ req'[r].target = s
                             /\ isParty(req[r].caller, settlement'[s])
  <1> USE Domains DEF IInv, Goto
  <1>1. ASSUME NEW r \in Requests, Create(r),
               settlement'[s] = LiveSettlement(req[r].payment),
               req'[r] = [req[r] EXCEPT !.target = s], pc'[r] = "audit"
        PROVE  pc'[r] # pc[r] /\ req'[r].target = s /\ isParty(req[r].caller, settlement'[s])
    <2>1. pc[r] = "insert" /\ req[r].op = "settle" /\ isParty(req[r].caller, req[r].payment)
      BY <1>1 DEF Create, StepOK
    <2>2. req[r].payment \in Payments
      BY <2>1, RequestShape
    <2> QED
      BY <1>1, <2>1, <2>2, LiveShape, RequestFields
  <1>2. ASSUME NEW r \in Requests, Delete(r), req[r].target = s, settlement[s].status = "live",
               settlement'[s] = [settlement[s] EXCEPT !.status = "deleted"]
        PROVE  pc'[r] # pc[r] /\ req'[r].target = s /\ isParty(req[r].caller, settlement'[s])
    <2>1. /\ pc[r] = "delete" /\ pc'[r] \in {"audit", "answered"} /\ req'[r] = req[r]
      BY <1>2 DEF Delete
    <2>2. isParty(req[r].caller, settlement[s])
      BY <1>2, <2>1 DEF DeleteOK
    <2>3. settlement[s] \in SettlementRows
      BY DEF TypeOK
    <2>4. isParty(req[r].caller, settlement'[s])
      BY <1>2, <2>2, <2>3 DEF isParty, SettlementRows
    <2> QED
      BY <1>2, <2>1, <2>4
  <1>3. Blank("gone").status = "gone"
    BY BlankShape
  <1> QED
    BY <1>1, <1>2, <1>3, SettlementEffect

-----------------------------------------------------------------------------
(* What a payment does to the debts *)

\* The record that readers see of the live settlement s.
Seen(s) == [id |-> s, from |-> settlement[s].from, to |-> settlement[s].to,
            amount |-> settlement[s].amount]

\* The ledger has finitely many rows, with amounts in cents.
LEMMA LedgerRows ==
  ASSUME TypeOK
  PROVE  ExpenseRows(Ledger) /\ PaymentRows(LivePayments)
  <1>1. ExpenseRows(Ledger)
    <2> DEFINE R(e) == Row(e, table[e].payer, table[e].amount, table[e].shares)
    <2>1. IsFiniteSet(LiveExpenses)
      BY LedgerAssumption, FS_Subset DEF LiveExpenses
    <2>2. Ledger = {R(e) : e \in LiveExpenses}
      BY DEF Ledger
    <2>3. \A e \in LiveExpenses : /\ R(e).amount \in Int
                                  /\ \A u \in DOMAIN R(e).shares : R(e).shares[u] \in Int
      BY LedgerAssumption DEF LiveExpenses, Row
    <2> HIDE DEF R
    <2>4. IsFiniteSet({R(e) : e \in LiveExpenses})
      <3> DEFINE f == [e \in LiveExpenses |-> R(e)]
      <3>1. IsFiniteSet({f[e] : e \in LiveExpenses})
        BY <2>1, FiniteRange
      <3> QED
        BY <3>1
    <2> QED
      BY <2>2, <2>3, <2>4 DEF ExpenseRows
  <1>2. PaymentRows(LivePayments)
    <2> DEFINE live == {s \in SettlementIds : settlement[s].status = "live"}
    <2>1. IsFiniteSet(live)
      BY LedgerAssumption, FS_Subset
    <2>2. LivePayments = {Seen(s) : s \in live}
      BY DEF LivePayments, Seen
    <2>3. \A s \in live : Seen(s).amount \in Int
      BY DEF TypeOK, SettlementRows, Seen
    <2> HIDE DEF live
    <2>4. IsFiniteSet({Seen(s) : s \in live})
      <3> DEFINE f == [s \in live |-> Seen(s)]
      <3>1. IsFiniteSet({f[s] : s \in live})
        BY <2>1, FiniteRange
      <3> QED
        BY <3>1
    <2> QED
      BY <2>2, <2>3, <2>4 DEF PaymentRows
  <1> QED
    BY <1>1, <1>2

\* Recording a payment adds one row to what readers see of the settlements,
\* and leaves the expenses alone.
LEMMA RecordingAdds ==
  ASSUME TypeOK, StepOK, [Next]_vars, NEW r \in Requests,
         pc[r] = "insert", pc'[r] = "audit"
  PROVE  /\ Ledger' = Ledger
         /\ \E s : /\ s \notin LivePayments
                   /\ LivePayments' = LivePayments \cup {s}
                   /\ s.from = req[r].payment.from
                   /\ s.to = req[r].payment.to
                   /\ s.amount = req[r].payment.amount
  <1> USE Domains DEF Goto
  <1>1. Create(r)
    <2>1. Receive(r) \/ Step(r) \/ Fail(r)
      BY OneMoves
    <2> QED
      BY <2>1 DEF Step, Receive, Authorize, LoadGroup, FindGroup, ReadExpenses, ReadSplits,
                  ReadSettlements, LookUp, Read, Delete, RecordAudit, Fail
  <1>2. PICK s \in SettlementIds :
          /\ settlement[s].status = "unused"
          /\ settlement' = [settlement EXCEPT ![s] = LiveSettlement(req[r].payment)]
    BY <1>1 DEF Create
  <1>3. table' = table
    BY <1>1 DEF Create
  <1>4. Ledger' = Ledger
    BY <1>3 DEF Ledger, LiveExpenses
  <1> DEFINE p == req[r].payment
             live == {t \in SettlementIds : settlement[t].status = "live"}
             new == [id |-> s, from |-> p.from, to |-> p.to, amount |-> p.amount]
  <1>5. LivePayments = {Seen(t) : t \in live}
    BY DEF LivePayments, Seen
  <1>6. /\ settlement'[s].status = "live" /\ settlement'[s].from = p.from
        /\ settlement'[s].to = p.to /\ settlement'[s].amount = p.amount
        /\ \A t \in SettlementIds : t # s => settlement'[t] = settlement[t]
    BY <1>2 DEF LiveSettlement
  <1>7. /\ {t \in SettlementIds : settlement'[t].status = "live"} = live \cup {s}
        /\ s \notin live
    BY <1>2, <1>6
  <1>8. LivePayments' = {Seen(t)' : t \in live \cup {s}}
    BY <1>7 DEF LivePayments, Seen
  <1>9. Seen(s)' = new /\ \A t \in live : Seen(t)' = Seen(t)
    BY <1>6, <1>7 DEF Seen
  <1>10. LivePayments' = LivePayments \cup {new}
    <2> HIDE DEF live, new
    <2> QED
      BY <1>5, <1>8, <1>9
  <1>11. new \notin LivePayments
    BY <1>5, <1>7 DEF Seen
  <1> QED
    BY <1>4, <1>10, <1>11

\* A payment within what is owed moves that debt only.
LEMMA PaymentStep ==
  ASSUME TypeOK, TypeOK', StepOK, [Next]_vars, NEW r \in Requests,
         pc[r] = "insert", pc'[r] = "audit",
         req[r].payment.amount <= Owed(Net, req[r].payment.from, req[r].payment.to),
         NEW a \in Users, NEW b \in Users
  PROVE  Owed(Net', a, b)
           = Owed(Net, a, b) - (IF a = req[r].payment.from /\ b = req[r].payment.to
                                THEN req[r].payment.amount ELSE 0)
  <1>1. PICK s : /\ s \notin LivePayments
                 /\ LivePayments' = LivePayments \cup {s}
                 /\ s.from = req[r].payment.from
                 /\ s.to = req[r].payment.to
                 /\ s.amount = req[r].payment.amount
    BY RecordingAdds
  <1> DEFINE from == req[r].payment.from
             to == req[r].payment.to
             paid == req[r].payment.amount
             before == Net
             after == Net'
  <1>2. from \in Users /\ to \in Users /\ paid \in Int /\ 0 < paid
    BY RequestShape DEF StepOK
  <1>3. Members(Users)
    BY LedgerAssumption DEF Members
  <1>4. /\ before = NetBalances(Users, Ledger, LivePayments)
        /\ after = NetBalances(Users, Ledger, LivePayments \cup {s})
    BY <1>1, RecordingAdds DEF Net
  <1>5. ExpenseRows(Ledger) /\ PaymentRows(LivePayments) /\ s.amount \in Int
    BY <1>1, <1>2, LedgerRows
  <1>6. /\ before \in NetsOf(Users) /\ after \in NetsOf(Users)
        /\ \A u \in Users : after[u] = before[u] + (IF u = from THEN paid ELSE 0)
                                                 - (IF u = to THEN paid ELSE 0)
    <2> HIDE DEF before, after, from, to, paid
    <2>1. s.from = from /\ s.to = to /\ s.amount = paid
      BY <1>1 DEF from, to, paid
    <2> QED
      BY <1>1, <1>4, <1>5, <2>1, PaymentCounts
  <1>7. paid <= Owed(before, from, to)
    OBVIOUS
  <1>8. \A c, d \in Users : Owed(after, c, d)
          = Owed(before, c, d) - (IF c = from /\ d = to THEN paid ELSE 0)
    <2> HIDE DEF before, after, from, to, paid
    <2> QED
      BY <1>2, <1>3, <1>6, <1>7, PayingMovesOneDebt
  <1> QED
    BY <1>8, Zenon

-----------------------------------------------------------------------------
(* Theorems *)

\* The invariant that the properties below follow from is inductive.
THEOREM Invariance == Spec => []IInv
  BY InitIInv, InvNext, PTL DEF Spec

\* Every variable keeps its type.
THEOREM TypeCorrect == Spec => []TypeOK
  <1>1. IInv => TypeOK
    BY DEF IInv
  <1> QED
    BY <1>1, Invariance, PTL

\* A payment that no other write overtook is within what is owed, however
\* the queries of other requests fall between its own.
THEOREM WithinWhatIsOwed == Spec => []CapHolds
  <1>1. IInv => CapHolds
    BY DEF IInv
  <1> QED
    BY <1>1, Invariance, PTL

\* The audit trail reports no payment that was not recorded and no deletion
\* of one that still counts.
THEOREM TrueAudit == Spec => []AuditIsTrue
  <1>1. IInv => AuditIsTrue
    BY DEF IInv
  <1> QED
    BY <1>1, Invariance, PTL

\* A payment appears and is deleted only by one of its two parties.
THEOREM PartiesOnly == Spec => OnlyPartiesTouch
  <1>1. IInv /\ [Next]_vars =>
          [\A s \in SettlementIds :
             settlement'[s].status # settlement[s].status /\ settlement'[s].status # "gone" =>
               \E r \in Requests :
                 /\ pc'[r] # pc[r]
                 /\ req'[r].target = s
                 /\ isParty(req[r].caller, settlement'[s])]_vars
    BY PartyStep
  <1> QED
    BY <1>1, Invariance, PTL DEF Spec, OnlyPartiesTouch

\* Whatever the payments and whoever else is served, recording a payment that
\* is within what is owed lowers that debt by its amount and leaves all other
\* debts, which nobody stores, as they were.
THEOREM PaymentMovesItsDebt == Spec => SettleMovesOnlyItsDebt
  <1>1. IInv /\ IInv' /\ [Next]_vars =>
          [\A r \in Requests :
             LET p == req[r].payment
             IN  /\ pc[r] = "insert" /\ pc'[r] = "audit"
                 /\ p.amount <= Owed(Net, p.from, p.to)
                 => \A a, b \in Users :
                      Owed(Net, a, b)' =
                        Owed(Net, a, b) - (IF a = p.from /\ b = p.to THEN p.amount ELSE 0)]_vars
    BY PaymentStep DEF IInv
  <1> QED
    BY <1>1, Invariance, PTL DEF Spec, SettleMovesOnlyItsDebt

=============================================================================
