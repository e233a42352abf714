---------------------------- MODULE Settlements ----------------------------
(***************************************************************************)
(* Payments between the members of one group: POST /groups/{id}/settlements *)
(* and DELETE /settlements/{id}, served concurrently.  Expenses come and    *)
(* go as ExpenseTable promises.  CalculateGroupDebts reads the ledger in    *)
(* three queries outside any transaction, so each is a step of its own.     *)
(***************************************************************************)
EXTENDS Balances

CONSTANTS
  Users,                \* numeric ids
  FirstMembers,         \* members of the group when it was created
  ExpenseIds,           \* expenses of one behaviour (a bound)
  Entries,              \* what an expense may say: payer, amount, shares
  Absent, Removed,      \* an id without, and no longer with, a live expense
  SettlementIds,        \* ids the sequence hands out (a bound)
  Payments,             \* payments the clients try to record: from, to, amount
  Requests,             \* requests served in one behaviour (a bound)
  NoUser, NoSettlement

ASSUME LedgerAssumption ==
  /\ FirstMembers \subseteq Users
  /\ Users \subseteq Nat
  /\ IsFiniteSet(Users) /\ IsFiniteSet(ExpenseIds) /\ IsFiniteSet(SettlementIds)
  /\ \A x \in Entries : /\ x.payer \in Users /\ DOMAIN x.shares \subseteq Users
                         /\ x.amount \in Int
                         /\ \A u \in DOMAIN x.shares : x.shares[u] \in Int
  /\ {Absent, Removed} \cap Entries = {}
  /\ Payments \subseteq [from : Users, to : Users, amount : Int]
  /\ NoUser \notin Users /\ NoSettlement \notin SettlementIds

VARIABLES
  open,                 \* the groups row exists
  members,              \* group_users
  table,                \* the live expenses, as their readers see them
  splitRows,            \* expense_splits: per expense, kept by a soft delete
  settlement,           \* settlements: the row of each id
  req,                  \* the request each goroutine serves
  pc,                   \* its next step
  seen,                 \* whether the handler's first look found the settlement
  rows,                 \* the expenses it has read
  audit,                \* audit_logs
  moved                 \* no variable of the code: the ledger has changed
                        \* since the request read the group

vars == <<open, members, table, splitRows, settlement, req, pc, seen, rows, audit, moved>>
requestVars == <<req, pc, seen, rows, audit>>

ExpenseStore == INSTANCE ExpenseTable

-----------------------------------------------------------------------------
(* Data *)

Blank(status) == [status |-> status, from |-> NoUser, to |-> NoUser, amount |-> 0]

LiveSettlement(p) == [status |-> "live", from |-> p.from, to |-> p.to, amount |-> p.amount]

Row(id, payer, amount, shares) ==
  [id |-> id, payer |-> payer, amount |-> amount, shares |-> shares]

LiveExpenses == {e \in ExpenseIds : table[e] \in Entries}

\* What a reader of the settlements sees.
LivePayments ==
  {[id |-> s, from |-> settlement[s].from, to |-> settlement[s].to,
    amount |-> settlement[s].amount] : s \in {s \in SettlementIds : settlement[s].status = "live"}}

\* The expenses as they stand, and each member's balance.
Ledger == {Row(e, table[e].payer, table[e].amount, table[e].shares) : e \in LiveExpenses}

Net == NetBalances(Users, Ledger, LivePayments)

NewRequests ==
  [op : {"settle"}, caller : Users, target : {NoSettlement}, payment : Payments]
    \cup [op : {"delete"}, caller : Users, target : SettlementIds, payment : {Blank("unused")}]

\* A request to settle, once the database has given its payment an id.
StoredRequests ==
  [op : {"settle"}, caller : Users, target : SettlementIds, payment : Payments]

NullRequest == [op |-> "none", caller |-> NoUser, target |-> NoSettlement,
                payment |-> Blank("unused")]

isParty(u, p) == u \in {p.from, p.to}

Finished == {"answered", "rejected", "failed"}
InFlight == {"authorize", "load_group", "find_group", "read_expenses", "read_splits",
             "read_settlements", "insert", "look_up", "read", "delete", "audit"}

Goto(r, step) == pc' = [pc EXCEPT ![r] = step]

LedgerMoves == moved' = [r \in Requests |-> TRUE]

-----------------------------------------------------------------------------
Init ==
  /\ open = TRUE
  /\ members = FirstMembers
  /\ table = [e \in ExpenseIds |-> Absent]
  /\ splitRows = [e \in ExpenseIds |-> << >>]
  /\ settlement = [s \in SettlementIds |-> Blank("unused")]
  /\ req = [r \in Requests |-> NullRequest]
  /\ pc = [r \in Requests |-> "idle"]
  /\ seen = [r \in Requests |-> FALSE]
  /\ rows = [r \in Requests |-> {}]
  /\ audit = {}
  /\ moved = [r \in Requests |-> FALSE]

Receive(r) ==
  /\ pc[r] = "idle"
  /\ \E q \in NewRequests :
       /\ req' = [req EXCEPT ![r] = q]
       /\ Goto(r, IF q.op = "settle" THEN "authorize" ELSE "look_up")
  /\ UNCHANGED <<open, members, table, splitRows, settlement, seen, rows, audit, moved>>

-----------------------------------------------------------------------------
(* Slips: what a careless change could turn a step into.  Next uses none of *)
(* them; each is a change that one of the properties below must notice.     *)

\* The amount is not compared with the debt.
ReadSettlementsUncapped(r) ==
  /\ pc[r] = "read_settlements"
  /\ Goto(r, "insert")
  /\ rows' = [rows EXCEPT ![r] = {}]
  /\ UNCHANGED <<open, members, table, splitRows, settlement, req, seen, audit, moved>>

\* The payment is stored the wrong way round.
CreateReversed(r) ==
  /\ pc[r] = "insert"
  /\ \E s \in SettlementIds :
       /\ settlement[s].status = "unused"
       /\ settlement' = [settlement EXCEPT ![s] =
            LiveSettlement([req[r].payment EXCEPT !.from = req[r].payment.to,
                                                  !.to = req[r].payment.from])]
       /\ req' = [req EXCEPT ![r] = [@ EXCEPT !.target = s]]
  /\ Goto(r, "audit")
  /\ LedgerMoves
  /\ UNCHANGED <<open, members, table, splitRows, seen, rows, audit>>

\* Anybody may delete a payment.
ReadUnchecked(r) ==
  /\ pc[r] = "read"
  /\ Goto(r, IF settlement[req[r].target].status = "live" THEN "delete" ELSE "rejected")
  /\ UNCHANGED <<open, members, table, splitRows, settlement, req, seen, rows, audit, moved>>

\* A delete that failed is audited.
FailAudited(r) ==
  /\ pc[r] \in InFlight
  /\ Goto(r, IF pc[r] = "delete" /\ seen[r] THEN "audit" ELSE "failed")
  /\ UNCHANGED <<open, members, table, splitRows, settlement, req, seen, rows, audit, moved>>

-----------------------------------------------------------------------------
(* Recording a payment *)

\* The handler's checks and the first ones of SettleDebt, which need no read.
Authorize(r) ==
  /\ pc[r] = "authorize"
  /\ LET p == req[r].payment
         ok == /\ open
               /\ req[r].caller \in members
               /\ isParty(req[r].caller, p)
               /\ p.amount > 0
               /\ p.from # p.to
     IN  Goto(r, IF ok THEN "load_group" ELSE "rejected")
  /\ UNCHANGED <<open, members, table, splitRows, settlement, req, seen, rows, audit, moved>>

LoadGroup(r) ==
  /\ pc[r] = "load_group"
  /\ LET p == req[r].payment
     IN  Goto(r, IF open /\ {p.from, p.to} \subseteq members THEN "find_group" ELSE "rejected")
  /\ UNCHANGED <<open, members, table, splitRows, settlement, req, seen, rows, audit, moved>>

\* CalculateGroupDebts: first the group, which it must find, ...
FindGroup(r) ==
  /\ pc[r] = "find_group"
  /\ Goto(r, IF open THEN "read_expenses" ELSE "rejected")
  /\ moved' = [moved EXCEPT ![r] = FALSE]
  /\ UNCHANGED <<open, members, table, splitRows, settlement, req, seen, rows, audit>>

\* ... then the live expenses of the group, ...
ReadExpenses(r) ==
  /\ pc[r] = "read_expenses"
  /\ rows' = [rows EXCEPT ![r] =
                {Row(e, table[e].payer, table[e].amount, << >>) : e \in LiveExpenses}]
  /\ Goto(r, "read_splits")
  /\ UNCHANGED <<open, members, table, splitRows, settlement, req, seen, audit, moved>>

\* ... then, preloaded in a second query, the split rows of those expenses, ...
ReadSplits(r) ==
  /\ pc[r] = "read_splits"
  /\ rows' = [rows EXCEPT ![r] = {[x EXCEPT !.shares = splitRows[x.id]] : x \in @}]
  /\ Goto(r, "read_settlements")
  /\ UNCHANGED <<open, members, table, splitRows, settlement, req, seen, audit, moved>>

\* ... and last the live settlements.  The payment must not exceed the debt
\* found between its two parties.
ReadSettlements(r) ==
  /\ pc[r] = "read_settlements"
  /\ LET p == req[r].payment
         owed == Owed(NetBalances(Users, rows[r], LivePayments), p.from, p.to)
     IN  Goto(r, IF p.amount <= owed THEN "insert" ELSE "rejected")
  /\ rows' = [rows EXCEPT ![r] = {}]
  /\ UNCHANGED <<open, members, table, splitRows, settlement, req, seen, audit, moved>>

\* settlementRepo.Create: one INSERT.  Nothing ties group_id to the groups
\* table (migration 1), so it succeeds when the group is gone; in the model
\* it needs an unused id.
Create(r) ==
  /\ pc[r] = "insert"
  /\ \/ \E s \in SettlementIds :
          /\ settlement[s].status = "unused"
          /\ settlement' = [settlement EXCEPT ![s] = LiveSettlement(req[r].payment)]
          /\ req' = [req EXCEPT ![r] = [@ EXCEPT !.target = s]]
          /\ Goto(r, "audit")
          /\ LedgerMoves
     \/ /\ \A s \in SettlementIds : settlement[s].status # "unused"
        /\ Goto(r, "failed")
        /\ UNCHANGED <<settlement, req, moved>>
  /\ UNCHANGED <<open, members, table, splitRows, seen, rows, audit>>

-----------------------------------------------------------------------------
(* Deleting one *)

\* The handler fetches the settlement to know which group to notify.
LookUp(r) ==
  /\ pc[r] = "look_up"
  /\ seen' = [seen EXCEPT ![r] = settlement[req[r].target].status = "live"]
  /\ Goto(r, "read")
  /\ UNCHANGED <<open, members, table, splitRows, settlement, req, rows, audit, moved>>

\* The service fetches it again: only its two parties may delete it.
Read(r) ==
  /\ pc[r] = "read"
  /\ LET row == settlement[req[r].target]
     IN  Goto(r, IF row.status = "live" /\ isParty(req[r].caller, row)
                 THEN "delete" ELSE "rejected")
  /\ UNCHANGED <<open, members, table, splitRows, settlement, req, seen, rows, audit, moved>>

\* settlementRepo.Delete: a soft delete scoped to live rows; matching none is
\* no error.
Delete(r) ==
  /\ pc[r] = "delete"
  /\ LET s == req[r].target
     IN  IF settlement[s].status = "live"
         THEN /\ settlement' = [settlement EXCEPT ![s].status = "deleted"]
              /\ LedgerMoves
         ELSE UNCHANGED <<settlement, moved>>
  /\ Goto(r, IF seen[r] THEN "audit" ELSE "answered")
  /\ UNCHANGED <<open, members, table, splitRows, req, seen, rows, audit>>

-----------------------------------------------------------------------------
\* recordAudit, before the response is sent; a failed insert is swallowed.
RecordAudit(r) ==
  /\ pc[r] = "audit"
  /\ \/ audit' = audit \cup {[action |-> req[r].op, entity |-> req[r].target,
                              actor |-> req[r].caller]}
     \/ UNCHANGED audit
  /\ Goto(r, "answered")
  /\ UNCHANGED <<open, members, table, splitRows, settlement, req, seen, rows, moved>>

\* A statement fails, the client goes away, or the server dies.
Fail(r) ==
  /\ pc[r] \in InFlight
  /\ Goto(r, "failed")
  /\ UNCHANGED <<open, members, table, splitRows, settlement, req, seen, rows, audit, moved>>

-----------------------------------------------------------------------------
(* Rivals: the expenses of the group, and the group itself *)

\* Only members take part in an expense (Expenses, NoOrphans).
AmongMembers(entry) == entry.payer \in members /\ DOMAIN entry.shares \subseteq members

WriteExpense(e, entry) ==
  /\ AmongMembers(entry)
  /\ ExpenseStore!Publish(e, entry) \/ ExpenseStore!Replace(e, entry)
  /\ splitRows' = [splitRows EXCEPT ![e] = entry.shares]
  /\ LedgerMoves
  /\ UNCHANGED <<members, settlement, requestVars>>

\* A soft delete leaves the split rows.
RemoveExpense(e) ==
  /\ ExpenseStore!Remove(e)
  /\ LedgerMoves
  /\ UNCHANGED <<members, splitRows, settlement, requestVars>>

\* JoinGroup: the insert into group_users.
AddMember(u) ==
  /\ open
  /\ members' = members \cup {u}
  /\ UNCHANGED <<open, table, splitRows, settlement, requestVars, moved>>

\* The transaction of GroupRepository.Delete.
DeleteGroup ==
  /\ ExpenseStore!Close
  /\ members' = {}
  /\ splitRows' = [e \in ExpenseIds |-> << >>]
  /\ settlement' = [s \in SettlementIds |->
                      IF settlement[s].status = "unused" THEN settlement[s] ELSE Blank("gone")]
  /\ LedgerMoves
  /\ UNCHANGED requestVars

-----------------------------------------------------------------------------
Step(r) ==
  \/ Authorize(r) \/ LoadGroup(r) \/ FindGroup(r)
  \/ ReadExpenses(r) \/ ReadSplits(r) \/ ReadSettlements(r) \/ Create(r)
  \/ LookUp(r) \/ Read(r) \/ Delete(r) \/ RecordAudit(r)

Idle == (\A r \in Requests : pc[r] \in Finished) /\ UNCHANGED vars

Next ==
  \/ \E r \in Requests : Receive(r) \/ Step(r) \/ Fail(r)
  \/ \E e \in ExpenseIds :
       \/ \E entry \in Entries : WriteExpense(e, entry)
       \/ RemoveExpense(e)
  \/ \E u \in Users : AddMember(u)
  \/ DeleteGroup
  \/ Idle

Spec == Init /\ [][Next]_vars

-----------------------------------------------------------------------------
(* Properties *)

SettlementRows ==
  [status : {"unused", "live", "deleted", "gone"},
   from : Users \cup {NoUser}, to : Users \cup {NoUser}, amount : Int]

TypeOK ==
  /\ open \in BOOLEAN
  /\ members \subseteq Users
  /\ table \in [ExpenseIds -> Entries \cup {Absent, Removed}]
  /\ DOMAIN splitRows = ExpenseIds
  /\ settlement \in [SettlementIds -> SettlementRows]
  /\ req \in [Requests -> NewRequests \cup StoredRequests \cup {NullRequest}]
  /\ pc \in [Requests -> {"idle"} \cup InFlight \cup Finished]
  /\ seen \in [Requests -> BOOLEAN]
  /\ DOMAIN rows = Requests
  /\ audit \subseteq [action : {"settle", "delete"}, entity : SettlementIds, actor : Users]
  /\ moved \in [Requests -> BOOLEAN]

\* A payment that nothing overtook is within what is owed: the three queries
\* of CalculateGroupDebts, the pairing and the cap together see the ledger
\* that the payment then changes.
CapHolds ==
  \A r \in Requests :
    pc[r] = "insert" /\ ~moved[r] =>
      req[r].payment.amount <= Owed(Net, req[r].payment.from, req[r].payment.to)

\* A payment within what is owed lowers that debt by its amount and changes
\* nobody else's debts, although debts are not stored but paired off anew.
SettleMovesOnlyItsDebt ==
  [][\A r \in Requests :
       LET p == req[r].payment
       IN  /\ pc[r] = "insert" /\ pc'[r] = "audit"
           /\ p.amount <= Owed(Net, p.from, p.to)
           => \A a, b \in Users :
                Owed(Net, a, b)' =
                  Owed(Net, a, b) - (IF a = p.from /\ b = p.to THEN p.amount ELSE 0)]_vars

\* Only a party to a payment makes it appear or, short of the group's
\* deletion, disappear, although it is checked two queries earlier.
OnlyPartiesTouch ==
  [][\A s \in SettlementIds :
       settlement'[s].status # settlement[s].status /\ settlement'[s].status # "gone" =>
         \E r \in Requests :
           /\ pc'[r] # pc[r]
           /\ req'[r].target = s
           /\ isParty(req[r].caller, settlement'[s])]_vars

\* The audit trail never reports a payment that was not recorded, nor the
\* deletion of one that still counts.
AuditIsTrue ==
  \A a \in audit :
    /\ settlement[a.entity].status # "unused"
    /\ a.action = "delete" => settlement[a.entity].status # "live"

\* SettleDebt's comment: "Cap the settlement at what's actually owed in this
\* direction right now".
NeverMoreThanOwed ==
  [][\A r \in Requests :
       LET p == req[r].payment
       IN  pc[r] = "insert" /\ pc'[r] = "audit" => p.amount <= Owed(Net, p.from, p.to)]_vars

\* GroupRepository.Delete's comment: "permanently removes the group and
\* everything under it - ... every settlement".
NothingLeft ==
  ~open => \A s \in SettlementIds : settlement[s].status \in {"unused", "gone"}

-----------------------------------------------------------------------------
(* The inductive invariant *)

\* Where each kind of request may be; who settles is a party, and pays
\* something, from the first check on.
StepOK ==
  \A r \in Requests :
    /\ pc[r] = "authorize" => req[r].op = "settle"
    /\ pc[r] \in {"load_group", "find_group", "read_expenses", "read_splits",
                  "read_settlements", "insert"} =>
         /\ req[r].op = "settle" /\ isParty(req[r].caller, req[r].payment)
         /\ req[r].payment.amount > 0
    /\ pc[r] \in {"look_up", "read", "delete"} => req[r].op = "delete"
    /\ pc[r] = "audit" => req[r].target \in SettlementIds

\* The split rows of a live expense are those of the write that readers see.
SplitRowsOK == \A e \in LiveExpenses : splitRows[e] = table[e].shares

\* What a request has read is the ledger, unless the ledger has moved since.
RowsOK ==
  \A r \in Requests : ~moved[r] =>
    /\ pc[r] = "read_splits" =>
         rows[r] = {Row(e, table[e].payer, table[e].amount, << >>) : e \in LiveExpenses}
    /\ pc[r] = "read_settlements" => rows[r] = Ledger

\* What is about to be deleted was recorded, and by or for the caller.
DeleteOK ==
  \A r \in Requests : pc[r] = "delete" =>
    LET row == settlement[req[r].target]
    IN  /\ row.status # "unused"
        /\ row.status # "gone" => isParty(req[r].caller, row)

\* What is about to be audited has happened.
AuditPendingOK ==
  \A r \in Requests : pc[r] = "audit" =>
    LET row == settlement[req[r].target]
    IN  /\ row.status # "unused"
        /\ req[r].op = "delete" => row.status # "live"

IInv ==
  /\ TypeOK
  /\ StepOK
  /\ SplitRowsOK
  /\ RowsOK
  /\ CapHolds
  /\ DeleteOK
  /\ AuditPendingOK
  /\ AuditIsTrue

=============================================================================
