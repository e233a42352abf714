------------------------------ MODULE Expenses ------------------------------
(***************************************************************************)
(* The expenses of one group: POST, PUT and DELETE /expenses served        *)
(* concurrently over one Postgres database (READ COMMITTED), with the      *)
(* deletion of the group and the purge of old tombstones as rivals.        *)
(* Each request is a goroutine that runs handler, service and repository   *)
(* code; every SQL statement outside a transaction, and every statement of *)
(* a transaction that another request can come between, is a step.         *)
(***************************************************************************)
EXTENDS Integers, FiniteSets, Functions

CONSTANTS
  Users,
  FirstMembers,         \* members of the group when it was created
  ExpenseIds,           \* ids the sequence hands out (a bound)
  Requests,             \* requests served in one behaviour (a bound)
  Forms,                \* request bodies the clients send
  Images,               \* storage paths of receipt images
  SplitAmounts(_, _),   \* calculateSplitAmounts of a body, given the members
  NoSplit, NoUser, NoImage, NoRequest, NoForm, NoExpense,
  Absent, Removed       \* an id without, and no longer with, a live expense

AddsUp(share, amount) == SumFunction(share) = amount

\* The users a request body names in its list of splits.
Named(form) == {form.inputs[i].user : i \in DOMAIN form.inputs}

\* resolveSplitsAndItems succeeds on this body, for these members.
Accepted(form, members) ==
  /\ form.amount > 0
  /\ form.payer \in members
  /\ Named(form) \subseteq members
  /\ SplitAmounts(form, members) # NoSplit
  /\ UNION form.items \subseteq members

\* The splits the service may have resolved for a body.
Resolved(form) ==
  {SplitAmounts(form, m) : m \in {s \in SUBSET Users : Accepted(form, s)}}

ASSUME FormAssumption ==
  \A f \in Forms :
    /\ f.payer \in Users
    /\ f.amount \in Int
    /\ Named(f) \subseteq Users
    /\ f.items \subseteq SUBSET Users
    /\ f.image \in Images \cup {NoImage}

NamesNobodyTwice(form) ==
  \A i, j \in DOMAIN form.inputs : form.inputs[i].user = form.inputs[j].user => i = j

\* What calculateSplitAmounts makes of a body: it shares out the amount, of
\* which the earlier parts of a user who is named again are lost.
ASSUME SplitAssumption ==
  \A f \in Forms : \A m \in SUBSET Users :
    Accepted(f, m) =>
      /\ SplitAmounts(f, m) \in [DOMAIN SplitAmounts(f, m) -> Nat]
      /\ DOMAIN SplitAmounts(f, m) \subseteq m
      /\ SumFunction(SplitAmounts(f, m)) <= f.amount
      /\ NamesNobodyTwice(f) => AddsUp(SplitAmounts(f, m), f.amount)

ASSUME MembersAssumption == FirstMembers \subseteq Users

ASSUME NullAssumption ==
  /\ NoRequest \notin Requests
  /\ NoUser \notin Users
  /\ NoExpense \notin ExpenseIds

VARIABLES
  groupLive,            \* the groups row exists
  members,              \* group_users
  expense,              \* expenses: the row of each id
  batches,              \* expense_splits and expense_items (see Batch)
  lock,                 \* who holds the row lock of an expense
  req,                  \* the request each goroutine serves
  pc,                   \* its next step
  seen,                 \* whether the handler's first look found the expense
  snap,                 \* the payer and image path the service has read
  shares,               \* the splits it has resolved
  doomed,               \* the split and item rows its transaction deletes
  audit,                \* audit_logs
  applied               \* history: the requests that created, rewrote or
                        \* deleted a live expense (no guard reads it)

vars == <<groupLive, members, expense, batches, lock,
          req, pc, seen, snap, shares, doomed, audit, applied>>

-----------------------------------------------------------------------------
(* Data *)

\* The writer of a row or batch stands for updated_at and the row ids: it
\* tells the rows of one write from equal rows of another.
Rows == [status : {"unused", "live", "deleted", "gone"},
         payer : Users \cup {NoUser}, amount : Int,
         image : Images \cup {NoImage}, deletedBy : Users \cup {NoUser},
         writer : Requests \cup {NoRequest}]

Blank(status) == [status |-> status, payer |-> NoUser, amount |-> 0,
                  image |-> NoImage, deletedBy |-> NoUser, writer |-> NoRequest]

LiveRow(form, image, writer) ==
  [status |-> "live", payer |-> form.payer, amount |-> form.amount,
   image |-> image, deletedBy |-> NoUser, writer |-> writer]

Tombstone(row, user) == [row EXCEPT !.status = "deleted", !.deletedBy = user]

\* The split rows and item rows one write inserts for an expense: they are
\* inserted together, and every DELETE that reaches one reaches all.
Batch(e, r) == [expense |-> e, writer |-> r, shares |-> shares[r],
                items |-> req[r].form.items]

BatchesOf(e) == {b \in batches : b.expense = e}
SplitUsers(e) == UNION {DOMAIN b.shares : b \in BatchesOf(e)}

isPayerOrSplitParticipant(u, payer, e) == u = payer \/ u \in SplitUsers(e)

NewRequests ==
  [op : {"add"}, caller : Users, target : {NoExpense}, form : Forms]
    \cup [op : {"update"}, caller : Users, target : ExpenseIds, form : Forms]
    \cup [op : {"delete"}, caller : Users, target : ExpenseIds, form : {NoForm}]

\* A request to add, once the database has given its expense an id.
StoredRequests == [op : {"add"}, caller : Users, target : ExpenseIds, form : Forms]

NullRequest == [op |-> "none", caller |-> NoUser, target |-> NoExpense, form |-> NoForm]
NullSnap == [payer |-> NoUser, image |-> NoImage]

FirstStep == [add |-> "authorize", update |-> "read_row", delete |-> "look_up"]

Finished == {"answered", "rejected", "failed"}
InFlight == {"authorize", "look_up", "read_row", "read_splits", "load_group",
             "write", "clear", "insert", "audit"}

Goto(r, step) == pc' = [pc EXCEPT ![r] = step]

Unlocked(r) == [e \in ExpenseIds |-> IF lock[e] = r THEN NoRequest ELSE lock[e]]

-----------------------------------------------------------------------------
Init ==
  /\ groupLive = TRUE
  /\ members = FirstMembers
  /\ expense = [e \in ExpenseIds |-> Blank("unused")]
  /\ batches = {}
  /\ lock = [e \in ExpenseIds |-> NoRequest]
  /\ req = [r \in Requests |-> NullRequest]
  /\ pc = [r \in Requests |-> "idle"]
  /\ seen = [r \in Requests |-> FALSE]
  /\ snap = [r \in Requests |-> NullSnap]
  /\ shares = [r \in Requests |-> NoSplit]
  /\ doomed = [r \in Requests |-> {}]
  /\ audit = {}
  /\ applied = {}

Receive(r) ==
  /\ pc[r] = "idle"
  /\ \E q \in NewRequests :
       /\ req' = [req EXCEPT ![r] = q]
       /\ Goto(r, FirstStep[q.op])
  /\ UNCHANGED <<groupLive, members, expense, batches, lock, seen, snap, shares, doomed,
                 audit, applied>>

-----------------------------------------------------------------------------
(* The reads of a request *)

\* POST /expenses: authorizeGroupAccess, then the caller must be the payer
\* or one of the named participants; naming nobody means the whole group.
Authorize(r) ==
  /\ pc[r] = "authorize"
  /\ LET q == req[r]
         ok == /\ groupLive
               /\ q.caller \in members
               /\ \/ q.caller = q.form.payer
                  \/ Named(q.form) = {}
                  \/ q.caller \in Named(q.form)
     IN  Goto(r, IF ok THEN "load_group" ELSE "rejected")
  /\ UNCHANGED <<groupLive, members, expense, batches, lock, req, seen, snap, shares,
                 doomed, audit, applied>>

\* DELETE /expenses/{id} first fetches the expense, deleted or not, to know
\* whom to notify and what to audit.
LookUp(r) ==
  /\ pc[r] = "look_up"
  /\ seen' = [seen EXCEPT ![r] = expense[req[r].target].status \in {"live", "deleted"}]
  /\ Goto(r, "read_row")
  /\ UNCHANGED <<groupLive, members, expense, batches, lock, req, snap, shares, doomed,
                 audit, applied>>

\* The first query of ExpenseRepository.GetByID; its preload of the splits
\* is a query of its own, and the caller is checked against both.
ReadRow(r) ==
  /\ pc[r] = "read_row"
  /\ LET row == expense[req[r].target]
     IN  IF row.status = "live"
         THEN /\ snap' = [snap EXCEPT ![r] = [payer |-> row.payer, image |-> row.image]]
              /\ Goto(r, "read_splits")
         ELSE /\ Goto(r, "rejected")
              /\ UNCHANGED snap
  /\ UNCHANGED <<groupLive, members, expense, batches, lock, req, seen, shares, doomed,
                 audit, applied>>

ReadSplits(r) ==
  /\ pc[r] = "read_splits"
  /\ LET q == req[r]
     IN  IF isPayerOrSplitParticipant(q.caller, snap[r].payer, q.target)
         THEN Goto(r, IF q.op = "update" THEN "load_group" ELSE "write")
         ELSE Goto(r, "rejected")
  /\ UNCHANGED <<groupLive, members, expense, batches, lock, req, seen, snap, shares,
                 doomed, audit, applied>>

LoadGroup(r) ==
  /\ pc[r] = "load_group"
  /\ LET form == req[r].form
     IN  IF groupLive /\ Accepted(form, members)
         THEN /\ shares' = [shares EXCEPT ![r] = SplitAmounts(form, members)]
              /\ Goto(r, "write")
         ELSE /\ Goto(r, "rejected")
              /\ UNCHANGED shares
  /\ UNCHANGED <<groupLive, members, expense, batches, lock, req, seen, snap, doomed,
                 audit, applied>>

-----------------------------------------------------------------------------
(* Slips: what a careless change could turn a step into.  Next uses none of *)
(* them; each is a change that one of the properties below must notice.     *)

\* The splits are written before the expense row, so without its lock.
UpdateRowLockless(r) ==
  /\ pc[r] = "write"
  /\ req[r].op = "update"
  /\ lock' = [lock EXCEPT ![req[r].target] =
                IF expense[req[r].target].status = "live" THEN r ELSE @]
  /\ Goto(r, "clear")
  /\ UNCHANGED <<groupLive, members, expense, batches, req, seen, snap, shares, doomed,
                 audit, applied>>

\* The UPDATE loses its default scope and matches deleted rows too.
UpdateRowUnscoped(r) ==
  /\ pc[r] = "write"
  /\ req[r].op = "update"
  /\ lock[req[r].target] = NoRequest
  /\ lock' = [lock EXCEPT ![req[r].target] =
                IF expense[req[r].target].status = "gone" THEN @ ELSE r]
  /\ Goto(r, "clear")
  /\ UNCHANGED <<groupLive, members, expense, batches, req, seen, snap, shares, doomed,
                 audit, applied>>

\* The old splits and items are left in place.
ClearNothing(r) ==
  /\ pc[r] = "clear"
  /\ Goto(r, "insert")
  /\ UNCHANGED <<groupLive, members, expense, batches, lock, req, seen, snap, shares,
                 doomed, audit, applied>>

\* The DELETE matches deleted rows too, and overwrites deleted_by.
SoftDeleteUnscoped(r) ==
  /\ pc[r] = "write"
  /\ req[r].op = "delete"
  /\ LET e == req[r].target
         matched == expense[e].status \in {"live", "deleted"}
     IN  /\ lock[e] = NoRequest
         /\ expense' = IF matched THEN [expense EXCEPT ![e] = Tombstone(@, req[r].caller)]
                       ELSE expense
         /\ applied' = IF matched THEN applied \cup {r} ELSE applied
  /\ Goto(r, IF seen[r] THEN "audit" ELSE "answered")
  /\ UNCHANGED <<groupLive, members, batches, lock, req, seen, snap, shares, doomed, audit>>

\* The handler audits a write that failed.
FailAudited(r) ==
  /\ pc[r] \in InFlight
  /\ lock' = Unlocked(r)
  /\ Goto(r, IF pc[r] = "write" /\ req[r].op = "delete" THEN "audit" ELSE "failed")
  /\ UNCHANGED <<groupLive, members, expense, batches, req, seen, snap, shares, doomed,
                 audit, applied>>

\* A failed transaction is not rolled back.
FailHoldingLock(r) ==
  /\ pc[r] \in InFlight
  /\ Goto(r, "failed")
  /\ UNCHANGED <<groupLive, members, expense, batches, lock, req, seen, snap, shares,
                 doomed, audit, applied>>

\* The group's deletion reaches live expenses only, not the tombstones.
DeleteGroupScoped ==
  /\ groupLive
  /\ \A e \in ExpenseIds : lock[e] = NoRequest
  /\ groupLive' = FALSE
  /\ members' = {}
  /\ expense' = [e \in ExpenseIds |->
                   IF expense[e].status = "live" THEN Blank("gone") ELSE expense[e]]
  /\ batches' = {b \in batches : expense[b.expense].status = "deleted"}
  /\ UNCHANGED <<lock, req, pc, seen, snap, shares, doomed, audit, applied>>

-----------------------------------------------------------------------------
(* The writes of a request *)

\* CreateWithSplits commits whole.  It fails when the foreign key finds the
\* group gone (and, in the model, when ExpenseIds is used up).
CreateWithSplits(r) ==
  /\ pc[r] = "write"
  /\ req[r].op = "add"
  /\ \/ /\ groupLive
        /\ \E e \in ExpenseIds :
             /\ expense[e].status = "unused"
             /\ expense' = [expense EXCEPT ![e] = LiveRow(req[r].form, req[r].form.image, r)]
             /\ batches' = batches \cup {Batch(e, r)}
             /\ req' = [req EXCEPT ![r] = [@ EXCEPT !.target = e]]
        /\ applied' = applied \cup {r}
        /\ Goto(r, "audit")
     \/ /\ ~groupLive \/ \A e \in ExpenseIds : expense[e].status # "unused"
        /\ Goto(r, "failed")
        /\ UNCHANGED <<expense, batches, req, applied>>
  /\ UNCHANGED <<groupLive, members, lock, seen, snap, shares, doomed, audit>>

\* UpdateWithSplits, first statement: UPDATE expenses, scoped to live rows.
\* It waits for the row's lock; on a live row it takes it, on a deleted or
\* missing row it matches nothing, locks nothing and reports no error.
UpdateRow(r) ==
  /\ pc[r] = "write"
  /\ req[r].op = "update"
  /\ LET e == req[r].target
     IN  /\ lock[e] = NoRequest
         /\ lock' = [lock EXCEPT ![e] = IF expense[e].status = "live" THEN r ELSE NoRequest]
  /\ Goto(r, "clear")
  /\ UNCHANGED <<groupLive, members, expense, batches, req, seen, snap, shares, doomed,
                 audit, applied>>

\* Its next statements delete the split and item rows they can see.
ClearOld(r) ==
  /\ pc[r] = "clear"
  /\ doomed' = [doomed EXCEPT ![r] = BatchesOf(req[r].target)]
  /\ Goto(r, "insert")
  /\ UNCHANGED <<groupLive, members, expense, batches, lock, req, seen, snap, shares,
                 audit, applied>>

\* Its last statements insert the new rows, and it commits; the foreign key
\* fails when the expense is gone.  A body without a receipt image writes
\* back the path the service has read.
InsertNew(r) ==
  /\ pc[r] = "insert"
  /\ LET e == req[r].target
         form == req[r].form
         image == IF form.image = NoImage THEN snap[r].image ELSE form.image
     IN  IF expense[e].status \in {"live", "deleted"}
         THEN /\ batches' = (batches \ doomed[r]) \cup {Batch(e, r)}
              /\ expense' = IF lock[e] = r
                            THEN [expense EXCEPT ![e] = LiveRow(form, image, r)]
                            ELSE expense
              /\ applied' = IF lock[e] = r THEN applied \cup {r} ELSE applied
              /\ Goto(r, "audit")
         ELSE /\ Goto(r, "failed")
              /\ UNCHANGED <<batches, expense, applied>>
  /\ lock' = Unlocked(r)
  /\ UNCHANGED <<groupLive, members, req, seen, snap, shares, doomed, audit>>

\* ExpenseRepository.Delete: one UPDATE scoped to live rows.  Matching no
\* row is no error, and the handler goes on to audit and answer.
SoftDelete(r) ==
  /\ pc[r] = "write"
  /\ req[r].op = "delete"
  /\ LET e == req[r].target
     IN  /\ lock[e] = NoRequest
         /\ expense' = IF expense[e].status = "live"
                       THEN [expense EXCEPT ![e] = Tombstone(@, req[r].caller)]
                       ELSE expense
         /\ applied' = IF expense[e].status = "live" THEN applied \cup {r} ELSE applied
  /\ Goto(r, IF seen[r] THEN "audit" ELSE "answered")
  /\ UNCHANGED <<groupLive, members, batches, lock, req, seen, snap, shares, doomed, audit>>

\* recordAudit, before the response is sent.  A failed insert is logged and
\* swallowed.
RecordAudit(r) ==
  /\ pc[r] = "audit"
  /\ \/ audit' = audit \cup {[action |-> req[r].op, entity |-> req[r].target,
                              actor |-> req[r].caller]}
     \/ UNCHANGED audit
  /\ Goto(r, "answered")
  /\ UNCHANGED <<groupLive, members, expense, batches, lock, req, seen, snap, shares,
                 doomed, applied>>

\* A statement fails, the client goes away, or the server dies: the
\* goroutine ends and Postgres rolls its open transaction back.
Fail(r) ==
  /\ pc[r] \in InFlight
  /\ lock' = Unlocked(r)
  /\ Goto(r, "failed")
  /\ UNCHANGED <<groupLive, members, expense, batches, req, seen, snap, shares, doomed,
                 audit, applied>>

-----------------------------------------------------------------------------
(* Rivals of the requests *)

\* JoinGroup: the insert into group_users.
AddMember(u) ==
  /\ groupLive
  /\ members' = members \cup {u}
  /\ UNCHANGED <<groupLive, expense, batches, lock, req, pc, seen, snap, shares, doomed,
                 audit, applied>>

\* The transaction of GroupRepository.Delete.  It waits for row locks; a
\* rival insert it loses to makes it roll back, which changes nothing here.
DeleteGroup ==
  /\ groupLive
  /\ \A e \in ExpenseIds : lock[e] = NoRequest
  /\ groupLive' = FALSE
  /\ members' = {}
  /\ expense' = [e \in ExpenseIds |->
                   IF expense[e].status = "unused" THEN expense[e] ELSE Blank("gone")]
  /\ batches' = {}
  /\ UNCHANGED <<lock, req, pc, seen, snap, shares, doomed, audit, applied>>

\* PurgeOldSoftDeleted, for the tombstones older than its cutoff.
Purge(old) ==
  /\ old # {}
  /\ \A e \in old : expense[e].status = "deleted"
  /\ expense' = [e \in ExpenseIds |-> IF e \in old THEN Blank("gone") ELSE expense[e]]
  /\ batches' = {b \in batches : b.expense \notin old}
  /\ UNCHANGED <<groupLive, members, lock, req, pc, seen, snap, shares, doomed, audit, applied>>

-----------------------------------------------------------------------------
Step(r) ==
  \/ Authorize(r) \/ LookUp(r) \/ ReadRow(r) \/ ReadSplits(r) \/ LoadGroup(r)
  \/ CreateWithSplits(r) \/ UpdateRow(r) \/ ClearOld(r) \/ InsertNew(r)
  \/ SoftDelete(r) \/ RecordAudit(r)

\* Every request has been answered: the server idles.
Idle == (\A r \in Requests : pc[r] \in Finished) /\ UNCHANGED vars

Next ==
  \/ \E r \in Requests : Receive(r) \/ Step(r) \/ Fail(r)
  \/ \E u \in Users : AddMember(u)
  \/ DeleteGroup
  \/ \E old \in SUBSET ExpenseIds : Purge(old)
  \/ Idle

Spec == Init /\ [][Next]_vars

\* A goroutine that can take its next step is eventually scheduled.
FairSpec == Spec /\ \A r \in Requests : WF_vars(Step(r))

-----------------------------------------------------------------------------
(* Properties *)

TypeOK ==
  /\ groupLive \in BOOLEAN
  /\ members \subseteq Users
  /\ expense \in [ExpenseIds -> Rows]
  /\ \A b \in batches : b.expense \in ExpenseIds /\ b.writer \in Requests
  /\ lock \in [ExpenseIds -> Requests \cup {NoRequest}]
  /\ req \in [Requests -> NewRequests \cup StoredRequests \cup {NullRequest}]
  /\ pc \in [Requests -> {"idle"} \cup InFlight \cup Finished]
  /\ seen \in [Requests -> BOOLEAN]
  /\ snap \in [Requests -> [payer : Users \cup {NoUser}, image : Images \cup {NoImage}]]
  /\ DOMAIN shares = Requests
  /\ DOMAIN doomed = Requests
  /\ audit \subseteq [action : {"add", "update", "delete"}, entity : ExpenseIds, actor : Users]
  /\ applied \subseteq Requests

\* A live expense always carries the splits and items of exactly one write,
\* the same write its payer and amount come from: concurrent edits never mix
\* or pile up their rows (UpdateWithSplits' row lock and wholesale replacement).
OneWholeWrite ==
  \A e \in ExpenseIds : expense[e].status = "live" =>
    \E b \in batches : BatchesOf(e) = {b} /\ b.writer = expense[e].writer

\* What the members owe for a live expense is what was resolved from the
\* body of the request that wrote it last, and adds up to its amount,
\* whatever requests race: never to more, and to less only when that body
\* named a user twice (whose earlier part is lost: UpdateWithSplits and
\* CreateWithSplits store what resolveSplitsAndItems returned).
SharesAddUp ==
  \A e \in ExpenseIds : expense[e].status = "live" =>
    LET form == req[expense[e].writer].form
    IN  /\ expense[e].amount = form.amount
        /\ \A b \in BatchesOf(e) :
             /\ b.shares \in Resolved(form)
             /\ SumFunction(b.shares) <= expense[e].amount
             /\ NamesNobodyTwice(form) => AddsUp(b.shares, expense[e].amount)

\* Everything stored belongs to the existing group: split and item rows to
\* an expense row, expense rows to the group, and all users named are
\* members.  Nothing of a deleted group or a purged expense is left behind,
\* even by a request that was under way.
NoOrphans ==
  /\ \A b \in batches : /\ expense[b.expense].status \in {"live", "deleted"}
                         /\ DOMAIN b.shares \subseteq members
                         /\ UNION b.items \subseteq members
  /\ \A e \in ExpenseIds : expense[e].status \in {"live", "deleted"} =>
       groupLive /\ expense[e].payer \in members

\* The row of a deleted expense does not change until it is purged: a second
\* delete does not overwrite who deleted it, and a late edit neither revives
\* it nor changes its payer or amount (the default scope of every UPDATE).
TombstoneRowFixed ==
  [][\A e \in ExpenseIds :
       expense[e].status = "deleted" =>
         expense'[e] = expense[e] \/ expense'[e].status = "gone"]_vars

\* What makes it right to report a request as done: it did what it says, or
\* its expense was deleted before.
Warranted(r) ==
  LET row == expense[req[r].target]
  IN  \/ /\ r \in applied
         /\ req[r].op = "delete" /\ row.status = "deleted" => row.deletedBy = req[r].caller
      \/ /\ r \notin applied
         /\ req[r].op \in {"update", "delete"}
         /\ row.status \in {"deleted", "gone"}

\* Every entry of the audit trail is of a request that its actor made and
\* that was answered, and that created, rewrote or deleted a live expense;
\* or that was an edit or deletion which came to an expense deleted already
\* (its UPDATE matched no row, which the code takes for success and audits).
\* A creation, and any change of an expense that is still live, is therefore
\* never credited to a request that did not make it; and while a tombstone
\* is stored, the deletion that took effect is the one of its deleted_by.
AuditIsTrue ==
  \A a \in audit : \E r \in Requests :
    /\ pc[r] = "answered"
    /\ req[r].op = a.action
    /\ req[r].target = a.entity
    /\ req[r].caller = a.actor
    /\ Warranted(r)

\* Every request that arrives is eventually answered or failed: the wait for
\* a row's lock ends.
EveryRequestEnds ==
  \A r \in Requests : pc[r] # "idle" ~> pc[r] \in Finished

\* An expense as a reader of the balances sees it.
EntryOf(e) ==
  CASE expense[e].status = "unused" -> Absent
    [] expense[e].status = "live" ->
         [payer |-> expense[e].payer, amount |-> expense[e].amount,
          shares |-> (CHOOSE b \in batches : b.expense = e).shares]
    [] OTHER -> Removed

TableView == [e \in ExpenseIds |-> EntryOf(e)]

WholeEntries ==
  UNION {[payer : {f.payer}, amount : {f.amount}, shares : Resolved(f)] : f \in Forms}

ASSUME TableAssumption == Absent \notin WholeEntries \cup {Removed}

Table == INSTANCE ExpenseTable
           WITH Entries <- WholeEntries, table <- TableView, open <- groupLive

\* The store keeps the promise of ExpenseTable.
ImplementsTable == Table!TableSpec

\* UpdateExpense's doc comment: the caller "must be the current payer or a
\* current split participant - checked against the expense as it exists now,
\* before any of these changes are applied".
EditorIsParty ==
  [][\A r \in Requests :
       pc[r] = "insert" /\ pc'[r] = "audit" =>
         isPayerOrSplitParticipant(req[r].caller, expense[req[r].target].payer,
                                   req[r].target)]_vars

\* GetByIDIncludingDeleted's doc comment: "an already-deleted expense can't
\* be mutated again".
NoEditAfterDelete ==
  [][\A e \in ExpenseIds :
       expense[e].status = "deleted" /\ expense'[e].status = "deleted" =>
         BatchesOf(e)' = BatchesOf(e)]_vars

\* UpdateExpense's doc comment: "receiptImagePath is nil to leave the
\* existing image (if any) untouched".
KeepsReceipt ==
  [][\A r \in Requests :
       LET e == req[r].target
       IN  pc[r] = "insert" /\ pc'[r] = "audit" /\ req[r].form.image = NoImage =>
             expense'[e].image = expense[e].image]_vars

-----------------------------------------------------------------------------
(* The inductive invariant *)

\* Where each kind of request may be, and what it carries there.
StepOK ==
  \A r \in Requests :
    /\ pc[r] = "authorize" => req[r].op = "add"
    /\ pc[r] = "look_up" => req[r].op = "delete"
    /\ pc[r] \in {"read_row", "read_splits"} => req[r].op \in {"update", "delete"}
    /\ pc[r] = "load_group" => req[r].op \in {"add", "update"}
    /\ pc[r] = "write" => req[r].op \in {"add", "update", "delete"}
    /\ pc[r] \in {"clear", "insert"} => req[r].op = "update"
    /\ pc[r] = "audit" => /\ req[r].op \in {"add", "update", "delete"}
                          /\ req[r].target \in ExpenseIds

\* An expense a request has read live has been created for good.
ReadOK ==
  \A r \in Requests :
    /\ req[r].op \in {"update", "delete"}
    /\ pc[r] \in {"read_splits", "load_group", "write", "clear", "insert"}
    => expense[req[r].target].status # "unused"

\* A lock is held by the update that is between its first statement and its
\* commit, and a locked row stays live; an update without the lock found its
\* expense dead, which it stays.
LockOK ==
  /\ \A e \in ExpenseIds : \A r \in Requests : lock[e] = r =>
       /\ pc[r] \in {"clear", "insert"}
       /\ req[r].target = e
       /\ expense[e].status = "live"
  /\ \A r \in Requests : pc[r] \in {"clear", "insert"} =>
       \/ lock[req[r].target] = r
       \/ expense[req[r].target].status \in {"deleted", "gone"}

\* What an update is about to delete is of its own expense, and under the
\* lock it is everything the expense has.
DoomedOK ==
  \A r \in Requests : pc[r] = "insert" =>
    /\ \A b \in doomed[r] : b.expense = req[r].target
    /\ lock[req[r].target] = r => doomed[r] = BatchesOf(req[r].target)

\* Splits under way were resolved from the request's body, for users who
\* are members for as long as the group exists.
SharesOK ==
  \A r \in Requests :
    /\ req[r].op \in {"add", "update"}
    /\ pc[r] \in {"write", "clear", "insert"}
    => /\ shares[r] \in Resolved(req[r].form)
       /\ groupLive => /\ req[r].form.payer \in members
                       /\ DOMAIN shares[r] \subseteq members
                       /\ UNION req[r].form.items \subseteq members

\* A live expense says what the body of its last writer said, a request
\* whose change is committed.
ContentOK ==
  \A e \in ExpenseIds : expense[e].status = "live" =>
    LET w == expense[e].writer
    IN  /\ w \in applied
        /\ req[w].form \in Forms
        /\ expense[e].payer = req[w].form.payer
        /\ expense[e].amount = req[w].form.amount
        /\ \A b \in BatchesOf(e) : b.shares \in Resolved(req[w].form)

\* A request whose change is committed is past it, and what it deleted stays
\* deleted, by its caller.
AppliedOK ==
  \A r \in applied :
    /\ pc[r] \in {"audit", "answered", "failed"}
    /\ req[r].target \in ExpenseIds
    /\ expense[req[r].target].status # "unused"
    /\ req[r].op = "delete" =>
         /\ expense[req[r].target].status \in {"deleted", "gone"}
         /\ expense[req[r].target].status = "deleted" =>
              expense[req[r].target].deletedBy = req[r].caller

\* What is about to be audited may be reported.
AuditPendingOK == \A r \in Requests : pc[r] = "audit" => Warranted(r)

IInv ==
  /\ TypeOK
  /\ StepOK
  /\ ReadOK
  /\ LockOK
  /\ DoomedOK
  /\ SharesOK
  /\ ContentOK
  /\ AppliedOK
  /\ AuditPendingOK
  /\ OneWholeWrite
  /\ NoOrphans
  /\ AuditIsTrue

=============================================================================
