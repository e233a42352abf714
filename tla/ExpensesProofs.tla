--------------------------- MODULE ExpensesProofs ---------------------------
(***************************************************************************)
(* Proofs about Expenses, for any number of users, expenses and requests.  *)
(***************************************************************************)
EXTENDS Expenses, TLAPS

-----------------------------------------------------------------------------
(* Shapes of requests and rows *)

\* The operation of a request tells the type of its arguments.
LEMMA RequestShape ==
  ASSUME NEW q \in NewRequests \cup StoredRequests \cup {NullRequest}
  PROVE  /\ q.op \in {"add", "update", "delete", "none"}
         /\ q.op # "none" => q.caller \in Users
         /\ q.op \in {"add", "update"} => q.form \in Forms
         /\ q.op \in {"update", "delete"} => q.target \in ExpenseIds
  BY DEF NewRequests, StoredRequests, NullRequest

\* Naming the expense a request to add has created.
LEMMA StoredShape ==
  ASSUME NEW q \in NewRequests \cup StoredRequests \cup {NullRequest},
         q.op = "add", NEW e \in ExpenseIds
  PROVE  /\ [q EXCEPT !.target = e] \in StoredRequests
         /\ [q EXCEPT !.target = e].op = "add"
         /\ [q EXCEPT !.target = e].target = e
         /\ [q EXCEPT !.target = e].form = q.form
         /\ [q EXCEPT !.target = e].caller = q.caller
  BY DEF NewRequests, StoredRequests, NullRequest

\* What a request body is made of.
LEMMA FormShape ==
  ASSUME NEW f \in Forms
  PROVE  /\ f.payer \in Users
         /\ f.image \in Images \cup {NoImage}
         /\ f.items \subseteq SUBSET Users
  BY FormAssumption

\* A row that is unused or gone.
LEMMA BlankShape ==
  ASSUME NEW s \in {"unused", "live", "deleted", "gone"}
  PROVE  Blank(s) \in Rows /\ Blank(s).status = s
  BY DEF Blank, Rows

\* The row a write leaves.
LEMMA LiveRowShape ==
  ASSUME NEW f \in Forms, NEW i \in Images \cup {NoImage}, NEW r \in Requests
  PROVE  /\ LiveRow(f, i, r) \in Rows
         /\ LiveRow(f, i, r).status = "live"
         /\ LiveRow(f, i, r).payer = f.payer
         /\ LiveRow(f, i, r).amount = f.amount
         /\ LiveRow(f, i, r).image = i
         /\ LiveRow(f, i, r).writer = r
  BY FormAssumption DEF LiveRow, Rows

\* The row a delete leaves.
LEMMA TombstoneShape ==
  ASSUME NEW row \in Rows, NEW u \in Users
  PROVE  /\ Tombstone(row, u) \in Rows
         /\ Tombstone(row, u).status = "deleted"
         /\ Tombstone(row, u).payer = row.payer
  BY DEF Tombstone, Rows

\* What the assumption on calculateSplitAmounts says of resolved splits.
LEMMA ResolvedShape ==
  ASSUME NEW f \in Forms, NEW s \in Resolved(f)
  PROVE  /\ SumFunction(s) <= f.amount
         /\ NamesNobodyTwice(f) => AddsUp(s, f.amount)
  BY SplitAssumption DEF Resolved

-----------------------------------------------------------------------------
(* Type correctness, with the steps each kind of request can be at *)

\* The database starts empty and the server idle.
LEMMA TypeInit == Init => TypeOK /\ StepOK
  BY MembersAssumption, NullAssumption, BlankShape
     DEF Init, TypeOK, StepOK, NullRequest, NullSnap, InFlight, Finished

\* Each step gives every variable a value of its type.
LEMMA TypeNext == TypeOK /\ StepOK /\ [Next]_vars => TypeOK'
  <1> SUFFICES ASSUME TypeOK, StepOK, [Next]_vars PROVE TypeOK'
    OBVIOUS
  <1> USE DEF TypeOK, Goto
  <1>1. ASSUME NEW r \in Requests, Receive(r) PROVE TypeOK'
    BY <1>1 DEF Receive, NewRequests, FirstStep, InFlight, Finished
  <1>2. ASSUME NEW r \in Requests, Authorize(r) PROVE TypeOK'
    BY <1>2 DEF Authorize, InFlight, Finished
  <1>3. ASSUME NEW r \in Requests, LookUp(r) PROVE TypeOK'
    BY <1>3 DEF LookUp, InFlight, Finished
  <1>4. ASSUME NEW r \in Requests, ReadRow(r) PROVE TypeOK'
    <2>1. req[r].target \in ExpenseIds
      BY <1>4, RequestShape DEF ReadRow, StepOK
    <2>2. expense[req[r].target] \in Rows
      BY <2>1
    <2>3. snap' \in [Requests -> [payer : Users \cup {NoUser}, image : Images \cup {NoImage}]]
      BY <1>4, <2>2 DEF ReadRow, Rows
    <2>4. pc' \in [Requests -> {"idle"} \cup InFlight \cup Finished]
      BY <1>4 DEF ReadRow, InFlight, Finished
    <2> QED
      BY <1>4, <2>3, <2>4 DEF ReadRow
  <1>5. ASSUME NEW r \in Requests, ReadSplits(r) PROVE TypeOK'
    BY <1>5 DEF ReadSplits, InFlight, Finished
  <1>6. ASSUME NEW r \in Requests, LoadGroup(r) PROVE TypeOK'
    BY <1>6 DEF LoadGroup, InFlight, Finished
  <1>7. ASSUME NEW r \in Requests, CreateWithSplits(r) PROVE TypeOK'
    <2>1. CASE pc' = [pc EXCEPT ![r] = "failed"] /\ UNCHANGED <<expense, batches, req>>
      BY <1>7, <2>1 DEF CreateWithSplits, InFlight, Finished
    <2>2. ASSUME NEW e \in ExpenseIds,
                 expense' = [expense EXCEPT ![e] = LiveRow(req[r].form, req[r].form.image, r)],
                 batches' = batches \cup {Batch(e, r)},
                 req' = [req EXCEPT ![r] = [@ EXCEPT !.target = e]],
                 pc' = [pc EXCEPT ![r] = "audit"]
          PROVE TypeOK'
      <3>1. req[r].form \in Forms
        BY <1>7, RequestShape DEF CreateWithSplits
      <3>2. LiveRow(req[r].form, req[r].form.image, r) \in Rows
        BY <3>1, LiveRowShape, FormShape
      <3>3. [req[r] EXCEPT !.target = e] \in StoredRequests
        BY <1>7, StoredShape DEF CreateWithSplits
      <3>4. Batch(e, r).expense = e /\ Batch(e, r).writer = r
        BY DEF Batch
      <3>5. req' \in [Requests -> NewRequests \cup StoredRequests \cup {NullRequest}]
        BY <2>2, <3>3
      <3> QED
        BY <1>7, <2>2, <3>2, <3>4, <3>5 DEF CreateWithSplits, InFlight, Finished
    <2> QED
      BY <1>7, <2>1, <2>2 DEF CreateWithSplits
  <1>8. ASSUME NEW r \in Requests, UpdateRow(r) PROVE TypeOK'
    BY <1>8 DEF UpdateRow, InFlight, Finished
  <1>9. ASSUME NEW r \in Requests, ClearOld(r) PROVE TypeOK'
    BY <1>9 DEF ClearOld, InFlight, Finished
  <1>10. ASSUME NEW r \in Requests, InsertNew(r) PROVE TypeOK'
    <2> DEFINE e == req[r].target
               image == IF req[r].form.image = NoImage THEN snap[r].image ELSE req[r].form.image
    <2>1. e \in ExpenseIds /\ req[r].form \in Forms
      BY <1>10, RequestShape DEF InsertNew, StepOK
    <2>2. LiveRow(req[r].form, image, r) \in Rows
      BY <2>1, LiveRowShape, FormShape
    <2>3. Batch(e, r).expense = e /\ Batch(e, r).writer = r
      BY DEF Batch
    <2>4. expense' \in [ExpenseIds -> Rows]
      BY <1>10, <2>1, <2>2 DEF InsertNew
    <2>5. \A b \in batches' : b.expense \in ExpenseIds /\ b.writer \in Requests
      BY <1>10, <2>1, <2>3 DEF InsertNew
    <2> QED
      BY <1>10, <2>4, <2>5 DEF InsertNew, Unlocked, InFlight, Finished
  <1>11. ASSUME NEW r \in Requests, SoftDelete(r) PROVE TypeOK'
    <2>1. req[r].target \in ExpenseIds /\ req[r].caller \in Users
      BY <1>11, RequestShape DEF SoftDelete
    <2>2. Tombstone(expense[req[r].target], req[r].caller) \in Rows
      BY <2>1, TombstoneShape
    <2> QED
      BY <1>11, <2>1, <2>2 DEF SoftDelete, InFlight, Finished
  <1>12. ASSUME NEW r \in Requests, RecordAudit(r) PROVE TypeOK'
    <2>1. /\ req[r].op \in {"add", "update", "delete"}
          /\ req[r].target \in ExpenseIds
          /\ req[r].caller \in Users
      BY <1>12, RequestShape DEF RecordAudit, StepOK
    <2> QED
      BY <1>12, <2>1 DEF RecordAudit, InFlight, Finished
  <1>13. ASSUME NEW r \in Requests, Fail(r) PROVE TypeOK'
    BY <1>13 DEF Fail, Unlocked, InFlight, Finished
  <1>14. ASSUME NEW u \in Users, AddMember(u) PROVE TypeOK'
    BY <1>14 DEF AddMember
  <1>15. ASSUME DeleteGroup PROVE TypeOK'
    BY <1>15, BlankShape DEF DeleteGroup
  <1>16. ASSUME NEW old \in SUBSET ExpenseIds, Purge(old) PROVE TypeOK'
    BY <1>16, BlankShape DEF Purge
  <1>17. ASSUME UNCHANGED vars PROVE TypeOK'
    BY <1>17 DEF vars
  <1> QED
    BY <1>1, <1>2, <1>3, <1>4, <1>5, <1>6, <1>7, <1>8, <1>9, <1>10, <1>11, <1>12,
       <1>13, <1>14, <1>15, <1>16, <1>17 DEF Next, Step, Idle

\* A request moves on to a step that its kind of request has.
LEMMA StepNext == TypeOK /\ StepOK /\ [Next]_vars => StepOK'
  <1> SUFFICES ASSUME TypeOK, StepOK, [Next]_vars PROVE StepOK'
    OBVIOUS
  <1> USE DEF TypeOK, StepOK, Goto
  <1>1. ASSUME NEW r \in Requests, Receive(r) PROVE StepOK'
    BY <1>1 DEF Receive, NewRequests, FirstStep
  <1>2. ASSUME NEW r \in Requests, Authorize(r) PROVE StepOK'
    BY <1>2 DEF Authorize
  <1>3. ASSUME NEW r \in Requests, LookUp(r) PROVE StepOK'
    BY <1>3 DEF LookUp
  <1>4. ASSUME NEW r \in Requests, ReadRow(r) PROVE StepOK'
    BY <1>4 DEF ReadRow
  <1>5. ASSUME NEW r \in Requests, ReadSplits(r) PROVE StepOK'
    BY <1>5 DEF ReadSplits
  <1>6. ASSUME NEW r \in Requests, LoadGroup(r) PROVE StepOK'
    BY <1>6 DEF LoadGroup
  <1>7. ASSUME NEW r \in Requests, CreateWithSplits(r) PROVE StepOK'
    <2>1. CASE pc' = [pc EXCEPT ![r] = "failed"] /\ UNCHANGED req
      BY <1>7, <2>1 DEF CreateWithSplits
    <2>2. ASSUME NEW e \in ExpenseIds,
                 req' = [req EXCEPT ![r] = [@ EXCEPT !.target = e]],
                 pc' = [pc EXCEPT ![r] = "audit"]
          PROVE StepOK'
      <3>1. /\ [req[r] EXCEPT !.target = e].op = "add"
            /\ [req[r] EXCEPT !.target = e].target = e
        BY <1>7, StoredShape DEF CreateWithSplits
      <3> QED
        BY <2>2, <3>1
    <2> QED
      BY <1>7, <2>1, <2>2 DEF CreateWithSplits
  <1>8. ASSUME NEW r \in Requests, UpdateRow(r) PROVE StepOK'
    BY <1>8 DEF UpdateRow
  <1>9. ASSUME NEW r \in Requests, ClearOld(r) PROVE StepOK'
    BY <1>9 DEF ClearOld
  <1>10. ASSUME NEW r \in Requests, InsertNew(r) PROVE StepOK'
    BY <1>10, RequestShape DEF InsertNew
  <1>11. ASSUME NEW r \in Requests, SoftDelete(r) PROVE StepOK'
    BY <1>11, RequestShape DEF SoftDelete
  <1>12. ASSUME NEW r \in Requests, RecordAudit(r) PROVE StepOK'
    BY <1>12 DEF RecordAudit
  <1>13. ASSUME NEW r \in Requests, Fail(r) PROVE StepOK'
    BY <1>13 DEF Fail
  <1>14. ASSUME NEW u \in Users, AddMember(u) PROVE StepOK'
    BY <1>14 DEF AddMember
  <1>15. ASSUME DeleteGroup PROVE StepOK'
    BY <1>15, BlankShape DEF DeleteGroup
  <1>16. ASSUME NEW old \in SUBSET ExpenseIds, Purge(old) PROVE StepOK'
    BY <1>16, BlankShape DEF Purge
  <1>17. ASSUME UNCHANGED vars PROVE StepOK'
    BY <1>17 DEF vars
  <1> QED
    BY <1>1, <1>2, <1>3, <1>4, <1>5, <1>6, <1>7, <1>8, <1>9, <1>10, <1>11, <1>12,
       <1>13, <1>14, <1>15, <1>16, <1>17 DEF Next, Step, Idle

-----------------------------------------------------------------------------
(* The life of an expense *)

\* An update or delete names an expense id.
LEMMA TargetShape ==
  ASSUME TypeOK, NEW r \in Requests, req[r].op \in {"update", "delete"}
  PROVE  /\ req[r].target \in ExpenseIds
         /\ expense[req[r].target] \in Rows
         /\ req[r].caller \in Users
  BY RequestShape DEF TypeOK

\* The domains of the functions the steps change.
LEMMA Domains ==
  ASSUME TypeOK
  PROVE  /\ DOMAIN pc = Requests /\ DOMAIN req = Requests /\ DOMAIN shares = Requests
         /\ DOMAIN doomed = Requests /\ DOMAIN expense = ExpenseIds
         /\ DOMAIN lock = ExpenseIds
  BY DEF TypeOK

\* Created once, deleted once: an expense never goes back in its life.
Onward ==
  \A e \in ExpenseIds :
    /\ expense[e].status # "unused" => expense'[e].status # "unused"
    /\ expense[e].status \in {"deleted", "gone"} => expense'[e].status \in {"deleted", "gone"}

\* No step takes an expense back in its life.
LEMMA StatusNext == TypeOK /\ StepOK /\ LockOK /\ [Next]_vars => Onward
  <1> SUFFICES ASSUME TypeOK, StepOK, LockOK, [Next]_vars PROVE Onward
    OBVIOUS
  <1> USE DEF TypeOK, Onward
  <1>1. ASSUME NEW r \in Requests, Receive(r) PROVE Onward
    BY <1>1 DEF Receive
  <1>2. ASSUME NEW r \in Requests, Authorize(r) PROVE Onward
    BY <1>2 DEF Authorize
  <1>3. ASSUME NEW r \in Requests, LookUp(r) PROVE Onward
    BY <1>3 DEF LookUp
  <1>4. ASSUME NEW r \in Requests, ReadRow(r) PROVE Onward
    BY <1>4 DEF ReadRow
  <1>5. ASSUME NEW r \in Requests, ReadSplits(r) PROVE Onward
    BY <1>5 DEF ReadSplits
  <1>6. ASSUME NEW r \in Requests, LoadGroup(r) PROVE Onward
    BY <1>6 DEF LoadGroup
  <1>7. ASSUME NEW r \in Requests, CreateWithSplits(r) PROVE Onward
    <2>1. CASE pc' = [pc EXCEPT ![r] = "failed"] /\ UNCHANGED <<expense, batches, req>>
      BY <1>7, <2>1 DEF CreateWithSplits
    <2>2. ASSUME NEW e \in ExpenseIds,
                 expense[e].status = "unused",
                 expense' = [expense EXCEPT ![e] = LiveRow(req[r].form, req[r].form.image, r)],
                 batches' = batches \cup {Batch(e, r)},
                 req' = [req EXCEPT ![r] = [@ EXCEPT !.target = e]],
                 pc' = [pc EXCEPT ![r] = "audit"]
          PROVE Onward
      <3>1. LiveRow(req[r].form, req[r].form.image, r).status = "live"
        BY DEF LiveRow
      <3> QED
        BY <2>2, <3>1
    <2> QED
      BY <1>7, <2>1, <2>2 DEF CreateWithSplits
  <1>8. ASSUME NEW r \in Requests, UpdateRow(r) PROVE Onward
    BY <1>8 DEF UpdateRow
  <1>9. ASSUME NEW r \in Requests, ClearOld(r) PROVE Onward
    BY <1>9 DEF ClearOld
  <1>10. ASSUME NEW r \in Requests, InsertNew(r) PROVE Onward
    <2> DEFINE e == req[r].target
               image == IF req[r].form.image = NoImage THEN snap[r].image ELSE req[r].form.image
    <2>1. e \in ExpenseIds /\ req[r].form \in Forms
      BY <1>10, RequestShape DEF InsertNew, StepOK
    <2>2. LiveRow(req[r].form, image, r).status = "live"
      BY DEF LiveRow
    <2>3. lock[e] = r => expense[e].status = "live"
      BY <2>1 DEF LockOK
    <2>4. \/ UNCHANGED expense
          \/ lock[e] = r /\ expense' = [expense EXCEPT ![e] = LiveRow(req[r].form, image, r)]
      BY <1>10 DEF InsertNew
    <2> HIDE DEF e, image
    <2> QED
      BY <2>1, <2>2, <2>3, <2>4
  <1>11. ASSUME NEW r \in Requests, SoftDelete(r) PROVE Onward
    <2>1. req[r].target \in ExpenseIds /\ req[r].caller \in Users
      BY <1>11, RequestShape DEF SoftDelete
    <2>2. Tombstone(expense[req[r].target], req[r].caller).status = "deleted"
      BY <2>1, TombstoneShape
    <2> QED
      BY <1>11, <2>1, <2>2 DEF SoftDelete
  <1>12. ASSUME NEW r \in Requests, RecordAudit(r) PROVE Onward
    BY <1>12 DEF RecordAudit
  <1>13. ASSUME NEW r \in Requests, Fail(r) PROVE Onward
    BY <1>13 DEF Fail
  <1>14. ASSUME NEW u \in Users, AddMember(u) PROVE Onward
    BY <1>14 DEF AddMember
  <1>15. ASSUME DeleteGroup PROVE Onward
    BY <1>15, BlankShape DEF DeleteGroup
  <1>16. ASSUME NEW old \in SUBSET ExpenseIds, Purge(old) PROVE Onward
    BY <1>16, BlankShape DEF Purge
  <1>17. ASSUME UNCHANGED vars PROVE Onward
    BY <1>17 DEF vars
  <1> QED
    BY <1>1, <1>2, <1>3, <1>4, <1>5, <1>6, <1>7, <1>8, <1>9, <1>10, <1>11, <1>12,
       <1>13, <1>14, <1>15, <1>16, <1>17 DEF Next, Step, Idle

\* A request's step changes no other request's locals, and the rivals none.
LEMMA OthersStay ==
  ASSUME TypeOK, NEW r \in Requests, NEW p \in Requests, p # r,
         Receive(r) \/ Step(r) \/ Fail(r)
  PROVE  /\ pc'[p] = pc[p] /\ req'[p] = req[p]
         /\ shares'[p] = shares[p] /\ doomed'[p] = doomed[p]
  <1> USE Domains DEF Goto
  <1>1. pc'[p] = pc[p]
    BY DEF Step, Receive, Authorize, LookUp, ReadRow, ReadSplits, LoadGroup, CreateWithSplits,
       UpdateRow, ClearOld, InsertNew, SoftDelete, RecordAudit, Fail
  <1>2. req'[p] = req[p]
    BY DEF Step, Receive, Authorize, LookUp, ReadRow, ReadSplits, LoadGroup, CreateWithSplits,
       UpdateRow, ClearOld, InsertNew, SoftDelete, RecordAudit, Fail
  <1>3. shares'[p] = shares[p]
    BY DEF Step, Receive, Authorize, LookUp, ReadRow, ReadSplits, LoadGroup, CreateWithSplits,
       UpdateRow, ClearOld, InsertNew, SoftDelete, RecordAudit, Fail
  <1>4. doomed'[p] = doomed[p]
    BY DEF Step, Receive, Authorize, LookUp, ReadRow, ReadSplits, LoadGroup, CreateWithSplits,
       UpdateRow, ClearOld, InsertNew, SoftDelete, RecordAudit, Fail
  <1> QED
    BY <1>1, <1>2, <1>3, <1>4

\* It records no change of another request.
LEMMA AppliedOfOthers ==
  ASSUME NEW r \in Requests, NEW p \in Requests, p # r, Receive(r) \/ Step(r) \/ Fail(r)
  PROVE  p \in applied' <=> p \in applied
  BY DEF Step, Receive, Authorize, LookUp, ReadRow, ReadSplits, LoadGroup, CreateWithSplits,
     UpdateRow, ClearOld, InsertNew, SoftDelete, RecordAudit, Fail

\* The rivals of the requests leave the requests alone.
LEMMA RivalsStay ==
  ASSUME \/ \E u \in Users : AddMember(u)
         \/ DeleteGroup
         \/ \E old \in SUBSET ExpenseIds : Purge(old)
         \/ Idle
         \/ UNCHANGED vars
  PROVE  UNCHANGED <<lock, req, pc, shares, doomed, audit, applied>>
  BY DEF AddMember, DeleteGroup, Purge, Idle, vars

\* Every step is of one request or of a rival.
LEMMA NextCases ==
  ASSUME [Next]_vars
  PROVE  \/ \E r \in Requests : Receive(r) \/ Step(r) \/ Fail(r)
         \/ \E u \in Users : AddMember(u)
         \/ DeleteGroup
         \/ \E old \in SUBSET ExpenseIds : Purge(old)
         \/ Idle
         \/ UNCHANGED vars
  BY DEF Next

\* What a request has read live stays created.
LEMMA ReadNext == TypeOK /\ StepOK /\ LockOK /\ ReadOK /\ [Next]_vars => ReadOK'
  <1> SUFFICES ASSUME TypeOK, StepOK, LockOK, ReadOK, [Next]_vars,
                      NEW p \in Requests,
                      req'[p].op \in {"update", "delete"},
                      pc'[p] \in {"read_splits", "load_group", "write", "clear", "insert"}
               PROVE  expense'[req'[p].target].status # "unused"
    BY DEF ReadOK
  <1>1. Onward
    BY StatusNext
  <1>2. CASE pc'[p] = pc[p] /\ req'[p] = req[p]
    <2>1. req[p].target \in ExpenseIds /\ expense[req[p].target].status # "unused"
      BY <1>2, TargetShape DEF ReadOK
    <2> QED
      BY <1>1, <1>2, <2>1 DEF Onward
  <1>3. CASE Receive(p) \/ Step(p) \/ Fail(p)
    <2> USE Domains DEF Goto
    <2>1. CASE ReadRow(p)
      BY <2>1, TargetShape DEF ReadRow, StepOK
    <2>2. CASE ReadSplits(p) \/ LoadGroup(p) \/ UpdateRow(p) \/ ClearOld(p)
      <3>1. req'[p] = req[p] /\ req[p].target \in ExpenseIds
        BY <2>2, TargetShape DEF ReadSplits, LoadGroup, UpdateRow, ClearOld
      <3>2. expense[req[p].target].status # "unused"
        BY <2>2, <3>1 DEF ReadSplits, LoadGroup, UpdateRow, ClearOld, ReadOK
      <3> QED
        BY <1>1, <3>1, <3>2 DEF Onward
    <2>3. CASE Receive(p)
      BY <2>3 DEF Receive, FirstStep, NewRequests
    <2>4. CASE Authorize(p) \/ LookUp(p) \/ CreateWithSplits(p) \/ InsertNew(p) \/ SoftDelete(p)
               \/ RecordAudit(p) \/ Fail(p)
      <3>1. Authorize(p) /\ pc'[p] = "load_group"
        BY <2>4 DEF Authorize, LookUp, CreateWithSplits, InsertNew, SoftDelete, RecordAudit, Fail
      <3> QED
        BY <3>1 DEF Authorize, StepOK
    <2> QED
      BY <1>3, <2>1, <2>2, <2>3, <2>4 DEF Step
  <1> QED
    BY <1>2, <1>3, NextCases, OthersStay, RivalsStay

-----------------------------------------------------------------------------
(* The row lock *)

\* Nobody but its holder takes or releases a lock.
LEMMA LockOfOthers ==
  ASSUME TypeOK, NEW r \in Requests, NEW p \in Requests, p # r,
         Receive(r) \/ Step(r) \/ Fail(r), NEW e \in ExpenseIds
  PROVE  lock'[e] = p <=> lock[e] = p
  <1> USE Domains, NullAssumption
  <1>1. CASE UpdateRow(r)
    BY <1>1 DEF UpdateRow
  <1>2. CASE InsertNew(r) \/ Fail(r)
    <2>1. lock' = Unlocked(r)
      BY <1>2 DEF InsertNew, Fail
    <2> QED
      BY <2>1 DEF Unlocked
  <1>3. CASE UNCHANGED lock
    BY <1>3
  <1> QED
    BY <1>1, <1>2, <1>3 DEF Step, Receive, Authorize, LookUp, ReadRow, ReadSplits, LoadGroup,
       CreateWithSplits, ClearOld, SoftDelete, RecordAudit

\* A locked expense, its splits and its items are left alone by all others.
LEMMA LockedStays ==
  ASSUME TypeOK, StepOK, LockOK, DoomedOK, [Next]_vars,
         NEW p \in Requests, NEW e \in ExpenseIds, lock[e] = p,
         ~(Receive(p) \/ Step(p) \/ Fail(p))
  PROVE  expense'[e] = expense[e] /\ BatchesOf(e)' = BatchesOf(e)
  <1>1. p # NoRequest /\ expense[e].status = "live"
    BY NullAssumption DEF LockOK
  <1>2. ASSUME NEW r \in Requests, p # r, CreateWithSplits(r)
        PROVE  expense'[e] = expense[e] /\ BatchesOf(e)' = BatchesOf(e)
    <2>1. CASE UNCHANGED <<expense, batches>>
      BY <2>1 DEF BatchesOf
    <2>2. ASSUME NEW d \in ExpenseIds, expense[d].status = "unused",
                 expense' = [expense EXCEPT ![d] = LiveRow(req[r].form, req[r].form.image, r)],
                 batches' = batches \cup {Batch(d, r)}
          PROVE  expense'[e] = expense[e] /\ BatchesOf(e)' = BatchesOf(e)
      <3>1. d # e /\ Batch(d, r).expense = d
        BY <1>1, <2>2 DEF Batch
      <3> QED
        BY <2>2, <3>1, Domains DEF BatchesOf
    <2> QED
      BY <1>2, <2>1, <2>2 DEF CreateWithSplits
  <1>3. ASSUME NEW r \in Requests, p # r, InsertNew(r)
        PROVE  expense'[e] = expense[e] /\ BatchesOf(e)' = BatchesOf(e)
    <2> DEFINE d == req[r].target
    <2>1. d \in ExpenseIds /\ Batch(d, r).expense = d
      BY <1>3, TargetShape DEF InsertNew, StepOK, Batch
    <2>2. d # e
      BY <1>1, <1>3, <2>1 DEF InsertNew, LockOK
    <2>3. \A b \in doomed[r] : b.expense = d
      BY <1>3 DEF InsertNew, DoomedOK
    <2>4. expense'[e] = expense[e]
      BY <1>3, <2>1, <2>2, Domains DEF InsertNew
    <2>5. UNCHANGED batches \/ batches' = (batches \ doomed[r]) \cup {Batch(d, r)}
      BY <1>3 DEF InsertNew
    <2> HIDE DEF d
    <2>6. BatchesOf(e)' = BatchesOf(e)
      BY <2>1, <2>2, <2>3, <2>5 DEF BatchesOf
    <2> QED
      BY <2>4, <2>6
  <1>4. ASSUME NEW r \in Requests, SoftDelete(r)
        PROVE  expense'[e] = expense[e] /\ BatchesOf(e)' = BatchesOf(e)
    <2>1. req[r].target # e
      BY <1>1, <1>4 DEF SoftDelete
    <2> QED
      BY <1>4, <2>1, Domains DEF SoftDelete, BatchesOf
  <1>5. ~DeleteGroup
    BY <1>1 DEF DeleteGroup
  <1>6. ASSUME NEW old \in SUBSET ExpenseIds, Purge(old)
        PROVE  expense'[e] = expense[e] /\ BatchesOf(e)' = BatchesOf(e)
    <2>1. e \notin old
      BY <1>1, <1>6 DEF Purge
    <2> QED
      BY <1>6, <2>1 DEF Purge, BatchesOf
  <1>7. CASE UNCHANGED <<expense, batches>>
    BY <1>7 DEF BatchesOf
  <1> QED
    BY <1>2, <1>3, <1>4, <1>5, <1>6, <1>7, NextCases
    DEF Step, Receive, Authorize, LookUp, ReadRow, ReadSplits, LoadGroup, UpdateRow, ClearOld,
        RecordAudit, Fail, AddMember, Idle, vars

\* A row lock keeps its expense live until the commit.
LEMMA LockNext ==
  TypeOK /\ StepOK /\ ReadOK /\ LockOK /\ DoomedOK /\ [Next]_vars => LockOK'
  <1> SUFFICES ASSUME TypeOK, StepOK, ReadOK, LockOK, DoomedOK, [Next]_vars,
                      NEW p \in Requests
               PROVE  /\ \A e \in ExpenseIds : lock'[e] = p =>
                           /\ pc'[p] \in {"clear", "insert"}
                           /\ req'[p].target = e
                           /\ expense'[e].status = "live"
                      /\ pc'[p] \in {"clear", "insert"} =>
                           \/ lock'[req'[p].target] = p
                           \/ expense'[req'[p].target].status \in {"deleted", "gone"}
    BY DEF LockOK
  <1> USE Domains, NullAssumption DEF Goto
  <1>1. CASE Receive(p) \/ Step(p) \/ Fail(p)
    <2>1. CASE UpdateRow(p)
      <3>1. req[p].target \in ExpenseIds /\ expense[req[p].target] \in Rows
        BY <2>1, TargetShape DEF UpdateRow
      <3>2. expense[req[p].target].status \in {"live", "deleted", "gone"}
        BY <2>1, <3>1 DEF UpdateRow, ReadOK, Rows
      <3>3. /\ \A e \in ExpenseIds : lock[e] # p
            /\ req' = req /\ expense' = expense /\ pc'[p] = "clear"
        BY <2>1 DEF UpdateRow, LockOK
      <3>4. lock' = [lock EXCEPT ![req[p].target] =
                       IF expense[req[p].target].status = "live" THEN p ELSE NoRequest]
        BY <2>1 DEF UpdateRow
      <3> QED
        BY <3>1, <3>2, <3>3, <3>4
    <2>2. CASE ClearOld(p)
      BY <2>2 DEF ClearOld, LockOK
    <2>3. CASE InsertNew(p) \/ Fail(p)
      <3>1. lock' = Unlocked(p) /\ pc'[p] \in {"audit", "failed"}
        BY <2>3 DEF InsertNew, Fail
      <3> QED
        BY <3>1 DEF Unlocked
    <2>4. CASE UNCHANGED lock /\ pc[p] \notin {"clear", "insert"} /\ pc'[p] \notin {"clear", "insert"}
      BY <2>4 DEF LockOK
    <2>5. CASE Receive(p)
      BY <2>5 DEF Receive, LockOK, FirstStep, NewRequests
    <2> QED
      BY <1>1, <2>1, <2>2, <2>3, <2>4, <2>5
      DEF Step, Authorize, LookUp, ReadRow, ReadSplits, LoadGroup, CreateWithSplits, SoftDelete,
          RecordAudit
  <1>2. CASE ~(Receive(p) \/ Step(p) \/ Fail(p))
    <2>1. pc'[p] = pc[p] /\ req'[p] = req[p]
      BY <1>2, NextCases, OthersStay, RivalsStay
    <2>2. \A e \in ExpenseIds : lock'[e] = p <=> lock[e] = p
      BY <1>2, NextCases, LockOfOthers, RivalsStay
    <2>3. \A e \in ExpenseIds : lock[e] = p => expense'[e] = expense[e]
      BY <1>2, LockedStays
    <2>4. Onward
      BY StatusNext
    <2>5. pc[p] \in {"clear", "insert"} => req[p].target \in ExpenseIds
      BY TargetShape DEF StepOK
    <2> QED
      BY <2>1, <2>2, <2>3, <2>4, <2>5 DEF LockOK, Onward
  <1> QED
    BY <1>1, <1>2

\* Under the lock no rival adds rows that the update would miss.
LEMMA DoomedNext ==
  TypeOK /\ StepOK /\ LockOK /\ DoomedOK /\ [Next]_vars => DoomedOK'
  <1> SUFFICES ASSUME TypeOK, StepOK, LockOK, DoomedOK, [Next]_vars PROVE DoomedOK'
    OBVIOUS
  <1> SUFFICES ASSUME NEW p \in Requests, pc'[p] = "insert"
               PROVE  /\ \A b \in doomed'[p] : b.expense = req'[p].target
                      /\ lock'[req'[p].target] = p =>
                           doomed'[p] = {b \in batches' : b.expense = req'[p].target}
    BY DEF DoomedOK, BatchesOf
  <1> USE Domains, NullAssumption DEF Goto
  <1>1. CASE Receive(p) \/ Step(p) \/ Fail(p)
    <2>1. ClearOld(p)
      BY <1>1 DEF Step, Receive, FirstStep, NewRequests, Authorize, LookUp, ReadRow, ReadSplits,
         LoadGroup, CreateWithSplits, UpdateRow, InsertNew, SoftDelete, RecordAudit, Fail
    <2>2. /\ req'[p] = req[p] /\ batches' = batches
          /\ doomed'[p] = {b \in batches : b.expense = req[p].target}
      BY <2>1 DEF ClearOld, BatchesOf
    <2> QED
      BY <2>2
  <1>2. CASE ~(Receive(p) \/ Step(p) \/ Fail(p))
    <2> DEFINE e == req[p].target
    <2>1. pc'[p] = pc[p] /\ req'[p] = req[p] /\ doomed'[p] = doomed[p]
      BY <1>2, NextCases, OthersStay, RivalsStay
    <2>2. e \in ExpenseIds
      BY <2>1, TargetShape DEF StepOK
    <2>3. lock'[e] = p <=> lock[e] = p
      BY <1>2, <2>2, NextCases, LockOfOthers, RivalsStay
    <2>4. lock[e] = p =>
            {b \in batches' : b.expense = e} = {b \in batches : b.expense = e}
      BY <1>2, <2>2, LockedStays DEF BatchesOf
    <2>5. /\ \A b \in doomed[p] : b.expense = e
          /\ lock[e] = p => doomed[p] = {b \in batches : b.expense = e}
      BY <2>1 DEF DoomedOK, BatchesOf
    <2> QED
      BY <2>1, <2>3, <2>4, <2>5
  <1> QED
    BY <1>1, <1>2

-----------------------------------------------------------------------------
(* What a step does to one expense *)

Untouched(e) == expense'[e] = expense[e] /\ BatchesOf(e)' = BatchesOf(e)

\* A request creates the expense, or replaces it under its lock.
Rewritten(e) ==
  \E r \in Requests, i \in Images \cup {NoImage} :
    /\ pc[r] \in {"write", "insert"}
    /\ req[r].op \in {"add", "update"}
    /\ expense[e].status \in {"unused", "live"}
    /\ groupLive
    /\ r \in applied'
    /\ req'[r].form = req[r].form
    /\ expense'[e] = LiveRow(req[r].form, i, r)
    /\ BatchesOf(e)' = {Batch(e, r)}

\* An update that came after the deletion adds its splits and items.
Late(e) ==
  \E r \in Requests :
    /\ pc[r] = "insert"
    /\ req[r].op = "update"
    /\ expense[e].status = "deleted"
    /\ expense'[e] = expense[e]
    /\ BatchesOf(e)' \subseteq BatchesOf(e) \cup {Batch(e, r)}

Buried(e) ==
  \E u \in Users :
    /\ expense[e].status = "live"
    /\ expense'[e] = Tombstone(expense[e], u)
    /\ BatchesOf(e)' = BatchesOf(e)

Erased(e) ==
  /\ expense[e].status # "unused"
  /\ expense'[e] = Blank("gone")
  /\ BatchesOf(e)' = {}

\* A step leaves an expense alone or changes it in one of four ways.
LEMMA Effect ==
  ASSUME TypeOK, StepOK, LockOK, DoomedOK, NoOrphans, [Next]_vars,
         NEW e \in ExpenseIds
  PROVE  Untouched(e) \/ Rewritten(e) \/ Late(e) \/ Buried(e) \/ Erased(e)
  <1> USE Domains
  <1>1. ASSUME NEW r \in Requests, CreateWithSplits(r)
        PROVE  Untouched(e) \/ Rewritten(e)
    <2>1. CASE UNCHANGED <<expense, batches>>
      BY <2>1 DEF BatchesOf, Untouched
    <2>2. ASSUME NEW d \in ExpenseIds, expense[d].status = "unused", groupLive,
                 expense' = [expense EXCEPT ![d] = LiveRow(req[r].form, req[r].form.image, r)],
                 batches' = batches \cup {Batch(d, r)},
                 req' = [req EXCEPT ![r] = [@ EXCEPT !.target = d]],
                 applied' = applied \cup {r}
          PROVE  Untouched(e) \/ Rewritten(e)
      <3>1. Batch(d, r).expense = d
        BY DEF Batch
      <3>2. CASE e # d
        BY <2>2, <3>1, <3>2 DEF BatchesOf, Untouched
      <3>3. CASE e = d
        <4>1. \A b \in batches : b.expense # d
          BY <2>2 DEF NoOrphans
        <4>2. BatchesOf(e)' = {Batch(e, r)}
          BY <2>2, <3>1, <3>3, <4>1 DEF BatchesOf
        <4>3. pc[r] = "write" /\ req[r].op = "add" /\ req[r].form \in Forms
          BY <1>1, RequestShape DEF CreateWithSplits, TypeOK
        <4>4. req[r].form.image \in Images \cup {NoImage}
          BY <4>3, FormShape
        <4>5. expense'[e] = LiveRow(req[r].form, req[r].form.image, r)
          BY <2>2, <3>3
        <4>6. req'[r].form = req[r].form
          BY <1>1, <2>2, StoredShape DEF CreateWithSplits, TypeOK
        <4>7. r \in applied'
          BY <2>2
        <4> QED
          BY <2>2, <3>3, <4>2, <4>3, <4>4, <4>5, <4>6, <4>7 DEF Rewritten
      <3> QED
        BY <3>2, <3>3
    <2> QED
      BY <1>1, <2>1, <2>2 DEF CreateWithSplits
  <1>2. ASSUME NEW r \in Requests, InsertNew(r)
        PROVE  Untouched(e) \/ Rewritten(e) \/ Late(e)
    <2> DEFINE d == req[r].target
               i == IF req[r].form.image = NoImage THEN snap[r].image ELSE req[r].form.image
    <2>1. d \in ExpenseIds /\ Batch(d, r).expense = d
      BY <1>2, TargetShape DEF InsertNew, StepOK, Batch
    <2>2. pc[r] = "insert" /\ req[r].op = "update" /\ req[r].form \in Forms
      BY <1>2, RequestShape DEF InsertNew, StepOK, TypeOK
    <2>3. i \in Images \cup {NoImage}
      BY <2>2, FormShape DEF TypeOK
    <2>4. \A b \in doomed[r] : b.expense = d
      BY <2>2 DEF DoomedOK
    <2>5. CASE UNCHANGED <<expense, batches>>
      BY <2>5 DEF BatchesOf, Untouched
    <2>6. CASE /\ expense[d].status \in {"live", "deleted"}
               /\ batches' = (batches \ doomed[r]) \cup {Batch(d, r)}
               /\ expense' = IF lock[d] = r
                             THEN [expense EXCEPT ![d] = LiveRow(req[r].form, i, r)]
                             ELSE expense
               /\ applied' = IF lock[d] = r THEN applied \cup {r} ELSE applied
      <3> HIDE DEF d, i
      <3>1. CASE e # d
        BY <2>1, <2>4, <2>6, <3>1 DEF BatchesOf, Untouched
      <3>2. CASE e = d /\ lock[d] = r
        <4>1. expense[d].status = "live" /\ doomed[r] = BatchesOf(d)
          BY <2>1, <2>2, <3>2 DEF LockOK, DoomedOK, d
        <4>2. BatchesOf(e)' = {Batch(e, r)}
          BY <2>1, <2>6, <3>2, <4>1 DEF BatchesOf
        <4>3. groupLive
          BY <2>1, <4>1 DEF NoOrphans
        <4>4. expense'[e] = LiveRow(req[r].form, i, r)
          BY <2>6, <3>2
        <4>5. r \in applied' /\ req' = req
          BY <1>2, <2>6, <3>2 DEF InsertNew
        <4> QED
          BY <2>2, <2>3, <3>2, <4>1, <4>2, <4>3, <4>4, <4>5 DEF Rewritten
      <3>3. CASE e = d /\ lock[d] # r
        <4>1. expense[e].status = "deleted"
          BY <2>2, <2>6, <3>3 DEF LockOK, d
        <4>2. BatchesOf(e)' \subseteq BatchesOf(e) \cup {Batch(e, r)}
          BY <2>6, <3>3 DEF BatchesOf
        <4> QED
          BY <2>2, <2>6, <3>3, <4>1, <4>2 DEF Late
      <3> QED
        BY <3>1, <3>2, <3>3
    <2> QED
      BY <1>2, <2>5, <2>6 DEF InsertNew
  <1>3. ASSUME NEW r \in Requests, SoftDelete(r)
        PROVE  Untouched(e) \/ Buried(e)
    <2>1. req[r].target \in ExpenseIds /\ req[r].caller \in Users
      BY <1>3, TargetShape DEF SoftDelete
    <2>2. BatchesOf(e)' = BatchesOf(e)
      BY <1>3 DEF SoftDelete, BatchesOf
    <2>3. \/ expense'[e] = expense[e]
          \/ /\ expense[e].status = "live"
             /\ expense'[e] = Tombstone(expense[e], req[r].caller)
      BY <1>3, <2>1 DEF SoftDelete
    <2> QED
      BY <2>1, <2>2, <2>3 DEF Untouched, Buried
  <1>4. ASSUME DeleteGroup
        PROVE  Untouched(e) \/ Erased(e)
    <2>1. CASE expense[e].status = "unused"
      <3>1. BatchesOf(e) = {}
        BY <2>1 DEF NoOrphans, BatchesOf
      <3>2. BatchesOf(e)' = {}
        BY <1>4 DEF DeleteGroup, BatchesOf
      <3>3. expense'[e] = expense[e]
        BY <1>4, <2>1 DEF DeleteGroup
      <3> QED
        BY <3>1, <3>2, <3>3 DEF Untouched
    <2>2. CASE expense[e].status # "unused"
      BY <1>4, <2>2 DEF DeleteGroup, Erased, BatchesOf
    <2> QED
      BY <2>1, <2>2
  <1>5. ASSUME NEW old \in SUBSET ExpenseIds, Purge(old)
        PROVE  Untouched(e) \/ Erased(e)
    <2>1. CASE e \in old
      BY <1>5, <2>1 DEF Purge, Erased, BatchesOf
    <2>2. CASE e \notin old
      BY <1>5, <2>2 DEF Purge, Untouched, BatchesOf
    <2> QED
      BY <2>1, <2>2
  <1>6. CASE UNCHANGED <<expense, batches>>
    BY <1>6 DEF Untouched, BatchesOf
  <1> QED
    BY <1>1, <1>2, <1>3, <1>4, <1>5, <1>6, NextCases
    DEF Step, Receive, Authorize, LookUp, ReadRow, ReadSplits, LoadGroup, UpdateRow, ClearOld,
        RecordAudit, Fail, AddMember, Idle, vars

\* While the group exists its members only grow.
LEMMA GroupNext ==
  ASSUME [Next]_vars
  PROVE  groupLive' => groupLive /\ members \subseteq members'
  BY DEF Next, Step, Receive, Authorize, LookUp, ReadRow, ReadSplits, LoadGroup,
     CreateWithSplits, UpdateRow, ClearOld, InsertNew, SoftDelete, RecordAudit, Fail,
     AddMember, DeleteGroup, Purge, Idle, vars

-----------------------------------------------------------------------------
(* The other parts of the invariant *)

\* The splits of a request stay what its body resolves to.
LEMMA SharesNext == TypeOK /\ StepOK /\ SharesOK /\ [Next]_vars => SharesOK'
  <1> SUFFICES ASSUME TypeOK, StepOK, SharesOK, [Next]_vars,
                      NEW p \in Requests,
                      req'[p].op \in {"add", "update"},
                      pc'[p] \in {"write", "clear", "insert"}
               PROVE  /\ shares'[p] \in Resolved(req'[p].form)
                      /\ groupLive' => /\ req'[p].form.payer \in members'
                                       /\ DOMAIN shares'[p] \subseteq members'
                                       /\ UNION req'[p].form.items \subseteq members'
    BY DEF SharesOK
  <1> USE Domains DEF Goto
  <1>1. CASE /\ req'[p] = req[p] /\ shares'[p] = shares[p]
             /\ pc[p] \in {"write", "clear", "insert"}
    BY <1>1, GroupNext DEF SharesOK
  <1>2. CASE LoadGroup(p)
    <2> DEFINE f == req[p].form
    <2>1. f \in Forms /\ members \in SUBSET Users
      BY <1>2, RequestShape DEF LoadGroup, StepOK, TypeOK
    <2>2. /\ groupLive /\ Accepted(f, members)
          /\ shares'[p] = SplitAmounts(f, members)
          /\ req' = req /\ members' = members
      BY <1>2 DEF LoadGroup
    <2>3. shares'[p] \in Resolved(f)
      BY <2>1, <2>2 DEF Resolved
    <2>4. DOMAIN shares'[p] \subseteq members
      BY <2>1, <2>2, SplitAssumption
    <2>5. f.payer \in members /\ UNION f.items \subseteq members
      BY <2>2 DEF Accepted
    <2> QED
      BY <2>2, <2>3, <2>4, <2>5
  <1>3. CASE UpdateRow(p) \/ ClearOld(p)
    BY <1>1, <1>3 DEF UpdateRow, ClearOld
  <1>4. CASE Receive(p)
    BY <1>4 DEF Receive, FirstStep, NewRequests
  <1>5. CASE ReadSplits(p)
    BY <1>5 DEF ReadSplits, StepOK
  <1>6. CASE Authorize(p) \/ LookUp(p) \/ ReadRow(p) \/ CreateWithSplits(p) \/ InsertNew(p)
             \/ SoftDelete(p) \/ RecordAudit(p) \/ Fail(p)
    BY <1>6 DEF Authorize, LookUp, ReadRow, CreateWithSplits, InsertNew, SoftDelete,
       RecordAudit, Fail
  <1>7. CASE ~(Receive(p) \/ Step(p) \/ Fail(p))
    <2>1. pc'[p] = pc[p] /\ req'[p] = req[p] /\ shares'[p] = shares[p]
      BY <1>7, NextCases, OthersStay, RivalsStay
    <2> QED
      BY <1>1, <2>1
  <1> QED
    BY <1>2, <1>3, <1>4, <1>5, <1>6, <1>7 DEF Step

\* The rows a write leaves behind, from what the invariant says of it.
LEMMA WriterShape ==
  ASSUME TypeOK, SharesOK, NEW r \in Requests,
         pc[r] \in {"write", "insert"}, req[r].op \in {"add", "update"}, NEW e
  PROVE  /\ req[r].form \in Forms
         /\ Batch(e, r).writer = r
         /\ Batch(e, r).shares \in Resolved(req[r].form)
         /\ groupLive => /\ req[r].form.payer \in members
                         /\ DOMAIN Batch(e, r).shares \subseteq members
                         /\ UNION Batch(e, r).items \subseteq members
  BY RequestShape DEF TypeOK, SharesOK, Batch

\* A request whose change is committed keeps what it is, and stays past it.
LEMMA AppliedStays ==
  ASSUME TypeOK, StepOK, AppliedOK, [Next]_vars, NEW p \in applied
  PROVE  /\ p \in Requests /\ p \in applied'
         /\ req'[p] = req[p]
         /\ pc'[p] \in {"audit", "answered", "failed"}
  <1> USE Domains DEF Goto
  <1>1. p \in Requests /\ pc[p] \in {"audit", "answered", "failed"}
    BY DEF TypeOK, AppliedOK
  <1>2. CASE Receive(p) \/ Step(p) \/ Fail(p)
    <2>1. RecordAudit(p) \/ Fail(p)
      BY <1>1, <1>2
      DEF Receive, Step, Authorize, LookUp, ReadRow, ReadSplits, LoadGroup, CreateWithSplits,
          UpdateRow, ClearOld, InsertNew, SoftDelete
    <2> QED
      BY <1>1, <2>1 DEF RecordAudit, Fail
  <1>3. CASE ~(Receive(p) \/ Step(p) \/ Fail(p))
    <2>1. pc'[p] = pc[p] /\ req'[p] = req[p]
      BY <1>1, <1>3, NextCases, OthersStay, RivalsStay
    <2>2. p \in applied'
      BY <1>1, <1>3, NextCases, AppliedOfOthers, RivalsStay
    <2> QED
      BY <1>1, <2>1, <2>2
  <1> QED
    BY <1>2, <1>3

\* A live expense says what the body of its last writer said.
LEMMA ContentNext ==
  /\ TypeOK /\ StepOK /\ LockOK /\ DoomedOK /\ NoOrphans /\ SharesOK /\ ContentOK /\ AppliedOK
  /\ [Next]_vars
  => ContentOK'
  <1> SUFFICES ASSUME TypeOK, StepOK, LockOK, DoomedOK, NoOrphans, SharesOK, ContentOK,
                      AppliedOK, [Next]_vars
               PROVE  ContentOK'
    OBVIOUS
  <1> DEFINE Says(e, w) ==
        /\ w \in applied
        /\ req[w].form \in Forms
        /\ expense[e].payer = req[w].form.payer
        /\ expense[e].amount = req[w].form.amount
        /\ \A b \in BatchesOf(e) : b.shares \in Resolved(req[w].form)
  <1> SUFFICES ASSUME NEW e \in ExpenseIds, expense'[e].status = "live"
               PROVE  Says(e, expense[e].writer)'
    BY DEF ContentOK
  <1>1. CASE Untouched(e)
    <2>1. Says(e, expense[e].writer)
      BY <1>1 DEF Untouched, ContentOK
    <2>2. req'[expense[e].writer] = req[expense[e].writer] /\ expense[e].writer \in applied'
      BY <2>1, AppliedStays
    <2> QED
      BY <1>1, <2>1, <2>2 DEF Untouched
  <1>2. CASE Rewritten(e)
    <2>1. PICK r \in Requests, i \in Images \cup {NoImage} :
            /\ pc[r] \in {"write", "insert"}
            /\ req[r].op \in {"add", "update"}
            /\ r \in applied'
            /\ req'[r].form = req[r].form
            /\ expense'[e] = LiveRow(req[r].form, i, r)
            /\ BatchesOf(e)' = {Batch(e, r)}
      BY <1>2 DEF Rewritten
    <2>2. /\ expense'[e].payer = req[r].form.payer
          /\ expense'[e].amount = req[r].form.amount
          /\ expense'[e].writer = r
      BY <2>1 DEF LiveRow
    <2>3. req[r].form \in Forms /\ Batch(e, r).shares \in Resolved(req[r].form)
      BY <2>1, WriterShape
    <2> QED
      BY <2>1, <2>2, <2>3
  <1>3. ~Late(e) /\ ~Buried(e) /\ ~Erased(e)
    BY BlankShape DEF Late, Buried, Erased, Tombstone, TypeOK, Rows
  <1> QED
    BY <1>1, <1>2, <1>3, Effect

\* No step mixes the rows of two writes in a live expense.
LEMMA WholeNext ==
  /\ TypeOK /\ StepOK /\ LockOK /\ DoomedOK /\ NoOrphans /\ SharesOK /\ OneWholeWrite
  /\ [Next]_vars
  => OneWholeWrite'
  <1> SUFFICES ASSUME TypeOK, StepOK, LockOK, DoomedOK, NoOrphans, SharesOK, OneWholeWrite,
                      [Next]_vars
               PROVE  OneWholeWrite'
    OBVIOUS
  <1> SUFFICES ASSUME NEW e \in ExpenseIds, expense'[e].status = "live"
               PROVE  \E b \in batches' :
                        BatchesOf(e)' = {b} /\ b.writer = expense'[e].writer
    BY DEF OneWholeWrite
  <1> SUFFICES \E b : BatchesOf(e)' = {b} /\ b.writer = expense'[e].writer
    BY DEF BatchesOf
  <1>1. CASE Untouched(e)
    BY <1>1 DEF Untouched, OneWholeWrite
  <1>2. CASE Rewritten(e)
    <2>1. PICK r \in Requests, i \in Images \cup {NoImage} :
            /\ pc[r] \in {"write", "insert"}
            /\ req[r].op \in {"add", "update"}
            /\ expense'[e] = LiveRow(req[r].form, i, r)
            /\ BatchesOf(e)' = {Batch(e, r)}
      BY <1>2 DEF Rewritten
    <2>2. expense'[e].writer = r
      BY <2>1 DEF LiveRow
    <2>3. Batch(e, r).writer = r
      BY <2>1, WriterShape
    <2> QED
      BY <2>1, <2>2, <2>3
  <1>3. ~Late(e) /\ ~Buried(e) /\ ~Erased(e)
    BY BlankShape DEF Late, Buried, Erased, Tombstone, TypeOK, Rows
  <1> QED
    BY <1>1, <1>2, <1>3, Effect

\* No step leaves rows behind that belong to nothing.
LEMMA OrphansNext ==
  /\ TypeOK /\ StepOK /\ LockOK /\ DoomedOK /\ NoOrphans /\ SharesOK
  /\ [Next]_vars
  => NoOrphans'
  <1> SUFFICES ASSUME TypeOK, StepOK, LockOK, DoomedOK, NoOrphans, SharesOK, [Next]_vars
               PROVE  NoOrphans'
    OBVIOUS
  <1> DEFINE Kept(e) ==
        /\ \A b \in BatchesOf(e) : /\ expense[e].status \in {"live", "deleted"}
                                   /\ DOMAIN b.shares \subseteq members
                                   /\ UNION b.items \subseteq members
        /\ expense[e].status \in {"live", "deleted"} => groupLive /\ expense[e].payer \in members
  <1>1. NoOrphans /\ TypeOK => \A e \in ExpenseIds : Kept(e)
    BY DEF NoOrphans, BatchesOf
  <1>2. TypeOK'
    BY TypeNext
  <1>3. ASSUME NEW e \in ExpenseIds PROVE Kept(e)'
    <2>1. Kept(e)
      BY <1>1
    <2>2. CASE Untouched(e) /\ groupLive'
      BY <2>1, <2>2, GroupNext DEF Untouched
    <2>3. CASE Rewritten(e) /\ groupLive'
      <3>1. PICK r \in Requests, i \in Images \cup {NoImage} :
              /\ pc[r] \in {"write", "insert"}
              /\ req[r].op \in {"add", "update"}
              /\ groupLive
              /\ expense'[e] = LiveRow(req[r].form, i, r)
              /\ BatchesOf(e)' = {Batch(e, r)}
        BY <2>3 DEF Rewritten
      <3>2. expense'[e].status = "live" /\ expense'[e].payer = req[r].form.payer
        BY <3>1 DEF LiveRow
      <3>3. /\ req[r].form.payer \in members
            /\ DOMAIN Batch(e, r).shares \subseteq members
            /\ UNION Batch(e, r).items \subseteq members
        BY <3>1, WriterShape
      <3> QED
        BY <2>3, <3>1, <3>2, <3>3, GroupNext
    <2>4. CASE Late(e) /\ groupLive'
      <3>1. PICK r \in Requests :
              /\ pc[r] = "insert"
              /\ req[r].op = "update"
              /\ expense[e].status = "deleted"
              /\ expense'[e] = expense[e]
              /\ BatchesOf(e)' \subseteq BatchesOf(e) \cup {Batch(e, r)}
        BY <2>4 DEF Late
      <3>2. groupLive
        BY <2>1, <3>1
      <3>3. /\ DOMAIN Batch(e, r).shares \subseteq members
            /\ UNION Batch(e, r).items \subseteq members
        BY <3>1, <3>2, WriterShape
      <3> QED
        BY <2>1, <2>4, <3>1, <3>3, GroupNext
    <2>5. CASE Buried(e) /\ groupLive'
      <3>1. PICK u \in Users : /\ expense[e].status = "live"
                               /\ expense'[e] = Tombstone(expense[e], u)
                               /\ BatchesOf(e)' = BatchesOf(e)
        BY <2>5 DEF Buried
      <3>2. expense'[e].status = "deleted" /\ expense'[e].payer = expense[e].payer
        BY <3>1, TombstoneShape DEF TypeOK
      <3> QED
        BY <2>1, <2>5, <3>1, <3>2, GroupNext
    <2>6. CASE Erased(e)
      BY <2>6, BlankShape DEF Erased
    <2>7. CASE ~groupLive'
      <3>1. CASE DeleteGroup
        BY <3>1, BlankShape DEF DeleteGroup, BatchesOf, TypeOK, Rows
      <3>2. CASE ~groupLive
        <4>1. expense[e].status \notin {"live", "deleted"} /\ BatchesOf(e) = {}
          BY <2>1, <3>2
        <4>2. Untouched(e) \/ Erased(e)
          BY <3>2, <4>1, Effect DEF Rewritten, Late, Buried
        <4> QED
          BY <2>6, <4>1, <4>2 DEF Untouched
      <3> QED
        BY <2>7, <3>1, <3>2, NextCases
        DEF Step, Receive, Authorize, LookUp, ReadRow, ReadSplits, LoadGroup, CreateWithSplits,
            UpdateRow, ClearOld, InsertNew, SoftDelete, RecordAudit, Fail, AddMember, Purge,
            Idle, vars
    <2> QED
      BY <2>2, <2>3, <2>4, <2>5, <2>6, <2>7, Effect
  <1> QED
    BY <1>2, <1>3 DEF NoOrphans, BatchesOf, TypeOK

\* An expense that is not live has been created and is not live again.
LEMMA DeadStays ==
  ASSUME TypeOK, Onward, NEW e \in ExpenseIds,
         expense[e].status # "unused", expense[e].status # "live"
  PROVE  expense'[e].status \in {"deleted", "gone"}
  BY DEF TypeOK, Onward, Rows

\* What a request has deleted stays deleted, by its caller.
LEMMA AppliedNext ==
  /\ TypeOK /\ StepOK /\ ReadOK /\ LockOK /\ DoomedOK /\ NoOrphans /\ AppliedOK
  /\ [Next]_vars
  => AppliedOK'
  <1> DEFINE Lasting(p) ==
        LET row == expense[req[p].target]
        IN  /\ req[p].target \in ExpenseIds
            /\ row.status # "unused"
            /\ req[p].op = "delete" =>
                 /\ row.status \in {"deleted", "gone"}
                 /\ row.status = "deleted" => row.deletedBy = req[p].caller
  <1> SUFFICES ASSUME TypeOK, StepOK, ReadOK, LockOK, DoomedOK, NoOrphans, AppliedOK,
                      [Next]_vars, NEW p \in applied'
               PROVE  pc'[p] \in {"audit", "answered", "failed"} /\ Lasting(p)'
    BY DEF AppliedOK
  <1> USE Domains DEF Goto
  <1>1. Onward
    BY StatusNext
  <1>2. CASE p \in applied
    <2> DEFINE e == req[p].target
    <2>1. Lasting(p)
      BY <1>2 DEF AppliedOK
    <2>2. req'[p] = req[p] /\ pc'[p] \in {"audit", "answered", "failed"}
      BY <1>2, AppliedStays
    <2>3. expense[e].status = "deleted" => expense'[e] = expense[e] \/ expense'[e].status = "gone"
      BY <2>1, Effect, BlankShape DEF Untouched, Rewritten, Late, Buried, Erased
    <2>4. expense[e].status = "gone" => expense'[e].status = "gone"
      BY <2>1, Effect, BlankShape DEF Untouched, Rewritten, Late, Buried, Erased
    <2> QED
      BY <1>1, <2>1, <2>2, <2>3, <2>4 DEF Onward
  <1>3. CASE p \notin applied
    <2>1. p \in Requests /\ (CreateWithSplits(p) \/ InsertNew(p) \/ SoftDelete(p))
      BY <1>3, NextCases, RivalsStay
      DEF Step, Receive, Authorize, LookUp, ReadRow, ReadSplits, LoadGroup, CreateWithSplits,
          UpdateRow, ClearOld, InsertNew, SoftDelete, RecordAudit, Fail
    <2>2. CASE CreateWithSplits(p)
      <3>1. PICK e \in ExpenseIds :
              /\ expense' = [expense EXCEPT ![e] = LiveRow(req[p].form, req[p].form.image, p)]
              /\ req' = [req EXCEPT ![p] = [@ EXCEPT !.target = e]]
              /\ pc' = [pc EXCEPT ![p] = "audit"]
        BY <1>3, <2>2 DEF CreateWithSplits
      <3>2. req'[p].target = e /\ req'[p].op = "add"
        BY <2>1, <2>2, <3>1, StoredShape DEF CreateWithSplits, TypeOK
      <3>3. expense'[e].status = "live"
        BY <3>1 DEF LiveRow
      <3> QED
        BY <2>1, <3>1, <3>2, <3>3
    <2>3. CASE InsertNew(p)
      <3>1. /\ req'[p] = req[p] /\ req[p].op = "update" /\ req[p].target \in ExpenseIds
            /\ pc'[p] = "audit"
        BY <1>3, <2>1, <2>3, TargetShape DEF InsertNew, StepOK
      <3>2. expense[req[p].target].status # "unused"
        BY <2>1, <2>3, <3>1 DEF InsertNew, ReadOK
      <3> QED
        BY <1>1, <3>1, <3>2 DEF Onward
    <2>4. CASE SoftDelete(p)
      <3>1. /\ req' = req /\ req[p].target \in ExpenseIds /\ req[p].caller \in Users
            /\ pc'[p] \in {"audit", "answered"}
            /\ expense'[req[p].target] = Tombstone(expense[req[p].target], req[p].caller)
            /\ expense[req[p].target] \in Rows
        BY <1>3, <2>1, <2>4, TargetShape DEF SoftDelete
      <3>2. /\ expense'[req[p].target].status = "deleted"
            /\ expense'[req[p].target].deletedBy = req[p].caller
        BY <3>1 DEF Tombstone, Rows
      <3> QED
        BY <3>1, <3>2
    <2> QED
      BY <2>1, <2>2, <2>3, <2>4
  <1> QED
    BY <1>2, <1>3

\* What warrants the report of a request goes on doing so.
LEMMA WarrantStays ==
  ASSUME TypeOK, Onward, AppliedOK', NEW p \in Requests, Warranted(p),
         req'[p] = req[p], req[p].target \in ExpenseIds,
         p \in applied' <=> p \in applied
  PROVE  Warranted(p)'
  BY DEF Warranted, AppliedOK, Onward

\* A request reaches its audit only when what it reports has happened.
LEMMA PendingNext ==
  /\ TypeOK /\ StepOK /\ ReadOK /\ LockOK /\ AppliedOK /\ AuditPendingOK
  /\ [Next]_vars /\ AppliedOK'
  => AuditPendingOK'
  <1> SUFFICES ASSUME TypeOK, StepOK, ReadOK, LockOK, AppliedOK, AuditPendingOK, [Next]_vars,
                      AppliedOK', NEW p \in Requests, pc'[p] = "audit"
               PROVE  Warranted(p)'
    BY DEF AuditPendingOK
  <1> USE Domains DEF Goto
  <1>1. Onward
    BY StatusNext
  <1>2. p \in applied' => Warranted(p)'
    BY DEF Warranted, AppliedOK
  <1>3. CASE ~(Receive(p) \/ Step(p) \/ Fail(p))
    <2>1. pc'[p] = pc[p] /\ req'[p] = req[p]
      BY <1>3, NextCases, OthersStay, RivalsStay
    <2>2. p \in applied' <=> p \in applied
      BY <1>3, NextCases, AppliedOfOthers, RivalsStay
    <2>3. req[p].target \in ExpenseIds /\ Warranted(p)
      BY <2>1 DEF StepOK, AuditPendingOK
    <2> QED
      BY <1>1, <2>1, <2>2, <2>3, WarrantStays
  <1>4. CASE CreateWithSplits(p)
    BY <1>2, <1>4 DEF CreateWithSplits
  <1>5. CASE InsertNew(p) /\ lock[req[p].target] = p
    BY <1>2, <1>5 DEF InsertNew
  <1>6. CASE SoftDelete(p) /\ expense[req[p].target].status = "live"
    BY <1>2, <1>6 DEF SoftDelete
  <1>7. CASE \/ InsertNew(p) /\ lock[req[p].target] # p
             \/ SoftDelete(p) /\ expense[req[p].target].status # "live"
    <2>1. /\ req' = req /\ expense' = expense /\ applied' = applied
          /\ req[p].op \in {"update", "delete"}
          /\ pc[p] \in {"write", "insert"}
      BY <1>7 DEF InsertNew, SoftDelete, StepOK
    <2>2. req[p].target \in ExpenseIds /\ expense[req[p].target] \in Rows
      BY <2>1, TargetShape
    <2>3. expense[req[p].target].status \in {"deleted", "gone"}
      BY <1>7, <2>1, <2>2 DEF InsertNew, SoftDelete, LockOK, ReadOK, Rows
    <2>4. p \notin applied
      BY <2>1 DEF AppliedOK
    <2> QED
      BY <2>1, <2>3, <2>4 DEF Warranted
  <1>8. CASE Receive(p) \/ Fail(p) \/ Authorize(p) \/ LookUp(p) \/ ReadRow(p) \/ ReadSplits(p)
             \/ LoadGroup(p) \/ UpdateRow(p) \/ ClearOld(p) \/ RecordAudit(p)
    BY <1>8 DEF Receive, FirstStep, NewRequests, Fail, Authorize, LookUp, ReadRow, ReadSplits,
       LoadGroup, UpdateRow, ClearOld, RecordAudit
  <1> QED
    BY <1>3, <1>4, <1>5, <1>6, <1>7, <1>8 DEF Step

\* What the audit trail says stays true.
LEMMA AuditNext ==
  /\ TypeOK /\ StepOK /\ LockOK /\ AuditPendingOK /\ AuditIsTrue
  /\ [Next]_vars /\ AppliedOK'
  => AuditIsTrue'
  <1> DEFINE Reports(a, r) ==
        /\ pc[r] = "answered"
        /\ req[r].op = a.action
        /\ req[r].target = a.entity
        /\ req[r].caller = a.actor
        /\ Warranted(r)
  <1> SUFFICES ASSUME TypeOK, StepOK, LockOK, AuditPendingOK, AuditIsTrue, [Next]_vars,
                      AppliedOK', NEW a \in audit'
               PROVE  \E r \in Requests : Reports(a, r)'
    BY DEF AuditIsTrue
  <1>1. Onward
    BY StatusNext
  <1>2. CASE a \in audit
    <2>1. PICK r \in Requests : Reports(a, r)
      BY <1>2 DEF AuditIsTrue
    <2>2. ~(Receive(r) \/ Step(r) \/ Fail(r))
      BY <2>1
      DEF Step, Receive, Authorize, LookUp, ReadRow, ReadSplits, LoadGroup, CreateWithSplits,
          UpdateRow, ClearOld, InsertNew, SoftDelete, RecordAudit, Fail, InFlight
    <2>3. pc'[r] = pc[r] /\ req'[r] = req[r]
      BY <2>2, NextCases, OthersStay, RivalsStay
    <2>4. r \in applied' <=> r \in applied
      BY <2>2, NextCases, AppliedOfOthers, RivalsStay
    <2>5. req[r].target \in ExpenseIds
      BY <1>2, <2>1 DEF TypeOK
    <2>6. Warranted(r)'
      BY <1>1, <2>1, <2>3, <2>4, <2>5, WarrantStays
    <2> QED
      BY <2>1, <2>3, <2>6
  <1>3. CASE a \notin audit
    <2>1. PICK r \in Requests : RecordAudit(r)
      BY <1>3, NextCases, RivalsStay
      DEF Step, Receive, Authorize, LookUp, ReadRow, ReadSplits, LoadGroup, CreateWithSplits,
          UpdateRow, ClearOld, InsertNew, SoftDelete, Fail
    <2>2. /\ a = [action |-> req[r].op, entity |-> req[r].target, actor |-> req[r].caller]
          /\ pc' = [pc EXCEPT ![r] = "answered"]
          /\ UNCHANGED <<req, expense, applied>>
      BY <1>3, <2>1 DEF RecordAudit, Goto
    <2>3. Warranted(r)
      BY <2>1 DEF RecordAudit, AuditPendingOK
    <2>4. Warranted(r)'
      BY <2>2, <2>3 DEF Warranted
    <2>5. pc'[r] = "answered"
      BY <2>2, Domains
    <2> QED
      BY <2>2, <2>4, <2>5
  <1> QED
    BY <1>2, <1>3

\* The invariant holds at the start.
LEMMA InvInit == Init => IInv
  BY TypeInit, BlankShape, NullAssumption
  DEF Init, IInv, ReadOK, LockOK, DoomedOK, SharesOK, ContentOK, AppliedOK, AuditPendingOK,
      OneWholeWrite, NoOrphans, AuditIsTrue

\* The invariant is kept by every step.
LEMMA InvNext == IInv /\ [Next]_vars => IInv'
  BY TypeNext, StepNext, ReadNext, LockNext, DoomedNext, SharesNext, ContentNext, AppliedNext,
     PendingNext, WholeNext, OrphansNext, AuditNext
  DEF IInv

-----------------------------------------------------------------------------
(* Theorems *)

\* Every variable keeps its type.
THEOREM TypeCorrect == Spec => []TypeOK
  <1>1. Init => TypeOK /\ StepOK
    BY TypeInit
  <1>2. (TypeOK /\ StepOK) /\ [Next]_vars => (TypeOK /\ StepOK)'
    BY TypeNext, StepNext
  <1> QED
    BY <1>1, <1>2, PTL DEF Spec

\* The invariant that the properties below follow from is inductive.
THEOREM Invariance == Spec => []IInv
  BY InvInit, InvNext, PTL DEF Spec

\* A live expense always carries the splits and items of exactly one write,
\* the one its payer and amount come from.
THEOREM WholeWrites == Spec => []OneWholeWrite
  <1>1. IInv => OneWholeWrite
    BY DEF IInv
  <1> QED
    BY <1>1, Invariance, PTL

\* The splits of a live expense are those of the body that wrote it last,
\* never more than its amount, and exactly that if the body names nobody twice.
THEOREM Balanced == Spec => []SharesAddUp
  <1>1. IInv => SharesAddUp
    <2> SUFFICES ASSUME ContentOK, NEW e \in ExpenseIds, expense[e].status = "live"
                 PROVE  LET form == req[expense[e].writer].form
                        IN  /\ expense[e].amount = form.amount
                            /\ \A b \in BatchesOf(e) :
                                 /\ b.shares \in Resolved(form)
                                 /\ SumFunction(b.shares) <= expense[e].amount
                                 /\ NamesNobodyTwice(form) => AddsUp(b.shares, expense[e].amount)
      BY DEF IInv, SharesAddUp
    <2> DEFINE f == req[expense[e].writer].form
    <2>1. /\ f \in Forms
          /\ expense[e].amount = f.amount
          /\ \A b \in BatchesOf(e) : b.shares \in Resolved(f)
      BY DEF ContentOK
    <2> HIDE DEF f
    <2>2. ASSUME NEW b \in BatchesOf(e)
          PROVE  /\ SumFunction(b.shares) <= expense[e].amount
                 /\ NamesNobodyTwice(f) => AddsUp(b.shares, expense[e].amount)
      BY <2>1, ResolvedShape
    <2> QED
      BY <2>1, <2>2 DEF f
  <1> QED
    BY <1>1, Invariance, PTL

\* Nothing stored outlives its group or its expense, or names a non-member.
THEOREM NothingOrphaned == Spec => []NoOrphans
  <1>1. IInv => NoOrphans
    BY DEF IInv
  <1> QED
    BY <1>1, Invariance, PTL

\* The audit trail credits nobody with a change that another made: an entry
\* is of a request that changed a live expense, or that came to a deleted one.
THEOREM TrueAudit == Spec => []AuditIsTrue
  <1>1. IInv => AuditIsTrue
    BY DEF IInv
  <1> QED
    BY <1>1, Invariance, PTL

\* No step changes the row of a deleted expense but the one that purges it.
THEOREM TombstonesStay == Spec => TombstoneRowFixed
  <1> DEFINE Fixed == \A e \in ExpenseIds :
                        expense[e].status = "deleted" =>
                          expense'[e] = expense[e] \/ expense'[e].status = "gone"
  <1>1. IInv /\ [Next]_vars => [Fixed]_vars
    <2> SUFFICES ASSUME IInv, [Next]_vars, NEW e \in ExpenseIds, expense[e].status = "deleted"
                 PROVE  expense'[e] = expense[e] \/ expense'[e].status = "gone"
      OBVIOUS
    <2> QED
      BY Effect, BlankShape DEF IInv, Untouched, Rewritten, Late, Buried, Erased
  <1> QED
    BY <1>1, Invariance, PTL DEF Spec, TombstoneRowFixed

-----------------------------------------------------------------------------
(* The store implements ExpenseTable *)

\* The status of an expense tells what kind of entry readers see.
Shaped ==
  \A e \in ExpenseIds :
    /\ expense[e].status = "unused" => EntryOf(e) = Absent
    /\ expense[e].status = "live" => EntryOf(e) \in WholeEntries
    /\ expense[e].status \notin {"unused", "live"} => EntryOf(e) = Removed

\* A reader sees each expense absent, whole, or removed.
LEMMA EntryShape == IInv => Shaped
  <1> SUFFICES ASSUME IInv, NEW e \in ExpenseIds
               PROVE  /\ expense[e].status = "unused" => EntryOf(e) = Absent
                      /\ expense[e].status = "live" => EntryOf(e) \in WholeEntries
                      /\ expense[e].status \notin {"unused", "live"} => EntryOf(e) = Removed
    BY DEF Shaped
  <1>1. ASSUME expense[e].status = "live" PROVE EntryOf(e) \in WholeEntries
    <2>1. PICK b \in batches : BatchesOf(e) = {b}
      BY <1>1 DEF IInv, OneWholeWrite
    <2>2. b = CHOOSE c \in batches : c.expense = e
      BY <2>1 DEF BatchesOf
    <2>3. PICK f \in Forms : /\ expense[e].payer = f.payer
                             /\ expense[e].amount = f.amount
                             /\ b.shares \in Resolved(f)
      <3>1. b \in BatchesOf(e)
        BY <2>1
      <3> QED
        BY <1>1, <3>1 DEF IInv, ContentOK
    <2>4. EntryOf(e) = [payer |-> f.payer, amount |-> f.amount, shares |-> b.shares]
      BY <1>1, <2>2, <2>3 DEF EntryOf
    <2>5. EntryOf(e) \in [payer : {f.payer}, amount : {f.amount}, shares : Resolved(f)]
      BY <2>3, <2>4
    <2> QED
      BY <2>5 DEF WholeEntries
  <1> QED
    BY <1>1 DEF EntryOf

\* A step publishes, replaces or removes the entry, or leaves it.
LEMMA EntryStep ==
  ASSUME IInv, IInv', [Next]_vars, NEW e \in ExpenseIds
  PROVE  \/ EntryOf(e)' = EntryOf(e)
         \/ groupLive /\ EntryOf(e) = Absent /\ EntryOf(e)' \in WholeEntries
         \/ EntryOf(e) \in WholeEntries /\ EntryOf(e)' \in WholeEntries
         \/ EntryOf(e) \in WholeEntries /\ EntryOf(e)' = Removed
  <1>1. /\ expense'[e].status = "unused" => EntryOf(e)' = Absent
        /\ expense'[e].status = "live" => EntryOf(e)' \in WholeEntries
        /\ expense'[e].status \notin {"unused", "live"} => EntryOf(e)' = Removed
    <2>1. Shaped'
      BY EntryShape, PTL
    <2> QED
      BY <2>1 DEF Shaped
  <1>2. expense[e].status \in {"unused", "live", "deleted", "gone"}
    BY DEF IInv, TypeOK, Rows
  <1>3. CASE Untouched(e)
    BY <1>1, <1>2, <1>3, EntryShape DEF Untouched, Shaped
  <1>4. CASE Rewritten(e)
    <2>1. expense'[e].status = "live" /\ groupLive /\ expense[e].status \in {"unused", "live"}
      BY <1>4 DEF Rewritten, LiveRow
    <2> QED
      BY <1>1, <2>1, EntryShape DEF Shaped
  <1>5. CASE Late(e)
    BY <1>1, <1>5, EntryShape DEF Late, Shaped
  <1>6. CASE Buried(e)
    <2>1. expense'[e].status = "deleted" /\ expense[e].status = "live"
      BY <1>6, TombstoneShape DEF Buried, IInv, TypeOK
    <2> QED
      BY <1>1, <2>1, EntryShape DEF Shaped
  <1>7. CASE Erased(e)
    BY <1>1, <1>2, <1>7, EntryShape, BlankShape DEF Erased, Shaped
  <1> QED
    BY <1>3, <1>4, <1>5, <1>6, <1>7, Effect DEF IInv

\* What a step does not touch reads as before.
LEMMA EntryStays ==
  ASSUME NEW e, expense'[e] = expense[e], BatchesOf(e)' = BatchesOf(e)
  PROVE  EntryOf(e)' = EntryOf(e)
  BY DEF EntryOf, BatchesOf

\* A request touches at most one expense.
LEMMA OneTouched ==
  ASSUME TypeOK, StepOK, DoomedOK, NEW r \in Requests, Receive(r) \/ Step(r) \/ Fail(r)
  PROVE  \/ \A e \in ExpenseIds : Untouched(e)
         \/ \E d \in ExpenseIds : \A e \in ExpenseIds : e # d => Untouched(e)
  <1> USE Domains
  <1>1. CASE CreateWithSplits(r)
    <2>1. CASE UNCHANGED <<expense, batches>>
      BY <2>1 DEF Untouched, BatchesOf
    <2>2. ASSUME NEW d \in ExpenseIds,
                 expense' = [expense EXCEPT ![d] = LiveRow(req[r].form, req[r].form.image, r)],
                 batches' = batches \cup {Batch(d, r)}
          PROVE  \A e \in ExpenseIds : e # d => Untouched(e)
      BY <2>2 DEF Untouched, BatchesOf, Batch
    <2> QED
      BY <1>1, <2>1, <2>2 DEF CreateWithSplits
  <1>2. CASE InsertNew(r)
    <2> DEFINE d == req[r].target
    <2>1. d \in ExpenseIds /\ \A b \in doomed[r] : b.expense = d
      BY <1>2, TargetShape DEF InsertNew, StepOK, DoomedOK
    <2>2. \A e \in ExpenseIds : e # d => expense'[e] = expense[e]
      BY <1>2, <2>1 DEF InsertNew
    <2>3. UNCHANGED batches \/ batches' = (batches \ doomed[r]) \cup {Batch(d, r)}
      BY <1>2 DEF InsertNew
    <2>4. Batch(d, r).expense = d
      BY DEF Batch
    <2> HIDE DEF d
    <2>5. \A e \in ExpenseIds : e # d => BatchesOf(e)' = BatchesOf(e)
      BY <2>1, <2>3, <2>4 DEF BatchesOf
    <2> QED
      BY <2>1, <2>2, <2>5 DEF Untouched
  <1>3. CASE SoftDelete(r)
    BY <1>3, TargetShape DEF SoftDelete, Untouched, BatchesOf
  <1>4. CASE UNCHANGED <<expense, batches>>
    BY <1>4 DEF Untouched, BatchesOf
  <1> QED
    BY <1>1, <1>2, <1>3, <1>4
    DEF Receive, Step, Fail, Authorize, LookUp, ReadRow, ReadSplits, LoadGroup, UpdateRow,
        ClearOld, RecordAudit

\* Every step is one of the abstract table, or a stutter.
LEMMA TableStep ==
  ASSUME IInv, IInv', [Next]_vars
  PROVE  [Table!TableNext]_(Table!tvars)
  <1> USE DEF Table!tvars
  <1>1. CASE UNCHANGED groupLive /\ \A e \in ExpenseIds : EntryOf(e)' = EntryOf(e)
    BY <1>1 DEF TableView
  <1>2. ASSUME NEW r \in Requests, Receive(r) \/ Step(r) \/ Fail(r)
        PROVE  [Table!TableNext]_(Table!tvars)
    <2>1. UNCHANGED groupLive
      BY <1>2 DEF Receive, Step, Fail, Authorize, LookUp, ReadRow, ReadSplits, LoadGroup,
         CreateWithSplits, UpdateRow, ClearOld, InsertNew, SoftDelete, RecordAudit
    <2>2. CASE \A e \in ExpenseIds : Untouched(e)
      BY <1>1, <2>1, <2>2, EntryStays DEF Untouched
    <2>3. ASSUME NEW d \in ExpenseIds, \A e \in ExpenseIds : e # d => Untouched(e)
          PROVE  [Table!TableNext]_(Table!tvars)
      <3>1. \A e \in ExpenseIds : e # d => EntryOf(e)' = EntryOf(e)
        BY <2>3, EntryStays DEF Untouched
      <3>2. TableView' = [TableView EXCEPT ![d] = EntryOf(d)']
        BY <3>1 DEF TableView
      <3>3. TableView[d] = EntryOf(d)
        BY DEF TableView
      <3>4. CASE EntryOf(d)' = EntryOf(d)
        BY <1>1, <2>1, <3>1, <3>4
      <3>5. CASE groupLive /\ EntryOf(d) = Absent /\ EntryOf(d)' \in WholeEntries
        BY <2>1, <3>2, <3>3, <3>5 DEF Table!TableNext, Table!Publish
      <3>6. CASE EntryOf(d) \in WholeEntries /\ EntryOf(d)' \in WholeEntries
        BY <2>1, <3>2, <3>3, <3>6 DEF Table!TableNext, Table!Replace
      <3>7. CASE EntryOf(d) \in WholeEntries /\ EntryOf(d)' = Removed
        BY <2>1, <3>2, <3>3, <3>7 DEF Table!TableNext, Table!Remove
      <3> QED
        BY <3>4, <3>5, <3>6, <3>7, EntryStep
    <2> QED
      BY <1>2, <2>2, <2>3, OneTouched DEF IInv
  <1>3. ASSUME DeleteGroup PROVE Table!Close
    <2>1. groupLive /\ ~groupLive'
      BY <1>3 DEF DeleteGroup
    <2>2. ASSUME NEW e \in ExpenseIds
          PROVE  EntryOf(e)' = IF EntryOf(e) = Absent THEN Absent ELSE Removed
      <3>1. EntryOf(e) = Absent <=> expense[e].status = "unused"
        BY EntryShape, TableAssumption DEF Shaped
      <3>2. expense'[e].status = IF expense[e].status = "unused" THEN "unused" ELSE "gone"
        BY <1>3, BlankShape DEF DeleteGroup
      <3> QED
        BY <3>1, <3>2 DEF EntryOf
    <2> QED
      BY <1>3, <2>1, <2>2 DEF Table!Close, TableView, DeleteGroup
  <1>4. ASSUME NEW old \in SUBSET ExpenseIds, Purge(old)
        PROVE  UNCHANGED groupLive /\ \A e \in ExpenseIds : EntryOf(e)' = EntryOf(e)
    <2>1. UNCHANGED groupLive
      BY <1>4 DEF Purge
    <2>2. ASSUME NEW e \in old PROVE EntryOf(e)' = EntryOf(e)
      <3>1. expense[e].status = "deleted" /\ expense'[e].status = "gone"
        BY <1>4, BlankShape DEF Purge
      <3> QED
        BY <3>1 DEF EntryOf
    <2>3. ASSUME NEW e \in ExpenseIds \ old PROVE EntryOf(e)' = EntryOf(e)
      BY <1>4, EntryStays DEF Purge, BatchesOf
    <2> QED
      BY <2>1, <2>2, <2>3
  <1>5. CASE UNCHANGED <<groupLive, expense, batches>>
    BY <1>1, <1>5, EntryStays DEF BatchesOf
  <1> QED
    BY <1>1, <1>2, <1>3, <1>4, <1>5, NextCases DEF Table!TableNext, AddMember, Idle, vars

\* Readers of the balances see each expense appear whole, be replaced as a
\* whole, and never come back: Expenses implements ExpenseTable.
THEOREM Refinement == Spec => ImplementsTable
  <1>1. Init => Table!TableInit
    BY BlankShape DEF Init, Table!TableInit, TableView, EntryOf
  <1>2. IInv /\ IInv' /\ [Next]_vars => [Table!TableNext]_(Table!tvars)
    BY TableStep
  <1> QED
    BY <1>1, <1>2, Invariance, PTL DEF Spec, ImplementsTable, Table!TableSpec

=============================================================================
