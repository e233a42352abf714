------------------------------ MODULE Contents ------------------------------
(***************************************************************************)
(* What groups contain, and what becomes of it when a group goes: comments *)
(* (internal/service/comment_service.go), receipt images and their storage *)
(* (receipt_service.go, storage_service.go), the import of a history       *)
(* (import_service.go) and the deletion of a group (group_service.go).     *)
(* Expenses and payments come and go as Expenses and Settlements have it;  *)
(* here they are entries, without amounts, and any member may change one.  *)
(*                                                                         *)
(* A transaction is one step or none, but for the deletion of a group: the *)
(* rows it has deleted stay in sight, and locked, until it commits, and a  *)
(* payment, whose group has no foreign key, may be made in the meantime.    *)
(* What else is committed meanwhile a foreign key turns into its failure.   *)
(***************************************************************************)
EXTENDS Groups

CONSTANTS
  Entries,              \* ids the sequences hand out (a bound)
  Comments,             \* ids of comments (a bound)
  Images,               \* storage paths of one behaviour (a bound)
  NoEntry, NoComment, NoImage

ASSUME ContentsAssumption ==
  NoEntry \notin Entries /\ NoComment \notin Comments /\ NoImage \notin Images

VARIABLES
  entry,                \* expenses and settlements: the row of each
  comment,              \* comments
  image,                \* the objects in storage
  now,                  \* the clock, which Retention moves
  paths,                \* the image paths a call has yet to delete
  base,                 \* no variable of the code: what was live when an
                        \* import was asked for
  erasing,              \* the rows a deletion under way has deleted and locked
  audit                 \* audit_logs

contentVars == <<entry, comment, image, now, paths, base, erasing, audit>>
contentsVars == <<groupVars, contentVars>>

-----------------------------------------------------------------------------
(* Data *)

\* named: no column; all the images the entry has had.
EntryRows ==
  [status : {"unused", "live", "deleted", "gone"}, kind : {"expense", "settlement"},
   group : Groups \cup {NoGroup}, image : Images \cup {NoImage}, named : SUBSET Images,
   deletedAt : Nat]

UnusedEntry == [status |-> "unused", kind |-> "expense", group |-> NoGroup, image |-> NoImage,
                named |-> {}, deletedAt |-> 0]

NamedBy(i) == {i} \ {NoImage}

NewEntry(kind, g, i) ==
  [status |-> "live", kind |-> kind, group |-> g, image |-> i, named |-> NamedBy(i),
   deletedAt |-> 0]

CommentRows == [status : {"unused", "live", "deleted", "gone"}, on : Entries \cup {NoEntry},
                author : Users \cup {NoUser}]

UnusedComment == [status |-> "unused", on |-> NoEntry, author |-> NoUser]

\* Rows that are there, deleted softly or not.
Stored(e) == entry[e].status \in {"live", "deleted"}
IsComment(c) == comment[c].status \in {"live", "deleted"}

LiveIn(g) == {e \in Entries : entry[e].status = "live" /\ entry[e].group = g}
ExpensesIn(g) == {e \in LiveIn(g) : entry[e].kind = "expense"}

Locked(e) == \E w \in Workers : e \in erasing[w]

RowsOf(g) == {e \in Entries : Stored(e) /\ entry[e].group = g}

\* GetExpense finds an expense that was deleted, GetSettlement does not find
\* a payment that was.
Found(e) ==
  \/ entry[e].status = "live"
  \/ entry[e].status = "deleted" /\ entry[e].kind = "expense"

\* All the tables a transaction erases for an entry.
Erased(es) ==
  [e \in Entries |-> IF e \in es THEN [entry[e] EXCEPT !.status = "gone"] ELSE entry[e]]
WithoutCommentsOn(es) ==
  [c \in Comments |-> IF comment[c].on \in es THEN [comment[c] EXCEPT !.status = "gone"]
                                              ELSE comment[c]]

ContentCall(op, g, e, c, i) ==
  [op : {op}, user : Users, group : g, entry : e, comment : c, image : i]

ContentCalls ==
  ContentCall("scan", {NoGroup}, {NoEntry}, {NoComment}, {NoImage})
    \cup ContentCall("add", Groups, {NoEntry}, {NoComment}, Images \cup {NoImage})
    \cup ContentCall("settle", Groups, {NoEntry}, {NoComment}, {NoImage})
    \cup ContentCall("edit", {NoGroup}, Entries, {NoComment}, Images \cup {NoImage})
    \cup ContentCall("remove", {NoGroup}, Entries, {NoComment}, {NoImage})
    \cup ContentCall("comment", {NoGroup}, Entries, {NoComment}, {NoImage})
    \cup ContentCall("uncomment", {NoGroup}, {NoEntry}, Comments, {NoImage})
    \cup ContentCall("import", Groups, {NoEntry}, {NoComment}, {NoImage})
    \cup ContentCall("delete", Groups, {NoEntry}, {NoComment}, {NoImage})

\* A call about an entry, once it has found it.
FoundCalls(op) == ContentCall(op, Groups, Entries, {NoComment}, Images \cup {NoImage})

FirstOf == [scan |-> "upload", add |-> "authorize", settle |-> "authorize", edit |-> "find",
            remove |-> "find", comment |-> "find", uncomment |-> "find_comment",
            import |-> "check_import", delete |-> "check_creator"]

AfterAuthorize == [add |-> "insert_expense", settle |-> "insert_settlement",
                   edit |-> "read_image", remove |-> "soft_delete", comment |-> "insert_comment"]

\* The end of a call that keeps something for itself.
Leave(w) ==
  /\ Finish(w)
  /\ paths' = [paths EXCEPT ![w] = {}]
  /\ base' = [base EXCEPT ![w] = {}]
  /\ erasing' = [erasing EXCEPT ![w] = {}]

-----------------------------------------------------------------------------
ContentsInit ==
  /\ GroupsInit
  /\ entry = [e \in Entries |-> UnusedEntry]
  /\ comment = [c \in Comments |-> UnusedComment]
  /\ image = [i \in Images |-> "unused"]
  /\ now = 0
  /\ paths = [w \in Workers |-> {}]
  /\ base = [w \in Workers |-> {}]
  /\ erasing = [w \in Workers |-> {}]
  /\ audit = {}

\* Clients name rows and images they have heard of.
AcceptContentCall(w) ==
  /\ Free(w)
  /\ \E c \in ContentCalls :
       /\ c.op \in mix.ops
       /\ c.group # NoGroup => group[c.group].status # "unused"
       /\ c.entry # NoEntry => entry[c.entry].status # "unused"
       /\ c.comment # NoComment => comment[c.comment].status # "unused"
       /\ c.image # NoImage => image[c.image] # "unused"
       /\ call' = [call EXCEPT ![w] = c]
       /\ Goto(w, FirstOf[c.op])
       /\ base' = [base EXCEPT ![w] = IF c.op = "import" THEN LiveIn(c.group) ELSE {}]
  /\ UNCHANGED <<mix, group, members, given, entry, comment, image, now, paths, erasing,
                 audit>>

\* The tables once the deletion of a group has committed.
EraseAll(w) ==
  LET g == call[w].group
  IN  /\ group' = [group EXCEPT ![g].status = IF @ = "live" THEN "gone" ELSE @]
      /\ members' = [members EXCEPT ![g] = {}]
      /\ entry' = Erased(erasing[w])
      /\ comment' = WithoutCommentsOn(erasing[w])

-----------------------------------------------------------------------------
(* Slips, none of them the code's. *)

\* The images are deleted whether or not the transaction went through.
EraseOrNot(w) ==
  /\ pc[w] = "erase_group"
  /\ \/ EraseAll(w)
     \/ UNCHANGED <<group, members, entry, comment>>
  /\ erasing' = [erasing EXCEPT ![w] = {}]
  /\ Goto(w, "clean")
  /\ UNCHANGED <<mix, given, call, image, now, paths, base, audit>>

\* Only expenses make a group count as not empty.
ReadNoSettlements(w) ==
  /\ pc[w] = "read_settlements"
  /\ Goto(w, "rows")
  /\ UNCHANGED <<mix, group, members, given, call, contentVars>>

\* The membership in the group of the entry is not looked at.
AuthorizeAnybody(w) ==
  /\ pc[w] = "authorize"
  /\ IF call[w].group \in LiveGroups
     THEN Goto(w, AfterAuthorize[call[w].op]) /\ UNCHANGED call
     ELSE Finish(w)
  /\ UNCHANGED <<mix, group, members, given, contentVars>>

\* No foreign key asks for the group of an expense.
InsertIntoAnything(w) ==
  /\ pc[w] = "insert_expense"
  /\ \E e \in Entries :
       /\ entry[e].status = "unused"
       /\ entry' = [entry EXCEPT ![e] = NewEntry("expense", call[w].group, call[w].image)]
  /\ Finish(w)
  /\ UNCHANGED <<mix, group, members, given, comment, image, now, paths, base, erasing, audit>>

-----------------------------------------------------------------------------
(* Receipts *)

\* ParseReceipt, after the scan itself, uploads the image under a fresh path.
Upload(w) ==
  /\ pc[w] = "upload"
  /\ \E i \in Images : image[i] = "unused" /\ image' = [image EXCEPT ![i] = "stored"]
  /\ Finish(w)
  /\ UNCHANGED <<mix, group, members, given, entry, comment, now, paths, base, erasing, audit>>

-----------------------------------------------------------------------------
(* Entries *)

\* GetExpense or GetSettlement, which tells the group of the entry.
Find(w) ==
  /\ pc[w] = "find"
  /\ LET e == call[w].entry
     IN  IF Found(e)
         THEN /\ call' = [call EXCEPT ![w].group = entry[e].group]
              /\ Goto(w, "authorize")
         ELSE Finish(w)
  /\ UNCHANGED <<mix, group, members, given, contentVars>>

\* authorizeGroupAccess, by VerifyMembership.
Authorize(w) ==
  /\ pc[w] = "authorize"
  /\ IF isMember(call[w].user, call[w].group)
     THEN Goto(w, AfterAuthorize[call[w].op]) /\ UNCHANGED call
     ELSE Finish(w)
  /\ UNCHANGED <<mix, group, members, given, contentVars>>

\* Refused by the foreign key once the group has gone.
InsertExpense(w) ==
  /\ pc[w] = "insert_expense"
  /\ \/ \E e \in Entries :
          /\ entry[e].status = "unused"
          /\ call[w].group \in LiveGroups
          /\ entry' = [entry EXCEPT ![e] = NewEntry("expense", call[w].group, call[w].image)]
     \/ call[w].group \notin LiveGroups /\ UNCHANGED entry
  /\ Finish(w)
  /\ UNCHANGED <<mix, group, members, given, comment, image, now, paths, base, erasing, audit>>

\* No foreign key asks for the group.
InsertSettlement(w) ==
  /\ pc[w] = "insert_settlement"
  /\ \E e \in Entries :
       /\ entry[e].status = "unused"
       /\ entry' = [entry EXCEPT ![e] = NewEntry("settlement", call[w].group, NoImage)]
  /\ Finish(w)
  /\ UNCHANGED <<mix, group, members, given, comment, image, now, paths, base, erasing, audit>>

\* An edit that names no image will write back the one it reads here.
ReadImage(w) ==
  /\ pc[w] = "read_image"
  /\ LET e == call[w].entry
     IN  IF entry[e].status = "live" /\ entry[e].kind = "expense"
         THEN /\ call' = [call EXCEPT ![w].image = IF @ = NoImage THEN entry[e].image ELSE @]
              /\ Goto(w, "update")
         ELSE Finish(w)
  /\ UNCHANGED <<mix, group, members, given, contentVars>>

UpdateImage(w) ==
  /\ pc[w] = "update"
  /\ ~Locked(call[w].entry)
  /\ LET e == call[w].entry
         i == call[w].image
     IN  entry' = IF entry[e].status = "live"
                  THEN [entry EXCEPT ![e].image = i, ![e].named = @ \cup NamedBy(i)]
                  ELSE entry
  /\ Finish(w)
  /\ UNCHANGED <<mix, group, members, given, comment, image, now, paths, base, erasing, audit>>

SoftDelete(w) ==
  /\ pc[w] = "soft_delete"
  /\ ~Locked(call[w].entry)
  /\ LET e == call[w].entry
     IN  entry' = IF entry[e].status = "live"
                  THEN [entry EXCEPT ![e].status = "deleted", ![e].deletedAt = now]
                  ELSE entry
  /\ Finish(w)
  /\ UNCHANGED <<mix, group, members, given, comment, image, now, paths, base, erasing, audit>>

-----------------------------------------------------------------------------
(* Comments *)

\* Refused by the foreign key once the entry has gone, and kept waiting by
\* whoever is erasing it.
InsertComment(w) ==
  /\ pc[w] = "insert_comment"
  /\ ~Locked(call[w].entry)
  /\ LET e == call[w].entry
     IN  \/ \E c \in Comments :
              /\ comment[c].status = "unused"
              /\ Stored(e)
              /\ comment' = [comment EXCEPT ![c] =
                               [status |-> "live", on |-> e, author |-> call[w].user]]
         \/ ~Stored(e) /\ UNCHANGED comment
  /\ Finish(w)
  /\ UNCHANGED <<mix, group, members, given, entry, image, now, paths, base, erasing, audit>>

\* DeleteComment asks for the author only, not for the group.
FindComment(w) ==
  /\ pc[w] = "find_comment"
  /\ LET c == call[w].comment
     IN  IF comment[c].status = "live" /\ comment[c].author = call[w].user
         THEN Goto(w, "delete_comment") /\ UNCHANGED call
         ELSE Finish(w)
  /\ UNCHANGED <<mix, group, members, given, contentVars>>

DeleteComment(w) ==
  /\ pc[w] = "delete_comment"
  /\ ~Locked(comment[call[w].comment].on)
  /\ LET c == call[w].comment
     IN  comment' = IF comment[c].status = "live"
                    THEN [comment EXCEPT ![c].status = "deleted"]
                    ELSE comment
  /\ Finish(w)
  /\ UNCHANGED <<mix, group, members, given, entry, image, now, paths, base, erasing, audit>>

-----------------------------------------------------------------------------
(* Import: the group is asked for three times, then the rows come one by one *)

CheckImport(w) ==
  /\ pc[w] = "check_import"
  /\ IF isMember(call[w].user, call[w].group)
     THEN Goto(w, "read_expenses") /\ UNCHANGED <<call, paths, base, erasing>>
     ELSE Leave(w)
  /\ UNCHANGED <<mix, group, members, given, entry, comment, image, now, audit>>

ReadExpenses(w) ==
  /\ pc[w] = "read_expenses"
  /\ IF ExpensesIn(call[w].group) = {}
     THEN Goto(w, "read_settlements") /\ UNCHANGED <<call, paths, base, erasing>>
     ELSE Leave(w)
  /\ UNCHANGED <<mix, group, members, given, entry, comment, image, now, audit>>

ReadSettlements(w) ==
  /\ pc[w] = "read_settlements"
  /\ IF LiveIn(call[w].group) \subseteq ExpensesIn(call[w].group)
     THEN Goto(w, "rows") /\ UNCHANGED <<call, paths, base, erasing>>
     ELSE Leave(w)
  /\ UNCHANGED <<mix, group, members, given, entry, comment, image, now, audit>>

\* A row that fails is counted and passed over: how many rows there are, and
\* which of them fail, is left open.
ImportRow(w) ==
  /\ pc[w] = "rows"
  /\ call[w].group \in LiveGroups
  /\ \E e \in Entries :
       /\ entry[e].status = "unused"
       /\ entry' = [entry EXCEPT ![e] = NewEntry("expense", call[w].group, NoImage)]
  /\ UNCHANGED <<groupVars, comment, image, now, paths, base, erasing, audit>>

\* recordAudit may fail, which nobody hears of.
ImportDone(w) ==
  /\ pc[w] = "rows"
  /\ \/ audit' = audit \cup {[action |-> "imported", user |-> call[w].user,
                              group |-> call[w].group]}
     \/ UNCHANGED audit
  /\ Leave(w)
  /\ UNCHANGED <<mix, group, members, given, entry, comment, image, now>>

-----------------------------------------------------------------------------
(* Deleting a group *)

CheckCreator(w) ==
  /\ pc[w] = "check_creator"
  /\ LET g == call[w].group
     IN  IF g \in LiveGroups /\ group[g].creator = call[w].user
         THEN Goto(w, "read_paths") /\ UNCHANGED <<call, paths, base, erasing>>
         ELSE Leave(w)
  /\ UNCHANGED <<mix, group, members, given, entry, comment, image, now, audit>>

ReadPaths(w) ==
  /\ pc[w] = "read_paths"
  /\ paths' = [paths EXCEPT ![w] =
       {i \in Images : \E e \in RowsOf(call[w].group) : entry[e].image = i}]
  /\ Goto(w, "erase")
  /\ UNCHANGED <<mix, group, members, given, call, entry, comment, image, now, base, erasing, audit>>

\* The statements up to the one that deletes the payments; rows another
\* deletion has locked are waited for.
EraseRows(w) ==
  /\ pc[w] = "erase"
  /\ LET es == RowsOf(call[w].group)
     IN  /\ \A e \in es : ~Locked(e)
         /\ erasing' = [erasing EXCEPT ![w] = es]
  /\ Goto(w, "erase_group")
  /\ UNCHANGED <<mix, group, members, given, call, entry, comment, image, now, paths, base,
                 audit>>

\* Its last two statements and its commit.  An expense added meanwhile keeps
\* the group, and so everything; a payment added meanwhile is left behind.
\* There may be nothing to erase any more, which is no error.
EraseGroup(w) ==
  /\ pc[w] = "erase_group"
  /\ \/ /\ \E e \in RowsOf(call[w].group) \ erasing[w] : entry[e].kind = "expense"
        /\ Leave(w)
        /\ UNCHANGED <<group, members, entry, comment>>
     \/ /\ \A e \in RowsOf(call[w].group) \ erasing[w] : entry[e].kind = "settlement"
        /\ EraseAll(w)
        /\ erasing' = [erasing EXCEPT ![w] = {}]
        /\ Goto(w, "clean")
        /\ UNCHANGED <<call, paths, base>>
  /\ UNCHANGED <<mix, given, image, now, audit>>

\* Images go one by one; storage that fails is only logged.
CleanImage(w) ==
  /\ pc[w] = "clean"
  /\ \E i \in paths[w] :
       /\ paths' = [paths EXCEPT ![w] = @ \ {i}]
       /\ image' \in {image, [image EXCEPT ![i] = "removed"]}
  /\ UNCHANGED <<groupVars, entry, comment, now, base, erasing, audit>>

Cleaned(w) ==
  /\ pc[w] = "clean"
  /\ paths[w] = {}
  /\ \/ audit' = audit \cup {[action |-> "group_deleted", user |-> call[w].user,
                              group |-> call[w].group]}
     \/ UNCHANGED audit
  /\ Leave(w)
  /\ UNCHANGED <<mix, group, members, given, entry, comment, image, now>>

-----------------------------------------------------------------------------
\* A query fails, the client goes away, or the server dies.
FailContent(w) ==
  /\ pc[w] # "idle"
  /\ Leave(w)
  /\ UNCHANGED <<mix, group, members, given, entry, comment, image, now, audit>>

EntryStep(w) ==
  \/ Upload(w) \/ Find(w) \/ Authorize(w) \/ InsertExpense(w) \/ InsertSettlement(w)
  \/ ReadImage(w) \/ UpdateImage(w) \/ SoftDelete(w)
  \/ InsertComment(w) \/ FindComment(w) \/ DeleteComment(w)

ImportStep(w) ==
  CheckImport(w) \/ ReadExpenses(w) \/ ReadSettlements(w) \/ ImportRow(w) \/ ImportDone(w)

DeleteStep(w) ==
  CheckCreator(w) \/ ReadPaths(w) \/ EraseRows(w) \/ EraseGroup(w) \/ CleanImage(w) \/ Cleaned(w)

ContentsNext ==
  \E w \in Workers :
    \/ (AcceptGroupCall(w) \/ GroupStep(w)) /\ UNCHANGED contentVars
    \/ AcceptContentCall(w) \/ EntryStep(w) \/ ImportStep(w) \/ DeleteStep(w)
    \/ FailContent(w)

ContentsSpec == ContentsInit /\ [][ContentsNext]_contentsVars

-----------------------------------------------------------------------------
(* Properties *)

ContentCallOK(w) ==
  /\ pc[w] \in {"upload", "find", "find_comment", "check_import", "check_creator"} =>
       call[w] \in ContentCalls /\ FirstOf[call[w].op] = pc[w]
  /\ pc[w] = "authorize" =>
       \/ call[w] \in ContentCalls /\ call[w].op \in {"add", "settle"}
       \/ \E op \in {"edit", "remove", "comment"} : call[w] \in FoundCalls(op)
  /\ pc[w] \in {"insert_expense", "insert_settlement"} =>
       /\ call[w] \in ContentCalls /\ call[w].op \in {"add", "settle"}
       /\ AfterAuthorize[call[w].op] = pc[w]
  /\ pc[w] \in {"read_image", "update"} => call[w] \in FoundCalls("edit")
  /\ pc[w] = "update" => entry[call[w].entry].kind = "expense"
  /\ pc[w] = "soft_delete" => call[w] \in FoundCalls("remove")
  /\ pc[w] = "insert_comment" => call[w] \in FoundCalls("comment")
  /\ pc[w] = "delete_comment" => call[w] \in ContentCalls /\ call[w].op = "uncomment"
  /\ pc[w] \in {"read_expenses", "read_settlements", "rows"} =>
       call[w] \in ContentCalls /\ call[w].op = "import"
  /\ pc[w] \in {"read_paths", "erase", "erase_group", "clean"} =>
       call[w] \in ContentCalls /\ call[w].op = "delete" /\ group[call[w].group].status # "unused"
  /\ paths[w] # {} => pc[w] \in {"erase", "erase_group", "clean"}

\* A call that is past finding its entry knows the entry's group.
KnowsGroup(w) ==
  call[w] \in UNION {FoundCalls(op) : op \in {"edit", "remove", "comment"}} =>
    entry[call[w].entry].status # "unused" /\ entry[call[w].entry].group = call[w].group

\* Only payments outlive their group.
EntriesOK ==
  /\ entry \in [Entries -> EntryRows]
  /\ \A e \in Entries :
       /\ entry[e].status # "unused" => entry[e].group \in Groups
       /\ entry[e].kind = "settlement" => entry[e].named = {}
       /\ NamedBy(entry[e].image) \subseteq entry[e].named
       /\ Stored(e) /\ entry[e].kind = "expense" => entry[e].group \in LiveGroups

CommentsOK ==
  /\ comment \in [Comments -> CommentRows]
  /\ \A c \in Comments : IsComment(c) => comment[c].on \in Entries

\* What a deletion has locked are rows of its group, and nobody else's.
LocksOK ==
  /\ erasing \in [Workers -> SUBSET Entries]
  /\ \A w \in Workers : \A e \in erasing[w] :
       pc[w] = "erase_group" /\ Stored(e) /\ entry[e].group = call[w].group
  /\ \A v, w \in Workers : v # w => erasing[v] \cap erasing[w] = {}

ContentsTypeOK ==
  /\ GroupsTypeOK /\ EntriesOK /\ CommentsOK /\ LocksOK
  /\ image \in [Images -> {"unused", "stored", "removed"}]
  /\ now \in Nat
  /\ paths \in [Workers -> SUBSET Images]
  /\ base \in [Workers -> SUBSET Entries]
  /\ \A w \in Workers : ContentCallOK(w) /\ KnowsGroup(w)

\* A member of the entry's group, unless that has gone and left a payment behind.
Belongs(u, e) ==
  \/ isMember(u, entry[e].group)
  \/ entry[e].kind = "settlement" /\ group[entry[e].group].status = "gone"

\* A comment is on a row that is there, and while the group of the row is, its
\* author is a member: no comment outlives its expense, and a group deleted
\* while one is being written leaves none behind but on a payment it leaves
\* behind too (AddExpenseComment, AddSettlementComment, DeleteGroup).
CommentersBelong ==
  \A c \in Comments : IsComment(c) =>
    Stored(comment[c].on) /\ Belongs(comment[c].author, comment[c].on)

\* An image is deleted from storage only once some expense that had it is gone
\* for good: never because a deletion was asked for that then failed, or that
\* another call overtook ("collected before the DB delete and removed from
\* storage afterward").
ImagesOutliveRows ==
  \A i \in Images : image[i] = "removed" =>
    \E e \in Entries : entry[e].status = "gone" /\ i \in entry[e].named

\* Nothing that was live when an import was asked for is live while it writes
\* its rows: a client that asks again, because the first import failed half
\* way or its answer was late, finds the group not empty.  (Two imports asked
\* for at once may both go on.)
ImportNeverRepeats ==
  \A w \in Workers : pc[w] = "rows" => \A e \in base[w] : entry[e].status # "live"

=============================================================================
