----------------------------- MODULE MCSummary -----------------------------
(***************************************************************************)
(* Groups for SummaryCalls: home screens of users in two groups, and feeds *)
(* of one group.                                                           *)
(***************************************************************************)
EXTENDS MCImportMath, SummaryCalls

-----------------------------------------------------------------------------
(* Home screens: an expense in each group, whose splits miss adding up now *)
(* and then, and perhaps a payment in the first; one currency or two.      *)

SplitOf(us) == {s \in [us -> 0 .. 3] : SumFunction(s) = 3} \cup {[u \in us |-> 2]}

ExpensesAmong(us) ==
  {[id |-> 1, payer |-> p, amount |-> 3, shares |-> s]
     : p \in us, s \in UNION {SplitOf(vs) : vs \in SUBSET us \ {{}}}}

PaymentsAmong(us) ==
  {s \in [id : {1}, from : us, to : us, amount : {1, 4}] : s.from # s.to}

MCHomes ==
  {<<[id |-> 1, currency |-> "ARS", members |-> {1, 2, 3}, expenses |-> {x}, settlements |-> p],
     [id |-> 2, currency |-> c, members |-> {1, 2}, expenses |-> {y}, settlements |-> {}]>>
     : x \in ExpensesAmong({1, 2, 3}), c \in {"ARS", "EUR"}, y \in ExpensesAmong({1, 2}),
       p \in {{}} \cup {{p} : p \in PaymentsAmong({1, 2, 3})}}

-----------------------------------------------------------------------------
(* Feeds: an expense, a payment and two comments, one on each of them or   *)
(* both on one; the search of a reader who looked at the feed before.      *)

FeedExpenses == [id : {1}, payer : {1, 2}, date : {1, 2}, title : {"food"}, deleted : BOOLEAN]
FeedPayments == [id : {1}, from : {1, 2}, date : {1, 2}, title : {"paid"}, deleted : BOOLEAN]
CommentsOn(type) ==
  [id : {type}, on : {[type |-> type, id |-> 1]}, user : {1, 2}, date : {2, 3},
   title : {"food", "thanks"}, deleted : {FALSE}]

MCFeeds ==
  {[reader |-> 1, lastSeen |-> seen, query |-> q,
    groups |-> {[expenses |-> {x}, settlements |-> {s}, comments |-> {c, d}]}]
     : x \in FeedExpenses, s \in FeedPayments, c \in CommentsOn("expense"),
       d \in CommentsOn("settlement"), seen \in {0, 2}, q \in {"", "food"}}

=============================================================================
