------------------------------ MODULE Summary ------------------------------
(***************************************************************************)
(* The home screen and the activity feed (internal/service/                *)
(* summary_service.go), both computed from what the tables hold when they  *)
(* are asked for.  Records look as they do in Balances; expenses, payments *)
(* and comments also carry an id, a date and a title, a name standing for   *)
(* what a search finds in it.  Names, emojis and shares of an event are    *)
(* left out.                                                               *)
(***************************************************************************)
EXTENDS Integers, Sequences, FiniteSets, SequencesExt

CONSTANTS maxEvents, NoParent

-----------------------------------------------------------------------------
(* Pages *)

NewestFirst(events) ==
  {s \in SetToSeqs(events) : \A i \in 1 .. Len(s) - 1 : s[i].date >= s[i + 1].date}

Page(s) == SubSeq(s, 1, IF Len(s) > maxEvents THEN maxEvents ELSE Len(s))

\* Slips, neither of them the code's: a payment is seen only by who made it;
\* the search looks at the page and not at the history.
userNetOneSided(u, expenses, settlements) ==
  SumFunction([x \in expenses |-> (IF x.payer = u THEN x.amount ELSE 0)
                                    - (IF u \in DOMAIN x.shares THEN x.shares[u] ELSE 0)])
    + SumFunction([s \in settlements |-> IF s.from = u THEN s.amount ELSE 0])

ActivityPagesOfPage(events, query) ==
  {SelectSeq(Page(s), LAMBDA e : query = "" \/ e.title = query) : s \in NewestFirst(events)}

-----------------------------------------------------------------------------
(* The home screen *)

userNet(u, expenses, settlements) ==
  SumFunction([x \in expenses |-> (IF x.payer = u THEN x.amount ELSE 0)
                                    - (IF u \in DOMAIN x.shares THEN x.shares[u] ELSE 0)])
    + SumFunction([s \in settlements |-> (IF s.from = u THEN s.amount ELSE 0)
                                           - (IF s.to = u THEN s.amount ELSE 0)])

\* groups: the groups u is a member of, with their live expenses and
\* settlements.  One total per currency.
GetHomeSummary(u, groups) ==
  LET net == [g \in groups |-> userNet(u, g.expenses, g.settlements)]
      of(c) == {g \in groups : g.currency = c}
      owed(c) == {g \in of(c) : net[g] > 0}
      sum(gs) == SumFunction([g \in gs |-> net[g]])
  IN  [yourBalance |-> net,
       overall |-> [c \in {g.currency : g \in groups} |->
                      [net |-> sum(of(c)), owed |-> sum(owed(c)),
                       owe |-> -sum(of(c) \ owed(c))]]]

-----------------------------------------------------------------------------
(* The feed *)

\* Deleted expenses stay in the feed, with their comments; deleted payments
\* go, and with them their comments.  key tells apart the events of two
\* comments on one parent.
EventsOf(g) ==
  LET payments == {s \in g.settlements : ~s.deleted}
      comments == {c \in g.comments : ~c.deleted}
      parents == {[type |-> "expense", row |-> x] : x \in g.expenses}
                   \cup {[type |-> "settlement", row |-> s] : s \in payments}
      event(type, id, key, row, actor, deleted, parent) ==
        [type |-> type, id |-> id, key |-> key, actor |-> actor, date |-> row.date,
         title |-> row.title, deleted |-> deleted, parent |-> parent, unread |-> FALSE]
  IN  {event("expense", x.id, x.id, x, x.payer, x.deleted, NoParent) : x \in g.expenses}
        \cup {event("settlement", s.id, s.id, s, s.from, FALSE, NoParent) : s \in payments}
        \cup {event("comment", pair[2].row.id, pair[1].id, pair[1], pair[1].user, FALSE,
                    [type |-> pair[2].type, title |-> pair[2].row.title])
                : pair \in {pair \in comments \X parents :
                              pair[1].on = [type |-> pair[2].type, id |-> pair[2].row.id]}}

buildActivityEvents(u, lastSeen, groups) ==
  {[e EXCEPT !.unread = e.date > lastSeen /\ e.actor # u] : e \in UNION {EventsOf(g) : g \in groups}}

\* The pages a reader may be shown: events of one date come in any order.
ActivityPages(events, query) ==
  LET matched == {e \in events : query = "" \/ e.title = query}
  IN  {Page(s) : s \in NewestFirst(matched)}

GetActivity(u, lastSeen, groups, query) ==
  ActivityPages(buildActivityEvents(u, lastSeen, groups), query)

GetUnreadActivityCount(u, lastSeen, groups) ==
  Cardinality({e \in buildActivityEvents(u, lastSeen, groups) : e.unread})

=============================================================================
