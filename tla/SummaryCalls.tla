---------------------------- MODULE SummaryCalls ----------------------------
(***************************************************************************)
(* One caller of Summary, next to those of the split and the import: it     *)
(* looks at the home screen of a user, or at the feed.                     *)
(***************************************************************************)
EXTENDS ImportCalls, Summary

CONSTANTS Homes,        \* lists of groups that make up a home screen
          Feeds         \* what a reader asks of the feed, with its groups

\* Expenses are by and for members, payments between members.
GroupOK(g) ==
  /\ IsFiniteSet(g.members) /\ g.members \subseteq Nat
  /\ IsFiniteSet(g.expenses) /\ IsFiniteSet(g.settlements)
  /\ \A x \in g.expenses : /\ x.payer \in g.members /\ x.amount \in Int
                           /\ DOMAIN x.shares \subseteq g.members
                           /\ \A u \in DOMAIN x.shares : x.shares[u] \in Int
  /\ \A s \in g.settlements :
       s.from \in g.members /\ s.to \in g.members /\ s.amount \in Int

HistoryOK(g) ==
  /\ IsFiniteSet(g.expenses) /\ IsFiniteSet(g.settlements) /\ IsFiniteSet(g.comments)
  /\ \A row \in g.expenses \cup g.settlements \cup g.comments : row.date \in Int

ASSUME SummaryAssumption ==
  /\ maxEvents \in Nat
  /\ \A home \in Homes : IsFiniteSet(Range(home)) /\ \A g \in Range(home) : GroupOK(g)
  /\ \A f \in Feeds : IsFiniteSet(f.groups) /\ \A g \in f.groups : HistoryOK(g)

HomeCalls == [method : {"home"}, groups : Homes]
FeedCalls == {[method |-> "feed", reader |-> f.reader, lastSeen |-> f.lastSeen,
               query |-> f.query, groups |-> f.groups] : f \in Feeds}

AskSummary ==
  /\ call = Idle
  /\ call' \in HomeCalls \cup FeedCalls
  /\ UNCHANGED result

SummaryNext == ImportNext \/ AskSummary
SummarySpec == SplitInit /\ [][SummaryNext]_splitVars

-----------------------------------------------------------------------------
\* The home screen, which adds up balances in code of its own, shows the
\* balances that the debts of a group are made from (CalculateGroupDebts).
\* Where these cancel out, as they do when all splits add up, it agrees with
\* the debts themselves: what a user is owed and owes in a currency is what
\* the groups of that currency list for the user.  The net is always the
\* difference of the two (GetHomeSummary).
HomeAgreesWithDebts ==
  call.method = "home" =>
    LET groups == Range(call.groups)
        net == [g \in groups |-> NetBalances(g.members, g.expenses, g.settlements)]
        owed(g, u) == SumFunction([v \in g.members |-> Owed(net[g], v, u)])
        owes(g, u) == SumFunction([v \in g.members |-> Owed(net[g], u, v)])
        cancelsOut(g) == SumFunction(net[g]) = 0
    IN  \A u \in UNION {g.members : g \in groups} :
          LET mine == {g \in groups : u \in g.members}
              home == GetHomeSummary(u, mine)
          IN  /\ \A g \in mine :
                   /\ home.yourBalance[g] = net[g][u]
                   /\ cancelsOut(g) => home.yourBalance[g] = owed(g, u) - owes(g, u)
              /\ \A c \in {g.currency : g \in mine} :
                   LET gs == {g \in mine : g.currency = c}
                       overall == home.overall[c]
                   IN  /\ overall.net = SumFunction([g \in gs |-> net[g][u]])
                       /\ overall.net = overall.owed - overall.owe
                       /\ (\A g \in gs : cancelsOut(g)) =>
                             /\ overall.owed = SumFunction([g \in gs |-> owed(g, u)])
                             /\ overall.owe = SumFunction([g \in gs |-> owes(g, u)])

\* A page of the feed leaves nothing out that is newer than something it
\* shows, and nothing at all while it has room, also when it answers a search
\* ("a search reaches the user's full history"); a comment is shown below
\* something that is in the feed; a feed that fits a page shows as many
\* unread events as the badge counts; and a reader who has seen everything
\* has no badge (GetActivity, GetUnreadActivityCount).
FeedIsCoherent ==
  call.method = "feed" =>
    LET all == buildActivityEvents(call.reader, call.lastSeen, call.groups)
        matched == {e \in all : call.query \in {"", e.title}}
    IN  /\ \A page \in GetActivity(call.reader, call.lastSeen, call.groups, call.query) :
             LET shown == Range(page)
             IN  /\ shown \subseteq matched
                 /\ \A e \in matched \ shown :
                      Len(page) = maxEvents /\ \A f \in shown : f.date >= e.date
                 /\ shown = all =>
                      Cardinality({e \in shown : e.unread})
                        = GetUnreadActivityCount(call.reader, call.lastSeen, call.groups)
        /\ \A e \in all : e.type = "comment" =>
             \E f \in all : f.type = e.parent.type /\ f.id = e.id /\ f.title = e.parent.title
        /\ \A seen \in {e.date : e \in all} :
             (\A e \in all : e.date <= seen) =>
               GetUnreadActivityCount(call.reader, seen, call.groups) = 0

=============================================================================
