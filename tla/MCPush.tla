------------------------------- MODULE MCPush -------------------------------
(***************************************************************************)
(* Instances of Sessions and Push.                                         *)
(***************************************************************************)
EXTENDS Push, TLC

\* Google's report before and after a move from Mexico to Germany.
MCReports == {[name |-> "Ann", region |-> "MX"], [name |-> "Ann", region |-> "DE"]}

\* Sessions with changing profiles; preferences and devices.
MCMixes == {{"login", "refresh", "logout"}, {"login", "prefs"},
            {"subscribe", "unsubscribe", "notify"}, {"prefs", "subscribe", "notify"}}

MCSymmetry ==
  Permutations(Tokens) \cup Permutations(Workers) \cup Permutations(Endpoints)
    \cup Permutations(Users)

=============================================================================
