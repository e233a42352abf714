------------------------------ MODULE Sessions ------------------------------
(***************************************************************************)
(* The accounts: login through Google, refresh tokens and their rotation   *)
(* (internal/service/auth_service.go and refresh_token_store.go), and the  *)
(* preferences kept in the same users row.  Calls run concurrently in a    *)
(* fixed number of workers; each query of Postgres or Redis is a step.     *)
(*                                                                         *)
(* A user stands for its email address: the unique index allows one row.   *)
(* Access tokens are stateless and live for minutes: they are left out, and *)
(* any registered user may make an authenticated call.  Prefs is the set of *)
(* categories that reach the user: the master switch and the three flags   *)
(* are always written together.                                            *)
(***************************************************************************)
EXTENDS Integers, FiniteSets

CONSTANTS
  Users,
  Tokens,               \* refresh tokens of one behaviour (a bound)
  Workers,              \* calls under way at once
  Reports,              \* what Google says of an account: name, region
  Categories,           \* kinds of notification
  Mixes,                \* sets of calls clients make in one behaviour (a bound)
  NoUser, NoToken, NoRow, NoReport

VARIABLES
  mix,                  \* the calls of this behaviour
  users,                \* users: the row of each
  token,                \* the refresh tokens in Redis
  call,                 \* the call each worker serves
  pc,                   \* its next step
  row                   \* the users row it has read

accountVars == <<mix, users, token, call, pc, row>>

-----------------------------------------------------------------------------
(* Data *)

Eurozone == {"DE", "FR", "ES", "IT", "NL", "PT", "IE", "AT", "BE", "FI",
             "GR", "LU", "SK", "SI", "EE", "LV", "LT", "CY", "MT", "HR"}

\* A locale without a region, or of a region with no currency, has the default.
currencyFromLocale(region) ==
  CASE region = "BR" -> "BRL"
    [] region = "MX" -> "MXN"
    [] region = "US" -> "USD"
    [] region \in Eurozone -> "EUR"
    [] OTHER -> "ARS"

ProfileOf(report) ==
  [name |-> report.name, currency |-> currencyFromLocale(report.region)]

UserRows == [profile : {ProfileOf(g) : g \in Reports}, prefs : SUBSET Categories]

\* A new row: every flag of the preferences defaults to true.
NewRow(report) == [profile |-> ProfileOf(report), prefs |-> Categories]

ASSUME AccountsAssumption ==
  /\ NoUser \notin Users
  /\ NoToken \notin Tokens
  /\ \A g \in Reports, c \in SUBSET Categories : NoRow # [profile |-> ProfileOf(g), prefs |-> c]

ASSUME WorkersAssumption == IsFiniteSet(Workers)

\* chain is the first token of the session a token continues.
TokenRows == [status : {"unused", "live", "spent"}, chain : Tokens \cup {NoToken},
              user : Users \cup {NoUser}]
Unused == [status |-> "unused", chain |-> NoToken, user |-> NoUser]

Registered == {u \in Users : users[u] # NoRow}

AccountCalls ==
  [op : {"login"}, user : Users, report : Reports, token : {NoToken}, chain : {NoToken},
   prefs : {{}}]
    \cup [op : {"refresh", "logout"}, user : {NoUser}, report : {NoReport}, token : Tokens,
          chain : {NoToken}, prefs : {{}}]
    \cup [op : {"prefs"}, user : Users, report : {NoReport}, token : {NoToken},
          chain : {NoToken}, prefs : SUBSET Categories]

\* A refresh that has consumed its token knows its user and session.
RefreshingCalls ==
  [op : {"refresh"}, user : Users, report : {NoReport}, token : Tokens, chain : Tokens,
   prefs : {{}}]

NullCall == [op |-> "none", user |-> NoUser, report |-> NoReport, token |-> NoToken,
             chain |-> NoToken, prefs |-> {}]

FirstOf == [login |-> "find", refresh |-> "consume", logout |-> "revoke", prefs |-> "set_prefs"]

Goto(w, step) == pc' = [pc EXCEPT ![w] = step]

\* The call is over, answered or failed, and its worker is free.
Finish(w) ==
  /\ Goto(w, "idle")
  /\ call' = [call EXCEPT ![w] = NullCall]
  /\ row' = [row EXCEPT ![w] = NoRow]

-----------------------------------------------------------------------------
AccountsInit ==
  /\ mix \in Mixes
  /\ users \in [Users -> {NoRow} \cup {NewRow(g) : g \in Reports}]
  /\ token = [t \in Tokens |-> Unused]
  /\ call = [w \in Workers |-> NullCall]
  /\ pc = [w \in Workers |-> "idle"]
  /\ row = [w \in Workers |-> NoRow]

\* Clients may present any token they were ever given; preferences are set
\* by registered users.
Accept(w) ==
  /\ pc[w] = "idle"
  /\ \E c \in AccountCalls :
       /\ c.op \in mix
       /\ c.op = "prefs" => c.user \in Registered
       /\ c.token # NoToken => token[c.token].status # "unused"
       /\ call' = [call EXCEPT ![w] = c]
       /\ Goto(w, FirstOf[c.op])
  /\ UNCHANGED <<mix, users, token, row>>

-----------------------------------------------------------------------------
(* Slips: what a careless change could turn a step into.  AccountsNext uses *)
(* none of them; each is a change that one of the properties must notice.   *)

\* The token is looked up, and left for a later statement to delete.
ConsumeByGet(w) ==
  /\ pc[w] = "consume"
  /\ LET t == call[w].token
     IN  IF token[t].status = "live"
         THEN /\ call' = [call EXCEPT ![w].user = token[t].user, ![w].chain = token[t].chain]
              /\ Goto(w, "load_user")
              /\ UNCHANGED row
         ELSE Finish(w)
  /\ UNCHANGED <<mix, users, token>>

\* The successor of a token is not tied to a user.
IssueToNobody(w) ==
  /\ pc[w] = "issue"
  /\ \E t \in Tokens :
       /\ token[t].status = "unused"
       /\ token' = [token EXCEPT ![t] = [status |-> "live", user |-> NoUser,
            chain |-> IF call[w].op = "login" THEN t ELSE call[w].chain]]
  /\ Finish(w)
  /\ UNCHANGED <<mix, users>>

-----------------------------------------------------------------------------
(* Login, once Google has vouched for the address *)

\* Any error of GetByEmail is taken to mean that there is no such user.
FindUser(w) ==
  /\ pc[w] = "find"
  /\ LET u == call[w].user
     IN  \/ /\ users[u] # NoRow
            /\ row' = [row EXCEPT ![w] = users[u]]
            /\ Goto(w, IF users[u].profile = ProfileOf(call[w].report) THEN "issue" ELSE "save")
         \/ /\ Goto(w, "register")
            /\ UNCHANGED row
  /\ UNCHANGED <<mix, users, token, call>>

\* The INSERT, which the unique index refuses when there is a row.
Register(w) ==
  /\ pc[w] = "register"
  /\ LET u == call[w].user
     IN  IF users[u] = NoRow
         THEN /\ users' = [users EXCEPT ![u] = NewRow(call[w].report)]
              /\ Goto(w, "issue")
              /\ UNCHANGED <<call, row>>
         ELSE /\ Finish(w)
              /\ UNCHANGED users
  /\ UNCHANGED <<mix, token>>

\* The profile is refreshed by saving the whole row that was read.
SaveUser(w) ==
  /\ pc[w] = "save"
  /\ users' = [users EXCEPT ![call[w].user] =
                 [row[w] EXCEPT !.profile = ProfileOf(call[w].report)]]
  /\ Goto(w, "issue")
  /\ UNCHANGED <<mix, token, call, row>>

\* RefreshTokenStore.Create, for a login and for a refresh: a fresh random
\* token.  Whether the client hears of it makes no difference to the server.
Issue(w) ==
  /\ pc[w] = "issue"
  /\ \E t \in Tokens :
       /\ token[t].status = "unused"
       /\ token' = [token EXCEPT ![t] = [status |-> "live", user |-> call[w].user,
            chain |-> IF call[w].op = "login" THEN t ELSE call[w].chain]]
  /\ Finish(w)
  /\ UNCHANGED <<mix, users>>

-----------------------------------------------------------------------------
(* Refresh and logout *)

\* Consume is one GETDEL; its answer may be lost, after it took effect.
Consume(w) ==
  /\ pc[w] = "consume"
  /\ LET t == call[w].token
     IN  \/ /\ token[t].status = "live"
            /\ token' = [token EXCEPT ![t].status = "spent"]
            /\ \/ /\ call' = [call EXCEPT ![w].user = token[t].user,
                                          ![w].chain = token[t].chain]
                  /\ Goto(w, "load_user")
                  /\ UNCHANGED row
               \/ Finish(w)
         \/ /\ token[t].status = "spent"
            /\ Finish(w)
            /\ UNCHANGED token
  /\ UNCHANGED <<mix, users>>

LoadUser(w) ==
  /\ pc[w] = "load_user"
  /\ IF call[w].user \in Registered
     THEN Goto(w, "issue") /\ UNCHANGED <<call, row>>
     ELSE Finish(w)
  /\ UNCHANGED <<mix, users, token>>

\* Revoking a token that is not there is no error.
Revoke(w) ==
  /\ pc[w] = "revoke"
  /\ token' = [token EXCEPT ![call[w].token].status = "spent"]
  /\ Finish(w)
  /\ UNCHANGED <<mix, users>>

\* The time to live of a token runs out (or an instance that keeps its tokens
\* in memory restarts).
Expire(t) ==
  /\ token[t].status = "live"
  /\ token' = [token EXCEPT ![t].status = "spent"]
  /\ UNCHANGED <<mix, users, call, pc, row>>

-----------------------------------------------------------------------------
\* UpdatePushPreferences: one UPDATE of the four columns.
SetPushPreferences(w) ==
  /\ pc[w] = "set_prefs"
  /\ users' = [users EXCEPT ![call[w].user].prefs = call[w].prefs]
  /\ Finish(w)
  /\ UNCHANGED <<mix, token>>

\* A query fails, the client goes away, or the server dies.
Fail(w) ==
  /\ pc[w] # "idle"
  /\ Finish(w)
  /\ UNCHANGED <<mix, users, token>>

AccountStep(w) ==
  \/ FindUser(w) \/ Register(w) \/ SaveUser(w) \/ Issue(w)
  \/ Consume(w) \/ LoadUser(w) \/ Revoke(w) \/ SetPushPreferences(w)

AccountsNext ==
  \/ \E w \in Workers : Accept(w) \/ AccountStep(w) \/ Fail(w)
  \/ \E t \in Tokens : Expire(t)

AccountsSpec == AccountsInit /\ [][AccountsNext]_accountVars

-----------------------------------------------------------------------------
(* Properties *)

\* The call of a worker suits its step.
CallOK(w) ==
  /\ pc[w] \in {"find", "register", "save"} => call[w] \in AccountCalls /\ call[w].op = "login"
  /\ pc[w] = "save" => row[w] # NoRow /\ call[w].user \in Registered
  /\ pc[w] \in {"consume", "revoke"} =>
       /\ call[w] \in AccountCalls
       /\ call[w].op \in {"refresh", "logout"}
       /\ token[call[w].token].status # "unused"
  /\ pc[w] = "consume" => call[w].op = "refresh"
  /\ pc[w] = "set_prefs" =>
       call[w] \in AccountCalls /\ call[w].op = "prefs" /\ call[w].user \in Registered
  /\ pc[w] = "load_user" => call[w] \in RefreshingCalls
  /\ pc[w] = "issue" =>
       /\ call[w].user \in Registered
       /\ \/ call[w] \in AccountCalls /\ call[w].op = "login"
          \/ call[w] \in RefreshingCalls

AccountsTypeOK ==
  /\ users \in [Users -> UserRows \cup {NoRow}]
  /\ token \in [Tokens -> TokenRows]
  /\ row \in [Workers -> UserRows \cup {NoRow}]
  /\ DOMAIN call = Workers /\ DOMAIN pc = Workers
  /\ \A w \in Workers : CallOK(w)

Rotating(w) == call[w].chain # NoToken

\* A call that continues a session carries the session's user.
RotatingOK ==
  \A w \in Workers : Rotating(w) =>
    /\ pc[w] \in {"load_user", "issue"}
    /\ call[w].chain \in Tokens
    /\ token[call[w].chain].status # "unused"
    /\ call[w].user = token[call[w].chain].user

\* A session has at most one token that can still be exchanged, the right to
\* a successor included: of two clients that present the same token, or of a
\* client that repeats its call, one at most goes on (GETDEL in Consume).
RotationOnce ==
  /\ \A s, t \in Tokens :
       token[s].status = "live" /\ token[t].status = "live" /\ token[s].chain = token[t].chain
         => s = t
  /\ \A w \in Workers : Rotating(w) =>
       \A t \in Tokens : token[t].status = "live" => token[t].chain # call[w].chain
  /\ \A v, w \in Workers : Rotating(v) /\ Rotating(w) /\ call[v].chain = call[w].chain => v = w

\* Every token of a session is its user's: rotation never hands the session
\* to somebody else, and never to a user without a row (RefreshToken).
SessionKeepsUser ==
  \A t \in Tokens : token[t].status # "unused" =>
    /\ token[t].user \in Registered
    /\ token[t].chain \in Tokens
    /\ token[token[t].chain].status # "unused"
    /\ token[t].user = token[token[t].chain].user

=============================================================================
