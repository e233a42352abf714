----------------------------- MODULE PushProofs -----------------------------
(***************************************************************************)
(* Proofs about Sessions and Push, for any number of users, tokens, calls  *)
(* under way, endpoints and notifications, and for any cap.                *)
(***************************************************************************)
EXTENDS Push, FiniteSetTheorems, TLAPS

-----------------------------------------------------------------------------
(* The shape of the data *)

\* The call of an idle worker names nobody and no session.
LEMMA NullShape ==
  /\ NullCall.op = "none" /\ NullCall.chain = NoToken /\ NullCall.user = NoUser
  /\ NullCall.token = NoToken
  BY DEF NullCall

\* What a call to Sessions carries, by its kind.
LEMMA AccountCallShape ==
  ASSUME NEW c \in AccountCalls
  PROVE  /\ c.chain = NoToken
         /\ c.op \in {"login", "refresh", "logout", "prefs"}
         /\ c.op = "login" => c.user \in Users /\ c.report \in Reports
         /\ c.op \in {"refresh", "logout"} => c.token \in Tokens
         /\ c.op = "prefs" => c.user \in Users /\ c.prefs \in SUBSET Categories
  BY DEF AccountCalls

\* What a call about subscriptions carries.
LEMMA PushCallShape ==
  ASSUME NEW c \in PushCalls
  PROVE  /\ c.chain = NoToken /\ c.op \in {"subscribe", "unsubscribe"}
         /\ c.user \in Users /\ c.endpoint \in Endpoints
  BY DEF PushCalls

\* A refresh past its GETDEL carries a user and a session.
LEMMA RefreshingShape ==
  ASSUME NEW c \in RefreshingCalls
  PROVE  c.op = "refresh" /\ c.user \in Users /\ c.chain \in Tokens /\ c.chain # NoToken
  BY AccountsAssumption DEF RefreshingCalls

\* A refresh that has consumed its token.
LEMMA ConsumedShape ==
  ASSUME NEW c \in AccountCalls, c.op = "refresh", NEW u \in Users, NEW t \in Tokens
  PROVE  /\ [c EXCEPT !.user = u, !.chain = t] \in RefreshingCalls
         /\ [c EXCEPT !.user = u, !.chain = t].user = u
         /\ [c EXCEPT !.user = u, !.chain = t].chain = t
  <1>1. c \in [op : {"refresh"}, user : {NoUser}, report : {NoReport}, token : Tokens,
               chain : {NoToken}, prefs : {{}}]
    BY DEF AccountCalls
  <1> QED
    BY <1>1 DEF RefreshingCalls

\* The row of a new user is a row.
LEMMA NewRowShape ==
  ASSUME NEW g \in Reports
  PROVE  /\ NewRow(g) \in UserRows
         /\ NewRow(g) # NoRow
  <1>1. NewRow(g) # NoRow
    BY AccountsAssumption DEF NewRow
  <1> QED
    BY <1>1 DEF NewRow, UserRows

\* Saving a profile, and setting preferences, leaves a row.
LEMMA RowUpdates ==
  ASSUME NEW r \in UserRows
  PROVE  /\ r # NoRow
         /\ \A g \in Reports : [r EXCEPT !.profile = ProfileOf(g)] \in UserRows
         /\ \A c \in SUBSET Categories : [r EXCEPT !.prefs = c] \in UserRows
  <1>1. PICK g \in Reports : r.profile = ProfileOf(g)
    BY DEF UserRows
  <1>2. r = [profile |-> ProfileOf(g), prefs |-> r.prefs] /\ r.prefs \in SUBSET Categories
    BY <1>1 DEF UserRows
  <1>3. r # NoRow
    BY <1>2, AccountsAssumption
  <1> QED
    BY <1>3 DEF UserRows

\* Spending a token changes neither its session nor its user.
LEMMA TokenShape ==
  ASSUME AccountsTypeOK, NEW t \in Tokens
  PROVE  /\ token[t].chain \in Tokens \cup {NoToken}
         /\ token[t].user \in Users \cup {NoUser}
         /\ [token[t] EXCEPT !.status = "spent"] \in TokenRows
         /\ [token[t] EXCEPT !.status = "spent"].status = "spent"
         /\ [token[t] EXCEPT !.status = "spent"].chain = token[t].chain
         /\ [token[t] EXCEPT !.status = "spent"].user = token[t].user
  BY DEF AccountsTypeOK, TokenRows

-----------------------------------------------------------------------------
(* What a step leaves as it was *)

\* The worker of a step is the only one that goes on, and a call that is over
\* leaves nothing behind.
Others(w) ==
  \A v \in Workers \ {w} : pc'[v] = pc[v] /\ call'[v] = call[v] /\ row'[v] = row[v]

Idle(w) == pc'[w] = "idle" /\ call'[w] = NullCall /\ row'[w] = NoRow

\* Ending a call frees its worker and disturbs no other.
LEMMA FinishEffect ==
  ASSUME AccountsTypeOK, NEW w \in Workers, Finish(w)
  PROVE  /\ Idle(w) /\ Others(w)
         /\ DOMAIN call' = Workers /\ DOMAIN pc' = Workers
         /\ row' \in [Workers -> UserRows \cup {NoRow}]
  BY DEF Finish, Goto, Idle, Others, AccountsTypeOK

\* Rows of users stay, and a token that was given keeps its session and user.
Lasting ==
  /\ Registered \subseteq Registered'
  /\ \A t \in Tokens : token[t].status # "unused" =>
       token'[t].status # "unused" /\ token'[t].chain = token[t].chain
         /\ token'[t].user = token[t].user

\* Registered users are those with a row.
LEMMA RegisteredIs ==
  \A u \in Users : u \in Registered <=> users[u] # NoRow
  BY DEF Registered

\* Users stay registered, and a token that was made keeps its session and user.
LEMMA LastingStep == AccountsTypeOK /\ SessionKeepsUser /\ [AccountsNext]_accountVars => Lasting
  <1> SUFFICES ASSUME AccountsTypeOK, SessionKeepsUser, [AccountsNext]_accountVars PROVE Lasting
    OBVIOUS
  <1> USE RegisteredIs DEF Lasting, Registered
  <1>1. ASSUME UNCHANGED users, UNCHANGED token PROVE Lasting
    BY <1>1
  <1>2. ASSUME NEW w \in Workers, Register(w) PROVE Lasting
    <2>1. UNCHANGED token
      BY <1>2 DEF Register
    <2>2. \A u \in Users : users[u] # NoRow => users'[u] # NoRow
      BY <1>2, NewRowShape DEF Register, AccountsTypeOK, CallOK
    <2> QED
      BY <2>1, <2>2
  <1>3. ASSUME NEW w \in Workers, SaveUser(w) PROVE Lasting
    <2>1. call[w].report \in Reports /\ row[w] \in UserRows /\ UNCHANGED token
      BY <1>3, AccountCallShape DEF SaveUser, AccountsTypeOK, CallOK
    <2>2. \A u \in Users : users[u] # NoRow => users'[u] # NoRow
      BY <1>3, <2>1, RowUpdates DEF SaveUser, AccountsTypeOK, CallOK
    <2> QED
      BY <2>1, <2>2
  <1>4. ASSUME NEW w \in Workers, SetPushPreferences(w) PROVE Lasting
    <2>1. /\ call[w].prefs \in SUBSET Categories /\ users[call[w].user] \in UserRows
          /\ UNCHANGED token
      BY <1>4, AccountCallShape DEF SetPushPreferences, AccountsTypeOK, CallOK
    <2>2. \A u \in Users : users[u] # NoRow => users'[u] # NoRow
      BY <1>4, <2>1, RowUpdates DEF SetPushPreferences, AccountsTypeOK, CallOK
    <2> QED
      BY <2>1, <2>2
  <1>5. ASSUME NEW w \in Workers, Issue(w) PROVE Lasting
    BY <1>5 DEF Issue, AccountsTypeOK
  <1>6. ASSUME NEW t \in Tokens, UNCHANGED users,
               token' = [token EXCEPT ![t].status = "spent"]
        PROVE  Lasting
    BY <1>6, TokenShape DEF AccountsTypeOK
  <1>7. ASSUME NEW w \in Workers, Consume(w) PROVE Lasting
    <2>1. call[w].token \in Tokens
      BY <1>7, AccountCallShape DEF Consume, AccountsTypeOK, CallOK
    <2> QED
      BY <1>1, <1>6, <1>7, <2>1 DEF Consume
  <1>8. ASSUME NEW w \in Workers, Revoke(w) PROVE Lasting
    <2>1. call[w].token \in Tokens
      BY <1>8, AccountCallShape DEF Revoke, AccountsTypeOK, CallOK
    <2> QED
      BY <1>6, <1>8, <2>1 DEF Revoke
  <1>9. ASSUME NEW t \in Tokens, Expire(t) PROVE Lasting
    BY <1>6, <1>9 DEF Expire
  <1>10. ASSUME NEW w \in Workers, Accept(w) \/ FindUser(w) \/ LoadUser(w) \/ Fail(w)
         PROVE  Lasting
    BY <1>1, <1>10 DEF Accept, FindUser, LoadUser, Fail
  <1>11. CASE UNCHANGED accountVars
    BY <1>1, <1>11 DEF accountVars
  <1> QED
    BY <1>2, <1>3, <1>4, <1>5, <1>7, <1>8, <1>9, <1>10, <1>11 DEF AccountsNext, AccountStep

-----------------------------------------------------------------------------
(* Type correctness of the accounts *)

\* A step that changes nothing but the call of one worker keeps the calls of
\* the others in order, and a worker that has finished has nothing to keep.
LEMMA OtherCalls ==
  ASSUME NEW w \in Workers, \A v \in Workers : CallOK(v), Lasting, Others(w), CallOK(w)'
  PROVE  \A v \in Workers : CallOK(v)'
  BY AccountCallShape DEF CallOK, Lasting, Others

\* An idle worker's call needs nothing.
LEMMA IdleCall ==
  ASSUME NEW w \in Workers, Idle(w)
  PROVE  CallOK(w)'
  BY DEF CallOK, Idle

\* A worker goes on to another step of the same call.
LEMMA GotoEffect ==
  ASSUME AccountsTypeOK, NEW w \in Workers, NEW step, Goto(w, step), UNCHANGED call,
         row' = row \/ \E r \in UserRows : row' = [row EXCEPT ![w] = r]
  PROVE  /\ Others(w) /\ pc'[w] = step /\ call'[w] = call[w]
         /\ DOMAIN call' = Workers /\ DOMAIN pc' = Workers
         /\ row' \in [Workers -> UserRows \cup {NoRow}]
  BY DEF Goto, Others, AccountsTypeOK

\* Every step of Sessions keeps the types and suits calls to their steps.
LEMMA AccountsTypeStep ==
  AccountsTypeOK /\ SessionKeepsUser /\ RotatingOK /\ [AccountsNext]_accountVars
    => AccountsTypeOK'
  <1> SUFFICES ASSUME AccountsTypeOK, SessionKeepsUser, RotatingOK, [AccountsNext]_accountVars
               PROVE  AccountsTypeOK'
    OBVIOUS
  <1>l. Lasting
    BY LastingStep
  <1>t. ASSUME NEW w \in Workers, Others(w), CallOK(w)', DOMAIN call' = Workers,
               DOMAIN pc' = Workers, row' \in [Workers -> UserRows \cup {NoRow}],
               users' \in [Users -> UserRows \cup {NoRow}], token' \in [Tokens -> TokenRows]
        PROVE  AccountsTypeOK'
    BY <1>l, <1>t, OtherCalls DEF AccountsTypeOK
  <1>f. ASSUME NEW w \in Workers, Finish(w), token' \in [Tokens -> TokenRows],
               users' \in [Users -> UserRows \cup {NoRow}]
        PROVE  AccountsTypeOK'
    BY <1>f, <1>t, FinishEffect, IdleCall
  <1>u. /\ \A u \in Users : u \in Registered => users[u] \in UserRows
        /\ Registered \subseteq Registered'
        /\ users \in [Users -> UserRows \cup {NoRow}]
        /\ token \in [Tokens -> TokenRows]
    BY <1>l, RegisteredIs DEF AccountsTypeOK, Lasting
  <1>1. ASSUME NEW w \in Workers, Accept(w) PROVE AccountsTypeOK'
    <2>1. PICK c \in AccountCalls : /\ c.op = "prefs" => c.user \in Registered
                                    /\ c.token # NoToken => token[c.token].status # "unused"
                                    /\ call' = [call EXCEPT ![w] = c]
                                    /\ pc' = [pc EXCEPT ![w] = FirstOf[c.op]]
      BY <1>1 DEF Accept, Goto
    <2>2. /\ Others(w) /\ call'[w] = c /\ pc'[w] = FirstOf[c.op]
          /\ DOMAIN call' = Workers /\ DOMAIN pc' = Workers
      BY <1>1, <2>1 DEF Others, AccountsTypeOK, Accept
    <2>3. c.op \in {"refresh", "logout"} =>
            c.token \in Tokens /\ token'[c.token].status # "unused"
      BY <1>1, <2>1, AccountCallShape, AccountsAssumption DEF Accept
    <2>4. CallOK(w)'
      BY <1>u, <2>1, <2>2, <2>3, AccountCallShape DEF CallOK, FirstOf
    <2> QED
      BY <1>1, <1>t, <1>u, <2>2, <2>4 DEF Accept, AccountsTypeOK
  <1>2. ASSUME NEW w \in Workers, FindUser(w) PROVE AccountsTypeOK'
    <2>1. call[w] \in AccountCalls /\ call[w].op = "login" /\ call[w].user \in Users
      BY <1>2, AccountCallShape DEF FindUser, AccountsTypeOK, CallOK
    <2>2. CASE /\ users[call[w].user] # NoRow
               /\ row' = [row EXCEPT ![w] = users[call[w].user]]
               /\ \E step \in {"issue", "save"} : Goto(w, step)
      <3>1. users[call[w].user] \in UserRows /\ call[w].user \in Registered
        BY <1>u, <2>1, <2>2, RegisteredIs
      <3>2. /\ Others(w) /\ pc'[w] \in {"issue", "save"} /\ call'[w] = call[w]
            /\ DOMAIN call' = Workers /\ DOMAIN pc' = Workers
            /\ row' \in [Workers -> UserRows \cup {NoRow}]
        BY <1>2, <2>2, <3>1, GotoEffect DEF FindUser
      <3>3. row'[w] # NoRow
        BY <2>2, <3>1, RowUpdates DEF AccountsTypeOK
      <3>4. CallOK(w)'
        BY <1>u, <2>1, <3>1, <3>2, <3>3 DEF CallOK
      <3> QED
        BY <1>2, <1>t, <1>u, <3>2, <3>4 DEF FindUser
    <2>3. CASE Goto(w, "register") /\ UNCHANGED row
      <3>1. CallOK(w)'
        BY <1>2, <2>1, <2>3, GotoEffect DEF CallOK, FindUser
      <3> QED
        BY <1>2, <1>t, <1>u, <2>3, <3>1, GotoEffect DEF FindUser
    <2> QED
      BY <1>2, <2>2, <2>3 DEF FindUser
  <1>3. ASSUME NEW w \in Workers, Register(w) PROVE AccountsTypeOK'
    <2>1. /\ call[w] \in AccountCalls /\ call[w].op = "login" /\ call[w].user \in Users
          /\ call[w].report \in Reports
      BY <1>3, AccountCallShape DEF Register, AccountsTypeOK, CallOK
    <2>2. CASE /\ users' = [users EXCEPT ![call[w].user] = NewRow(call[w].report)]
               /\ Goto(w, "issue") /\ UNCHANGED <<call, row>>
      <3>1. /\ users' \in [Users -> UserRows \cup {NoRow}]
            /\ users'[call[w].user] # NoRow
        BY <1>u, <2>1, <2>2, NewRowShape
      <3>2. call[w].user \in Registered'
        BY <2>1, <3>1 DEF Registered
      <3>3. CallOK(w)'
        BY <2>1, <2>2, <3>2, GotoEffect DEF CallOK
      <3> QED
        BY <1>3, <1>t, <1>u, <2>2, <3>1, <3>3, GotoEffect DEF Register
    <2>3. CASE Finish(w) /\ UNCHANGED users
      BY <1>3, <1>f, <1>u, <2>3 DEF Register
    <2> QED
      BY <1>3, <2>2, <2>3 DEF Register
  <1>4. ASSUME NEW w \in Workers, SaveUser(w) PROVE AccountsTypeOK'
    <2>1. /\ call[w] \in AccountCalls /\ call[w].op = "login" /\ call[w].user \in Registered
          /\ call[w].report \in Reports /\ row[w] \in UserRows
      BY <1>4, AccountCallShape DEF SaveUser, AccountsTypeOK, CallOK
    <2>2. users' \in [Users -> UserRows \cup {NoRow}]
      BY <1>4, <1>u, <2>1, RowUpdates DEF SaveUser
    <2>3. CallOK(w)'
      BY <1>4, <1>u, <2>1, GotoEffect DEF CallOK, SaveUser
    <2> QED
      BY <1>4, <1>t, <1>u, <2>2, <2>3, GotoEffect DEF SaveUser
  <1>5. ASSUME NEW w \in Workers, Issue(w) PROVE AccountsTypeOK'
    <2>1. call[w].user \in Users \cup {NoUser} /\ call[w].chain \in Tokens \cup {NoToken}
      BY <1>5, RegisteredIs, AccountCallShape, RefreshingShape
      DEF Issue, AccountsTypeOK, CallOK, Registered
    <2>2. token' \in [Tokens -> TokenRows]
      BY <1>5, <1>u, <2>1 DEF Issue, TokenRows
    <2> QED
      BY <1>5, <1>f, <1>u, <2>2 DEF Issue
  <1>6. ASSUME NEW w \in Workers, Consume(w) PROVE AccountsTypeOK'
    <2> DEFINE t == call[w].token
    <2>1. call[w] \in AccountCalls /\ call[w].op = "refresh" /\ t \in Tokens
      BY <1>6, AccountCallShape DEF Consume, AccountsTypeOK, CallOK
    <2>2. CASE token[t].status = "live"
      <3>1. token[t].user \in Registered /\ token[t].user \in Users /\ token[t].chain \in Tokens
        BY <2>1, <2>2 DEF SessionKeepsUser, Registered
      <3>2. token' \in [Tokens -> TokenRows]
        BY <1>6, <1>u, <2>1, <2>2, TokenShape DEF Consume
      <3>3. CASE /\ call' = [call EXCEPT ![w].user = token[t].user, ![w].chain = token[t].chain]
                 /\ Goto(w, "load_user") /\ UNCHANGED row
        <4>1. /\ call'[w] \in RefreshingCalls /\ pc'[w] = "load_user"
              /\ Others(w) /\ DOMAIN call' = Workers /\ DOMAIN pc' = Workers
          BY <2>1, <3>1, <3>3, ConsumedShape DEF Goto, Others, AccountsTypeOK
        <4>2. CallOK(w)'
          BY <4>1 DEF CallOK
        <4> QED
          BY <1>6, <1>t, <1>u, <3>2, <3>3, <4>1, <4>2 DEF Consume, AccountsTypeOK
      <3> QED
        BY <1>6, <1>f, <1>u, <2>2, <3>2, <3>3 DEF Consume
    <2>3. CASE token[t].status = "spent"
      BY <1>6, <1>f, <1>u, <2>3 DEF Consume
    <2> QED
      BY <1>6, <2>2, <2>3 DEF Consume
  <1>7. ASSUME NEW w \in Workers, LoadUser(w) PROVE AccountsTypeOK'
    <2>1. call[w] \in RefreshingCalls
      BY <1>7 DEF LoadUser, AccountsTypeOK, CallOK
    <2>2. CASE call[w].user \in Registered /\ Goto(w, "issue") /\ UNCHANGED <<call, row>>
      <3>1. CallOK(w)'
        BY <1>u, <2>1, <2>2, GotoEffect DEF CallOK
      <3> QED
        BY <1>7, <1>t, <1>u, <2>2, <3>1, GotoEffect DEF LoadUser
    <2> QED
      BY <1>7, <1>f, <1>u, <2>2 DEF LoadUser
  <1>8. ASSUME NEW w \in Workers, Revoke(w) PROVE AccountsTypeOK'
    <2>1. call[w].token \in Tokens
      BY <1>8, AccountCallShape DEF Revoke, AccountsTypeOK, CallOK
    <2>2. token' \in [Tokens -> TokenRows]
      BY <1>8, <1>u, <2>1, TokenShape DEF Revoke
    <2> QED
      BY <1>8, <1>f, <1>u, <2>2 DEF Revoke
  <1>9. ASSUME NEW w \in Workers, SetPushPreferences(w) PROVE AccountsTypeOK'
    <2>1. call[w].user \in Users /\ call[w].user \in Registered /\ call[w].prefs \in SUBSET Categories
      BY <1>9, AccountCallShape DEF SetPushPreferences, AccountsTypeOK, CallOK
    <2>2. users' \in [Users -> UserRows \cup {NoRow}]
      BY <1>9, <1>u, <2>1, RowUpdates DEF SetPushPreferences
    <2> QED
      BY <1>9, <1>f, <1>u, <2>2 DEF SetPushPreferences
  <1>10. ASSUME NEW w \in Workers, Fail(w) PROVE AccountsTypeOK'
    BY <1>10, <1>f, <1>u DEF Fail
  <1>11. ASSUME NEW t \in Tokens, Expire(t) PROVE AccountsTypeOK'
    <2>1. token' \in [Tokens -> TokenRows]
      BY <1>11, <1>u, TokenShape DEF Expire
    <2> QED
      BY <1>11, <2>1 DEF Expire, AccountsTypeOK, CallOK, Registered
  <1>12. CASE UNCHANGED accountVars
    BY <1>12 DEF accountVars, AccountsTypeOK, CallOK, Registered
  <1> QED
    BY <1>1, <1>2, <1>3, <1>4, <1>5, <1>6, <1>7, <1>8, <1>9, <1>10, <1>11, <1>12
    DEF AccountsNext, AccountStep

-----------------------------------------------------------------------------
(* Sessions *)

AccountsInv == AccountsTypeOK /\ RotatingOK /\ SessionKeepsUser /\ RotationOnce

\* How a step changes the tokens and who is rotating: not at all, by spending
\* a token, by exchanging one, or by issuing the last of a session.
Spends(t) ==
  token[t].status # "unused" /\ token' = [token EXCEPT ![t].status = "spent"]

NoNewRotation ==
  \A w \in Workers : Rotating(w)' =>
    /\ Rotating(w) /\ call'[w] = call[w] /\ pc'[w] \in {"load_user", "issue"}

TakesUp(w, t) ==
  /\ token[t].status = "live" /\ Spends(t)
  /\ Others(w) /\ pc'[w] = "load_user"
  /\ call'[w].chain = token[t].chain /\ call'[w].user = token[t].user

Issues(w, t) ==
  /\ token[t].status = "unused" /\ Others(w) /\ Idle(w)
  /\ call[w].user \in Registered
  /\ \/ /\ call[w] \in AccountCalls
        /\ token' = [token EXCEPT ![t] =
                        [status |-> "live", user |-> call[w].user, chain |-> t]]
     \/ /\ Rotating(w)
        /\ token' = [token EXCEPT ![t] =
                        [status |-> "live", user |-> call[w].user, chain |-> call[w].chain]]

\* Ending a call takes up no session.
LEMMA FinishRotation ==
  ASSUME AccountsTypeOK, RotatingOK, NEW w \in Workers, Finish(w)
  PROVE  NoNewRotation
  BY FinishEffect, NullShape DEF NoNewRotation, Rotating, RotatingOK, Idle, Others

\* Moving on takes up no session either.
LEMMA GotoRotation ==
  ASSUME AccountsTypeOK, RotatingOK, NEW w \in Workers, NEW step, Goto(w, step), UNCHANGED call,
         Rotating(w) => step \in {"load_user", "issue"}
  PROVE  NoNewRotation
  BY DEF NoNewRotation, Rotating, RotatingOK, Goto, AccountsTypeOK

\* The four things a step can do to tokens: nothing, spend one, spend one and
\* take its session up, or issue one.
LEMMA TokenSteps ==
  ASSUME AccountsTypeOK, RotatingOK, SessionKeepsUser, [AccountsNext]_accountVars
  PROVE  \/ NoNewRotation /\ (UNCHANGED token \/ \E t \in Tokens : Spends(t))
         \/ \E w \in Workers, t \in Tokens : TakesUp(w, t) \/ Issues(w, t)
  <1> USE DEF RotatingOK
  <1>1. ASSUME NEW w \in Workers, Accept(w) PROVE NoNewRotation /\ UNCHANGED token
    BY <1>1, AccountCallShape DEF Accept, NoNewRotation, Rotating, Goto, AccountsTypeOK
  <1>2. ASSUME NEW w \in Workers, FindUser(w) PROVE NoNewRotation /\ UNCHANGED token
    BY <1>2, GotoRotation DEF FindUser
  <1>3. ASSUME NEW w \in Workers, Register(w) PROVE NoNewRotation /\ UNCHANGED token
    BY <1>3, GotoRotation, FinishRotation DEF Register
  <1>4. ASSUME NEW w \in Workers, SaveUser(w) PROVE NoNewRotation /\ UNCHANGED token
    BY <1>4, GotoRotation DEF SaveUser
  <1>5. ASSUME NEW w \in Workers, Issue(w) PROVE \E t \in Tokens : Issues(w, t)
    <2>1. \/ call[w] \in AccountCalls /\ call[w].op = "login"
          \/ call[w].op # "login" /\ Rotating(w)
      BY <1>5, RefreshingShape DEF Issue, AccountsTypeOK, CallOK, Rotating
    <2>2. call[w].user \in Registered
      BY <1>5 DEF Issue, AccountsTypeOK, CallOK
    <2> QED
      BY <1>5, <2>1, <2>2, FinishEffect DEF Issue, Issues
  <1>6. ASSUME NEW w \in Workers, Consume(w)
        PROVE  \/ NoNewRotation /\ (UNCHANGED token \/ \E t \in Tokens : Spends(t))
               \/ \E t \in Tokens : TakesUp(w, t)
    <2> DEFINE t == call[w].token
    <2>1. call[w] \in AccountCalls /\ call[w].op = "refresh" /\ t \in Tokens
      BY <1>6, AccountCallShape DEF Consume, AccountsTypeOK, CallOK
    <2>2. CASE /\ token[t].status = "live" /\ Spends(t)
               /\ call' = [call EXCEPT ![w].user = token[t].user, ![w].chain = token[t].chain]
               /\ Goto(w, "load_user")
               /\ UNCHANGED row
      <3>1. token[t].user \in Users /\ token[t].chain \in Tokens
        BY <2>1, <2>2 DEF SessionKeepsUser, Registered
      <3>3. call'[w].chain = token[t].chain /\ call'[w].user = token[t].user
        <4>1. call'[w] = [call[w] EXCEPT !.user = token[t].user, !.chain = token[t].chain]
          BY <2>2 DEF AccountsTypeOK
        <4>2. call[w] \in [op : {"refresh"}, user : {NoUser}, report : {NoReport}, token : Tokens,
                            chain : {NoToken}, prefs : {{}}]
          BY <2>1 DEF AccountCalls
        <4> QED
          BY <4>1, <4>2
      <3>4. pc'[w] = "load_user" /\ Others(w)
        BY <2>2 DEF Goto, Others, AccountsTypeOK
      <3>5. TakesUp(w, t)
        BY <2>2, <3>3, <3>4 DEF TakesUp
      <3> QED
        BY <2>1, <3>5
    <2> QED
      BY <1>6, <2>1, <2>2, FinishRotation DEF Consume, Spends
  <1>7. ASSUME NEW w \in Workers, LoadUser(w) PROVE NoNewRotation /\ UNCHANGED token
    BY <1>7, GotoRotation, FinishRotation DEF LoadUser
  <1>8. ASSUME NEW w \in Workers, Revoke(w)
        PROVE  NoNewRotation /\ \E t \in Tokens : Spends(t)
    <2>1. call[w].token \in Tokens /\ token[call[w].token].status # "unused"
      BY <1>8, AccountCallShape DEF Revoke, AccountsTypeOK, CallOK
    <2> QED
      BY <1>8, <2>1, FinishRotation DEF Revoke, Spends
  <1>9. ASSUME NEW w \in Workers, SetPushPreferences(w) \/ Fail(w)
        PROVE  NoNewRotation /\ UNCHANGED token
    BY <1>9, FinishRotation DEF SetPushPreferences, Fail
  <1>10. ASSUME NEW t \in Tokens, Expire(t) PROVE NoNewRotation /\ Spends(t)
    BY <1>10 DEF Expire, Spends, NoNewRotation, Rotating
  <1>11. CASE UNCHANGED accountVars
    BY <1>11 DEF accountVars, NoNewRotation, Rotating
  <1> QED
    BY <1>1, <1>2, <1>3, <1>4, <1>5, <1>6, <1>7, <1>8, <1>9, <1>10, <1>11
    DEF AccountsNext, AccountStep

\* What a token becomes, and that all others stay.
LEMMA SpendEffect ==
  ASSUME AccountsTypeOK, NEW t \in Tokens, Spends(t)
  PROVE  /\ token'[t].status = "spent" /\ token'[t].chain = token[t].chain
         /\ token'[t].user = token[t].user
         /\ \A s \in Tokens \ {t} : token'[s] = token[s]
  BY TokenShape DEF Spends, AccountsTypeOK

\* Nothing happens to the tokens.
LEMMA SameTokens ==
  ASSUME AccountsInv, AccountsTypeOK', Lasting, NoNewRotation, UNCHANGED token
  PROVE  (RotatingOK /\ SessionKeepsUser /\ RotationOnce)'
  BY DEF NoNewRotation, Rotating, AccountsInv, RotatingOK, SessionKeepsUser, RotationOnce, Lasting

\* No call of the accounts is ever at a step of Push.
LEMMA AccountsPhases ==
  ASSUME AccountsInv, [AccountsNext]_accountVars, NEW w \in Workers,
         pc'[w] \in {"count", "upsert", "unsubscribe"}
  PROVE  pc'[w] = pc[w] /\ call'[w] = call[w]
  <1> USE DEF Finish, Goto, AccountsInv, AccountsTypeOK
  <1>1. ASSUME NEW v \in Workers, Accept(v) PROVE pc'[w] = pc[w] /\ call'[w] = call[w]
    BY <1>1, AccountCallShape DEF Accept, FirstOf
  <1>2. ASSUME NEW v \in Workers,
               FindUser(v) \/ Register(v) \/ SaveUser(v) \/ Issue(v) \/ Consume(v)
        PROVE  pc'[w] = pc[w] /\ call'[w] = call[w]
    BY <1>2 DEF FindUser, Register, SaveUser, Issue, Consume
  <1>3. ASSUME NEW v \in Workers,
               LoadUser(v) \/ Revoke(v) \/ SetPushPreferences(v) \/ Fail(v)
        PROVE  pc'[w] = pc[w] /\ call'[w] = call[w]
    BY <1>3 DEF LoadUser, Revoke, SetPushPreferences, Fail
  <1> QED
    BY <1>1, <1>2, <1>3 DEF AccountsNext, AccountStep, Expire, accountVars

\* Each of the four keeps sessions single and with their user.
LEMMA SessionStep ==
  ASSUME AccountsInv, [AccountsNext]_accountVars
  PROVE  (RotatingOK /\ SessionKeepsUser /\ RotationOnce)'
  <1>l. Lasting /\ AccountsTypeOK'
    BY LastingStep, AccountsTypeStep DEF AccountsInv
  <1>1. CASE NoNewRotation /\ UNCHANGED token
    BY <1>l, <1>1, SameTokens
  <1>2. ASSUME NoNewRotation, NEW t \in Tokens, Spends(t)
        PROVE  (RotatingOK /\ SessionKeepsUser /\ RotationOnce)'
    <2>1. \A s \in Tokens : /\ token'[s].chain = token[s].chain
                            /\ token'[s].user = token[s].user
                            /\ token'[s].status = "live" => token[s].status = "live"
                            /\ token'[s].status # "unused" =>
                                 token[s].status # "unused" \/ s = t
      BY <1>2, SpendEffect DEF AccountsInv
    <2>2. RotatingOK'
      BY <1>l, <1>2, <2>1 DEF NoNewRotation, Rotating, AccountsInv, RotatingOK, Lasting
    <2>3. SessionKeepsUser'
      BY <1>l, <1>2, <2>1 DEF AccountsInv, SessionKeepsUser, Lasting, Spends
    <2>4. RotationOnce'
      BY <1>2, <2>1 DEF NoNewRotation, Rotating, AccountsInv, RotationOnce
    <2> QED
      BY <2>2, <2>3, <2>4
  <1>3. ASSUME NEW w \in Workers, NEW t \in Tokens, TakesUp(w, t)
        PROVE  (RotatingOK /\ SessionKeepsUser /\ RotationOnce)'
    <2>1. /\ \A s \in Tokens : /\ token'[s].chain = token[s].chain
                               /\ token'[s].user = token[s].user
                               /\ token'[s].status # "unused" <=> token[s].status # "unused"
                               /\ token'[s].status = "live" => token[s].status = "live" /\ s # t
          /\ token[t].chain \in Tokens /\ token[token[t].chain].status # "unused"
          /\ token[t].user = token[token[t].chain].user
      BY <1>3, SpendEffect DEF AccountsInv, TakesUp, SessionKeepsUser
    <2>2. RotatingOK'
      BY <1>3, <2>1 DEF TakesUp, Others, Rotating, RotatingOK, AccountsInv
    <2>3. SessionKeepsUser'
      BY <1>l, <2>1 DEF AccountsInv, SessionKeepsUser, Lasting
    <2>4. \A v \in Workers \ {w} : Rotating(v)' => /\ Rotating(v) /\ call'[v].chain = call[v].chain
                                                /\ call[v].chain # token[t].chain
      BY <1>3 DEF TakesUp, Others, Rotating, RotationOnce, AccountsInv
    <2>5. \A s \in Tokens : token'[s].status = "live" => token'[s].chain # token[t].chain
      BY <1>3, <2>1 DEF TakesUp, RotationOnce, AccountsInv
    <2> QED
      BY <1>3, <2>1, <2>2, <2>3, <2>4, <2>5 DEF TakesUp, RotationOnce, AccountsInv
  <1>4. ASSUME NEW w \in Workers, NEW t \in Tokens, Issues(w, t)
        PROVE  (RotatingOK /\ SessionKeepsUser /\ RotationOnce)'
    <2> DEFINE c == token'[t].chain
    <2>1. /\ token'[t].status = "live" /\ token'[t].user = call[w].user
          /\ \A s \in Tokens \ {t} : token'[s] = token[s]
          /\ \/ c = t
             \/ Rotating(w) /\ c = call[w].chain
      BY <1>4 DEF Issues, AccountsInv, AccountsTypeOK
    <2>2. call[w].user \in Registered
      BY <1>4 DEF Issues
    <2>3. \A v \in Workers : Rotating(v)' =>
            v # w /\ Rotating(v) /\ call'[v] = call[v] /\ pc'[v] = pc[v]
      BY <1>4, NullShape DEF Issues, Others, Idle, Rotating
    <2>4. \A s \in Tokens \ {t} : token[s].status # "unused" => token[s].chain # t
      BY <1>4 DEF Issues, AccountsInv, SessionKeepsUser
    <2>5. \A v \in Workers : Rotating(v) => call[v].chain \in Tokens \ {t}
      BY <1>4 DEF Issues, AccountsInv, RotatingOK
    <2>6. \A s \in Tokens \ {t} : token'[s].status = "live" => token'[s].chain # c
      BY <2>1, <2>4 DEF AccountsInv, RotationOnce
    <2>7. \A v \in Workers : Rotating(v)' => call'[v].chain # c
      BY <2>1, <2>3, <2>5 DEF AccountsInv, RotationOnce
    <2>8. RotatingOK'
      BY <2>1, <2>3, <2>5 DEF AccountsInv, RotatingOK
    <2>9. SessionKeepsUser'
      BY <1>l, <1>4, <2>1, <2>2, <2>4, <2>5 DEF AccountsInv, SessionKeepsUser, RotatingOK, Lasting
    <2>10. RotationOnce'
      BY <2>1, <2>3, <2>6, <2>7 DEF AccountsInv, RotationOnce
    <2> QED
      BY <2>8, <2>9, <2>10
  <1> QED
    BY <1>1, <1>2, <1>3, <1>4, TokenSteps DEF AccountsInv

-----------------------------------------------------------------------------
(* Devices *)

PushInv == PushTypeOK /\ SessionKeepsUser /\ RotationOnce /\ OverrunBounded

\* The steps of Push that belong to a call change only that call.
CallStep(w) ==
  AcceptPush(w) \/ CountSubscriptions(w) \/ Upsert(w) \/ Unsubscribe(w)

NotifyStep(n) ==
  Notify(n) \/ PickRecipients(n) \/ ListSubscriptions(n) \/ Send(n) \/ CleanUp(n) \/ EndNotify(n)

\* A step of a call about subscriptions touches no session and no notification.
LEMMA CallStepEffect ==
  ASSUME PushInv, NEW w \in Workers, CallStep(w)
  PROVE  /\ Others(w) /\ UNCHANGED <<users, token, gone, note, npc, todo, dead>>
         /\ DOMAIN call' = Workers /\ DOMAIN pc' = Workers
         /\ row' \in [Workers -> UserRows \cup {NoRow}]
         /\ pc'[w] \in {"idle", "count", "upsert", "unsubscribe"}
         /\ call'[w] \in PushCalls \/ Idle(w)
         /\ pc'[w] \in {"count", "upsert", "unsubscribe"} => call'[w] \in PushCalls
         /\ call'[w].chain = NoToken
         /\ IsFiniteSet(subs') /\ subs' \subseteq [user : Users, endpoint : Endpoints]
  <1> USE DEF PushInv, PushTypeOK, AccountsTypeOK
  <1>1. CASE AcceptPush(w)
    <2>1. PICK c \in PushCalls : /\ call' = [call EXCEPT ![w] = c]
                                 /\ pc' = [pc EXCEPT ![w] =
                                      IF c.op = "subscribe" THEN "count" ELSE "unsubscribe"]
      BY <1>1 DEF AcceptPush, Goto
    <2> QED
      BY <1>1, <2>1, PushCallShape DEF AcceptPush, Others, pushVars
  <1>2. CASE CountSubscriptions(w)
    <2>1. CASE Goto(w, "upsert") /\ UNCHANGED <<call, row>>
      BY <1>2, <2>1, PushCallShape DEF CountSubscriptions, pushVars, Goto, Others
    <2>2. CASE Finish(w)
      BY <1>2, <2>2, FinishEffect, NullShape DEF CountSubscriptions, pushVars, Idle
    <2> QED
      BY <1>2, <2>1, <2>2 DEF CountSubscriptions
  <1>3. CASE Upsert(w)
    <2>1. [user |-> call[w].user, endpoint |-> call[w].endpoint] \in [user : Users, endpoint : Endpoints]
      BY <1>3, PushCallShape DEF Upsert
    <2>2. IsFiniteSet(subs')
      BY <1>3, FS_AddElement DEF Upsert
    <2> QED
      BY <1>3, <2>1, <2>2, FinishEffect, NullShape DEF Upsert, Idle
  <1>4. CASE Unsubscribe(w)
    <2>1. subs' \subseteq subs
      BY <1>4 DEF Unsubscribe
    <2>2. IsFiniteSet(subs')
      BY <2>1, FS_Subset
    <2> QED
      BY <1>4, <2>1, <2>2, FinishEffect, NullShape DEF Unsubscribe, Idle
  <1> QED
    BY <1>1, <1>2, <1>3, <1>4 DEF CallStep

\* A step of a notification removes only subscriptions whose endpoint is gone.
LEMMA NotifyStepEffect ==
  ASSUME PushInv, NEW n \in Notifiers, NotifyStep(n)
  PROVE  /\ UNCHANGED <<accountVars, gone>>
         /\ subs' \subseteq subs
         /\ \A s \in subs \ subs' : s.endpoint \in gone
         /\ DOMAIN dead' = Notifiers /\ DOMAIN npc' = Notifiers /\ DOMAIN todo' = Notifiers
         /\ \A m \in Notifiers :
              /\ npc'[m] \in {"idle", "members", "list", "send", "clean"}
              /\ npc'[m] \in {"send", "clean"} => todo'[m] \subseteq [user : Users, endpoint : Endpoints]
              /\ npc'[m] = "clean" => dead'[m] \in gone'
  <1> USE DEF PushInv, PushTypeOK, NotifyGoto
  <1>1. CASE Notify(n)
    BY <1>1 DEF Notify
  <1>2. CASE PickRecipients(n)
    BY <1>2 DEF PickRecipients
  <1>3. CASE ListSubscriptions(n)
    BY <1>3 DEF ListSubscriptions
  <1>4. CASE Send(n)
    <2>1. PICK s \in todo[n] :
            /\ todo' = [todo EXCEPT ![n] = @ \ {s}]
            /\ \/ npc' = [npc EXCEPT ![n] = "send"] /\ UNCHANGED dead
               \/ /\ s.endpoint \in gone
                  /\ npc' = [npc EXCEPT ![n] = "clean"]
                  /\ dead' = [dead EXCEPT ![n] = s.endpoint]
      BY <1>4 DEF Send
    <2>2. \A m \in Notifiers \ {n} :
            npc'[m] = npc[m] /\ todo'[m] = todo[m] /\ dead'[m] = dead[m]
      BY <2>1
    <2>3. todo'[n] \subseteq todo[n] /\ npc[n] = "send" /\ npc'[n] \in {"send", "clean"}
          /\ (npc'[n] = "clean" => dead'[n] \in gone)
      BY <1>4, <2>1 DEF Send
    <2>4. DOMAIN dead' = Notifiers /\ DOMAIN npc' = Notifiers /\ DOMAIN todo' = Notifiers
      BY <2>1
    <2>5. UNCHANGED <<accountVars, subs, gone>>
      BY <1>4 DEF Send
    <2>6. ASSUME NEW m \in Notifiers
          PROVE  /\ npc'[m] \in {"idle", "members", "list", "send", "clean"}
                 /\ npc'[m] \in {"send", "clean"} => todo'[m] \subseteq [user : Users, endpoint : Endpoints]
                 /\ npc'[m] = "clean" => dead'[m] \in gone'
      <3>1. CASE m = n
        BY <2>3, <2>5, <3>1
      <3>2. CASE m # n
        BY <2>2, <2>5, <3>2
      <3> QED
        BY <3>1, <3>2
    <2>7. UNCHANGED <<accountVars, gone>> /\ subs' \subseteq subs
          /\ \A x \in subs \ subs' : x.endpoint \in gone
      BY <2>5
    <2> QED
      BY <2>4, <2>6, <2>7
  <1>5. CASE CleanUp(n)
    <2>1. dead[n] \in gone /\ UNCHANGED <<accountVars, gone, todo>>
      BY <1>5 DEF CleanUp
    <2>2. subs' \subseteq subs /\ \A s \in subs \ subs' : s.endpoint \in gone
      BY <1>5, <2>1 DEF CleanUp
    <2>3. npc' = [npc EXCEPT ![n] = "send"] /\ dead' = [dead EXCEPT ![n] = NoUser]
      BY <1>5 DEF CleanUp
    <2>4. todo'[n] \subseteq [user : Users, endpoint : Endpoints]
      BY <1>5, <2>1 DEF CleanUp
    <2> QED
      BY <2>1, <2>2, <2>3, <2>4
  <1>6. CASE EndNotify(n)
    BY <1>6 DEF EndNotify
  <1> QED
    BY <1>1, <1>2, <1>3, <1>4, <1>5, <1>6 DEF NotifyStep

\* Every step keeps the types and the two properties of sessions.
LEMMA PushTypeStep == PushInv /\ [PushNext]_vars => (PushTypeOK /\ SessionKeepsUser /\ RotationOnce)'
  <1> SUFFICES ASSUME PushInv, [PushNext]_vars
               PROVE  (PushTypeOK /\ SessionKeepsUser /\ RotationOnce)'
    OBVIOUS
  <1>i. AccountsInv
    BY DEF PushInv, PushTypeOK, AccountsInv
  <1>1. CASE [AccountsNext]_accountVars /\ UNCHANGED pushVars
    <2>1. (AccountsTypeOK /\ RotatingOK /\ SessionKeepsUser /\ RotationOnce)'
      BY <1>i, <1>1, AccountsTypeStep, SessionStep DEF AccountsInv
    <2>2. \A w \in Workers : pc'[w] \in {"count", "upsert", "unsubscribe"} =>
            pc'[w] = pc[w] /\ call'[w] = call[w]
      BY <1>i, <1>1, AccountsPhases
    <2> QED
      BY <1>1, <2>1, <2>2 DEF PushInv, PushTypeOK, pushVars
  <1>2. ASSUME NEW w \in Workers, CallStep(w)
        PROVE  (PushTypeOK /\ SessionKeepsUser /\ RotationOnce)'
    <2>1. Lasting /\ CallOK(w)' /\ NoNewRotation
      BY <1>2, CallStepEffect
      DEF Lasting, Registered, CallOK, NoNewRotation, Rotating, Others, PushInv, PushTypeOK, RotatingOK
    <2>2. \A v \in Workers : CallOK(v)'
      BY <1>2, <2>1, CallStepEffect, OtherCalls DEF PushInv, PushTypeOK, AccountsTypeOK
    <2>3. AccountsTypeOK'
      BY <1>2, <2>2, CallStepEffect DEF PushInv, PushTypeOK, AccountsTypeOK
    <2>4. (RotatingOK /\ SessionKeepsUser /\ RotationOnce)'
      BY <1>2, <1>i, <2>1, <2>3, CallStepEffect, SameTokens
    <2>5. \A v \in Workers : pc'[v] \in {"count", "upsert", "unsubscribe"} => call'[v] \in PushCalls
      BY <1>2, CallStepEffect DEF PushInv, PushTypeOK, Others
    <2> QED
      BY <1>2, <2>3, <2>4, <2>5, CallStepEffect DEF PushInv, PushTypeOK
  <1>3. ASSUME NEW n \in Notifiers, NotifyStep(n)
        PROVE  (PushTypeOK /\ SessionKeepsUser /\ RotationOnce)'
    <2>1. IsFiniteSet(subs')
      BY <1>3, NotifyStepEffect, FS_Subset DEF PushInv, PushTypeOK
    <2>2. [AccountsNext]_accountVars
      BY <1>3, NotifyStepEffect
    <2>3. (AccountsTypeOK /\ RotatingOK /\ SessionKeepsUser /\ RotationOnce)'
      BY <1>i, <2>2, AccountsTypeStep, SessionStep DEF AccountsInv
    <2> QED
      BY <1>3, <2>1, <2>3, NotifyStepEffect DEF PushInv, PushTypeOK, accountVars
  <1>4. ASSUME NEW e \in Endpoints, EndpointDies(e)
        PROVE  (PushTypeOK /\ SessionKeepsUser /\ RotationOnce)'
    <2>1. (AccountsTypeOK /\ RotatingOK /\ SessionKeepsUser /\ RotationOnce)'
      BY <1>i, <1>4, AccountsTypeStep, SessionStep DEF AccountsInv, EndpointDies
    <2> QED
      BY <1>4, <2>1 DEF PushInv, PushTypeOK, EndpointDies, accountVars
  <1>5. CASE UNCHANGED vars
    BY <1>1, <1>5 DEF vars
  <1> QED
    BY <1>1, <1>2, <1>3, <1>4, <1>5 DEF PushNext, CallStep, NotifyStep

\* How a step changes what a user has or is about to have: it takes away, it
\* lets a subscription in where the user had less than the cap, or it stores
\* one that was let in.
LEMMA SubscriptionSteps ==
  ASSUME PushInv, [PushNext]_vars, NEW u \in Users
  PROVE  \/ SubsOf(u)' \subseteq SubsOf(u) /\ Subscribing(u)' \subseteq Subscribing(u)
         \/ SubsOf(u)' = SubsOf(u) /\ Cardinality(SubsOf(u)) < MaxPushSubscriptionsPerUser
         \/ \E w \in Subscribing(u), s \in subs' :
              SubsOf(u)' = SubsOf(u) \cup {s} /\ Subscribing(u)' = Subscribing(u) \ {w}
  <1> USE DEF SubsOf, Subscribing
  <1>1. CASE [AccountsNext]_accountVars /\ UNCHANGED pushVars
    BY <1>1, AccountsPhases DEF pushVars, PushInv, PushTypeOK, AccountsInv
  <1>2. ASSUME NEW w \in Workers, AcceptPush(w) \/ Unsubscribe(w)
        PROVE  SubsOf(u)' \subseteq SubsOf(u) /\ Subscribing(u)' \subseteq Subscribing(u)
    BY <1>2 DEF AcceptPush, Unsubscribe, pushVars, Goto, Finish, PushInv, PushTypeOK, AccountsTypeOK
  <1>3. ASSUME NEW w \in Workers, CountSubscriptions(w)
        PROVE  \/ SubsOf(u)' \subseteq SubsOf(u) /\ Subscribing(u)' \subseteq Subscribing(u)
               \/ SubsOf(u)' = SubsOf(u) /\ Cardinality(SubsOf(u)) < MaxPushSubscriptionsPerUser
    <2>1. CASE call[w].user = u
      BY <1>3, <2>1
      DEF CountSubscriptions, pushVars, Goto, Finish, PushInv, PushTypeOK, AccountsTypeOK
    <2>2. CASE call[w].user # u
      BY <1>3, <2>2
      DEF CountSubscriptions, pushVars, Goto, Finish, PushInv, PushTypeOK, AccountsTypeOK
    <2> QED
      BY <2>1, <2>2
  <1>4. ASSUME NEW w \in Workers, Upsert(w)
        PROVE  \/ SubsOf(u)' \subseteq SubsOf(u) /\ Subscribing(u)' \subseteq Subscribing(u)
               \/ \E s \in subs' :
                    SubsOf(u)' = SubsOf(u) \cup {s} /\ Subscribing(u)' = Subscribing(u) \ {w}
    <2> DEFINE s == [user |-> call[w].user, endpoint |-> call[w].endpoint]
    <2>1. subs' = subs \cup {s} /\ s.user = call[w].user /\ Finish(w) /\ pc[w] = "upsert"
      BY <1>4 DEF Upsert
    <2> HIDE DEF s
    <2>2. CASE call[w].user = u
      BY <1>4, <2>1, <2>2 DEF Goto, Finish, PushInv, PushTypeOK, AccountsTypeOK
    <2>3. CASE call[w].user # u
      BY <1>4, <2>1, <2>3 DEF Goto, Finish, PushInv, PushTypeOK, AccountsTypeOK
    <2> QED
      BY <2>2, <2>3
  <1>5. ASSUME NEW n \in Notifiers, NotifyStep(n)
        PROVE  SubsOf(u)' \subseteq SubsOf(u) /\ Subscribing(u)' \subseteq Subscribing(u)
    BY <1>5, NotifyStepEffect DEF accountVars
  <1>6. ASSUME NEW e \in Endpoints, EndpointDies(e)
        PROVE  SubsOf(u)' \subseteq SubsOf(u) /\ Subscribing(u)' \subseteq Subscribing(u)
    BY <1>6 DEF EndpointDies, accountVars
  <1>7. CASE UNCHANGED vars
    BY <1>1, <1>7 DEF vars
  <1>8. ASSUME NEW w \in Workers, Upsert(w), SubsOf(u)' # SubsOf(u) \/ Subscribing(u)' # Subscribing(u)
        PROVE  w \in Subscribing(u) \/ (SubsOf(u)' \subseteq SubsOf(u) /\ Subscribing(u)' \subseteq Subscribing(u))
    BY <1>8 DEF Upsert, Goto, Finish, PushInv, PushTypeOK, AccountsTypeOK
  <1> QED
    BY <1>1, <1>2, <1>3, <1>4, <1>5, <1>6, <1>7, <1>8 DEF PushNext, CallStep, NotifyStep

\* Every step keeps the overrun of the cap bounded.
LEMMA OverrunStep == PushInv /\ [PushNext]_vars => OverrunBounded'
  <1> SUFFICES ASSUME PushInv, [PushNext]_vars, NEW u \in Users
               PROVE  Cardinality(SubsOf(u)') + Cardinality(Subscribing(u)')
                        <= MaxPushSubscriptionsPerUser - 1 + Cardinality(Workers)
    BY DEF OverrunBounded
  <1>1. /\ IsFiniteSet(SubsOf(u)) /\ IsFiniteSet(SubsOf(u)')
        /\ IsFiniteSet(Subscribing(u)) /\ IsFiniteSet(Subscribing(u)')
        /\ Cardinality(Subscribing(u)') <= Cardinality(Workers)
    <2>1. IsFiniteSet(subs) /\ IsFiniteSet(subs')
      BY PushTypeStep DEF PushInv, PushTypeOK
    <2>2. SubsOf(u) \in SUBSET subs /\ SubsOf(u)' \in SUBSET subs'
      BY DEF SubsOf
    <2>3. Subscribing(u) \in SUBSET Workers /\ Subscribing(u)' \in SUBSET Workers
      BY DEF Subscribing
    <2> QED
      BY <2>1, <2>2, <2>3, WorkersAssumption, FS_Subset
  <1>2. /\ Cardinality(SubsOf(u)) \in Nat /\ Cardinality(SubsOf(u)') \in Nat
        /\ Cardinality(Subscribing(u)) \in Nat /\ Cardinality(Subscribing(u)') \in Nat
        /\ Cardinality(Workers) \in Nat /\ MaxPushSubscriptionsPerUser \in Nat
    BY <1>1, WorkersAssumption, CapAssumption, FS_CardinalityType
  <1>3. Cardinality(SubsOf(u)) + Cardinality(Subscribing(u))
          <= MaxPushSubscriptionsPerUser - 1 + Cardinality(Workers)
    BY DEF PushInv, OverrunBounded
  <1>4. CASE SubsOf(u)' \subseteq SubsOf(u) /\ Subscribing(u)' \subseteq Subscribing(u)
    <2>1. /\ Cardinality(SubsOf(u)') <= Cardinality(SubsOf(u))
          /\ Cardinality(Subscribing(u)') <= Cardinality(Subscribing(u))
      BY <1>1, <1>4, FS_Subset
    <2> QED
      BY <1>2, <1>3, <2>1
  <1>5. CASE SubsOf(u)' = SubsOf(u) /\ Cardinality(SubsOf(u)) < MaxPushSubscriptionsPerUser
    BY <1>1, <1>2, <1>5
  <1>6. ASSUME NEW w \in Subscribing(u), NEW s \in subs',
               SubsOf(u)' = SubsOf(u) \cup {s}, Subscribing(u)' = Subscribing(u) \ {w}
        PROVE  Cardinality(SubsOf(u)') + Cardinality(Subscribing(u)')
                 <= MaxPushSubscriptionsPerUser - 1 + Cardinality(Workers)
    <2>1. Cardinality(SubsOf(u)') <= Cardinality(SubsOf(u)) + 1
      BY <1>1, <1>2, <1>6, FS_AddElement
    <2>2. Cardinality(Subscribing(u)') = Cardinality(Subscribing(u)) - 1
      BY <1>1, <1>6, FS_RemoveElement
    <2> QED
      BY <1>2, <1>3, <2>1, <2>2
  <1> QED
    BY <1>4, <1>5, <1>6, SubscriptionSteps

\* The invariant holds at first.
LEMMA PushInitInv == PushInit => PushInv
  <1> SUFFICES ASSUME PushInit PROVE PushInv
    OBVIOUS
  <1> USE DEF PushInit, AccountsInit
  <1>1. AccountsTypeOK
    BY NewRowShape DEF AccountsTypeOK, CallOK, Unused, TokenRows
  <1>2. RotatingOK /\ SessionKeepsUser /\ RotationOnce
    BY NullShape DEF RotatingOK, Rotating, SessionKeepsUser, RotationOnce, Unused
  <1>3. PushTypeOK
    BY <1>1, <1>2, FS_EmptySet DEF PushTypeOK
  <1>4. ASSUME NEW u \in Users
        PROVE  Cardinality(SubsOf(u)) + Cardinality(Subscribing(u))
                 <= MaxPushSubscriptionsPerUser - 1 + Cardinality(Workers)
    <2>1. SubsOf(u) = {} /\ Subscribing(u) = {}
      BY DEF SubsOf, Subscribing
    <2>2. Cardinality(SubsOf(u)) = 0 /\ Cardinality(Subscribing(u)) = 0
      BY <2>1, FS_EmptySet
    <2> QED
      BY <2>2, CapAssumption, WorkersAssumption, FS_CardinalityType
  <1> QED
    BY <1>2, <1>3, <1>4 DEF PushInv, OverrunBounded

\* The invariant from which the properties of accounts follow: types, single
\* sessions of one user each, and the bounded overrun of the cap.
LEMMA PushInvariance == PushSpec => []PushInv
  <1>1. PushInv /\ [PushNext]_vars => PushInv'
    BY PushTypeStep, OverrunStep DEF PushInv
  <1> QED
    BY <1>1, PushInitInv, PTL DEF PushSpec

-----------------------------------------------------------------------------
(* Theorems *)

\* Every variable keeps its type, and every call is at a step that suits it.
THEOREM TypeCorrect == PushSpec => []PushTypeOK
  <1>1. PushInv => PushTypeOK
    BY DEF PushInv
  <1> QED
    BY <1>1, PushInvariance, PTL

\* However many clients present a token, and however often, a session has one
\* token at most that can still be exchanged.
THEOREM OneRotation == PushSpec => []RotationOnce
  <1>1. PushInv => RotationOnce
    BY DEF PushInv
  <1> QED
    BY <1>1, PushInvariance, PTL

\* Rotation keeps a session with its user, who is registered.
THEOREM SessionsKept == PushSpec => []SessionKeepsUser
  <1>1. PushInv => SessionKeepsUser
    BY DEF PushInv
  <1> QED
    BY <1>1, PushInvariance, PTL

\* A user exceeds the cap on subscriptions by no more than the calls that run
\* beside the one that fills it.
THEOREM CapNearlyHolds == PushSpec => []OverrunBounded
  <1>1. PushInv => OverrunBounded
    BY DEF PushInv
  <1> QED
    BY <1>1, PushInvariance, PTL

\* A subscription that works is removed only by its own user.
THEOREM WorkingKept == PushSpec => OnlyDeadAreCleaned
  <1>1. PushInv /\ [PushNext]_vars =>
          [\A s \in subs \ subs' :
             s.endpoint \in gone
               \/ \E w \in Workers : pc[w] = "unsubscribe" /\ call[w].user = s.user
                                       /\ call[w].endpoint = s.endpoint]_vars
    <2> SUFFICES ASSUME PushInv, [PushNext]_vars, NEW s \in subs \ subs'
                 PROVE  s.endpoint \in gone
                          \/ \E w \in Workers : pc[w] = "unsubscribe" /\ call[w].user = s.user
                                                  /\ call[w].endpoint = s.endpoint
      OBVIOUS
    <2>1. ASSUME NEW w \in Workers, CallStep(w)
          PROVE  pc[w] = "unsubscribe" /\ call[w].user = s.user /\ call[w].endpoint = s.endpoint
      BY <2>1 DEF CallStep, AcceptPush, CountSubscriptions, Upsert, Unsubscribe, pushVars
    <2>2. ASSUME NEW n \in Notifiers, NotifyStep(n) PROVE s.endpoint \in gone
      BY <2>2, NotifyStepEffect
    <2> QED
      BY <2>1, <2>2 DEF PushNext, CallStep, NotifyStep, EndpointDies, vars, pushVars
  <1> QED
    BY <1>1, PushInvariance, PTL DEF PushSpec, OnlyDeadAreCleaned

=============================================================================
