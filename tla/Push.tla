-------------------------------- MODULE Push --------------------------------
(***************************************************************************)
(* Web push (internal/service/push_service.go): devices subscribe and      *)
(* unsubscribe, and an event of a group is sent to the devices of its      *)
(* other members, in a goroutine of its own that runs beside the calls of  *)
(* Sessions.  The push services, which say whether an endpoint still       *)
(* exists, are outside; all registered users are taken to share one group. *)
(***************************************************************************)
EXTENDS Sessions

CONSTANTS
  Endpoints,            \* addresses of browsers at their push services
  MaxPushSubscriptionsPerUser,
  Notifiers             \* notifications under way at once

ASSUME CapAssumption == MaxPushSubscriptionsPerUser \in Nat \ {0}

VARIABLES
  subs,                 \* push_subscriptions: user and endpoint
  gone,                 \* endpoints that no longer exist; none comes back
  note,                 \* the event each notifier tells of
  npc,                  \* its next step
  todo,                 \* the members, then the subscriptions, it has yet to reach
  dead                  \* the endpoint it is cleaning up

pushVars == <<subs, gone, note, npc, todo, dead>>
vars == <<accountVars, pushVars>>

SubsOf(u) == {s \in subs : s.user = u}

PushCalls ==
  [op : {"subscribe", "unsubscribe"}, user : Users, report : {NoReport}, token : {NoToken},
   chain : {NoToken}, prefs : {{}}, endpoint : Endpoints]

NoNote == [actor |-> NoUser, category |-> "none"]

NotifyGoto(n, step) == npc' = [npc EXCEPT ![n] = step]

-----------------------------------------------------------------------------
PushInit ==
  /\ AccountsInit
  /\ subs = {}
  /\ gone = {}
  /\ note = [n \in Notifiers |-> NoNote]
  /\ npc = [n \in Notifiers |-> "idle"]
  /\ todo = [n \in Notifiers |-> {}]
  /\ dead = [n \in Notifiers |-> NoUser]

AcceptPush(w) ==
  /\ pc[w] = "idle"
  /\ \E c \in PushCalls :
       /\ c.op \in mix
       /\ c.user \in Registered
       /\ call' = [call EXCEPT ![w] = c]
       /\ Goto(w, IF c.op = "subscribe" THEN "count" ELSE "unsubscribe")
  /\ UNCHANGED <<mix, users, token, row, pushVars>>

-----------------------------------------------------------------------------
(* Slips, none of them the code's. *)

CountOneMore(w) ==
  /\ pc[w] = "count"
  /\ IF Cardinality(SubsOf(call[w].user)) <= MaxPushSubscriptionsPerUser
     THEN Goto(w, "upsert") /\ UNCHANGED <<call, row>>
     ELSE Finish(w)
  /\ UNCHANGED <<mix, users, token, pushVars>>

\* Any failure is taken for the end of the endpoint.
SendAnyFailure(n) ==
  /\ npc[n] = "send"
  /\ \E s \in todo[n] :
       /\ todo' = [todo EXCEPT ![n] = @ \ {s}]
       /\ \/ NotifyGoto(n, "send") /\ UNCHANGED dead
          \/ NotifyGoto(n, "clean") /\ dead' = [dead EXCEPT ![n] = s.endpoint]
  /\ UNCHANGED <<accountVars, subs, gone, note>>

-----------------------------------------------------------------------------
(* Subscribing *)

\* The subscriptions are counted, whether or not this one is among them.
CountSubscriptions(w) ==
  /\ pc[w] = "count"
  /\ IF Cardinality(SubsOf(call[w].user)) < MaxPushSubscriptionsPerUser
     THEN Goto(w, "upsert") /\ UNCHANGED <<call, row>>
     ELSE Finish(w)
  /\ UNCHANGED <<mix, users, token, pushVars>>

\* An upsert on user and endpoint: subscribing again only renews the keys.
Upsert(w) ==
  /\ pc[w] = "upsert"
  /\ subs' = subs \cup {[user |-> call[w].user, endpoint |-> call[w].endpoint]}
  /\ Finish(w)
  /\ UNCHANGED <<mix, users, token, gone, note, npc, todo, dead>>

Unsubscribe(w) ==
  /\ pc[w] = "unsubscribe"
  /\ subs' = subs \ {[user |-> call[w].user, endpoint |-> call[w].endpoint]}
  /\ Finish(w)
  /\ UNCHANGED <<mix, users, token, gone, note, npc, todo, dead>>

-----------------------------------------------------------------------------
(* Notifying *)

\* notifyGroupMembersAsync, after an action of a member has been answered.
Notify(n) ==
  /\ npc[n] = "idle"
  /\ "notify" \in mix
  /\ \E a \in Registered, c \in Categories :
       note' = [note EXCEPT ![n] = [actor |-> a, category |-> c]]
  /\ NotifyGoto(n, "members")
  /\ UNCHANGED <<accountVars, subs, gone, todo, dead>>

\* The group with its members and their preferences is read in one go.
PickRecipients(n) ==
  /\ npc[n] = "members"
  /\ todo' = [todo EXCEPT ![n] =
                {u \in Registered \ {note[n].actor} : note[n].category \in users[u].prefs}]
  /\ NotifyGoto(n, "list")
  /\ UNCHANGED <<accountVars, subs, gone, note, dead>>

ListSubscriptions(n) ==
  /\ npc[n] = "list"
  /\ todo' = [todo EXCEPT ![n] = {s \in subs : s.user \in todo[n]}]
  /\ NotifyGoto(n, "send")
  /\ UNCHANGED <<accountVars, subs, gone, note, dead>>

\* One subscription after the other.  A failure to send is passed over; only
\* status 404 or 410, which says that the endpoint is gone, is acted upon.
Send(n) ==
  /\ npc[n] = "send"
  /\ \E s \in todo[n] :
       /\ todo' = [todo EXCEPT ![n] = @ \ {s}]
       /\ \/ NotifyGoto(n, "send") /\ UNCHANGED dead
          \/ /\ s.endpoint \in gone
             /\ NotifyGoto(n, "clean")
             /\ dead' = [dead EXCEPT ![n] = s.endpoint]
  /\ UNCHANGED <<accountVars, subs, gone, note>>

\* DeleteByEndpointGlobal: whoever it belongs to.  A failed delete is passed
\* over.
CleanUp(n) ==
  /\ npc[n] = "clean"
  /\ subs' \in {subs, {s \in subs : s.endpoint # dead[n]}}
  /\ NotifyGoto(n, "send")
  /\ dead' = [dead EXCEPT ![n] = NoUser]
  /\ UNCHANGED <<accountVars, gone, note, todo>>

\* All are sent, a query has failed, or the server has died.
EndNotify(n) ==
  /\ npc[n] # "idle"
  /\ NotifyGoto(n, "idle")
  /\ note' = [note EXCEPT ![n] = NoNote]
  /\ todo' = [todo EXCEPT ![n] = {}]
  /\ dead' = [dead EXCEPT ![n] = NoUser]
  /\ UNCHANGED <<accountVars, subs, gone>>

\* The browser is uninstalled or its permission withdrawn.
EndpointDies(e) ==
  /\ gone' = gone \cup {e}
  /\ UNCHANGED <<accountVars, subs, note, npc, todo, dead>>

-----------------------------------------------------------------------------
PushNext ==
  \/ AccountsNext /\ UNCHANGED pushVars
  \/ \E w \in Workers :
       AcceptPush(w) \/ CountSubscriptions(w) \/ Upsert(w) \/ Unsubscribe(w)
  \/ \E n \in Notifiers :
       \/ Notify(n) \/ PickRecipients(n) \/ ListSubscriptions(n) \/ Send(n)
       \/ CleanUp(n) \/ EndNotify(n)
  \/ \E e \in Endpoints : EndpointDies(e)

PushSpec == PushInit /\ [][PushNext]_vars

-----------------------------------------------------------------------------
(* Properties *)

PushTypeOK ==
  /\ AccountsTypeOK
  /\ RotatingOK
  /\ subs \subseteq [user : Users, endpoint : Endpoints] /\ IsFiniteSet(subs)
  /\ gone \subseteq Endpoints
  /\ DOMAIN dead = Notifiers /\ DOMAIN npc = Notifiers /\ DOMAIN todo = Notifiers
  /\ \A n \in Notifiers :
       /\ npc[n] \in {"idle", "members", "list", "send", "clean"}
       /\ npc[n] \in {"send", "clean"} => todo[n] \subseteq [user : Users, endpoint : Endpoints]
       /\ npc[n] = "clean" => dead[n] \in gone
  /\ \A w \in Workers :
       pc[w] \in {"count", "upsert", "unsubscribe"} => call[w] \in PushCalls

Subscribing(u) == {w \in Workers : pc[w] = "upsert" /\ call[w].user = u}

\* The count and the INSERT are two statements, so calls at once pass the cap
\* together: but a user never has more rows above it than there are calls
\* under way beside the one that fills it (Subscribe).
OverrunBounded ==
  \A u \in Users :
    Cardinality(SubsOf(u)) + Cardinality(Subscribing(u))
      <= MaxPushSubscriptionsPerUser - 1 + Cardinality(Workers)

\* A subscription whose endpoint still exists goes only by its own user's
\* wish: the clean-up after a notification, which asks for no owner and runs
\* late, takes nothing that works (NotifyGroupMembers).
OnlyDeadAreCleaned ==
  [][\A s \in subs \ subs' :
       s.endpoint \in gone
         \/ \E w \in Workers : pc[w] = "unsubscribe" /\ call[w].user = s.user
                                 /\ call[w].endpoint = s.endpoint]_vars

=============================================================================
