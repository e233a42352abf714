------------------------------- MODULE Groups -------------------------------
(***************************************************************************)
(* Groups, their members and their invite links                            *)
(* (internal/service/group_service.go): calls are served concurrently by a *)
(* fixed number of workers, and each query is a step.  Names and emojis     *)
(* are kept only as whether they were ever patched; currencies are left    *)
(* out, for they are fixed when a group is made.                           *)
(***************************************************************************)
EXTENDS Integers, FiniteSets

CONSTANTS
  Users,
  Groups,               \* ids the sequence hands out (a bound)
  OldGroups,            \* the groups made before there were invite tokens
  InviteTokens,         \* random tokens of one behaviour (a bound)
  Workers,              \* calls under way at once
  Mixes,                \* what may go on in one behaviour (a bound)
  NoUser, NoGroup, NoInvite

ASSUME GroupsAssumption ==
  /\ OldGroups \subseteq Groups
  /\ NoUser \notin Users /\ NoGroup \notin Groups /\ NoInvite \notin InviteTokens

VARIABLES
  mix,                  \* what goes on in this behaviour
  group,                \* groups: the row of each
  members,              \* group_users
  given,                \* no variable of the code: the invites answered
  call,                 \* the call each worker serves
  pc                    \* its next step

groupVars == <<mix, group, members, given, call, pc>>

-----------------------------------------------------------------------------
(* Data *)

Labels == {"name", "emoji"}

GroupRows == [status : {"unused", "live", "gone"}, creator : Users \cup {NoUser},
              token : InviteTokens \cup {NoInvite}, patched : SUBSET Labels]

UnusedGroup == [status |-> "unused", creator |-> NoUser, token |-> NoInvite, patched |-> {}]

LiveGroup(creator, token) ==
  [status |-> "live", creator |-> creator, token |-> token, patched |-> {}]

LiveGroups == {g \in Groups : group[g].status = "live"}

\* isMember of a group that is there: what VerifyMembership lets pass.
isMember(u, g) == g \in LiveGroups /\ u \in members[g]

GetByInviteToken(t) == {g \in LiveGroups : group[g].token = t}

\* generateInviteToken: no two random tokens are ever the same.
generateInviteToken == {t \in InviteTokens : \A g \in Groups : group[g].token # t}

GroupCalls ==
  [op : {"create"}, user : Users, group : {NoGroup}, token : {NoInvite}, patch : {{}}]
    \cup [op : {"invite"}, user : Users, group : Groups, token : {NoInvite}, patch : {{}}]
    \cup [op : {"join"}, user : Users, group : {NoGroup}, token : InviteTokens, patch : {{}}]
    \cup [op : {"patch"}, user : Users, group : Groups, token : {NoInvite},
          patch : SUBSET Labels \ {{}}]

\* A call to join, once it has found the group of its token.
JoiningCalls ==
  [op : {"join"}, user : Users, group : Groups, token : InviteTokens, patch : {{}}]

NullCall == [op |-> "none"]

FirstStep == [create |-> "create", invite |-> "invite", join |-> "find_group", patch |-> "patch"]

Goto(w, step) == pc' = [pc EXCEPT ![w] = step]

\* The call is over, answered or failed, and its worker is free.
Finish(w) == Goto(w, "idle") /\ call' = [call EXCEPT ![w] = NullCall]

-----------------------------------------------------------------------------
\* The creator of an old group is a member, and others may be.
GroupsInit ==
  /\ mix \in Mixes
  /\ \E creator \in [OldGroups -> Users] :
       /\ group = [g \in Groups |-> IF g \in OldGroups THEN LiveGroup(creator[g], NoInvite)
                                                      ELSE UnusedGroup]
       /\ members \in [Groups -> SUBSET Users]
       /\ \A g \in OldGroups : creator[g] \in members[g]
       /\ \A g \in Groups \ OldGroups : members[g] = {}
  /\ given = {}
  /\ call = [w \in Workers |-> NullCall]
  /\ pc = [w \in Workers |-> "idle"]

\* A behaviour serves calls of some kinds only, and so many at once.
Free(w) == pc[w] = "idle" /\ Cardinality({v \in Workers : pc[v] # "idle"}) < mix.calls

\* Clients name groups they have heard of.
AcceptGroupCall(w) ==
  /\ Free(w)
  /\ \E c \in GroupCalls :
       /\ c.op \in mix.ops
       /\ c.group # NoGroup => group[c.group].status # "unused"
       /\ call' = [call EXCEPT ![w] = c]
       /\ Goto(w, FirstStep[c.op])
  /\ UNCHANGED <<mix, group, members, given>>

-----------------------------------------------------------------------------
\* A slip, not the code's: the candidate token is written whatever is there.
SetInviteToken(w) ==
  /\ pc[w] = "set_token"
  /\ LET g == call[w].group
     IN  \E t \in generateInviteToken :
           group' = IF g \in LiveGroups THEN [group EXCEPT ![g].token = t] ELSE group
  /\ Goto(w, "reread_token")
  /\ UNCHANGED <<mix, members, given, call>>

-----------------------------------------------------------------------------
\* CreateGroup, with its creator as first member, in one transaction.
CreateGroup(w) ==
  /\ pc[w] = "create"
  /\ \E g \in Groups, t \in generateInviteToken :
       /\ group[g].status = "unused"
       /\ group' = [group EXCEPT ![g] = LiveGroup(call[w].user, t)]
       /\ members' = [members EXCEPT ![g] = {call[w].user}]
  /\ Finish(w)
  /\ UNCHANGED <<mix, given>>

\* GetInviteToken: only a group without a token is given one.
ReadInviteToken(w) ==
  /\ pc[w] = "invite"
  /\ LET g == call[w].group
     IN  \/ /\ isMember(call[w].user, g)
            /\ group[g].token = NoInvite
            /\ Goto(w, "set_token")
            /\ UNCHANGED <<given, call>>
         \/ /\ isMember(call[w].user, g)
            /\ group[g].token # NoInvite
            /\ given' = given \cup {[group |-> g, token |-> group[g].token]}
            /\ Finish(w)
         \/ /\ ~isMember(call[w].user, g)
            /\ Finish(w)
            /\ UNCHANGED given
  /\ UNCHANGED <<mix, group, members>>

\* The UPDATE matches only a row without a token.
SetInviteTokenIfEmpty(w) ==
  /\ pc[w] = "set_token"
  /\ LET g == call[w].group
     IN  \/ /\ g \in LiveGroups /\ group[g].token = NoInvite
            /\ \E t \in generateInviteToken : group' = [group EXCEPT ![g].token = t]
         \/ /\ ~(g \in LiveGroups /\ group[g].token = NoInvite)
            /\ UNCHANGED group
  /\ Goto(w, "reread_token")
  /\ UNCHANGED <<mix, members, given, call>>

\* The winner's token is what every caller is told.
RereadInviteToken(w) ==
  /\ pc[w] = "reread_token"
  /\ LET g == call[w].group
     IN  given' = IF g \in LiveGroups
                  THEN given \cup {[group |-> g, token |-> group[g].token]}
                  ELSE given
  /\ Finish(w)
  /\ UNCHANGED <<mix, group, members>>

\* JoinGroup: the token leads to at most one group.
FindGroup(w) ==
  /\ pc[w] = "find_group"
  /\ \/ \E g \in GetByInviteToken(call[w].token) :
          /\ call' = [call EXCEPT ![w].group = g]
          /\ Goto(w, "add_member")
     \/ GetByInviteToken(call[w].token) = {} /\ Finish(w)
  /\ UNCHANGED <<mix, group, members, given>>

\* ON CONFLICT DO NOTHING; the foreign key refuses a group that has gone.
AddMember(w) ==
  /\ pc[w] = "add_member"
  /\ LET g == call[w].group
     IN  members' = IF g \in LiveGroups
                    THEN [members EXCEPT ![g] = @ \cup {call[w].user}]
                    ELSE members
  /\ Finish(w)
  /\ UNCHANGED <<mix, group, given>>

\* UpdateGroup: the caller's membership first, then the fields it names.
CheckPatch(w) ==
  /\ pc[w] = "patch"
  /\ IF isMember(call[w].user, call[w].group)
     THEN Goto(w, "update_group") /\ UNCHANGED call
     ELSE Finish(w)
  /\ UNCHANGED <<mix, group, members, given>>

UpdateNameAndEmoji(w) ==
  /\ pc[w] = "update_group"
  /\ LET g == call[w].group
     IN  group' = IF g \in LiveGroups
                  THEN [group EXCEPT ![g].patched = @ \cup call[w].patch]
                  ELSE group
  /\ Finish(w)
  /\ UNCHANGED <<mix, members, given>>

\* A query fails, the client goes away, or the server dies.
Fail(w) ==
  /\ pc[w] # "idle"
  /\ Finish(w)
  /\ UNCHANGED <<mix, group, members, given>>

GroupStep(w) ==
  \/ CreateGroup(w) \/ ReadInviteToken(w) \/ SetInviteTokenIfEmpty(w) \/ RereadInviteToken(w)
  \/ FindGroup(w) \/ AddMember(w) \/ CheckPatch(w) \/ UpdateNameAndEmoji(w)

GroupsNext == \E w \in Workers : AcceptGroupCall(w) \/ GroupStep(w) \/ Fail(w)

GroupsSpec == GroupsInit /\ [][GroupsNext]_groupVars

-----------------------------------------------------------------------------
(* Properties *)

GroupCallOK(w) ==
  /\ pc[w] \in {"create", "invite", "find_group", "patch"} =>
       call[w] \in GroupCalls /\ FirstStep[call[w].op] = pc[w]
  /\ pc[w] \in {"set_token", "reread_token"} => call[w] \in GroupCalls /\ call[w].op = "invite"
  /\ pc[w] = "reread_token" /\ call[w].group \in LiveGroups =>
       group[call[w].group].token # NoInvite
  /\ pc[w] = "add_member" => call[w] \in JoiningCalls
  /\ pc[w] = "update_group" => call[w] \in GroupCalls /\ call[w].op = "patch"

GroupsTypeOK ==
  /\ group \in [Groups -> GroupRows]
  /\ members \in [Groups -> SUBSET Users]
  /\ given \subseteq [group : Groups, token : InviteTokens]
  /\ DOMAIN call = Workers /\ DOMAIN pc = Workers
  /\ \A g \in Groups \ LiveGroups : members[g] = {}
  /\ \A g \in LiveGroups : group[g].creator \in members[g]
  /\ \A w \in Workers : GroupCallOK(w)

\* Every invite that was ever answered still leads to its group, and to no
\* other, as long as the group is there: callers that find no token at once
\* make one each, but all are told the one that stays ("so concurrent
\* 'generate a token' requests can't clobber each other").
OneInvite ==
  \A i \in given : i.group \in LiveGroups => GetByInviteToken(i.token) = {i.group}

\* What OneInvite rests on: the row of a group keeps the token it gave, no
\* two rows have the same, and a group not made yet has none.
TokensOK ==
  /\ \A g \in Groups : group[g].status = "unused" => group[g].token = NoInvite
  /\ \A i \in given : group[i.group].token = i.token
  /\ \A g, h \in Groups : group[g].token = group[h].token /\ group[g].token # NoInvite => g = h

=============================================================================
