-------------------------- MODULE RetentionProofs --------------------------
(***************************************************************************)
(* Groups, their contents and the purge: what holds of them together, for  *)
(* any number of users, groups, entries, comments, images, calls and       *)
(* instances, and any interval and retention.  First what the steps of     *)
(* Groups keep, then those of Contents, then those of Retention.           *)
(***************************************************************************)
EXTENDS Retention, TLAPS

-----------------------------------------------------------------------------
(* THE STEPS OF GROUPS *)

(* The shape of the data *)

\* What a call about groups carries, by its kind.
LEMMA GroupCallShape ==
  ASSUME NEW c \in GroupCalls
  PROVE  /\ c.op \in {"create", "invite", "join", "patch"} /\ c.user \in Users
         /\ c.op \in {"invite", "patch"} => c.group \in Groups
         /\ c.op \in {"create", "join"} => c.group = NoGroup
         /\ c.op = "patch" => c.patch \in SUBSET Labels
  BY DEF GroupCalls

\* A call to join that has found its group carries it.
LEMMA JoiningShape ==
  ASSUME NEW c \in JoiningCalls
  PROVE  c.op = "join" /\ c.user \in Users /\ c.group \in Groups
  BY DEF JoiningCalls

\* A call to join that has found its group.
LEMMA JoinFinds ==
  ASSUME NEW c \in GroupCalls, c.op = "join", NEW g \in Groups
  PROVE  [c EXCEPT !.group = g] \in JoiningCalls
  BY DEF GroupCalls, JoiningCalls

\* A new group is a row, live, with the creator and the token it was given.
LEMMA NewGroupShape ==
  ASSUME NEW u \in Users, NEW t \in InviteTokens \cup {NoInvite}
  PROVE  /\ LiveGroup(u, t) \in GroupRows
         /\ LiveGroup(u, t).status = "live" /\ LiveGroup(u, t).creator = u
         /\ LiveGroup(u, t).token = t
  BY DEF LiveGroup, GroupRows

\* A group not made yet has no token.
LEMMA UnusedGroupShape ==
  /\ UnusedGroup \in GroupRows /\ UnusedGroup.status = "unused" /\ UnusedGroup.token = NoInvite
  BY DEF UnusedGroup, GroupRows

\* The columns of a group.
LEMMA GroupRowShape ==
  ASSUME NEW r \in GroupRows
  PROVE  /\ r.status \in {"unused", "live", "gone"} /\ r.creator \in Users \cup {NoUser}
         /\ r.token \in InviteTokens \cup {NoInvite}
  BY DEF GroupRows

\* Setting the token changes nothing else of a row.
LEMMA TokenSet ==
  ASSUME NEW r \in GroupRows, NEW t \in InviteTokens
  PROVE  /\ [r EXCEPT !.token = t] \in GroupRows
         /\ [r EXCEPT !.token = t].status = r.status
         /\ [r EXCEPT !.token = t].creator = r.creator
         /\ [r EXCEPT !.token = t].token = t
  BY DEF GroupRows

\* Patching name and emoji changes nothing else of a row.
LEMMA LabelsSet ==
  ASSUME NEW r \in GroupRows, NEW p \in SUBSET Labels
  PROVE  /\ [r EXCEPT !.patched = @ \cup p] \in GroupRows
         /\ [r EXCEPT !.patched = @ \cup p].status = r.status
         /\ [r EXCEPT !.patched = @ \cup p].creator = r.creator
         /\ [r EXCEPT !.patched = @ \cup p].token = r.token
  BY DEF GroupRows

-----------------------------------------------------------------------------
(* What a step leaves as it was *)

\* The worker of a step is the only one whose call goes on.
Moved(w) ==
  /\ DOMAIN call' = Workers /\ DOMAIN pc' = Workers
  /\ \A v \in Workers \ {w} : pc'[v] = pc[v] /\ call'[v] = call[v]

\* Ending a call moves its worker only.
LEMMA FinishMoves ==
  ASSUME DOMAIN call = Workers, DOMAIN pc = Workers, NEW w \in Workers, Finish(w)
  PROVE  Moved(w) /\ pc'[w] = "idle" /\ call'[w] = NullCall
  BY DEF Finish, Goto, Moved

\* Going on moves a worker only, and keeps its call.
LEMMA GotoMoves ==
  ASSUME DOMAIN call = Workers, DOMAIN pc = Workers, NEW w \in Workers, NEW step,
         Goto(w, step), UNCHANGED call
  PROVE  Moved(w) /\ pc'[w] = step /\ call'[w] = call[w]
  BY DEF Goto, Moved

\* A group that was made is never unmade nor comes back, keeps its creator and
\* its token, and while it is there only gains members; a new one has a token.
GroupsLast ==
  \A g \in Groups :
    /\ group[g].status # "unused" =>
         /\ group'[g].status # "unused" /\ group'[g].creator = group[g].creator
         /\ group[g].token # NoInvite => group'[g].token = group[g].token
    /\ group[g].status = "gone" => group'[g].status = "gone"
    /\ group[g].status = "unused" /\ group'[g].status # "unused" => group'[g].token # NoInvite
    /\ group'[g].status = "live" => members[g] \subseteq members'[g]

\* A call that is not served in a step suits its step still.
LEMMA SameGroupCall ==
  ASSUME GroupsTypeOK, GroupsLast, NEW v \in Workers, pc'[v] = pc[v], call'[v] = call[v]
  PROVE  GroupCallOK(v)'
  <1>1. GroupCallOK(v)
    BY DEF GroupsTypeOK
  <1>2. ASSUME pc[v] = "reread_token", call[v].group \in LiveGroups'
        PROVE  group'[call[v].group].token # NoInvite
    <2> DEFINE g == call[v].group
    <2>1. g \in Groups /\ group'[g].status = "live"
      BY <1>2 DEF LiveGroups
    <2>2. CASE group[g].status = "live"
      BY <1>1, <1>2, <2>1, <2>2 DEF GroupCallOK, GroupsLast, LiveGroups
    <2>3. CASE group[g].status # "live"
      BY <2>1, <2>3, GroupRowShape DEF GroupsLast, GroupsTypeOK
    <2> QED
      BY <2>2, <2>3
  <1> QED
    BY <1>1, <1>2 DEF GroupCallOK

\* So it is enough to look at the call that is.
LEMMA OtherGroupCalls ==
  ASSUME GroupsTypeOK, GroupsLast, NEW w \in Workers, Moved(w), GroupCallOK(w)'
  PROVE  \A v \in Workers : GroupCallOK(v)'
  BY SameGroupCall DEF Moved

\* Where the groups themselves do not change, they last.
LEMMA SameGroupsLast ==
  ASSUME UNCHANGED <<group, members>>
  PROVE  GroupsLast
  BY DEF GroupsLast

GroupsInd == GroupsTypeOK /\ TokensOK

\* A token kept by one row only leads to that group and to no other.
LEMMA InviteFromTokens ==
  ASSUME GroupsInd
  PROVE  OneInvite
  <1> SUFFICES ASSUME NEW i \in given, i.group \in LiveGroups
               PROVE  GetByInviteToken(i.token) = {i.group}
    BY DEF OneInvite
  <1>1. i.group \in Groups /\ i.token \in InviteTokens /\ group[i.group].token = i.token
    BY DEF GroupsInd, GroupsTypeOK, TokensOK
  <1>2. \A g \in Groups : group[g].token = i.token => g = i.group
    BY <1>1, GroupsAssumption DEF GroupsInd, TokensOK
  <1> QED
    BY <1>1, <1>2 DEF GetByInviteToken, LiveGroups

\* A step that changes only calls.
LEMMA GroupsKept ==
  ASSUME GroupsInd, UNCHANGED <<group, members, given>>, NEW w \in Workers, Moved(w),
         GroupCallOK(w)'
  PROVE  GroupsInd' /\ GroupsLast
  <1>1. GroupsLast
    BY SameGroupsLast
  <1>2. \A v \in Workers : GroupCallOK(v)'
    BY <1>1, OtherGroupCalls DEF GroupsInd
  <1>3. GroupsTypeOK'
    BY <1>2 DEF GroupsInd, GroupsTypeOK, LiveGroups, Moved
  <1> QED
    BY <1>1, <1>3 DEF GroupsInd, TokensOK

\* A call that is over, or one that is not about groups, is in no step of theirs.
LEMMA OutsideGroups ==
  ASSUME NEW w \in Workers,
         pc'[w] \notin {"create", "invite", "find_group", "patch", "set_token", "reread_token",
                        "add_member", "update_group"}
  PROVE  GroupCallOK(w)'
  BY DEF GroupCallOK

-----------------------------------------------------------------------------
(* The steps *)

\* The invariant holds of the groups made before there were tokens.
LEMMA GroupsStart == GroupsInit => GroupsInd
  <1> SUFFICES ASSUME GroupsInit PROVE GroupsInd
    OBVIOUS
  <1>1. PICK creator \in [OldGroups -> Users] :
          /\ group = [g \in Groups |-> IF g \in OldGroups THEN LiveGroup(creator[g], NoInvite)
                                                      ELSE UnusedGroup]
          /\ \A g \in OldGroups : creator[g] \in members[g]
          /\ \A g \in Groups \ OldGroups : members[g] = {}
    BY DEF GroupsInit
  <1>2. ASSUME NEW g \in Groups
        PROVE  /\ group[g] \in GroupRows /\ group[g].token = NoInvite
               /\ g \in LiveGroups <=> g \in OldGroups
               /\ g \in OldGroups => group[g].creator = creator[g]
    <2>1. CASE g \in OldGroups
      BY <1>1, <2>1, NewGroupShape, GroupsAssumption DEF LiveGroups
    <2>2. CASE g \notin OldGroups
      BY <1>1, <2>2, UnusedGroupShape DEF LiveGroups
    <2> QED
      BY <2>1, <2>2
  <1>3. group \in [Groups -> GroupRows]
    BY <1>1, <1>2
  <1>4. \A w \in Workers : GroupCallOK(w)
    BY DEF GroupsInit, GroupCallOK
  <1>5. GroupsTypeOK
    BY <1>1, <1>2, <1>3, <1>4, GroupsAssumption DEF GroupsInit, GroupsTypeOK, LiveGroups
  <1>6. TokensOK
    BY <1>2 DEF GroupsInit, TokensOK
  <1> QED
    BY <1>5, <1>6 DEF GroupsInd

GroupPhases == {"create", "invite", "find_group", "patch", "set_token", "reread_token",
                "add_member", "update_group"}

\* The call a worker serves next is one about groups, or none.
GroupMove(w) ==
  /\ Moved(w)
  /\ \/ pc'[w] \in GroupPhases /\ call'[w].op \in {"create", "invite", "join", "patch"}
     \/ pc'[w] = "idle" /\ call'[w] = NullCall

\* Ending a call about groups leaves its worker idle.
LEMMA GroupFinish ==
  ASSUME GroupsInd, NEW w \in Workers, Finish(w)
  PROVE  GroupMove(w) /\ GroupCallOK(w)'
  BY FinishMoves, OutsideGroups DEF GroupsInd, GroupsTypeOK, GroupMove

\* A call about groups goes on to another step about groups.
LEMMA GroupGoto ==
  ASSUME GroupsInd, NEW w \in Workers, NEW step \in GroupPhases, Goto(w, step), UNCHANGED call,
         call[w].op \in {"create", "invite", "join", "patch"}
  PROVE  GroupMove(w) /\ pc'[w] = step /\ call'[w] = call[w]
  BY GotoMoves DEF GroupsInd, GroupsTypeOK, GroupMove

\* A new call begins at the first step of its kind.
LEMMA AcceptGroupKeeps ==
  ASSUME GroupsInd, NEW w \in Workers, AcceptGroupCall(w)
  PROVE  GroupsInd' /\ GroupsLast /\ GroupMove(w)
  <1>1. PICK c \in GroupCalls : call' = [call EXCEPT ![w] = c] /\ Goto(w, FirstStep[c.op])
    BY DEF AcceptGroupCall
  <1>2. /\ DOMAIN call = Workers /\ DOMAIN pc = Workers
        /\ UNCHANGED <<group, members, given>>
    BY DEF GroupsInd, GroupsTypeOK, AcceptGroupCall
  <1>3. Moved(w) /\ call'[w] = c /\ pc'[w] = FirstStep[c.op]
    BY <1>1, <1>2 DEF Goto, Moved
  <1>4. c.op \in {"create", "invite", "join", "patch"}
    BY GroupCallShape
  <1>5. FirstStep[c.op] \in {"create", "invite", "find_group", "patch"}
    BY <1>4 DEF FirstStep
  <1>6. GroupCallOK(w)'
    BY <1>3, <1>4, <1>5 DEF GroupCallOK, FirstStep
  <1> QED
    BY <1>2, <1>3, <1>4, <1>5, <1>6, GroupsKept DEF GroupMove, GroupPhases

\* A new group has its creator for member and a token nobody else has.
LEMMA CreateGroupKeeps ==
  ASSUME GroupsInd, NEW w \in Workers, CreateGroup(w)
  PROVE  GroupsInd' /\ GroupsLast /\ GroupMove(w)
  <1> DEFINE u == call[w].user
  <1>1. u \in Users
    BY GroupCallShape DEF CreateGroup, GroupsInd, GroupsTypeOK, GroupCallOK
  <1>2. PICK g \in Groups, t \in InviteTokens :
          /\ \A h \in Groups : group[h].token # t
          /\ group[g].status = "unused"
          /\ group' = [group EXCEPT ![g] = LiveGroup(u, t)]
          /\ members' = [members EXCEPT ![g] = {u}]
    BY DEF CreateGroup, generateInviteToken
  <1>3. GroupMove(w) /\ GroupCallOK(w)'
    BY GroupFinish DEF CreateGroup
  <1>4. /\ group'[g] = LiveGroup(u, t) /\ members'[g] = {u}
        /\ \A h \in Groups \ {g} : group'[h] = group[h] /\ members'[h] = members[h]
    BY <1>2 DEF GroupsInd, GroupsTypeOK
  <1>5. /\ group'[g].status = "live" /\ group'[g].creator = u /\ group'[g].token = t
        /\ group'[g] \in GroupRows
    BY <1>1, <1>4, NewGroupShape
  <1>6. members[g] = {}
    BY <1>2 DEF GroupsInd, GroupsTypeOK, LiveGroups
  <1>7. GroupsLast
    BY <1>2, <1>4, <1>5, <1>6, GroupsAssumption DEF GroupsLast
  <1>8. \A v \in Workers : GroupCallOK(v)'
    BY <1>3, <1>7, OtherGroupCalls DEF GroupsInd, GroupMove
  <1>9. group' \in [Groups -> GroupRows] /\ members' \in [Groups -> SUBSET Users]
    BY <1>1, <1>2, <1>5, NewGroupShape DEF GroupsInd, GroupsTypeOK
  <1>10. \A h \in Groups :
           /\ h \in LiveGroups' => group'[h].creator \in members'[h]
           /\ h \notin LiveGroups' => members'[h] = {}
    BY <1>4, <1>5 DEF GroupsInd, GroupsTypeOK, LiveGroups
  <1>11. GroupsTypeOK'
    BY <1>3, <1>8, <1>9, <1>10 DEF GroupsInd, GroupsTypeOK, GroupMove, Moved, CreateGroup, LiveGroups
  <1>12. \A i \in given : i.group # g
    BY <1>2, GroupsAssumption DEF GroupsInd, TokensOK, GroupsTypeOK
  <1>13. TokensOK'
    BY <1>2, <1>4, <1>5, <1>12 DEF CreateGroup, TokensOK, GroupsInd, GroupsTypeOK
  <1> QED
    BY <1>3, <1>7, <1>11, <1>13 DEF GroupsInd

\* A step that changes groups otherwise than by making one.
LEMMA ExistingGroups ==
  ASSUME GroupsInd, NEW w \in Workers, GroupMove(w), GroupCallOK(w)', UNCHANGED given, GroupsLast,
         group' \in [Groups -> GroupRows], members' \in [Groups -> SUBSET Users],
         \A g \in Groups : group'[g].status = group[g].status /\ members[g] \subseteq members'[g],
         \A g \in Groups \ LiveGroups : UNCHANGED group[g] /\ UNCHANGED members[g]
  PROVE  GroupsTypeOK'
  <1>1. LiveGroups' = LiveGroups
    BY DEF LiveGroups
  <1>2. \A v \in Workers : GroupCallOK(v)'
    BY OtherGroupCalls DEF GroupsInd, GroupMove
  <1>3. \A g \in LiveGroups : group'[g].creator = group[g].creator
    BY DEF GroupsLast, LiveGroups
  <1> QED
    BY <1>1, <1>2, <1>3 DEF GroupsInd, GroupsTypeOK, GroupMove, Moved, LiveGroups

\* The token answered is the group's own.
LEMMA ReadInviteKeeps ==
  ASSUME GroupsInd, NEW w \in Workers, ReadInviteToken(w)
  PROVE  GroupsInd' /\ GroupsLast /\ GroupMove(w)
  <1> DEFINE g == call[w].group
  <1>1. call[w] \in GroupCalls /\ g \in Groups /\ call[w].op = "invite"
    BY GroupCallShape DEF ReadInviteToken, GroupsInd, GroupsTypeOK, GroupCallOK, FirstStep
  <1>2. UNCHANGED <<group, members>>
    BY DEF ReadInviteToken
  <1>3. CASE Goto(w, "set_token") /\ UNCHANGED <<given, call>>
    <2>1. GroupMove(w) /\ pc'[w] = "set_token" /\ call'[w] = call[w]
      BY <1>1, <1>3, GroupGoto DEF GroupPhases
    <2>2. GroupCallOK(w)'
      BY <1>1, <2>1 DEF GroupCallOK
    <2> QED
      BY <1>2, <1>3, <2>1, <2>2, GroupsKept DEF GroupMove
  <1>4. CASE /\ isMember(call[w].user, g) /\ group[g].token # NoInvite
             /\ given' = given \cup {[group |-> g, token |-> group[g].token]} /\ Finish(w)
    <2>1. group[g].token \in InviteTokens
      BY <1>1, <1>4, GroupRowShape DEF GroupsInd, GroupsTypeOK
    <2>2. GroupMove(w) /\ GroupCallOK(w)' /\ GroupsLast
      BY <1>2, <1>4, GroupFinish, SameGroupsLast
    <2>3. \A v \in Workers : GroupCallOK(v)'
      BY <2>2, OtherGroupCalls DEF GroupsInd, GroupMove
    <2>4. GroupsTypeOK'
      BY <1>1, <1>2, <1>4, <2>1, <2>2, <2>3
      DEF GroupsInd, GroupsTypeOK, GroupMove, Moved, LiveGroups
    <2>5. TokensOK'
      BY <1>2, <1>4 DEF GroupsInd, TokensOK
    <2> QED
      BY <2>2, <2>4, <2>5 DEF GroupsInd
  <1>5. CASE Finish(w) /\ UNCHANGED given
    BY <1>2, <1>5, GroupFinish, GroupsKept DEF GroupMove
  <1> QED
    BY <1>3, <1>4, <1>5 DEF ReadInviteToken

\* Only a group without a token gets one, so no invite given before dies.
LEMMA SetTokenKeeps ==
  ASSUME GroupsInd, NEW w \in Workers, SetInviteTokenIfEmpty(w)
  PROVE  GroupsInd' /\ GroupsLast /\ GroupMove(w)
  <1> DEFINE g == call[w].group
  <1>1. call[w] \in GroupCalls /\ g \in Groups /\ call[w].op = "invite"
    BY GroupCallShape DEF SetInviteTokenIfEmpty, GroupsInd, GroupsTypeOK, GroupCallOK
  <1>2. UNCHANGED <<members, given>>
    BY DEF SetInviteTokenIfEmpty
  <1>3. GroupMove(w) /\ pc'[w] = "reread_token" /\ call'[w] = call[w]
    BY <1>1, GroupGoto DEF GroupPhases, SetInviteTokenIfEmpty
  <1>4. CASE g \in LiveGroups /\ group[g].token = NoInvite
    <2>1. PICK t \in InviteTokens :
            (\A h \in Groups : group[h].token # t) /\ group' = [group EXCEPT ![g].token = t]
      BY <1>4 DEF SetInviteTokenIfEmpty, generateInviteToken
    <2>2. /\ group'[g] = [group[g] EXCEPT !.token = t]
          /\ \A h \in Groups \ {g} : group'[h] = group[h]
      BY <1>1, <2>1 DEF GroupsInd, GroupsTypeOK
    <2>3. /\ group'[g] \in GroupRows /\ group'[g].status = group[g].status
          /\ group'[g].creator = group[g].creator /\ group'[g].token = t
      BY <1>1, <2>2, TokenSet DEF GroupsInd, GroupsTypeOK
    <2>4. GroupsLast
      BY <1>2, <1>4, <2>2, <2>3 DEF GroupsLast
    <2>5. group' \in [Groups -> GroupRows]
      BY <1>1, <2>1, TokenSet DEF GroupsInd, GroupsTypeOK
    <2>6. GroupCallOK(w)'
      BY <1>1, <1>3, <2>3, GroupsAssumption DEF GroupCallOK
    <2>7. GroupsTypeOK'
      BY <1>2, <1>3, <1>4, <2>2, <2>3, <2>4, <2>5, <2>6, ExistingGroups DEF GroupsInd, GroupsTypeOK
    <2>8. \A i \in given : i.group # g
      BY <1>4, GroupsAssumption DEF GroupsInd, GroupsTypeOK, TokensOK
    <2>9. TokensOK'
      BY <1>2, <1>4, <2>1, <2>2, <2>3, <2>8 DEF GroupsInd, GroupsTypeOK, TokensOK, LiveGroups
    <2> QED
      BY <1>3, <2>4, <2>7, <2>9 DEF GroupsInd
  <1>5. CASE UNCHANGED group /\ ~(g \in LiveGroups /\ group[g].token = NoInvite)
    <2>1. GroupCallOK(w)'
      BY <1>1, <1>3, <1>5 DEF GroupCallOK, LiveGroups
    <2> QED
      BY <1>2, <1>3, <1>5, <2>1, GroupsKept DEF GroupMove
  <1> QED
    BY <1>4, <1>5 DEF SetInviteTokenIfEmpty

\* The token read again is there, for no group loses its own.
LEMMA RereadKeeps ==
  ASSUME GroupsInd, NEW w \in Workers, RereadInviteToken(w)
  PROVE  GroupsInd' /\ GroupsLast /\ GroupMove(w)
  <1> DEFINE g == call[w].group
  <1>1. call[w] \in GroupCalls /\ g \in Groups /\ call[w].op = "invite"
    BY GroupCallShape DEF RereadInviteToken, GroupsInd, GroupsTypeOK, GroupCallOK
  <1>2. UNCHANGED <<group, members>> /\ Finish(w)
    BY DEF RereadInviteToken
  <1>3. GroupMove(w) /\ GroupCallOK(w)' /\ GroupsLast
    BY <1>2, GroupFinish, SameGroupsLast
  <1>4. CASE g \in LiveGroups /\ given' = given \cup {[group |-> g, token |-> group[g].token]}
    <2>1. group[g].token \in InviteTokens
      BY <1>1, <1>4, GroupRowShape DEF RereadInviteToken, GroupsInd, GroupsTypeOK, GroupCallOK
    <2>2. \A v \in Workers : GroupCallOK(v)'
      BY <1>3, OtherGroupCalls DEF GroupsInd, GroupMove
    <2>3. GroupsTypeOK'
      BY <1>1, <1>2, <1>3, <1>4, <2>1, <2>2
      DEF GroupsInd, GroupsTypeOK, GroupMove, Moved, LiveGroups
    <2>4. TokensOK'
      BY <1>2, <1>4 DEF GroupsInd, TokensOK
    <2> QED
      BY <1>3, <2>3, <2>4 DEF GroupsInd
  <1>5. CASE UNCHANGED given
    BY <1>2, <1>3, <1>5, GroupsKept DEF GroupMove
  <1> QED
    BY <1>4, <1>5 DEF RereadInviteToken

\* A token leads a joining call to a group.
LEMMA FindGroupKeeps ==
  ASSUME GroupsInd, NEW w \in Workers, FindGroup(w)
  PROVE  GroupsInd' /\ GroupsLast /\ GroupMove(w)
  <1>1. call[w] \in GroupCalls /\ call[w].op = "join"
    BY GroupCallShape DEF FindGroup, GroupsInd, GroupsTypeOK, GroupCallOK, FirstStep
  <1>2. UNCHANGED <<group, members, given>>
    BY DEF FindGroup
  <1>3. ASSUME NEW g \in GetByInviteToken(call[w].token),
               call' = [call EXCEPT ![w].group = g], Goto(w, "add_member")
        PROVE  GroupMove(w) /\ GroupCallOK(w)'
    <2>1. g \in Groups
      BY DEF GetByInviteToken, LiveGroups
    <2>2. call'[w] = [call[w] EXCEPT !.group = g] /\ Moved(w) /\ pc'[w] = "add_member"
      BY <1>3 DEF GroupsInd, GroupsTypeOK, Goto, Moved
    <2>3. call'[w] \in JoiningCalls /\ call'[w].op = "join"
      BY <1>1, <2>1, <2>2, JoinFinds, JoiningShape
    <2> QED
      BY <2>2, <2>3 DEF GroupMove, GroupPhases, GroupCallOK
  <1>4. ASSUME Finish(w) PROVE GroupMove(w) /\ GroupCallOK(w)'
    BY <1>4, GroupFinish
  <1>5. GroupMove(w) /\ GroupCallOK(w)'
    BY <1>3, <1>4 DEF FindGroup
  <1> QED
    BY <1>2, <1>5, GroupsKept DEF GroupMove

\* A new member comes to a group that is there, or not at all.
LEMMA AddMemberKeeps ==
  ASSUME GroupsInd, NEW w \in Workers, AddMember(w)
  PROVE  GroupsInd' /\ GroupsLast /\ GroupMove(w)
  <1> DEFINE g == call[w].group
             u == call[w].user
  <1>1. g \in Groups /\ u \in Users
    BY JoiningShape DEF AddMember, GroupsInd, GroupsTypeOK, GroupCallOK
  <1>2. UNCHANGED <<group, given>> /\ GroupMove(w) /\ GroupCallOK(w)'
    BY GroupFinish DEF AddMember
  <1>3. CASE members' = [members EXCEPT ![g] = @ \cup {u}] /\ g \in LiveGroups
    <2>1. /\ members' \in [Groups -> SUBSET Users]
          /\ \A h \in Groups : members[h] \subseteq members'[h]
          /\ \A h \in Groups \ LiveGroups : members'[h] = members[h]
      BY <1>1, <1>3 DEF GroupsInd, GroupsTypeOK
    <2>2. GroupsLast
      BY <1>2, <2>1 DEF GroupsLast
    <2>3. group' \in [Groups -> GroupRows]
      BY <1>2 DEF GroupsInd, GroupsTypeOK
    <2>4. GroupsTypeOK'
      BY <1>2, <2>1, <2>2, <2>3, ExistingGroups
    <2> QED
      BY <1>2, <2>2, <2>4 DEF GroupsInd, TokensOK
  <1>4. CASE UNCHANGED members
    BY <1>2, <1>4, GroupsKept DEF GroupMove
  <1> QED
    BY <1>3, <1>4 DEF AddMember

\* Names and emojis are no matter to members and tokens.
LEMMA PatchKeeps ==
  ASSUME GroupsInd, NEW w \in Workers, CheckPatch(w) \/ UpdateNameAndEmoji(w)
  PROVE  GroupsInd' /\ GroupsLast /\ GroupMove(w)
  <1> DEFINE g == call[w].group
             p == call[w].patch
  <1>1. call[w] \in GroupCalls /\ g \in Groups /\ p \in SUBSET Labels /\ call[w].op = "patch"
    BY GroupCallShape
    DEF CheckPatch, UpdateNameAndEmoji, GroupsInd, GroupsTypeOK, GroupCallOK, FirstStep
  <1>2. UNCHANGED <<members, given>>
    BY DEF CheckPatch, UpdateNameAndEmoji
  <1>3. CASE CheckPatch(w) /\ isMember(call[w].user, g)
    <2>1. GroupMove(w) /\ pc'[w] = "update_group" /\ call'[w] = call[w]
      BY <1>1, <1>3, GroupGoto DEF GroupPhases, CheckPatch
    <2>2. GroupCallOK(w)'
      BY <1>1, <2>1 DEF GroupCallOK
    <2> QED
      BY <1>2, <1>3, <2>1, <2>2, GroupsKept DEF GroupMove, CheckPatch
  <1>4. CASE Finish(w) /\ UNCHANGED group
    BY <1>2, <1>4, GroupFinish, GroupsKept DEF GroupMove
  <1>5. CASE Finish(w) /\ g \in LiveGroups /\ group' = [group EXCEPT ![g].patched = @ \cup p]
    <2>1. GroupMove(w) /\ GroupCallOK(w)'
      BY <1>5, GroupFinish
    <2>2. /\ group'[g] = [group[g] EXCEPT !.patched = @ \cup p]
          /\ \A h \in Groups \ {g} : group'[h] = group[h]
      BY <1>1, <1>5 DEF GroupsInd, GroupsTypeOK
    <2>r. group[g] \in GroupRows
      BY <1>1 DEF GroupsInd, GroupsTypeOK
    <2>3. /\ group'[g] \in GroupRows /\ group'[g].status = group[g].status
          /\ group'[g].creator = group[g].creator /\ group'[g].token = group[g].token
      BY <1>1, <2>2, <2>r, LabelsSet
    <2>4. group' \in [Groups -> GroupRows]
      BY <1>1, <1>5, <2>2, <2>3 DEF GroupsInd, GroupsTypeOK
    <2>5. GroupsLast
      BY <1>2, <2>2, <2>3 DEF GroupsLast
    <2>6. GroupsTypeOK'
      BY <1>2, <1>5, <2>1, <2>2, <2>3, <2>4, <2>5, ExistingGroups DEF GroupsInd, GroupsTypeOK
    <2>7. TokensOK'
      <3>1. \A h \in Groups : group'[h].token = group[h].token /\ group'[h].status = group[h].status
        BY <2>2, <2>3
      <3> QED
        BY <1>2, <3>1 DEF GroupsInd, GroupsTypeOK, TokensOK
    <2> QED
      BY <2>1, <2>5, <2>6, <2>7 DEF GroupsInd
  <1> QED
    BY <1>3, <1>4, <1>5 DEF CheckPatch, UpdateNameAndEmoji

\* Every step of a call about groups.
LEMMA GroupStepKeeps ==
  ASSUME GroupsInd, NEW w \in Workers, AcceptGroupCall(w) \/ GroupStep(w)
  PROVE  GroupsInd' /\ GroupsLast /\ GroupMove(w)
  BY AcceptGroupKeeps, CreateGroupKeeps, ReadInviteKeeps, SetTokenKeeps, RereadKeeps,
     FindGroupKeeps, AddMemberKeeps, PatchKeeps
  DEF GroupStep

\* None of them makes a group go, or is taken in another phase.
LEMMA GroupStepIsMild ==
  ASSUME GroupsInd, NEW w \in Workers, AcceptGroupCall(w) \/ GroupStep(w)
  PROVE  LiveGroups \subseteq LiveGroups' /\ pc[w] \in GroupPhases \cup {"idle"}
  <1>1. pc[w] \in GroupPhases \cup {"idle"}
    BY DEF AcceptGroupCall, Free, GroupStep, CreateGroup, ReadInviteToken, SetInviteTokenIfEmpty,
           RereadInviteToken, FindGroup, AddMember, CheckPatch, UpdateNameAndEmoji, GroupPhases
  <1>2. ASSUME UNCHANGED group PROVE LiveGroups \subseteq LiveGroups'
    BY <1>2 DEF LiveGroups
  <1>3. ASSUME CreateGroup(w) PROVE LiveGroups \subseteq LiveGroups'
    BY <1>3 DEF LiveGroups, CreateGroup, GroupsInd, GroupsTypeOK
  <1>4. ASSUME SetInviteTokenIfEmpty(w) PROVE LiveGroups \subseteq LiveGroups'
    <2>1. \A r \in GroupRows, t \in InviteTokens : [r EXCEPT !.token = t].status = r.status
      BY TokenSet
    <2>2. ASSUME NEW t \in InviteTokens, NEW g \in Groups, group' = [group EXCEPT ![g].token = t]
          PROVE  LiveGroups \subseteq LiveGroups'
      BY <2>1, <2>2 DEF LiveGroups, GroupsInd, GroupsTypeOK
    <2> QED
      BY <1>4, <1>2, <2>2 DEF LiveGroups, SetInviteTokenIfEmpty, generateInviteToken
  <1>5. ASSUME UpdateNameAndEmoji(w) PROVE LiveGroups \subseteq LiveGroups'
    <2>1. call[w].patch \in SUBSET Labels
      BY <1>5, GroupCallShape DEF UpdateNameAndEmoji, GroupsInd, GroupsTypeOK, GroupCallOK
    <2>2. \A r \in GroupRows : [r EXCEPT !.patched = @ \cup call[w].patch].status = r.status
      BY <2>1, LabelsSet
    <2> QED
      BY <1>5, <2>2 DEF LiveGroups, UpdateNameAndEmoji, GroupsInd, GroupsTypeOK
  <1> QED
    BY <1>1, <1>2, <1>3, <1>4, <1>5
    DEF AcceptGroupCall, GroupStep, ReadInviteToken, RereadInviteToken, FindGroup, AddMember, CheckPatch

-----------------------------------------------------------------------------
(* THE STEPS OF CONTENTS *)

(* The invariant *)

GoneNames(i) == \E e \in Entries : entry[e].status = "gone" /\ i \in entry[e].named

ImportPhases == {"check_import", "read_expenses", "read_settlements", "rows"}

\* What a call has found out so far and may still rely on: that the author of
\* a comment belongs to the group, that the images it is to delete are those of
\* entries it erases or has erased, and that what was live when an import was
\* asked for no longer is.
Relies(w) ==
  /\ pc[w] = "insert_comment" /\ Stored(call[w].entry) => Belongs(call[w].user, call[w].entry)
  /\ pc[w] \in {"erase", "erase_group"} =>
       \A i \in paths[w] : \E e \in Entries :
         entry[e].status # "unused" /\ entry[e].group = call[w].group /\ i \in entry[e].named
  /\ pc[w] = "clean" => \A i \in paths[w] : GoneNames(i)
  /\ pc[w] \in ImportPhases =>
       \A e \in base[w] : entry[e].status # "unused" /\ entry[e].group = call[w].group
  /\ pc[w] \in {"read_settlements", "rows"} =>
       \A e \in base[w] : entry[e].status = "live" => entry[e].kind = "settlement"
  /\ pc[w] = "rows" => \A e \in base[w] : entry[e].status # "live"

ContentsInd ==
  /\ ContentsTypeOK /\ TokensOK /\ CommentersBelong /\ ImagesOutliveRows
  /\ \A w \in Workers : Relies(w)

\* What an import relies on at its rows is that its base is no longer live.
LEMMA ImportFromRelies ==
  ASSUME ContentsInd
  PROVE  ImportNeverRepeats
  BY DEF ContentsInd, Relies, ImportNeverRepeats

\* The parts of the invariant that most steps need.
LEMMA ContentsHasGroups ==
  ASSUME ContentsInd
  PROVE  /\ GroupsInd /\ DOMAIN call = Workers /\ DOMAIN pc = Workers
         /\ paths \in [Workers -> SUBSET Images] /\ base \in [Workers -> SUBSET Entries]
         /\ EntriesOK /\ CommentsOK /\ LocksOK
         /\ \A w \in Workers : ContentCallOK(w) /\ KnowsGroup(w) /\ Relies(w)
  BY DEF ContentsInd, ContentsTypeOK, GroupsInd, GroupsTypeOK

-----------------------------------------------------------------------------
(* What a step leaves as it was *)

\* A row that was stored is never made anew, keeps its group and kind, and
\* stays gone once it is; none goes that another deletion has locked.  A
\* comment is on a row that is stored, and is either an old one or by somebody
\* who belongs there.
RowsLast ==
  /\ \A e \in Entries :
       /\ entry[e].status # "unused" =>
            /\ entry'[e].status # "unused" /\ entry'[e].group = entry[e].group
            /\ entry'[e].kind = entry[e].kind /\ entry[e].named \subseteq entry'[e].named
       /\ entry[e].status = "gone" => entry'[e].status = "gone"
       /\ entry[e].status = "deleted" =>
            entry'[e].status \in {"deleted", "gone"} /\ entry'[e].deletedAt = entry[e].deletedAt
  /\ \A v \in Workers : erasing'[v] = erasing[v] => \A e \in erasing[v] : Stored(e)'
  /\ \A c \in Comments : IsComment(c)' =>
       /\ comment'[c].on \in Entries /\ Stored(comment[c].on)'
       /\ \/ IsComment(c) /\ comment'[c].on = comment[c].on /\ comment'[c].author = comment[c].author
          \/ Belongs(comment[c].author, comment[c].on)'

ImagesLast ==
  /\ image' \in [Images -> {"unused", "stored", "removed"}]
  /\ \A i \in Images : image'[i] = "removed" => image[i] = "removed" \/ GoneNames(i)'

\* The columns of an entry.
LEMMA EntryRowShape ==
  ASSUME NEW r \in EntryRows
  PROVE  /\ r.status \in {"unused", "live", "deleted", "gone"}
         /\ r.kind \in {"expense", "settlement"} /\ r.group \in Groups \cup {NoGroup}
         /\ r.image \in Images \cup {NoImage} /\ r.named \in SUBSET Images /\ r.deletedAt \in Nat
  BY DEF EntryRows

\* What a call that has found its entry carries.
LEMMA FoundShape ==
  ASSUME NEW op, NEW c \in FoundCalls(op)
  PROVE  /\ c.op = op /\ c.user \in Users /\ c.group \in Groups /\ c.entry \in Entries
         /\ c.image \in Images \cup {NoImage}
  BY DEF FoundCalls, ContentCall

\* What a call about contents carries, by its kind.
LEMMA ContentCallShape ==
  ASSUME NEW c \in ContentCalls
  PROVE  /\ c.op \in {"scan", "add", "settle", "edit", "remove", "comment", "uncomment", "import",
                      "delete"}
         /\ c.user \in Users
         /\ c.op \in {"add", "settle", "import", "delete"} => c.group \in Groups
         /\ c.op \in {"edit", "remove", "comment"} => c.entry \in Entries
         /\ c.op \in {"edit", "remove", "comment", "scan", "uncomment"} => c.group = NoGroup
         /\ c.op = "uncomment" => c.comment \in Comments
         /\ c.op \in {"add", "edit"} => c.image \in Images \cup {NoImage}
         /\ c.op = "add" => c.entry = NoEntry
  BY DEF ContentCalls, ContentCall

\* Whoever belongs to an entry that stays does so still, for if the group has
\* gone meanwhile the entry is a payment.
LEMMA BelongsLasts ==
  ASSUME ContentsInd, GroupsLast, RowsLast, EntriesOK', group' \in [Groups -> GroupRows],
         NEW u, NEW e \in Entries, Stored(e), Stored(e)', Belongs(u, e)
  PROVE  Belongs(u, e)'
  <1> DEFINE g == entry[e].group
  <1>1. entry'[e].group = g /\ entry'[e].kind = entry[e].kind /\ g \in Groups
    BY ContentsHasGroups DEF RowsLast, Stored, EntriesOK
  <1>2. CASE entry[e].kind = "settlement" /\ group[g].status = "gone"
    BY <1>1, <1>2 DEF Belongs, GroupsLast
  <1>3. CASE isMember(u, g) /\ g \in LiveGroups'
    BY <1>1, <1>3 DEF Belongs, isMember, GroupsLast, LiveGroups
  <1>4. CASE isMember(u, g) /\ g \notin LiveGroups'
    <2>1. group[g].status = "live"
      BY <1>4 DEF isMember, LiveGroups
    <2>2. group'[g].status # "unused" /\ group'[g].status # "live"
      BY <1>1, <1>4, <2>1 DEF GroupsLast, LiveGroups
    <2>3. group'[g].status = "gone"
      BY <1>1, <2>2, GroupRowShape
    <2>4. entry'[e].kind # "expense" /\ entry'[e] \in EntryRows
      BY <1>1, <1>4 DEF EntriesOK
    <2>5. entry'[e].kind = "settlement"
      BY <2>4, EntryRowShape
    <2> QED
      BY <1>1, <2>3, <2>5 DEF Belongs
  <1> QED
    BY <1>2, <1>3, <1>4 DEF Belongs

\* A call that does not go on in this step may rely on what it relied on.
LEMMA SameCall ==
  ASSUME ContentsInd, GroupsLast, RowsLast, EntriesOK', group' \in [Groups -> GroupRows],
         NEW v \in Workers,
         pc'[v] = pc[v], call'[v] = call[v], paths'[v] = paths[v], base'[v] = base[v]
  PROVE  GroupCallOK(v)' /\ ContentCallOK(v)' /\ KnowsGroup(v)' /\ Relies(v)'
  <1>1. ContentCallOK(v) /\ KnowsGroup(v) /\ Relies(v) /\ GroupsInd
    BY ContentsHasGroups
  <1>2. GroupCallOK(v)'
    BY <1>1, SameGroupCall DEF GroupsInd
  <1>3. KnowsGroup(v)'
    <2> SUFFICES ASSUME NEW op \in {"edit", "remove", "comment"}, call[v] \in FoundCalls(op)
                 PROVE  entry'[call[v].entry].status # "unused"
                          /\ entry'[call[v].entry].group = call[v].group
      BY DEF KnowsGroup, FoundCalls, ContentCall
    <2>1. call[v].entry \in Entries
      BY FoundShape
    <2> QED
      BY <1>1, <2>1 DEF KnowsGroup, RowsLast
  <1>4. ContentCallOK(v)'
    <2>1. ASSUME pc[v] = "update" PROVE entry'[call[v].entry].kind = "expense"
      <3>1. call[v].entry \in Entries /\ entry[call[v].entry].status # "unused"
        BY <1>1, <2>1, FoundShape DEF ContentCallOK, KnowsGroup
      <3> QED
        BY <1>1, <2>1, <3>1 DEF ContentCallOK, RowsLast
    <2>2. ASSUME pc[v] \in {"read_paths", "erase", "erase_group", "clean"}
          PROVE  group'[call[v].group].status # "unused"
      <3>1. call[v].group \in Groups
        BY <1>1, <2>2, ContentCallShape DEF ContentCallOK
      <3> QED
        BY <1>1, <2>2, <3>1 DEF ContentCallOK, GroupsLast
    <2> QED
      BY <1>1, <2>1, <2>2 DEF ContentCallOK, FoundCalls, ContentCalls, ContentCall
  <1>5. Relies(v)'
    <2>1. ASSUME pc[v] = "insert_comment", NEW u, NEW e, u = call[v].user, e = call[v].entry,
                 Stored(e)'
          PROVE  Belongs(u, e)'
      <3>1. e \in Entries /\ entry[e].status # "unused"
        BY <1>1, <2>1, FoundShape DEF ContentCallOK, KnowsGroup
      <3>2. Stored(e)
        BY <2>1, <3>1, EntryRowShape, ContentsHasGroups DEF RowsLast, Stored, EntriesOK
      <3>3. Belongs(u, e)
        BY <1>1, <2>1, <3>2 DEF Relies
      <3> QED
        BY <2>1, <3>1, <3>2, <3>3, BelongsLasts
    <2>7. pc'[v] = "insert_comment" /\ Stored(call[v].entry)' => Belongs(call[v].user, call[v].entry)'
      BY <2>1 DEF Stored, Belongs, isMember, LiveGroups
    <2>2. ASSUME pc[v] \in {"erase", "erase_group"}, NEW i \in paths[v]
          PROVE  \E e \in Entries : entry'[e].status # "unused" /\ entry'[e].group = call[v].group
                                      /\ i \in entry'[e].named
      BY <1>1, <2>2 DEF Relies, RowsLast
    <2>3. \A i \in Images : GoneNames(i) => GoneNames(i)'
      BY DEF GoneNames, RowsLast
    <2>4. \A e \in base[v] : e \in Entries
      BY ContentsHasGroups
    <2>5. \A e \in Entries : entry[e].status # "unused" /\ entry'[e].status = "live" =>
            entry[e].status = "live"
      BY EntryRowShape, ContentsHasGroups DEF RowsLast, EntriesOK
    <2>6. paths[v] \subseteq Images
      BY ContentsHasGroups
    <2> QED
      BY <1>1, <2>2, <2>3, <2>4, <2>5, <2>6, <2>7 DEF Relies, RowsLast, ImportPhases
  <1> QED
    BY <1>2, <1>3, <1>4, <1>5

\* All the parts of the invariant, put together again.
LEMMA Together ==
  ASSUME ContentsInd, GroupsInd', GroupsLast, RowsLast, ImagesLast, EntriesOK',
         comment' \in [Comments -> CommentRows], now' \in Nat,
         paths' \in [Workers -> SUBSET Images], base' \in [Workers -> SUBSET Entries], LocksOK',
         \A w \in Workers : ContentCallOK(w)' /\ KnowsGroup(w)' /\ Relies(w)'
  PROVE  ContentsInd'
  <1>1. CommentsOK'
    BY DEF CommentsOK, RowsLast
  <1>2. CommentersBelong'
    <2> SUFFICES ASSUME NEW c \in Comments, IsComment(c)'
                 PROVE  (Stored(comment[c].on) /\ Belongs(comment[c].author, comment[c].on))'
      BY DEF CommentersBelong
    <2>1. PICK e \in Entries : e = comment'[c].on /\ Stored(e)'
      BY DEF RowsLast
    <2>2. PICK u : u = comment'[c].author
      OBVIOUS
    <2>3. ASSUME IsComment(c), comment[c].on = e, comment[c].author = u
          PROVE  Belongs(u, e)'
      <3>1. Stored(e) /\ Belongs(u, e)
        BY <2>3 DEF ContentsInd, CommentersBelong
      <3> QED
        BY <2>1, <3>1, BelongsLasts DEF GroupsInd, GroupsTypeOK
    <2>4. Belongs(u, e)'
      BY <2>1, <2>2, <2>3 DEF RowsLast, Belongs, isMember, LiveGroups
    <2> QED
      BY <2>1, <2>2, <2>4 DEF Stored, Belongs, isMember, LiveGroups
  <1>3. ImagesOutliveRows'
    <2>1. \A i \in Images : GoneNames(i) => GoneNames(i)'
      BY DEF GoneNames, RowsLast
    <2> QED
      BY <2>1 DEF ContentsInd, ImagesOutliveRows, ImagesLast, GoneNames
  <1> QED
    BY <1>1, <1>2, <1>3 DEF ContentsInd, ContentsTypeOK, GroupsInd, ImagesLast

-----------------------------------------------------------------------------
(* Steps of one call *)

\* It locks nothing any more, or rows of its group that nobody else has locked.
LocksMoved(w) ==
  /\ erasing' \in [Workers -> SUBSET Entries]
  /\ \A e \in erasing'[w] :
       pc'[w] = "erase_group" /\ Stored(e)' /\ entry'[e].group = call'[w].group
  /\ \A v \in Workers \ {w} : erasing'[v] = erasing[v] /\ erasing'[w] \cap erasing[v] = {}

\* A call that deletes no rows has locked none.
LEMMA LocksKept ==
  ASSUME ContentsInd, NEW w \in Workers, pc[w] # "erase_group", UNCHANGED erasing
  PROVE  LocksMoved(w)
  <1>1. erasing[w] = {}
    BY ContentsHasGroups DEF LocksOK
  <1> QED
    BY <1>1, ContentsHasGroups DEF LocksOK, LocksMoved

\* Nor has one that has given its rows up.
LEMMA LocksReleased ==
  ASSUME ContentsInd, NEW w \in Workers, erasing' = [erasing EXCEPT ![w] = {}]
  PROVE  LocksMoved(w)
  BY ContentsHasGroups DEF LocksOK, LocksMoved

ContentMoved(w) ==
  /\ Moved(w) /\ LocksMoved(w)
  /\ paths' \in [Workers -> SUBSET Images] /\ base' \in [Workers -> SUBSET Entries]
  /\ \A v \in Workers \ {w} : paths'[v] = paths[v] /\ base'[v] = base[v]

\* What must hold of the call that goes on.
GoesOn(w) ==
  /\ ContentMoved(w) /\ pc'[w] \notin GroupPhases
  /\ ContentCallOK(w)' /\ KnowsGroup(w)' /\ Relies(w)'

\* A step of one worker keeps the invariant once it is right by that worker:
\* the others rely only on what lasts.
LEMMA WorkerKeeps ==
  ASSUME ContentsInd, GroupsInd', GroupsLast, RowsLast, ImagesLast, EntriesOK',
         comment' \in [Comments -> CommentRows], now' \in Nat, NEW w \in Workers,
         ContentMoved(w), ContentCallOK(w)', KnowsGroup(w)', Relies(w)'
  PROVE  ContentsInd'
  <1>1. \A v \in Workers : ContentCallOK(v)' /\ KnowsGroup(v)' /\ Relies(v)'
    BY SameCall DEF ContentMoved, Moved, GroupsInd, GroupsTypeOK
  <1>2. LocksOK'
    <2>1. ASSUME NEW v \in Workers, NEW e \in erasing'[v]
          PROVE  pc'[v] = "erase_group" /\ Stored(e)' /\ entry'[e].group = call'[v].group
      <3>1. CASE v = w
        BY <2>1, <3>1 DEF ContentMoved, LocksMoved
      <3>2. CASE v # w
        <4>1. /\ erasing'[v] = erasing[v] /\ pc'[v] = pc[v] /\ call'[v] = call[v]
          BY <3>2 DEF ContentMoved, LocksMoved, Moved
        <4>2. /\ e \in Entries /\ pc[v] = "erase_group" /\ Stored(e)
              /\ entry[e].group = call[v].group
          BY <2>1, <4>1, ContentsHasGroups DEF LocksOK
        <4> QED
          BY <2>1, <4>1, <4>2 DEF RowsLast, Stored
      <3> QED
        BY <3>1, <3>2
    <2>2. \A u, v \in Workers : u # v => erasing'[u] \cap erasing'[v] = {}
      BY ContentsHasGroups DEF ContentMoved, LocksMoved, LocksOK
    <2> QED
      BY <2>1, <2>2 DEF LocksOK, ContentMoved, LocksMoved
  <1> QED
    BY <1>1, <1>2, Together DEF ContentMoved

\* A call that is over has nothing to rely on.
LEMMA OverIsOver ==
  ASSUME NEW w \in Workers, pc'[w] = "idle", call'[w] = NullCall, paths'[w] = {}
  PROVE  pc'[w] \notin GroupPhases /\ ContentCallOK(w)' /\ KnowsGroup(w)' /\ Relies(w)'
  BY DEF GroupPhases, ContentCallOK, KnowsGroup, Relies, ImportPhases, NullCall, FoundCalls, ContentCall

\* A call that ends before it holds image paths leaves nothing behind.
LEMMA FinishGoesOn ==
  ASSUME ContentsInd, NEW w \in Workers, Finish(w), UNCHANGED <<paths, base, erasing>>,
         pc[w] \notin {"erase", "erase_group", "clean"}
  PROVE  GoesOn(w)
  <1>1. paths'[w] = {} /\ LocksMoved(w)
    BY ContentsHasGroups, LocksKept DEF ContentCallOK
  <1> QED
    BY <1>1, ContentsHasGroups, FinishMoves, OverIsOver DEF GoesOn, ContentMoved

\* Nor does one that gives up its image paths.
LEMMA LeaveGoesOn ==
  ASSUME ContentsInd, NEW w \in Workers, Leave(w)
  PROVE  GoesOn(w)
  <1>1. /\ paths' \in [Workers -> SUBSET Images] /\ base' \in [Workers -> SUBSET Entries]
        /\ \A v \in Workers \ {w} : paths'[v] = paths[v] /\ base'[v] = base[v]
        /\ paths'[w] = {} /\ LocksMoved(w)
    BY ContentsHasGroups, LocksReleased DEF Leave
  <1> QED
    BY <1>1, ContentsHasGroups, FinishMoves, OverIsOver DEF GoesOn, ContentMoved, Leave

\* Moving on changes the step of one worker only.
LEMMA GotoMovesContent ==
  ASSUME ContentsInd, NEW w \in Workers, NEW step, Goto(w, step), UNCHANGED <<call, paths, base>>,
         LocksMoved(w)
  PROVE  ContentMoved(w) /\ pc'[w] = step /\ call'[w] = call[w]
         /\ paths'[w] = paths[w] /\ base'[w] = base[w]
  BY ContentsHasGroups, GotoMoves DEF ContentMoved

\* Rows of entries change as they may, and none is erased.
EntriesLast ==
  \A e \in Entries :
    /\ entry[e].status # "unused" =>
         /\ entry'[e].status # "unused" /\ entry'[e].group = entry[e].group
         /\ entry'[e].kind = entry[e].kind /\ entry[e].named \subseteq entry'[e].named
    /\ entry[e].status = "gone" => entry'[e].status = "gone"
    /\ entry[e].status = "deleted" =>
         entry'[e].status = "deleted" /\ entry'[e].deletedAt = entry[e].deletedAt
    /\ Stored(e) => Stored(e)'

\* If entries last and comments stay where they are, what is stored stays so.
LEMMA RowsFromEntries ==
  ASSUME ContentsInd, EntriesLast,
         \A c \in Comments :
           \/ comment'[c] = comment[c]
           \/ /\ IsComment(c) /\ comment'[c].on = comment[c].on
              /\ comment'[c].author = comment[c].author
  PROVE  RowsLast
  <1>1. ASSUME NEW c \in Comments, IsComment(c)'
        PROVE  /\ comment'[c].on \in Entries /\ Stored(comment[c].on)'
               /\ IsComment(c) /\ comment'[c].on = comment[c].on
               /\ comment'[c].author = comment[c].author
    <2>1. IsComment(c) /\ comment'[c].on = comment[c].on /\ comment'[c].author = comment[c].author
      BY <1>1 DEF IsComment
    <2>2. PICK e \in Entries : e = comment[c].on /\ Stored(e)
      BY <2>1, ContentsHasGroups DEF CommentsOK, ContentsInd, CommentersBelong
    <2> QED
      BY <2>1, <2>2 DEF EntriesLast
  <1>2. \A v \in Workers : erasing'[v] = erasing[v] => \A e \in erasing[v] : Stored(e)'
    BY ContentsHasGroups DEF LocksOK, EntriesLast
  <1> QED
    BY <1>1, <1>2 DEF RowsLast, EntriesLast

\* A step that changes neither groups nor comments, but for the call itself.
LEMMA EntryStepKeeps ==
  ASSUME ContentsInd, UNCHANGED <<group, members, given, comment, now>>, NEW w \in Workers,
         GoesOn(w), EntriesLast, EntriesOK', ImagesLast
  PROVE  ContentsInd'
  <1>1. GroupCallOK(w)'
    BY OutsideGroups DEF GoesOn, GroupPhases
  <1>2. GroupsInd' /\ GroupsLast
    BY <1>1, GroupsKept, ContentsHasGroups DEF GoesOn, ContentMoved
  <1>3. RowsLast
    BY RowsFromEntries DEF LiveGroups
  <1> QED
    BY <1>2, <1>3, WorkerKeeps DEF GoesOn, ContentsInd, ContentsTypeOK, CommentsOK

\* A step that changes no table keeps the invariant.
LEMMA QuietKeeps ==
  ASSUME ContentsInd, UNCHANGED <<group, members, given, entry, comment, image, now>>,
         NEW w \in Workers, GoesOn(w)
  PROVE  ContentsInd'
  <1>1. EntriesLast
    BY DEF EntriesLast, Stored
  <1>2. EntriesOK'
    BY ContentsHasGroups DEF EntriesOK, Stored, LiveGroups
  <1>3. ImagesLast
    BY DEF ImagesLast, ContentsInd, ContentsTypeOK
  <1> QED
    BY <1>1, <1>2, <1>3, EntryStepKeeps

\* A step of nobody's call.
LEMMA OutsideKeeps ==
  ASSUME ContentsInd, UNCHANGED <<group, members, given, call, pc, paths, base, erasing>>,
         RowsLast, ImagesLast, EntriesOK', comment' \in [Comments -> CommentRows], now' \in Nat
  PROVE  ContentsInd'
  <1>1. GroupsLast
    BY SameGroupsLast
  <1>2. \A v \in Workers : GroupCallOK(v)' /\ ContentCallOK(v)' /\ KnowsGroup(v)' /\ Relies(v)'
    <2>1. group' \in [Groups -> GroupRows]
      BY ContentsHasGroups DEF GroupsInd, GroupsTypeOK
    <2> QED
      BY <1>1, <2>1, SameCall
  <1>4. LocksOK'
    BY ContentsHasGroups DEF LocksOK, RowsLast, Stored
  <1>3. GroupsInd'
    BY <1>2, ContentsHasGroups DEF GroupsInd, GroupsTypeOK, TokensOK, LiveGroups
  <1> QED
    BY <1>1, <1>2, <1>3, <1>4, Together, ContentsHasGroups

-----------------------------------------------------------------------------
(* Calls that begin, and what they read *)

\* A call of Groups, which touches no content.
LEMMA GroupsOfContents ==
  ASSUME ContentsInd, NEW w \in Workers, AcceptGroupCall(w) \/ GroupStep(w), UNCHANGED contentVars
  PROVE  ContentsInd'
  <1>1. GroupsInd' /\ GroupsLast /\ GroupMove(w)
    BY GroupStepKeeps, ContentsHasGroups
  <1>2. LiveGroups \subseteq LiveGroups' /\ pc[w] \in GroupPhases \cup {"idle"}
    BY GroupStepIsMild, ContentsHasGroups
  <1>3. UNCHANGED <<entry, comment, image, now, paths, base, erasing>>
    BY DEF contentVars
  <1>10. LocksMoved(w)
    BY <1>2, <1>3, LocksKept DEF GroupPhases
  <1>4. EntriesLast /\ RowsLast
    BY <1>2, <1>3, RowsFromEntries DEF EntriesLast, Stored
  <1>5. EntriesOK'
    BY <1>2, <1>3, ContentsHasGroups DEF EntriesOK, Stored
  <1>6. ImagesLast
    BY <1>3 DEF ImagesLast, ContentsInd, ContentsTypeOK
  <1>7. paths[w] = {}
    BY <1>2, ContentsHasGroups DEF ContentCallOK, GroupPhases
  <1>8. ContentMoved(w)
    BY <1>1, <1>3, <1>10, ContentsHasGroups DEF ContentMoved, GroupMove
  <1>9. ContentCallOK(w)' /\ KnowsGroup(w)' /\ Relies(w)'
    BY <1>1, <1>3, <1>7
    DEF GroupMove, NullCall, GroupPhases, ContentCallOK, KnowsGroup, Relies, ImportPhases,
        FoundCalls, ContentCall
  <1> QED
    BY <1>1, <1>3, <1>4, <1>5, <1>6, <1>8, <1>9, WorkerKeeps
    DEF ContentsInd, ContentsTypeOK, CommentsOK

\* A new call relies on nothing yet; an import remembers what is live.
LEMMA AcceptContentKeeps ==
  ASSUME ContentsInd, NEW w \in Workers, AcceptContentCall(w)
  PROVE  ContentsInd'
  <1>1. PICK c \in ContentCalls :
          /\ c.group # NoGroup => group[c.group].status # "unused"
          /\ call' = [call EXCEPT ![w] = c] /\ Goto(w, FirstOf[c.op])
          /\ base' = [base EXCEPT ![w] = IF c.op = "import" THEN LiveIn(c.group) ELSE {}]
    BY DEF AcceptContentCall
  <1>2. /\ UNCHANGED <<group, members, given, entry, comment, image, now, paths>>
        /\ paths[w] = {} /\ LocksMoved(w)
    BY ContentsHasGroups, LocksKept DEF AcceptContentCall, Free, ContentCallOK
  <1>3. /\ Moved(w) /\ call'[w] = c /\ pc'[w] = FirstOf[c.op]
        /\ base'[w] = IF c.op = "import" THEN LiveIn(c.group) ELSE {}
        /\ ContentMoved(w)
    BY <1>1, <1>2, ContentsHasGroups DEF Goto, Moved, ContentMoved, LiveIn
  <1>4. pc'[w] \in {"upload", "authorize", "find", "find_comment", "check_import", "check_creator"}
        /\ (pc'[w] = "authorize" => c.op \in {"add", "settle"})
        /\ (pc'[w] = "check_import" => c.op = "import")
    BY <1>3, ContentCallShape DEF FirstOf
  <1>5. ContentCallOK(w)'
    BY <1>2, <1>3, <1>4 DEF ContentCallOK
  <1>6. KnowsGroup(w)'
    <2>1. c.op \in {"edit", "remove", "comment"} => c.group \notin Groups
      BY ContentCallShape, GroupsAssumption
    <2> QED
      BY <1>3, <2>1 DEF KnowsGroup, FoundCalls, ContentCall
  <1>7. Relies(w)'
    BY <1>2, <1>3, <1>4 DEF Relies, ImportPhases, LiveIn
  <1> QED
    BY <1>2, <1>3, <1>4, <1>5, <1>6, <1>7, QuietKeeps DEF GoesOn, GroupPhases

-----------------------------------------------------------------------------
(* Entries and comments *)

\* A new image belongs to nobody and costs nobody theirs.
LEMMA UploadKeeps ==
  ASSUME ContentsInd, NEW w \in Workers, Upload(w)
  PROVE  ContentsInd' /\ EntriesLast
  <1>1. UNCHANGED <<group, members, given, entry, comment, now, paths, base, erasing>>
    BY DEF Upload
  <1>2. GoesOn(w)
    BY <1>1, FinishGoesOn DEF Upload
  <1>3. EntriesLast /\ EntriesOK'
    BY <1>1, ContentsHasGroups DEF EntriesLast, EntriesOK, Stored, LiveGroups
  <1>4. ImagesLast
    BY DEF Upload, ImagesLast, ContentsInd, ContentsTypeOK
  <1> QED
    BY <1>1, <1>2, <1>3, <1>4, EntryStepKeeps

\* Steps that only read.
LEMMA FindKeeps ==
  ASSUME ContentsInd, NEW w \in Workers, Find(w)
  PROVE  ContentsInd'
  <1> DEFINE e == call[w].entry
             g == entry[e].group
  <1>1. UNCHANGED <<group, members, given, entry, comment, image, now, paths, base, erasing>>
        /\ LocksMoved(w)
    BY LocksKept DEF Find, contentVars
  <1>2. /\ call[w] \in ContentCalls /\ call[w].op \in {"edit", "remove", "comment"}
        /\ e \in Entries /\ paths[w] = {}
    BY ContentsHasGroups, ContentCallShape DEF Find, ContentCallOK, FirstOf
  <1>3. CASE Finish(w)
    BY <1>1, <1>3, FinishGoesOn, QuietKeeps DEF Find
  <1>4. CASE Found(e) /\ call' = [call EXCEPT ![w].group = g] /\ Goto(w, "authorize")
    <2>1. g \in Groups /\ entry[e].status # "unused"
      BY <1>2, <1>4, ContentsHasGroups DEF Found, EntriesOK
    <2>2. /\ call'[w] = [call[w] EXCEPT !.group = g] /\ pc'[w] = "authorize" /\ ContentMoved(w)
      BY <1>1, <1>4, ContentsHasGroups DEF Goto, Moved, ContentMoved
    <2>3. call'[w] \in FoundCalls(call[w].op) /\ call'[w].entry = e /\ call'[w].group = g
      BY <1>2, <2>1, <2>2 DEF ContentCalls, ContentCall, FoundCalls
    <2>4. ContentCallOK(w)' /\ KnowsGroup(w)' /\ Relies(w)'
      BY <1>1, <1>2, <2>1, <2>2, <2>3 DEF ContentCallOK, KnowsGroup, Relies, ImportPhases
    <2> QED
      BY <1>1, <2>2, <2>4, QuietKeeps DEF GoesOn, GroupPhases
  <1> QED
    BY <1>3, <1>4 DEF Find

\* A call let through has found its group there.
LEMMA AuthorizeKeeps ==
  ASSUME ContentsInd, NEW w \in Workers, Authorize(w)
  PROVE  ContentsInd'
  <1>1. UNCHANGED <<group, members, given, entry, comment, image, now, paths, base, erasing>>
        /\ LocksMoved(w)
    BY LocksKept DEF Authorize, contentVars
  <1>2. CASE Finish(w)
    BY <1>1, <1>2, FinishGoesOn, QuietKeeps DEF Authorize
  <1>3. CASE /\ isMember(call[w].user, call[w].group)
             /\ Goto(w, AfterAuthorize[call[w].op]) /\ UNCHANGED call
    <2>1. /\ ContentMoved(w) /\ call'[w] = call[w] /\ pc'[w] = AfterAuthorize[call[w].op]
          /\ paths'[w] = {}
      BY <1>1, <1>3, GotoMovesContent, ContentsHasGroups DEF Authorize, ContentCallOK
    <2>2. \/ call[w] \in ContentCalls /\ call[w].op \in {"add", "settle"}
          \/ \E op \in {"edit", "remove", "comment"} : call[w] \in FoundCalls(op)
      BY ContentsHasGroups DEF Authorize, ContentCallOK
    <2>3. KnowsGroup(w)'
      BY <1>1, <2>1, ContentsHasGroups DEF KnowsGroup, FoundCalls, ContentCall
    <2>4. CASE call[w] \in ContentCalls /\ call[w].op \in {"add", "settle"}
      <3>1. pc'[w] \in {"insert_expense", "insert_settlement"}
        BY <2>1, <2>4 DEF AfterAuthorize
      <3>2. ContentCallOK(w)' /\ Relies(w)'
        BY <2>1, <2>4, <3>1 DEF ContentCallOK, Relies, ImportPhases
      <3> QED
        BY <1>1, <2>1, <2>3, <3>1, <3>2, QuietKeeps DEF GoesOn, GroupPhases
    <2>5. ASSUME NEW op \in {"edit", "remove", "comment"}, call[w] \in FoundCalls(op)
          PROVE  ContentsInd'
      <3>1. call[w].op = op
        BY <2>5, FoundShape
      <3>2. \/ op = "edit" /\ pc'[w] = "read_image"
            \/ op = "remove" /\ pc'[w] = "soft_delete"
            \/ op = "comment" /\ pc'[w] = "insert_comment"
        BY <2>1, <3>1 DEF AfterAuthorize
      <3>3. ContentCallOK(w)'
        BY <2>1, <2>5, <3>2 DEF ContentCallOK
      <3>4. pc[w] = "authorize" /\ entry[call[w].entry].group = call[w].group
        BY <2>5, ContentsHasGroups DEF Authorize, KnowsGroup
      <3>5. Relies(w)'
        BY <1>1, <1>3, <2>1, <3>2, <3>4 DEF Relies, ImportPhases, Belongs, isMember, LiveGroups
      <3> QED
        BY <1>1, <2>1, <2>3, <3>2, <3>3, <3>5, QuietKeeps DEF GoesOn, GroupPhases
    <2> QED
      BY <2>2, <2>4, <2>5
  <1> QED
    BY <1>2, <1>3 DEF Authorize

\* An edit carries on with the image it was given or the one it read.
LEMMA ReadImageKeeps ==
  ASSUME ContentsInd, NEW w \in Workers, ReadImage(w)
  PROVE  ContentsInd'
  <1> DEFINE e == call[w].entry
             i == IF call[w].image = NoImage THEN entry[e].image ELSE call[w].image
  <1>1. UNCHANGED <<group, members, given, entry, comment, image, now, paths, base, erasing>>
        /\ LocksMoved(w)
    BY LocksKept DEF ReadImage, contentVars
  <1>2. call[w] \in FoundCalls("edit") /\ e \in Entries /\ paths[w] = {} /\ KnowsGroup(w)
    BY ContentsHasGroups, FoundShape DEF ReadImage, ContentCallOK
  <1>3. CASE Finish(w)
    BY <1>1, <1>3, FinishGoesOn, QuietKeeps DEF ReadImage
  <1>4. CASE /\ entry[e].status = "live" /\ entry[e].kind = "expense"
             /\ call' = [call EXCEPT ![w].image = i] /\ Goto(w, "update")
    <2>1. i \in Images \cup {NoImage}
      BY <1>2, FoundShape, EntryRowShape, ContentsHasGroups DEF EntriesOK
    <2>2. call'[w] = [call[w] EXCEPT !.image = i] /\ pc'[w] = "update" /\ ContentMoved(w)
      BY <1>1, <1>4, ContentsHasGroups DEF Goto, Moved, ContentMoved
    <2>3. /\ call'[w] \in FoundCalls("edit") /\ call'[w].entry = e
          /\ call'[w].group = call[w].group
      BY <1>2, <2>1, <2>2 DEF ContentCall, FoundCalls
    <2>4. ContentCallOK(w)' /\ KnowsGroup(w)' /\ Relies(w)'
      BY <1>1, <1>2, <1>4, <2>2, <2>3 DEF ContentCallOK, KnowsGroup, Relies, ImportPhases
    <2> QED
      BY <1>1, <2>2, <2>4, QuietKeeps DEF GoesOn, GroupPhases
  <1> QED
    BY <1>3, <1>4 DEF ReadImage

\* Looking a comment up changes nothing.
LEMMA FindCommentKeeps ==
  ASSUME ContentsInd, NEW w \in Workers, FindComment(w)
  PROVE  ContentsInd'
  <1>1. UNCHANGED <<group, members, given, entry, comment, image, now, paths, base, erasing>>
        /\ LocksMoved(w)
    BY LocksKept DEF FindComment, contentVars
  <1>2. CASE Finish(w)
    BY <1>1, <1>2, FinishGoesOn, QuietKeeps DEF FindComment
  <1>3. CASE Goto(w, "delete_comment") /\ UNCHANGED call
    <2>1. /\ ContentMoved(w) /\ call'[w] = call[w] /\ pc'[w] = "delete_comment"
          /\ paths'[w] = {}
      BY <1>1, <1>3, GotoMovesContent, ContentsHasGroups DEF FindComment, ContentCallOK
    <2>2. call[w] \in ContentCalls /\ call[w].op = "uncomment"
      BY ContentsHasGroups, ContentCallShape DEF FindComment, ContentCallOK, FirstOf
    <2>3. ContentCallOK(w)' /\ KnowsGroup(w)' /\ Relies(w)'
      BY <2>1, <2>2
      DEF ContentCallOK, KnowsGroup, Relies, ImportPhases, FoundCalls, ContentCall
    <2> QED
      BY <1>1, <2>1, <2>3, QuietKeeps DEF GoesOn, GroupPhases
  <1> QED
    BY <1>2, <1>3 DEF FindComment

\* A new entry is a row, live, of its group.
LEMMA NewEntryShape ==
  ASSUME NEW kind \in {"expense", "settlement"}, NEW g \in Groups, NEW i \in Images \cup {NoImage}
  PROVE  /\ NewEntry(kind, g, i) \in EntryRows
         /\ NewEntry(kind, g, i).status = "live" /\ NewEntry(kind, g, i).kind = kind
         /\ NewEntry(kind, g, i).group = g /\ NewEntry(kind, g, i).image = i
         /\ NewEntry(kind, g, i).named = NamedBy(i)
  BY DEF NewEntry, EntryRows, NamedBy

\* A new row, of an expense whose group is there or of a payment.
LEMMA NewEntryKeeps ==
  ASSUME ContentsInd, UNCHANGED group, NEW e \in Entries, entry[e].status = "unused",
         NEW kind \in {"expense", "settlement"}, NEW g \in Groups, NEW i \in Images \cup {NoImage},
         entry' = [entry EXCEPT ![e] = NewEntry(kind, g, i)],
         kind = "expense" => g \in LiveGroups, kind = "settlement" => i = NoImage
  PROVE  EntriesLast /\ EntriesOK'
  <1>1. EntriesOK
    BY ContentsHasGroups
  <1>2. entry'[e] = NewEntry(kind, g, i) /\ \A f \in Entries \ {e} : entry'[f] = entry[f]
    BY <1>1 DEF EntriesOK
  <1>3. EntriesLast
    BY <1>2 DEF EntriesLast, Stored
  <1>4. entry' \in [Entries -> EntryRows]
    BY <1>1, NewEntryShape DEF EntriesOK
  <1>5. LiveGroups' = LiveGroups
    BY DEF LiveGroups
  <1>6. ASSUME NEW f \in Entries
        PROVE  /\ entry'[f].status # "unused" => entry'[f].group \in Groups
               /\ entry'[f].kind = "settlement" => entry'[f].named = {}
               /\ NamedBy(entry'[f].image) \subseteq entry'[f].named
               /\ Stored(f)' /\ entry'[f].kind = "expense" => entry'[f].group \in LiveGroups'
    <2>1. CASE f = e
      BY <1>2, <1>5, <2>1, NewEntryShape DEF NamedBy
    <2>2. CASE f # e
      BY <1>1, <1>2, <1>5, <2>2 DEF EntriesOK, Stored
    <2> QED
      BY <2>1, <2>2
  <1> QED
    BY <1>3, <1>4, <1>6 DEF EntriesOK, NamedBy

\* A row changed in place.
LEMMA ChangedEntryKeeps ==
  ASSUME ContentsInd, UNCHANGED group, NEW e \in Entries, entry[e].status = "live",
         NEW r \in EntryRows, entry' = [entry EXCEPT ![e] = r],
         r.status \in {"live", "deleted"}, r.kind = entry[e].kind, r.group = entry[e].group,
         entry[e].named \subseteq r.named, NamedBy(r.image) \subseteq r.named,
         r.kind = "settlement" => r.named = {}
  PROVE  EntriesLast /\ EntriesOK'
  <1>1. EntriesOK
    BY ContentsHasGroups
  <1>2. entry'[e] = r /\ \A f \in Entries \ {e} : entry'[f] = entry[f]
    BY <1>1 DEF EntriesOK
  <1>3. EntriesLast
    BY <1>2 DEF EntriesLast, Stored
  <1>4. entry' \in [Entries -> EntryRows]
    BY <1>1 DEF EntriesOK
  <1>5. LiveGroups' = LiveGroups
    BY DEF LiveGroups
  <1>6. ASSUME NEW f \in Entries
        PROVE  /\ entry'[f].status # "unused" => entry'[f].group \in Groups
               /\ entry'[f].kind = "settlement" => entry'[f].named = {}
               /\ NamedBy(entry'[f].image) \subseteq entry'[f].named
               /\ Stored(f)' /\ entry'[f].kind = "expense" => entry'[f].group \in LiveGroups'
    <2>1. CASE f = e
      BY <1>1, <1>2, <1>5, <2>1 DEF EntriesOK, Stored
    <2>2. CASE f # e
      BY <1>1, <1>2, <1>5, <2>2 DEF EntriesOK, Stored
    <2> QED
      BY <2>1, <2>2
  <1> QED
    BY <1>3, <1>4, <1>6 DEF EntriesOK, NamedBy

\* Entries nobody touches last.
LEMMA SameEntries ==
  ASSUME ContentsInd, UNCHANGED <<group, entry>>
  PROVE  EntriesLast /\ EntriesOK'
  BY ContentsHasGroups DEF EntriesLast, EntriesOK, Stored, LiveGroups

\* Images nobody touches last.
LEMMA SameImages ==
  ASSUME ContentsInd, UNCHANGED image
  PROVE  ImagesLast
  BY DEF ImagesLast, ContentsInd, ContentsTypeOK

\* A new entry has a group that is there, but for a payment.
LEMMA InsertKeeps ==
  ASSUME ContentsInd, NEW w \in Workers, InsertExpense(w) \/ InsertSettlement(w)
  PROVE  ContentsInd' /\ EntriesLast
  <1>1. UNCHANGED <<group, members, given, comment, image, now, paths, base, erasing>>
    BY DEF InsertExpense, InsertSettlement
  <1>2. GoesOn(w)
    BY <1>1, FinishGoesOn DEF InsertExpense, InsertSettlement
  <1>3. call[w].group \in Groups /\ (pc[w] = "insert_expense" => call[w].image \in Images \cup {NoImage})
    BY ContentsHasGroups, ContentCallShape
    DEF InsertExpense, InsertSettlement, ContentCallOK, AfterAuthorize
  <1>4. EntriesLast /\ EntriesOK'
    <2>1. CASE InsertExpense(w)
      BY <1>1, <1>3, <2>1, NewEntryKeeps, SameEntries DEF InsertExpense
    <2>2. CASE InsertSettlement(w)
      BY <1>1, <1>3, <2>2, NewEntryKeeps DEF InsertSettlement
    <2> QED
      BY <2>1, <2>2
  <1> QED
    BY <1>1, <1>2, <1>4, SameImages, EntryStepKeeps

\* Edits and soft deletions keep an entry stored, in its group, and what it named.
LEMMA UpdateKeeps ==
  ASSUME ContentsInd, NEW w \in Workers, UpdateImage(w) \/ SoftDelete(w)
  PROVE  ContentsInd' /\ EntriesLast
  <1> DEFINE e == call[w].entry
             i == call[w].image
  <1>1. UNCHANGED <<group, members, given, comment, image, now, paths, base, erasing>>
    BY DEF UpdateImage, SoftDelete
  <1>2. GoesOn(w)
    BY <1>1, FinishGoesOn DEF UpdateImage, SoftDelete
  <1>3. /\ e \in Entries /\ entry[e] \in EntryRows /\ i \in Images \cup {NoImage}
        /\ pc[w] = "update" => entry[e].kind = "expense"
    BY ContentsHasGroups, FoundShape DEF UpdateImage, SoftDelete, ContentCallOK, EntriesOK
  <1>4. CASE UNCHANGED entry
    BY <1>1, <1>2, <1>4, SameEntries, SameImages, EntryStepKeeps
  <1>5. CASE /\ UpdateImage(w) /\ entry[e].status = "live"
             /\ entry' = [entry EXCEPT ![e].image = i, ![e].named = @ \cup NamedBy(i)]
    <2> DEFINE r == [entry[e] EXCEPT !.image = i, !.named = @ \cup NamedBy(i)]
    <2>1. entry' = [entry EXCEPT ![e] = r]
      BY <1>3, <1>5, ContentsHasGroups DEF EntriesOK
    <2>2. /\ r \in EntryRows /\ r.status = "live" /\ r.kind = entry[e].kind
          /\ r.group = entry[e].group /\ entry[e].named \subseteq r.named
          /\ NamedBy(r.image) \subseteq r.named
      BY <1>3, <1>5 DEF EntryRows, NamedBy
    <2>3. r.kind = "expense"
      BY <1>3, <1>5, <2>2 DEF UpdateImage
    <2>4. EntriesLast /\ EntriesOK'
      BY <1>1, <1>3, <1>5, <2>1, <2>2, <2>3, ChangedEntryKeeps
    <2> QED
      BY <1>1, <1>2, <2>4, SameImages, EntryStepKeeps
  <1>6. CASE /\ entry[e].status = "live"
             /\ entry' = [entry EXCEPT ![e].status = "deleted", ![e].deletedAt = now]
    <2> DEFINE r == [entry[e] EXCEPT !.status = "deleted", !.deletedAt = now]
    <2>1. entry' = [entry EXCEPT ![e] = r]
      BY <1>3, <1>6, ContentsHasGroups DEF EntriesOK
    <2>2. now \in Nat
      BY DEF ContentsInd, ContentsTypeOK
    <2>3. /\ r \in EntryRows /\ r.status = "deleted" /\ r.kind = entry[e].kind
          /\ r.group = entry[e].group /\ r.named = entry[e].named /\ r.image = entry[e].image
      BY <1>3, <2>2 DEF EntryRows
    <2>4. NamedBy(r.image) \subseteq r.named /\ (r.kind = "settlement" => r.named = {})
      BY <1>3, <2>3, ContentsHasGroups DEF EntriesOK
    <2>5. EntriesLast /\ EntriesOK'
      BY <1>1, <1>3, <1>6, <2>1, <2>3, <2>4, ChangedEntryKeeps
    <2> QED
      BY <1>1, <1>2, <2>5, SameImages, EntryStepKeeps
  <1> QED
    BY <1>4, <1>5, <1>6 DEF UpdateImage, SoftDelete

\* What comments a step leaves or makes, and the rest of it.
LEMMA CommentStepKeeps ==
  ASSUME ContentsInd, UNCHANGED <<group, members, given, entry, image, now>>, NEW w \in Workers,
         GoesOn(w), comment' \in [Comments -> CommentRows],
         \A c \in Comments : IsComment(c)' =>
           \/ IsComment(c) /\ comment'[c].on = comment[c].on /\ comment'[c].author = comment[c].author
           \/ /\ comment'[c].on \in Entries /\ Stored(comment[c].on)'
              /\ Belongs(comment[c].author, comment[c].on)'
  PROVE  ContentsInd' /\ EntriesLast
  <1>1. GroupCallOK(w)'
    BY OutsideGroups DEF GoesOn, GroupPhases
  <1>2. GroupsInd' /\ GroupsLast
    BY <1>1, GroupsKept, ContentsHasGroups DEF GoesOn, ContentMoved
  <1>3. EntriesLast /\ EntriesOK' /\ ImagesLast
    BY SameEntries, SameImages
  <1>4. RowsLast
    <2>1. ASSUME NEW c \in Comments, IsComment(c), comment'[c].on = comment[c].on
          PROVE  comment'[c].on \in Entries /\ Stored(comment[c].on)'
      BY <2>1 DEF ContentsInd, ContentsTypeOK, CommentsOK, CommentersBelong, Stored
    <2>2. \A v \in Workers : erasing'[v] = erasing[v] => \A e \in erasing[v] : Stored(e)'
      BY <1>3, ContentsHasGroups DEF LocksOK, EntriesLast
    <2> QED
      BY <1>3, <2>1, <2>2 DEF RowsLast, EntriesLast
  <1> QED
    BY <1>2, <1>3, <1>4, WorkerKeeps DEF GoesOn, ContentsInd, ContentsTypeOK

\* A comment is put on what is stored, by a member, for members stay.
LEMMA CommentKeeps ==
  ASSUME ContentsInd, NEW w \in Workers, InsertComment(w) \/ DeleteComment(w)
  PROVE  ContentsInd' /\ EntriesLast
  <1>1. UNCHANGED <<group, members, given, entry, image, now, paths, base, erasing>>
    BY DEF InsertComment, DeleteComment
  <1>2. GoesOn(w)
    BY <1>1, FinishGoesOn DEF InsertComment, DeleteComment
  <1>3. comment \in [Comments -> CommentRows]
    BY ContentsHasGroups DEF CommentsOK
  <1>4. CASE UNCHANGED comment
    BY <1>1, <1>2, <1>3, <1>4, CommentStepKeeps DEF IsComment
  <1>5. ASSUME InsertComment(w), NEW c \in Comments, comment[c].status = "unused",
               Stored(call[w].entry),
               comment' = [comment EXCEPT ![c] =
                 [status |-> "live", on |-> call[w].entry, author |-> call[w].user]]
        PROVE  ContentsInd' /\ EntriesLast
    <2> DEFINE e == call[w].entry
    <2>1. e \in Entries /\ call[w].user \in Users
      BY <1>5, ContentsHasGroups, FoundShape DEF InsertComment, ContentCallOK
    <2>3. Belongs(call[w].user, e)
      BY <1>5, ContentsHasGroups DEF InsertComment, Relies
    <2>4. comment' \in [Comments -> CommentRows]
      BY <1>3, <1>5, <2>1 DEF CommentRows
    <2>5. /\ comment'[c].on = e /\ comment'[c].author = call[w].user
          /\ \A d \in Comments \ {c} : comment'[d] = comment[d]
      BY <1>3, <1>5
    <2>6. Stored(comment[c].on)' /\ Belongs(comment[c].author, comment[c].on)'
      BY <1>1, <1>5, <2>3, <2>5 DEF Stored, Belongs, isMember, LiveGroups
    <2> QED
      BY <1>1, <1>2, <2>1, <2>4, <2>5, <2>6, CommentStepKeeps DEF IsComment
  <1>6. ASSUME DeleteComment(w), comment[call[w].comment].status = "live",
               comment' = [comment EXCEPT ![call[w].comment].status = "deleted"]
        PROVE  ContentsInd' /\ EntriesLast
    <2> DEFINE c == call[w].comment
    <2>1. c \in Comments
      BY <1>6, ContentsHasGroups, ContentCallShape DEF DeleteComment, ContentCallOK
    <2>2. /\ comment'[c] = [comment[c] EXCEPT !.status = "deleted"]
          /\ \A d \in Comments \ {c} : comment'[d] = comment[d]
      BY <1>3, <1>6, <2>1
    <2>3. /\ comment'[c] \in CommentRows /\ comment'[c].on = comment[c].on
          /\ comment'[c].author = comment[c].author
      BY <1>3, <2>1, <2>2 DEF CommentRows
    <2>4. comment' \in [Comments -> CommentRows]
      BY <1>3, <1>6, <2>1, <2>2, <2>3
    <2> QED
      BY <1>1, <1>2, <1>6, <2>1, <2>2, <2>3, <2>4, CommentStepKeeps DEF IsComment
  <1> QED
    BY <1>4, <1>5, <1>6 DEF InsertComment, DeleteComment

-----------------------------------------------------------------------------
(* Imports and deletions *)

\* What an import finds empty stays so of all that was live when it was asked for.
LEMMA ImportCheckKeeps ==
  ASSUME ContentsInd, NEW w \in Workers,
         CheckImport(w) \/ ReadExpenses(w) \/ ReadSettlements(w) \/ ImportDone(w)
  PROVE  ContentsInd'
  <1> DEFINE g == call[w].group
  <1>1. UNCHANGED <<group, members, given, entry, comment, image, now>>
    BY DEF CheckImport, ReadExpenses, ReadSettlements, ImportDone
  <1>2. /\ call[w] \in ContentCalls /\ call[w].op = "import" /\ paths[w] = {}
        /\ pc[w] \in ImportPhases /\ pc[w] # "erase_group"
        /\ \A e \in base[w] : e \in Entries /\ entry[e].status # "unused" /\ entry[e].group = g
    BY ContentsHasGroups, ContentCallShape
    DEF CheckImport, ReadExpenses, ReadSettlements, ImportDone, ContentCallOK, FirstOf, Relies,
        ImportPhases
  <1>3. CASE Leave(w)
    BY <1>1, <1>3, LeaveGoesOn, QuietKeeps
  <1>4. ASSUME NEW step \in {"read_expenses", "read_settlements", "rows"}, Goto(w, step),
               UNCHANGED <<call, paths, base, erasing>>, Relies(w)'
        PROVE  ContentsInd'
    <2>1. /\ ContentMoved(w) /\ call'[w] = call[w] /\ pc'[w] = step
          /\ paths'[w] = {} /\ base'[w] = base[w]
      BY <1>2, <1>4, LocksKept, GotoMovesContent
    <2>2. ContentCallOK(w)' /\ KnowsGroup(w)'
      BY <1>2, <2>1 DEF ContentCallOK, KnowsGroup, FoundCalls, ContentCall
    <2> QED
      BY <1>1, <1>4, <2>1, <2>2, QuietKeeps DEF GoesOn, GroupPhases
  <1>5. \A step \in {"read_expenses", "read_settlements", "rows"} :
          Goto(w, step) /\ UNCHANGED <<call, paths, base, erasing>> =>
            pc'[w] = step /\ paths'[w] = {} /\ base'[w] = base[w] /\ call'[w] = call[w]
    BY <1>2, LocksKept, GotoMovesContent
  <1>6. CASE CheckImport(w) /\ Goto(w, "read_expenses") /\ UNCHANGED <<call, paths, base, erasing>>
    <2>1. Relies(w)'
      BY <1>1, <1>2, <1>5, <1>6 DEF Relies, ImportPhases
    <2> QED
      BY <1>4, <1>6, <2>1
  <1>7. CASE /\ ReadExpenses(w) /\ ExpensesIn(g) = {}
             /\ Goto(w, "read_settlements") /\ UNCHANGED <<call, paths, base, erasing>>
    <2>1. \A e \in base[w] : entry[e].status = "live" => entry[e].kind = "settlement"
      BY <1>2, <1>7, EntryRowShape, ContentsHasGroups DEF ExpensesIn, LiveIn, EntriesOK
    <2>2. Relies(w)'
      BY <1>1, <1>2, <1>5, <1>7, <2>1 DEF Relies, ImportPhases
    <2> QED
      BY <1>4, <1>7, <2>2
  <1>8. CASE /\ ReadSettlements(w) /\ LiveIn(g) \subseteq ExpensesIn(g)
             /\ Goto(w, "rows") /\ UNCHANGED <<call, paths, base, erasing>>
    <2>1. \A e \in base[w] : entry[e].status = "live" => entry[e].kind = "settlement"
      BY <1>8, ContentsHasGroups DEF ReadSettlements, Relies
    <2>2. \A e \in base[w] : entry[e].status # "live"
      BY <1>2, <1>8, <2>1 DEF ExpensesIn, LiveIn
    <2>3. Relies(w)'
      BY <1>1, <1>2, <1>5, <1>8, <2>1, <2>2 DEF Relies, ImportPhases
    <2> QED
      BY <1>4, <1>8, <2>3
  <1> QED
    BY <1>3, <1>6, <1>7, <1>8 DEF CheckImport, ReadExpenses, ReadSettlements, ImportDone

\* A row of an import was not live before.
LEMMA ImportRowKeeps ==
  ASSUME ContentsInd, NEW w \in Workers, ImportRow(w)
  PROVE  ContentsInd' /\ EntriesLast
  <1>1. UNCHANGED <<group, members, given, call, pc, comment, image, now, paths, base, erasing>>
    BY DEF ImportRow, groupVars
  <1>2. call[w].group \in Groups
    BY ContentsHasGroups, ContentCallShape DEF ImportRow, ContentCallOK
  <1>3. EntriesLast /\ EntriesOK'
    BY <1>1, <1>2, NewEntryKeeps DEF ImportRow
  <1>4. GroupsLast /\ RowsLast
    BY <1>1, <1>3, SameGroupsLast, RowsFromEntries DEF LiveGroups
  <1>5. GoesOn(w)
    <2>1. LocksMoved(w)
      BY <1>1, LocksKept DEF ImportRow
    <2>2. group' \in [Groups -> GroupRows]
      BY <1>1, ContentsHasGroups DEF GroupsInd, GroupsTypeOK
    <2>3. ContentCallOK(w)' /\ KnowsGroup(w)' /\ Relies(w)'
      BY <1>1, <1>3, <1>4, <2>2, SameCall
    <2>4. ContentMoved(w)
      BY <1>1, <2>1, ContentsHasGroups DEF ContentMoved, Moved
    <2> QED
      BY <1>1, <2>3, <2>4 DEF GoesOn, ImportRow, GroupPhases
  <1> QED
    BY <1>1, <1>3, <1>5, SameImages, EntryStepKeeps

\* The paths read before the deletion name images of stored entries of the group.
LEMMA DeleteCheckKeeps ==
  ASSUME ContentsInd, NEW w \in Workers,
         CheckCreator(w) \/ ReadPaths(w) \/ EraseRows(w) \/ Cleaned(w)
  PROVE  ContentsInd'
  <1> DEFINE g == call[w].group
  <1>1. UNCHANGED <<group, members, given, entry, comment, image, now>>
    BY DEF CheckCreator, ReadPaths, EraseRows, Cleaned
  <1>2. call[w] \in ContentCalls /\ call[w].op = "delete" /\ g \in Groups
    BY ContentsHasGroups, ContentCallShape
    DEF CheckCreator, ReadPaths, EraseRows, Cleaned, ContentCallOK, FirstOf
  <1>3. CASE Leave(w)
    BY <1>1, <1>3, LeaveGoesOn, QuietKeeps
  <1>4. CASE g \in LiveGroups /\ Goto(w, "read_paths") /\ UNCHANGED <<call, paths, base, erasing>> /\ CheckCreator(w)
    <2>1. ContentMoved(w) /\ call'[w] = call[w] /\ pc'[w] = "read_paths" /\ paths'[w] = {}
      BY <1>1, <1>4, LocksKept, GotoMovesContent, ContentsHasGroups DEF CheckCreator, ContentCallOK
    <2>2. ContentCallOK(w)' /\ KnowsGroup(w)' /\ Relies(w)'
      BY <1>1, <1>2, <1>4, <2>1
      DEF ContentCallOK, KnowsGroup, Relies, ImportPhases, LiveGroups, FoundCalls, ContentCall
    <2> QED
      BY <1>1, <2>1, <2>2, QuietKeeps DEF GoesOn, GroupPhases
  <1>5. CASE ReadPaths(w)
    <2> DEFINE P == {i \in Images : \E e \in RowsOf(g) : entry[e].image = i}
    <2>1. Goto(w, "erase") /\ paths' = [paths EXCEPT ![w] = P] /\ UNCHANGED <<call, base>>
          /\ LocksMoved(w)
      BY <1>5, LocksKept DEF ReadPaths
    <2>2. ContentMoved(w) /\ call'[w] = call[w] /\ pc'[w] = "erase" /\ paths'[w] = P
      BY <2>1, ContentsHasGroups, GotoMoves DEF ContentMoved
    <2>3. group[g].status # "unused"
      BY <1>5, ContentsHasGroups DEF ReadPaths, ContentCallOK
    <2>4. ASSUME NEW i \in P
          PROVE  \E e \in Entries : entry[e].status # "unused" /\ entry[e].group = g
                                      /\ i \in entry[e].named
      <3>1. PICK e \in Entries : Stored(e) /\ entry[e].group = g /\ entry[e].image = i
        BY DEF RowsOf
      <3>2. i \in entry[e].named
        BY <3>1, ContentsHasGroups, ContentsAssumption DEF EntriesOK, NamedBy
      <3> QED
        BY <3>1, <3>2 DEF Stored
    <2>5. ContentCallOK(w)' /\ KnowsGroup(w)' /\ Relies(w)'
      BY <1>1, <1>2, <2>2, <2>3, <2>4
      DEF ContentCallOK, KnowsGroup, Relies, ImportPhases, FoundCalls, ContentCall
    <2> QED
      BY <1>1, <2>2, <2>5, QuietKeeps DEF GoesOn, GroupPhases
  <1>6. CASE EraseRows(w)
    <2> DEFINE es == RowsOf(g)
    <2>1. /\ Goto(w, "erase_group") /\ erasing' = [erasing EXCEPT ![w] = es]
          /\ UNCHANGED <<call, paths, base>> /\ pc[w] = "erase"
          /\ \A e \in es : ~Locked(e)
      BY <1>6 DEF EraseRows
    <2>2. pc'[w] = "erase_group" /\ call'[w] = call[w]
      BY <2>1, ContentsHasGroups DEF Goto
    <2>3. erasing'[w] = es /\ \A v \in Workers \ {w} : erasing'[v] = erasing[v]
      BY <2>1, ContentsHasGroups DEF LocksOK
    <2>4. \A e \in es : e \in Entries /\ Stored(e)' /\ entry'[e].group = call'[w].group
      BY <1>1, <2>2 DEF RowsOf, Stored
    <2>5. erasing' \in [Workers -> SUBSET Entries]
      BY <2>1, ContentsHasGroups DEF LocksOK, RowsOf
    <2>6. LocksMoved(w)
      BY <2>1, <2>2, <2>3, <2>4, <2>5 DEF LocksMoved, Locked
    <2>7. /\ ContentMoved(w) /\ paths'[w] = paths[w]
      BY <2>1, <2>6, GotoMovesContent
    <2>8. group[g].status # "unused" /\ Relies(w)
      BY <2>1, ContentsHasGroups DEF ContentCallOK
    <2>9. ContentCallOK(w)' /\ KnowsGroup(w)'
      BY <1>1, <1>2, <2>2, <2>7, <2>8 DEF ContentCallOK, KnowsGroup, FoundCalls, ContentCall
    <2>10. Relies(w)'
      BY <1>1, <2>1, <2>2, <2>7, <2>8 DEF Relies, ImportPhases
    <2> QED
      BY <1>1, <2>2, <2>7, <2>9, <2>10, QuietKeeps DEF GoesOn, GroupPhases
  <1> QED
    BY <1>3, <1>4, <1>5, <1>6 DEF CheckCreator, Cleaned

\* The rows a transaction erases, with their comments.
LEMMA ErasedRows ==
  ASSUME EntriesOK, CommentsOK, NEW es \in SUBSET Entries, entry' = Erased(es),
         comment' = WithoutCommentsOn(es), \A e \in es : Stored(e)
  PROVE  /\ entry' \in [Entries -> EntryRows] /\ comment' \in [Comments -> CommentRows]
         /\ \A e \in es : entry'[e].status = "gone" /\ ~Stored(e)'
         /\ \A e \in Entries \ es : entry'[e] = entry[e] /\ (Stored(e)' <=> Stored(e))
         /\ \A e \in Entries :
              /\ entry'[e].group = entry[e].group /\ entry'[e].kind = entry[e].kind
              /\ entry'[e].image = entry[e].image /\ entry'[e].named = entry[e].named
              /\ entry'[e].deletedAt = entry[e].deletedAt
         /\ \A c \in Comments :
              /\ comment'[c].on = comment[c].on /\ comment'[c].author = comment[c].author
              /\ IsComment(c)' => IsComment(c) /\ comment[c].on \notin es
  <1>1. /\ \A r \in EntryRows : LET s == [r EXCEPT !.status = "gone"] IN
             /\ s \in EntryRows /\ s.status = "gone" /\ s.group = r.group /\ s.kind = r.kind
             /\ s.image = r.image /\ s.named = r.named /\ s.deletedAt = r.deletedAt
        /\ \A r \in CommentRows : LET s == [r EXCEPT !.status = "gone"] IN
             /\ s \in CommentRows /\ s.status = "gone" /\ s.on = r.on /\ s.author = r.author
    BY DEF EntryRows, CommentRows
  <1>2. /\ \A e \in Entries : entry[e] \in EntryRows
        /\ \A c \in Comments : comment[c] \in CommentRows
    BY DEF EntriesOK, CommentsOK
  <1>3. /\ \A e \in Entries : entry'[e] = IF e \in es THEN [entry[e] EXCEPT !.status = "gone"]
                                                      ELSE entry[e]
        /\ \A c \in Comments :
             comment'[c] = IF comment[c].on \in es THEN [comment[c] EXCEPT !.status = "gone"]
                                                   ELSE comment[c]
    BY DEF Erased, WithoutCommentsOn
  <1>4. entry' \in [Entries -> EntryRows]
    BY <1>1, <1>2 DEF Erased
  <1>5. comment' \in [Comments -> CommentRows]
    BY <1>1, <1>2 DEF WithoutCommentsOn
  <1>6. ASSUME NEW c \in Comments
        PROVE  /\ comment'[c].on = comment[c].on /\ comment'[c].author = comment[c].author
               /\ IsComment(c)' => IsComment(c) /\ comment[c].on \notin es
    BY <1>1, <1>2, <1>3 DEF IsComment
  <1>7. ASSUME NEW e \in Entries
        PROVE  /\ entry'[e].group = entry[e].group /\ entry'[e].kind = entry[e].kind
               /\ entry'[e].image = entry[e].image /\ entry'[e].named = entry[e].named
               /\ entry'[e].deletedAt = entry[e].deletedAt
               /\ e \in es => entry'[e].status = "gone" /\ ~Stored(e)'
               /\ e \notin es => entry'[e] = entry[e] /\ (Stored(e)' <=> Stored(e))
    <2>1. CASE e \in es
      <3>1. entry'[e] = [entry[e] EXCEPT !.status = "gone"] /\ entry[e] \in EntryRows
        BY <1>2, <1>3, <2>1
      <3>2. /\ entry'[e].group = entry[e].group /\ entry'[e].kind = entry[e].kind
            /\ entry'[e].image = entry[e].image /\ entry'[e].named = entry[e].named
            /\ entry'[e].deletedAt = entry[e].deletedAt /\ entry'[e].status = "gone"
        BY <1>1, <3>1
      <3> QED
        BY <2>1, <3>2 DEF Stored
    <2>2. CASE e \notin es
      BY <1>3, <2>2 DEF Stored
    <2> QED
      BY <2>1, <2>2
  <1> QED
    BY <1>4, <1>5, <1>6, <1>7

\* Rows erased so are not kept by anything else: RowsLast and EntriesOK hold
\* if the groups of other expenses stay and nobody else has locked the rows.
LEMMA ErasedKeeps ==
  ASSUME ContentsInd, NEW es \in SUBSET Entries, entry' = Erased(es),
         comment' = WithoutCommentsOn(es), \A e \in es : Stored(e),
         \A e \in Entries \ es : Stored(e) /\ entry[e].kind = "expense" =>
                                   entry[e].group \in LiveGroups',
         \A v \in Workers : erasing'[v] = erasing[v] => erasing[v] \cap es = {}
  PROVE  EntriesOK' /\ RowsLast /\ comment' \in [Comments -> CommentRows]
  <1>1. EntriesOK /\ CommentsOK
    BY ContentsHasGroups
  <1>2. RowsLast
    <2>1. ASSUME NEW c \in Comments, IsComment(c)'
          PROVE  /\ comment'[c].on \in Entries /\ Stored(comment[c].on)'
                 /\ IsComment(c) /\ comment'[c].on = comment[c].on
                 /\ comment'[c].author = comment[c].author
      <3>1. /\ IsComment(c) /\ comment[c].on \notin es /\ comment'[c].on = comment[c].on
            /\ comment'[c].author = comment[c].author
        BY <1>1, <2>1, ErasedRows
      <3>2. PICK e \in Entries : e = comment[c].on /\ Stored(e)
        BY <1>1, <3>1 DEF CommentsOK, ContentsInd, CommentersBelong
      <3>3. Stored(e)'
        BY <1>1, <3>1, <3>2, ErasedRows
      <3> QED
        BY <3>1, <3>2, <3>3
    <2>2. ASSUME NEW e \in Entries
          PROVE  /\ entry[e].status # "unused" =>
                      /\ entry'[e].status # "unused" /\ entry'[e].group = entry[e].group
                      /\ entry'[e].kind = entry[e].kind /\ entry[e].named \subseteq entry'[e].named
                 /\ entry[e].status = "gone" => entry'[e].status = "gone"
                 /\ entry[e].status = "deleted" =>
                      /\ entry'[e].status \in {"deleted", "gone"}
                      /\ entry'[e].deletedAt = entry[e].deletedAt
      BY <1>1, ErasedRows
    <2>3. ASSUME NEW v \in Workers, erasing'[v] = erasing[v], NEW e \in erasing[v]
          PROVE  Stored(e)'
      <3>1. e \in Entries \ es /\ Stored(e)
        BY <2>3, ContentsHasGroups DEF LocksOK
      <3> QED
        BY <1>1, <3>1, ErasedRows
    <2> QED
      BY <2>1, <2>2, <2>3 DEF RowsLast
  <1>3. ASSUME NEW e \in Entries
        PROVE  /\ entry'[e].status # "unused" => entry'[e].group \in Groups
               /\ entry'[e].kind = "settlement" => entry'[e].named = {}
               /\ NamedBy(entry'[e].image) \subseteq entry'[e].named
               /\ Stored(e)' /\ entry'[e].kind = "expense" => entry'[e].group \in LiveGroups'
    <2>1. entry'[e].status # "unused" => entry[e].status # "unused"
      BY <1>1, ErasedRows DEF Stored
    <2>2. Stored(e)' => e \notin es /\ Stored(e)
      BY <1>1, ErasedRows
    <2> QED
      BY <1>1, <2>1, <2>2, ErasedRows DEF EntriesOK
  <1> QED
    BY <1>1, <1>2, <1>3, ErasedRows DEF EntriesOK, NamedBy

\* The deletion of a group takes the entries whose images are to go with it.
LEMMA EraseKeeps ==
  ASSUME ContentsInd, NEW w \in Workers, pc[w] = "erase_group", EraseAll(w),
         \A e \in RowsOf(call[w].group) \ erasing[w] : entry[e].kind = "settlement",
         erasing' = [erasing EXCEPT ![w] = {}], Goto(w, "clean"),
         UNCHANGED <<given, call, image, now, paths, base>>
  PROVE  /\ ContentsInd' /\ RowsLast
         /\ \A e \in Entries : Stored(e) /\ ~Stored(e)' => entry[e].group \notin LiveGroups'
  <1> DEFINE g == call[w].group
             es == erasing[w]
  <1>1. call[w] \in ContentCalls /\ call[w].op = "delete" /\ g \in Groups /\ group[g].status # "unused"
    BY ContentsHasGroups, ContentCallShape DEF ContentCallOK
  <1>2. /\ group' = [group EXCEPT ![g].status = IF @ = "live" THEN "gone" ELSE @]
        /\ members' = [members EXCEPT ![g] = {}]
        /\ entry' = Erased(es) /\ comment' = WithoutCommentsOn(es)
        /\ Goto(w, "clean") /\ UNCHANGED <<given, call, image, now, paths, base>>
    BY DEF EraseAll
  <1>16. /\ es \in SUBSET Entries /\ \A e \in es : Stored(e) /\ entry[e].group = g
         /\ \A v \in Workers : erasing'[v] = erasing[v] => erasing[v] \cap es = {}
    BY ContentsHasGroups DEF LocksOK
  <1>17. LocksMoved(w)
    BY LocksReleased
  <1>3. group \in [Groups -> GroupRows] /\ members \in [Groups -> SUBSET Users] /\ GroupsTypeOK /\ TokensOK
    BY DEF ContentsInd, ContentsTypeOK, GroupsTypeOK
  <1>4. ContentMoved(w) /\ pc'[w] = "clean" /\ call'[w] = call[w] /\ paths'[w] = paths[w]
    BY <1>2, <1>17, GotoMovesContent
  <1>5. group[g] \in GroupRows /\ group[g].status \in {"live", "gone"}
    BY <1>1, <1>3, GroupRowShape
  <1>6. /\ group'[g] = [group[g] EXCEPT !.status = "gone"]
        /\ \A h \in Groups \ {g} : group'[h] = group[h] /\ members'[h] = members[h]
        /\ members'[g] = {}
    BY <1>1, <1>2, <1>3, <1>5
  <1>7. /\ group'[g] \in GroupRows /\ group'[g].status = "gone"
        /\ group'[g].creator = group[g].creator /\ group'[g].token = group[g].token
    BY <1>5, <1>6 DEF GroupRows
  <1>8. /\ group' \in [Groups -> GroupRows] /\ members' \in [Groups -> SUBSET Users]
        /\ LiveGroups' = LiveGroups \ {g}
    BY <1>1, <1>2, <1>3, <1>6, <1>7 DEF LiveGroups
  <1>9. GroupsLast
    BY <1>1, <1>6, <1>7 DEF GroupsLast
  <1>10. GroupsInd'
    <2>1. GroupCallOK(w)'
      BY <1>4, OutsideGroups
    <2>2. \A v \in Workers : GroupCallOK(v)'
      BY <1>3, <1>4, <1>9, <2>1, OtherGroupCalls DEF ContentMoved
    <2>3. \A h \in Groups : /\ h \in LiveGroups' => group'[h].creator \in members'[h]
                            /\ h \notin LiveGroups' => members'[h] = {}
      BY <1>3, <1>6, <1>8 DEF GroupsTypeOK
    <2>4. GroupsTypeOK'
      BY <1>2, <1>3, <1>4, <1>8, <2>2, <2>3 DEF GroupsTypeOK, ContentMoved, Moved, LiveGroups
    <2>5. \A h \in Groups : group'[h].token = group[h].token
                              /\ (group'[h].status = "unused" => group[h].status = "unused")
      BY <1>6, <1>7
    <2>6. TokensOK'
      BY <1>2, <1>3, <2>5 DEF TokensOK, GroupsTypeOK
    <2> QED
      BY <2>4, <2>6 DEF GroupsInd
  <1>11. EntriesOK' /\ RowsLast /\ comment' \in [Comments -> CommentRows]
    <2>1. ASSUME NEW e \in Entries \ es, Stored(e), entry[e].kind = "expense"
          PROVE  entry[e].group \in LiveGroups'
      <3>1. entry[e].group \in LiveGroups
        BY <2>1, ContentsHasGroups DEF EntriesOK
      <3>2. entry[e].group # g
        BY <2>1 DEF RowsOf
      <3> QED
        BY <1>8, <3>1, <3>2
    <2> QED
      BY <1>2, <1>16, <2>1, ErasedKeeps
  <1>12. Relies(w)'
    <2>1. ASSUME NEW i \in paths[w] PROVE GoneNames(i)'
      <3>1. PICK e \in Entries : entry[e].status # "unused" /\ entry[e].group = g /\ i \in entry[e].named
        BY <2>1, ContentsHasGroups DEF Relies
      <3>2. Stored(e) => e \in es
        BY <3>1, ContentsHasGroups DEF RowsOf, EntriesOK
      <3>3. entry'[e].status = "gone" /\ entry'[e].named = entry[e].named
        BY <1>2, <1>16, <3>1, <3>2, ErasedRows, EntryRowShape, ContentsHasGroups DEF Stored, EntriesOK
      <3> QED
        BY <3>1, <3>3 DEF GoneNames
    <2> QED
      BY <1>4, <2>1 DEF Relies, ImportPhases
  <1>13. ContentCallOK(w)' /\ KnowsGroup(w)'
    BY <1>1, <1>4, <1>7 DEF ContentCallOK, KnowsGroup, FoundCalls, ContentCall
  <1>14. ContentsInd'
    BY <1>2, <1>4, <1>9, <1>10, <1>11, <1>12, <1>13, SameImages, WorkerKeeps
    DEF ContentsInd, ContentsTypeOK
  <1>15. \A e \in Entries : Stored(e) /\ ~Stored(e)' => e \in es
    BY <1>2, <1>16, ErasedRows, ContentsHasGroups
  <1> QED
    BY <1>8, <1>11, <1>14, <1>15, <1>16

\* The end of the deletion keeps the invariant, committed or not.
LEMMA EraseGroupKeeps ==
  ASSUME ContentsInd, NEW w \in Workers, EraseGroup(w)
  PROVE  /\ ContentsInd' /\ (RowsLast \/ UNCHANGED entry)
         /\ \A e \in Entries : Stored(e) /\ ~Stored(e)' => entry[e].group \notin LiveGroups'
  <1>1. CASE Leave(w) /\ UNCHANGED <<group, members, given, entry, comment, image, now>>
    <2>1. ContentsInd'
      BY <1>1, LeaveGoesOn, QuietKeeps
    <2> QED
      BY <1>1, <2>1 DEF Stored
  <1>2. CASE /\ \A e \in RowsOf(call[w].group) \ erasing[w] : entry[e].kind = "settlement"
             /\ pc[w] = "erase_group" /\ EraseAll(w) /\ erasing' = [erasing EXCEPT ![w] = {}]
             /\ Goto(w, "clean") /\ UNCHANGED <<given, call, image, now, paths, base>>
    BY <1>2, EraseKeeps
  <1> QED
    BY <1>1, <1>2 DEF EraseGroup

\* Images go after the rows that had them.
LEMMA CleanKeeps ==
  ASSUME ContentsInd, NEW w \in Workers, CleanImage(w)
  PROVE  ContentsInd' /\ EntriesLast
  <1>1. UNCHANGED <<group, members, given, call, pc, entry, comment, now, base>>
        /\ LocksMoved(w)
    BY LocksKept DEF CleanImage, groupVars
  <1>2. PICK i \in paths[w] : /\ paths' = [paths EXCEPT ![w] = @ \ {i}]
                              /\ image' \in {image, [image EXCEPT ![i] = "removed"]}
    BY DEF CleanImage
  <1>3. /\ call[w] \in ContentCalls /\ call[w].op = "delete" /\ pc[w] = "clean"
        /\ group[call[w].group].status # "unused"
        /\ \A p \in paths[w] : p \in Images /\ GoneNames(p)
    BY ContentsHasGroups DEF CleanImage, ContentCallOK, Relies
  <1>4. ContentMoved(w) /\ paths'[w] \subseteq paths[w]
    BY <1>1, <1>2, ContentsHasGroups DEF ContentMoved, Moved
  <1>5. EntriesLast /\ EntriesOK'
    BY <1>1, SameEntries
  <1>6. \A p \in Images : GoneNames(p) => GoneNames(p)'
    BY <1>1 DEF GoneNames
  <1>7. ImagesLast
    BY <1>2, <1>3, <1>6 DEF ImagesLast, ContentsInd, ContentsTypeOK
  <1>8. ContentCallOK(w)' /\ KnowsGroup(w)' /\ Relies(w)'
    BY <1>1, <1>3, <1>4, <1>6
    DEF ContentCallOK, KnowsGroup, Relies, ImportPhases, FoundCalls, ContentCall
  <1> QED
    BY <1>1, <1>3, <1>4, <1>5, <1>7, <1>8, EntryStepKeeps DEF GoesOn, GroupPhases

-----------------------------------------------------------------------------
(* All of them *)

\* The invariant holds before the first call.
LEMMA ContentsStart == ContentsInit => ContentsInd
  <1> SUFFICES ASSUME ContentsInit PROVE ContentsInd
    OBVIOUS
  <1>1. GroupsInd
    BY GroupsStart DEF ContentsInit
  <1>2. entry \in [Entries -> EntryRows] /\ \A e \in Entries : entry[e] = UnusedEntry
    BY DEF ContentsInit, EntryRows, UnusedEntry
  <1>3. EntriesOK
    BY <1>2 DEF EntriesOK, UnusedEntry, Stored, NamedBy
  <1>4. CommentsOK /\ CommentersBelong /\ LocksOK
    BY DEF ContentsInit, LocksOK, CommentsOK, CommentersBelong, CommentRows, UnusedComment, IsComment
  <1>5. \A w \in Workers : ContentCallOK(w) /\ KnowsGroup(w) /\ Relies(w)
    BY DEF ContentsInit, GroupsInit, ContentCallOK, KnowsGroup, Relies, NullCall, FoundCalls,
           ContentCall, ImportPhases
  <1>6. ImagesOutliveRows
    BY DEF ContentsInit, ImagesOutliveRows
  <1> QED
    BY <1>1, <1>3, <1>4, <1>5, <1>6 DEF ContentsInit, ContentsInd, ContentsTypeOK, GroupsInd

\* What was deleted stays so, since when it was, until it is gone for good.
DeletedLast ==
  \A e \in Entries :
    /\ entry[e].status = "gone" => entry'[e].status = "gone"
    /\ entry[e].status = "deleted" =>
         entry'[e].status \in {"deleted", "gone"} /\ entry'[e].deletedAt = entry[e].deletedAt
    /\ entry[e].status # "unused" =>
         entry'[e].kind = entry[e].kind /\ entry[e].named \subseteq entry'[e].named

\* Every step keeps the invariant, and erases a row only with its group.
LEMMA ContentsStepKeeps ==
  ASSUME ContentsInd, ContentsNext
  PROVE  /\ ContentsInd' /\ DeletedLast
         /\ \A e \in Entries : Stored(e) /\ ~Stored(e)' => entry[e].group \notin LiveGroups'
  <1>1. ASSUME UNCHANGED entry PROVE DeletedLast /\ \A e \in Entries : Stored(e) => Stored(e)'
    BY <1>1 DEF DeletedLast, Stored
  <1>2. ASSUME EntriesLast PROVE DeletedLast /\ \A e \in Entries : Stored(e) => Stored(e)'
    BY <1>2 DEF DeletedLast, EntriesLast
  <1>3. PICK w \in Workers :
          \/ (AcceptGroupCall(w) \/ GroupStep(w)) /\ UNCHANGED contentVars
          \/ AcceptContentCall(w) \/ EntryStep(w) \/ ImportStep(w) \/ DeleteStep(w)
          \/ FailContent(w)
    BY DEF ContentsNext
  <1>4. CASE (AcceptGroupCall(w) \/ GroupStep(w)) /\ UNCHANGED contentVars
    BY <1>1, <1>4, GroupsOfContents DEF contentVars
  <1>5. CASE AcceptContentCall(w)
    BY <1>1, <1>5, AcceptContentKeeps DEF AcceptContentCall
  <1>6. CASE EntryStep(w)
    <2>1. ContentsInd'
      BY <1>6, UploadKeeps, FindKeeps, AuthorizeKeeps, InsertKeeps, ReadImageKeeps, UpdateKeeps,
         CommentKeeps, FindCommentKeeps DEF EntryStep
    <2>2. EntriesLast \/ UNCHANGED entry
      BY <1>6, UploadKeeps, InsertKeeps, UpdateKeeps, CommentKeeps
      DEF EntryStep, Find, Authorize, ReadImage, FindComment, contentVars
    <2> QED
      BY <1>1, <1>2, <2>1, <2>2
  <1>7. CASE ImportStep(w)
    BY <1>1, <1>2, <1>7, ImportCheckKeeps, ImportRowKeeps
    DEF ImportStep, CheckImport, ReadExpenses, ReadSettlements, ImportDone
  <1>8. CASE DeleteStep(w)
    <2>1. CASE EraseGroup(w)
      BY <1>1, <2>1, EraseGroupKeeps DEF RowsLast, DeletedLast
    <2>2. CASE CleanImage(w)
      BY <1>2, <2>2, CleanKeeps
    <2>3. CASE CheckCreator(w) \/ ReadPaths(w) \/ EraseRows(w) \/ Cleaned(w)
      BY <1>1, <2>3, DeleteCheckKeeps DEF CheckCreator, ReadPaths, EraseRows, Cleaned
    <2> QED
      BY <1>8, <2>1, <2>2, <2>3 DEF DeleteStep
  <1>9. CASE FailContent(w)
    BY <1>1, <1>9, LeaveGoesOn, QuietKeeps DEF FailContent
  <1> QED
    BY <1>3, <1>4, <1>5, <1>6, <1>7, <1>8, <1>9

\* The calls do not move the clock.
LEMMA ContentsKeepTime ==
  ASSUME ContentsNext
  PROVE  UNCHANGED now
  BY DEF ContentsNext, contentVars, AcceptContentCall, EntryStep, Upload, Find, Authorize,
         InsertExpense, InsertSettlement, ReadImage, UpdateImage, SoftDelete, InsertComment,
         FindComment, DeleteComment, ImportStep, CheckImport, ReadExpenses, ReadSettlements,
         ImportRow, ImportDone, DeleteStep, CheckCreator, ReadPaths, EraseRows, EraseGroup, CleanImage,
         Cleaned,
         FailContent

-----------------------------------------------------------------------------
(* THE STEPS OF RETENTION *)

\* The images a purge is about to delete are those of expenses that are old
\* enough, and once it deletes them those are gone.
Doomed(j) ==
  /\ jpc[j] = "purge" =>
       \A i \in doomed[j] : GoneNames(i) \/ \E e \in Old(j) : i \in entry[e].named
  /\ jpc[j] = "clean" => \A i \in doomed[j] : GoneNames(i)

RetentionInd ==
  /\ ContentsInd /\ JobsOK
  /\ \A j \in Instances : Doomed(j)

\* The invariant holds before the first call and the first purge.
LEMMA RetentionStart == RetentionInit => RetentionInd
  <1> SUFFICES ASSUME RetentionInit PROVE RetentionInd
    OBVIOUS
  <1>1. ContentsInd
    BY ContentsStart DEF RetentionInit
  <1> QED
    BY <1>1, RetentionAssumption DEF RetentionInit, RetentionInd, JobsOK, Doomed

\* A purge that does not go on keeps what it found out.
LEMMA SamePurge ==
  ASSUME RetentionInd, DeletedLast, NEW j \in Instances,
         jpc'[j] = jpc[j], doomed'[j] = doomed[j], cutoff'[j] = cutoff[j]
  PROVE  Doomed(j)'
  <1>1. \A i \in Images : GoneNames(i) => GoneNames(i)'
    BY DEF GoneNames, DeletedLast
  <1>2. doomed[j] \subseteq Images /\ Doomed(j)
    BY DEF RetentionInd, JobsOK
  <1>3. ASSUME NEW e \in Old(j), NEW i \in entry[e].named
        PROVE  GoneNames(i)' \/ (e \in Old(j)' /\ i \in entry'[e].named)
    BY <1>3 DEF Old, DeletedLast, GoneNames
  <1> QED
    BY <1>1, <1>2, <1>3 DEF Doomed

\* What a step of the purge by j does to the others, and to the rest.
Alone(j) ==
  /\ DOMAIN jpc' = Instances /\ cutoff' \in [Instances -> Int]
  /\ doomed' \in [Instances -> SUBSET Images]
  /\ \A k \in Instances \ {j} :
       jpc'[k] = jpc[k] /\ doomed'[k] = doomed[k] /\ cutoff'[k] = cutoff[k]

PurgeOK(j) ==
  /\ jpc[j] \in {"idle", "claim", "read_paths", "purge", "clean"}
  /\ jpc[j] = "claim" => cutoff[j] + purgeJobMinInterval <= now
  /\ jpc[j] \in {"read_paths", "purge"} => cutoff[j] + ExpenseRetention <= now
  /\ doomed[j] # {} => jpc[j] \in {"purge", "clean"}

\* A step of one purge keeps the invariant once it is right by that purge:
\* the others keep what they have found out.
LEMMA PurgeKeeps ==
  ASSUME RetentionInd, ContentsInd', DeletedLast, UNCHANGED now, NEW j \in Instances, Alone(j),
         PurgeOK(j)', Doomed(j)', last_run_at' \in {last_run_at, now}
  PROVE  RetentionInd'
  <1>1. \A k \in Instances : Doomed(k)'
    BY SamePurge DEF Alone
  <1>2. \A k \in Instances : PurgeOK(k)'
    BY DEF RetentionInd, JobsOK, PurgeOK, Alone
  <1>3. last_run_at' \in Nat \cup {Never} /\ (last_run_at' # Never => last_run_at' <= now')
    BY DEF RetentionInd, JobsOK, ContentsInd, ContentsTypeOK
  <1> QED
    BY <1>1, <1>2, <1>3 DEF RetentionInd, JobsOK, PurgeOK, Alone

\* Steps that leave groups, calls and rows as they are keep their invariant.
LEMMA SameContents ==
  ASSUME RetentionInd, UNCHANGED <<group, members, given, call, pc, entry, comment, paths, base, erasing>>,
         now' \in Nat, ImagesLast
  PROVE  ContentsInd' /\ DeletedLast
  <1>1. ContentsInd
    BY DEF RetentionInd
  <1>2. EntriesLast /\ EntriesOK'
    BY <1>1, SameEntries
  <1>3. RowsLast
    BY <1>1, <1>2, RowsFromEntries DEF LiveGroups
  <1> QED
    BY <1>1, <1>2, <1>3, OutsideKeeps, ContentsHasGroups DEF DeletedLast, CommentsOK

\* Time passing makes no cutoff too recent, for cutoffs only get older.
LEMMA TickKeeps ==
  ASSUME RetentionInd, Tick
  PROVE  RetentionInd' /\ UNCHANGED <<entry, last_run_at>>
  <1>1. /\ now \in Nat /\ now' = now + 1
        /\ UNCHANGED <<group, members, given, call, pc, entry, comment, image, paths, base, erasing>>
        /\ UNCHANGED <<last_run_at, jpc, cutoff, doomed>>
    BY DEF RetentionInd, ContentsInd, ContentsTypeOK, Tick, groupVars, jobVars
  <1>2. ContentsInd' /\ DeletedLast
    BY <1>1, SameContents, SameImages DEF RetentionInd
  <1>3. \A j \in Instances : Doomed(j)'
    BY <1>1, <1>2, SamePurge
  <1>4. JobsOK'
    <2>1. last_run_at \in Nat => last_run_at <= now'
      BY <1>1, RetentionAssumption DEF RetentionInd, JobsOK
    <2>2. \A j \in Instances : /\ jpc[j] = "claim" => cutoff[j] + purgeJobMinInterval <= now'
                               /\ jpc[j] \in {"read_paths", "purge"} =>
                                    cutoff[j] + ExpenseRetention <= now'
      BY <1>1, RetentionAssumption DEF RetentionInd, JobsOK
    <2> QED
      BY <1>1, <2>1, <2>2 DEF RetentionInd, JobsOK
  <1> QED
    BY <1>1, <1>2, <1>3, <1>4 DEF RetentionInd

\* A purge that has ended, or has stopped, holds nothing.
LEMMA JobDoneLeaves ==
  ASSUME RetentionInd, NEW j \in Instances, JobDone(j)
  PROVE  Alone(j) /\ PurgeOK(j)' /\ Doomed(j)'
  <1>1. /\ Alone(j) /\ jpc'[j] = "idle" /\ doomed'[j] = {}
    BY DEF JobDone, JobGoto, RetentionInd, JobsOK, Alone
  <1> QED
    BY <1>1 DEF PurgeOK, Doomed

\* The steps of a purge that leave the rows alone.
LEMMA QuietPurgeKeeps ==
  ASSUME RetentionInd, NEW j \in Instances,
         Wake(j) \/ TryClaim(j) \/ GetOldPaths(j) \/ CleanOldImage(j) \/ EndJob(j)
  PROVE  RetentionInd' /\ UNCHANGED <<entry, now>>
  <1>1. UNCHANGED <<group, members, given, call, pc, entry, comment, now, paths, base, erasing>>
    BY DEF Wake, TryClaim, GetOldPaths, CleanOldImage, EndJob, contentsVars, contentVars, groupVars
  <1>2. /\ now \in Nat /\ DOMAIN jpc = Instances /\ cutoff \in [Instances -> Int]
        /\ doomed \in [Instances -> SUBSET Images] /\ PurgeOK(j) /\ Doomed(j)
        /\ purgeJobMinInterval \in Nat /\ ExpenseRetention \in Nat
    BY RetentionAssumption DEF RetentionInd, JobsOK, PurgeOK, ContentsInd, ContentsTypeOK
  <1>3. ASSUME UNCHANGED image PROVE ContentsInd' /\ DeletedLast
    BY <1>1, <1>2, <1>3, SameContents, SameImages DEF RetentionInd
  <1>4. ASSUME JobDone(j), UNCHANGED <<image, last_run_at>> PROVE RetentionInd'
    BY <1>1, <1>3, <1>4, JobDoneLeaves, PurgeKeeps
  <1>5. CASE Wake(j)
    <2>1. Alone(j) /\ jpc'[j] = "claim" /\ cutoff'[j] = now - purgeJobMinInterval /\ doomed'[j] = doomed[j]
      BY <1>2, <1>5 DEF Wake, JobGoto, Alone
    <2>2. PurgeOK(j)' /\ Doomed(j)'
      BY <1>1, <1>2, <1>5, <2>1 DEF PurgeOK, Doomed, Wake
    <2> QED
      BY <1>1, <1>3, <1>5, <2>1, <2>2, PurgeKeeps DEF Wake, contentsVars, contentVars
  <1>6. CASE TryClaim(j)
    <2>1. CASE JobDone(j) /\ UNCHANGED last_run_at
      BY <1>1, <1>4, <1>6, <2>1 DEF TryClaim, contentsVars, contentVars
    <2>2. CASE /\ last_run_at' = now /\ cutoff' = [cutoff EXCEPT ![j] = now - ExpenseRetention]
               /\ JobGoto(j, "read_paths") /\ UNCHANGED doomed
      <3>1. Alone(j) /\ jpc'[j] = "read_paths" /\ cutoff'[j] = now - ExpenseRetention /\ doomed'[j] = doomed[j]
        BY <1>2, <2>2 DEF JobGoto, Alone
      <3>2. PurgeOK(j)' /\ Doomed(j)'
        BY <1>1, <1>2, <1>6, <3>1 DEF PurgeOK, Doomed, TryClaim
      <3> QED
        BY <1>1, <1>3, <1>6, <2>2, <3>1, <3>2, PurgeKeeps DEF TryClaim, contentsVars, contentVars
    <2> QED
      BY <1>6, <2>1, <2>2 DEF TryClaim
  <1>7. CASE GetOldPaths(j)
    <2> DEFINE P == {i \in Images : \E e \in Old(j) : entry[e].image = i}
    <2>1. Alone(j) /\ jpc'[j] = "purge" /\ cutoff'[j] = cutoff[j] /\ doomed'[j] = P
      BY <1>2, <1>7 DEF GetOldPaths, JobGoto, Alone
    <2>2. \A i \in P : \E e \in Old(j) : i \in entry[e].named
      BY ContentsHasGroups, ContentsAssumption DEF RetentionInd, EntriesOK, NamedBy, Old
    <2>3. PurgeOK(j)' /\ Doomed(j)'
      BY <1>1, <1>2, <1>7, <2>1, <2>2 DEF PurgeOK, Doomed, GetOldPaths, Old, GoneNames
    <2> QED
      BY <1>1, <1>3, <1>7, <2>1, <2>3, PurgeKeeps DEF GetOldPaths, contentsVars, contentVars
  <1>8. CASE CleanOldImage(j)
    <2>1. PICK i \in doomed[j] : /\ doomed' = [doomed EXCEPT ![j] = @ \ {i}]
                                 /\ image' \in {image, [image EXCEPT ![i] = "removed"]}
      BY <1>8 DEF CleanOldImage
    <2>2. jpc[j] = "clean" /\ UNCHANGED <<jpc, cutoff, last_run_at>>
      BY <1>8 DEF CleanOldImage
    <2>3. Alone(j) /\ doomed'[j] \subseteq doomed[j]
      BY <1>2, <2>1, <2>2 DEF Alone
    <2>4. \A p \in Images : GoneNames(p) => GoneNames(p)'
      BY <1>1 DEF GoneNames
    <2>5. ImagesLast
      BY <1>2, <2>1, <2>2, <2>4 DEF Doomed, ImagesLast, RetentionInd, ContentsInd, ContentsTypeOK
    <2>6. ContentsInd' /\ DeletedLast
      BY <1>1, <1>2, <2>5, SameContents
    <2>7. PurgeOK(j)' /\ Doomed(j)'
      BY <1>2, <2>2, <2>3, <2>4 DEF PurgeOK, Doomed
    <2> QED
      BY <1>1, <2>2, <2>3, <2>6, <2>7, PurgeKeeps
  <1>9. CASE EndJob(j)
    BY <1>1, <1>4, <1>9 DEF EndJob, contentsVars, contentVars
  <1> QED
    BY <1>1, <1>5, <1>6, <1>7, <1>8, <1>9

\* The transaction of a purge erases old tombstones only, and makes their
\* images free to go.
LEMMA PurgeRowsKeeps ==
  ASSUME RetentionInd, NEW j \in Instances, PurgeOldSoftDeleted(j)
  PROVE  /\ RetentionInd' /\ UNCHANGED <<now, last_run_at>>
         /\ \A e \in Entries : Stored(e) /\ ~Stored(e)' => e \in Old(j)
         /\ cutoff[j] + ExpenseRetention <= now
  <1>1. /\ entry' = Erased(Old(j)) /\ comment' = WithoutCommentsOn(Old(j))
        /\ jpc[j] = "purge" /\ JobGoto(j, "clean")
        /\ UNCHANGED <<group, members, given, call, pc, image, now, paths, base, erasing>>
        /\ UNCHANGED <<last_run_at, cutoff, doomed>>
        /\ \A e \in Old(j) : ~Locked(e)
    BY DEF PurgeOldSoftDeleted, groupVars
  <1>2. Old(j) \subseteq Entries /\ \A e \in Old(j) : Stored(e)
    BY DEF Old, Stored
  <1>3. ContentsInd /\ EntriesOK /\ CommentsOK
    BY ContentsHasGroups DEF RetentionInd
  <1>4. EntriesOK' /\ RowsLast /\ comment' \in [Comments -> CommentRows]
    <2>1. \A e \in Entries : Stored(e) /\ entry[e].kind = "expense" => entry[e].group \in LiveGroups'
      BY <1>1, <1>3 DEF EntriesOK, LiveGroups
    <2>2. \A v \in Workers : erasing[v] \cap Old(j) = {}
      BY <1>1 DEF Locked
    <2> QED
      BY <1>1, <1>2, <1>3, <2>1, <2>2, ErasedKeeps
  <1>5. ContentsInd' /\ DeletedLast
    BY <1>1, <1>3, <1>4, SameImages, OutsideKeeps
    DEF ContentsInd, ContentsTypeOK, RowsLast, DeletedLast
  <1>6. Alone(j) /\ jpc'[j] = "clean"
    BY <1>1 DEF JobGoto, Alone, RetentionInd, JobsOK
  <1>7. \A e \in Old(j) : entry'[e].status = "gone" /\ entry'[e].named = entry[e].named
    BY <1>1, <1>2, <1>3, ErasedRows
  <1>8. ASSUME NEW i \in doomed[j] PROVE GoneNames(i)'
    <2>1. CASE GoneNames(i)
      BY <1>5, <2>1 DEF GoneNames, DeletedLast
    <2>2. ASSUME NEW e \in Old(j), i \in entry[e].named PROVE GoneNames(i)'
      BY <1>2, <1>7, <2>2 DEF GoneNames
    <2> QED
      BY <1>1, <1>8, <2>1, <2>2 DEF RetentionInd, Doomed
  <1>9. PurgeOK(j)' /\ Doomed(j)'
    BY <1>1, <1>6, <1>8 DEF PurgeOK, Doomed
  <1>10. RetentionInd'
    BY <1>1, <1>5, <1>6, <1>9, PurgeKeeps
  <1>11. \A e \in Entries : Stored(e) /\ ~Stored(e)' => e \in Old(j)
    BY <1>1, <1>2, <1>3, ErasedRows
  <1> QED
    BY <1>1, <1>10, <1>11 DEF RetentionInd, JobsOK

\* Every step of the calls, the clock and the purges keeps the invariant.
LEMMA RetentionStep == RetentionInd /\ [RetentionNext]_vars => RetentionInd'
  <1> SUFFICES ASSUME RetentionInd, [RetentionNext]_vars PROVE RetentionInd'
    OBVIOUS
  <1>1. CASE ContentsNext /\ UNCHANGED jobVars
    <2>1. ContentsInd' /\ DeletedLast
      BY <1>1, ContentsStepKeeps DEF RetentionInd
    <2>2. UNCHANGED <<last_run_at, jpc, cutoff, doomed, now>>
      BY <1>1, ContentsKeepTime DEF jobVars
    <2>3. \A j \in Instances : Doomed(j)'
      BY <2>1, <2>2, SamePurge
    <2> QED
      BY <2>1, <2>2, <2>3 DEF RetentionInd, JobsOK
  <1>2. CASE Tick
    BY <1>2, TickKeeps
  <1>3. ASSUME NEW j \in Instances, Purge(j) PROVE RetentionInd'
    BY <1>3, QuietPurgeKeeps, PurgeRowsKeeps DEF Purge
  <1>4. CASE UNCHANGED vars
    <2>1. /\ UNCHANGED <<group, members, given, call, pc, entry, comment, image, now, paths, base, erasing>>
          /\ UNCHANGED <<last_run_at, jpc, cutoff, doomed>>
      BY <1>4 DEF vars, contentsVars, contentVars, groupVars, jobVars
    <2>2. ContentsInd' /\ DeletedLast
      BY <2>1, SameContents, SameImages DEF RetentionInd, ContentsInd, ContentsTypeOK
    <2>3. \A j \in Instances : Doomed(j)'
      BY <2>1, <2>2, SamePurge
    <2> QED
      BY <2>1, <2>2, <2>3 DEF RetentionInd, JobsOK
  <1> QED
    BY <1>1, <1>2, <1>3, <1>4 DEF RetentionNext

\* The strengthening from which the rest follows: the invariants of groups and
\* contents together, and cutoffs and image paths of a purge that only name
\* what was old, or is gone, already.
THEOREM RetentionInvariant == RetentionSpec => []RetentionInd
  BY RetentionStart, RetentionStep, PTL DEF RetentionSpec

-----------------------------------------------------------------------------
(* What follows from it *)

\* Every variable of groups, contents and purge has its type, and a call under
\* way is at a step it can have reached.
THEOREM TypeCorrect == RetentionSpec => []RetentionTypeOK
  <1>1. RetentionInd => RetentionTypeOK
    BY DEF RetentionInd, ContentsInd, RetentionTypeOK
  <1> QED
    BY <1>1, RetentionInvariant, PTL

\* Every invite that was answered leads to its group and to no other, whatever
\* calls raced for it (GetInviteToken, SetInviteTokenIfEmpty).
THEOREM InvitesHold == RetentionSpec => []OneInvite
  <1>1. RetentionInd => OneInvite
    BY InviteFromTokens, ContentsHasGroups DEF RetentionInd
  <1> QED
    BY <1>1, RetentionInvariant, PTL

\* No comment outlives its entry, nor its group unless its entry is a payment
\* the group has left behind, nor has an author from outside (AddExpenseComment,
\* AddSettlementComment, DeleteGroup, PurgeOldExpenses).
THEOREM CommentsBelong == RetentionSpec => []CommentersBelong
  <1>1. RetentionInd => CommentersBelong
    BY DEF RetentionInd, ContentsInd
  <1> QED
    BY <1>1, RetentionInvariant, PTL

\* An image leaves storage only after an expense that had it is gone for good
\* (DeleteGroup, PurgeOldExpenses).
THEOREM ImagesKept == RetentionSpec => []ImagesOutliveRows
  <1>1. RetentionInd => ImagesOutliveRows
    BY DEF RetentionInd, ContentsInd
  <1> QED
    BY <1>1, RetentionInvariant, PTL

\* An import writes no row into a group where something is live that was live
\* when it was asked for (Import).
THEOREM ImportsOnce == RetentionSpec => []ImportNeverRepeats
  <1>1. RetentionInd => ImportNeverRepeats
    BY ImportFromRelies DEF RetentionInd
  <1> QED
    BY <1>1, RetentionInvariant, PTL

\* However many instances try, two purges are more than the interval apart, and
\* what they erase was deleted longer ago than expenses are kept (TryClaim,
\* PurgeOldExpenses).
THEOREM PurgesAreApart == RetentionSpec => PurgeIsPatient
  <1>1. RetentionInd /\ [RetentionNext]_vars =>
          [/\ last_run_at' # last_run_at /\ last_run_at # Never =>
                last_run_at' - last_run_at > purgeJobMinInterval
           /\ \A e \in Entries :
                Stored(e) /\ entry'[e].status = "gone" /\ entry[e].group \in LiveGroups' =>
                  entry[e].status = "deleted" /\ now - entry[e].deletedAt > ExpenseRetention]_vars
    <2> SUFFICES ASSUME RetentionInd, RetentionNext
                 PROVE  /\ last_run_at' # last_run_at /\ last_run_at # Never =>
                             last_run_at' - last_run_at > purgeJobMinInterval
                        /\ \A e \in Entries :
                             Stored(e) /\ entry'[e].status = "gone" /\ entry[e].group \in LiveGroups' =>
                               entry[e].status = "deleted" /\ now - entry[e].deletedAt > ExpenseRetention
      OBVIOUS
    <2>1. \A e \in Entries : entry'[e].status = "gone" => ~Stored(e)'
      BY DEF Stored
    <2>2. ASSUME UNCHANGED entry PROVE \A e \in Entries : Stored(e) => entry'[e].status # "gone"
      BY <2>2 DEF Stored
    <2>3. CASE ContentsNext /\ UNCHANGED jobVars
      <3>1. \A e \in Entries : Stored(e) /\ ~Stored(e)' => entry[e].group \notin LiveGroups'
        BY <2>3, ContentsStepKeeps DEF RetentionInd
      <3> QED
        BY <2>1, <2>3, <3>1 DEF jobVars
    <2>4. CASE Tick
      BY <2>2, <2>4, TickKeeps
    <2>5. ASSUME NEW j \in Instances, Wake(j) \/ GetOldPaths(j) \/ CleanOldImage(j) \/ EndJob(j)
          PROVE  UNCHANGED <<entry, last_run_at>>
      BY <2>5 DEF Wake, GetOldPaths, CleanOldImage, EndJob, contentsVars, contentVars
    <2>6. ASSUME NEW j \in Instances, TryClaim(j)
          PROVE  /\ UNCHANGED entry
                 /\ last_run_at' # last_run_at /\ last_run_at # Never =>
                      last_run_at' - last_run_at > purgeJobMinInterval
      <3>1. UNCHANGED entry /\ jpc[j] = "claim"
        BY <2>6 DEF TryClaim, contentsVars, contentVars
      <3>2. /\ cutoff[j] \in Int /\ cutoff[j] + purgeJobMinInterval <= now /\ now \in Nat
            /\ last_run_at \in Nat \cup {Never} /\ purgeJobMinInterval \in Nat
        BY <3>1, RetentionAssumption DEF RetentionInd, JobsOK, ContentsInd, ContentsTypeOK
      <3>3. UNCHANGED last_run_at \/ (last_run_at' = now /\ Due(j))
        BY <2>6 DEF TryClaim
      <3> QED
        BY <3>1, <3>2, <3>3 DEF Due
    <2>7. ASSUME NEW j \in Instances, PurgeOldSoftDeleted(j), NEW e \in Entries, Stored(e),
                 entry'[e].status = "gone"
          PROVE  entry[e].status = "deleted" /\ now - entry[e].deletedAt > ExpenseRetention
      <3>1. e \in Old(j) /\ cutoff[j] + ExpenseRetention <= now
        BY <2>1, <2>7, PurgeRowsKeeps
      <3>2. entry[e].deletedAt \in Nat /\ cutoff[j] \in Int /\ now \in Nat /\ ExpenseRetention \in Nat
        BY RetentionAssumption, EntryRowShape, ContentsHasGroups
        DEF RetentionInd, JobsOK, ContentsInd, ContentsTypeOK, EntriesOK
      <3> QED
        BY <3>1, <3>2 DEF Old
    <2>8. ASSUME NEW j \in Instances, PurgeOldSoftDeleted(j) PROVE UNCHANGED last_run_at
      BY <2>8, PurgeRowsKeeps
    <2> QED
      BY <2>2, <2>3, <2>4, <2>5, <2>6, <2>7, <2>8 DEF RetentionNext, Purge
  <1> QED
    BY <1>1, RetentionInvariant, PTL DEF RetentionSpec, PurgeIsPatient

=============================================================================
