------------------------------ MODULE RosterProofs ------------------------------
(***************************************************************************)
(* GroupMembership implements Roster, for any sets of users, groups and     *)
(* request slots and any selection of handlers, as long as no awaited       *)
(* broadcast is rate limited.                                               *)
(***************************************************************************)
EXTENDS GroupMembershipProofs

(* A group without document has no owner and no members.                    *)
NoDocNoRoster ==
    \A g \in Group : g \notin docs => owner[g] = NoOwner /\ members[g] = {}

(* What the refinement needs to know of a state.                            *)
RosterInv == MembershipInv /\ ListensOnlyToOwnGroups /\ NoDocNoRoster

(* Every step keeps absent documents empty: ids are not handed out twice,   *)
(* and an update of a deleted document finds nothing.                       *)
LEMMA NextKeepsNoDoc ==
    ASSUME TypeInv, NoDocNoRoster, [Next]_vars
    PROVE  NoDocNoRoster'
<1> USE DEF NoDocNoRoster, docVars, TypeInv, TypeOK, UpdateMembers
<1>1. ASSUME NEW r \in Req, DeleteGroup(r)
      PROVE  NoDocNoRoster'
  BY <1>1, RequestFields DEF DeleteGroup, Running
<1>2. ASSUME NEW r \in Req,
             DeleteSelf(r) \/ DeleteUser(r) \/ Join(r) \/ RequestAccept(r)
      PROVE  NoDocNoRoster'
  BY <1>2 DEF DeleteSelf, DeleteUser, Join, RequestAccept, Enter
<1>3. ASSUME NEW u \in User, NEW g \in Group, MakeGroup(u, g)
      PROVE  NoDocNoRoster'
  BY <1>3 DEF MakeGroup
<1>4. ASSUME UNCHANGED <<docs, owner, members>>
      PROVE  NoDocNoRoster'
  BY <1>4
<1> QED
  BY <1>1, <1>2, <1>3, <1>4
     DEF Next, Body, Check, AddAdmin, DeleteAdmin, BanUser, Connect, ConnectBroken,
         Disconnect, SendingSystemMessage, Restart, vars

(* A group with a document has an owner.                                    *)
LEMMA DocsHaveOwner ==
    ASSUME RosterInv, NEW g \in docs
    PROVE  owner[g] \in User /\ owner[g] # NoOwner
<1>1. g \in Group /\ owner[g] \in members[g] /\ members[g] \subseteq User
  BY DEF RosterInv, MembershipInv, OwnerIsMember, TypeInv, TypeOK
<1> QED
  BY <1>1, NoOwnerAssumption

--------------------------------------------------------------------------------
(* One lemma per change of the roster *)

(* The first state is that of an empty roster.                              *)
LEMMA InitIsEmptyRoster == Init => Abstract!Init
  BY DEF Init, Abstract!Init, Heard

(* Creating a group is one change.                                          *)
LEMMA MakeGroupFounds ==
    ASSUME RosterInv, NEW u \in User, NEW g \in Group, MakeGroup(u, g)
    PROVE  Abstract!Found(u, g)
<1> USE DEF RosterInv, MembershipInv, TypeInv, TypeOK, IndexType
<1>1. owner[g] = NoOwner /\ members[g] = {}
  BY DEF MakeGroup, NoDocNoRoster
<1>2. /\ owner' = [owner EXCEPT ![g] = u]
      /\ members' = [members EXCEPT ![g] = @ \cup {u}]
      /\ online' = online
  BY <1>1 DEF MakeGroup
<1>3. \A v \in User : g \notin userGroups[v]
  BY DEF MakeGroup, ListensOnlyToOwnGroups, IdsAreUsed
<1>4. \A v \in User \ {u} : userGroups'[v] = userGroups[v]
  BY DEF MakeGroup, UserJoinedGroup, UserConnectToGroupItems, indexVars
<1>5. u \in online => userGroups'[u] = userGroups[u] \cup {g}
  BY DEF MakeGroup, UserJoinedGroup, UserConnectToGroupItems, ConnectedInv, OnlineIsKnown
<1>6. docs' = docs \cup {g}
  BY DEF MakeGroup
<1>7. Heard' = [Heard EXCEPT ![u] = IF u \in online THEN @ \cup {g} ELSE @]
  BY <1>2, <1>3, <1>4, <1>5, <1>6 DEF Heard
<1> QED
  BY <1>1, <1>2, <1>7 DEF Abstract!Found, Abstract!Exists, Abstract!Include

(* Joining and being accepted are one change, or none when the group was    *)
(* deleted after the check.                                                 *)
LEMMA EnterIsOneChange ==
    ASSUME RosterInv, NEW u \in User, NEW g \in Group, Enter(u, g)
    PROVE  Abstract!Enter(u, g) \/ UNCHANGED <<owner, members, online, Heard>>
<1> USE DEF RosterInv, MembershipInv, TypeInv, TypeOK, IndexType
<1>1. UNCHANGED <<docs, owner, online>>
  BY DEF Enter
<1>2. \A v \in User \ {u} : userGroups'[v] = userGroups[v]
  BY DEF Enter, UserJoinedGroup, UserConnectToGroupItems, indexVars
<1>3. u \in online => userGroups'[u] = userGroups[u] \cup {g}
  BY DEF Enter, UserJoinedGroup, UserConnectToGroupItems, ConnectedInv, OnlineIsKnown
<1>4. CASE g \in docs
  <2>1. members' = [members EXCEPT ![g] = @ \cup {u}]
    BY <1>4 DEF Enter, UpdateMembers
  <2>2. Heard' = [Heard EXCEPT ![u] = IF u \in online THEN @ \cup {g} ELSE @]
    BY <1>1, <1>2, <1>3, <1>4 DEF Heard
  <2>3. owner[g] # NoOwner
    BY <1>4, DocsHaveOwner
  <2> QED
    BY <1>1, <2>1, <2>2, <2>3 DEF Abstract!Enter, Abstract!Exists, Abstract!Include
<1>5. CASE g \notin docs
  <2>1. members' = members
    BY <1>5 DEF Enter, UpdateMembers
  <2>2. Heard' = Heard
    BY <1>1, <1>2, <1>3, <1>5 DEF Heard
  <2> QED
    BY <1>1, <2>1, <2>2
<1> QED
  BY <1>4, <1>5

(* Leaving and being removed are one change.                                *)
LEMMA RemovalLeaves ==
    ASSUME RosterInv, NEW u \in User, NEW g \in Group, u # owner[g],
           UpdateMembers(g, members[g] \ {u}), DisconnectUserFromGroup(u, g),
           UNCHANGED <<docs, owner, online>>
    PROVE  Abstract!Leave(u, g)
<1> USE DEF RosterInv, MembershipInv, TypeInv, TypeOK
<1>1. members' = [members EXCEPT ![g] = @ \ {u}]
  BY DEF UpdateMembers, NoDocNoRoster
<1>2. \A v \in User : userGroups'[v] = IF v = u THEN userGroups[v] \ {g}
                                               ELSE userGroups[v]
  BY RemovalStopsListening
<1>3. Heard' = [Heard EXCEPT ![u] = @ \ {g}]
  BY <1>2 DEF Heard
<1> QED
  BY <1>1, <1>3 DEF Abstract!Leave

(* Deleting a group is one change, or none when it was deleted before.      *)
LEMMA DeleteGroupDissolves ==
    ASSUME Throttled \subseteq {FALSE}, RosterInv, NEW r \in Req, DeleteGroup(r)
    PROVE  \/ Abstract!Dissolve(req[r].group)
           \/ UNCHANGED <<owner, members, online, Heard>>
<1> USE DEF RosterInv, MembershipInv, TypeInv, TypeOK, IndexType
<1> DEFINE g == req[r].group
<1>1. g \in Group
  BY RequestFields DEF DeleteGroup, Running
<1>2. /\ owner' = [owner EXCEPT ![g] = NoOwner]
      /\ members' = [members EXCEPT ![g] = {}]
      /\ docs' = docs \ {g}
      /\ online' = online
      /\ DisconnectGroup(g)
  BY DEF DeleteGroup
<1>3. \A v \in User : userGroups'[v] \ {g} = userGroups[v] \ {g}
  BY <1>1, <1>2 DEF DisconnectGroup, indexVars
<1>4. Heard' = [v \in User |-> Heard[v] \ {g}]
  BY <1>2, <1>3 DEF Heard
<1>5. CASE g \in docs
  BY <1>2, <1>4, <1>5, DocsHaveOwner DEF Abstract!Dissolve, Abstract!Exists
<1>6. CASE g \notin docs
  <2>1. owner' = owner /\ members' = members
    BY <1>1, <1>2, <1>6 DEF NoDocNoRoster
  <2>2. \A v \in User : userGroups'[v] \cap docs' = userGroups[v] \cap docs
    BY <1>2, <1>3, <1>6
  <2>3. Heard' = Heard
    BY <1>2, <2>2 DEF Heard
  <2> QED
    BY <1>2, <2>1, <2>3
<1> QED
  BY <1>5, <1>6

(* A connection makes a user hear exactly the groups it is a member of.     *)
LEMMA ConnectHearsMemberships ==
    ASSUME RosterInv, NEW u \in User, Connect(u)
    PROVE  Abstract!Connect(u)
<1> USE DEF RosterInv, MembershipInv, TypeInv, TypeOK, IndexType
<1>1. /\ UNCHANGED <<docs, owner, members>>
      /\ online' = online \cup {u}
      /\ accGroups[u] \subseteq docs
  BY DEF Connect, docVars
<1>2. userGroups' = [userGroups EXCEPT ![u] = @ \cup accGroups[u]]
  BY DEF Connect, UserConnectToGroupItems
<1>3. userGroups'[u] = accGroups[u]
  BY <1>2 DEF ListensOnlyToOwnGroups
<1>4. accGroups[u] = {g \in Group : u \in members[g]}
  BY <1>1 DEF AccountsAgree, NoDocNoRoster
<1>5. Heard'[u] = {g \in Group : u \in members[g]}
  BY <1>1, <1>3, <1>4 DEF Heard
<1>6. \A v \in User \ {u} : Heard'[v] = Heard[v]
  BY <1>1, <1>2 DEF Heard
<1>7. Heard' = [Heard EXCEPT ![u] = {g \in Group : u \in members[g]}]
  BY <1>5, <1>6 DEF Heard
<1> QED
  BY <1>1, <1>7 DEF Abstract!Connect

(* A user whose last device left hears nothing.                             *)
LEMMA DisconnectIsOneChange ==
    ASSUME RosterInv, NEW u \in User, Disconnect(u)
    PROVE  Abstract!Disconnect(u)
<1> USE DEF RosterInv, MembershipInv, TypeInv, TypeOK, IndexType
<1>1. Heard' = [Heard EXCEPT ![u] = {}]
  BY DEF Disconnect, ForgetUser, docVars, Heard
<1> QED
  BY <1>1 DEF Disconnect, docVars, Abstract!Disconnect

--------------------------------------------------------------------------------
(* The theorem *)

(* Every step is one change of the roster or none.                          *)
LEMMA NextChangesRoster ==
    ASSUME Throttled \subseteq {FALSE}, RosterInv, [Next]_vars
    PROVE  [Abstract!Next]_<<owner, members, online, Heard>>
<1> DEFINE Goal == Abstract!Next \/ UNCHANGED <<owner, members, online, Heard>>
<1>1. ASSUME NEW r \in Req, DeleteGroup(r)
      PROVE  Goal
  <2>1. req[r].group \in Group
    BY <1>1, RequestFields DEF DeleteGroup, Running, RosterInv, MembershipInv
  <2> QED
    BY <1>1, <2>1, DeleteGroupDissolves DEF Abstract!Next
<1>2. ASSUME NEW r \in Req, DeleteSelf(r)
      PROVE  Goal
  <2>1. /\ req[r].caller \in User /\ req[r].group \in Group
        /\ req[r].caller # owner[req[r].group]
    BY <1>2, RequestFields
       DEF DeleteSelf, Running, RosterInv, MembershipInv, RemovalSparesOwner
  <2>2. Abstract!Leave(req[r].caller, req[r].group)
    BY <1>2, <2>1, RemovalLeaves DEF DeleteSelf
  <2> QED
    BY <2>1, <2>2 DEF Abstract!Next
<1>3. ASSUME NEW r \in Req, DeleteUser(r)
      PROVE  Goal
  <2>1. /\ req[r].target \in User /\ req[r].group \in Group
        /\ req[r].target # owner[req[r].group]
    BY <1>3, RequestFields
       DEF DeleteUser, Running, RosterInv, MembershipInv, RemovalSparesOwner
  <2>2. Abstract!Leave(req[r].target, req[r].group)
    BY <1>3, <2>1, RemovalLeaves DEF DeleteUser
  <2> QED
    BY <2>1, <2>2 DEF Abstract!Next
<1>4. ASSUME NEW r \in Req, Join(r) \/ RequestAccept(r)
      PROVE  Goal
  <2>1. \E u \in User, g \in Group : Enter(u, g)
    BY <1>4, RequestFields DEF Join, RequestAccept, Running, RosterInv, MembershipInv
  <2> QED
    BY <2>1, EnterIsOneChange DEF Abstract!Next
<1>5. ASSUME NEW u \in User, NEW g \in Group, MakeGroup(u, g)
      PROVE  Goal
  BY <1>5, MakeGroupFounds DEF Abstract!Next
<1>6. ASSUME NEW u \in User, Connect(u)
      PROVE  Goal
  BY <1>6, ConnectHearsMemberships DEF Abstract!Next
<1>7. ASSUME NEW u \in User, Disconnect(u)
      PROVE  Goal
  BY <1>7, DisconnectIsOneChange DEF Abstract!Next
<1>8. CASE Restart
  BY <1>8 DEF Restart, docVars, Heard, Abstract!Next, Abstract!Stop
<1>9. ASSUME UNCHANGED <<docs, owner, members, online, userGroups>>
      PROVE  Goal
  BY <1>9 DEF Heard
<1> QED
  BY <1>1, <1>2, <1>3, <1>4, <1>5, <1>6, <1>7, <1>8, <1>9
     DEF Next, Body, Check, AddAdmin, DeleteAdmin, BanUser, CreateGroupItem,
         ConnectBroken, SendingSystemMessage, TouchUsers, indexVars, docVars, vars

(* Requests checked against one state and run in another, accounts,         *)
(* documents, indexes and connections implement the roster: for any number  *)
(* of requests, each is one change of it or none.                           *)
THEOREM MembershipImplementsRoster ==
    ASSUME Throttled \subseteq {FALSE}
    PROVE  Spec => ImplementsRoster
<1>1. Init => NoDocNoRoster
  BY DEF Init, NoDocNoRoster
<1>2. MembershipInv /\ NoDocNoRoster /\ [Next]_vars => NoDocNoRoster'
  BY NextKeepsNoDoc DEF MembershipInv
<1>3. Spec => []RosterInv
  BY MembershipInvHolds, UnthrottledListensOnly, <1>1, <1>2, PTL DEF Spec, RosterInv
<1>4. RosterInv /\ [Next]_vars => [Abstract!Next]_<<owner, members, online, Heard>>
  BY NextChangesRoster
<1> QED
  BY InitIsEmptyRoster, <1>3, <1>4, PTL
     DEF Spec, ImplementsRoster, Abstract!Spec, Abstract!rosterVars

================================================================================
