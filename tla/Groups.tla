------------------------------- MODULE Groups -------------------------------
(***************************************************************************)
(* Groups, member rows, memberships, invites and user connections, as the  *)
(* handlers of app/services/crud_service.py (and the tombstones of         *)
(* app/sync/service.py) leave them in the database.                        *)
(*                                                                         *)
(* Three tables describe who is in a group, and they can disagree:         *)
(*   - group_memberships decides what a user may open (`membership`);      *)
(*   - members is what the others see and split expenses with (`member`);  *)
(*   - group_invites is what an invited user may still answer (`invite`).  *)
(* Every handler is one action on all three.  Each read of a group first   *)
(* "heals" its member rows (`_ensure_active_member_rows`), so that repair  *)
(* is part of every action whose handler calls `get_group`.                *)
(*                                                                         *)
(* Usernames never change in this code base, so a member row's username    *)
(* and its linked_user_id are one field, `user`.  Names, cards, timestamps *)
(* and the archived flag are left out.                                     *)
(***************************************************************************)
EXTENDS Functions

CONSTANTS Users,     \* registered users
          Groups,    \* ids of groups
          Members    \* ids of member rows (a bound: rows are never removed)

VARIABLES group,       \* table groups: id |-> owner and deleted flag
          membership,  \* table group_memberships, "NONE" where there is no row
          member,      \* table members: id |-> row
          invite,      \* table group_invites, by member_id (one per member row)
          connected    \* table user_connections: the unordered pairs

vars == <<group, membership, member, invite, connected>>

ACTIVE == "ACTIVE"
PENDING_INVITE == "PENDING_INVITE"

GroupRow  == [owner : Users, deleted : BOOLEAN]
MemberRow == [group : Groups, user : Users, deleted : BOOLEAN,
              status : {ACTIVE, PENDING_INVITE}]
InviteRow == [inviter : Users, invitee : Users,
              status : {"PENDING", "ACCEPTED", "REJECTED"}]

Init == /\ group = <<>>
        /\ membership = [p \in Groups \X Users |-> "NONE"]
        /\ member = <<>>
        /\ invite = <<>>
        /\ connected = {}

-----------------------------------------------------------------------------
\* A table with one more row, or with one row replaced.
Put(table, id, row) ==
    [i \in DOMAIN table \cup {id} |-> IF i = id THEN row ELSE table[i]]

\* The user's ACTIVE membership, on which every handler's query joins.
CanAccess(u, g) == membership[<<g, u>>] = ACTIVE

\* Mutant: an invited user who has not answered yet does not count as present.
LiveRowsIgnoringPending(rows, g, u) ==
    {m \in DOMAIN rows : /\ rows[m].group = g /\ rows[m].user = u
                         /\ ~rows[m].deleted /\ rows[m].status = ACTIVE}

\* Live rows of a user in a group.
LiveRows(rows, g, u) ==
    {m \in DOMAIN rows : rows[m].group = g /\ rows[m].user = u /\ ~rows[m].deleted}

\* Mutant: healing corrects rows but inserts none.
UnlistedNever(rows, mship, g) == {}

\* Users with an ACTIVE membership but no live member row.
Unlisted(rows, mship, g) ==
    {u \in Users : mship[<<g, u>>] = ACTIVE /\ LiveRows(rows, g, u) = {}}

\* The ids that healing may give to the rows it inserts.
NewRowIds(rows, mship, g) ==
    {f \in [Unlisted(rows, mship, g) -> Members \ DOMAIN rows] : IsInjective(f)}

\* _ensure_active_member_rows: every ACTIVE membership gets a live ACTIVE row,
\* an existing live row by correction and a missing one by insertion.  Deleted
\* rows stay deleted, and nobody asks whether the group itself is deleted.
EnsureActiveMemberRows(rows, mship, g, ids) ==
    [m \in DOMAIN rows \cup Range(ids) |->
        IF m \in DOMAIN rows
        THEN IF rows[m].group = g /\ ~rows[m].deleted /\ mship[<<g, rows[m].user>>] = ACTIVE
             THEN [rows[m] EXCEPT !.status = ACTIVE]
             ELSE rows[m]
        ELSE [group |-> g, user |-> CHOOSE u \in DOMAIN ids : ids[u] = m,
              deleted |-> FALSE, status |-> ACTIVE]]

\* The member table after get_group's healing, for some choice of new ids.
Healed(g) ==
    {EnsureActiveMemberRows(member, membership, g, ids) :
        ids \in NewRowIds(member, membership, g)}

\* Mutant: no row is written.
ConnectNobody(u, v) == connected

\* _ensure_connection.
Connect(u, v) == IF u = v THEN connected ELSE connected \cup {{u, v}}

\* Reject the pending invite of a member row, if it has one.
RejectPending(m) ==
    IF m \in DOMAIN invite /\ invite[m].status = "PENDING"
    THEN [invite EXCEPT ![m].status = "REJECTED"] ELSE invite

\* Mutant: the row keeps deleted_at unset.
MarkDeletedForgotten(m) == member

MarkDeleted(m) == [member EXCEPT ![m].deleted = TRUE]

\* Mutant: the invite of a redirected row stays with its first addressee.
RedirectInviteForgotten(m, t) == invite

\* The pending invite of a row that is still pending follows the row's user.
RedirectInvite(m, t) ==
    IF /\ member[m].status = PENDING_INVITE
       /\ m \in DOMAIN invite
       /\ invite[m].status = "PENDING"
    THEN [invite EXCEPT ![m].invitee = t] ELSE invite

-----------------------------------------------------------------------------
\* Groups.

\* POST /groups, and a pushed group the server does not know (deleted or not).
CreateGroup(u, g, m, del) ==
    /\ g \notin DOMAIN group
    /\ m \notin DOMAIN member
    /\ group' = Put(group, g, [owner |-> u, deleted |-> del])
    /\ membership' = [membership EXCEPT ![<<g, u>>] = ACTIVE]
    /\ member' = Put(member, m, [group |-> g, user |-> u, deleted |-> FALSE, status |-> ACTIVE])
    /\ UNCHANGED <<invite, connected>>

\* GET on the group or anything inside it, and every handler that fails after
\* get_group: the healing is committed on its own.
GetGroup(u, g) ==
    /\ CanAccess(u, g)
    /\ member' \in Healed(g)
    /\ UNCHANGED <<group, membership, invite, connected>>

\* PATCH /groups/{id} or a newer pushed group, with or without deleted_at.
UpdateGroup(u, g, del) ==
    /\ CanAccess(u, g)
    /\ member' \in Healed(g)
    /\ group' = [group EXCEPT ![g].deleted = @ \/ del]
    /\ UNCHANGED <<membership, invite, connected>>

\* DELETE /groups/{id}: all member rows go, memberships and invites stay.
SoftDeleteGroup(u, g) ==
    /\ CanAccess(u, g)
    /\ \E rows \in Healed(g) :
          member' = [m \in DOMAIN rows |->
                        IF rows[m].group = g THEN [rows[m] EXCEPT !.deleted = TRUE] ELSE rows[m]]
    /\ group' = [group EXCEPT ![g].deleted = TRUE]
    /\ UNCHANGED <<membership, invite, connected>>

\* deleted_group_ids of a sync push: the group's own row only, nothing healed.
TombstoneGroup(u, g) ==
    /\ CanAccess(u, g)
    /\ group' = [group EXCEPT ![g].deleted = TRUE]
    /\ UNCHANGED <<membership, member, invite, connected>>

-----------------------------------------------------------------------------
\* Members.

\* POST /members, POST /members/inline (force), and a pushed member the server
\* does not know (possibly one its device has already deleted).
AddMember(u, t, g, m, force, del) ==
    /\ CanAccess(u, g)
    /\ ~group[g].deleted
    /\ force => ~del      \* an inline request carries no deleted_at
    /\ \E rows \in Healed(g) :
          /\ LiveRows(rows, g, t) = {}
          /\ m \notin DOMAIN rows
          /\ LET direct == force \/ u = t \/ {u, t} \in connected
                 status == IF direct THEN ACTIVE ELSE PENDING_INVITE
             IN /\ member' = Put(rows, m, [group |-> g, user |-> t, deleted |-> del, status |-> status])
                /\ membership' = [membership EXCEPT ![<<g, t>>] = status]
                /\ connected' = IF direct THEN Connect(u, t) ELSE connected
                /\ invite' = IF direct THEN invite
                             ELSE Put(invite, m, [inviter |-> u, invitee |-> t, status |-> "PENDING"])
    /\ UNCHANGED group

\* PATCH /members/{id} or a newer pushed member: it may point a row that is
\* still pending at another user, and may delete the row.  Memberships of both
\* users are left as they are.
UpdateMember(u, m, t, del) ==
    /\ m \in DOMAIN member
    /\ CanAccess(u, member[m].group)
    /\ t # member[m].user =>
          /\ member[m].status = PENDING_INVITE
          /\ LiveRows(member, member[m].group, t) \subseteq {m}
    /\ member' = [member EXCEPT ![m].user = t, ![m].deleted = @ \/ del]
    /\ invite' = RedirectInvite(m, t)
    /\ UNCHANGED <<group, membership, connected>>

\* DELETE /members/{id}.  The row may have been deleted before.
SoftDeleteMember(u, m) ==
    /\ m \in DOMAIN member
    /\ CanAccess(u, member[m].group)
    /\ member' = MarkDeleted(m)
    /\ membership' = [membership EXCEPT ![<<member[m].group, member[m].user>>] = "NONE"]
    /\ invite' = RejectPending(m)
    /\ UNCHANGED <<group, connected>>

\* deleted_member_ids of a sync push: membership and invite are not touched.
TombstoneMember(u, m) ==
    /\ m \in DOMAIN member
    /\ CanAccess(u, member[m].group)
    /\ member' = MarkDeleted(m)
    /\ UNCHANGED <<group, membership, invite, connected>>

-----------------------------------------------------------------------------
\* Invites.

\* Only the invitee finds the invite, and only a pending one can be answered.
Answerable(u, m) == m \in DOMAIN invite /\ invite[m].invitee = u /\ invite[m].status = "PENDING"

\* POST /group-invites/{id}/accept.  Neither the member row nor the group has
\* to be live still; the healing after the commit inserts what is missing.
AcceptGroupInvite(u, m) ==
    /\ Answerable(u, m)
    /\ invite' = [invite EXCEPT ![m].status = "ACCEPTED"]
    /\ LET g == member[m].group
           rows == [member EXCEPT ![m].status = ACTIVE, ![m].user = u]
       IN /\ membership' = [membership EXCEPT ![<<g, u>>] = ACTIVE]
          /\ \E ids \in NewRowIds(rows, membership', g) :
                member' = EnsureActiveMemberRows(rows, membership', g, ids)
    /\ connected' = Connect(invite[m].inviter, u)
    /\ UNCHANGED group

\* POST /group-invites/{id}/reject.
RejectGroupInvite(u, m) ==
    /\ Answerable(u, m)
    /\ invite' = RejectPending(m)
    /\ member' = MarkDeleted(m)
    /\ membership' = [membership EXCEPT ![<<member[m].group, u>>] = "NONE"]
    /\ UNCHANGED <<group, connected>>

-----------------------------------------------------------------------------
Next ==
    \E u \in Users :
        \/ \E g \in Groups :
              \/ \E m \in Members, del \in BOOLEAN : CreateGroup(u, g, m, del)
              \/ GetGroup(u, g)
              \/ \E del \in BOOLEAN : UpdateGroup(u, g, del)
              \/ SoftDeleteGroup(u, g)
              \/ TombstoneGroup(u, g)
              \/ \E t \in Users, m \in Members, force, del \in BOOLEAN :
                    AddMember(u, t, g, m, force, del)
        \/ \E m \in Members :
              \/ \E t \in Users, del \in BOOLEAN : UpdateMember(u, m, t, del)
              \/ SoftDeleteMember(u, m)
              \/ TombstoneMember(u, m)
              \/ AcceptGroupInvite(u, m)
              \/ RejectGroupInvite(u, m)

Spec == Init /\ [][Next]_vars

-----------------------------------------------------------------------------
\* Properties.

\* Rows are well formed and refer to rows that exist; nobody is connected to
\* himself (the foreign keys of app/models/domain.py, kept by the handlers).
TypeOK ==
    /\ DOMAIN group \subseteq Groups
    /\ \A g \in DOMAIN group : group[g] \in GroupRow
    /\ membership \in [Groups \X Users -> {"NONE", ACTIVE, PENDING_INVITE}]
    /\ \A g \in Groups, u \in Users : membership[<<g, u>>] # "NONE" => g \in DOMAIN group
    /\ DOMAIN member \subseteq Members
    /\ \A m \in DOMAIN member : member[m] \in MemberRow /\ member[m].group \in DOMAIN group
    /\ DOMAIN invite \subseteq DOMAIN member
    /\ \A m \in DOMAIN invite : invite[m] \in InviteRow
    /\ \A c \in connected : \E u, v \in Users : u # v /\ c = {u, v}

\* A user has at most one live row per group, whatever mixture of adding,
\* redirecting, healing and accepting led there.  The partial unique index on
\* members would turn a second one into a failed request.
OneLiveRowPerUser ==
    \A m, n \in DOMAIN member :
        /\ ~member[m].deleted /\ ~member[n].deleted
        /\ member[m].group = member[n].group
        /\ member[m].user = member[n].user
        => m = n

\* A live row that is waiting for its user has a pending invite which that very
\* user can answer: nobody is asked to wait for an acceptance that cannot come
\* (expenses with such a member fail until he accepts).
PendingRowHasOpenInvite ==
    \A m \in DOMAIN member :
        ~member[m].deleted /\ member[m].status = PENDING_INVITE => Answerable(member[m].user, m)

\* A user who may open a group made the group or is connected to somebody:
\* access comes from creating, accepting, or being added by a connected user
\* (or inline), never from healing, redirecting or syncing rows.
ActiveMeansConnected ==
    \A g \in Groups, u \in Users :
        CanAccess(u, g) => group[g].owner = u \/ \E c \in connected : u \in c

\* Adding a user writes his membership without looking at the one he has; the
\* healing just before makes sure that a user with access is never put back to
\* a pending invite.
NoDowngrade ==
    [][\A g \in Groups, u \in Users :
          membership[<<g, u>>] = ACTIVE => membership'[<<g, u>>] # PENDING_INVITE]_vars

\* A live, active row whose user may not open the group.
Orphaned(m) ==
    /\ m \in DOMAIN member
    /\ ~member[m].deleted /\ member[m].status = ACTIVE
    /\ ~CanAccess(member[m].user, member[m].group)

\* A row of the same user and group that was deleted earlier.
HasDeletedTwin(m) ==
    \E s \in DOMAIN member : /\ member[s].deleted
                             /\ member[s].group = member[m].group
                             /\ member[s].user = member[m].user

\* A user listed as an active member loses his access only when somebody answers
\* an old invite, or repeats the deletion, of an earlier row of his: the two
\* handlers that delete a membership without asking which row is live.
OrphanedOnlyThroughDeletedTwin ==
    [][\A m \in DOMAIN member : Orphaned(m)' /\ ~Orphaned(m) => HasDeletedTwin(m)]_vars

=============================================================================
