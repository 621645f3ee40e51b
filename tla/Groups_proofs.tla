---------------------------- MODULE Groups_proofs ----------------------------
(***************************************************************************)
(* Proofs about Groups, for any sets of users, groups and row ids.         *)
(***************************************************************************)
EXTENDS Groups, TLAPS

\* What healing does to a member table `rows` of well-formed rows.
Heals(rows, healed, mship, g) ==
    /\ DOMAIN rows \subseteq DOMAIN healed
    /\ DOMAIN healed \subseteq Members
    /\ \A m \in DOMAIN healed : healed[m] \in MemberRow
    /\ \A m \in DOMAIN rows :
          /\ healed[m].group = rows[m].group
          /\ healed[m].user = rows[m].user
          /\ healed[m].deleted = rows[m].deleted
          /\ \/ healed[m].status = rows[m].status
             \/ healed[m].status = ACTIVE /\ mship[<<rows[m].group, rows[m].user>>] = ACTIVE
    /\ \A m \in DOMAIN healed \ DOMAIN rows :
          /\ healed[m].group = g
          /\ ~healed[m].deleted
          /\ healed[m].status = ACTIVE
          /\ mship[<<g, healed[m].user>>] = ACTIVE
          /\ LiveRows(rows, g, healed[m].user) = {}
    /\ \A m, n \in DOMAIN healed \ DOMAIN rows : healed[m].user = healed[n].user => m = n
    /\ \A u \in Users : mship[<<g, u>>] = ACTIVE => LiveRows(healed, g, u) # {}

\* _ensure_active_member_rows keeps group, user and deletion of every row, inserts
\* one live active row for each active membership without one, and nothing else.
LEMMA HealFacts ==
    ASSUME NEW rows, NEW mship, NEW g \in Groups,
           DOMAIN rows \subseteq Members,
           \A m \in DOMAIN rows : rows[m] \in MemberRow,
           NEW ids \in NewRowIds(rows, mship, g)
    PROVE  Heals(rows, EnsureActiveMemberRows(rows, mship, g, ids), mship, g)
<1> DEFINE healed == EnsureActiveMemberRows(rows, mship, g, ids)
           new == Range(ids)
<1>1. /\ ids \in [Unlisted(rows, mship, g) -> Members \ DOMAIN rows]
      /\ \A a, b \in Unlisted(rows, mship, g) : ids[a] = ids[b] => a = b
  BY DEF NewRowIds, IsInjective
<1>2. new \subseteq Members \ DOMAIN rows
  BY <1>1 DEF Range
<1>3. DOMAIN healed = DOMAIN rows \cup new
  BY DEF EnsureActiveMemberRows
<1>4. ASSUME NEW m \in DOMAIN rows
      PROVE  /\ healed[m] \in MemberRow
             /\ healed[m].group = rows[m].group
             /\ healed[m].user = rows[m].user
             /\ healed[m].deleted = rows[m].deleted
             /\ \/ healed[m].status = rows[m].status
                \/ healed[m].status = ACTIVE /\ mship[<<rows[m].group, rows[m].user>>] = ACTIVE
  BY <1>3 DEF EnsureActiveMemberRows, MemberRow, ACTIVE, PENDING_INVITE
<1>5. ASSUME NEW m \in new
      PROVE  /\ m \in DOMAIN healed \ DOMAIN rows
             /\ healed[m].group = g
             /\ ~healed[m].deleted
             /\ healed[m].status = ACTIVE
             /\ healed[m] \in MemberRow
             /\ healed[m].user \in Unlisted(rows, mship, g)
             /\ ids[healed[m].user] = m
  <2>1. PICK u \in DOMAIN ids : ids[u] = m
    BY <1>1 DEF Range
  <2>2. /\ (CHOOSE v \in DOMAIN ids : ids[v] = m) \in DOMAIN ids
        /\ ids[CHOOSE v \in DOMAIN ids : ids[v] = m] = m
    BY <2>1
  <2>3. healed[m] = [group |-> g, user |-> CHOOSE v \in DOMAIN ids : ids[v] = m,
                     deleted |-> FALSE, status |-> ACTIVE]
    BY <1>2, <1>3 DEF EnsureActiveMemberRows
  <2>4. DOMAIN ids \subseteq Users
    BY <1>1 DEF Unlisted
  <2>5. healed[m] \in MemberRow
    BY <2>2, <2>3, <2>4 DEF MemberRow
  <2> QED
    BY <1>1, <1>2, <1>3, <2>2, <2>3, <2>5
<1>6. ASSUME NEW u \in Unlisted(rows, mship, g)
      PROVE  /\ u \in Users
             /\ mship[<<g, u>>] = ACTIVE
             /\ LiveRows(rows, g, u) = {}
  BY DEF Unlisted
<1>7. \A u \in Unlisted(rows, mship, g) : ids[u] \in new
  BY <1>1 DEF Range
<1> HIDE DEF healed, new
<1>8. ASSUME NEW u \in Users, mship[<<g, u>>] = ACTIVE
      PROVE  LiveRows(healed, g, u) # {}
  <2>1. CASE u \in Unlisted(rows, mship, g)
    <3>1. ids[u] \in new
      BY <1>7, <2>1
    <3>2. healed[ids[u]].user = u
      BY <1>1, <1>5, <2>1, <3>1
    <3> QED
      BY <1>5, <3>1, <3>2 DEF LiveRows
  <2>2. CASE u \notin Unlisted(rows, mship, g)
    <3>1. PICK m \in DOMAIN rows : m \in LiveRows(rows, g, u)
      BY <1>8, <2>2 DEF Unlisted, LiveRows
    <3>2. m \in LiveRows(healed, g, u)
      BY <1>3, <1>4, <3>1 DEF LiveRows
    <3> QED
      BY <3>2
  <2> QED
    BY <2>1, <2>2
<1>9. \A m, n \in new : healed[m].user = healed[n].user => m = n
  BY <1>5
<1>10. DOMAIN healed \ DOMAIN rows = new
  BY <1>2, <1>3
<1>11. DOMAIN healed \subseteq Members /\ DOMAIN rows \subseteq DOMAIN healed
  BY <1>2, <1>3
<1>12. \A m \in DOMAIN healed : healed[m] \in MemberRow
  BY <1>3, <1>4, <1>5
<1>13. Heals(rows, healed, mship, g)
  BY <1>4, <1>5, <1>6, <1>8, <1>9, <1>10, <1>11, <1>12 DEF Heals
<1> QED
  BY <1>13 DEF healed

LEMMA HealedHeals ==
    ASSUME TypeOK, NEW g \in Groups, NEW rows \in Healed(g)
    PROVE  Heals(member, rows, membership, g)
<1>1. PICK ids \in NewRowIds(member, membership, g) :
            rows = EnsureActiveMemberRows(member, membership, g, ids)
  BY DEF Healed
<1> QED
  BY <1>1, HealFacts DEF TypeOK

LEMMA PutFacts ==
    ASSUME NEW table, NEW id, NEW row
    PROVE  /\ DOMAIN Put(table, id, row) = DOMAIN table \cup {id}
           /\ Put(table, id, row)[id] = row
           /\ \A i \in DOMAIN table : i # id => Put(table, id, row)[i] = table[i]
  BY DEF Put

\* Deleting a member row changes nothing else about it, and no other row.
LEMMA MarkDeletedFacts ==
    ASSUME TypeOK, NEW m \in DOMAIN member
    PROVE  /\ DOMAIN MarkDeleted(m) = DOMAIN member
           /\ \A n \in DOMAIN member :
                 /\ MarkDeleted(m)[n] \in MemberRow
                 /\ MarkDeleted(m)[n].group = member[n].group
                 /\ MarkDeleted(m)[n].user = member[n].user
                 /\ MarkDeleted(m)[n].status = member[n].status
                 /\ MarkDeleted(m)[n].deleted <=> n = m \/ member[n].deleted
<1>1. \A n \in DOMAIN member :
        MarkDeleted(m)[n] = IF n = m THEN [member[m] EXCEPT !.deleted = TRUE] ELSE member[n]
  BY DEF MarkDeleted
<1>2. \A n \in DOMAIN member : member[n] \in MemberRow
  BY DEF TypeOK
<1>3. [member[m] EXCEPT !.deleted = TRUE] \in MemberRow
  BY <1>2 DEF MemberRow
<1> QED
  BY <1>1, <1>2, <1>3 DEF MarkDeleted, MemberRow

\* Rejecting the pending invite of a row leaves it with no pending invite.
LEMMA RejectPendingFacts ==
    ASSUME TypeOK, NEW m
    PROVE  /\ DOMAIN RejectPending(m) = DOMAIN invite
           /\ \A n \in DOMAIN invite :
                 /\ RejectPending(m)[n] \in InviteRow
                 /\ RejectPending(m)[n].inviter = invite[n].inviter
                 /\ RejectPending(m)[n].invitee = invite[n].invitee
                 /\ n # m => RejectPending(m)[n] = invite[n]
                 /\ n = m => RejectPending(m)[n].status # "PENDING"
<1>1. \A n \in DOMAIN invite : invite[n] \in InviteRow
  BY DEF TypeOK
<1>2. CASE m \in DOMAIN invite /\ invite[m].status = "PENDING"
  <2>1. RejectPending(m) = [invite EXCEPT ![m].status = "REJECTED"]
    BY <1>2 DEF RejectPending
  <2>2. [invite[m] EXCEPT !.status = "REJECTED"] \in InviteRow
    BY <1>1, <1>2 DEF InviteRow
  <2>3. \A n \in DOMAIN invite :
          RejectPending(m)[n] = IF n = m THEN [invite[m] EXCEPT !.status = "REJECTED"] ELSE invite[n]
    BY <2>1
  <2> QED
    BY <1>1, <1>2, <2>1, <2>2, <2>3 DEF InviteRow
<1>3. CASE ~(m \in DOMAIN invite /\ invite[m].status = "PENDING")
  BY <1>1, <1>3 DEF RejectPending
<1> QED
  BY <1>2, <1>3

\* Redirecting a row moves its invite only while both wait for an answer.
LEMMA RedirectInviteFacts ==
    ASSUME TypeOK, NEW m \in DOMAIN member, NEW t \in Users
    PROVE  /\ DOMAIN RedirectInvite(m, t) = DOMAIN invite
           /\ \A n \in DOMAIN invite :
                 /\ RedirectInvite(m, t)[n] \in InviteRow
                 /\ RedirectInvite(m, t)[n].inviter = invite[n].inviter
                 /\ RedirectInvite(m, t)[n].status = invite[n].status
                 /\ n # m => RedirectInvite(m, t)[n] = invite[n]
                 /\ n = m /\ member[m].status = PENDING_INVITE /\ invite[m].status = "PENDING"
                    => RedirectInvite(m, t)[n].invitee = t
                 /\ n = m /\ member[m].status # PENDING_INVITE
                    => RedirectInvite(m, t)[n].invitee = invite[n].invitee
<1> DEFINE redirects == /\ member[m].status = PENDING_INVITE
                        /\ m \in DOMAIN invite
                        /\ invite[m].status = "PENDING"
<1>1. \A n \in DOMAIN invite : invite[n] \in InviteRow
  BY DEF TypeOK
<1>2. CASE redirects
  <2>1. RedirectInvite(m, t) = [invite EXCEPT ![m].invitee = t]
    BY <1>2 DEF RedirectInvite
  <2>2. [invite[m] EXCEPT !.invitee = t] \in InviteRow
    BY <1>1, <1>2 DEF InviteRow
  <2>3. \A n \in DOMAIN invite :
          RedirectInvite(m, t)[n] = IF n = m THEN [invite[m] EXCEPT !.invitee = t] ELSE invite[n]
    BY <2>1
  <2> QED
    BY <1>1, <1>2, <2>1, <2>2, <2>3 DEF InviteRow
<1>3. CASE ~redirects
  BY <1>1, <1>3 DEF RedirectInvite
<1> QED
  BY <1>2, <1>3

\* What an update leaves of the member table.
LEMMA UpdateMemberFacts ==
    ASSUME TypeOK, NEW u \in Users, NEW m \in Members, NEW t \in Users, NEW del \in BOOLEAN,
           UpdateMember(u, m, t, del)
    PROVE  /\ DOMAIN member' = DOMAIN member
           /\ \A n \in DOMAIN member :
                 /\ member'[n] \in MemberRow
                 /\ member'[n].group = member[n].group
                 /\ member'[n].status = member[n].status
                 /\ n # m => member'[n] = member[n]
           /\ member'[m].user = t
           /\ member'[m].deleted <=> member[m].deleted \/ del
<1>1. m \in DOMAIN member /\ \A n \in DOMAIN member : member[n] \in MemberRow
  BY DEF UpdateMember, TypeOK
<1>2. member' = [member EXCEPT ![m].user = t, ![m].deleted = @ \/ del]
  BY DEF UpdateMember
<1>3. /\ DOMAIN member' = DOMAIN member
      /\ \A n \in DOMAIN member : n # m => member'[n] = member[n]
  BY <1>2
<1>4. member'[m] = [member[m] EXCEPT !.user = t, !.deleted = member[m].deleted \/ del]
  BY <1>1, <1>2 DEF MemberRow
<1>5. /\ member'[m] \in MemberRow
      /\ member'[m].group = member[m].group
      /\ member'[m].status = member[m].status
      /\ member'[m].user = t
      /\ member'[m].deleted <=> member[m].deleted \/ del
  BY <1>1, <1>4 DEF MemberRow
<1> QED
  BY <1>1, <1>3, <1>5

-----------------------------------------------------------------------------
\* Type correctness: rows stay well formed and refer to rows that exist.

LEMMA TypeOKInit == Init => TypeOK
<1> SUFFICES ASSUME Init PROVE TypeOK
  OBVIOUS
<1>1. DOMAIN << >> = {}
  OBVIOUS
<1> QED
  BY <1>1 DEF Init, TypeOK

LEMMA TypeOKStep == TypeOK /\ [Next]_vars => TypeOK'
<1> SUFFICES ASSUME TypeOK, [Next]_vars PROVE TypeOK'
  OBVIOUS
<1> USE DEF ACTIVE, PENDING_INVITE
<1>1. ASSUME NEW u \in Users, NEW g \in Groups, NEW m \in Members, NEW del \in BOOLEAN,
             CreateGroup(u, g, m, del)
      PROVE  TypeOK'
  <2> DEFINE row == [group |-> g, user |-> u, deleted |-> FALSE, status |-> ACTIVE]
             made == [owner |-> u, deleted |-> del]
  <2>1. /\ row \in MemberRow /\ row.group = g /\ made \in GroupRow
        /\ g \notin DOMAIN group /\ m \notin DOMAIN member
        /\ group' = Put(group, g, made)
        /\ member' = Put(member, m, row)
        /\ membership' = [membership EXCEPT ![<<g, u>>] = ACTIVE]
        /\ UNCHANGED <<invite, connected>>
    BY <1>1 DEF CreateGroup, MemberRow, GroupRow
  <2> HIDE DEF row, made
  <2>2. /\ DOMAIN group' = DOMAIN group \cup {g}
        /\ \A h \in DOMAIN group' : group'[h] \in GroupRow
    BY <2>1 DEF TypeOK, Put
  <2>3. /\ DOMAIN member' = DOMAIN member \cup {m}
        /\ \A n \in DOMAIN member' : member'[n] \in MemberRow /\ member'[n].group \in DOMAIN group'
    BY <2>1, <2>2 DEF TypeOK, Put
  <2> QED
    BY <2>1, <2>2, <2>3 DEF TypeOK
<1>2. ASSUME NEW u \in Users, NEW g \in Groups, GetGroup(u, g)
      PROVE  TypeOK'
  <2>1. Heals(member, member', membership, g)
    BY <1>2, HealedHeals DEF GetGroup
  <2> QED
    BY <1>2, <2>1 DEF TypeOK, GetGroup, CanAccess, Heals
<1>3. ASSUME NEW u \in Users, NEW g \in Groups, NEW del \in BOOLEAN, UpdateGroup(u, g, del)
      PROVE  TypeOK'
  <2>1. Heals(member, member', membership, g)
    BY <1>3, HealedHeals DEF UpdateGroup
  <2>2. g \in DOMAIN group /\ group' = [group EXCEPT ![g] = [group[g] EXCEPT !.deleted = group[g].deleted \/ del]]
    BY <1>3 DEF TypeOK, UpdateGroup, CanAccess
  <2>3. [group[g] EXCEPT !.deleted = group[g].deleted \/ del] \in GroupRow
    BY <2>2 DEF TypeOK, GroupRow
  <2> QED
    BY <1>3, <2>1, <2>2, <2>3 DEF TypeOK, UpdateGroup, Heals
<1>4. ASSUME NEW u \in Users, NEW g \in Groups, SoftDeleteGroup(u, g)
      PROVE  TypeOK'
  <2>1. PICK rows \in Healed(g) :
          member' = [m \in DOMAIN rows |->
                        IF rows[m].group = g THEN [rows[m] EXCEPT !.deleted = TRUE] ELSE rows[m]]
    BY <1>4 DEF SoftDeleteGroup
  <2>2. Heals(member, rows, membership, g)
    BY HealedHeals
  <2>3. /\ DOMAIN group' = DOMAIN group
        /\ \A h \in DOMAIN group : group'[h] \in GroupRow
    BY <1>4 DEF TypeOK, SoftDeleteGroup, CanAccess, GroupRow
  <2>4. /\ DOMAIN member' = DOMAIN rows
        /\ \A m \in DOMAIN rows : member'[m] \in MemberRow /\ member'[m].group = rows[m].group
    BY <2>1, <2>2 DEF Heals, MemberRow
  <2>5. g \in DOMAIN group /\ \A m \in DOMAIN rows : rows[m].group \in DOMAIN group
    BY <1>4, <2>2 DEF TypeOK, SoftDeleteGroup, CanAccess, Heals
  <2> QED
    BY <1>4, <2>2, <2>3, <2>4, <2>5 DEF TypeOK, SoftDeleteGroup, Heals
<1>5. ASSUME NEW u \in Users, NEW g \in Groups, TombstoneGroup(u, g)
      PROVE  TypeOK'
  BY <1>5 DEF TypeOK, TombstoneGroup, CanAccess, GroupRow
<1>6. ASSUME NEW u \in Users, NEW g \in Groups, NEW t \in Users, NEW m \in Members,
             NEW force \in BOOLEAN, NEW del \in BOOLEAN, AddMember(u, t, g, m, force, del)
      PROVE  TypeOK'
  <2> DEFINE direct == force \/ u = t \/ {u, t} \in connected
             status == IF direct THEN ACTIVE ELSE PENDING_INVITE
             row == [group |-> g, user |-> t, deleted |-> del, status |-> status]
             sent == [inviter |-> u, invitee |-> t, status |-> "PENDING"]
  <2>1. PICK rows \in Healed(g) :
          /\ m \notin DOMAIN rows
          /\ member' = Put(rows, m, row)
          /\ membership' = [membership EXCEPT ![<<g, t>>] = status]
          /\ connected' = IF direct THEN Connect(u, t) ELSE connected
          /\ invite' = IF direct THEN invite ELSE Put(invite, m, sent)
    BY <1>6 DEF AddMember
  <2>2. Heals(member, rows, membership, g)
    BY HealedHeals
  <2>3. g \in DOMAIN group /\ group' = group
    BY <1>6 DEF AddMember, CanAccess, TypeOK
  <2>4. row \in MemberRow /\ sent \in InviteRow /\ status \in {ACTIVE, PENDING_INVITE}
    BY DEF MemberRow, InviteRow
  <2>5. \A c \in connected' : \E v, w \in Users : v # w /\ c = {v, w}
    BY <2>1 DEF TypeOK, Connect
  <2> HIDE DEF direct, status, row, sent
  <2>6. /\ DOMAIN member' \subseteq Members
        /\ DOMAIN member \subseteq DOMAIN member'
        /\ m \in DOMAIN member'
        /\ \A n \in DOMAIN member' : member'[n] \in MemberRow /\ member'[n].group \in DOMAIN group
    BY <2>1, <2>2, <2>3, <2>4 DEF TypeOK, Heals, Put, row
  <2>7. /\ DOMAIN invite' \subseteq DOMAIN member'
        /\ \A n \in DOMAIN invite' : invite'[n] \in InviteRow
    BY <2>1, <2>4, <2>6 DEF TypeOK, Put
  <2>8. /\ membership' \in [Groups \X Users -> {"NONE", ACTIVE, PENDING_INVITE}]
        /\ \A h \in Groups, v \in Users : membership'[<<h, v>>] # "NONE" => h \in DOMAIN group'
    BY <2>1, <2>3, <2>4 DEF TypeOK
  <2> QED
    BY <2>3, <2>5, <2>6, <2>7, <2>8 DEF TypeOK
<1>7. ASSUME NEW u \in Users, NEW m \in Members, NEW t \in Users, NEW del \in BOOLEAN,
             UpdateMember(u, m, t, del)
      PROVE  TypeOK'
  <2>1. m \in DOMAIN member /\ UNCHANGED <<group, membership, connected>> /\ invite' = RedirectInvite(m, t)
    BY <1>7 DEF UpdateMember
  <2> QED
    BY <1>7, <2>1, UpdateMemberFacts, RedirectInviteFacts DEF TypeOK
<1>8. ASSUME NEW u \in Users, NEW m \in Members, SoftDeleteMember(u, m)
      PROVE  TypeOK'
  <2>1. /\ m \in DOMAIN member
        /\ UNCHANGED <<group, connected>>
        /\ member' = MarkDeleted(m)
        /\ invite' = RejectPending(m)
        /\ membership' = [membership EXCEPT ![<<member[m].group, member[m].user>>] = "NONE"]
    BY <1>8 DEF SoftDeleteMember
  <2>2. /\ membership' \in [Groups \X Users -> {"NONE", ACTIVE, PENDING_INVITE}]
        /\ \A h \in Groups, v \in Users : membership'[<<h, v>>] # "NONE" => h \in DOMAIN group
    BY <2>1 DEF TypeOK
  <2>3. /\ DOMAIN member' = DOMAIN member
        /\ \A n \in DOMAIN member : member'[n] \in MemberRow /\ member'[n].group = member[n].group
    BY <2>1, MarkDeletedFacts
  <2>4. /\ DOMAIN invite' = DOMAIN invite
        /\ \A n \in DOMAIN invite : invite'[n] \in InviteRow
    BY <2>1, RejectPendingFacts
  <2> QED
    BY <2>1, <2>2, <2>3, <2>4 DEF TypeOK
<1>9. ASSUME NEW u \in Users, NEW m \in Members, TombstoneMember(u, m)
      PROVE  TypeOK'
  <2>1. /\ m \in DOMAIN member
        /\ UNCHANGED <<group, membership, invite, connected>>
        /\ member' = MarkDeleted(m)
    BY <1>9 DEF TombstoneMember
  <2>2. /\ DOMAIN member' = DOMAIN member
        /\ \A n \in DOMAIN member : member'[n] \in MemberRow /\ member'[n].group = member[n].group
    BY <2>1, MarkDeletedFacts
  <2> QED
    BY <2>1, <2>2 DEF TypeOK
<1>10. ASSUME NEW u \in Users, NEW m \in Members, AcceptGroupInvite(u, m)
       PROVE  TypeOK'
  <2> DEFINE g == member[m].group
             rows == [member EXCEPT ![m].status = ACTIVE, ![m].user = u]
  <2>1. PICK ids \in NewRowIds(rows, membership', g) :
          member' = EnsureActiveMemberRows(rows, membership', g, ids)
    BY <1>10 DEF AcceptGroupInvite
  <2>2. /\ m \in DOMAIN member /\ g \in Groups /\ g \in DOMAIN group
        /\ DOMAIN rows = DOMAIN member
        /\ \A n \in DOMAIN rows : rows[n] \in MemberRow /\ rows[n].group = member[n].group
    BY <1>10 DEF AcceptGroupInvite, Answerable, TypeOK, MemberRow
  <2>3. Heals(rows, member', membership', g)
    BY <2>1, <2>2, HealFacts DEF TypeOK
  <2>4. \A c \in connected' : \E v, w \in Users : v # w /\ c = {v, w}
    BY <1>10 DEF AcceptGroupInvite, Answerable, TypeOK, Connect, InviteRow
  <2> HIDE DEF g, rows
  <2>5. /\ DOMAIN invite' = DOMAIN invite
        /\ \A n \in DOMAIN invite' : invite'[n] \in InviteRow
    BY <1>10 DEF AcceptGroupInvite, Answerable, TypeOK, InviteRow
  <2>6. membership' = [membership EXCEPT ![<<g, u>>] = ACTIVE] /\ group' = group
    BY <1>10 DEF AcceptGroupInvite, g
  <2> QED
    BY <2>2, <2>3, <2>4, <2>5, <2>6 DEF TypeOK, Heals
<1>11. ASSUME NEW u \in Users, NEW m \in Members, RejectGroupInvite(u, m)
       PROVE  TypeOK'
  BY <1>11, MarkDeletedFacts, RejectPendingFacts DEF TypeOK, RejectGroupInvite, Answerable, MemberRow
<1>12. CASE UNCHANGED vars
  BY <1>12 DEF TypeOK, vars
<1> QED
  BY <1>1, <1>2, <1>3, <1>4, <1>5, <1>6, <1>7, <1>8, <1>9, <1>10, <1>11, <1>12 DEF Next

\* In every state rows are well formed and refer to rows that exist, for any
\* number of users, groups and rows.
THEOREM TypeCorrect == Spec => []TypeOK
  BY TypeOKInit, TypeOKStep, PTL DEF Spec

-----------------------------------------------------------------------------
\* What the larger actions do, for the invariants below.

LEMMA CreateGroupFacts ==
    ASSUME TypeOK, NEW u \in Users, NEW g \in Groups, NEW m \in Members, NEW del,
           CreateGroup(u, g, m, del)
    PROVE  /\ invite' = invite /\ connected' = connected
           /\ membership' = [membership EXCEPT ![<<g, u>>] = ACTIVE]
           /\ g \notin DOMAIN group /\ DOMAIN group' = DOMAIN group \cup {g}
           /\ \A h \in DOMAIN group : group'[h] = group[h]
           /\ group'[g].owner = u
           /\ m \notin DOMAIN member /\ DOMAIN member' = DOMAIN member \cup {m}
           /\ \A n \in DOMAIN member : member'[n] = member[n] /\ member[n].group # g
           /\ member'[m].group = g /\ member'[m].user = u
           /\ ~member'[m].deleted /\ member'[m].status = ACTIVE
<1>1. /\ g \notin DOMAIN group /\ m \notin DOMAIN member
      /\ group' = Put(group, g, [owner |-> u, deleted |-> del])
      /\ member' = Put(member, m, [group |-> g, user |-> u, deleted |-> FALSE, status |-> ACTIVE])
      /\ membership' = [membership EXCEPT ![<<g, u>>] = ACTIVE]
      /\ UNCHANGED <<invite, connected>>
  BY DEF CreateGroup
<1>2. /\ DOMAIN group' = DOMAIN group \cup {g}
      /\ \A h \in DOMAIN group : group'[h] = group[h]
      /\ group'[g] = [owner |-> u, deleted |-> del]
  BY <1>1 DEF Put
<1>3. /\ DOMAIN member' = DOMAIN member \cup {m}
      /\ \A n \in DOMAIN member : member'[n] = member[n]
      /\ member'[m] = [group |-> g, user |-> u, deleted |-> FALSE, status |-> ACTIVE]
  BY <1>1 DEF Put
<1>4. \A n \in DOMAIN member : member[n].group # g
  BY <1>1 DEF TypeOK
<1>5. /\ group'[g].owner = u
      /\ member'[m].group = g /\ member'[m].user = u
      /\ ~member'[m].deleted /\ member'[m].status = ACTIVE
  BY <1>2, <1>3
<1> QED
  BY <1>1, <1>2, <1>3, <1>4, <1>5

LEMMA SoftDeleteGroupFacts ==
    ASSUME TypeOK, NEW u \in Users, NEW g \in Groups, SoftDeleteGroup(u, g)
    PROVE  /\ membership' = membership /\ invite' = invite /\ connected' = connected
           /\ DOMAIN group' = DOMAIN group
           /\ \A h \in DOMAIN group : group'[h].owner = group[h].owner
           /\ \E rows :
                 /\ Heals(member, rows, membership, g)
                 /\ DOMAIN member' = DOMAIN rows
                 /\ \A m \in DOMAIN rows :
                       /\ member'[m].group = rows[m].group
                       /\ member'[m].user = rows[m].user
                       /\ member'[m].status = rows[m].status
                       /\ member'[m].deleted <=> rows[m].deleted \/ rows[m].group = g
<1>1. PICK rows \in Healed(g) :
        member' = [m \in DOMAIN rows |->
                      IF rows[m].group = g THEN [rows[m] EXCEPT !.deleted = TRUE] ELSE rows[m]]
  BY DEF SoftDeleteGroup
<1>2. Heals(member, rows, membership, g)
  BY HealedHeals
<1>3. /\ DOMAIN member' = DOMAIN rows
      /\ \A m \in DOMAIN rows :
            /\ member'[m].group = rows[m].group
            /\ member'[m].user = rows[m].user
            /\ member'[m].status = rows[m].status
            /\ member'[m].deleted <=> rows[m].deleted \/ rows[m].group = g
  BY <1>1, <1>2 DEF Heals, MemberRow
<1>4. /\ DOMAIN group' = DOMAIN group
      /\ \A h \in DOMAIN group : group'[h].owner = group[h].owner
  BY DEF TypeOK, SoftDeleteGroup, CanAccess, GroupRow
<1> QED
  BY <1>2, <1>3, <1>4 DEF SoftDeleteGroup

\* The step that adds a row for t to the healed table `rows`.
Adds(rows, status, u, t, g, m, del) ==
    /\ status \in {ACTIVE, PENDING_INVITE}
    /\ Heals(member, rows, membership, g)
    /\ LiveRows(rows, g, t) = {}
    /\ m \notin DOMAIN rows /\ DOMAIN member' = DOMAIN rows \cup {m}
    /\ \A n \in DOMAIN rows : member'[n] = rows[n]
    /\ member'[m] = [group |-> g, user |-> t, deleted |-> del, status |-> status]
    /\ membership' = [membership EXCEPT ![<<g, t>>] = status]
    /\ group' = group
    /\ CanAccess(u, g)
    /\ connected \subseteq connected'
    /\ status = ACTIVE => /\ invite' = invite
                          /\ t # u => \E c \in connected' : t \in c
    /\ status = PENDING_INVITE =>
          /\ DOMAIN invite' = DOMAIN invite \cup {m}
          /\ \A n \in DOMAIN invite : n # m => invite'[n] = invite[n]
          /\ invite'[m] = [inviter |-> u, invitee |-> t, status |-> "PENDING"]

LEMMA AddMemberFacts ==
    ASSUME TypeOK, NEW u \in Users, NEW t \in Users, NEW g \in Groups, NEW m \in Members,
           NEW force, NEW del, AddMember(u, t, g, m, force, del)
    PROVE  \E rows, status : Adds(rows, status, u, t, g, m, del)
<1> DEFINE direct == force \/ u = t \/ {u, t} \in connected
           status == IF direct THEN ACTIVE ELSE PENDING_INVITE
           row == [group |-> g, user |-> t, deleted |-> del, status |-> status]
           sent == [inviter |-> u, invitee |-> t, status |-> "PENDING"]
<1>1. PICK rows \in Healed(g) :
        /\ LiveRows(rows, g, t) = {}
        /\ m \notin DOMAIN rows
        /\ member' = Put(rows, m, row)
        /\ membership' = [membership EXCEPT ![<<g, t>>] = status]
        /\ connected' = IF direct THEN Connect(u, t) ELSE connected
        /\ invite' = IF direct THEN invite ELSE Put(invite, m, sent)
  BY DEF AddMember
<1>2. Heals(member, rows, membership, g)
  BY HealedHeals
<1>3. connected \subseteq connected'
  BY <1>1 DEF Connect
<1>4. direct /\ t # u => \E c \in connected' : t \in c
  BY <1>1 DEF Connect
<1>5. CanAccess(u, g) /\ group' = group
  BY DEF AddMember
<1>6. /\ status \in {ACTIVE, PENDING_INVITE}
      /\ status = ACTIVE <=> direct
  BY DEF ACTIVE, PENDING_INVITE
<1> HIDE DEF direct, status, sent, row
<1>7. /\ DOMAIN member' = DOMAIN rows \cup {m}
      /\ \A n \in DOMAIN rows : member'[n] = rows[n]
      /\ member'[m] = row
  BY <1>1 DEF Put
<1>8. ~direct => /\ DOMAIN invite' = DOMAIN invite \cup {m}
                 /\ \A n \in DOMAIN invite : n # m => invite'[n] = invite[n]
                 /\ invite'[m] = sent
  BY <1>1 DEF Put
<1>9. direct => invite' = invite
  BY <1>1
<1>10. status = PENDING_INVITE => ~direct
  BY <1>6 DEF ACTIVE, PENDING_INVITE
<1>11. /\ row = [group |-> g, user |-> t, deleted |-> del, status |-> status]
       /\ sent = [inviter |-> u, invitee |-> t, status |-> "PENDING"]
  BY DEF row, sent
<1>12. status = ACTIVE => invite' = invite /\ (t # u => \E c \in connected' : t \in c)
  BY <1>4, <1>6, <1>9
<1>13. status = PENDING_INVITE =>
         /\ DOMAIN invite' = DOMAIN invite \cup {m}
         /\ \A n \in DOMAIN invite : n # m => invite'[n] = invite[n]
         /\ invite'[m] = [inviter |-> u, invitee |-> t, status |-> "PENDING"]
  BY <1>8, <1>10, <1>11
<1>14. member'[m] = [group |-> g, user |-> t, deleted |-> del, status |-> status]
  BY <1>7, <1>11
<1>15. Adds(rows, status, u, t, g, m, del)
  BY <1>1, <1>2, <1>3, <1>5, <1>6, <1>7, <1>12, <1>13, <1>14 DEF Adds
<1> QED
  BY <1>15

LEMMA AcceptGroupInviteFacts ==
    ASSUME TypeOK, NEW u \in Users, NEW m \in Members, AcceptGroupInvite(u, m)
    PROVE  /\ m \in DOMAIN member /\ m \in DOMAIN invite
           /\ invite[m].invitee = u /\ invite[m].status = "PENDING"
           /\ group' = group
           /\ membership' = [membership EXCEPT ![<<member[m].group, u>>] = ACTIVE]
           /\ DOMAIN invite' = DOMAIN invite
           /\ \A n \in DOMAIN invite : n # m => invite'[n] = invite[n]
           /\ invite'[m].status = "ACCEPTED"
           /\ invite'[m].inviter = invite[m].inviter /\ invite'[m].invitee = u
           /\ connected' = Connect(invite[m].inviter, u)
           /\ \E rows :
                 /\ DOMAIN rows = DOMAIN member
                 /\ \A n \in DOMAIN member : n # m => rows[n] = member[n]
                 /\ rows[m].group = member[m].group /\ rows[m].user = u
                 /\ rows[m].deleted = member[m].deleted /\ rows[m].status = ACTIVE
                 /\ Heals(rows, member', membership', member[m].group)
<1> DEFINE g == member[m].group
           rows == [member EXCEPT ![m].status = ACTIVE, ![m].user = u]
<1>1. PICK ids \in NewRowIds(rows, membership', g) :
        member' = EnsureActiveMemberRows(rows, membership', g, ids)
  BY DEF AcceptGroupInvite
<1>2. /\ m \in DOMAIN member /\ g \in Groups
      /\ DOMAIN rows = DOMAIN member
      /\ \A n \in DOMAIN member : n # m => rows[n] = member[n]
      /\ rows[m] = [member[m] EXCEPT !.status = ACTIVE, !.user = u]
  BY DEF AcceptGroupInvite, Answerable, TypeOK, MemberRow
<1>6. \A n \in DOMAIN member : member[n] \in MemberRow
  BY DEF TypeOK
<1>7. rows[m] \in MemberRow
  BY <1>2, <1>6 DEF MemberRow, ACTIVE, PENDING_INVITE
<1>8. \A n \in DOMAIN rows : rows[n] \in MemberRow
  BY <1>2, <1>6, <1>7
<1>3. Heals(rows, member', membership', g)
  BY <1>1, <1>2, <1>8, HealFacts DEF TypeOK
<1>4. /\ m \in DOMAIN invite /\ invite[m].invitee = u /\ invite[m].status = "PENDING"
      /\ group' = group
      /\ membership' = [membership EXCEPT ![<<member[m].group, u>>] = ACTIVE]
      /\ invite' = [invite EXCEPT ![m].status = "ACCEPTED"]
      /\ connected' = Connect(invite[m].inviter, u)
  BY DEF AcceptGroupInvite, Answerable
<1>5. /\ DOMAIN invite' = DOMAIN invite
      /\ \A n \in DOMAIN invite : n # m => invite'[n] = invite[n]
      /\ invite'[m] = [invite[m] EXCEPT !.status = "ACCEPTED"]
  BY <1>4
<1>9. /\ invite'[m].status = "ACCEPTED"
      /\ invite'[m].inviter = invite[m].inviter /\ invite'[m].invitee = u
  BY <1>4, <1>5 DEF TypeOK, InviteRow
<1>10. /\ rows[m].group = member[m].group /\ rows[m].user = u
       /\ rows[m].deleted = member[m].deleted /\ rows[m].status = ACTIVE
  BY <1>2, <1>6 DEF MemberRow
<1> HIDE DEF rows
<1> QED
  BY <1>2, <1>3, <1>4, <1>5, <1>9, <1>10

-----------------------------------------------------------------------------
\* Owners and the groups of rows never change, and connections only grow.

Grows ==
    /\ \A g \in DOMAIN group : g \in DOMAIN group' /\ group'[g].owner = group[g].owner
    /\ connected \subseteq connected'
    /\ \A m \in DOMAIN member : m \in DOMAIN member' /\ member'[m].group = member[m].group

LEMMA GrowsStep == TypeOK /\ [Next]_vars => Grows
<1> SUFFICES ASSUME TypeOK, [Next]_vars PROVE Grows
  OBVIOUS
<1>1. ASSUME NEW u \in Users, NEW g \in Groups, NEW m \in Members, NEW del \in BOOLEAN,
             CreateGroup(u, g, m, del)
      PROVE  Grows
  <2>0. /\ DOMAIN group' = DOMAIN group \cup {g}
        /\ \A h \in DOMAIN group : group'[h] = group[h]
        /\ DOMAIN member' = DOMAIN member \cup {m}
        /\ \A n \in DOMAIN member : member'[n] = member[n] /\ member[n].group # g
        /\ connected' = connected
    BY <1>1, CreateGroupFacts, ZenonT(30)
  <2>1. /\ \A h \in DOMAIN group : h \in DOMAIN group' /\ group'[h] = group[h]
        /\ \A n \in DOMAIN member : n \in DOMAIN member' /\ member'[n] = member[n]
        /\ connected' = connected
    BY <2>0
  <2> QED
    BY <2>1 DEF Grows
<1>2. ASSUME NEW u \in Users, NEW g \in Groups, GetGroup(u, g)
      PROVE  Grows
  <2>1. Heals(member, member', membership, g) /\ UNCHANGED <<group, connected>>
    BY <1>2, HealedHeals DEF GetGroup
  <2> QED
    BY <2>1 DEF Grows, Heals
<1>3. ASSUME NEW u \in Users, NEW g \in Groups, NEW del \in BOOLEAN, UpdateGroup(u, g, del)
      PROVE  Grows
  <2>1. Heals(member, member', membership, g)
    BY <1>3, HealedHeals DEF UpdateGroup
  <2>2. /\ DOMAIN group' = DOMAIN group
        /\ \A h \in DOMAIN group : group'[h].owner = group[h].owner
    BY <1>3 DEF UpdateGroup, TypeOK, GroupRow
  <2> QED
    BY <1>3, <2>1, <2>2 DEF Grows, UpdateGroup, Heals
<1>4. ASSUME NEW u \in Users, NEW g \in Groups, SoftDeleteGroup(u, g)
      PROVE  Grows
  <2>1. /\ DOMAIN group' = DOMAIN group
        /\ \A h \in DOMAIN group : group'[h].owner = group[h].owner
        /\ connected' = connected
    BY <1>4, SoftDeleteGroupFacts
  <2>2. PICK rows :
          /\ Heals(member, rows, membership, g)
          /\ DOMAIN member' = DOMAIN rows
          /\ \A m \in DOMAIN rows : member'[m].group = rows[m].group
    BY <1>4, SoftDeleteGroupFacts
  <2> QED
    BY <2>1, <2>2 DEF Grows, Heals
<1>5. ASSUME NEW u \in Users, NEW g \in Groups, TombstoneGroup(u, g)
      PROVE  Grows
  <2>1. /\ DOMAIN group' = DOMAIN group
        /\ \A h \in DOMAIN group : group'[h].owner = group[h].owner
    BY <1>5 DEF TombstoneGroup, TypeOK, GroupRow
  <2> QED
    BY <1>5, <2>1 DEF Grows, TombstoneGroup
<1>6. ASSUME NEW u \in Users, NEW g \in Groups, NEW t \in Users, NEW m \in Members,
             NEW force \in BOOLEAN, NEW del \in BOOLEAN, AddMember(u, t, g, m, force, del)
      PROVE  Grows
  <2>1. PICK rows, status : Adds(rows, status, u, t, g, m, del)
    BY <1>6, AddMemberFacts
  <2> QED
    BY <2>1 DEF Grows, Adds, Heals
<1>7. ASSUME NEW u \in Users, NEW m \in Members, NEW t \in Users, NEW del \in BOOLEAN,
             UpdateMember(u, m, t, del)
      PROVE  Grows
  BY <1>7, UpdateMemberFacts DEF Grows, UpdateMember
<1>8. ASSUME NEW u \in Users, NEW m \in Members, SoftDeleteMember(u, m)
      PROVE  Grows
  BY <1>8, MarkDeletedFacts DEF Grows, SoftDeleteMember
<1>9. ASSUME NEW u \in Users, NEW m \in Members, TombstoneMember(u, m)
      PROVE  Grows
  BY <1>9, MarkDeletedFacts DEF Grows, TombstoneMember
<1>10. ASSUME NEW u \in Users, NEW m \in Members, AcceptGroupInvite(u, m)
       PROVE  Grows
  <2>1. PICK rows :
          /\ DOMAIN rows = DOMAIN member
          /\ \A n \in DOMAIN member : n # m => rows[n] = member[n]
          /\ rows[m].group = member[m].group
          /\ Heals(rows, member', membership', member[m].group)
    BY <1>10, AcceptGroupInviteFacts
  <2>4. connected \subseteq connected' /\ group' = group
    BY <1>10, AcceptGroupInviteFacts DEF Connect
  <2> QED
    BY <2>1, <2>4 DEF Grows, Heals
<1>11. ASSUME NEW u \in Users, NEW m \in Members, RejectGroupInvite(u, m)
       PROVE  Grows
  <2>1. m \in DOMAIN member
    BY <1>11 DEF RejectGroupInvite, Answerable, TypeOK
  <2> QED
    BY <1>11, <2>1, MarkDeletedFacts DEF Grows, RejectGroupInvite
<1>12. CASE UNCHANGED vars
  BY <1>12 DEF Grows, vars
<1> QED
  BY <1>1, <1>2, <1>3, <1>4, <1>5, <1>6, <1>7, <1>8, <1>9, <1>10, <1>11, <1>12 DEF Next

-----------------------------------------------------------------------------
\* The inductive invariant of member rows and invites: a pending invite is
\* addressed to the user its row names.

InviteFollowsRow ==
    \A m \in DOMAIN invite : invite[m].status = "PENDING" => invite[m].invitee = member[m].user

OneLive(rows) ==
    \A m, n \in DOMAIN rows :
        /\ ~rows[m].deleted /\ ~rows[n].deleted
        /\ rows[m].group = rows[n].group
        /\ rows[m].user = rows[n].user
        => m = n

RowsInv == OneLive(member) /\ InviteFollowsRow /\ PendingRowHasOpenInvite

\* Healing never gives a user a second live row.
LEMMA HealKeepsOneLive ==
    ASSUME NEW rows, NEW healed, NEW mship, NEW g, OneLive(rows), Heals(rows, healed, mship, g)
    PROVE  OneLive(healed)
<1> SUFFICES ASSUME NEW m \in DOMAIN healed, NEW n \in DOMAIN healed,
                    ~healed[m].deleted, ~healed[n].deleted,
                    healed[m].group = healed[n].group, healed[m].user = healed[n].user
             PROVE  m = n
  BY DEF OneLive
<1>1. CASE m \in DOMAIN rows /\ n \in DOMAIN rows
  BY <1>1 DEF OneLive, Heals
<1>2. CASE m \in DOMAIN rows /\ n \notin DOMAIN rows
  <2>1. m \in LiveRows(rows, g, healed[n].user)
    BY <1>2 DEF Heals, LiveRows
  <2> QED
    BY <1>2, <2>1 DEF Heals
<1>3. CASE m \notin DOMAIN rows /\ n \in DOMAIN rows
  <2>1. n \in LiveRows(rows, g, healed[m].user)
    BY <1>3 DEF Heals, LiveRows
  <2> QED
    BY <1>3, <2>1 DEF Heals
<1>4. CASE m \notin DOMAIN rows /\ n \notin DOMAIN rows
  BY <1>4 DEF Heals
<1> QED
  BY <1>1, <1>2, <1>3, <1>4

\* A step that only heals keeps the rows' invariant.
LEMMA HealKeepsRowsInv ==
    ASSUME TypeOK, RowsInv, NEW g, Heals(member, member', membership, g), invite' = invite
    PROVE  RowsInv'
<1>1. OneLive(member')
  BY HealKeepsOneLive DEF RowsInv
<1>2. InviteFollowsRow'
  BY DEF RowsInv, InviteFollowsRow, Heals, TypeOK
<1>3. PendingRowHasOpenInvite'
  BY DEF RowsInv, PendingRowHasOpenInvite, Answerable, Heals, ACTIVE, PENDING_INVITE
<1> QED
  BY <1>1, <1>2, <1>3 DEF RowsInv

LEMMA RowsInvStep == TypeOK /\ RowsInv /\ [Next]_vars => RowsInv'
<1> SUFFICES ASSUME TypeOK, RowsInv, [Next]_vars PROVE RowsInv'
  OBVIOUS
<1>0. /\ \A m \in DOMAIN member : member[m] \in MemberRow
      /\ DOMAIN invite \subseteq DOMAIN member
      /\ \A m \in DOMAIN invite : invite[m] \in InviteRow
  BY DEF TypeOK
<1>1. ASSUME NEW u \in Users, NEW g \in Groups, NEW m \in Members, NEW del,
             CreateGroup(u, g, m, del)
      PROVE  RowsInv'
  <2>0. /\ m \notin DOMAIN member /\ DOMAIN member' = DOMAIN member \cup {m}
        /\ \A n \in DOMAIN member : member'[n] = member[n] /\ member[n].group # g
    BY <1>1, CreateGroupFacts
  <2>4. member'[m].group = g /\ member'[m].status = ACTIVE
    BY <1>1 DEF CreateGroup, Put
  <2>1. invite' = invite
    BY <1>1 DEF CreateGroup
  <2>2. OneLive(member')
    BY <2>0, <2>4 DEF RowsInv, OneLive
  <2>3. InviteFollowsRow' /\ PendingRowHasOpenInvite'
    BY <1>0, <2>0, <2>1, <2>4 DEF RowsInv, InviteFollowsRow, PendingRowHasOpenInvite, Answerable,
                                  ACTIVE, PENDING_INVITE
  <2> QED
    BY <2>2, <2>3 DEF RowsInv
<1> USE DEF ACTIVE, PENDING_INVITE
<1>2. ASSUME NEW u \in Users, NEW g \in Groups, GetGroup(u, g)
      PROVE  RowsInv'
  BY <1>2, HealedHeals, HealKeepsRowsInv DEF GetGroup
<1>3. ASSUME NEW u \in Users, NEW g \in Groups, NEW del \in BOOLEAN, UpdateGroup(u, g, del)
      PROVE  RowsInv'
  BY <1>3, HealedHeals, HealKeepsRowsInv DEF UpdateGroup
<1>4. ASSUME NEW u \in Users, NEW g \in Groups, SoftDeleteGroup(u, g)
      PROVE  RowsInv'
  <2>1. PICK rows :
          /\ Heals(member, rows, membership, g)
          /\ DOMAIN member' = DOMAIN rows
          /\ \A m \in DOMAIN rows :
                /\ member'[m].group = rows[m].group
                /\ member'[m].user = rows[m].user
                /\ member'[m].status = rows[m].status
                /\ member'[m].deleted <=> rows[m].deleted \/ rows[m].group = g
    BY <1>4, SoftDeleteGroupFacts
  <2>2. invite' = invite
    BY <1>4 DEF SoftDeleteGroup
  <2>3. OneLive(rows)
    BY <2>1, HealKeepsOneLive DEF RowsInv
  <2>4. OneLive(member')
    BY <2>1, <2>3 DEF OneLive
  <2>5. InviteFollowsRow'
    BY <1>0, <2>1, <2>2 DEF RowsInv, InviteFollowsRow, Heals
  <2>6. PendingRowHasOpenInvite'
    BY <2>1, <2>2 DEF RowsInv, PendingRowHasOpenInvite, Answerable, Heals
  <2> QED
    BY <2>4, <2>5, <2>6 DEF RowsInv
<1>5. ASSUME NEW u \in Users, NEW g \in Groups, TombstoneGroup(u, g)
      PROVE  RowsInv'
  BY <1>5 DEF TombstoneGroup, RowsInv, OneLive, InviteFollowsRow, PendingRowHasOpenInvite, Answerable
<1>6. ASSUME NEW u \in Users, NEW g \in Groups, NEW t \in Users, NEW m \in Members,
             NEW force \in BOOLEAN, NEW del \in BOOLEAN, AddMember(u, t, g, m, force, del)
      PROVE  RowsInv'
  <2>1. PICK rows, status : Adds(rows, status, u, t, g, m, del)
    BY <1>6, AddMemberFacts
  <2>2. OneLive(rows)
    BY <2>1, HealKeepsOneLive DEF RowsInv, Adds
  <2>3. OneLive(member')
    BY <2>1, <2>2 DEF Adds, OneLive, LiveRows
  <2>4. \A n \in DOMAIN member : n # m /\ member'[n].user = member[n].user
    BY <2>1 DEF Adds, Heals
  <2>5. InviteFollowsRow'
    BY <1>0, <2>1, <2>4 DEF Adds, RowsInv, InviteFollowsRow
  <2>6. \A n \in DOMAIN invite : n \in DOMAIN invite' /\ invite'[n] = invite[n]
    BY <1>0, <2>1, <2>4 DEF Adds
  <2>7. PendingRowHasOpenInvite'
    <3> SUFFICES ASSUME NEW n \in DOMAIN member', ~member'[n].deleted,
                        member'[n].status = PENDING_INVITE
                 PROVE  /\ n \in DOMAIN invite'
                        /\ invite'[n].invitee = member'[n].user
                        /\ invite'[n].status = "PENDING"
      BY DEF PendingRowHasOpenInvite, Answerable
    <3>1. CASE n = m
      BY <2>1, <3>1 DEF Adds
    <3>2. CASE n # m
      <4>1. n \in DOMAIN member /\ ~member[n].deleted /\ member[n].status = PENDING_INVITE
        BY <2>1, <3>2 DEF Adds, Heals
      <4> QED
        BY <2>4, <2>6, <4>1 DEF RowsInv, PendingRowHasOpenInvite, Answerable
    <3> QED
      BY <3>1, <3>2
  <2> QED
    BY <2>3, <2>5, <2>7 DEF RowsInv
<1>7. ASSUME NEW u \in Users, NEW m \in Members, NEW t \in Users, NEW del \in BOOLEAN,
             UpdateMember(u, m, t, del)
      PROVE  RowsInv'
  <2>1. /\ m \in DOMAIN member
        /\ t # member[m].user =>
              /\ member[m].status = PENDING_INVITE
              /\ LiveRows(member, member[m].group, t) \subseteq {m}
        /\ invite' = RedirectInvite(m, t)
    BY <1>7 DEF UpdateMember
  <2>2. OneLive(member')
    BY <1>7, <2>1, UpdateMemberFacts DEF RowsInv, OneLive, LiveRows
  <2>3. InviteFollowsRow'
    BY <1>0, <1>7, <2>1, UpdateMemberFacts, RedirectInviteFacts DEF RowsInv, InviteFollowsRow
  <2>4. PendingRowHasOpenInvite'
    BY <1>7, <2>1, UpdateMemberFacts, RedirectInviteFacts DEF RowsInv, PendingRowHasOpenInvite, Answerable
  <2> QED
    BY <2>2, <2>3, <2>4 DEF RowsInv
<1>8. ASSUME NEW u \in Users, NEW m \in Members, SoftDeleteMember(u, m)
      PROVE  RowsInv'
  <2>1. m \in DOMAIN member /\ member' = MarkDeleted(m) /\ invite' = RejectPending(m)
    BY <1>8 DEF SoftDeleteMember
  <2>2. OneLive(member')
    BY <2>1, MarkDeletedFacts DEF RowsInv, OneLive
  <2>3. InviteFollowsRow'
    BY <1>0, <2>1, MarkDeletedFacts, RejectPendingFacts DEF RowsInv, InviteFollowsRow
  <2>4. PendingRowHasOpenInvite'
    BY <2>1, MarkDeletedFacts, RejectPendingFacts DEF RowsInv, PendingRowHasOpenInvite, Answerable
  <2> QED
    BY <2>2, <2>3, <2>4 DEF RowsInv
<1>9. ASSUME NEW u \in Users, NEW m \in Members, TombstoneMember(u, m)
      PROVE  RowsInv'
  <2>1. m \in DOMAIN member /\ member' = MarkDeleted(m) /\ invite' = invite
    BY <1>9 DEF TombstoneMember
  <2>2. OneLive(member')
    BY <2>1, MarkDeletedFacts DEF RowsInv, OneLive
  <2>3. InviteFollowsRow'
    BY <1>0, <2>1, MarkDeletedFacts DEF RowsInv, InviteFollowsRow
  <2>4. PendingRowHasOpenInvite'
    BY <2>1, MarkDeletedFacts DEF RowsInv, PendingRowHasOpenInvite, Answerable
  <2> QED
    BY <2>2, <2>3, <2>4 DEF RowsInv
<1>10. ASSUME NEW u \in Users, NEW m \in Members, AcceptGroupInvite(u, m)
       PROVE  RowsInv'
  <2>1. PICK rows :
          /\ DOMAIN rows = DOMAIN member
          /\ \A n \in DOMAIN member : n # m => rows[n] = member[n]
          /\ rows[m].group = member[m].group /\ rows[m].user = u
          /\ rows[m].deleted = member[m].deleted /\ rows[m].status = ACTIVE
          /\ Heals(rows, member', membership', member[m].group)
    BY <1>10, AcceptGroupInviteFacts
  <2>2. /\ m \in DOMAIN member /\ m \in DOMAIN invite
        /\ invite[m].invitee = u /\ invite[m].status = "PENDING"
        /\ DOMAIN invite' = DOMAIN invite
        /\ \A n \in DOMAIN invite : n # m => invite'[n] = invite[n]
        /\ invite'[m].status = "ACCEPTED"
    BY <1>10, AcceptGroupInviteFacts
  <2>3. member[m].user = u
    BY <2>2 DEF RowsInv, InviteFollowsRow
  <2>4. \A n \in DOMAIN member :
          /\ rows[n].group = member[n].group /\ rows[n].user = member[n].user
          /\ rows[n].deleted = member[n].deleted
          /\ rows[n].status = IF n = m THEN ACTIVE ELSE member[n].status
    BY <2>1, <2>2, <2>3
  <2>5. OneLive(rows)
    BY <2>1, <2>4 DEF RowsInv, OneLive
  <2>6. OneLive(member')
    BY <2>1, <2>5, HealKeepsOneLive
  <2>7. \A n \in DOMAIN member : n \in DOMAIN member' /\ member'[n].user = member[n].user
    BY <2>1, <2>4 DEF Heals
  <2>8. InviteFollowsRow'
    BY <1>0, <2>2, <2>7 DEF RowsInv, InviteFollowsRow
  <2>9. PendingRowHasOpenInvite'
    <3> SUFFICES ASSUME NEW n \in DOMAIN member', ~member'[n].deleted,
                        member'[n].status = PENDING_INVITE
                 PROVE  Answerable(member[n].user, n)' /\ member'[n].user = member[n].user
      BY DEF PendingRowHasOpenInvite, Answerable
    <3>1. n \in DOMAIN member /\ n # m
      BY <2>1, <2>4 DEF Heals, ACTIVE, PENDING_INVITE
    <3>2. ~member[n].deleted /\ member[n].status = PENDING_INVITE
      BY <2>1, <2>4, <3>1 DEF Heals, ACTIVE, PENDING_INVITE
    <3>3. Answerable(member[n].user, n)
      BY <3>1, <3>2 DEF RowsInv, PendingRowHasOpenInvite
    <3> QED
      BY <2>2, <2>7, <3>1, <3>3 DEF Answerable
  <2> QED
    BY <2>6, <2>8, <2>9 DEF RowsInv
<1>11. ASSUME NEW u \in Users, NEW m \in Members, RejectGroupInvite(u, m)
       PROVE  RowsInv'
  <2>1. m \in DOMAIN member /\ member' = MarkDeleted(m) /\ invite' = RejectPending(m)
    BY <1>0, <1>11 DEF RejectGroupInvite, Answerable
  <2>2. OneLive(member')
    BY <2>1, MarkDeletedFacts DEF RowsInv, OneLive
  <2>3. InviteFollowsRow'
    BY <1>0, <2>1, MarkDeletedFacts, RejectPendingFacts DEF RowsInv, InviteFollowsRow
  <2>4. PendingRowHasOpenInvite'
    BY <2>1, MarkDeletedFacts, RejectPendingFacts DEF RowsInv, PendingRowHasOpenInvite, Answerable
  <2> QED
    BY <2>2, <2>3, <2>4 DEF RowsInv
<1>12. CASE UNCHANGED vars
  BY <1>12 DEF vars, RowsInv, OneLive, InviteFollowsRow, PendingRowHasOpenInvite, Answerable
<1> QED
  BY <1>1, <1>2, <1>3, <1>4, <1>5, <1>6, <1>7, <1>8, <1>9, <1>10, <1>11, <1>12 DEF Next

LEMMA RowsInvInit == Init => RowsInv
<1> SUFFICES ASSUME Init PROVE RowsInv
  OBVIOUS
<1>1. DOMAIN << >> = {}
  OBVIOUS
<1> QED
  BY <1>1 DEF Init, RowsInv, OneLive, InviteFollowsRow, PendingRowHasOpenInvite

LEMMA RowsInvAlways == Spec => []RowsInv
  BY RowsInvInit, RowsInvStep, TypeCorrect, PTL DEF Spec

\* Whatever mixture of adding, redirecting, healing, accepting, tombstones and
\* removals led there, a user has at most one live row per group.
THEOREM OneLiveRow == Spec => []OneLiveRowPerUser
<1>1. RowsInv => OneLiveRowPerUser
  BY DEF RowsInv, OneLive, OneLiveRowPerUser
<1> QED
  BY <1>1, RowsInvAlways, PTL

\* A live row that waits for its user always has a pending invite which that user
\* can answer.
THEOREM PendingRowsAnswerable == Spec => []PendingRowHasOpenInvite
<1>1. RowsInv => PendingRowHasOpenInvite
  BY DEF RowsInv
<1> QED
  BY <1>1, RowsInvAlways, PTL

-----------------------------------------------------------------------------
\* Who may open a group: its owner, and users who are connected to somebody.

Involved(u, g) == group[g].owner = u \/ \E c \in connected : u \in c

InvitersInvolved ==
    \A m \in DOMAIN invite : Involved(invite[m].inviter, member[m].group)

\* An invitation can be accepted by its own sender (a row redirected to him), so
\* the invariant also says that senders are involved.
AccessInv == ActiveMeansConnected /\ InvitersInvolved

LEMMA InvolvedStays ==
    ASSUME TypeOK, [Next]_vars, NEW u, NEW g \in DOMAIN group, Involved(u, g)
    PROVE  Involved(u, g)'
  BY GrowsStep DEF Grows, Involved

\* What is left to show of a step: new access and new invites come from somebody
\* involved.
GrantsAccess ==
    \A g \in Groups, u \in Users :
        membership'[<<g, u>>] = ACTIVE => membership[<<g, u>>] = ACTIVE \/ Involved(u, g)'

SendsInvites ==
    \A m \in DOMAIN invite' :
        \/ m \in DOMAIN invite /\ invite'[m].inviter = invite[m].inviter
        \/ Involved(invite[m].inviter, member[m].group)'

LEMMA AccessStays ==
    ASSUME TypeOK, AccessInv, [Next]_vars, GrantsAccess, SendsInvites
    PROVE  AccessInv'
<1>1. ActiveMeansConnected'
  <2> SUFFICES ASSUME NEW g \in Groups, NEW u \in Users, membership'[<<g, u>>] = ACTIVE
               PROVE  Involved(u, g)'
    BY DEF ActiveMeansConnected, CanAccess, Involved
  <2>1. CASE membership[<<g, u>>] = ACTIVE
    <3>1. g \in DOMAIN group
      BY <2>1 DEF TypeOK, ACTIVE
    <3>2. Involved(u, g)
      BY <2>1 DEF AccessInv, ActiveMeansConnected, CanAccess, Involved
    <3> QED
      BY <3>1, <3>2, InvolvedStays
  <2> QED
    BY <2>1 DEF GrantsAccess
<1>2. InvitersInvolved'
  <2> SUFFICES ASSUME NEW m \in DOMAIN invite'
               PROVE  Involved(invite[m].inviter, member[m].group)'
    BY DEF InvitersInvolved
  <2>1. CASE m \in DOMAIN invite /\ invite'[m].inviter = invite[m].inviter
    <3>1. /\ m \in DOMAIN member /\ member[m].group \in DOMAIN group
          /\ member'[m].group = member[m].group
      BY <2>1, GrowsStep DEF TypeOK, Grows
    <3>2. Involved(invite[m].inviter, member[m].group)
      BY <2>1 DEF AccessInv, InvitersInvolved
    <3> QED
      BY <2>1, <3>1, <3>2, GrowsStep DEF Grows, Involved
  <2> QED
    BY <2>1 DEF SendsInvites
<1> QED
  BY <1>1, <1>2 DEF AccessInv

LEMMA AccessInvStep == TypeOK /\ AccessInv /\ [Next]_vars => AccessInv'
<1> SUFFICES ASSUME TypeOK, AccessInv, [Next]_vars PROVE GrantsAccess /\ SendsInvites
  BY AccessStays
<1>1. ASSUME NEW u \in Users, NEW g \in Groups, NEW m \in Members, NEW del,
             CreateGroup(u, g, m, del)
      PROVE  GrantsAccess /\ SendsInvites
  <2>1. group'[g].owner = u
    BY <1>1 DEF CreateGroup, Put
  <2>2. membership' = [membership EXCEPT ![<<g, u>>] = ACTIVE] /\ invite' = invite
    BY <1>1 DEF CreateGroup
  <2> QED
    BY <2>1, <2>2 DEF GrantsAccess, SendsInvites, Involved, TypeOK
<1>2. ASSUME membership' = membership, invite' = invite
      PROVE  GrantsAccess /\ SendsInvites
  BY <1>2 DEF GrantsAccess, SendsInvites
<1>3. ASSUME NEW u \in Users, NEW g \in Groups,
             \/ GetGroup(u, g)
             \/ \E del \in BOOLEAN : UpdateGroup(u, g, del)
             \/ SoftDeleteGroup(u, g)
             \/ TombstoneGroup(u, g)
      PROVE  GrantsAccess /\ SendsInvites
  BY <1>2, <1>3 DEF GetGroup, UpdateGroup, SoftDeleteGroup, TombstoneGroup
<1>4. ASSUME NEW u \in Users, NEW g \in Groups, NEW t \in Users, NEW m \in Members,
             NEW force \in BOOLEAN, NEW del \in BOOLEAN, AddMember(u, t, g, m, force, del)
      PROVE  GrantsAccess /\ SendsInvites
  <2>1. PICK rows, status : Adds(rows, status, u, t, g, m, del)
    BY <1>4, AddMemberFacts
  <2>2. /\ status \in {ACTIVE, PENDING_INVITE}
        /\ membership' = [membership EXCEPT ![<<g, t>>] = status]
        /\ member'[m].group = g
        /\ status = ACTIVE /\ t # u => \E c \in connected' : t \in c
        /\ status = ACTIVE => invite' = invite
        /\ status = PENDING_INVITE =>
              /\ DOMAIN invite' = DOMAIN invite \cup {m}
              /\ \A n \in DOMAIN invite : n # m => invite'[n] = invite[n]
              /\ invite'[m].inviter = u
    BY <2>1 DEF Adds
  <2>3. Involved(u, g)'
    <3>1. CanAccess(u, g) /\ g \in DOMAIN group
      BY <1>4 DEF AddMember, CanAccess, TypeOK, ACTIVE
    <3>2. Involved(u, g)
      BY <3>1 DEF AccessInv, ActiveMeansConnected, Involved
    <3> QED
      BY <3>1, <3>2, InvolvedStays
  <2>4. status = ACTIVE => Involved(t, g)'
    BY <2>2, <2>3 DEF Involved
  <2>5. GrantsAccess
    BY <2>2, <2>4 DEF GrantsAccess, TypeOK
  <2>6. SendsInvites
    BY <2>2, <2>3 DEF SendsInvites
  <2> QED
    BY <2>5, <2>6
<1>5. ASSUME NEW u \in Users, NEW m \in Members, NEW t \in Users, NEW del \in BOOLEAN,
             UpdateMember(u, m, t, del)
      PROVE  GrantsAccess /\ SendsInvites
  <2>1. m \in DOMAIN member /\ invite' = RedirectInvite(m, t) /\ membership' = membership
    BY <1>5 DEF UpdateMember
  <2> QED
    BY <2>1, RedirectInviteFacts DEF GrantsAccess, SendsInvites
<1>6. ASSUME NEW m, invite' = RejectPending(m),
             NEW p \in Groups \X Users, membership' = [membership EXCEPT ![p] = "NONE"]
      PROVE  GrantsAccess /\ SendsInvites
  <2>1. SendsInvites
    BY <1>6, RejectPendingFacts DEF SendsInvites
  <2>2. GrantsAccess
    BY <1>6 DEF GrantsAccess, TypeOK, ACTIVE
  <2> QED
    BY <2>1, <2>2
<1>7. ASSUME NEW u \in Users, NEW m \in Members, SoftDeleteMember(u, m)
      PROVE  GrantsAccess /\ SendsInvites
  <2>1. <<member[m].group, member[m].user>> \in Groups \X Users
    BY <1>7 DEF SoftDeleteMember, TypeOK, MemberRow
  <2> QED
    BY <1>6, <1>7, <2>1 DEF SoftDeleteMember
<1>8. ASSUME NEW u \in Users, NEW m \in Members, TombstoneMember(u, m)
      PROVE  GrantsAccess /\ SendsInvites
  BY <1>2, <1>8 DEF TombstoneMember
<1>9. ASSUME NEW u \in Users, NEW m \in Members, AcceptGroupInvite(u, m)
      PROVE  GrantsAccess /\ SendsInvites
  <2>1. /\ m \in DOMAIN member /\ m \in DOMAIN invite
        /\ group' = group
        /\ membership' = [membership EXCEPT ![<<member[m].group, u>>] = ACTIVE]
        /\ DOMAIN invite' = DOMAIN invite
        /\ \A n \in DOMAIN invite : n # m => invite'[n] = invite[n]
        /\ invite'[m].inviter = invite[m].inviter
        /\ connected' = Connect(invite[m].inviter, u)
    BY <1>9, AcceptGroupInviteFacts
  <2>5. PICK g \in Groups : g = member[m].group
    BY <2>1 DEF TypeOK, MemberRow
  <2>2. Involved(u, g)'
    <3>1. CASE u = invite[m].inviter
      BY <2>1, <2>5, <3>1 DEF AccessInv, InvitersInvolved, Involved, Connect
    <3>2. CASE u # invite[m].inviter
      BY <2>1, <3>2 DEF Involved, Connect
    <3> QED
      BY <3>1, <3>2
  <2>3. GrantsAccess
    BY <2>1, <2>2, <2>5 DEF GrantsAccess, TypeOK
  <2>4. SendsInvites
    BY <2>1 DEF SendsInvites
  <2> QED
    BY <2>3, <2>4
<1>10. ASSUME NEW u \in Users, NEW m \in Members, RejectGroupInvite(u, m)
       PROVE  GrantsAccess /\ SendsInvites
  <2>1. <<member[m].group, u>> \in Groups \X Users
    BY <1>10 DEF RejectGroupInvite, Answerable, TypeOK, MemberRow
  <2> QED
    BY <1>6, <1>10, <2>1 DEF RejectGroupInvite
<1>11. CASE UNCHANGED vars
  BY <1>2, <1>11 DEF vars
<1> QED
  BY <1>1, <1>3, <1>4, <1>5, <1>7, <1>8, <1>9, <1>10, <1>11 DEF Next

LEMMA AccessInvInit == Init => AccessInv
<1> SUFFICES ASSUME Init PROVE AccessInv
  OBVIOUS
<1>1. DOMAIN << >> = {}
  OBVIOUS
<1> QED
  BY <1>1 DEF Init, AccessInv, ActiveMeansConnected, InvitersInvolved, CanAccess, ACTIVE

\* Access to a group is only ever given by creating it, by a connected user or an
\* inline request, or by accepting an invite.
THEOREM AccessIsGranted == Spec => []ActiveMeansConnected
<1>1. AccessInv => ActiveMeansConnected
  BY DEF AccessInv
<1> QED
  BY <1>1, AccessInvInit, AccessInvStep, TypeCorrect, PTL DEF Spec

-----------------------------------------------------------------------------
\* Active memberships are never put back to a pending invite.

Downgrades(g, u) == membership[<<g, u>>] = ACTIVE /\ membership'[<<g, u>>] = PENDING_INVITE

LEMMA NoDowngradeStep ==
    ASSUME TypeOK, [Next]_vars, NEW g \in Groups, NEW u \in Users
    PROVE  ~Downgrades(g, u)
<1> USE DEF ACTIVE, PENDING_INVITE
<1>1. ASSUME NEW p \in Groups \X Users, NEW s,
             membership' = [membership EXCEPT ![p] = s], s # PENDING_INVITE
      PROVE  ~Downgrades(g, u)
  BY <1>1 DEF Downgrades, TypeOK
<1>2. ASSUME membership' = membership
      PROVE  ~Downgrades(g, u)
  BY <1>2 DEF Downgrades
<1>3. ASSUME NEW v \in Users, NEW h \in Groups, NEW t \in Users, NEW m \in Members,
             NEW force, NEW del, AddMember(v, t, h, m, force, del)
      PROVE  ~Downgrades(g, u)
  <2>1. PICK rows, status : Adds(rows, status, v, t, h, m, del)
    BY <1>3, AddMemberFacts
  <2>2. /\ membership' = [membership EXCEPT ![<<h, t>>] = status]
        /\ membership[<<h, t>>] # ACTIVE
    BY <2>1 DEF Adds, Heals
  <2> QED
    BY <2>2 DEF Downgrades, TypeOK
<1>4. ASSUME NEW v \in Users, NEW h \in Groups, NEW m \in Members, NEW del,
             CreateGroup(v, h, m, del)
      PROVE  ~Downgrades(g, u)
  BY <1>1, <1>4 DEF CreateGroup
<1>5. ASSUME NEW v \in Users, NEW m \in Members, AcceptGroupInvite(v, m)
      PROVE  ~Downgrades(g, u)
  <2>1. /\ membership' = [membership EXCEPT ![<<member[m].group, v>>] = ACTIVE]
        /\ member[m].group \in Groups
    BY <1>5 DEF AcceptGroupInvite, Answerable, TypeOK, MemberRow
  <2> QED
    BY <1>1, <2>1
<1>6. ASSUME NEW v \in Users, NEW m \in Members,
             SoftDeleteMember(v, m) \/ RejectGroupInvite(v, m)
      PROVE  ~Downgrades(g, u)
  <2>1. PICK t \in Users : membership' = [membership EXCEPT ![<<member[m].group, t>>] = "NONE"]
    BY <1>6 DEF SoftDeleteMember, RejectGroupInvite, TypeOK, MemberRow
  <2>2. member[m].group \in Groups
    BY <1>6 DEF SoftDeleteMember, RejectGroupInvite, Answerable, TypeOK, MemberRow
  <2> QED
    BY <1>1, <2>1, <2>2
<1>7. ASSUME NEW v \in Users, NEW h \in Groups,
             \/ GetGroup(v, h)
             \/ \E del \in BOOLEAN : UpdateGroup(v, h, del)
             \/ SoftDeleteGroup(v, h)
             \/ TombstoneGroup(v, h)
      PROVE  ~Downgrades(g, u)
  BY <1>2, <1>7 DEF GetGroup, UpdateGroup, SoftDeleteGroup, TombstoneGroup
<1>8. ASSUME NEW v \in Users, NEW m \in Members,
             \/ \E t \in Users, del \in BOOLEAN : UpdateMember(v, m, t, del)
             \/ TombstoneMember(v, m)
      PROVE  ~Downgrades(g, u)
  BY <1>2, <1>8 DEF UpdateMember, TombstoneMember
<1>9. CASE UNCHANGED vars
  BY <1>2, <1>9 DEF vars
<1> QED
  BY <1>3, <1>4, <1>5, <1>6, <1>7, <1>8, <1>9 DEF Next

\* Adding a user never takes away the access he has: the healing that precedes it
\* finds or inserts his live row, and the request is then refused.
THEOREM AccessIsKept == Spec => NoDowngrade
<1>1. TypeOK /\ [Next]_vars =>
        [\A g \in Groups, u \in Users :
            membership[<<g, u>>] = ACTIVE => membership'[<<g, u>>] # PENDING_INVITE]_vars
  BY NoDowngradeStep DEF Downgrades
<1> QED
  BY <1>1, TypeCorrect, PTL DEF Spec, NoDowngrade

-----------------------------------------------------------------------------
\* How an active member may lose his access.

\* Rows of active users stay active rows of the same users unless they are deleted.
LEMMA OrphanedBefore ==
    ASSUME NEW m \in DOMAIN member, ~Orphaned(m), Orphaned(m)',
           member'[m].group = member[m].group, member'[m].user = member[m].user,
           member[m].deleted => member'[m].deleted,
           \/ member'[m].status = member[m].status
           \/ CanAccess(member[m].user, member[m].group)'
    PROVE  /\ ~member[m].deleted
           /\ membership[<<member[m].group, member[m].user>>] = ACTIVE
           /\ membership'[<<member[m].group, member[m].user>>] # ACTIVE
  BY DEF Orphaned, CanAccess

LEMMA OrphanedStep ==
    ASSUME TypeOK, RowsInv, [Next]_vars, NEW m \in DOMAIN member, ~Orphaned(m), Orphaned(m)'
    PROVE  HasDeletedTwin(m)
<1>0. member[m] \in MemberRow
  BY DEF TypeOK
<1>1. ASSUME NEW rows, NEW h, Heals(rows, member', membership', h), m \in DOMAIN rows,
             rows[m].group = member[m].group, rows[m].user = member[m].user,
             rows[m].deleted = member[m].deleted, rows[m].status = member[m].status,
             membership[<<member[m].group, member[m].user>>] = ACTIVE
                => membership'[<<member[m].group, member[m].user>>] = ACTIVE
      PROVE  FALSE
  <2>1. /\ member'[m].group = member[m].group /\ member'[m].user = member[m].user
        /\ member'[m].deleted = member[m].deleted
        /\ \/ member'[m].status = member[m].status
           \/ membership'[<<member[m].group, member[m].user>>] = ACTIVE
    BY <1>1 DEF Heals
  <2> QED
    BY <1>1, <2>1, OrphanedBefore DEF CanAccess
<1>2. ASSUME NEW k \in DOMAIN member, member' = MarkDeleted(k),
             \/ membership' = membership
             \/ membership' = [membership EXCEPT ![<<member[k].group, member[k].user>>] = "NONE"]
      PROVE  HasDeletedTwin(m)
  <2>1. /\ member'[m].group = member[m].group /\ member'[m].user = member[m].user
        /\ member'[m].status = member[m].status
        /\ member'[m].deleted <=> m = k \/ member[m].deleted
    BY <1>2, MarkDeletedFacts
  <2>2. /\ ~member[m].deleted
        /\ membership[<<member[m].group, member[m].user>>] = ACTIVE
        /\ membership'[<<member[m].group, member[m].user>>] # ACTIVE
    BY <2>1, OrphanedBefore
  <2>3. m # k
    BY <2>1 DEF Orphaned
  <2>4. member[k] \in MemberRow
    BY DEF TypeOK
  <2>5. member[k].group = member[m].group /\ member[k].user = member[m].user
    BY <1>0, <1>2, <2>2, <2>4 DEF TypeOK, MemberRow
  <2>6. member[k].deleted
    BY <2>2, <2>3, <2>5 DEF RowsInv, OneLive
  <2> QED
    BY <2>5, <2>6 DEF HasDeletedTwin
<1>3. ASSUME NEW u \in Users, NEW g \in Groups, NEW n \in Members, NEW del,
             CreateGroup(u, g, n, del)
      PROVE  FALSE
  <2>1. member'[m] = member[m]
    BY <1>3, CreateGroupFacts
  <2>2. membership' = [membership EXCEPT ![<<g, u>>] = ACTIVE]
    BY <1>3 DEF CreateGroup
  <2> QED
    BY <1>0, <2>1, <2>2, OrphanedBefore DEF TypeOK, MemberRow
<1>4. ASSUME NEW u \in Users, NEW g \in Groups,
             GetGroup(u, g) \/ \E del \in BOOLEAN : UpdateGroup(u, g, del)
      PROVE  FALSE
  <2>1. Heals(member, member', membership', g) /\ membership' = membership
    BY <1>4, HealedHeals DEF GetGroup, UpdateGroup
  <2> QED
    BY <1>1, <2>1
<1>5. ASSUME NEW u \in Users, NEW g \in Groups, SoftDeleteGroup(u, g)
      PROVE  FALSE
  <2>1. PICK rows :
          /\ Heals(member, rows, membership, g)
          /\ DOMAIN member' = DOMAIN rows
          /\ \A n \in DOMAIN rows :
                /\ member'[n].group = rows[n].group
                /\ member'[n].user = rows[n].user
                /\ member'[n].status = rows[n].status
                /\ member'[n].deleted <=> rows[n].deleted \/ rows[n].group = g
    BY <1>5, SoftDeleteGroupFacts
  <2>2. membership' = membership
    BY <1>5 DEF SoftDeleteGroup
  <2>3. /\ member'[m].group = member[m].group /\ member'[m].user = member[m].user
        /\ member[m].deleted => member'[m].deleted
        /\ \/ member'[m].status = member[m].status
           \/ membership'[<<member[m].group, member[m].user>>] = ACTIVE
    BY <2>1, <2>2 DEF Heals
  <2> QED
    BY <2>2, <2>3, OrphanedBefore DEF CanAccess
<1>6. ASSUME NEW u \in Users, NEW g \in Groups, NEW t \in Users, NEW n \in Members,
             NEW force \in BOOLEAN, NEW del \in BOOLEAN, AddMember(u, t, g, n, force, del)
      PROVE  FALSE
  <2>1. PICK rows, status : Adds(rows, status, u, t, g, n, del)
    BY <1>6, AddMemberFacts
  <2>2. /\ m \in DOMAIN rows /\ member'[m] = rows[m]
        /\ rows[m].group = member[m].group /\ rows[m].user = member[m].user
        /\ rows[m].deleted = member[m].deleted
        /\ \/ rows[m].status = member[m].status
           \/ membership[<<member[m].group, member[m].user>>] = ACTIVE
    BY <2>1 DEF Adds, Heals
  <2>3. ~rows[m].deleted
    BY <2>2 DEF Orphaned
  <2>4. ~(member[m].group = g /\ member[m].user = t)
    BY <2>1, <2>2, <2>3 DEF Adds, LiveRows
  <2>5. membership' = [membership EXCEPT ![<<g, t>>] = status]
    BY <2>1 DEF Adds
  <2>6. membership'[<<member[m].group, member[m].user>>]
          = membership[<<member[m].group, member[m].user>>]
    BY <1>0, <2>4, <2>5 DEF TypeOK, MemberRow
  <2> QED
    BY <2>2, <2>6, OrphanedBefore DEF CanAccess
<1>7. ASSUME NEW u \in Users, NEW k \in Members, NEW t \in Users, NEW del \in BOOLEAN,
             UpdateMember(u, k, t, del)
      PROVE  FALSE
  <2>1. /\ k \in DOMAIN member /\ membership' = membership
        /\ t # member[k].user => member[k].status = PENDING_INVITE
    BY <1>7 DEF UpdateMember
  <2>2. /\ member'[m].group = member[m].group
        /\ member'[m].status = member[m].status
        /\ m # k => member'[m] = member[m]
        /\ m = k => /\ member'[m].user = t
                    /\ member'[m].deleted <=> member[m].deleted \/ del
    BY <1>7, UpdateMemberFacts
  <2>3. member'[m].user = member[m].user
    BY <2>1, <2>2 DEF Orphaned, ACTIVE, PENDING_INVITE
  <2>4. member[m].deleted => member'[m].deleted
    BY <2>2
  <2> QED
    BY <2>1, <2>2, <2>3, <2>4, OrphanedBefore
<1>8. ASSUME NEW u \in Users, NEW k \in Members, SoftDeleteMember(u, k) \/ TombstoneMember(u, k)
      PROVE  HasDeletedTwin(m)
  BY <1>2, <1>8 DEF SoftDeleteMember, TombstoneMember
<1>9. ASSUME NEW u \in Users, NEW k \in Members, AcceptGroupInvite(u, k)
      PROVE  FALSE
  <2>1. PICK rows :
          /\ DOMAIN rows = DOMAIN member
          /\ \A n \in DOMAIN member : n # k => rows[n] = member[n]
          /\ rows[k].group = member[k].group /\ rows[k].user = u
          /\ rows[k].deleted = member[k].deleted
          /\ Heals(rows, member', membership', member[k].group)
    BY <1>9, AcceptGroupInviteFacts
  <2>2. /\ k \in DOMAIN member
        /\ membership' = [membership EXCEPT ![<<member[k].group, u>>] = ACTIVE]
    BY <1>9, AcceptGroupInviteFacts
  <2>3. member[k].group \in Groups
    BY <2>2 DEF TypeOK, MemberRow
  <2>4. m # k
    BY <2>1, <2>2, <2>3 DEF Orphaned, CanAccess, Heals, TypeOK
  <2>5. membership[<<member[m].group, member[m].user>>] = ACTIVE
          => membership'[<<member[m].group, member[m].user>>] = ACTIVE
    BY <1>0, <2>2 DEF TypeOK, MemberRow
  <2> QED
    BY <1>1, <2>1, <2>4, <2>5
<1>10. ASSUME NEW u \in Users, NEW k \in Members, RejectGroupInvite(u, k)
       PROVE  HasDeletedTwin(m)
  <2>1. /\ k \in DOMAIN member /\ member[k].user = u
        /\ member' = MarkDeleted(k)
        /\ membership' = [membership EXCEPT ![<<member[k].group, u>>] = "NONE"]
    BY <1>10 DEF RejectGroupInvite, Answerable, TypeOK, RowsInv, InviteFollowsRow
  <2> QED
    BY <1>2, <2>1
<1>11. ASSUME NEW u \in Users, NEW g \in Groups, TombstoneGroup(u, g)
       PROVE  FALSE
  BY <1>11 DEF TombstoneGroup, Orphaned, CanAccess
<1>12. CASE UNCHANGED vars
  BY <1>12 DEF vars, Orphaned, CanAccess
<1> QED
  BY <1>3, <1>4, <1>5, <1>6, <1>7, <1>8, <1>9, <1>10, <1>11, <1>12 DEF Next

\* A user who is listed as an active member loses his access only through a row
\* of his that was deleted earlier.
THEOREM AccessLostOnlyThroughTwin == Spec => OrphanedOnlyThroughDeletedTwin
<1>1. TypeOK /\ RowsInv /\ [Next]_vars =>
        [\A m \in DOMAIN member : Orphaned(m)' /\ ~Orphaned(m) => HasDeletedTwin(m)]_vars
  BY OrphanedStep
<1> QED
  BY <1>1, TypeCorrect, RowsInvAlways, PTL DEF Spec, OrphanedOnlyThroughDeletedTwin

=============================================================================
