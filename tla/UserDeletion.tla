---------------------------- MODULE UserDeletion ----------------------------
(***************************************************************************)
(* What the admin's deletion of a user takes along                         *)
(* (app/services/admin_service.py).                                        *)
(*                                                                         *)
(* Every row belongs to a group and to the user who wrote it.  Cards and   *)
(* settlements hold the member rows they name: the foreign keys let such a *)
(* row go only after them.  Expenses do not: their parts go with it.       *)
(*                                                                         *)
(* How users come into groups, what a card has besides its member, and     *)
(* what expenses amount to, are the subjects of Groups, GroupCards and     *)
(* Ledger.  Here users are added at once, and a card, a settlement or an   *)
(* expense is its writer and the member rows it names.                     *)
(***************************************************************************)
EXTENDS FiniteSets, Functions

CONSTANTS Users, Nobody, Groups, Members,
          Papers,   \* ids of cards and settlements
          Expenses

VARIABLES users,       \* those who exist
          group,       \* tables: rows by id
          member,
          paper,
          expense,
          membership,  \* who may open which group
          gone         \* history: who had added the member rows that a deletion took

vars == <<users, group, member, paper, expense, membership, gone>>
----------------------------------------------------------------------------
GroupRow == [owner : Users, deleted : BOOLEAN]
MemberRow == [group : Groups, user : Users \cup {Nobody}, creator : Users, deleted : BOOLEAN]
(* made: the member rows it was last saved with. *)
PaperRow == [group : Groups, creator : Users, names : SUBSET Members, made : SUBSET Members]

TypeOK ==
  /\ users \subseteq Users
  /\ DOMAIN group \subseteq Groups /\ \A g \in DOMAIN group : group[g] \in GroupRow
  /\ DOMAIN member \subseteq Members /\ \A m \in DOMAIN member : member[m] \in MemberRow
  /\ DOMAIN paper \subseteq Papers /\ \A p \in DOMAIN paper : paper[p] \in PaperRow
  /\ DOMAIN expense \subseteq Expenses /\ \A e \in DOMAIN expense : expense[e] \in PaperRow
  /\ membership \subseteq Groups \X Users
  /\ DOMAIN gone \subseteq Members /\ \A m \in DOMAIN gone : gone[m] \in Users

Init ==
  /\ users = Users
  /\ group = << >> /\ member = << >> /\ paper = << >> /\ expense = << >>
  /\ membership = {}
  /\ gone = << >>
----------------------------------------------------------------------------
Put(table, id, row) == [i \in DOMAIN table \cup {id} |-> IF i = id THEN row ELSE table[i]]
Without(table, ids) == Restrict(table, DOMAIN table \ ids)
Of(table, u) == {i \in DOMAIN table : table[i].creator = u}
In(table, gs) == {i \in DOMAIN table : table[i].group \in gs}

CanAccess(u, g) == u \in users /\ <<g, u>> \in membership

(* Ids are never used again. *)
NewMembers == Members \ (DOMAIN member \cup DOMAIN gone)

ActiveMembers(table, g) == {m \in In(table, {g}) : ~table[m].deleted}

(* Who may open the group and has no live row in it. *)
Unlisted(g) ==
  {u \in users : /\ <<g, u>> \in membership
                 /\ \A m \in ActiveMembers(member, g) : member[m].user # u}

(* get_group adds the missing rows in the owner's name, and commits them.  *)
Healed(g) ==
  {[m \in DOMAIN member \cup Range(ids) |->
      IF m \in DOMAIN member THEN member[m]
      ELSE [group |-> g, user |-> CHOOSE u \in DOMAIN ids : ids[u] = m,
            creator |-> group[g].owner, deleted |-> FALSE]] :
   ids \in Injection(Unlisted(g), NewMembers)}
----------------------------------------------------------------------------
CreateGroup(u, g, m) ==
  /\ u \in users /\ g \notin DOMAIN group /\ m \in NewMembers
  /\ group' = Put(group, g, [owner |-> u, deleted |-> FALSE])
  /\ member' = Put(member, m, [group |-> g, user |-> u, creator |-> u, deleted |-> FALSE])
  /\ membership' = membership \cup {<<g, u>>}
  /\ UNCHANGED <<users, paper, expense, gone>>

(* A row belongs to the user who adds it, whoever it stands for. *)
AddMember(u, g, v, m) ==
  /\ CanAccess(u, g) /\ v \in users /\ ~group[g].deleted
  /\ \E table \in Healed(g) :
       /\ \A n \in ActiveMembers(table, g) : table[n].user # v
       /\ m \in NewMembers \ DOMAIN table
       /\ member' = Put(table, m, [group |-> g, user |-> v, creator |-> u, deleted |-> FALSE])
  /\ membership' = membership \cup {<<g, v>>}
  /\ UNCHANGED <<users, group, paper, expense, gone>>

SoftDeleteMember(u, m) ==
  /\ m \in DOMAIN member /\ CanAccess(u, member[m].group)
  /\ member' = [member EXCEPT ![m].deleted = TRUE]
  /\ membership' = membership \ {<<member[m].group, member[m].user>>}
  /\ UNCHANGED <<users, group, paper, expense, gone>>

(* soft_delete_group marks the member rows too.  Cards, settlements and    *)
(* expenses are marked as well, but a marked one names members as before.  *)
SoftDeleteGroup(u, g) ==
  /\ CanAccess(u, g)
  /\ group' = [group EXCEPT ![g].deleted = TRUE]
  /\ \E table \in Healed(g) :
       member' = [m \in DOMAIN table |->
                    IF table[m].group = g THEN [table[m] EXCEPT !.deleted = TRUE] ELSE table[m]]
  /\ UNCHANGED <<users, paper, expense, membership, gone>>

(* Creating or updating a card, a settlement or an expense: the names are  *)
(* active members then, and a row stays its creator's.                     *)
Saved(table, u, g, id, names) ==
  Put(table, id, [group |-> g, names |-> names, made |-> names,
                  creator |-> IF id \in DOMAIN table THEN table[id].creator ELSE u])

MaySave(table, u, g, id) ==
  /\ CanAccess(u, g)
  /\ IF id \in DOMAIN table THEN table[id].group = g ELSE ~group[g].deleted

(* A card names one member, a settlement two. *)
SavePaper(u, g, p, m, n) ==
  /\ MaySave(paper, u, g, p)
  /\ member' \in Healed(g)
  /\ {m, n} \subseteq ActiveMembers(member', g)
  /\ paper' = Saved(paper, u, g, p, {m, n})
  /\ UNCHANGED <<users, group, expense, membership, gone>>

SaveExpense(u, g, e, names) ==
  /\ MaySave(expense, u, g, e)
  /\ member' \in Healed(g)
  /\ names # {} /\ names \subseteq ActiveMembers(member', g)
  /\ expense' = Saved(expense, u, g, e, names)
  /\ UNCHANGED <<users, group, paper, membership, gone>>
----------------------------------------------------------------------------
\* Mutant: the rows that stand for him, whoever added them.
StandingFor(u) == {m \in DOMAIN member : member[m].user = u}

(* The member rows that go with a user: those he has added, his own or not. *)
AddedBy(u) == Of(member, u)

(* His own cards and settlements are deleted before his member rows.       *)
(* Those of others are not, not even in his own groups: the session does   *)
(* not flush before the commit (autoflush is off), so that his groups, and *)
(* what they hold, go last.  Rows that are marked as deleted hold too.     *)
Held(u) == \E p \in DOMAIN paper \ Of(paper, u) : paper[p].names \cap AddedBy(u) # {}

(* The rows that stood for him and stay stand for nobody. *)
Unlinked(table, u) ==
  [m \in DOMAIN table |-> IF table[m].user = u THEN [table[m] EXCEPT !.user = Nobody] ELSE table[m]]

(* delete_user.  If one of his member rows is held, everything is rolled   *)
(* back and nothing has happened.                                          *)
DeleteUser(u) ==
  LET own == {g \in DOMAIN group : group[g].owner = u}
      Rest(table) == Without(table, Of(table, u) \cup In(table, own))
      lost == AddedBy(u) \cup In(member, own)
  IN /\ u \in users
     /\ ~Held(u)
     /\ users' = users \ {u}
     /\ group' = Without(group, own)
     /\ membership' = {p \in membership : p[1] \notin own /\ p[2] # u}
     /\ paper' = Rest(paper)
     /\ expense' = [e \in DOMAIN Rest(expense) |-> [expense[e] EXCEPT !.names = @ \ lost]]
     /\ member' = Unlinked(Without(member, lost), u)
     /\ gone' = [m \in DOMAIN gone \cup lost |-> IF m \in lost THEN member[m].creator ELSE gone[m]]

Next ==
  \E u \in Users :
    \/ DeleteUser(u)
    \/ \E m \in Members : SoftDeleteMember(u, m)
    \/ \E g \in Groups :
         \/ SoftDeleteGroup(u, g)
         \/ \E m \in Members : CreateGroup(u, g, m)
         \/ \E v \in Users, m \in Members : AddMember(u, g, v, m)
         \/ \E p \in Papers, m, n \in Members : SavePaper(u, g, p, m, n)
         \/ \E e \in Expenses, names \in SUBSET Members : SaveExpense(u, g, e, names)

Spec == Init /\ [][Next]_vars
----------------------------------------------------------------------------
(* An expense that stays loses the parts of members whom the deleted user  *)
(* had added, neither its writer nor the group's owner, and no others: who *)
(* owes what outlives everybody else, the members' own users included.     *)
PartsGoWithWhoAddedThem ==
  \A e \in DOMAIN expense : \A m \in expense[e].made :
    m \notin expense[e].names <=>
      m \in DOMAIN gone /\ gone[m] \notin users \cup {expense[e].creator, group[expense[e].group].owner}
=============================================================================
