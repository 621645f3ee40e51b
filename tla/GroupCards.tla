----------------------------- MODULE GroupCards -----------------------------
(***************************************************************************)
(* The bank cards of one group (app/services/crud_service.py).             *)
(*                                                                         *)
(* A handler that writes a card makes its checks and commits later; writes *)
(* of other requests may be committed in between, and a unique index on    *)
(* the numbers of the live cards decides what the checks could not.  Cards *)
(* of different groups have nothing to do with each other.                 *)
(***************************************************************************)
EXTENDS FiniteSets

CONSTANTS Members,   \* ids of the group's member rows
          Cards, Numbers,
          Requests, NoRequest

VARIABLES active,   \* the live, active member rows
          deleted,  \* the group: "no", "marked" by an edit or a tombstone, or "wiped"
          card,     \* the table of cards
          req,      \* per request: the write it is about to commit
          loaded,   \* per request that is deleting the group: the cards it has loaded
          stray     \* history: the cards whose insertion has overlapped with such a request

vars == <<active, deleted, card, req, loaded, stray>>
----------------------------------------------------------------------------
CardRow == [member : Members, number : Numbers, deleted : BOOLEAN]

(* old is the row the handler has read, new what it makes of it; overtaken *)
(* says whether another card has been written since.                       *)
Write == [card : Cards, insert : BOOLEAN, old : CardRow, new : CardRow, overtaken : BOOLEAN]

TypeOK ==
  /\ active \subseteq Members
  /\ deleted \in {"no", "marked", "wiped"}
  /\ DOMAIN card \subseteq Cards /\ \A c \in DOMAIN card : card[c] \in CardRow
  /\ \A r \in Requests : req[r] = NoRequest \/ req[r] \in Write
  /\ DOMAIN loaded \subseteq Requests /\ \A r \in DOMAIN loaded : loaded[r] \subseteq DOMAIN card
  /\ stray \subseteq Cards

Init ==
  /\ active = Members
  /\ deleted = "no"
  /\ card = << >>
  /\ req = [r \in Requests |-> NoRequest]
  /\ loaded = << >>
  /\ stray = {}
----------------------------------------------------------------------------
Live == {c \in DOMAIN card : ~card[c].deleted}
Pending == {r \in Requests : req[r] # NoRequest}
Busy == Pending \cup DOMAIN loaded
Inserting == {req[r].card : r \in {s \in Pending : req[s].insert}}

\* Mutant: only cards of the same member are compared.
FreeForMember(n, m, c) ==
  \A d \in Live \ {c} : card[d].member = m => card[d].number # n

(* _find_group_card_by_number: no live card but this one has the number. *)
Free(n, m, c) == \A d \in Live \ {c} : card[d].number # n

Begin(r, c, insert, old, new) ==
  req' = [req EXCEPT ![r] = [card |-> c, insert |-> insert, old |-> old, new |-> new,
                             overtaken |-> FALSE]]

\* Mutant: nobody asks whether the group is deleted.
OpenAlways == TRUE

Open == deleted = "no"

(* create_group_card.  A pushed card may be deleted already. *)
CreateCard(r, c, m, n, del) ==
  /\ r \notin Busy
  /\ c \notin DOMAIN card \cup Inserting
  /\ Open
  /\ m \in active
  /\ Free(n, m, c)
  /\ LET new == [member |-> m, number |-> n, deleted |-> del] IN Begin(r, c, TRUE, new, new)
  /\ stray' = IF DOMAIN loaded = {} THEN stray ELSE stray \cup {c}
  /\ UNCHANGED <<active, deleted, card, loaded>>

(* update_group_card, of a deleted card, or in a deleted group, as well.   *)
(* The member, kept or new, has to be active.  A number is looked up if it *)
(* is given; given or not, the one the card has may be kept.               *)
UpdateCard(r, c, m, n, del) ==
  /\ r \notin Busy
  /\ c \in DOMAIN card
  /\ m \in active
  /\ n # card[c].number => Free(n, m, c)
  /\ Begin(r, c, FALSE, card[c],
           [member |-> m, number |-> n, deleted |-> card[c].deleted \/ del])
  /\ UNCHANGED <<active, deleted, card, loaded, stray>>

\* Mutant: the UPDATE writes the row as the handler has it.
WrittenWhole(w) == w.new

(* The row a commit leaves: an UPDATE sets the columns that were changed.  *)
Written(w) ==
  IF w.insert THEN w.new
  ELSE LET now == card[w.card]
       IN  [member |-> IF w.new.member # w.old.member THEN w.new.member ELSE now.member,
            number |-> IF w.new.number # w.old.number THEN w.new.number ELSE now.number,
            deleted |-> IF w.new.deleted # w.old.deleted THEN w.new.deleted ELSE now.deleted]

(* The partial unique index on the numbers of a group's live cards. *)
IndexAgrees(w) ==
  LET row == Written(w)
  IN  row.deleted \/ \A d \in Live \ {w.card} : card[d].number # row.number

(* The commit.  One that the index refuses is answered by an error 500.    *)
Commit(r) ==
  /\ r \in Pending
  /\ LET w == req[r]
     IN  IF IndexAgrees(w)
         THEN /\ card' = [c \in DOMAIN card \cup {w.card} |->
                            IF c = w.card THEN Written(w) ELSE card[c]]
              /\ req' = [s \in Requests |->
                           IF s \in Pending \ {r} THEN [req[s] EXCEPT !.overtaken = TRUE]
                           ELSE NoRequest]
         ELSE /\ req' = [req EXCEPT ![r] = NoRequest]
              /\ UNCHANGED card
  /\ UNCHANGED <<active, deleted, loaded, stray>>

(* soft_delete_group_card, and a tombstone for a card. *)
SoftDeleteCard(c) ==
  /\ c \in DOMAIN card
  /\ card' = [card EXCEPT ![c].deleted = TRUE]
  /\ UNCHANGED <<active, deleted, req, loaded, stray>>

(* A member leaves; his cards stay.  (soft_delete_member) *)
MemberLeaves(m) ==
  /\ m \in active
  /\ active' = active \ {m}
  /\ UNCHANGED <<deleted, card, req, loaded, stray>>

(* An edit that brings deleted_at, or a tombstone, marks the group alone.  *)
MarkGroup ==
  /\ deleted = "no"
  /\ deleted' = "marked"
  /\ UNCHANGED <<active, card, req, loaded, stray>>

(* soft_delete_group loads what the group holds, the cards last, ...       *)
SoftDeleteGroup(r) ==
  /\ r \notin Busy
  /\ loaded' = [s \in DOMAIN loaded \cup {r} |-> IF s = r THEN DOMAIN card ELSE loaded[s]]
  /\ stray' = stray \cup Inserting
  /\ UNCHANGED <<active, deleted, card, req>>

(* ... and commits the marks on the group and on what it has loaded.       *)
(* get_group lists every user with access again at the next request, so    *)
(* that there may be active members in a deleted group: here, the same.    *)
SoftDeleteGroupCommit(r) ==
  /\ r \in DOMAIN loaded
  /\ deleted' = "wiped"
  /\ card' = [c \in DOMAIN card |-> [card[c] EXCEPT !.deleted = @ \/ c \in loaded[r]]]
  /\ loaded' = [s \in DOMAIN loaded \ {r} |-> loaded[s]]
  /\ UNCHANGED <<active, req, stray>>

Next ==
  \/ \E r \in Requests :
       \/ \E c \in Cards, m \in Members, n \in Numbers, del \in BOOLEAN :
            CreateCard(r, c, m, n, del) \/ UpdateCard(r, c, m, n, del)
       \/ Commit(r)
       \/ SoftDeleteGroup(r) \/ SoftDeleteGroupCommit(r)
  \/ \E c \in Cards : SoftDeleteCard(c)
  \/ \E m \in Members : MemberLeaves(m)
  \/ MarkGroup

Spec == Init /\ [][Next]_vars
----------------------------------------------------------------------------
(* The index refuses a write only if another card was written since its    *)
(* checks: they leave nothing to it but races.                             *)
ChecksSuffice == \A r \in Pending : ~req[r].overtaken => IndexAgrees(req[r])

(* A deleted card stays deleted and never takes its number back, whichever *)
(* requests overlap: devices are told of a deletion once.                  *)
DeletedForGood == [][\A c \in DOMAIN card : card[c].deleted => card'[c].deleted]_vars

(* A group that was deleted with what it holds has no live card, except    *)
(* one that was being inserted while the group was being deleted.          *)
NothingLiveIsLeft == deleted = "wiped" => Live \subseteq stray
=============================================================================
