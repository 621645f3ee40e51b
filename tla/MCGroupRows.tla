---------------------------- MODULE MCGroupRows ----------------------------
(***************************************************************************)
(* The cards of a group, and what the deletion of a user takes out of one. *)
(* UserDeletion has its own, coarser view of cards; the steps of each are  *)
(* taken while the other is as it was at first, and each of the two is     *)
(* explored in full.                                                       *)
(*                                                                         *)
(* Two users, one group with up to four member rows, a card or settlement  *)
(* and an expense; two members, two cards, two numbers and two requests at *)
(* a time.                                                                 *)
(***************************************************************************)
EXTENDS UserDeletion, TLC

CONSTANTS Holders, Cards, Numbers, Requests, NoRequest

VARIABLES active, deleted, card, req, loaded, stray
cardVars == <<active, deleted, card, req, loaded, stray>>

C == INSTANCE GroupCards WITH Members <- Holders

NoCards ==
  /\ card = << >> /\ \A r \in Requests : req[r] = NoRequest
  /\ active = Holders /\ deleted = "no" /\ loaded = << >>

DeletionNext == NoCards /\ Next /\ UNCHANGED cardVars

NoGroups == users = Users /\ group = << >>

CardsNext == NoGroups /\ C!Next /\ UNCHANGED vars

RowsInit == Init /\ C!Init

RowsSpec == RowsInit /\ [][DeletionNext \/ CardsNext]_<<vars, cardVars>>

Symmetry == Permutations(Members) \cup Permutations(Holders) \cup Permutations(Numbers)
            \cup Permutations(Cards) \cup Permutations(Requests)

(* Only races are left to the unique index on card numbers. *)
ChecksSuffice == C!ChecksSuffice

(* A deleted group has no live card but one that was inserted meanwhile. *)
NothingLiveIsLeft == C!NothingLiveIsLeft

(* A deleted card stays deleted. *)
DeletedForGood == C!DeletedForGood
=============================================================================
