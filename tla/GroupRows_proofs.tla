-------------------------- MODULE GroupRows_proofs --------------------------
(***************************************************************************)
(* Proofs about the cards of a group (GroupCards) and about the deletion   *)
(* of a user (UserDeletion), for any sets of users, groups, members, rows, *)
(* numbers and requests, as MCGroupRows runs them side by side: a step of  *)
(* one leaves the variables of the other alone.                            *)
(***************************************************************************)
EXTENDS MCGroupRows, TLAPS

-----------------------------------------------------------------------------
\* Cards: what holds between the checks of a write and its commit.

(* Between two live cards no number is shared. *)
NumbersDiffer == \A c, d \in C!Live : c # d => card[c].number # card[d].number

(* A write never revives the card it read, and inserts a card that is new. *)
WriteFits(w) ==
  /\ w.old.deleted => w.new.deleted
  /\ IF w.insert THEN w.card \notin DOMAIN card ELSE w.card \in DOMAIN card

(* As long as no other card was written, the row has what was read but for *)
(* a deletion, and the index will agree.                                   *)
WriteIsFresh(w) ==
  /\ ~w.insert => /\ card[w.card].number = w.old.number
                  /\ w.old.deleted => card[w.card].deleted
  /\ C!IndexAgrees(w)

WritesFit ==
  /\ \A r \in C!Pending : WriteFits(req[r]) /\ (~req[r].overtaken => WriteIsFresh(req[r]))
  /\ \A r, s \in C!Pending :
       r # s /\ req[r].insert /\ req[s].insert => req[r].card # req[s].card

(* A card that is, or will be, live in a deleted group was inserted        *)
(* meanwhile; so is one that a deletion under way has not loaded.          *)
OnlyStrays ==
  /\ deleted = "wiped" => C!Live \subseteq stray /\ C!Inserting \subseteq stray
  /\ \A r \in DOMAIN loaded :
       C!Live \subseteq loaded[r] \cup stray /\ C!Inserting \subseteq stray

CardsInv ==
  /\ C!TypeOK /\ req \in [Requests -> C!Write \cup {NoRequest}]
  /\ NumbersDiffer
  /\ WritesFit
  /\ OnlyStrays
-----------------------------------------------------------------------------
\* What the steps on cards do.

LEMMA CardsInvInit == C!Init => CardsInv
<1> SUFFICES ASSUME C!Init PROVE CardsInv
  OBVIOUS
<1>1. DOMAIN card = {} /\ C!Live = {} /\ C!Pending = {} /\ C!Inserting = {}
  BY DEF C!Init, C!Live, C!Pending, C!Inserting
<1>2. C!TypeOK /\ req \in [Requests -> C!Write \cup {NoRequest}]
  BY <1>1 DEF C!Init, C!TypeOK
<1>3. DOMAIN loaded = {} /\ deleted = "no"
  BY DEF C!Init
<1> QED
  BY <1>1, <1>2, <1>3 DEF CardsInv, NumbersDiffer, WritesFit, OnlyStrays

(* The row a commit leaves, and that it has the right type. *)
LEMMA WrittenType ==
    ASSUME CardsInv, NEW r \in C!Pending
    PROVE  /\ req[r] \in C!Write
           /\ C!Written(req[r]) \in C!CardRow
           /\ req[r].card \in DOMAIN card /\ card[req[r].card].deleted => C!Written(req[r]).deleted
<1>1. req[r] \in C!Write /\ WriteFits(req[r])
  BY DEF CardsInv, C!Pending, WritesFit
<1>2. CASE req[r].insert
  BY <1>1, <1>2 DEF C!Write, C!CardRow, C!Written, WriteFits
<1>3. CASE ~req[r].insert
  <2>1. req[r].card \in DOMAIN card /\ card[req[r].card] \in C!CardRow
    BY <1>1, <1>3 DEF WriteFits, CardsInv, C!TypeOK
  <2> QED
    BY <1>1, <1>3, <2>1 DEF C!Write, C!CardRow, C!Written, WriteFits
<1> QED
  BY <1>2, <1>3

(* A write that begins: its facts hold, those of the others are as before. *)
LEMMA BeginKeepsCards ==
    ASSUME CardsInv, NEW r \in Requests, NEW c \in Cards, NEW insert \in BOOLEAN,
           NEW old \in C!CardRow, NEW new \in C!CardRow,
           r \notin C!Pending, C!Begin(r, c, insert, old, new),
           UNCHANGED <<active, deleted, card, loaded>>, stray \subseteq stray', stray' \subseteq Cards,
           LET w == [card |-> c, insert |-> insert, old |-> old, new |-> new, overtaken |-> FALSE]
           IN  WriteFits(w) /\ WriteIsFresh(w),
           insert => c \notin C!Inserting /\ deleted # "wiped" /\ (DOMAIN loaded # {} => c \in stray')
    PROVE  CardsInv'
<1> DEFINE w == [card |-> c, insert |-> insert, old |-> old, new |-> new, overtaken |-> FALSE]
<1>1. w \in C!Write
  BY DEF C!Write
<1>2. req' = [req EXCEPT ![r] = w]
  BY DEF C!Begin
<1>3. C!TypeOK' /\ req' \in [Requests -> C!Write \cup {NoRequest}]
  BY <1>1, <1>2 DEF CardsInv, C!TypeOK, C!CardRow, C!Write
<1>4. /\ req'[r] = w
      /\ \A s \in C!Pending' : s = r \/ (s \in C!Pending /\ req'[s] = req[s])
  BY <1>2 DEF CardsInv, C!Pending
<1>5. C!Live' = C!Live /\ NumbersDiffer'
  BY DEF CardsInv, C!Live, NumbersDiffer
<1>6. ASSUME NEW s \in C!Pending'
      PROVE  (WriteFits(req[s]) /\ (~req[s].overtaken => WriteIsFresh(req[s])))'
  <2>1. CASE s = r
    BY <1>4, <1>5, <2>1 DEF WriteFits, WriteIsFresh, C!IndexAgrees, C!Written
  <2>2. CASE s \in C!Pending /\ req'[s] = req[s]
    <3>1. WriteFits(req[s]) /\ (~req[s].overtaken => WriteIsFresh(req[s]))
      BY <2>2 DEF CardsInv, WritesFit
    <3> QED
      BY <1>5, <2>2, <3>1 DEF WriteFits, WriteIsFresh, C!IndexAgrees, C!Written
  <2> QED
    BY <1>4, <2>1, <2>2
<1>7. WritesFit'
  <2>1. \A s \in C!Pending : req[s].insert /\ insert => req[s].card # c
    BY DEF C!Inserting
  <2>2. \A s, t \in C!Pending' :
          s # t /\ req'[s].insert /\ req'[t].insert => req'[s].card # req'[t].card
    BY <1>4, <2>1 DEF CardsInv, WritesFit
  <2> QED
    BY <1>6, <2>2 DEF WritesFit
<1>8. OnlyStrays'
  <2>1. C!Inserting' \subseteq C!Inserting \cup (IF insert THEN {c} ELSE {})
    BY <1>4 DEF C!Inserting
  <2> QED
    BY <1>5, <2>1 DEF CardsInv, OnlyStrays
<1> QED
  BY <1>3, <1>5, <1>7, <1>8 DEF CardsInv

LEMMA CreateCardKeepsCards ==
    ASSUME CardsInv,
           NEW r \in Requests, NEW c \in Cards, NEW m \in Holders, NEW n \in Numbers,
           NEW del \in BOOLEAN, C!CreateCard(r, c, m, n, del)
    PROVE  CardsInv'
<1> DEFINE new == [member |-> m, number |-> n, deleted |-> del]
           w == [card |-> c, insert |-> TRUE, old |-> new, new |-> new, overtaken |-> FALSE]
<1>1. new \in C!CardRow
  BY DEF C!CardRow
<1>2. /\ r \notin C!Pending /\ c \notin DOMAIN card /\ c \notin C!Inserting
      /\ C!Free(n, m, c)
      /\ C!Begin(r, c, TRUE, new, new) /\ UNCHANGED <<active, deleted, card, loaded>>
      /\ stray' = IF DOMAIN loaded = {} THEN stray ELSE stray \cup {c}
  BY DEF C!CreateCard, C!Busy
<1>3. C!Written(w) = new
  BY DEF C!Written
<1>4. C!IndexAgrees(w)
  <2>1. w.card = c /\ new.number = n
    OBVIOUS
  <2>2. \A d \in C!Live \ {w.card} : card[d].number # C!Written(w).number
    BY <1>2, <1>3, <2>1 DEF C!Free
  <2> QED
    BY <2>2 DEF C!IndexAgrees
<1>5. WriteFits(w) /\ WriteIsFresh(w)
  BY <1>2, <1>4 DEF WriteFits, WriteIsFresh
<1>6. deleted # "wiped" /\ stray \subseteq stray' /\ stray' \subseteq Cards
  BY <1>2 DEF C!CreateCard, C!Open, CardsInv, C!TypeOK
<1> QED
  BY <1>1, <1>2, <1>5, <1>6, BeginKeepsCards

LEMMA UpdateCardKeepsCards ==
    ASSUME CardsInv,
           NEW r \in Requests, NEW c \in Cards, NEW m \in Holders, NEW n \in Numbers,
           NEW del \in BOOLEAN, C!UpdateCard(r, c, m, n, del)
    PROVE  CardsInv'
<1> DEFINE old == card[c]
           new == [member |-> m, number |-> n, deleted |-> old.deleted \/ del]
           w == [card |-> c, insert |-> FALSE, old |-> old, new |-> new, overtaken |-> FALSE]
<1>1. /\ r \notin C!Pending /\ c \in DOMAIN card
      /\ C!Begin(r, c, FALSE, old, new) /\ UNCHANGED <<active, deleted, card, loaded, stray>>
      /\ n # old.number => C!Free(n, m, c)
  BY DEF C!UpdateCard, C!Busy
<1>2. old \in C!CardRow /\ new \in C!CardRow
  BY <1>1 DEF CardsInv, C!TypeOK, C!CardRow
<1>3. C!Written(w).number = n /\ C!Written(w).deleted = (old.deleted \/ del)
  BY <1>2 DEF C!Written, C!CardRow
<1>4. C!IndexAgrees(w)
  <2>1. CASE n # old.number
    BY <1>1, <1>3, <2>1 DEF C!Free, C!IndexAgrees
  <2>2. CASE n = old.number /\ ~old.deleted
    <3>1. c \in C!Live
      BY <1>1, <2>2 DEF C!Live
    <3> QED
      BY <1>3, <2>2, <3>1 DEF C!IndexAgrees, CardsInv, NumbersDiffer
  <2>3. CASE old.deleted
    BY <1>2, <1>3, <2>3 DEF C!IndexAgrees, C!CardRow
  <2> QED
    BY <1>2, <2>1, <2>2, <2>3 DEF C!CardRow
<1>5. WriteFits(w) /\ WriteIsFresh(w)
  BY <1>1, <1>2, <1>4 DEF WriteFits, WriteIsFresh, C!CardRow
<1>6. stray' \subseteq Cards
  BY <1>1 DEF CardsInv, C!TypeOK
<1> QED
  BY <1>1, <1>2, <1>5, <1>6, BeginKeepsCards

(* A commit writes a row the index has agreed to, and overtakes the rest.  *)
LEMMA CommitKeepsCards ==
    ASSUME CardsInv, NEW r \in Requests, C!Commit(r)
    PROVE  CardsInv'
<1> DEFINE w == req[r]
<1>1. /\ r \in C!Pending /\ w \in C!Write /\ C!Written(w) \in C!CardRow /\ WriteFits(w)
      /\ UNCHANGED <<active, deleted, loaded, stray>>
  BY WrittenType DEF C!Commit, CardsInv, WritesFit
<1>2. CASE ~C!IndexAgrees(w)
  <2>1. req' = [req EXCEPT ![r] = NoRequest] /\ card' = card
    BY <1>2 DEF C!Commit
  <2>2. C!TypeOK' /\ req' \in [Requests -> C!Write \cup {NoRequest}]
    BY <1>1, <2>1 DEF CardsInv, C!TypeOK, C!CardRow, C!Write
  <2>3. \A s \in C!Pending' : s \in C!Pending /\ req'[s] = req[s]
    BY <2>1 DEF CardsInv, C!Pending
  <2>4. C!Live' = C!Live /\ NumbersDiffer'
    BY <2>1 DEF CardsInv, C!Live, NumbersDiffer
  <2>5. ASSUME NEW s \in C!Pending'
        PROVE  (WriteFits(req[s]) /\ (~req[s].overtaken => WriteIsFresh(req[s])))'
    <3>1. WriteFits(req[s]) /\ (~req[s].overtaken => WriteIsFresh(req[s]))
      BY <2>3 DEF CardsInv, WritesFit
    <3> QED
      BY <2>1, <2>3, <2>4, <3>1 DEF WriteFits, WriteIsFresh, C!IndexAgrees, C!Written
  <2>6. WritesFit'
    BY <2>3, <2>5 DEF CardsInv, WritesFit
  <2>7. OnlyStrays'
    <3>1. C!Inserting' \subseteq C!Inserting
      BY <2>3 DEF C!Inserting
    <3> QED
      BY <1>1, <2>4, <3>1 DEF CardsInv, OnlyStrays
  <2> QED
    BY <2>2, <2>4, <2>6, <2>7 DEF CardsInv
<1>3. CASE C!IndexAgrees(w)
  <2> DEFINE row == C!Written(w)
  <2>1. /\ card' = [c \in DOMAIN card \cup {w.card} |-> IF c = w.card THEN row ELSE card[c]]
        /\ req' = [s \in Requests |-> IF s \in C!Pending \ {r}
                                      THEN [req[s] EXCEPT !.overtaken = TRUE] ELSE NoRequest]
    BY <1>3 DEF C!Commit
  <2>2. /\ DOMAIN card' = DOMAIN card \cup {w.card}
        /\ card'[w.card] = row
        /\ \A c \in DOMAIN card : c # w.card => card'[c] = card[c]
    BY <2>1
  <2>3. \A s \in C!Pending' :
          /\ s \in C!Pending /\ s # r /\ req'[s] \in C!Write
          /\ req'[s].overtaken
          /\ req'[s].card = req[s].card /\ req'[s].insert = req[s].insert
          /\ req'[s].old = req[s].old /\ req'[s].new = req[s].new
    BY <2>1 DEF CardsInv, C!Pending, C!Write
  <2>4. C!TypeOK' /\ req' \in [Requests -> C!Write \cup {NoRequest}]
    <3>1. \A s \in Requests : req'[s] \in C!Write \cup {NoRequest}
      BY <2>1, <2>3 DEF C!Pending
    <3>2. req' \in [Requests -> C!Write \cup {NoRequest}]
      BY <2>1, <3>1
    <3>3. \A s \in Requests : req'[s] = NoRequest \/ req'[s] \in C!Write'
      BY <3>1 DEF C!Write, C!CardRow
    <3>4. w.card \in Cards
      BY <1>1 DEF C!Write
    <3>5. DOMAIN card' \subseteq Cards /\ \A c \in DOMAIN card' : card'[c] \in C!CardRow
      BY <1>1, <2>2, <3>4 DEF CardsInv, C!TypeOK
    <3>6. \A s \in DOMAIN loaded : loaded[s] \subseteq DOMAIN card'
      BY <2>2 DEF CardsInv, C!TypeOK
    <3> QED
      BY <1>1, <3>2, <3>3, <3>5, <3>6 DEF CardsInv, C!TypeOK, C!CardRow, C!Write
  <2>5. C!Live' \subseteq C!Live \cup {w.card}
    BY <2>2 DEF C!Live
  <2>6. NumbersDiffer'
    <3>1. \A c \in C!Live' : c # w.card => c \in C!Live /\ card'[c] = card[c]
      BY <2>2, <2>5 DEF C!Live
    <3>2. w.card \in C!Live' =>
            \A d \in C!Live' : d # w.card => card'[d].number # card'[w.card].number
      BY <1>3, <2>2, <3>1 DEF C!Live, C!IndexAgrees
    <3> QED
      BY <3>1, <3>2 DEF CardsInv, NumbersDiffer
  <2>7. WritesFit'
    <3>1. \A s \in C!Pending : s # r /\ req[s].insert => req[s].card # w.card
      BY <1>1 DEF CardsInv, WritesFit, WriteFits
    <3>2. ASSUME NEW s \in C!Pending'
          PROVE  WriteFits(req[s])'
      BY <2>2, <2>3, <3>1 DEF CardsInv, WritesFit, WriteFits
    <3> QED
      BY <2>3, <3>2 DEF CardsInv, WritesFit
  <2>8. OnlyStrays'
    <3>1. C!Inserting' \subseteq C!Inserting
      BY <2>3 DEF C!Inserting
    <3>2. w.card \in C!Live' => w.card \in C!Live \cup C!Inserting
      <4>1. CASE w.insert
        BY <1>1, <4>1 DEF C!Inserting
      <4>2. CASE ~w.insert
        BY <1>1, <2>2, <4>2, WrittenType DEF C!Live, WriteFits
      <4> QED
        BY <4>1, <4>2
    <3> QED
      BY <1>1, <2>5, <3>1, <3>2 DEF CardsInv, OnlyStrays
  <2> QED
    BY <2>4, <2>6, <2>7, <2>8 DEF CardsInv
<1> QED
  BY <1>2, <1>3

(* Deletions: cards stay as they are, but some are marked. *)
LEMMA DeletingKeepsCards ==
    ASSUME CardsInv, UNCHANGED <<active, req>>,
           DOMAIN card' = DOMAIN card,
           DOMAIN loaded' \subseteq Requests, \A r \in DOMAIN loaded' : loaded'[r] \subseteq DOMAIN card,
           \A c \in DOMAIN card :
             /\ card'[c] \in C!CardRow /\ card'[c].number = card[c].number
             /\ card[c].deleted => card'[c].deleted,
           deleted' \in {"no", "marked", "wiped"}, stray' \in SUBSET Cards, OnlyStrays'
    PROVE  CardsInv'
<1>1. C!TypeOK' /\ req' \in [Requests -> C!Write \cup {NoRequest}]
  BY DEF CardsInv, C!TypeOK, C!CardRow, C!Write
<1>2. C!Live' \subseteq C!Live /\ C!Pending' = C!Pending
  BY DEF C!Live, C!Pending
<1>3. NumbersDiffer'
  BY <1>2 DEF CardsInv, NumbersDiffer, C!Live
<1>4. ASSUME NEW s \in C!Pending
      PROVE  (WriteFits(req[s]) /\ (~req[s].overtaken => WriteIsFresh(req[s])))'
  <2>1. req[s] \in C!Write /\ WriteFits(req[s]) /\ (~req[s].overtaken => WriteIsFresh(req[s]))
    BY DEF CardsInv, WritesFit, C!Pending
  <2>2. WriteFits(req[s])'
    BY <2>1 DEF WriteFits
  <2>3. CASE ~req[s].overtaken /\ req[s].insert
    <3>1. C!Written(req[s]) = req[s].new /\ C!Written(req[s])' = req[s].new
      BY <2>3 DEF C!Written
    <3>2. \A d \in C!Live' : d \in DOMAIN card /\ card'[d].number = card[d].number
      BY <1>2 DEF C!Live
    <3>3. C!IndexAgrees(req[s])'
      BY <1>2, <2>1, <2>3, <3>1, <3>2 DEF WriteIsFresh, C!IndexAgrees
    <3> QED
      BY <2>2, <2>3, <3>3 DEF WriteIsFresh
  <2>4. CASE ~req[s].overtaken /\ ~req[s].insert
    <3> DEFINE w == req[s]
    <3>1. w.card \in DOMAIN card /\ card'[w.card] \in C!CardRow /\ card[w.card] \in C!CardRow
      BY <2>1, <2>4 DEF WriteFits, CardsInv, C!TypeOK
    <3>2. /\ card'[w.card].number = w.old.number
          /\ w.old.deleted => card'[w.card].deleted
      BY <2>1, <2>4, <3>1 DEF WriteIsFresh
    <3>3. /\ C!Written(w).number = C!Written(w)'.number
          /\ C!Written(w).deleted => C!Written(w)'.deleted
      BY <2>1, <2>4, <3>1, <3>2 DEF C!Written, C!Write, C!CardRow, WriteFits, WriteIsFresh
    <3>4. \A d \in C!Live' : d \in DOMAIN card /\ card'[d].number = card[d].number
      BY <1>2 DEF C!Live
    <3>5. C!IndexAgrees(w)'
      BY <1>2, <2>1, <2>4, <3>3, <3>4 DEF WriteIsFresh, C!IndexAgrees
    <3> QED
      BY <2>2, <2>4, <3>2, <3>5 DEF WriteIsFresh
  <2> QED
    BY <2>2, <2>3, <2>4
<1>5. WritesFit'
  BY <1>2, <1>4 DEF CardsInv, WritesFit
<1> QED
  BY <1>1, <1>3, <1>5 DEF CardsInv

LEMMA CardsInvStep == CardsInv /\ [C!Next]_cardVars => CardsInv'
<1> SUFFICES ASSUME CardsInv, [C!Next]_cardVars PROVE CardsInv'
  OBVIOUS
<1>1. ASSUME NEW r \in Requests, NEW c \in Cards, NEW m \in Holders, NEW n \in Numbers,
             NEW del \in BOOLEAN, C!CreateCard(r, c, m, n, del) \/ C!UpdateCard(r, c, m, n, del)
      PROVE  CardsInv'
  BY <1>1, CreateCardKeepsCards, UpdateCardKeepsCards
<1>2. ASSUME NEW r \in Requests, C!Commit(r) PROVE CardsInv'
  BY <1>2, CommitKeepsCards
<1>t. /\ DOMAIN loaded \subseteq Requests /\ \A r \in DOMAIN loaded : loaded[r] \subseteq DOMAIN card
      /\ stray \subseteq Cards /\ deleted \in {"no", "marked", "wiped"}
      /\ \A c \in DOMAIN card : card[c] \in C!CardRow
  BY DEF CardsInv, C!TypeOK
<1>3. ASSUME NEW c \in Cards, C!SoftDeleteCard(c) PROVE CardsInv'
  <2>1. /\ DOMAIN card' = DOMAIN card
        /\ \A d \in DOMAIN card :
             /\ card'[d] \in C!CardRow /\ card'[d].number = card[d].number
             /\ card[d].deleted => card'[d].deleted
    BY <1>3, <1>t DEF C!SoftDeleteCard, C!CardRow
  <2>2. UNCHANGED <<active, deleted, req, loaded, stray>>
    BY <1>3 DEF C!SoftDeleteCard
  <2>3. C!Live' \subseteq C!Live /\ C!Inserting' = C!Inserting
    BY <2>1, <2>2 DEF C!Live, C!Inserting, C!Pending
  <2>4. OnlyStrays'
    BY <2>2, <2>3 DEF CardsInv, OnlyStrays
  <2> QED
    BY <1>t, <2>1, <2>2, <2>4, DeletingKeepsCards
<1>4. ASSUME NEW m \in Holders, C!MemberLeaves(m) PROVE CardsInv'
  BY <1>4 DEF C!MemberLeaves, CardsInv, C!TypeOK, C!CardRow, C!Write, NumbersDiffer, C!Live,
              C!Pending, C!Inserting, WritesFit, WriteFits, WriteIsFresh, C!IndexAgrees,
              C!Written, OnlyStrays
<1>5. CASE C!MarkGroup
  <2>1. UNCHANGED <<active, card, req, loaded, stray>> /\ deleted' = "marked"
    BY <1>5 DEF C!MarkGroup
  <2>2. C!Live' = C!Live /\ C!Inserting' = C!Inserting
    BY <2>1 DEF C!Live, C!Inserting, C!Pending
  <2>3. OnlyStrays'
    BY <2>1, <2>2 DEF CardsInv, OnlyStrays
  <2> QED
    BY <1>t, <2>1, <2>3, DeletingKeepsCards
<1>6. ASSUME NEW r \in Requests, C!SoftDeleteGroup(r) PROVE CardsInv'
  <2>1. /\ UNCHANGED <<active, deleted, card, req>> /\ stray' = stray \cup C!Inserting
        /\ loaded' = [s \in DOMAIN loaded \cup {r} |-> IF s = r THEN DOMAIN card ELSE loaded[s]]
    BY <1>6 DEF C!SoftDeleteGroup
  <2>2. /\ DOMAIN loaded' = DOMAIN loaded \cup {r} /\ loaded'[r] = DOMAIN card
        /\ \A s \in DOMAIN loaded : s = r \/ loaded'[s] = loaded[s]
    BY <2>1
  <2>3. C!Live' = C!Live /\ C!Inserting' = C!Inserting /\ C!Live \subseteq DOMAIN card
    BY <2>1 DEF C!Live, C!Inserting, C!Pending
  <2>4. C!Inserting \subseteq Cards
    BY DEF C!Inserting, C!Pending, CardsInv, C!Write
  <2>5. OnlyStrays'
    BY <2>1, <2>2, <2>3 DEF CardsInv, OnlyStrays
  <2>6. \A s \in DOMAIN loaded' : loaded'[s] \subseteq DOMAIN card
    BY <1>t, <2>2
  <2> QED
    BY <1>t, <2>1, <2>2, <2>4, <2>5, <2>6, DeletingKeepsCards
<1>8. ASSUME NEW r \in Requests, C!SoftDeleteGroupCommit(r) PROVE CardsInv'
  <2>1. /\ r \in DOMAIN loaded /\ deleted' = "wiped" /\ UNCHANGED <<active, req, stray>>
        /\ card' = [c \in DOMAIN card |-> [card[c] EXCEPT !.deleted = @ \/ c \in loaded[r]]]
        /\ loaded' = [s \in DOMAIN loaded \ {r} |-> loaded[s]]
    BY <1>8 DEF C!SoftDeleteGroupCommit
  <2>2. /\ DOMAIN card' = DOMAIN card
        /\ \A d \in DOMAIN card :
             /\ card'[d] \in C!CardRow /\ card'[d].number = card[d].number
             /\ card'[d].deleted = (card[d].deleted \/ d \in loaded[r])
    BY <1>t, <2>1 DEF C!CardRow
  <2>3. C!Live' \subseteq C!Live \ loaded[r] /\ C!Inserting' = C!Inserting
    BY <2>1, <2>2 DEF C!Live, C!Inserting, C!Pending
  <2>4. /\ DOMAIN loaded' \subseteq DOMAIN loaded
        /\ \A s \in DOMAIN loaded' : loaded'[s] = loaded[s]
    BY <2>1
  <2>5. OnlyStrays'
    BY <2>1, <2>3, <2>4 DEF CardsInv, OnlyStrays
  <2> QED
    BY <1>t, <2>1, <2>2, <2>4, <2>5, DeletingKeepsCards
<1>7. CASE UNCHANGED cardVars
  BY <1>7 DEF cardVars, CardsInv, C!TypeOK, C!CardRow, C!Write, NumbersDiffer, C!Live,
              C!Pending, C!Inserting, WritesFit, WriteFits, WriteIsFresh, C!IndexAgrees,
              C!Written, OnlyStrays
<1> QED
  BY <1>1, <1>2, <1>3, <1>4, <1>5, <1>6, <1>7, <1>8 DEF C!Next

-----------------------------------------------------------------------------
\* Cards: theorems about RowsSpec.

LEMMA CardsInvariant == RowsSpec => []CardsInv
<1>1. RowsInit => CardsInv
  BY CardsInvInit DEF RowsInit
<1>2. CardsInv /\ [DeletionNext \/ CardsNext]_<<vars, cardVars>> => CardsInv'
  <2>1. [DeletionNext \/ CardsNext]_<<vars, cardVars>> => [C!Next]_cardVars
    BY DEF DeletionNext, CardsNext
  <2> QED
    BY <2>1, CardsInvStep
<1> QED
  BY <1>1, <1>2, PTL DEF RowsSpec

(* The index refuses a write only if another card was written since its    *)
(* checks (create_group_card, update_group_card).                          *)
THEOREM OnlyRacesAreRefused == RowsSpec => []ChecksSuffice
<1>1. CardsInv => ChecksSuffice
  BY DEF CardsInv, WritesFit, WriteIsFresh, ChecksSuffice, C!ChecksSuffice
<1> QED
  BY <1>1, CardsInvariant, PTL

(* After soft_delete_group there is no live card in the group, except one  *)
(* whose insertion has overlapped with it.                                 *)
THEOREM WipedGroupsHoldNothing == RowsSpec => []NothingLiveIsLeft
<1>1. CardsInv => NothingLiveIsLeft
  BY DEF CardsInv, OnlyStrays, NothingLiveIsLeft, C!NothingLiveIsLeft
<1> QED
  BY <1>1, CardsInvariant, PTL

(* No update, checked before the deletion or after it, revives a card. *)
THEOREM CardsAreDeletedForGood == RowsSpec => DeletedForGood
<1>1. CardsInv /\ [DeletionNext \/ CardsNext]_<<vars, cardVars>>
        => [\A c \in DOMAIN card : card[c].deleted => card'[c].deleted]_cardVars
  <2> SUFFICES ASSUME CardsInv, CardsNext, NEW c \in DOMAIN card, card[c].deleted
               PROVE  card'[c].deleted
    BY DEF DeletionNext
  <2>1. ASSUME NEW r \in Requests, C!Commit(r) PROVE card'[c].deleted
    BY <2>1, WrittenType DEF C!Commit
  <2>2. ASSUME NEW d \in Cards, C!SoftDeleteCard(d) PROVE card'[c].deleted
    BY <2>2 DEF C!SoftDeleteCard, CardsInv, C!TypeOK, C!CardRow
  <2>3. ASSUME NEW r \in Requests, C!SoftDeleteGroupCommit(r) PROVE card'[c].deleted
    BY <2>3 DEF C!SoftDeleteGroupCommit, CardsInv, C!TypeOK, C!CardRow
  <2>4. CASE UNCHANGED card
    BY <2>4
  <2>5. ASSUME NEW r \in Requests, NEW d \in Cards, NEW m \in Holders, NEW n \in Numbers, NEW del \in BOOLEAN,
               C!CreateCard(r, d, m, n, del) \/ C!UpdateCard(r, d, m, n, del)
        PROVE  UNCHANGED card
    BY <2>5 DEF C!CreateCard, C!UpdateCard
  <2>6. ASSUME NEW r \in Requests, C!SoftDeleteGroup(r) PROVE UNCHANGED card
    BY <2>6 DEF C!SoftDeleteGroup
  <2>7. ASSUME NEW m \in Holders, C!MemberLeaves(m) PROVE UNCHANGED card
    BY <2>7 DEF C!MemberLeaves
  <2>8. CASE C!MarkGroup
    BY <2>4, <2>8 DEF C!MarkGroup
  <2> QED
    BY <2>1, <2>2, <2>3, <2>4, <2>5, <2>6, <2>7, <2>8 DEF CardsNext, C!Next
<1> QED
  BY <1>1, CardsInvariant, PTL DEF RowsSpec, DeletedForGood, C!DeletedForGood, C!vars, cardVars

-----------------------------------------------------------------------------
\* The deletion of users: what rows may rely on.

(* No row names a user, a group or a member row that is no longer there,   *)
(* which the foreign keys see to as well; the induction goes by it.        *)
ReferencesHold ==
  /\ \A g \in DOMAIN group : group[g].owner \in users
  /\ \A p \in membership : p[1] \in DOMAIN group /\ p[2] \in users
  /\ \A m \in DOMAIN member :
       /\ member[m].group \in DOMAIN group
       /\ member[m].creator \in users /\ member[m].user \in users \cup {Nobody}
  /\ \A p \in DOMAIN paper :
       /\ paper[p].group \in DOMAIN group
       /\ paper[p].creator \in users /\ paper[p].names \subseteq DOMAIN member
  /\ \A e \in DOMAIN expense :
       /\ expense[e].group \in DOMAIN group
       /\ expense[e].creator \in users /\ expense[e].names \subseteq DOMAIN member

(* Ids are not used again. *)
NoneReturns == DOMAIN member \cap DOMAIN gone = {}

(* A card or settlement names members of its own group. *)
PapersFit == \A p \in DOMAIN paper : \A m \in paper[p].names : member[m].group = paper[p].group

(* So does an expense; the members it has lost were added by users who are *)
(* no more.                                                                *)
ExpensesFit ==
  \A e \in DOMAIN expense :
    /\ expense[e].names \subseteq expense[e].made
    /\ \A m \in expense[e].made :
         IF m \in expense[e].names THEN m \in DOMAIN member /\ member[m].group = expense[e].group
         ELSE m \in DOMAIN gone /\ gone[m] \notin users

DeletionInv == TypeOK /\ ReferencesHold /\ NoneReturns /\ PapersFit /\ ExpensesFit

LEMMA DeletionInvInit == Init => DeletionInv
<1> SUFFICES ASSUME Init PROVE DeletionInv
  OBVIOUS
<1>1. /\ DOMAIN group = {} /\ DOMAIN member = {} /\ DOMAIN paper = {} /\ DOMAIN expense = {}
      /\ DOMAIN gone = {} /\ membership = {} /\ users = Users
  BY DEF Init
<1> QED
  BY <1>1 DEF DeletionInv, TypeOK, ReferencesHold, NoneReturns, PapersFit, ExpensesFit

(* get_group adds rows for users who have access, and changes no other. *)
LEMMA HealedFacts ==
    ASSUME DeletionInv, NEW g \in DOMAIN group, NEW table \in Healed(g)
    PROVE  /\ DOMAIN member \subseteq DOMAIN table
           /\ \A m \in DOMAIN member : table[m] = member[m]
           /\ \A m \in DOMAIN table \ DOMAIN member :
                /\ m \in NewMembers
                /\ table[m] \in MemberRow /\ table[m].group = g
                /\ table[m].user \in users /\ table[m].creator \in users
<1>1. PICK ids \in Injection(Unlisted(g), NewMembers) :
        table = [m \in DOMAIN member \cup Range(ids) |->
                   IF m \in DOMAIN member THEN member[m]
                   ELSE [group |-> g, user |-> CHOOSE u \in DOMAIN ids : ids[u] = m,
                         creator |-> group[g].owner, deleted |-> FALSE]]
  BY DEF Healed
<1>2. ids \in [Unlisted(g) -> NewMembers] /\ Range(ids) \subseteq NewMembers
  BY DEF Injection, Range
<1>3. g \in Groups /\ group[g].owner \in users /\ users \subseteq Users
  BY DEF DeletionInv, TypeOK, ReferencesHold, GroupRow
<1>4. ASSUME NEW m \in DOMAIN table \ DOMAIN member
      PROVE  /\ m \in NewMembers
             /\ table[m] \in MemberRow /\ table[m].group = g
             /\ table[m].user \in users /\ table[m].creator \in users
  <2> DEFINE v == CHOOSE u \in DOMAIN ids : ids[u] = m
  <2>1. m \in Range(ids)
    BY <1>1
  <2>2. \E u \in DOMAIN ids : ids[u] = m
    BY <2>1 DEF Range
  <2>3. v \in Unlisted(g)
    BY <1>2, <2>2
  <2>4. v \in users
    BY <2>3 DEF Unlisted
  <2>5. table[m] = [group |-> g, user |-> v, creator |-> group[g].owner, deleted |-> FALSE]
    BY <1>1
  <2> HIDE DEF v
  <2> QED
    BY <1>2, <1>3, <2>1, <2>4, <2>5 DEF MemberRow
<1> QED
  BY <1>1, <1>4

-----------------------------------------------------------------------------
\* Steps that delete no user.

(* What they do to the tables, put together. *)
TablesGrow ==
  /\ UNCHANGED <<users, gone>>
  /\ DOMAIN group \subseteq DOMAIN group' /\ DOMAIN group' \subseteq Groups
  /\ \A g \in DOMAIN group' : group'[g] \in GroupRow /\ group'[g].owner \in users
  /\ DOMAIN member \subseteq DOMAIN member'
  /\ \A m \in DOMAIN member : member'[m].group = member[m].group
  /\ \A m \in DOMAIN member' :
       /\ m \in DOMAIN member \/ m \in NewMembers
       /\ member'[m] \in MemberRow /\ member'[m].group \in DOMAIN group'
       /\ member'[m].creator \in users /\ member'[m].user \in users \cup {Nobody}
  /\ membership' \subseteq (DOMAIN group') \X users

LEMMA GrowingKeepsMembers ==
    ASSUME DeletionInv, TablesGrow
    PROVE  /\ NoneReturns'
           /\ users' \subseteq Users /\ DOMAIN group' \subseteq Groups
           /\ \A g \in DOMAIN group' : group'[g] \in GroupRow /\ group'[g].owner \in users'
           /\ DOMAIN member' \subseteq Members /\ membership' \subseteq Groups \X Users
           /\ \A p \in membership' : p[1] \in DOMAIN group' /\ p[2] \in users'
<1>1. /\ users' = users /\ users \subseteq Users /\ gone' = gone
      /\ DOMAIN member \subseteq Members /\ DOMAIN group' \subseteq Groups
  BY DEF DeletionInv, TablesGrow, TypeOK
<1>2. DOMAIN member' \subseteq Members /\ NoneReturns'
  BY <1>1 DEF DeletionInv, TablesGrow, NoneReturns, NewMembers
<1>3. \A p \in membership' : p \in Groups \X Users /\ p[1] \in DOMAIN group' /\ p[2] \in users'
  <2>1. \A p \in (DOMAIN group') \X users : p \in Groups \X Users /\ p[1] \in DOMAIN group' /\ p[2] \in users
    BY <1>1
  <2> QED
    BY <1>1, <2>1 DEF TablesGrow
<1> QED
  BY <1>1, <1>2, <1>3 DEF TablesGrow

(* A card, settlement or expense that is saved, and the tables around it.  *)
Saves(old, new) ==
  /\ DOMAIN old \subseteq DOMAIN new
  /\ \A i \in DOMAIN new :
       \/ i \in DOMAIN old /\ new[i] = old[i]
       \/ /\ new[i] \in PaperRow /\ new[i].made = new[i].names
          /\ new[i].group \in DOMAIN group' /\ new[i].creator \in users
          /\ \A m \in new[i].names : m \in DOMAIN member' /\ member'[m].group = new[i].group

LEMMA GrowingKeepsRows ==
    ASSUME DeletionInv, TablesGrow,
           DOMAIN paper' \subseteq Papers, Saves(paper, paper'),
           DOMAIN expense' \subseteq Expenses, Saves(expense, expense')
    PROVE  DeletionInv'
<1>1. /\ UNCHANGED <<users, gone>> /\ DOMAIN group \subseteq DOMAIN group'
      /\ DOMAIN member \subseteq DOMAIN member'
      /\ \A m \in DOMAIN member : member'[m].group = member[m].group
  BY DEF TablesGrow
<1>2. /\ \A p \in DOMAIN paper : paper[p] \in PaperRow /\ paper[p].group \in DOMAIN group
                               /\ paper[p].creator \in users
                               /\ \A m \in paper[p].names :
                                    m \in DOMAIN member /\ member[m].group = paper[p].group
      /\ \A e \in DOMAIN expense : expense[e] \in PaperRow /\ expense[e].group \in DOMAIN group
                                 /\ expense[e].creator \in users
  BY DEF DeletionInv, TypeOK, ReferencesHold, PapersFit
<1>3. \A p \in DOMAIN paper' : /\ paper'[p] \in PaperRow /\ paper'[p].group \in DOMAIN group'
                              /\ paper'[p].creator \in users
                              /\ \A m \in paper'[p].names :
                                   m \in DOMAIN member' /\ member'[m].group = paper'[p].group
  BY <1>1, <1>2 DEF Saves
<1>4. ExpensesFit'
  <2> SUFFICES ASSUME NEW e \in DOMAIN expense'
               PROVE  /\ expense'[e].names \subseteq expense'[e].made
                      /\ \A m \in expense'[e].made :
                           IF m \in expense'[e].names
                           THEN m \in DOMAIN member' /\ member'[m].group = expense'[e].group
                           ELSE m \in DOMAIN gone /\ gone[m] \notin users
    BY <1>1 DEF ExpensesFit
  <2>1. CASE e \in DOMAIN expense /\ expense'[e] = expense[e]
    BY <1>1, <2>1 DEF DeletionInv, ExpensesFit
  <2>2. CASE ~(e \in DOMAIN expense /\ expense'[e] = expense[e])
    BY <2>2 DEF Saves
  <2> QED
    BY <2>1, <2>2
<1>5. \A e \in DOMAIN expense' : /\ expense'[e] \in PaperRow
                                /\ expense'[e].group \in DOMAIN group'
                                /\ expense'[e].creator \in users
                                /\ expense'[e].names \subseteq DOMAIN member'
  <2>1. \A e \in DOMAIN expense' : expense'[e].names \subseteq DOMAIN member'
    BY <1>4 DEF ExpensesFit
  <2> QED
    BY <1>1, <1>2, <2>1 DEF Saves
<1>6. TypeOK'
  BY <1>1, <1>3, <1>5, GrowingKeepsMembers DEF TablesGrow, TypeOK, DeletionInv, GroupRow, MemberRow,
                                               PaperRow
<1>7. ReferencesHold'
  BY <1>1, <1>3, <1>5, GrowingKeepsMembers DEF TablesGrow, ReferencesHold
<1>8. PapersFit'
  BY <1>3 DEF PapersFit
<1> QED
  BY <1>4, <1>6, <1>7, <1>8, GrowingKeepsMembers DEF DeletionInv

(* Who may open a group is a user, and the group is there. *)
LEMMA AccessFacts ==
    ASSUME DeletionInv, NEW u, NEW g, CanAccess(u, g)
    PROVE  u \in users /\ g \in DOMAIN group /\ g \in Groups /\ u \in Users
BY DEF DeletionInv, TypeOK, ReferencesHold, CanAccess

LEMMA NothingIsSaved == Saves(paper, paper) /\ Saves(expense, expense)
BY DEF Saves

LEMMA MembersAsTheyAre ==
    ASSUME DeletionInv
    PROVE  \A m \in DOMAIN member :
             /\ member[m] \in MemberRow /\ member[m].group \in DOMAIN group
             /\ member[m].creator \in users /\ member[m].user \in users \cup {Nobody}
BY DEF DeletionInv, TypeOK, ReferencesHold

LEMMA MembershipAsItIs == DeletionInv => membership \subseteq (DOMAIN group) \X users
<1> SUFFICES ASSUME DeletionInv, NEW p \in membership PROVE p \in (DOMAIN group) \X users
  OBVIOUS
<1>1. p \in Groups \X Users /\ p[1] \in DOMAIN group /\ p[2] \in users
  BY DEF DeletionInv, TypeOK, ReferencesHold
<1> QED
  BY <1>1

(* A group is read, and members are added to it, or marked. *)
LEMMA ReadingGrows ==
    ASSUME DeletionInv, UNCHANGED <<users, group, gone>>,
           NEW g \in DOMAIN group, NEW table \in Healed(g),
           DOMAIN member' = DOMAIN table,
           \A m \in DOMAIN table : /\ member'[m] \in MemberRow /\ member'[m].group = table[m].group
                                  /\ member'[m].creator = table[m].creator
                                  /\ member'[m].user = table[m].user,
           membership' \subseteq (DOMAIN group) \X users
    PROVE  TablesGrow
<1>1. \A i \in DOMAIN group : group[i] \in GroupRow /\ group[i].owner \in users /\ i \in Groups
  BY DEF DeletionInv, TypeOK, ReferencesHold
<1>2. /\ DOMAIN member \subseteq DOMAIN member'
      /\ \A m \in DOMAIN member : member'[m].group = member[m].group
  BY HealedFacts
<1>3. \A m \in DOMAIN member' :
        /\ m \in DOMAIN member \/ m \in NewMembers
        /\ member'[m].group \in DOMAIN group
        /\ member'[m].creator \in users /\ member'[m].user \in users \cup {Nobody}
  BY HealedFacts, MembersAsTheyAre
<1> QED
  BY <1>1, <1>2, <1>3 DEF TablesGrow

LEMMA HealingGrows ==
    ASSUME DeletionInv, UNCHANGED <<users, group, gone, membership>>,
           NEW g \in DOMAIN group, member' \in Healed(g)
    PROVE  TablesGrow
<1>1. \A m \in DOMAIN member' : member'[m] \in MemberRow
  BY HealedFacts, MembersAsTheyAre
<1> QED
  BY <1>1, ReadingGrows, MembershipAsItIs

LEMMA CreateGroupKeepsRows ==
    ASSUME DeletionInv, NEW u \in Users, NEW g \in Groups, NEW m \in Members, CreateGroup(u, g, m)
    PROVE  DeletionInv'
<1> DEFINE first == [group |-> g, user |-> u, creator |-> u, deleted |-> FALSE]
           new == [owner |-> u, deleted |-> FALSE]
<1>1. /\ u \in users /\ g \notin DOMAIN group /\ m \in NewMembers
      /\ group' = Put(group, g, new) /\ member' = Put(member, m, first)
      /\ membership' = membership \cup {<<g, u>>}
      /\ UNCHANGED <<users, paper, expense, gone>>
  BY DEF CreateGroup
<1>2. /\ DOMAIN group' = DOMAIN group \cup {g} /\ group'[g] = new
      /\ \A i \in DOMAIN group : group'[i] = group[i]
  BY <1>1 DEF Put
<1>3. /\ DOMAIN member' = DOMAIN member \cup {m} /\ member'[m] = first
      /\ \A i \in DOMAIN member : member'[i] = member[i]
  BY <1>1 DEF Put, NewMembers
<1>4. /\ new \in GroupRow /\ new.owner = u
      /\ first \in MemberRow /\ first.group = g /\ first.creator = u /\ first.user = u
  BY DEF GroupRow, MemberRow
<1> HIDE DEF new, first
<1>5. /\ DOMAIN group' \subseteq Groups
      /\ \A i \in DOMAIN group' : group'[i] \in GroupRow /\ group'[i].owner \in users
  BY <1>1, <1>2, <1>4 DEF DeletionInv, TypeOK, ReferencesHold
<1>6. membership' \subseteq (DOMAIN group') \X users
  BY <1>1, <1>2, MembershipAsItIs
<1>7. TablesGrow
  BY <1>1, <1>2, <1>3, <1>4, <1>5, <1>6, MembersAsTheyAre DEF TablesGrow
<1> QED
  BY <1>1, <1>7, NothingIsSaved, GrowingKeepsRows DEF DeletionInv, TypeOK

LEMMA AddMemberKeepsRows ==
    ASSUME DeletionInv, NEW u \in Users, NEW g \in Groups, NEW v \in Users, NEW m \in Members,
           AddMember(u, g, v, m)
    PROVE  DeletionInv'
<1> DEFINE new == [group |-> g, user |-> v, creator |-> u, deleted |-> FALSE]
<1>1. /\ CanAccess(u, g) /\ v \in users /\ membership' = membership \cup {<<g, v>>}
      /\ UNCHANGED <<users, group, paper, expense, gone>>
  BY DEF AddMember
<1>2. PICK table \in Healed(g) : m \in NewMembers \ DOMAIN table /\ member' = Put(table, m, new)
  BY DEF AddMember
<1>3. u \in users /\ g \in DOMAIN group
  BY <1>1, AccessFacts
<1>4. /\ DOMAIN member' = DOMAIN table \cup {m} /\ member'[m] = new
      /\ \A i \in DOMAIN table : member'[i] = table[i]
  BY <1>2 DEF Put
<1>5. new \in MemberRow /\ new.group = g /\ new.creator = u /\ new.user = v
  BY DEF MemberRow
<1> HIDE DEF new
<1>6. \A i \in DOMAIN group : group[i] \in GroupRow /\ group[i].owner \in users /\ i \in Groups
  BY DEF DeletionInv, TypeOK, ReferencesHold
<1>7. membership' \subseteq (DOMAIN group) \X users
  BY <1>1, <1>3, MembershipAsItIs
<1>8. /\ DOMAIN member \subseteq DOMAIN member'
      /\ \A i \in DOMAIN member : member'[i].group = member[i].group
  BY <1>3, <1>4, HealedFacts
<1>9. \A i \in DOMAIN member' :
        /\ i \in DOMAIN member \/ i \in NewMembers
        /\ member'[i] \in MemberRow /\ member'[i].group \in DOMAIN group
        /\ member'[i].creator \in users /\ member'[i].user \in users \cup {Nobody}
  BY <1>1, <1>2, <1>3, <1>4, <1>5, HealedFacts, MembersAsTheyAre
<1>10. TablesGrow
  BY <1>1, <1>6, <1>7, <1>8, <1>9 DEF TablesGrow
<1> QED
  BY <1>1, <1>10, NothingIsSaved, GrowingKeepsRows DEF DeletionInv, TypeOK

LEMMA SoftDeleteMemberKeepsRows ==
    ASSUME DeletionInv, NEW u \in Users, NEW m \in Members, SoftDeleteMember(u, m)
    PROVE  DeletionInv'
<1>1. /\ m \in DOMAIN member /\ member' = [member EXCEPT ![m].deleted = TRUE]
      /\ membership' \subseteq membership
      /\ UNCHANGED <<users, group, paper, expense, gone>>
  BY DEF SoftDeleteMember
<1>2. /\ DOMAIN member' = DOMAIN member
      /\ \A i \in DOMAIN member :
           /\ member'[i] \in MemberRow /\ member'[i].group = member[i].group
           /\ member'[i].creator = member[i].creator /\ member'[i].user = member[i].user
  BY <1>1, MembersAsTheyAre DEF MemberRow
<1>3. \A i \in DOMAIN group : group[i] \in GroupRow /\ group[i].owner \in users /\ i \in Groups
  BY DEF DeletionInv, TypeOK, ReferencesHold
<1>4. TablesGrow
  BY <1>1, <1>2, <1>3, MembersAsTheyAre, MembershipAsItIs DEF TablesGrow
<1> QED
  BY <1>1, <1>4, NothingIsSaved, GrowingKeepsRows DEF DeletionInv, TypeOK

LEMMA SoftDeleteGroupKeepsRows ==
    ASSUME DeletionInv, NEW u \in Users, NEW g \in Groups, SoftDeleteGroup(u, g)
    PROVE  DeletionInv'
<1>1. /\ CanAccess(u, g) /\ group' = [group EXCEPT ![g].deleted = TRUE]
      /\ UNCHANGED <<users, paper, expense, membership, gone>>
  BY DEF SoftDeleteGroup
<1>2. PICK table \in Healed(g) :
        member' = [m \in DOMAIN table |->
                     IF table[m].group = g THEN [table[m] EXCEPT !.deleted = TRUE] ELSE table[m]]
  BY DEF SoftDeleteGroup
<1>3. g \in DOMAIN group
  BY <1>1, AccessFacts
<1>4. /\ DOMAIN group' = DOMAIN group
      /\ \A i \in DOMAIN group : group'[i] \in GroupRow /\ group'[i].owner \in users /\ i \in Groups
  BY <1>1 DEF DeletionInv, TypeOK, ReferencesHold, GroupRow
<1>5. \A i \in DOMAIN table :
        /\ table[i] \in MemberRow /\ table[i].group \in DOMAIN group
        /\ table[i].creator \in users /\ table[i].user \in users \cup {Nobody}
        /\ i \in DOMAIN member \/ i \in NewMembers
  BY <1>3, HealedFacts, MembersAsTheyAre
<1>6. /\ DOMAIN member' = DOMAIN table
      /\ \A i \in DOMAIN table :
           /\ member'[i] \in MemberRow /\ member'[i].group = table[i].group
           /\ member'[i].creator = table[i].creator /\ member'[i].user = table[i].user
  BY <1>2, <1>5 DEF MemberRow
<1>7. /\ DOMAIN member \subseteq DOMAIN member'
      /\ \A i \in DOMAIN member : member'[i].group = member[i].group
  BY <1>3, <1>6, HealedFacts
<1>8. TablesGrow
  BY <1>1, <1>4, <1>5, <1>6, <1>7, MembershipAsItIs DEF TablesGrow
<1> QED
  BY <1>1, <1>8, NothingIsSaved, GrowingKeepsRows DEF DeletionInv, TypeOK

(* Saving a row with active members of its group. *)
LEMMA SavedFacts ==
    ASSUME DeletionInv, TablesGrow,
           NEW table, \A i \in DOMAIN table : table[i] \in PaperRow /\ table[i].creator \in users,
           NEW u, NEW g \in DOMAIN group, NEW id, MaySave(table, u, g, id),
           NEW names \in SUBSET Members, names \subseteq ActiveMembers(member', g)
    PROVE  /\ DOMAIN Saved(table, u, g, id, names) = DOMAIN table \cup {id}
           /\ Saves(table, Saved(table, u, g, id, names))
<1> DEFINE new == [group |-> g, names |-> names, made |-> names,
                   creator |-> IF id \in DOMAIN table THEN table[id].creator ELSE u]
<1>1. Saved(table, u, g, id, names) = Put(table, id, new)
  BY DEF Saved
<1>2. u \in users /\ users \subseteq Users /\ g \in Groups /\ g \in DOMAIN group'
  BY AccessFacts DEF MaySave, DeletionInv, TypeOK, TablesGrow
<1>3. new \in PaperRow /\ new.creator \in users
  BY <1>2 DEF PaperRow
<1>4. \A m \in names : m \in DOMAIN member' /\ member'[m].group = g
  BY DEF ActiveMembers, In
<1> HIDE DEF new
<1>5. new.made = new.names /\ new.group = g /\ new.names = names
  BY DEF new
<1>6. LET saved == Saved(table, u, g, id, names)
      IN  /\ DOMAIN saved = DOMAIN table \cup {id} /\ saved[id] = new
          /\ \A i \in DOMAIN table : i # id => saved[i] = table[i]
  BY <1>1 DEF Put
<1> QED
  BY <1>2, <1>3, <1>4, <1>5, <1>6 DEF Saves

LEMMA SavePaperKeepsRows ==
    ASSUME DeletionInv, NEW u \in Users, NEW g \in Groups, NEW p \in Papers,
           NEW m \in Members, NEW n \in Members, SavePaper(u, g, p, m, n)
    PROVE  DeletionInv'
<1>1. /\ MaySave(paper, u, g, p) /\ member' \in Healed(g)
      /\ {m, n} \subseteq ActiveMembers(member', g)
      /\ paper' = Saved(paper, u, g, p, {m, n})
      /\ UNCHANGED <<users, group, expense, membership, gone>>
  BY DEF SavePaper
<1>2. g \in DOMAIN group
  BY <1>1, AccessFacts DEF MaySave
<1>3. TablesGrow
  BY <1>1, <1>2, HealingGrows
<1>4. \A i \in DOMAIN paper : paper[i] \in PaperRow /\ paper[i].creator \in users
  BY DEF DeletionInv, TypeOK, ReferencesHold
<1>5. DOMAIN paper' = DOMAIN paper \cup {p} /\ Saves(paper, paper')
  <2>1. {m, n} \in SUBSET Members
    OBVIOUS
  <2>2. /\ DOMAIN Saved(paper, u, g, p, {m, n}) = DOMAIN paper \cup {p}
        /\ Saves(paper, Saved(paper, u, g, p, {m, n}))
    BY <1>1, <1>2, <1>3, <1>4, <2>1, SavedFacts
  <2> QED
    BY <1>1, <2>2
<1> QED
  BY <1>1, <1>3, <1>5, NothingIsSaved, GrowingKeepsRows DEF DeletionInv, TypeOK

LEMMA SaveExpenseKeepsRows ==
    ASSUME DeletionInv, NEW u \in Users, NEW g \in Groups, NEW e \in Expenses,
           NEW names \in SUBSET Members, SaveExpense(u, g, e, names)
    PROVE  DeletionInv'
<1>1. /\ MaySave(expense, u, g, e) /\ member' \in Healed(g)
      /\ names \subseteq ActiveMembers(member', g)
      /\ expense' = Saved(expense, u, g, e, names)
      /\ UNCHANGED <<users, group, paper, membership, gone>>
  BY DEF SaveExpense
<1>2. g \in DOMAIN group
  BY <1>1, AccessFacts DEF MaySave
<1>3. TablesGrow
  BY <1>1, <1>2, HealingGrows
<1>4. \A i \in DOMAIN expense : expense[i] \in PaperRow /\ expense[i].creator \in users
  BY DEF DeletionInv, TypeOK, ReferencesHold
<1>5. DOMAIN expense' = DOMAIN expense \cup {e} /\ Saves(expense, expense')
  <2>1. /\ DOMAIN Saved(expense, u, g, e, names) = DOMAIN expense \cup {e}
        /\ Saves(expense, Saved(expense, u, g, e, names))
    BY <1>1, <1>2, <1>3, <1>4, SavedFacts
  <2> QED
    BY <1>1, <2>1
<1> QED
  BY <1>1, <1>3, <1>5, NothingIsSaved, GrowingKeepsRows DEF DeletionInv, TypeOK

-----------------------------------------------------------------------------
\* The step that deletes a user, and the theorems.

LEMMA DeleteUserKeepsRows ==
    ASSUME DeletionInv, NEW u \in Users, DeleteUser(u)
    PROVE  DeletionInv'
<1> DEFINE own == {g \in DOMAIN group : group[g].owner = u}
           lost == AddedBy(u) \cup In(member, own)
           restPapers == Without(paper, Of(paper, u) \cup In(paper, own))
           restExpenses == Without(expense, Of(expense, u) \cup In(expense, own))
\* What is left of each table.
<1>1. /\ users' = users \ {u} /\ ~Held(u)
      /\ group' = Without(group, own)
      /\ membership' = {p \in membership : p[1] \notin own /\ p[2] # u}
      /\ paper' = restPapers
      /\ expense' = [e \in DOMAIN restExpenses |-> [restExpenses[e] EXCEPT !.names = @ \ lost]]
      /\ member' = Unlinked(Without(member, lost), u)
      /\ gone' = [m \in DOMAIN gone \cup lost |-> IF m \in lost THEN member[m].creator ELSE gone[m]]
  <2>1. expense' = [e \in DOMAIN restExpenses |-> [expense[e] EXCEPT !.names = @ \ lost]]
    BY DEF DeleteUser
  <2>2. \A e \in DOMAIN restExpenses : restExpenses[e] = expense[e]
    BY DEF Without, Restrict
  <2> QED
    BY <2>1, <2>2 DEF DeleteUser
<1>2. /\ DOMAIN group' = DOMAIN group \ own
      /\ \A g \in DOMAIN group' : group'[g] = group[g] /\ group[g].owner # u
  BY <1>1 DEF Without, Restrict
<1>3. \A m \in DOMAIN member : m \in lost <=> member[m].creator = u \/ member[m].group \in own
  BY DEF AddedBy, Of, In
<1>4. lost \subseteq DOMAIN member
  BY DEF AddedBy, Of, In
<1>5. \A m \in DOMAIN member : /\ member[m] \in MemberRow /\ member[m].group \in DOMAIN group
                             /\ member[m].creator \in users
                             /\ member[m].user \in users \cup {Nobody}
  BY MembersAsTheyAre
<1>6. /\ DOMAIN member' = DOMAIN member \ lost
      /\ \A m \in DOMAIN member' :
           /\ member'[m] \in MemberRow /\ member'[m].group = member[m].group
           /\ member'[m].group \in DOMAIN group'
           /\ member'[m].creator \in users' /\ member'[m].user \in users' \cup {Nobody}
  <2>1. /\ DOMAIN member' = DOMAIN member \ lost
        /\ \A m \in DOMAIN member' :
             member'[m] = IF member[m].user = u THEN [member[m] EXCEPT !.user = Nobody] ELSE member[m]
    BY <1>1, <1>4 DEF Unlinked, Without, Restrict
  <2>2. ASSUME NEW m \in DOMAIN member'
        PROVE  /\ member'[m] \in MemberRow /\ member'[m].group = member[m].group
               /\ member'[m].creator = member[m].creator
               /\ member'[m].user \in users' \cup {Nobody}
    BY <1>1, <1>5, <2>1 DEF MemberRow
  <2>3. \A m \in DOMAIN member' : member[m].creator # u /\ member[m].group \notin own
    BY <1>3, <2>1
  <2> QED
    BY <1>1, <1>2, <1>5, <2>1, <2>2, <2>3
<1>7. /\ DOMAIN paper' = DOMAIN paper \ (Of(paper, u) \cup In(paper, own))
      /\ \A p \in DOMAIN paper' : /\ paper'[p] = paper[p] /\ p \in DOMAIN paper
                               /\ paper[p].creator # u /\ paper[p].group \notin own
  BY <1>1 DEF Without, Restrict, Of, In
<1>8. /\ DOMAIN expense' = DOMAIN expense \ (Of(expense, u) \cup In(expense, own))
      /\ \A e \in DOMAIN expense' : /\ expense'[e] = [expense[e] EXCEPT !.names = @ \ lost]
                                 /\ e \in DOMAIN expense
                                 /\ expense[e].creator # u /\ expense[e].group \notin own
  BY <1>1 DEF Without, Restrict, Of, In
<1>9. /\ DOMAIN gone' = DOMAIN gone \cup lost
      /\ \A m \in lost : gone'[m] = member[m].creator
      /\ \A m \in DOMAIN gone \ lost : gone'[m] = gone[m]
  BY <1>1
<1> HIDE DEF own, lost, restPapers, restExpenses
\* The parts of the invariant.
<1>10. NoneReturns'
  BY <1>6, <1>9 DEF DeletionInv, NoneReturns
<1>11. \A p \in DOMAIN paper' :
         /\ paper'[p] \in PaperRow /\ paper'[p].group \in DOMAIN group'
         /\ paper'[p].creator \in users'
         /\ \A m \in paper'[p].names : m \in DOMAIN member' /\ member'[m].group = paper'[p].group
  <2> SUFFICES ASSUME NEW p \in DOMAIN paper'
               PROVE  /\ paper[p] \in PaperRow /\ paper[p].group \in DOMAIN group'
                      /\ paper[p].creator \in users'
                      /\ \A m \in paper[p].names :
                           m \in DOMAIN member' /\ member'[m].group = paper[p].group
    BY <1>7
  <2>1. /\ paper[p] \in PaperRow /\ paper[p].group \in DOMAIN group /\ paper[p].creator \in users
        /\ \A m \in paper[p].names : m \in DOMAIN member /\ member[m].group = paper[p].group
    BY <1>7 DEF DeletionInv, TypeOK, ReferencesHold, PapersFit
  <2>2. \A m \in paper[p].names : m \notin AddedBy(u)
    BY <1>1, <1>7 DEF Held, Of
  <2>3. \A m \in paper[p].names : m \notin lost
    BY <1>3, <1>7, <2>1, <2>2 DEF AddedBy, Of
  <2> QED
    BY <1>1, <1>2, <1>6, <1>7, <2>1, <2>3
<1>12. \A e \in DOMAIN expense' :
         /\ expense'[e] \in PaperRow /\ expense'[e].group \in DOMAIN group'
         /\ expense'[e].creator \in users'
         /\ expense'[e].names = expense[e].names \ lost
         /\ expense'[e].made = expense[e].made /\ expense'[e].group = expense[e].group
  <2> SUFFICES ASSUME NEW e \in DOMAIN expense'
               PROVE  /\ expense'[e] \in PaperRow /\ expense'[e].group \in DOMAIN group'
                      /\ expense'[e].creator \in users'
                      /\ expense'[e].names = expense[e].names \ lost
                      /\ expense'[e].made = expense[e].made /\ expense'[e].group = expense[e].group
    OBVIOUS
  <2>1. /\ expense[e] \in PaperRow /\ expense[e].group \in DOMAIN group
        /\ expense[e].creator \in users /\ expense[e].names \subseteq Members
    BY <1>8 DEF DeletionInv, TypeOK, ReferencesHold, PaperRow
  <2>2. expense'[e] = [expense[e] EXCEPT !.names = @ \ lost]
    BY <1>8
  <2>3. /\ expense'[e].names = expense[e].names \ lost
        /\ expense'[e].made = expense[e].made /\ expense'[e].group = expense[e].group
        /\ expense'[e].creator = expense[e].creator /\ expense'[e] \in PaperRow
    BY <2>1, <2>2 DEF PaperRow
  <2>4. expense[e].creator \in users' /\ expense[e].group \in DOMAIN group'
    BY <1>1, <1>2, <1>8, <2>1
  <2> QED
    BY <2>3, <2>4
<1>13. ExpensesFit'
  <2> SUFFICES ASSUME NEW e \in DOMAIN expense', NEW m \in expense[e].made
               PROVE  IF m \in expense'[e].names
                      THEN m \in DOMAIN member' /\ member'[m].group = expense[e].group
                      ELSE m \in DOMAIN gone' /\ gone'[m] \notin users'
    <3>1. \A e_1 \in DOMAIN expense' : expense'[e_1].names \subseteq expense'[e_1].made
      BY <1>8, <1>12 DEF DeletionInv, ExpensesFit
    <3> QED
      BY <1>12, <3>1 DEF ExpensesFit
  <2>1. IF m \in expense[e].names
        THEN m \in DOMAIN member /\ member[m].group = expense[e].group
        ELSE m \in DOMAIN gone /\ gone[m] \notin users
    BY <1>8 DEF DeletionInv, ExpensesFit
  <2>2. CASE m \in expense[e].names /\ m \notin lost
    BY <1>6, <1>12, <2>1, <2>2
  <2>3. CASE m \in expense[e].names /\ m \in lost
    <3>1. member[m].creator = u
      BY <1>3, <1>8, <2>1, <2>3
    <3> QED
      BY <1>1, <1>9, <1>12, <2>3, <3>1
  <2>4. CASE m \notin expense[e].names
    <3>1. m \notin lost
      BY <1>4, <2>1, <2>4 DEF DeletionInv, NoneReturns
    <3> QED
      BY <1>1, <1>9, <1>12, <2>1, <2>4, <3>1
  <2> QED
    BY <2>2, <2>3, <2>4
<1>14. \A p \in membership' : p[1] \in DOMAIN group' /\ p[2] \in users'
  BY <1>1, <1>2 DEF DeletionInv, ReferencesHold
<1>15. \A g \in DOMAIN group' : group'[g].owner \in users'
  BY <1>1, <1>2 DEF DeletionInv, ReferencesHold
<1>16. ReferencesHold'
  <2>1. \A e \in DOMAIN expense' : expense'[e].names \subseteq DOMAIN member'
    BY <1>13 DEF ExpensesFit
  <2> QED
    BY <1>6, <1>11, <1>12, <1>14, <1>15, <2>1 DEF ReferencesHold
<1>17. TypeOK'
  <2>1. users' \subseteq Users /\ membership' \subseteq Groups \X Users
    BY <1>1 DEF DeletionInv, TypeOK
  <2>2. DOMAIN group' \subseteq Groups /\ \A g \in DOMAIN group' : group'[g] \in GroupRow
    BY <1>2 DEF DeletionInv, TypeOK
  <2>3. DOMAIN member' \subseteq Members /\ \A m \in DOMAIN member' : member'[m] \in MemberRow
    BY <1>6 DEF DeletionInv, TypeOK
  <2>4. DOMAIN paper' \subseteq Papers /\ DOMAIN expense' \subseteq Expenses
    BY <1>7, <1>8 DEF DeletionInv, TypeOK
  <2>5. DOMAIN gone' \subseteq Members /\ \A m \in DOMAIN gone' : gone'[m] \in Users
    BY <1>4, <1>5, <1>9 DEF DeletionInv, TypeOK, MemberRow
  <2> QED
    BY <1>11, <1>12, <2>1, <2>2, <2>3, <2>4, <2>5 DEF TypeOK, GroupRow, MemberRow, PaperRow
<1>18. PapersFit'
  BY <1>11 DEF PapersFit
<1> QED
  BY <1>10, <1>13, <1>16, <1>17, <1>18 DEF DeletionInv

LEMMA DeletionInvStep == DeletionInv /\ [Next]_vars => DeletionInv'
<1> SUFFICES ASSUME DeletionInv, [Next]_vars PROVE DeletionInv'
  OBVIOUS
<1>1. ASSUME NEW u \in Users, DeleteUser(u) PROVE DeletionInv'
  BY <1>1, DeleteUserKeepsRows
<1>2. ASSUME NEW u \in Users, NEW m \in Members, SoftDeleteMember(u, m) PROVE DeletionInv'
  BY <1>2, SoftDeleteMemberKeepsRows
<1>3. ASSUME NEW u \in Users, NEW g \in Groups, SoftDeleteGroup(u, g) PROVE DeletionInv'
  BY <1>3, SoftDeleteGroupKeepsRows
<1>4. ASSUME NEW u \in Users, NEW g \in Groups, NEW m \in Members, CreateGroup(u, g, m)
      PROVE  DeletionInv'
  BY <1>4, CreateGroupKeepsRows
<1>5. ASSUME NEW u \in Users, NEW g \in Groups, NEW v \in Users, NEW m \in Members,
             AddMember(u, g, v, m)
      PROVE  DeletionInv'
  BY <1>5, AddMemberKeepsRows
<1>6. ASSUME NEW u \in Users, NEW g \in Groups, NEW p \in Papers, NEW m \in Members,
             NEW n \in Members, SavePaper(u, g, p, m, n)
      PROVE  DeletionInv'
  BY <1>6, SavePaperKeepsRows
<1>7. ASSUME NEW u \in Users, NEW g \in Groups, NEW e \in Expenses, NEW names \in SUBSET Members,
             SaveExpense(u, g, e, names)
      PROVE  DeletionInv'
  BY <1>7, SaveExpenseKeepsRows
<1>8. CASE UNCHANGED vars
  BY <1>8 DEF vars, DeletionInv, TypeOK, GroupRow, MemberRow, PaperRow, ReferencesHold, NoneReturns,
              PapersFit, ExpensesFit
<1> QED
  BY <1>1, <1>2, <1>3, <1>4, <1>5, <1>6, <1>7, <1>8 DEF Next

LEMMA DeletionInvariant == RowsSpec => []DeletionInv
<1>1. RowsInit => DeletionInv
  BY DeletionInvInit DEF RowsInit
<1>2. DeletionInv /\ [DeletionNext \/ CardsNext]_<<vars, cardVars>> => DeletionInv'
  <2>1. [DeletionNext \/ CardsNext]_<<vars, cardVars>> => [Next]_vars
    BY DEF DeletionNext, CardsNext
  <2> QED
    BY <2>1, DeletionInvStep
<1> QED
  BY <1>1, <1>2, PTL DEF RowsSpec

(* An expense that stays has lost the parts of those members whom a        *)
(* deleted user had added, and no others.                                  *)
THEOREM PartsFollowTheirAdder == RowsSpec => []PartsGoWithWhoAddedThem
<1>1. DeletionInv => PartsGoWithWhoAddedThem
  <2> SUFFICES ASSUME DeletionInv, NEW e \in DOMAIN expense, NEW m \in expense[e].made
               PROVE  m \notin expense[e].names <=>
                        /\ m \in DOMAIN gone
                        /\ gone[m] \notin users \cup {expense[e].creator,
                                                  group[expense[e].group].owner}
    BY DEF PartsGoWithWhoAddedThem
  <2>1. expense[e].creator \in users /\ group[expense[e].group].owner \in users
    BY DEF DeletionInv, ReferencesHold
  <2>2. m \in expense[e].names => m \notin DOMAIN gone
    BY DEF DeletionInv, ExpensesFit, NoneReturns
  <2>3. m \notin expense[e].names => m \in DOMAIN gone /\ gone[m] \notin users
    BY DEF DeletionInv, ExpensesFit
  <2> QED
    BY <2>1, <2>2, <2>3
<1> QED
  BY <1>1, DeletionInvariant, PTL
=============================================================================
