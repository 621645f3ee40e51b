------------------------- MODULE AdminLogin_proofs -------------------------
(***************************************************************************)
(* Proofs about the limiter of admin logins (AdminLogin) and about push    *)
(* tokens (Notifications), for any sets of counters, logins, users,        *)
(* devices, tokens and requests and any settings with a lockout longer     *)
(* than the window, as MCAdminLogin runs them side by side: a step of one  *)
(* leaves the variables of the other alone.                                *)
(***************************************************************************)
EXTENDS MCAdminLogin, FiniteSetTheorems, WellFoundedInduction, TLAPS

-----------------------------------------------------------------------------
\* The limiter: what its state is like between two calls.

(* Attempts are kept in the order they were made in. *)
InOrder ==
  \A c \in Counters : \A i, j \in 1 .. Len(attempts[c]) : i < j => attempts[c][i] <= attempts[c][j]

(* The lock lasts until fewer than MaxAttempts are left. *)
LockCovers ==
  \A c \in Counters :
    LET n == Len(attempts[c])
    IN  n >= MaxAttempts => attempts[c][n - MaxAttempts + 1] <= locked[c]

LoginInv == TypeOK /\ InOrder /\ LockCovers /\ GuessesAreBounded

-----------------------------------------------------------------------------
\* Push tokens: what requests under way may rely on.

(* Rows that are to be deactivated are there.  Until it is outrun, a       *)
(* registration knows its row's token and every row its token is active in. *)
JobFits(j) ==
  /\ j.op = "register" =>
       /\ \A k \in j.others : N!Exists(k)
       /\ j.key \notin j.others
       /\ j.found # NoRow => N!Exists(j.key)
       /\ ~j.outrun =>
            /\ IF j.found = NoRow THEN ~N!Exists(j.key) ELSE row[j.key].token = j.found.token
            /\ \A k \in N!ActiveKeys \ {j.key} : row[k].token = j.token => k \in j.others
  /\ j.op = "deactivate" => \A k \in j.found : N!Exists(k)

TokensInv ==
  /\ N!TypeOK
  /\ ActiveOnce
  /\ \A q \in Calls : job[q] # NoRequest => JobFits(job[q])

(* There was reason for what has been deactivated, and for what is about   *)
(* to be.                                                                  *)
SilentInv ==
  /\ SilentForAReason
  /\ \A q \in Calls : job[q] # NoRequest => N!Targets(job[q]) \subseteq dismissed

-----------------------------------------------------------------------------
\* Counting.

(* A set of numbers has a least one (well-foundedness of the naturals). *)
LEMMA LeastNumber ==
    ASSUME NEW S \in SUBSET Nat, S # {}
    PROVE  \E n \in S : \A m \in S : n <= m
<1>1. IsWellFoundedOn(OpToRel(<, Nat), Nat)
  BY NatLessThanWellFounded
<1>2. PICK n \in S : \A m \in S : <<m, n>> \notin OpToRel(<, Nat)
  BY <1>1, WFMin
<1>3. \A m \in S : ~(m < n)
  BY <1>2 DEF OpToRel
<1> QED
  BY <1>3

(* The members of 1..n that come before some other are as many as the last *)
(* of them says.                                                           *)
LEMMA InitialSegment ==
    ASSUME NEW n \in Nat, NEW S \in SUBSET (1 .. n),
           \A i \in S, j \in 1 .. n : j < i => j \in S
    PROVE  Cardinality(S) \in 0 .. n /\ S = 1 .. Cardinality(S)
<1>1. CASE S = {}
  BY <1>1, FS_EmptySet
<1>2. CASE S # {}
  <2> DEFINE D == {d \in Nat : n - d \in S}
  <2>1. PICK i \in S : TRUE
    BY <1>2
  <2>2. n - i \in D
    BY <2>1
  <2>3. PICK d \in D : \A e \in D : d <= e
    BY <2>2, LeastNumber
  <2>4. n - d \in S /\ \A j \in S : j <= n - d
    <3>1. \A j \in S : n - j \in D
      OBVIOUS
    <3> QED
      BY <2>3, <3>1
  <2>5. n - d \in 1 .. n /\ S = 1 .. n - d
    <3>1. n - d \in 1 .. n /\ S \subseteq 1 .. n - d
      BY <2>4
    <3>2. ASSUME NEW j \in 1 .. n - d PROVE j \in S
      BY <2>4, <3>1
    <3> QED
      BY <3>1, <3>2
  <2>6. Cardinality(1 .. n - d) = n - d
    BY <2>5, FS_Interval
  <2> QED
    BY <2>5, <2>6
<1> QED
  BY <1>1, <1>2

(* The logins that have asked a counter. *)
Asking(c) == {r \in Requests : req[r] = c}

LEMMA AskingIsFinite ==
    ASSUME NEW c
    PROVE  /\ IsFiniteSet(Asking(c)) /\ Cardinality(Asking(c)) \in Nat
           /\ Cardinality(Requests) \in Nat /\ Cardinality(Asking(c)) <= Cardinality(Requests)
<1>1. Asking(c) \in SUBSET Requests
  BY DEF Asking
<1> QED
  BY <1>1, RequestsAreFinite, FS_Subset, FS_CardinalityType

LEMMA AskingIsFiniteNext ==
    ASSUME NEW c
    PROVE  /\ IsFiniteSet(Asking(c)') /\ Cardinality(Asking(c)') \in Nat
           /\ Cardinality(Asking(c)') <= Cardinality(Requests)
<1>1. Asking(c)' \in SUBSET Requests
  BY DEF Asking
<1> QED
  BY <1>1, RequestsAreFinite, FS_Subset, FS_CardinalityType

(* When a login has ended its counter has one fewer. *)
LEMMA OneFewer ==
    ASSUME TypeOK, NEW r \in Requests, NEW c \in Counters, req[r] = c,
           req' = [req EXCEPT ![r] = NoRequest]
    PROVE  /\ Cardinality(Asking(c)') = Cardinality(Asking(c)) - 1
           /\ \A d \in Counters \ {c} : Asking(d)' = Asking(d)
<1>1. Asking(c)' = Asking(c) \ {r} /\ r \in Asking(c)
  BY NoRequestIsNone DEF TypeOK, Asking
<1>2. \A d \in Counters \ {c} : Asking(d)' = Asking(d)
  BY NoRequestIsNone DEF TypeOK, Asking
<1>3. Cardinality(Asking(c) \ {r}) = Cardinality(Asking(c)) - 1
  BY <1>1, AskingIsFinite, FS_RemoveElement
<1> QED
  BY <1>1, <1>2, <1>3

LEMMA BoundedByAsking ==
    GuessesAreBounded <=>
      \A c \in Counters : Len(attempts[c]) + Cardinality(Asking(c)) <= MaxAttempts - 1 + Cardinality(Requests)
BY DEF GuessesAreBounded, Asking

-----------------------------------------------------------------------------
\* The steps of the limiter.

LEMMA LoginInvInit == Init => LoginInv
<1> SUFFICES ASSUME Init PROVE LoginInv
  OBVIOUS
<1>1. TypeOK
  BY LockoutOutlastsWindow DEF Init, TypeOK
<1>2. \A c \in Counters : Len(attempts[c]) = 0
  BY DEF Init
<1>3. InOrder /\ LockCovers
  BY <1>2, AttemptsArePositive DEF InOrder, LockCovers
<1>4. GuessesAreBounded
  <2>1. ASSUME NEW c \in Counters
        PROVE  Len(attempts[c]) + Cardinality(Asking(c)) <= MaxAttempts - 1 + Cardinality(Requests)
    BY <1>2, AskingIsFinite, AttemptsArePositive
  <2> QED
    BY <2>1, BoundedByAsking
<1> QED
  BY <1>1, <1>3, <1>4 DEF LoginInv

LEMMA SeqFacts ==
    ASSUME NEW S, NEW s \in Seq(S)
    PROVE  Len(s) \in Nat /\ DOMAIN s = 1 .. Len(s) /\ \A i \in 1 .. Len(s) : s[i] \in S
OBVIOUS

LEMMA SeqOfFunction ==
    ASSUME NEW S, NEW n \in Nat, NEW f \in [1 .. n -> S]
    PROVE  f \in Seq(S) /\ Len(f) = n
OBVIOUS

LEMMA AttemptFacts ==
    ASSUME LoginInv, NEW c \in Counters
    PROVE  /\ attempts[c] \in Seq(1 .. Window + 1)
           /\ Len(attempts[c]) \in Nat /\ DOMAIN attempts[c] = 1 .. Len(attempts[c])
           /\ \A i \in 1 .. Len(attempts[c]) :
                attempts[c][i] \in Nat /\ 1 <= attempts[c][i] /\ attempts[c][i] <= Window + 1
           /\ locked[c] \in 0 .. Lockout
<1>1. attempts[c] \in Seq(1 .. Window + 1) /\ locked[c] \in 0 .. Lockout
  BY DEF LoginInv, TypeOK
<1>2. \A k \in 1 .. Window + 1 : k \in Nat /\ 1 <= k /\ k <= Window + 1
  BY LockoutOutlastsWindow
<1>3. /\ Len(attempts[c]) \in Nat /\ DOMAIN attempts[c] = 1 .. Len(attempts[c])
      /\ \A i \in 1 .. Len(attempts[c]) : attempts[c][i] \in 1 .. Window + 1
  BY <1>1, SeqFacts
<1> QED
  BY <1>1, <1>2, <1>3

(* Who is let pass finds fewer than MaxAttempts attempts. *)
LEMMA UnlockedHasRoom ==
    ASSUME LoginInv, NEW c \in Counters, locked[c] = 0
    PROVE  Len(attempts[c]) < MaxAttempts
<1> DEFINE n == Len(attempts[c])
<1> SUFFICES ASSUME n >= MaxAttempts PROVE FALSE
  BY AttemptsArePositive DEF LoginInv, TypeOK
<1>1. attempts[c][n - MaxAttempts + 1] <= 0
  BY DEF LoginInv, LockCovers
<1>2. n \in Nat /\ n - MaxAttempts + 1 \in 1 .. n
  BY AttemptFacts, AttemptsArePositive
<1>3. attempts[c][n - MaxAttempts + 1] \in Nat /\ 1 <= attempts[c][n - MaxAttempts + 1]
  BY <1>2, AttemptFacts
<1> QED
  BY <1>1, <1>3

LEMMA CheckAllowedKeepsLogins ==
    ASSUME LoginInv, NEW r \in Requests, NEW c \in Counters, CheckAllowed(r, c)
    PROVE  LoginInv'
<1>1. UNCHANGED <<attempts, locked>>
  BY DEF CheckAllowed, Refused
<1>2. req' = req \/ (locked[c] = 0 /\ req' = [req EXCEPT ![r] = c])
  BY DEF CheckAllowed, LoginInv, TypeOK
<1>3. TypeOK'
  BY <1>1, <1>2 DEF LoginInv, TypeOK
<1>4. InOrder' /\ LockCovers'
  BY <1>1 DEF LoginInv, InOrder, LockCovers
<1>5. GuessesAreBounded'
  <2>1. ASSUME NEW d \in Counters
        PROVE  Len(attempts[d]) + Cardinality(Asking(d)') <= MaxAttempts - 1 + Cardinality(Requests)
    <3>1. CASE req' = req \/ d # c
      <4>1. Asking(d)' \subseteq Asking(d)
        BY <1>2, <3>1 DEF Asking, LoginInv, TypeOK
      <4>2. Cardinality(Asking(d)') <= Cardinality(Asking(d))
        BY <4>1, AskingIsFinite, FS_Subset
      <4>3. Len(attempts[d]) + Cardinality(Asking(d)) <= MaxAttempts - 1 + Cardinality(Requests)
        BY BoundedByAsking DEF LoginInv
      <4> QED
        BY <4>2, <4>3, AskingIsFinite, AskingIsFiniteNext, AttemptsArePositive DEF LoginInv, TypeOK
    <3>2. CASE req' # req /\ d = c
      <4>1. Len(attempts[d]) < MaxAttempts /\ Len(attempts[d]) \in Nat
        BY <1>2, <3>2, UnlockedHasRoom, AttemptFacts
      <4>2. Cardinality(Asking(d)') \in Nat /\ Cardinality(Asking(d)') <= Cardinality(Requests)
        BY AskingIsFiniteNext
      <4>3. Cardinality(Requests) \in Nat
        BY AskingIsFinite
      <4> QED
        BY <4>1, <4>2, <4>3, AttemptsArePositive
    <3> QED
      BY <3>1, <3>2
  <2> QED
    BY <1>1, <2>1 DEF GuessesAreBounded, Asking
<1> QED
  BY <1>3, <1>4, <1>5 DEF LoginInv

(* One attempt more, one login fewer; the lock outlasts all attempts if it *)
(* is set.                                                                 *)
LEMMA RegisterFailureKeepsLogins ==
    ASSUME LoginInv, NEW r \in Requests, RegisterFailure(r)
    PROVE  LoginInv'
<1> DEFINE c == req[r]
           s == attempts[c]
           n == Len(s)
<1>1. /\ c \in Counters
      /\ attempts' = [attempts EXCEPT ![c] = Append(@, Window + 1)]
      /\ locked' = [locked EXCEPT ![c] = IF LimitReached(Len(attempts'[c])) THEN Lockout ELSE @]
      /\ req' = [req EXCEPT ![r] = NoRequest]
  BY DEF RegisterFailure, LoginInv, TypeOK
<1>2. s \in Seq(1 .. Window + 1) /\ Window + 1 \in 1 .. Window + 1 /\ n \in Nat
  BY <1>1, LockoutOutlastsWindow DEF LoginInv, TypeOK
<1>3. /\ attempts'[c] = Append(s, Window + 1) /\ attempts'[c] \in Seq(1 .. Window + 1)
      /\ Len(attempts'[c]) = n + 1
      /\ attempts'[c][n + 1] = Window + 1
      /\ \A i \in 1 .. n : attempts'[c][i] = s[i]
  BY <1>1, <1>2 DEF LoginInv, TypeOK
<1>4. \A d \in Counters \ {c} : attempts'[d] = attempts[d] /\ locked'[d] = locked[d]
  BY <1>1 DEF LoginInv, TypeOK
<1>5. locked'[c] = IF n + 1 >= MaxAttempts THEN Lockout ELSE locked[c]
  BY <1>1, <1>3 DEF LoginInv, TypeOK, LimitReached
<1>6. TypeOK'
  <2>1. attempts' \in [Counters -> Seq(1 .. Window + 1)]
    BY <1>1, <1>3 DEF LoginInv, TypeOK
  <2>2. locked' \in [Counters -> 0 .. Lockout]
    BY <1>1, LockoutOutlastsWindow DEF LoginInv, TypeOK
  <2>3. req' \in [Requests -> Counters \cup {NoRequest}]
    BY <1>1 DEF LoginInv, TypeOK
  <2> QED
    BY <2>1, <2>2, <2>3 DEF TypeOK
<1> HIDE DEF c, s, n
<1>7. InOrder'
  <2> SUFFICES ASSUME NEW d \in Counters,
                      NEW i \in 1 .. Len(attempts'[d]), NEW j \in 1 .. Len(attempts'[d]), i < j
               PROVE  attempts'[d][i] <= attempts'[d][j]
    BY DEF InOrder
  <2>1. CASE d # c
    BY <1>4, <2>1 DEF LoginInv, InOrder
  <2>2. CASE d = c
    <3>1. \A k \in 1 .. n : s[k] \in Nat /\ s[k] <= Window + 1
      BY <1>1, AttemptFacts DEF n, s
    <3>2. \A k, l \in 1 .. n : k < l => s[k] <= s[l]
      BY <1>1 DEF LoginInv, InOrder, c, s, n
    <3>3. i \in 1 .. n /\ (j \in 1 .. n \/ j = n + 1)
      BY <1>2, <1>3, <2>2
    <3>4. attempts'[d][i] = s[i] /\ i \in 1 .. n
      BY <1>3, <2>2, <3>3
    <3>5. attempts'[d][j] = IF j = n + 1 THEN Window + 1 ELSE s[j]
      BY <1>3, <2>2, <3>3
    <3> QED
      BY <3>1, <3>2, <3>3, <3>4, <3>5
  <2> QED
    BY <2>1, <2>2
<1>8. LockCovers'
  <2> SUFFICES ASSUME NEW d \in Counters, Len(attempts'[d]) >= MaxAttempts
               PROVE  attempts'[d][Len(attempts'[d]) - MaxAttempts + 1] <= locked'[d]
    BY DEF LockCovers
  <2>1. CASE d # c
    BY <1>4, <2>1 DEF LoginInv, LockCovers
  <2>2. CASE d = c
    <3>1. locked'[c] = Lockout
      BY <1>3, <1>5, <2>2
    <3>2. n + 1 - MaxAttempts + 1 \in 1 .. Len(attempts'[c])
      BY <1>2, <1>3, <2>2, AttemptsArePositive
    <3>3. attempts'[c][n + 1 - MaxAttempts + 1] \in 1 .. Window + 1
      BY <1>3, <3>2, SeqFacts
    <3>4. attempts'[c][n + 1 - MaxAttempts + 1] <= Lockout
      BY <3>3, LockoutOutlastsWindow
    <3>5. attempts'[d] = attempts'[c] /\ locked'[d] = locked'[c] /\ Len(attempts'[d]) = n + 1
      BY <1>3, <2>2
    <3> QED
      BY <1>2, <3>1, <3>4, <3>5, AttemptsArePositive
  <2> QED
    BY <2>1, <2>2
<1>9. GuessesAreBounded'
  <2>1. ASSUME NEW d \in Counters
        PROVE  Len(attempts'[d]) + Cardinality(Asking(d)') <= MaxAttempts - 1 + Cardinality(Requests)
    <3>1. Len(attempts[d]) + Cardinality(Asking(d)) <= MaxAttempts - 1 + Cardinality(Requests)
      BY BoundedByAsking DEF LoginInv
    <3>2. CASE d # c
      <4>1. Asking(d)' = Asking(d)
        BY <1>1, <3>2, OneFewer DEF LoginInv, c
      <4> QED
        BY <1>4, <3>1, <3>2, <4>1
    <3>3. CASE d = c
      <4>1. Cardinality(Asking(d)') = Cardinality(Asking(d)) - 1
        BY <1>1, <3>3, OneFewer DEF LoginInv, c
      <4>2. Len(attempts'[d]) = Len(attempts[d]) + 1 /\ Len(attempts[d]) \in Nat
        BY <1>2, <1>3, <3>3 DEF n, s
      <4> QED
        BY <3>1, <4>1, <4>2, AskingIsFinite, AttemptsArePositive
    <3> QED
      BY <3>2, <3>3
  <2> QED
    BY <2>1 DEF GuessesAreBounded, Asking
<1> QED
  BY <1>6, <1>7, <1>8, <1>9 DEF LoginInv

(* A counter that is forgotten, by a login that has ended or a restart. *)
LEMMA ForgettingKeepsLogins ==
    ASSUME LoginInv, NEW c \in Counters,
           attempts' = [attempts EXCEPT ![c] = <<>>], locked' = [locked EXCEPT ![c] = 0],
           req' \in [Requests -> Counters \cup {NoRequest}],
           \A q \in Requests : req'[q] = req[q] \/ req'[q] = NoRequest
    PROVE  LoginInv'
<1>1. /\ attempts'[c] = <<>> /\ Len(attempts'[c]) = 0
      /\ \A d \in Counters \ {c} : attempts'[d] = attempts[d] /\ locked'[d] = locked[d]
  BY DEF LoginInv, TypeOK
<1>2. TypeOK'
  BY LockoutOutlastsWindow DEF LoginInv, TypeOK
<1>3. InOrder'
  BY <1>1 DEF LoginInv, InOrder
<1>4. LockCovers'
  BY <1>1, AttemptsArePositive DEF LoginInv, LockCovers
<1>5. GuessesAreBounded'
  <2>1. ASSUME NEW d \in Counters
        PROVE  Len(attempts'[d]) + Cardinality(Asking(d)') <= MaxAttempts - 1 + Cardinality(Requests)
    <3>1. CASE d = c
      BY <1>1, <3>1, AskingIsFinite, AskingIsFiniteNext, AttemptsArePositive
    <3>2. CASE d # c
      <4>1. Asking(d)' \subseteq Asking(d)
        BY NoRequestIsNone DEF Asking
      <4>2. Cardinality(Asking(d)') <= Cardinality(Asking(d))
        BY <4>1, AskingIsFinite, FS_Subset
      <4>3. Len(attempts[d]) + Cardinality(Asking(d)) <= MaxAttempts - 1 + Cardinality(Requests)
        BY BoundedByAsking DEF LoginInv
      <4> QED
        BY <1>1, <3>2, <4>2, <4>3, AskingIsFinite, AskingIsFiniteNext, AttemptsArePositive
           DEF LoginInv, TypeOK
    <3> QED
      BY <3>1, <3>2
  <2> QED
    BY <2>1 DEF GuessesAreBounded, Asking
<1> QED
  BY <1>2, <1>3, <1>4, <1>5 DEF LoginInv

(* What lapses is the first part of the sequence. *)
LEMMA AttemptsLeftFacts ==
    ASSUME LoginInv, NEW c \in Counters
    PROVE  \E lapsed \in 0 .. Len(attempts[c]) :
             /\ AttemptsLeft(c) \in Seq(1 .. Window + 1)
             /\ Len(AttemptsLeft(c)) = Len(attempts[c]) - lapsed
             /\ \A i \in 1 .. Len(attempts[c]) - lapsed :
                  /\ AttemptsLeft(c)[i] = attempts[c][lapsed + i] - 1
                  /\ attempts[c][lapsed + i] > 1
<1> DEFINE s == attempts[c]
           n == Len(s)
           S == {i \in DOMAIN s : s[i] = 1}
           lapsed == Cardinality(S)
           left == [i \in 1 .. n - lapsed |-> s[lapsed + i] - 1]
<1>1. /\ n \in Nat /\ DOMAIN s = 1 .. n
      /\ \A i \in 1 .. n : s[i] \in Nat /\ 1 <= s[i] /\ s[i] <= Window + 1
  BY AttemptFacts
<1>2. \A i, j \in 1 .. n : i < j => s[i] <= s[j]
  BY DEF LoginInv, InOrder
<1>3. S \in SUBSET (1 .. n) /\ \A i \in S, j \in 1 .. n : j < i => j \in S
  BY <1>1, <1>2
<1>4. lapsed \in 0 .. n /\ S = 1 .. lapsed
  <2> HIDE DEF S
  <2> QED
    BY <1>1, <1>3, InitialSegment
<1>5. AttemptsLeft(c) = left
  BY DEF AttemptsLeft
<1>6. \A i \in 1 .. n : i \in S <=> s[i] = 1
  BY <1>1
<1> HIDE DEF lapsed, S, s, n
<1>7. \A i \in 1 .. n - lapsed :
        /\ lapsed + i \in 1 .. n /\ s[lapsed + i] \in Nat
        /\ s[lapsed + i] > 1 /\ s[lapsed + i] <= Window + 1
  <2> SUFFICES ASSUME NEW i \in 1 .. n - lapsed
               PROVE  /\ lapsed + i \in 1 .. n /\ s[lapsed + i] \in Nat
                      /\ s[lapsed + i] > 1 /\ s[lapsed + i] <= Window + 1
    OBVIOUS
  <2>1. lapsed + i \in 1 .. n /\ lapsed + i \notin 1 .. lapsed
    BY <1>1, <1>4
  <2>2. s[lapsed + i] # 1
    BY <1>4, <1>6, <2>1
  <2>3. s[lapsed + i] \in Nat /\ 1 <= s[lapsed + i] /\ s[lapsed + i] <= Window + 1
    BY <1>1, <2>1
  <2> QED
    BY <2>1, <2>2, <2>3
<1>8. \A k \in Nat : k > 1 /\ k <= Window + 1 => k - 1 \in 1 .. Window + 1
  BY LockoutOutlastsWindow
<1>9. left \in Seq(1 .. Window + 1) /\ Len(left) = n - lapsed
  <2>1. n - lapsed \in Nat
    BY <1>1, <1>4
  <2>2. \A i \in 1 .. n - lapsed : s[lapsed + i] - 1 \in 1 .. Window + 1
    BY <1>7, <1>8
  <2>3. left \in [1 .. n - lapsed -> 1 .. Window + 1]
    BY <2>2
  <2> HIDE DEF left
  <2> QED
    BY <2>1, <2>3, SeqOfFunction
<1>10. \A i \in 1 .. n - lapsed : left[i] = s[lapsed + i] - 1 /\ s[lapsed + i] > 1
  BY <1>7
<1> QED
  BY <1>4, <1>5, <1>9, <1>10 DEF s, n

LEMMA TickKeepsLogins == LoginInv /\ Tick => LoginInv'
<1> SUFFICES ASSUME LoginInv, Tick PROVE LoginInv'
  OBVIOUS
<1>1. UNCHANGED req /\ \A c \in Counters : attempts'[c] = AttemptsLeft(c) /\ locked'[c] = LockLeft(c)
  BY DEF Tick
<1>2. TypeOK'
  <2>1. \A c \in Counters : AttemptsLeft(c) \in Seq(1 .. Window + 1)
    BY AttemptsLeftFacts
  <2>2. \A c \in Counters : LockLeft(c) \in 0 .. Lockout
    BY AttemptFacts, LockoutOutlastsWindow DEF LockLeft
  <2> QED
    BY <1>1, <2>1, <2>2 DEF Tick, TypeOK, LoginInv
<1>3. ASSUME NEW c \in Counters
      PROVE  /\ \A i, j \in 1 .. Len(attempts'[c]) : i < j => attempts'[c][i] <= attempts'[c][j]
             /\ Len(attempts'[c]) >= MaxAttempts
                  => attempts'[c][Len(attempts'[c]) - MaxAttempts + 1] <= locked'[c]
             /\ Len(attempts'[c]) \in Nat /\ Len(attempts'[c]) <= Len(attempts[c])
  <2> DEFINE s == attempts[c]
             n == Len(s)
             t == attempts'[c]
  <2>1. PICK lapsed \in 0 .. n :
          /\ Len(t) = n - lapsed
          /\ \A i \in 1 .. n - lapsed : t[i] = s[lapsed + i] - 1 /\ s[lapsed + i] > 1
    BY <1>1, AttemptsLeftFacts
  <2>2. n \in Nat /\ \A i \in 1 .. n : s[i] \in Nat
    BY AttemptFacts
  <2>3. \A i, j \in 1 .. n : i < j => s[i] <= s[j]
    BY DEF LoginInv, InOrder
  <2>4. n >= MaxAttempts => s[n - MaxAttempts + 1] <= locked[c]
    BY DEF LoginInv, LockCovers
  <2>5. locked'[c] = IF locked[c] = 0 THEN 0 ELSE locked[c] - 1
    BY <1>1 DEF LockLeft
  <2>6. locked[c] \in Nat
    BY AttemptFacts, LockoutOutlastsWindow
  <2> HIDE DEF s, n, t
  <2>7. \A i, j \in 1 .. Len(t) : i < j => t[i] <= t[j]
    <3> SUFFICES ASSUME NEW i \in 1 .. Len(t), NEW j \in 1 .. Len(t), i < j PROVE t[i] <= t[j]
      OBVIOUS
    <3>1. lapsed + i \in 1 .. n /\ lapsed + j \in 1 .. n /\ lapsed + i < lapsed + j
      BY <2>1, <2>2
    <3>2. s[lapsed + i] <= s[lapsed + j] /\ s[lapsed + i] \in Nat /\ s[lapsed + j] \in Nat
      BY <2>2, <2>3, <3>1
    <3>3. t[i] = s[lapsed + i] - 1 /\ t[j] = s[lapsed + j] - 1
      BY <2>1
    <3> QED
      BY <3>2, <3>3
  <2>8. Len(t) >= MaxAttempts => t[Len(t) - MaxAttempts + 1] <= locked'[c]
    <3> SUFFICES ASSUME Len(t) >= MaxAttempts PROVE t[Len(t) - MaxAttempts + 1] <= locked'[c]
      OBVIOUS
    <3> DEFINE i == Len(t) - MaxAttempts + 1
    <3>1. i \in 1 .. n - lapsed /\ lapsed + i = n - MaxAttempts + 1 /\ n >= MaxAttempts
      BY <2>1, <2>2, AttemptsArePositive
    <3> HIDE DEF i
    <3>2. t[i] = s[n - MaxAttempts + 1] - 1 /\ s[n - MaxAttempts + 1] > 1
      BY <2>1, <3>1
    <3>3. s[n - MaxAttempts + 1] <= locked[c] /\ s[n - MaxAttempts + 1] \in Nat
      <4>1. n - MaxAttempts + 1 \in 1 .. n
        BY <2>2, <3>1, AttemptsArePositive
      <4> QED
        BY <2>2, <2>4, <3>1, <4>1
    <3>4. t[i] <= locked'[c]
      BY <2>5, <2>6, <3>2, <3>3
    <3> QED
      BY <3>4 DEF i
  <2> QED
    BY <2>1, <2>2, <2>7, <2>8 DEF s, n, t
<1>4. InOrder'
  BY <1>3 DEF InOrder
<1>5. LockCovers'
  BY <1>3 DEF LockCovers
<1>6. GuessesAreBounded'
  <2>1. ASSUME NEW c \in Counters
        PROVE  Len(attempts'[c]) + Cardinality(Asking(c)) <= MaxAttempts - 1 + Cardinality(Requests)
    <3>1. Len(attempts[c]) + Cardinality(Asking(c)) <= MaxAttempts - 1 + Cardinality(Requests)
      BY BoundedByAsking DEF LoginInv
    <3> QED
      BY <1>3, <3>1, AttemptFacts, AskingIsFinite, AttemptsArePositive
  <2> QED
    BY <1>1, <2>1 DEF GuessesAreBounded, Asking
<1> QED
  BY <1>2, <1>4, <1>5, <1>6 DEF LoginInv

LEMMA LoginInvStep == LoginInv /\ [Next]_vars => LoginInv'
<1> SUFFICES ASSUME LoginInv, [Next]_vars PROVE LoginInv'
  OBVIOUS
<1>1. ASSUME NEW r \in Requests, NEW c \in Counters, CheckAllowed(r, c) PROVE LoginInv'
  BY <1>1, CheckAllowedKeepsLogins
<1>2. ASSUME NEW r \in Requests, RegisterFailure(r) PROVE LoginInv'
  BY <1>2, RegisterFailureKeepsLogins
<1>3. ASSUME NEW r \in Requests, RegisterSuccess(r) PROVE LoginInv'
  <2> DEFINE c == req[r]
  <2>1. c \in Counters
    BY <1>3 DEF RegisterSuccess, LoginInv, TypeOK
  <2>2. /\ attempts' = [attempts EXCEPT ![c] = <<>>] /\ locked' = [locked EXCEPT ![c] = 0]
        /\ req' \in [Requests -> Counters \cup {NoRequest}]
        /\ \A q \in Requests : req'[q] = req[q] \/ req'[q] = NoRequest
    BY <1>3 DEF RegisterSuccess, LoginInv, TypeOK
  <2> QED
    BY <2>1, <2>2, ForgettingKeepsLogins
<1>4. ASSUME NEW c \in Counters, Restart(c) PROVE LoginInv'
  <2>1. /\ attempts' = [attempts EXCEPT ![c] = <<>>] /\ locked' = [locked EXCEPT ![c] = 0]
        /\ req' \in [Requests -> Counters \cup {NoRequest}]
        /\ \A q \in Requests : req'[q] = req[q] \/ req'[q] = NoRequest
    BY <1>4 DEF Restart, LoginInv, TypeOK
  <2> QED
    BY <2>1, ForgettingKeepsLogins
<1>5. CASE Tick
  BY <1>5, TickKeepsLogins
<1>6. CASE UNCHANGED vars
  BY <1>6 DEF vars, LoginInv, TypeOK, InOrder, LockCovers, GuessesAreBounded
<1> QED
  BY <1>1, <1>2, <1>3, <1>4, <1>5, <1>6 DEF Next, Compare

LEMMA LoginInvariant == BothSpec => []LoginInv
<1>1. BothInit => LoginInv
  BY LoginInvInit DEF BothInit
<1>2. LoginInv /\ [LoginNext \/ TokensNext]_<<vars, tokenVars>> => LoginInv'
  <2>1. [LoginNext \/ TokensNext]_<<vars, tokenVars>> => [Next]_vars
    BY DEF LoginNext, TokensNext
  <2> QED
    BY <2>1, LoginInvStep
<1> QED
  BY <1>1, <1>2, PTL DEF BothSpec

(* Between two locks no more logins fail than are allowed and those that   *)
(* were being compared beside the last (AdminLoginRateLimiter).            *)
THEOREM FailuresAreBounded == BothSpec => []GuessesAreBounded
<1>1. LoginInv => GuessesAreBounded
  BY DEF LoginInv
<1> QED
  BY <1>1, LoginInvariant, PTL

-----------------------------------------------------------------------------
\* The steps of requests that concern push tokens.

LEMMA TokensInvInit == N!Init => TokensInv
BY DEF N!Init, TokensInv, N!TypeOK, ActiveOnce, N!ActiveOnce, N!ActiveKeys, N!Exists

(* A request begins, or goes on, without a change to the rows. *)
LEMMA ReadingKeepsTokens ==
    ASSUME TokensInv, NEW q \in Calls, NEW j, job' = [job EXCEPT ![q] = j],
           j \in N!Registering \cup N!Sending \cup N!Deactivating \cup {NoRequest},
           j # NoRequest => JobFits(j), UNCHANGED <<row, raced>>, dismissed' \subseteq N!Keys
    PROVE  TokensInv'
<1>1. N!TypeOK'
  BY DEF TokensInv, N!TypeOK
<1>2. ActiveOnce'
  BY DEF TokensInv, ActiveOnce, N!ActiveOnce, N!ActiveKeys, N!Exists
<1>3. ASSUME NEW p \in Calls, job'[p] # NoRequest
      PROVE  JobFits(job[p])'
  <2>1. JobFits(job'[p])
    BY <1>3 DEF TokensInv, N!TypeOK
  <2> QED
    BY <2>1 DEF JobFits, N!ActiveKeys, N!Exists
<1> QED
  BY <1>1, <1>2, <1>3 DEF TokensInv

LEMMA RegisterBeginKeepsTokens ==
    ASSUME TokensInv, NEW q \in Calls, NEW k \in N!Keys, NEW t \in Tokens, N!RegisterBegin(q, k, t)
    PROVE  TokensInv'
<1> DEFINE j == [op |-> "register", key |-> k, token |-> t, found |-> row[k],
                 others |-> N!Duplicates(k, t), outrun |-> FALSE]
<1>1. /\ job' = [job EXCEPT ![q] = j] /\ UNCHANGED <<row, raced>>
      /\ dismissed' \subseteq N!Keys
  BY DEF N!RegisterBegin, N!Begin, N!Holding, TokensInv, N!TypeOK
<1>2. j \in N!Registering
  <2>1. row[k] \in N!FcmDeviceToken \cup {NoRow}
    BY DEF TokensInv, N!TypeOK
  <2>2. N!Duplicates(k, t) \in SUBSET N!Keys
    BY DEF N!Duplicates, N!ActiveKeys
  <2> QED
    BY <2>1, <2>2 DEF N!Registering
<1>3. JobFits(j)
  <2>1. \A o \in N!Duplicates(k, t) : N!Exists(o) /\ o # k
    BY DEF N!Duplicates, N!ActiveKeys
  <2>2. \A o \in N!ActiveKeys \ {k} : row[o].token = t => o \in N!Duplicates(k, t)
    BY DEF N!Duplicates, N!ActiveKeys, N!Holding
  <2> QED
    BY <2>1, <2>2 DEF JobFits, N!Exists
<1> QED
  BY <1>1, <1>2, <1>3, ReadingKeepsTokens

LEMMA DeactivateBeginKeepsTokens ==
    ASSUME TokensInv, NEW q \in Calls, NEW S \in SUBSET N!Keys, \A k \in S : N!Exists(k),
           job' = [job EXCEPT ![q] = [op |-> "deactivate", found |-> S]], UNCHANGED <<row, raced>>,
           dismissed' \subseteq N!Keys
    PROVE  TokensInv'
<1> DEFINE j == [op |-> "deactivate", found |-> S]
<1>1. j \in N!Deactivating /\ JobFits(j)
  BY DEF N!Deactivating, JobFits
<1> QED
  BY <1>1, ReadingKeepsTokens

LEMMA SendBeginKeepsTokens ==
    ASSUME TokensInv, NEW q \in Calls, NEW U \in SUBSET Users, N!SendBegin(q, U)
    PROVE  TokensInv'
<1> DEFINE T == {row[k].token : k \in N!ActiveKeys \cap (U \X Devices)}
           j == [op |-> "send", tokens |-> T]
<1>1. /\ job' = [job EXCEPT ![q] = j] /\ UNCHANGED <<row, raced>>
      /\ dismissed' \subseteq N!Keys
  BY DEF N!SendBegin, N!Begin, TokensInv, N!TypeOK
<1>2. \A k \in N!ActiveKeys : row[k].token \in Tokens
  BY DEF N!ActiveKeys, N!Exists, TokensInv, N!TypeOK, N!FcmDeviceToken
<1>3. T \in SUBSET Tokens
  BY <1>2
<1>4. j \in N!Sending /\ JobFits(j)
  <2> HIDE DEF T
  <2> QED
    BY <1>3 DEF N!Sending, JobFits
<1> QED
  BY <1>1, <1>4, ReadingKeepsTokens

(* Rows are deactivated: fewer are active, and tokens stay where they are. *)
LEMMA DeactivateCommitKeepsTokens ==
    ASSUME TokensInv, NEW q \in Calls, N!DeactivateCommit(q)
    PROVE  TokensInv'
<1> DEFINE S == job[q].found
<1>1. /\ job[q] # NoRequest /\ job[q].op = "deactivate"
      /\ row' = [k \in N!Keys |-> IF k \in S THEN [row[k] EXCEPT !.active = FALSE] ELSE row[k]]
      /\ job' = [job EXCEPT ![q] = NoRequest] /\ UNCHANGED <<raced, dismissed>>
  BY DEF N!DeactivateCommit
<1>2. \A k \in S : N!Exists(k)
  BY <1>1 DEF TokensInv, JobFits
<1>3. \A k \in N!Keys : row[k] # NoRow => row[k] \in N!FcmDeviceToken
  BY DEF TokensInv, N!TypeOK
<1>4. \A k \in N!Keys :
        IF row[k] = NoRow THEN row'[k] = NoRow
        ELSE /\ row'[k] \in N!FcmDeviceToken /\ row'[k] # NoRow
             /\ row'[k].token = row[k].token /\ (row'[k].active => row[k].active)
  BY <1>1, <1>2, <1>3, NoRowIsNone DEF N!Exists, N!FcmDeviceToken
<1>5. \A k \in N!Keys : N!Exists(k)' <=> N!Exists(k)
  BY <1>4 DEF N!Exists
<1>6. N!ActiveKeys' \subseteq N!ActiveKeys
  BY <1>4 DEF N!ActiveKeys, N!Exists
<1>7. N!TypeOK'
  <2>1. row' \in [N!Keys -> N!FcmDeviceToken \cup {NoRow}]
    BY <1>1, <1>4
  <2>2. job' \in [Calls -> N!Registering \cup N!Sending \cup N!Deactivating \cup {NoRequest}]
    BY <1>1 DEF TokensInv, N!TypeOK
  <2> QED
    BY <1>1, <2>1, <2>2 DEF TokensInv, N!TypeOK
<1>8. ActiveOnce'
  BY <1>1, <1>4, <1>6 DEF TokensInv, ActiveOnce, N!ActiveOnce, N!ActiveKeys, N!Exists
<1>9. ASSUME NEW p \in Calls, job'[p] # NoRequest
      PROVE  JobFits(job[p])'
  <2>1. job'[p] = job[p] /\ job[p] # NoRequest /\ JobFits(job[p])
    BY <1>1, <1>9 DEF TokensInv, N!TypeOK
  <2>2. job[p] \in N!Registering \cup N!Sending \cup N!Deactivating
    BY <2>1 DEF TokensInv, N!TypeOK
  <2>3. CASE job[p].op = "register"
    <3>1. job[p] \in N!Registering
      BY <2>2, <2>3 DEF N!Sending, N!Deactivating
    <3>2. job[p].key \in N!Keys /\ job[p].others \subseteq N!Keys
      BY <3>1 DEF N!Registering
    <3>3. \A k \in N!ActiveKeys' : k \in N!Keys /\ k \in N!ActiveKeys /\ row'[k].token = row[k].token
      BY <1>4, <1>6 DEF N!ActiveKeys, N!Exists
    <3>4. job[p].found # NoRow => N!Exists(job[p].key)
      BY <2>1, <2>3 DEF JobFits
    <3>5. ~job[p].outrun => IF job[p].found = NoRow THEN ~N!Exists(job[p].key)'
                            ELSE row'[job[p].key].token = job[p].found.token
      BY <1>4, <1>5, <2>1, <2>3, <3>2, <3>4 DEF JobFits, N!Exists
    <3> QED
      BY <1>5, <2>1, <2>3, <3>2, <3>3, <3>5 DEF JobFits, N!Exists
  <2>4. CASE job[p].op = "deactivate"
    <3>1. job[p].found \subseteq N!Keys
      BY <2>2, <2>4 DEF N!Registering, N!Sending, N!Deactivating
    <3> QED
      BY <1>5, <2>1, <2>4, <3>1 DEF JobFits, N!Exists
  <2>5. CASE job[p].op \notin {"register", "deactivate"}
    BY <2>1, <2>5 DEF JobFits
  <2> QED
    BY <2>3, <2>4, <2>5
<1> QED
  BY <1>7, <1>8, <1>9 DEF TokensInv

(* A registration that was not outrun has deactivated every other row its  *)
(* token was active in; one that was, is put on record.                    *)
LEMMA RegisterCommitKeepsTokens ==
    ASSUME TokensInv, NEW q \in Calls, N!RegisterCommit(q)
    PROVE  TokensInv'
<1> DEFINE j == job[q]
\* What it found, and what it writes.
<1>1. /\ j \in N!Registering /\ JobFits(j) /\ j.op = "register"
      /\ j.found = NoRow => ~N!Exists(j.key)
  <2>1. j # NoRequest /\ j.op = "register" /\ (j.found = NoRow => ~N!Exists(j.key))
    BY DEF N!RegisterCommit
  <2>2. j \in N!Registering \cup N!Sending \cup N!Deactivating /\ JobFits(j)
    BY <2>1 DEF TokensInv, N!TypeOK
  <2> QED
    BY <2>1, <2>2 DEF N!Sending, N!Deactivating
<1>2. /\ row' = [k \in N!Keys |-> IF k = j.key THEN N!Registered(j)
                                ELSE IF k \in j.others THEN [row[k] EXCEPT !.active = FALSE]
                                ELSE row[k]]
      /\ raced' = IF j.outrun THEN raced \cup {row'[j.key].token} ELSE raced
      /\ N!DoneBy(q)
      /\ dismissed' \subseteq dismissed \cup {j.key}
  BY DEF N!RegisterCommit
<1>3. /\ j.key \in N!Keys /\ j.token \in Tokens /\ j.others \in SUBSET N!Keys /\ j.key \notin j.others
      /\ j.found = NoRow \/ j.found \in N!FcmDeviceToken
      /\ \A k \in j.others : N!Exists(k)
      /\ j.found # NoRow => N!Exists(j.key)
  BY <1>1 DEF N!Registering, JobFits
<1>4. \A k \in N!Keys : row[k] # NoRow => row[k] \in N!FcmDeviceToken
  BY DEF TokensInv, N!TypeOK
<1>5. N!Registered(j) \in N!FcmDeviceToken /\ N!Registered(j) # NoRow
  <2>1. CASE j.found = NoRow
    <3>1. N!Registered(j) = [token |-> j.token, active |-> TRUE]
      BY <2>1 DEF N!Registered
    <3>2. N!Registered(j) \in N!FcmDeviceToken
      BY <1>3, <3>1 DEF N!FcmDeviceToken
    <3> QED
      BY <3>2, NoRowIsNone
  <2>2. CASE j.found # NoRow
    <3> DEFINE t == IF j.found.token = j.token THEN row[j.key].token ELSE j.token
               a == IF j.found.active THEN row[j.key].active ELSE TRUE
    <3>1. row[j.key] \in N!FcmDeviceToken
      BY <1>3, <1>4, <2>2 DEF N!Exists
    <3>2. t \in Tokens /\ a \in BOOLEAN
      <4>1. row[j.key].token \in Tokens /\ row[j.key].active \in BOOLEAN
        BY <3>1 DEF N!FcmDeviceToken
      <4> QED
        BY <1>3, <4>1
    <3>3. N!Registered(j) = [token |-> t, active |-> a]
      BY <2>2 DEF N!Registered
    <3> HIDE DEF t, a
    <3>4. N!Registered(j) \in N!FcmDeviceToken
      BY <3>2, <3>3 DEF N!FcmDeviceToken
    <3> QED
      BY <3>4, NoRowIsNone
  <2> QED
    BY <2>1, <2>2
<1>6. ~j.outrun => N!Registered(j).token = j.token
  BY <1>1, <1>3 DEF N!Registered, JobFits
<1>7. \A k \in N!Keys \ {j.key} :
        IF row[k] = NoRow THEN row'[k] = NoRow
        ELSE /\ row'[k] \in N!FcmDeviceToken /\ row'[k] # NoRow
             /\ row'[k].token = row[k].token /\ (row'[k].active => row[k].active /\ k \notin j.others)
  BY <1>2, <1>3, <1>4, NoRowIsNone DEF N!Exists, N!FcmDeviceToken
<1>8. row'[j.key] = N!Registered(j)
  BY <1>2, <1>3
<1>9. \A k \in N!Keys : N!Exists(k) => N!Exists(k)'
  BY <1>5, <1>7, <1>8 DEF N!Exists
<1> HIDE DEF j
\* The other requests: those that register have been outrun.
<1>10. \A p \in Calls : job'[p] # NoRequest =>
         /\ p # q /\ job[p] # NoRequest
         /\ IF job[p].op = "register"
            THEN job'[p] = [job[p] EXCEPT !.outrun = TRUE] /\ job[p] \in N!Registering
            ELSE job'[p] = job[p]
  <2>1. \A p \in Calls : job[p] # NoRequest /\ job[p].op = "register" => job[p] \in N!Registering
    BY DEF TokensInv, N!TypeOK, N!Sending, N!Deactivating
  <2> QED
    BY <1>2, <2>1 DEF N!DoneBy
<1>11. N!TypeOK'
  <2>1. row' \in [N!Keys -> N!FcmDeviceToken \cup {NoRow}]
    BY <1>2, <1>5, <1>7, <1>8
  <2>2. ASSUME NEW p \in Calls
        PROVE  job'[p] \in N!Registering \cup N!Sending \cup N!Deactivating \cup {NoRequest}
    <3>1. CASE job'[p] # NoRequest /\ job[p].op = "register"
      BY <1>10, <3>1 DEF N!Registering
    <3>2. CASE job'[p] # NoRequest /\ job[p].op # "register"
      BY <1>10, <3>2 DEF TokensInv, N!TypeOK
    <3>3. CASE job'[p] = NoRequest
      BY <3>3
    <3> QED
      BY <3>1, <3>2, <3>3
  <2>3. job' \in [Calls -> N!Registering \cup N!Sending \cup N!Deactivating \cup {NoRequest}]
    BY <1>2, <2>2 DEF N!DoneBy
  <2>4. raced' \subseteq Tokens
    <3>1. row'[j.key].token \in Tokens
      BY <1>5, <1>8 DEF N!FcmDeviceToken
    <3> QED
      BY <1>2, <3>1 DEF TokensInv, N!TypeOK
  <2>5. dismissed' \subseteq N!Keys
    BY <1>2, <1>3 DEF TokensInv, N!TypeOK
  <2> QED
    BY <2>1, <2>3, <2>4, <2>5 DEF N!TypeOK
<1>12. ActiveOnce'
  <2> SUFFICES ASSUME NEW k \in N!ActiveKeys', NEW l \in N!ActiveKeys',
                      row'[k].token = row'[l].token, k # l
               PROVE  row'[k].token \in raced'
    BY DEF ActiveOnce, N!ActiveOnce
  <2>1. k \in N!Keys /\ l \in N!Keys
    BY DEF N!ActiveKeys
  <2>2. \A o \in N!ActiveKeys' : o \in N!Keys /\ o # j.key =>
          o \in N!ActiveKeys /\ row'[o].token = row[o].token /\ o \notin j.others
    BY <1>7 DEF N!ActiveKeys, N!Exists
  <2>3. CASE k # j.key /\ l # j.key
    <3>1. row[k].token \in raced
      BY <2>1, <2>2, <2>3 DEF TokensInv, ActiveOnce, N!ActiveOnce
    <3> QED
      BY <1>2, <2>1, <2>2, <2>3, <3>1
  <2>4. CASE k = j.key \/ l = j.key
    <3>1. row'[k].token = row'[j.key].token
      BY <2>4
    <3>2. CASE j.outrun
      BY <1>2, <3>1, <3>2
    <3>3. CASE ~j.outrun
      <4>1. PICK o \in {k, l} : o # j.key
        OBVIOUS
      <4>2. o \in N!ActiveKeys /\ row[o].token = j.token /\ o \notin j.others
        BY <1>6, <1>8, <2>1, <2>2, <3>1, <3>3, <4>1
      <4> QED
        BY <1>1, <3>3, <4>1, <4>2 DEF JobFits
    <3> QED
      BY <3>2, <3>3
  <2> QED
    BY <2>3, <2>4
<1>13. ASSUME NEW p \in Calls, job'[p] # NoRequest
       PROVE  JobFits(job[p])'
  <2>1. job[p] # NoRequest /\ JobFits(job[p])
    BY <1>10, <1>13 DEF TokensInv
  <2>2. CASE job[p].op = "register"
    <3>1. /\ job[p] \in N!Registering /\ job'[p] = [job[p] EXCEPT !.outrun = TRUE]
      BY <1>10, <1>13, <2>2
    <3>2. /\ job'[p].op = "register" /\ job'[p].outrun /\ job'[p].others = job[p].others
          /\ job'[p].key = job[p].key /\ job'[p].found = job[p].found
          /\ job[p].key \in N!Keys /\ job[p].others \subseteq N!Keys
      BY <2>2, <3>1 DEF N!Registering
    <3> QED
      BY <1>9, <2>1, <2>2, <3>2 DEF JobFits
  <2>3. CASE job[p].op = "deactivate"
    <3>1. job'[p] = job[p] /\ job[p].found \subseteq N!Keys
      BY <1>10, <1>13, <2>1, <2>3 DEF TokensInv, N!TypeOK, N!Registering, N!Sending, N!Deactivating
    <3> QED
      BY <1>9, <2>1, <2>3, <3>1 DEF JobFits
  <2>4. CASE job[p].op \notin {"register", "deactivate"}
    BY <1>10, <1>13, <2>4 DEF JobFits
  <2> QED
    BY <2>2, <2>3, <2>4
<1> QED
  BY <1>11, <1>12, <1>13 DEF TokensInv

LEMMA TokensInvStep == TokensInv /\ [N!Next]_tokenVars => TokensInv'
<1> SUFFICES ASSUME TokensInv, [N!Next]_tokenVars PROVE TokensInv'
  OBVIOUS
<1>1. ASSUME NEW q \in Calls, NEW k \in N!Keys, NEW t \in Tokens, N!RegisterBegin(q, k, t)
      PROVE  TokensInv'
  BY <1>1, RegisterBeginKeepsTokens
<1>2. ASSUME NEW q \in Calls, N!RegisterCommit(q) PROVE TokensInv'
  BY <1>2, RegisterCommitKeepsTokens
<1>3. ASSUME NEW q \in Calls, NEW u, NEW T, NEW D, N!DeactivateBegin(q, u, T, D)
      PROVE  TokensInv'
  <2> DEFINE S == N!ActiveKeys \cap (N!Holding(T) \cap ({u} \X D))
  <2>1. /\ job' = [job EXCEPT ![q] = [op |-> "deactivate", found |-> S]] /\ UNCHANGED <<row, raced>>
        /\ dismissed' \subseteq N!Keys
    BY <1>3 DEF N!DeactivateBegin, N!Begin, N!Holding, TokensInv, N!TypeOK
  <2>2. S \in SUBSET N!Keys /\ \A k \in S : N!Exists(k)
    BY DEF N!ActiveKeys
  <2> HIDE DEF S
  <2> QED
    BY <2>1, <2>2, DeactivateBeginKeepsTokens
<1>4. ASSUME NEW q \in Calls, NEW U \in SUBSET Users, N!SendBegin(q, U) PROVE TokensInv'
  BY <1>4, SendBeginKeepsTokens
<1>5. ASSUME NEW q \in Calls, N!Rejected(q) PROVE TokensInv'
  <2>1. PICK T \in N!InvalidTokens(job[q].tokens) \ {{}} :
          /\ job' = [job EXCEPT ![q] = [op |-> "deactivate", found |-> N!ActiveKeys \cap N!Holding(T)]]
          /\ dismissed' = dismissed \cup N!Holding(T)
    BY <1>5 DEF N!Rejected
  <2>2. UNCHANGED <<row, raced>> /\ dismissed' \subseteq N!Keys
    BY <1>5, <2>1 DEF N!Rejected, N!Holding, TokensInv, N!TypeOK
  <2>3. /\ N!ActiveKeys \cap N!Holding(T) \in SUBSET N!Keys
        /\ \A k \in N!ActiveKeys \cap N!Holding(T) : N!Exists(k)
    BY DEF N!Holding
  <2> QED
    BY <2>1, <2>2, <2>3, DeactivateBeginKeepsTokens
<1>6. ASSUME NEW q \in Calls, N!DeactivateCommit(q) PROVE TokensInv'
  BY <1>6, DeactivateCommitKeepsTokens
<1>7. ASSUME NEW q \in Calls, N!End(q) PROVE TokensInv'
  BY <1>7, ReadingKeepsTokens DEF N!End, TokensInv, N!TypeOK
<1>8. CASE UNCHANGED tokenVars
  BY <1>8 DEF tokenVars, TokensInv, N!TypeOK, ActiveOnce, N!ActiveOnce, N!ActiveKeys, N!Exists, JobFits
<1> QED
  BY <1>1, <1>2, <1>3, <1>4, <1>5, <1>6, <1>7, <1>8 DEF N!Next

LEMMA TokensInvariant == BothSpec => []TokensInv
<1>1. BothInit => TokensInv
  BY TokensInvInit DEF BothInit
<1>2. TokensInv /\ [LoginNext \/ TokensNext]_<<vars, tokenVars>> => TokensInv'
  <2>1. [LoginNext \/ TokensNext]_<<vars, tokenVars>> => [N!Next]_tokenVars
    BY DEF LoginNext, TokensNext
  <2> QED
    BY <2>1, TokensInvStep
<1> QED
  BY <1>1, <1>2, PTL DEF BothSpec

(* A push token is active in one row, unless a registration that left it   *)
(* in a row was outrun by another one; deactivations and answers of the    *)
(* push service, however late, change nothing about that                   *)
(* (register_fcm_token, deactivate_fcm_token, _deactivate_tokens).         *)
THEOREM TokensAreActiveOnce == BothSpec => []ActiveOnce
<1>1. TokensInv => ActiveOnce
  BY DEF TokensInv
<1> QED
  BY <1>1, TokensInvariant, PTL

-----------------------------------------------------------------------------
\* Rows that get no notifications.

(* A request sets out to deactivate what it has reason to. *)
LEMMA ReadingKeepsSilent ==
    ASSUME TokensInv, SilentInv, NEW q \in Calls, NEW j, job' = [job EXCEPT ![q] = j],
           j # NoRequest => N!Targets(j) \subseteq dismissed',
           UNCHANGED row, dismissed \subseteq dismissed'
    PROVE  SilentInv'
<1>1. SilentForAReason'
  BY DEF SilentInv, SilentForAReason, N!SilentForAReason, N!Exists
<1>2. ASSUME NEW p \in Calls, job'[p] # NoRequest
      PROVE  N!Targets(job[p])' \subseteq dismissed'
  <2>1. N!Targets(job'[p]) \subseteq dismissed'
    BY <1>2 DEF SilentInv, TokensInv, N!TypeOK
  <2> QED
    BY <2>1 DEF N!Targets
<1> QED
  BY <1>1, <1>2 DEF SilentInv

LEMMA DeactivateCommitKeepsSilent ==
    ASSUME TokensInv, SilentInv, NEW q \in Calls, N!DeactivateCommit(q)
    PROVE  SilentInv'
<1>1. /\ job[q] # NoRequest /\ job[q].op = "deactivate"
      /\ row' = [k \in N!Keys |-> IF k \in job[q].found THEN [row[k] EXCEPT !.active = FALSE] ELSE row[k]]
      /\ job' = [job EXCEPT ![q] = NoRequest] /\ UNCHANGED dismissed
  BY DEF N!DeactivateCommit
<1>2. \A k \in N!Keys : k \in job[q].found => k \in dismissed
  BY <1>1 DEF SilentInv, N!Targets
<1>3. SilentForAReason'
  BY <1>1, <1>2 DEF SilentInv, SilentForAReason, N!SilentForAReason, N!Exists
<1>4. \A p \in Calls : job'[p] # NoRequest => job'[p] = job[p]
  BY <1>1 DEF TokensInv, N!TypeOK
<1> QED
  BY <1>1, <1>3, <1>4 DEF SilentInv, N!Targets

(* A registration makes its row active, unless that has just been          *)
(* deactivated; nobody is about to deactivate a row that is taken off the  *)
(* record.                                                                 *)
LEMMA RegisterCommitKeepsSilent ==
    ASSUME TokensInv, SilentInv, NEW q \in Calls, N!RegisterCommit(q)
    PROVE  SilentInv'
<1> DEFINE j == job[q]
<1>1. /\ j \in N!Registering /\ JobFits(j) /\ j # NoRequest /\ j.op = "register"
  <2>1. j # NoRequest /\ j.op = "register"
    BY DEF N!RegisterCommit
  <2>2. j \in N!Registering \cup N!Sending \cup N!Deactivating /\ JobFits(j)
    BY <2>1 DEF TokensInv, N!TypeOK
  <2> QED
    BY <2>1, <2>2 DEF N!Sending, N!Deactivating
<1>2. /\ row' = [k \in N!Keys |-> IF k = j.key THEN N!Registered(j)
                                ELSE IF k \in j.others THEN [row[k] EXCEPT !.active = FALSE]
                                ELSE row[k]]
      /\ dismissed' = IF N!Disturbed(q) THEN dismissed \cup {j.key} ELSE dismissed \ {j.key}
      /\ N!DoneBy(q)
  BY DEF N!RegisterCommit
<1>3. j.key \in N!Keys /\ j.others \subseteq N!Keys /\ j.key \notin j.others
  BY <1>1 DEF N!Registering, JobFits
<1>4. j.others \subseteq dismissed
  BY <1>1, <1>3 DEF SilentInv, N!Targets
<1>5. ~N!Disturbed(q) => N!Registered(j).active
  BY <1>1 DEF N!Disturbed, N!Registered
<1>6. row'[j.key] = N!Registered(j)
  BY <1>2, <1>3
<1>7. \A k \in N!Keys \ {j.key} : k \in dismissed => k \in dismissed'
  BY <1>2
<1>8. N!Disturbed(q) => j.key \in dismissed'
  BY <1>2
<1>9. SilentForAReason'
  <2> SUFFICES ASSUME NEW k \in N!Keys, row'[k] # NoRow, ~row'[k].active
               PROVE  k \in dismissed'
    BY DEF SilentForAReason, N!SilentForAReason, N!Exists
  <2>1. CASE k = j.key
    BY <1>5, <1>6, <1>8, <2>1
  <2>2. CASE k # j.key /\ k \in j.others
    BY <1>4, <1>7, <2>2
  <2>3. CASE k # j.key /\ k \notin j.others
    <3>1. row'[k] = row[k]
      BY <1>2, <2>3
    <3> QED
      BY <1>7, <2>3, <3>1 DEF SilentInv, SilentForAReason, N!SilentForAReason, N!Exists
  <2> QED
    BY <2>1, <2>2, <2>3
<1>10. ASSUME NEW p \in Calls, job'[p] # NoRequest
       PROVE  N!Targets(job[p])' \subseteq dismissed'
  <2>1. /\ p # q /\ job[p] # NoRequest
        /\ job'[p] = job[p] \/ job'[p] = [job[p] EXCEPT !.outrun = TRUE]
    BY <1>2, <1>10 DEF N!DoneBy
  <2>2. job[p] \in N!Registering \cup N!Sending \cup N!Deactivating
    BY <2>1 DEF TokensInv, N!TypeOK
  <2>3. N!Targets(job'[p]) = N!Targets(job[p])
    <3>1. CASE job[p].op = "register"
      <4>1. job[p] \in N!Registering
        BY <2>2, <3>1 DEF N!Sending, N!Deactivating
      <4>2. job'[p].op = "register" /\ job'[p].others = job[p].others
        BY <2>1, <3>1, <4>1 DEF N!Registering
      <4> QED
        BY <3>1, <4>2 DEF N!Targets
    <3>2. CASE job[p].op # "register"
      BY <1>2, <1>10, <2>1, <3>2 DEF N!DoneBy
    <3> QED
      BY <3>1, <3>2
  <2>4. N!Targets(job[p]) \subseteq dismissed
    BY <2>1 DEF SilentInv
  <2>5. j.key \in N!Targets(job[p]) => N!Disturbed(q)
    BY <2>1 DEF N!Disturbed
  <2>6. N!Targets(job[p]) \subseteq N!Keys
    BY DEF N!Targets
  <2>7. N!Targets(job[p])' = N!Targets(job'[p])
    BY DEF N!Targets
  <2> QED
    BY <1>7, <1>8, <2>3, <2>4, <2>5, <2>6, <2>7
<1> QED
  BY <1>9, <1>10 DEF SilentInv

LEMMA SilentInvStep == TokensInv /\ SilentInv /\ [N!Next]_tokenVars => SilentInv'
<1> SUFFICES ASSUME TokensInv, SilentInv, [N!Next]_tokenVars PROVE SilentInv'
  OBVIOUS
<1>1. ASSUME NEW q \in Calls, NEW k \in N!Keys, NEW t \in Tokens, N!RegisterBegin(q, k, t)
      PROVE  SilentInv'
  <2> DEFINE j == [op |-> "register", key |-> k, token |-> t, found |-> row[k],
                   others |-> N!Duplicates(k, t), outrun |-> FALSE]
  <2>1. /\ job' = [job EXCEPT ![q] = j] /\ UNCHANGED row
        /\ dismissed' = dismissed \cup (N!Holding({t}) \ {k})
    BY <1>1 DEF N!RegisterBegin, N!Begin
  <2>2. N!Targets(j) \subseteq dismissed'
    BY <2>1 DEF N!Targets, N!Duplicates
  <2> QED
    BY <2>1, <2>2, ReadingKeepsSilent
<1>2. ASSUME NEW q \in Calls, N!RegisterCommit(q) PROVE SilentInv'
  BY <1>2, RegisterCommitKeepsSilent
<1>3. ASSUME NEW q \in Calls, NEW u, NEW T, NEW D, N!DeactivateBegin(q, u, T, D)
      PROVE  SilentInv'
  <2> DEFINE rows == N!Holding(T) \cap ({u} \X D)
             j == [op |-> "deactivate", found |-> N!ActiveKeys \cap rows]
  <2>1. job' = [job EXCEPT ![q] = j] /\ UNCHANGED row /\ dismissed' = dismissed \cup rows
    BY <1>3 DEF N!DeactivateBegin, N!Begin
  <2>2. N!Targets(j) \subseteq dismissed'
    BY <2>1 DEF N!Targets
  <2> QED
    BY <2>1, <2>2, ReadingKeepsSilent
<1>4. ASSUME NEW q \in Calls, NEW U \in SUBSET Users, N!SendBegin(q, U) PROVE SilentInv'
  <2>1. PICK T : /\ job' = [job EXCEPT ![q] = [op |-> "send", tokens |-> T]]
                 /\ UNCHANGED row /\ dismissed \subseteq dismissed'
    BY <1>4 DEF N!SendBegin, N!Begin
  <2>2. N!Targets([op |-> "send", tokens |-> T]) \subseteq dismissed'
    BY DEF N!Targets
  <2> QED
    BY <2>1, <2>2, ReadingKeepsSilent
<1>5. ASSUME NEW q \in Calls, N!Rejected(q) PROVE SilentInv'
  <2>1. PICK T : /\ job' = [job EXCEPT ![q] = [op |-> "deactivate", found |-> N!ActiveKeys \cap N!Holding(T)]]
                 /\ dismissed' = dismissed \cup N!Holding(T)
    BY <1>5 DEF N!Rejected
  <2>2. UNCHANGED row
    BY <1>5 DEF N!Rejected
  <2>3. N!Targets([op |-> "deactivate", found |-> N!ActiveKeys \cap N!Holding(T)]) \subseteq dismissed'
    BY <2>1 DEF N!Targets
  <2> QED
    BY <2>1, <2>2, <2>3, ReadingKeepsSilent
<1>6. ASSUME NEW q \in Calls, N!DeactivateCommit(q) PROVE SilentInv'
  BY <1>6, DeactivateCommitKeepsSilent
<1>7. ASSUME NEW q \in Calls, N!End(q) PROVE SilentInv'
  BY <1>7, ReadingKeepsSilent DEF N!End
<1>8. CASE UNCHANGED tokenVars
  BY <1>8 DEF tokenVars, SilentInv, SilentForAReason, N!SilentForAReason, N!Exists, N!Targets
<1> QED
  BY <1>1, <1>2, <1>3, <1>4, <1>5, <1>6, <1>7, <1>8 DEF N!Next

(* A row that is inactive has been turned off, rejected or replaced since  *)
(* it was registered, unless that overlapped with a request that was about *)
(* to deactivate it (register_fcm_token, deactivate_fcm_token,             *)
(* _deactivate_tokens).                                                    *)
THEOREM SilenceHasAReason == BothSpec => []SilentForAReason
<1>1. BothInit => SilentInv
  BY DEF BothInit, N!Init, SilentInv, SilentForAReason, N!SilentForAReason, N!Exists
<1>2. TokensInv /\ SilentInv /\ [LoginNext \/ TokensNext]_<<vars, tokenVars>> => SilentInv'
  <2>1. [LoginNext \/ TokensNext]_<<vars, tokenVars>> => [N!Next]_tokenVars
    BY DEF LoginNext, TokensNext
  <2> QED
    BY <2>1, SilentInvStep
<1>3. SilentInv => SilentForAReason
  BY DEF SilentInv
<1> QED
  BY <1>1, <1>2, <1>3, TokensInvariant, PTL DEF BothSpec
=============================================================================
