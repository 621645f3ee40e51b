--------------------------- MODULE Notifications ---------------------------
(***************************************************************************)
(* Push tokens of users' devices (app/services/notification_service.py).   *)
(*                                                                         *)
(* There is one row for each user and device that has ever registered.  A  *)
(* token names an installation of the app: when another user logs in on    *)
(* it, or its device id changes, the token comes back under another row.   *)
(*                                                                         *)
(* A handler is a Begin, which reads, and a commit, between which others   *)
(* may run.  A commit writes the columns that differ from what was read    *)
(* (SQLAlchemy's UPDATE), so that a registration that finds its row active *)
(* does not make it active again.                                          *)
(***************************************************************************)
EXTENDS Naturals, FiniteSets

CONSTANTS Users, Devices, Tokens,
          Requests,   \* requests that may be under way at a time
          NoRow, NoRequest

Keys == Users \X Devices

(* FcmDeviceToken, less what is only shown to administrators. *)
FcmDeviceToken == [token : Tokens, active : BOOLEAN]

(* What handlers keep between their reads and their commit.  The last two  *)
(* are those of send_admin_notification before and after the push service  *)
(* has answered; deactivate_fcm_token shares the last.                     *)
Registering == [op : {"register"}, key : Keys, token : Tokens,
                found : FcmDeviceToken \cup {NoRow}, others : SUBSET Keys, outrun : BOOLEAN]
Sending == [op : {"send"}, tokens : SUBSET Tokens]
Deactivating == [op : {"deactivate"}, found : SUBSET Keys]

VARIABLES row,     \* fcm_device_tokens, by user and device
          job,     \* what each request is doing
          raced,   \* history: tokens registered by a request that was outrun
          dismissed \* history: rows for which a request has had reason to
                    \* deactivate them, until they are registered undisturbed

vars == <<row, job, raced, dismissed>>
----------------------------------------------------------------------------
TypeOK ==
  /\ row \in [Keys -> FcmDeviceToken \cup {NoRow}]
  /\ job \in [Requests -> Registering \cup Sending \cup Deactivating \cup {NoRequest}]
  /\ raced \subseteq Tokens
  /\ dismissed \subseteq Keys

Init ==
  /\ row = [k \in Keys |-> NoRow]
  /\ job = [r \in Requests |-> NoRequest]
  /\ raced = {}
  /\ dismissed = {}

Exists(k) == row[k] # NoRow

ActiveKeys == {k \in Keys : Exists(k) /\ row[k].active}

Holding(S) == {k \in Keys : Exists(k) /\ row[k].token \in S}

(* A request begins, with reason to deactivate the rows K. *)
Begin(r, j, K) ==
  /\ job[r] = NoRequest
  /\ job' = [job EXCEPT ![r] = j]
  /\ dismissed' = dismissed \cup K
  /\ UNCHANGED <<row, raced>>

(* What a request is about to deactivate. *)
Targets(j) ==
  {k \in Keys : \/ j.op = "register" /\ k \in j.others
                \/ j.op = "deactivate" /\ k \in j.found}

(* A registration that is still under way when another one commits has     *)
(* been outrun by it: it may not know the row.                             *)
DoneBy(r) ==
  job' = [s \in Requests |->
    IF s = r THEN NoRequest
    ELSE IF job[s] # NoRequest /\ job[s].op = "register" THEN [job[s] EXCEPT !.outrun = TRUE]
    ELSE job[s]]
----------------------------------------------------------------------------
\* Mutant: the token is looked for in other rows of the same user only.
DuplicatesOfUser(k, t) == {o \in ActiveKeys \cap Holding({t}) : o # k /\ o[1] = k[1]}

(* The other rows in which a token is active. *)
Duplicates(k, t) == (ActiveKeys \cap Holding({t})) \ {k}

(* register_fcm_token, up to its commit. *)
RegisterBegin(r, k, t) ==
  Begin(r, [op |-> "register", key |-> k, token |-> t, found |-> row[k],
            others |-> Duplicates(k, t), outrun |-> FALSE],
           Holding({t}) \ {k})

\* Mutant: the row gets the token, and stays deactivated if it was.
RegisteredQuietly(j) ==
  IF j.found = NoRow THEN [token |-> j.token, active |-> TRUE]
  ELSE [token |-> IF j.found.token = j.token THEN row[j.key].token ELSE j.token,
        active |-> row[j.key].active]

(* The row of the user and device, as a registration leaves it. *)
Registered(j) ==
  IF j.found = NoRow THEN [token |-> j.token, active |-> TRUE]
  ELSE [token |-> IF j.found.token = j.token THEN row[j.key].token ELSE j.token,
        active |-> IF j.found.active THEN row[j.key].active ELSE TRUE]

(* Somebody is about to deactivate the row that request r registers, or    *)
(* has done so since r found it active.                                    *)
Disturbed(r) ==
  \/ job[r].found # NoRow /\ job[r].found.active /\ ~row[job[r].key].active
  \/ \E s \in Requests \ {r} : job[s] # NoRequest /\ job[r].key \in Targets(job[s])

(* A second row for the user and device is refused by the unique key, and  *)
(* the request fails.                                                      *)
RegisterCommit(r) ==
  LET j == job[r] IN
  /\ j # NoRequest
  /\ j.op = "register"
  /\ j.found = NoRow => ~Exists(j.key)
  /\ row' = [k \in Keys |-> IF k = j.key THEN Registered(j)
                            ELSE IF k \in j.others THEN [row[k] EXCEPT !.active = FALSE]
                            ELSE row[k]]
  /\ raced' = IF j.outrun THEN raced \cup {row'[j.key].token} ELSE raced
  /\ dismissed' = IF Disturbed(r) THEN dismissed \cup {j.key} ELSE dismissed \ {j.key}
  /\ DoneBy(r)

(* deactivate_fcm_token: the user's active rows, those with the token and  *)
(* of the device if these are given.                                       *)
DeactivateBegin(r, u, T, D) ==
  LET rows == Holding(T) \cap ({u} \X D)
  IN  Begin(r, [op |-> "deactivate", found |-> ActiveKeys \cap rows], rows)

(* send_admin_notification: the active rows of all or of some users. *)
SendBegin(r, U) ==
  Begin(r, [op |-> "send", tokens |-> {row[k].token : k \in ActiveKeys \cap (U \X Devices)}], {})

(* FirebaseNotificationSender.send: the tokens that are answered with one  *)
(* of the codes for a token that is no more, if any.                       *)
InvalidTokens(tokens) == SUBSET tokens

(* _deactivate_tokens looks for the rows that hold such a token by now.    *)
(* Those that are inactive already are not written.                        *)
Rejected(r) ==
  /\ job[r] # NoRequest
  /\ job[r].op = "send"
  /\ \E T \in InvalidTokens(job[r].tokens) \ {{}} :
       /\ job' = [job EXCEPT ![r] = [op |-> "deactivate", found |-> ActiveKeys \cap Holding(T)]]
       /\ dismissed' = dismissed \cup Holding(T)
  /\ UNCHANGED <<row, raced>>

(* The rows that were found are deactivated, whatever they hold by now. *)
DeactivateCommit(r) ==
  /\ job[r] # NoRequest
  /\ job[r].op = "deactivate"
  /\ row' = [k \in Keys |-> IF k \in job[r].found THEN [row[k] EXCEPT !.active = FALSE] ELSE row[k]]
  /\ job' = [job EXCEPT ![r] = NoRequest]
  /\ UNCHANGED <<raced, dismissed>>

(* A request ends with nothing to write, or fails: no token was rejected,  *)
(* the push service is not configured, a unique key is taken.              *)
End(r) ==
  /\ job[r] # NoRequest
  /\ job' = [job EXCEPT ![r] = NoRequest]
  /\ UNCHANGED <<row, raced, dismissed>>

Next ==
  \E r \in Requests :
    \/ \E k \in Keys, t \in Tokens : RegisterBegin(r, k, t)
    \/ RegisterCommit(r)
    \/ \E u \in Users, T \in {Tokens} \cup {{t} : t \in Tokens},
          D \in {Devices} \cup {{d} : d \in Devices} : DeactivateBegin(r, u, T, D)
    \/ \E U \in SUBSET Users \ {{}} : SendBegin(r, U)
    \/ Rejected(r)
    \/ DeactivateCommit(r)
    \/ End(r)

Spec == Init /\ [][Next]_vars
----------------------------------------------------------------------------
(* An installation of the app gets a notification once and as one user: a  *)
(* token is active in one row, unless a registration that left it in a row *)
(* was outrun by another.                                                  *)
(* A deactivation or a rejected token never brings a second row about,     *)
(* however late it comes.                                                  *)
ActiveOnce ==
  \A k, l \in ActiveKeys : row[k].token = row[l].token /\ k # l => row[k].token \in raced

(* A device that has registered gets notifications until its user turns    *)
(* them off, the push service rejects its token or the token is registered *)
(* in another row.  The exception are registrations that commit while a    *)
(* request which has found the row is about to deactivate it, or has just  *)
(* done so.  The time in which a send waits for the push service is not    *)
(* part of that: who comes back with another token then stays active.      *)
SilentForAReason ==
  \A k \in Keys : Exists(k) /\ ~row[k].active => k \in dismissed
=============================================================================
