------------------------------ MODULE Account -------------------------------
(***************************************************************************)
(* One user account: its password, its sessions, its failed logins and its *)
(* reset token.  src/src/services/auth.service.ts (login, logout,          *)
(* validateSession), src/src/services/password-reset.service.ts,           *)
(* AdminUserService.update, the session and user repositories and the      *)
(* quotas of src/src/lib/rate-limiter.ts.                                  *)
(*                                                                         *)
(* Nothing but the administrator's update runs in a transaction: every     *)
(* action of a handler below is one statement.                             *)
(***************************************************************************)
EXTENDS Integers, SequencesExt

CONSTANTS
  Handlers,     \* logins, reset requests and resets in flight
  Passwords,
  MaxSessions,  \* MAX_SESSIONS_PER_USER
  MaxFailures,  \* failures counted before the one that locks the account
  MaxAttempts,  \* MAX_ATTEMPTS of a quota
  NoPassword

ASSUME AccountAssumption ==
  /\ IsFiniteSet(Handlers)
  /\ MaxSessions \in Nat \ {0} /\ MaxFailures \in Nat \ {0}
  /\ MaxAttempts \in Nat \ {0}
  /\ NoPassword \notin Passwords

VARIABLES
  active, password,   \* users.isActive and users.password
  failed, locked,     \* failedLoginAttempts; lockedUntil lies in the future
  resettable,         \* a reset token is stored and has not expired
  live,               \* valid sessions, oldest first: the logins that listed
                      \* them for revocation and, as history, the password
                      \* they were opened with
  attempts,           \* count of the bucket of its logins; 0: there is no row
  at,
  given,              \* the password a handler was sent; a login that was
                      \* past its check when sessions were revoked loses it
  prior,              \* the failed logins it read
  spared              \* history: failures since the last login or lock that
                      \* did not lock the account

row == <<active, password, resettable>>
guard == <<failed, locked, spared>>
local == <<given, prior>>
vars == <<row, guard, live, attempts, at, local>>

(* login past its lookup of the user, with the right password *)
Passing == {"locked", "reset", "welcome", "list", "trim", "create"}

Places ==
  {"idle", "find", "mistaken", "prior", "failed", "store", "check", "write", "revoke"}
    \cup Passing

Init ==
  /\ active = TRUE /\ password \in Passwords
  /\ failed = 0 /\ locked = FALSE
  /\ resettable = FALSE
  /\ live = <<>>
  /\ attempts = 0
  /\ at = [h \in Handlers |-> "idle"]
  /\ given = [h \in Handlers |-> NoPassword]
  /\ prior = [h \in Handlers |-> 0]
  /\ spared = 0

-----------------------------------------------------------------------------
(* What ends a handler forgets what it knew. *)
Forget(h) ==
  /\ given' = [given EXCEPT ![h] = NoPassword]
  /\ prior' = [prior EXCEPT ![h] = 0]

Move(h, from, to) == at[h] = from /\ at' = [at EXCEPT ![h] = to]

Step(h, from, to) ==
  /\ Move(h, from, to)
  /\ IF to = "idle" THEN Forget(h) ELSE UNCHANGED local

(* checkRateLimit: one upsert, capped at MaxAttempts + 1. *)
Counted == IF attempts <= MaxAttempts THEN attempts + 1 ELSE attempts

(* The password in force when a login looked the user up is of no account  *)
(* once sessions have been revoked, or should have been.                   *)
Overtaken ==
  [h \in Handlers |-> IF at[h] \in Passing \cup {"revoke"} THEN NoPassword ELSE given[h]]

(* session.updateMany over all sessions of the user. *)
RevokeAll == live' = <<>> /\ given' = Overtaken

-----------------------------------------------------------------------------
(* login *)
Attempt(h, p) ==
  /\ Move(h, "idle", "find")
  /\ attempts' = Counted /\ Counted <= MaxAttempts
  /\ given' = [given EXCEPT ![h] = p]
  /\ UNCHANGED <<row, guard, live, prior>>

TurnedAway ==
  /\ attempts' = Counted /\ Counted > MaxAttempts
  /\ UNCHANGED <<row, guard, live, at, local>>

(* The password compared after isLocked is the one that is read here.      *)
Find(h) ==
  /\ IF active
     THEN Move(h, "find", IF given[h] = password THEN "locked" ELSE "mistaken")
     ELSE Move(h, "find", "idle")
  /\ given' = [given EXCEPT ![h] =
       IF active /\ given[h] = password THEN password ELSE NoPassword]
  /\ UNCHANGED <<row, guard, live, attempts, prior>>

IsLocked(h) ==
  /\ \/ Step(h, "locked", IF locked THEN "idle" ELSE "reset")
     \/ Step(h, "mistaken", IF locked THEN "idle" ELSE "prior")
  /\ UNCHANGED <<row, guard, live, attempts>>

ReadFailures(h) ==
  /\ Move(h, "prior", "failed")
  /\ prior' = [prior EXCEPT ![h] = failed]
  /\ UNCHANGED <<row, guard, live, attempts, given>>

(* Whether the account is locked only asks for MaxFailures: the model      *)
(* counts no further.                                                      *)
OneMore(n) == IF n < MaxFailures THEN n + 1 ELSE n

(* Slip: the count that was read is written back plus one. *)
IncrementReadValue(h) ==
  /\ Step(h, "failed", "idle")
  /\ failed' = OneMore(prior[h])
  /\ locked' = (locked \/ prior[h] >= MaxFailures)
  /\ spared' = IF prior[h] >= MaxFailures THEN 0 ELSE spared + 1
  /\ UNCHANGED <<row, live, attempts>>

(* incrementFailedAttempts, its second statement. *)
IncrementFailures(h) ==
  /\ Step(h, "failed", "idle")
  /\ failed' = OneMore(failed)
  /\ locked' = (locked \/ prior[h] >= MaxFailures)
  /\ spared' = IF prior[h] >= MaxFailures THEN 0 ELSE spared + 1
  /\ UNCHANGED <<row, live, attempts>>

ResetRateLimit(h) ==
  /\ Step(h, "reset", "welcome")
  /\ attempts' = 0
  /\ UNCHANGED <<row, guard, live>>

UpdateLastLogin(h) ==
  /\ Step(h, "welcome", "list")
  /\ failed' = 0 /\ locked' = FALSE /\ spared' = 0
  /\ UNCHANGED <<row, live, attempts>>

(* Slip: the oldest one only. *)
OldestOne == IF Len(live) > MaxSessions THEN {1} ELSE {}

(* revokeOldestSessions keeps the MaxSessions youngest. *)
Oldest == 1 .. Len(live) - MaxSessions

ListSessions(h) ==
  /\ Move(h, "list", IF Oldest = {} THEN "create" ELSE "trim")
  /\ live' = [i \in DOMAIN live |->
       IF i \in Oldest THEN [live[i] EXCEPT !.listed = @ \cup {h}] ELSE live[i]]
  /\ UNCHANGED <<row, guard, attempts, local>>

(* The sessions that h did not list, in their order. *)
Unlisted(h) ==
  LET kept[n \in 0 .. Len(live)] ==
        IF n = 0 THEN <<>>
        ELSE IF h \in live[n].listed THEN kept[n - 1]
        ELSE Append(kept[n - 1], live[n])
  IN  kept[Len(live)]

RevokeOldest(h) ==
  /\ Move(h, "trim", "create")
  /\ live' = Unlisted(h)
  /\ UNCHANGED <<row, guard, attempts, local>>

CreateSession(h) ==
  /\ Step(h, "create", "idle")
  /\ live' = Append(live, [opened |-> given[h], listed |-> {}])
  /\ UNCHANGED <<row, guard, attempts>>

-----------------------------------------------------------------------------
(* logout, a session that expires, and validateSession of an inactive user *)
EndSession(i) ==
  /\ live' = RemoveAt(live, i)
  /\ UNCHANGED <<row, guard, attempts, at, local>>

(* requestPasswordReset.  The quotas of the requests and of the resets     *)
(* have buckets of their own: a refusal there is a Stop.                   *)
FindForReset(h) ==
  /\ active
  /\ Step(h, "idle", "store")
  /\ UNCHANGED <<row, guard, live, attempts>>

StoreToken(h) ==
  /\ Step(h, "store", "idle")
  /\ resettable' = TRUE
  /\ UNCHANGED <<active, password, guard, live, attempts>>

(* resetPassword: the lookup reads isActive and the token's expiry too;    *)
(* both are checked after the quota that follows it.                       *)
FindByToken(h, p) ==
  /\ resettable
  /\ Move(h, "idle", "check")
  /\ given' = [given EXCEPT ![h] = IF active THEN p ELSE NoPassword]
  /\ UNCHANGED <<row, guard, live, attempts, prior>>

(* The token that was found has expired since: the token stored by now is  *)
(* cleared.                                                                *)
ClearExpired(h) ==
  /\ Step(h, "check", "idle")
  /\ resettable' = FALSE
  /\ UNCHANGED <<active, password, guard, live, attempts>>

CheckActive(h) ==
  /\ Step(h, "check", IF given[h] = NoPassword THEN "idle" ELSE "write")
  /\ UNCHANGED <<row, guard, live, attempts>>

SetPassword(h) == password' = given[h] /\ resettable' = FALSE

RevokeStep(h, from, to) == Move(h, from, to) /\ RevokeAll /\ UNCHANGED prior

(* Slip: the sessions are revoked first, the password is written last. *)
RevokeThenSet(h) ==
  \/ /\ RevokeStep(h, "write", "revoke")
     /\ UNCHANGED <<row, guard, attempts>>
  \/ /\ Step(h, "revoke", "idle")
     /\ SetPassword(h)
     /\ UNCHANGED <<active, guard, live, attempts>>

(* The password and the token are one statement, the sessions the next. *)
SetThenRevoke(h) ==
  \/ /\ Step(h, "write", "revoke")
     /\ SetPassword(h)
     /\ UNCHANGED <<active, guard, live, attempts>>
  \/ /\ RevokeStep(h, "revoke", "idle")
     /\ UNCHANGED <<row, guard, attempts>>

(* AdminUserService.update: one transaction. *)
Administer(a, p) ==
  /\ active' = a /\ password' = p
  /\ IF p # password \/ ~a THEN RevokeAll ELSE UNCHANGED <<live, given>>
  /\ UNCHANGED <<resettable, guard, attempts, at, prior>>

-----------------------------------------------------------------------------
(* Time passes: a lock, a token or a bucket expires. *)
Unlock ==
  /\ locked /\ locked' = FALSE
  /\ UNCHANGED <<row, failed, spared, live, attempts, at, local>>

ExpireToken ==
  /\ resettable /\ resettable' = FALSE
  /\ UNCHANGED <<active, password, guard, live, attempts, at, local>>

ExpireBucket ==
  /\ attempts > 0 /\ attempts' = 0
  /\ UNCHANGED <<row, guard, live, at, local>>

(* A statement fails, or the process stops: the handler goes no further.   *)
(* A reset that stops there never revokes the sessions.                    *)
Stop(h) ==
  /\ at[h] \notin {"idle", "revoke"}
  /\ at' = [at EXCEPT ![h] = "idle"]
  /\ Forget(h)
  /\ live' = [i \in DOMAIN live |-> [live[i] EXCEPT !.listed = @ \ {h}]]
  /\ UNCHANGED <<row, guard, attempts>>

StopUnrevoked(h) ==
  /\ Move(h, "revoke", "idle")
  /\ given' = Overtaken
  /\ live' = [i \in DOMAIN live |-> [live[i] EXCEPT !.opened = NoPassword]]
  /\ UNCHANGED <<row, guard, attempts, prior>>

LoginStep(h) ==
  \/ \E p \in Passwords : Attempt(h, p)
  \/ Find(h) \/ IsLocked(h) \/ ReadFailures(h) \/ IncrementFailures(h)
  \/ ResetRateLimit(h) \/ UpdateLastLogin(h)
  \/ ListSessions(h) \/ RevokeOldest(h) \/ CreateSession(h)

ResetStep(h) ==
  \/ FindForReset(h) \/ StoreToken(h)
  \/ \E p \in Passwords : FindByToken(h, p)
  \/ ClearExpired(h) \/ CheckActive(h) \/ SetThenRevoke(h)

Next ==
  \/ \E h \in Handlers : LoginStep(h) \/ ResetStep(h) \/ Stop(h) \/ StopUnrevoked(h)
  \/ TurnedAway
  \/ \E i \in DOMAIN live : EndSession(i)
  \/ \E a \in BOOLEAN, p \in Passwords : Administer(a, p)
  \/ Unlock \/ ExpireToken \/ ExpireBucket

Spec == Init /\ [][Next]_vars

-----------------------------------------------------------------------------
TypeOK ==
  /\ active \in BOOLEAN /\ password \in Passwords
  /\ failed \in Nat /\ locked \in BOOLEAN /\ resettable \in BOOLEAN
  /\ live \in Seq([opened : Passwords \cup {NoPassword}, listed : SUBSET Handlers])
  /\ attempts \in 0 .. MaxAttempts + 1
  /\ at \in [Handlers -> Places]
  /\ given \in [Handlers -> Passwords \cup {NoPassword}]
  /\ prior \in [Handlers -> Nat]
  /\ spared \in Nat

(* The limit of sessions is checked before the new one is created, in      *)
(* statements of their own: a user may have more sessions than the limit,  *)
(* yet at most one more for each login that can be in flight.              *)
(* (auth.service.ts:95-109, session.repository.ts:155-189)                 *)
SessionsBounded == Len(live) <= MaxSessions + Cardinality(Handlers)

(* A session opened with a password that has been replaced is valid only   *)
(* while the revocation that follows the new password is still to come, or *)
(* when its login had looked the user up before that revocation, or when a *)
(* reset stopped between the two.                                          *)
(* (password-reset.service.ts:183-190, auth.service.ts:60,102)             *)
ReplacedPasswordEndsSessions ==
  \A i \in DOMAIN live :
    \/ live[i].opened \in {password, NoPassword}
    \/ \E h \in Handlers : at[h] = "revoke"

(* The failed logins are read in one statement and counted in the next:    *)
(* more than MaxFailures may pass without locking the account, yet at most *)
(* one more for each other login in flight.  (user.repository.ts:138-156)  *)
FailuresBounded == spared <= MaxFailures - 1 + Cardinality(Handlers)
=============================================================================
