------------------------ MODULE AccountBackupProofs ------------------------
(***************************************************************************)
(* Two parts of the application that share nothing, an account and the     *)
(* backups: for any number of handlers and any limits, and for any number  *)
(* of processes, operations and rows.                                      *)
(*                                                                         *)
(* FailuresBounded is not inductive.  As long as the count is below the    *)
(* limit it is at least the failures let pass.  Once it has reached the    *)
(* limit, only the handlers that read it before are still to let one pass, *)
(* and each of them does so once.                                          *)
(*                                                                         *)
(* SessionsBounded speaks of all the sessions, its induction of any set of *)
(* them: revocation takes away a set that nobody foresees.  A set larger   *)
(* than the limit leaves room for one more session of each login that has  *)
(* checked the limit without seeing any of it.                             *)
(*                                                                         *)
(* ReplacedPasswordEndsSessions needs what the logins past their lookup    *)
(* remember: the password in force, or a revocation is still to come.      *)
(*                                                                         *)
(* The journal of the restores tells the truth because it follows the      *)
(* operation, and no committed row is lost because the snapshot that       *)
(* pg_dump is writing, and then its dump, holds what a restore overwrites. *)
(***************************************************************************)
EXTENDS Account, Backup, SumsProofs, SequenceTheorems

CountTypes ==
  /\ at \in [Handlers -> Places]
  /\ prior \in [Handlers -> Nat]
  /\ failed \in 0 .. MaxFailures
  /\ spared \in Nat

(* The failed logins that will not lock the account. *)
Sparing == {h \in Handlers : at[h] = "failed" /\ prior[h] < MaxFailures}

CountInv ==
  /\ failed < MaxFailures => spared <= failed
  /\ failed = MaxFailures =>
       spared + Cardinality(Sparing) <= MaxFailures - 1 + Cardinality(Handlers)

FailuresInv == CountTypes /\ CountInv

-----------------------------------------------------------------------------
(* How many can be sparing. *)
LEMMA SparingFinite ==
  /\ IsFiniteSet(Sparing) /\ Cardinality(Sparing) \in Nat
  /\ Cardinality(Handlers) \in Nat /\ Cardinality(Sparing) <= Cardinality(Handlers)
BY AccountAssumption, FS_Subset, FS_CardinalityType, Sparing \in SUBSET Handlers DEF Sparing

LEMMA FailuresInit == Init => FailuresInv
<1> SUFFICES ASSUME Init PROVE FailuresInv
  OBVIOUS
<1>1. CountTypes
  BY AccountAssumption DEF Init, CountTypes, Places
<1> QED
  BY <1>1, AccountAssumption DEF Init, FailuresInv, CountInv

(* Steps that count nothing and make nobody sparing. *)
LEMMA NotCounting ==
  ASSUME FailuresInv, CountTypes', Sparing' \subseteq Sparing,
         UNCHANGED <<failed, spared>>
  PROVE  FailuresInv'
<1>1. Cardinality(Sparing') \in Nat /\ Cardinality(Sparing') <= Cardinality(Sparing)
  BY SparingFinite, FS_Subset, FS_CardinalityType
<1> QED
  BY <1>1, SparingFinite, AccountAssumption DEF FailuresInv, CountTypes, CountInv

LEMMA FailuresStep ==
  ASSUME FailuresInv, [Next]_vars
  PROVE  FailuresInv'
<1> USE AccountAssumption
<1>0. CountTypes /\ CountInv
  BY DEF FailuresInv
<1>1. ASSUME NEW h \in Handlers, NEW p \in Passwords, Attempt(h, p) PROVE FailuresInv'
  BY <1>0, <1>1, NotCounting DEF Attempt, Move, guard, CountTypes, Places, Passing, Sparing
<1>2. ASSUME NEW h \in Handlers, Find(h) PROVE FailuresInv'
  BY <1>0, <1>2, NotCounting DEF Find, Move, guard, CountTypes, Places, Passing, Sparing
<1>3. ASSUME NEW h \in Handlers, IsLocked(h) PROVE FailuresInv'
  BY <1>0, <1>3, NotCounting
     DEF IsLocked, Move, Step, Forget, local, guard, CountTypes, Places, Passing, Sparing
<1>4. ASSUME NEW h \in Handlers, ResetRateLimit(h) PROVE FailuresInv'
  BY <1>0, <1>4, NotCounting
     DEF ResetRateLimit, Move, Step, Forget, local, guard, CountTypes, Places, Passing, Sparing
<1>5. ASSUME NEW h \in Handlers, ListSessions(h) PROVE FailuresInv'
  BY <1>0, <1>5, NotCounting
     DEF ListSessions, Move, local, guard, CountTypes, Places, Passing, Sparing
<1>6. ASSUME NEW h \in Handlers, RevokeOldest(h) PROVE FailuresInv'
  BY <1>0, <1>6, NotCounting
     DEF RevokeOldest, Move, local, guard, CountTypes, Places, Passing, Sparing
<1>7. ASSUME NEW h \in Handlers, CreateSession(h) PROVE FailuresInv'
  BY <1>0, <1>7, NotCounting
     DEF CreateSession, Move, Step, Forget, local, guard, CountTypes, Places, Passing, Sparing
<1>8. ASSUME NEW h \in Handlers, FindForReset(h) PROVE FailuresInv'
  BY <1>0, <1>8, NotCounting
     DEF FindForReset, Move, Step, Forget, local, guard, CountTypes, Places, Passing, Sparing
<1>9. ASSUME NEW h \in Handlers, StoreToken(h) PROVE FailuresInv'
  BY <1>0, <1>9, NotCounting
     DEF StoreToken, Move, Step, Forget, local, guard, CountTypes, Places, Passing, Sparing
<1>10. ASSUME NEW h \in Handlers, NEW p \in Passwords, FindByToken(h, p) PROVE FailuresInv'
  BY <1>0, <1>10, NotCounting DEF FindByToken, Move, guard, CountTypes, Places, Passing, Sparing
<1>11. ASSUME NEW h \in Handlers, ClearExpired(h) PROVE FailuresInv'
  BY <1>0, <1>11, NotCounting
     DEF ClearExpired, Move, Step, Forget, local, guard, CountTypes, Places, Passing, Sparing
<1>12. ASSUME NEW h \in Handlers, CheckActive(h) PROVE FailuresInv'
  BY <1>0, <1>12, NotCounting
     DEF CheckActive, Move, Step, Forget, local, guard, CountTypes, Places, Passing, Sparing
<1>13. ASSUME NEW h \in Handlers, SetThenRevoke(h) PROVE FailuresInv'
  BY <1>0, <1>13, NotCounting
     DEF SetThenRevoke, Move, Step, Forget, RevokeStep, local, guard, CountTypes, Places, Passing, Sparing
<1>14. ASSUME NEW h \in Handlers, Stop(h) PROVE FailuresInv'
  BY <1>0, <1>14, NotCounting DEF Stop, Forget, guard, CountTypes, Places, Passing, Sparing
<1>15. ASSUME NEW h \in Handlers, StopUnrevoked(h) PROVE FailuresInv'
  BY <1>0, <1>15, NotCounting DEF StopUnrevoked, Move, guard, CountTypes, Places, Passing, Sparing
<1>16. ASSUME NEW h \in Handlers, ReadFailures(h) PROVE FailuresInv'
  <2> USE <1>0, <1>16 DEF ReadFailures, Move, guard, CountTypes, Places
  <2>1. CountTypes'
    OBVIOUS
  <2>2. CASE failed < MaxFailures
    BY <2>1, <2>2 DEF FailuresInv, CountInv
  <2>3. CASE failed = MaxFailures
    <3>1. Sparing' \subseteq Sparing
      BY <2>3 DEF Sparing
    <3> QED BY <2>1, <3>1, NotCounting
  <2> QED BY <2>2, <2>3
<1>17. ASSUME NEW h \in Handlers, IncrementFailures(h) PROVE FailuresInv'
  <2> USE <1>0, <1>17 DEF IncrementFailures, Step, Move, Forget, guard, CountTypes
  <2>1. CountTypes'
    BY DEF OneMore, Places
  <2>2. CASE prior[h] >= MaxFailures
    <3>1. Sparing' \subseteq Sparing
      BY DEF Sparing
    <3>2. Cardinality(Sparing') \in Nat /\ Cardinality(Sparing') <= Cardinality(Handlers) - 1
      <4>1. Sparing' \subseteq Handlers \ {h}
        BY DEF Sparing
      <4>2. /\ IsFiniteSet(Handlers \ {h})
            /\ Cardinality(Handlers \ {h}) = Cardinality(Handlers) - 1
        BY FS_RemoveElement
      <4> QED BY <4>1, <4>2, FS_Subset, FS_CardinalityType
    <3> QED BY <2>1, <2>2, <3>2, SparingFinite DEF FailuresInv, CountInv, OneMore
  <2>3. CASE prior[h] < MaxFailures
    <3>1. h \in Sparing /\ Sparing' \subseteq Sparing \ {h}
      BY <2>3 DEF Sparing
    <3>2. /\ Cardinality(Sparing') \in Nat
          /\ Cardinality(Sparing') <= Cardinality(Sparing) - 1
      BY <3>1, SparingFinite, FS_RemoveElement, FS_Subset, FS_CardinalityType
    <3>3. spared' = spared + 1
      BY <2>3
    <3> QED BY <2>1, <3>2, <3>3, SparingFinite DEF FailuresInv, CountInv, OneMore
  <2> QED BY <2>2, <2>3
<1>18. ASSUME NEW h \in Handlers, UpdateLastLogin(h) PROVE FailuresInv'
  BY <1>0, <1>18 DEF UpdateLastLogin, Step, Move, local, CountTypes, Places, Passing,
                     FailuresInv, CountInv
<1>19. CASE UNCHANGED <<guard, at, prior>>
  BY <1>0, <1>19, NotCounting DEF guard, CountTypes, Sparing
<1>20. CASE Unlock
  BY <1>0, <1>20, NotCounting DEF Unlock, local, CountTypes, Sparing
<1>21. TurnedAway => UNCHANGED <<guard, at, prior>>
  BY DEF TurnedAway, local
<1>22. (\E i \in DOMAIN live : EndSession(i)) => UNCHANGED <<guard, at, prior>>
  BY DEF EndSession, local
<1>23. (\E a \in BOOLEAN, p \in Passwords : Administer(a, p)) => UNCHANGED <<guard, at, prior>>
  BY DEF Administer
<1>24. ExpireToken \/ ExpireBucket \/ UNCHANGED vars => UNCHANGED <<guard, at, prior>>
  BY DEF ExpireToken, ExpireBucket, vars, local
<1>25. ASSUME NEW h \in Handlers, LoginStep(h) PROVE FailuresInv'
  BY <1>25, <1>1, <1>2, <1>3, <1>4, <1>5, <1>6, <1>7, <1>16, <1>17, <1>18 DEF LoginStep
<1>26. ASSUME NEW h \in Handlers, ResetStep(h) PROVE FailuresInv'
  BY <1>26, <1>8, <1>9, <1>10, <1>11, <1>12, <1>13 DEF ResetStep
<1> QED
  BY <1>14, <1>15, <1>19, <1>20, <1>21, <1>22, <1>23, <1>24, <1>25, <1>26 DEF Next

(* FailuresBounded holds in every state: requests that read the count      *)
(* before it reached the limit let pass one failure each, no more          *)
(* (user.repository.ts:138-156).                                           *)
THEOREM FailuresAreBounded == Spec => []FailuresBounded
<1>1. FailuresInv => FailuresBounded
  BY AccountAssumption, SparingFinite
  DEF FailuresInv, CountTypes, CountInv, FailuresBounded
<1> QED
  BY FailuresInit, FailuresStep, <1>1, PTL DEF Spec

-----------------------------------------------------------------------------
(* The sessions. *)
Session == [opened : Passwords \cup {NoPassword}, listed : SUBSET Handlers]

SessionTypes ==
  /\ password \in Passwords
  /\ live \in Seq(Session)
  /\ at \in [Handlers -> Places]
  /\ given \in [Handlers -> Passwords \cup {NoPassword}]
  /\ \A h \in Handlers : at[h] = "write" => given[h] \in Passwords

(* The recursive function inside Unlisted. *)
KeptBody(kept, h, n) ==
  IF n = 0 THEN <<>>
  ELSE IF h \in live[n].listed THEN kept[n - 1]
  ELSE Append(kept[n - 1], live[n])

IsKept(kept, h) == kept = [n \in 0 .. Len(live) |-> KeptBody(kept, h, n)]

LEMMA UnlistedDef == \A h : Unlisted(h) = (CHOOSE kept : IsKept(kept, h))[Len(live)]
BY DEF Unlisted, IsKept, KeptBody

LEMMA KeptExists ==
  ASSUME NEW h, Len(live) \in Nat
  PROVE  \E kept : IsKept(kept, h)
<1> DEFINE N == {n \in Nat : \E g : g = [k \in 0 .. n |-> KeptBody(g, h, k)]}
<1>1. 0 \in N
  <2> DEFINE g == [k \in 0 .. 0 |-> <<>>]
  <2>1. g = [k \in 0 .. 0 |-> KeptBody(g, h, k)]
    BY DEF KeptBody
  <2> QED BY <2>1
<1>2. ASSUME NEW n \in Nat, n \in N PROVE n + 1 \in N
  <2>1. PICK g : g = [k \in 0 .. n |-> KeptBody(g, h, k)]
    BY <1>2
  <2> DEFINE f == [k \in 0 .. n + 1 |-> KeptBody(g, h, k)]
  <2>2. ASSUME NEW k \in 0 .. n + 1 PROVE KeptBody(f, h, k) = KeptBody(g, h, k)
    <3>1. CASE k = 0
      BY <3>1 DEF KeptBody
    <3>2. CASE k # 0
      <4>1. k - 1 \in 0 .. n /\ k - 1 \in 0 .. n + 1
        BY <3>2
      <4>2. g[k - 1] = KeptBody(g, h, k - 1)
        BY <2>1, <4>1
      <4>3. f[k - 1] = KeptBody(g, h, k - 1)
        BY <4>1
      <4> QED BY <3>2, <4>2, <4>3 DEF KeptBody
    <3> QED BY <3>1, <3>2
  <2>3. f = [k \in 0 .. n + 1 |-> KeptBody(f, h, k)]
    BY <2>2
  <2> HIDE DEF f
  <2> QED BY <2>3
<1>3. Nat \subseteq N
  <2> HIDE DEF N
  <2> QED BY <1>1, <1>2, NatSetInduction
<1> QED BY <1>3 DEF IsKept

(* A sequence s of sessions that is live with some sessions taken out, or  *)
(* in another order: each one was live, and no two are the same.           *)
Picks(s, n, m) ==
  /\ m \in [1 .. Len(s) -> 1 .. n]
  /\ \A i, j \in 1 .. Len(s) : m[i] = m[j] => i = j
  /\ \A i \in 1 .. Len(s) : s[i] = live[m[i]]

LEMMA UnlistedIsPicked ==
  ASSUME SessionTypes, NEW h \in Handlers
  PROVE  /\ Unlisted(h) \in Seq(Session)
         /\ \E m : Picks(Unlisted(h), Len(live), m)
         /\ \A i \in 1 .. Len(Unlisted(h)) : h \notin Unlisted(h)[i].listed
<1> USE DEF SessionTypes
<1>0. Len(live) \in Nat /\ \A i \in 1 .. Len(live) : live[i] \in Session
  OBVIOUS
<1> DEFINE kept == CHOOSE kept : IsKept(kept, h)
<1>1. IsKept(kept, h)
  BY <1>0, KeptExists
<1> HIDE DEF kept
<1> DEFINE Good(n) == /\ kept[n] \in Seq(Session)
                      /\ \E m : Picks(kept[n], n, m)
                      /\ \A i \in 1 .. Len(kept[n]) : h \notin kept[n][i].listed
           N == {n \in Nat : n <= Len(live) => Good(n)}
<1>2. 0 \in N
  <2>1. kept[0] = <<>>
    BY <1>0, <1>1 DEF IsKept, KeptBody
  <2>2. Picks(<<>>, 0, <<>>)
    BY DEF Picks
  <2>3. <<>> \in Seq(Session) /\ 1 .. Len(<<>>) = {}
    BY EmptySeq
  <2> QED BY <2>1, <2>2, <2>3
<1>3. ASSUME NEW n \in Nat, n \in N PROVE n + 1 \in N
  <2> SUFFICES ASSUME n + 1 <= Len(live) PROVE Good(n + 1)
    OBVIOUS
  <2>1. Good(n) /\ n + 1 \in 0 .. Len(live)
    BY <1>0, <1>3
  <2>2. PICK m : Picks(kept[n], n, m)
    BY <2>1
  <2>3. kept[n + 1] = IF h \in live[n + 1].listed THEN kept[n] ELSE Append(kept[n], live[n + 1])
    <3>1. kept[n + 1] = KeptBody(kept, h, n + 1)
      BY <1>1, <2>1 DEF IsKept
    <3>2. n + 1 # 0 /\ (n + 1) - 1 = n
      OBVIOUS
    <3> QED BY <3>1, <3>2 DEF KeptBody
  <2>4. CASE h \in live[n + 1].listed
    <3>1. Picks(kept[n], n + 1, m)
      BY <2>2 DEF Picks
    <3> QED BY <2>1, <2>3, <2>4, <3>1
  <2>5. CASE h \notin live[n + 1].listed
    <3> DEFINE s == kept[n]
               k == [i \in 1 .. Len(s) + 1 |-> IF i = Len(s) + 1 THEN n + 1 ELSE m[i]]
    <3>1. /\ kept[n + 1] = Append(s, live[n + 1])
          /\ s \in Seq(Session) /\ live[n + 1] \in Session
      BY <1>0, <2>1, <2>3, <2>5
    <3>2. /\ Append(s, live[n + 1]) \in Seq(Session)
          /\ Len(Append(s, live[n + 1])) = Len(s) + 1
          /\ Len(s) \in Nat
          /\ \A i \in 1 .. Len(s) : Append(s, live[n + 1])[i] = s[i]
          /\ Append(s, live[n + 1])[Len(s) + 1] = live[n + 1]
      <4> HIDE DEF s
      <4> QED BY <3>1, AppendProperties, LenProperties
    <3>3. /\ m \in [1 .. Len(s) -> 1 .. n]
          /\ \A i, j \in 1 .. Len(s) : m[i] = m[j] => i = j
          /\ \A i \in 1 .. Len(s) : s[i] = live[m[i]]
      BY <2>2 DEF Picks
    <3>4. k \in [1 .. Len(s) + 1 -> 1 .. n + 1]
      <4> HIDE DEF s
      <4> QED BY <3>2, <3>3
    <3>5. \A i, j \in 1 .. Len(s) + 1 : k[i] = k[j] => i = j
      <4> HIDE DEF s
      <4>1. \A i \in 1 .. Len(s) : k[i] = m[i] /\ m[i] \in 1 .. n
        BY <3>2, <3>3
      <4>2. k[Len(s) + 1] = n + 1 /\ \A i \in 1 .. Len(s) + 1 : i # Len(s) + 1 => i \in 1 .. Len(s)
        BY <3>2
      <4> HIDE DEF k
      <4> QED BY <3>3, <4>1, <4>2
    <3>6. \A i \in 1 .. Len(s) + 1 : Append(s, live[n + 1])[i] = live[k[i]]
      <4> HIDE DEF s
      <4> QED BY <3>2, <3>3
    <3>7. Picks(kept[n + 1], n + 1, k)
      <4> HIDE DEF s, k
      <4> QED BY <3>1, <3>2, <3>4, <3>5, <3>6 DEF Picks
    <3>8. \A i \in 1 .. Len(s) : h \notin s[i].listed
      BY <2>1
    <3> HIDE DEF s, k
    <3> QED BY <3>1, <3>2, <3>7, <3>8, <2>5
  <2> QED BY <2>4, <2>5
<1>4. Len(live) \in N
  <2>1. Nat \subseteq N
    <3> HIDE DEF N
    <3> QED BY <1>2, <1>3, NatSetInduction
  <2> QED BY <1>0, <2>1
<1>5. Unlisted(h) = kept[Len(live)]
  BY UnlistedDef DEF kept
<1> QED BY <1>0, <1>4, <1>5

(* Taking one session out. *)
LEMMA RemovedIsPicked ==
  ASSUME SessionTypes, NEW i \in DOMAIN live
  PROVE  /\ RemoveAt(live, i) \in Seq(Session)
         /\ \E m : Picks(RemoveAt(live, i), Len(live), m)
<1> DEFINE n == Len(live)
           a == SubSeq(live, 1, i - 1)
           b == SubSeq(live, i + 1, n)
           m == [j \in 1 .. n - 1 |-> IF j < i THEN j ELSE j + 1]
<1>1. n \in Nat /\ i \in 1 .. n /\ \A j \in 1 .. n : live[j] \in Session
  BY LenProperties DEF SessionTypes
<1>2. /\ a \in Seq(Session) /\ Len(a) = i - 1
      /\ \A j \in 1 .. i - 1 : a[j] = live[j]
  <2>1. 1 \in Int /\ i - 1 \in Int /\ \A j \in 1 .. i - 1 : live[j] \in Session
    BY <1>1
  <2>2. /\ a \in Seq(Session)
        /\ Len(a) = IF 1 <= i - 1 THEN (i - 1) - 1 + 1 ELSE 0
        /\ \A j \in 1 .. (i - 1) - 1 + 1 : a[j] = live[1 + j - 1]
    BY <2>1, SubSeqProperties
  <2> HIDE DEF a, n
  <2> QED BY <1>1, <2>2
<1>3. /\ b \in Seq(Session) /\ Len(b) = n - i
      /\ \A j \in 1 .. n - i : b[j] = live[j + i]
  <2>1. i + 1 \in Int /\ n \in Int /\ \A j \in i + 1 .. n : live[j] \in Session
    BY <1>1
  <2>2. /\ b \in Seq(Session)
        /\ Len(b) = IF i + 1 <= n THEN n - (i + 1) + 1 ELSE 0
        /\ \A j \in 1 .. n - (i + 1) + 1 : b[j] = live[(i + 1) + j - 1]
    <3> HIDE DEF n
    <3> QED BY <2>1, SubSeqProperties
  <2> HIDE DEF b, n
  <2> QED BY <1>1, <2>2
<1>4. RemoveAt(live, i) = a \o b
  BY DEF RemoveAt
<1> HIDE DEF n, a, b
<1>5. /\ a \o b \in Seq(Session)
      /\ Len(a \o b) = n - 1
      /\ \A j \in 1 .. n - 1 : (a \o b)[j] = IF j <= i - 1 THEN a[j] ELSE b[j - (i - 1)]
  <2>1. /\ a \o b \in Seq(Session)
        /\ Len(a \o b) = Len(a) + Len(b)
        /\ \A j \in 1 .. Len(a) + Len(b) : (a \o b)[j] =
             IF j <= Len(a) THEN a[j] ELSE b[j - Len(a)]
    BY <1>2, <1>3, ConcatProperties
  <2> QED BY <1>1, <1>2, <1>3, <2>1
<1>6. \A j \in 1 .. n - 1 : (a \o b)[j] = live[m[j]]
  <2> SUFFICES ASSUME NEW j \in 1 .. n - 1 PROVE (a \o b)[j] = live[m[j]]
    OBVIOUS
  <2>1. CASE j < i
    BY <1>1, <1>2, <1>5, <2>1
  <2>2. CASE ~(j < i)
    <3>1. j - (i - 1) \in 1 .. n - i /\ (j - (i - 1)) + i = j + 1 /\ ~(j <= i - 1)
      BY <1>1, <2>2
    <3> QED BY <1>1, <1>3, <1>5, <2>2, <3>1
  <2> QED BY <2>1, <2>2
<1>7. m \in [1 .. n - 1 -> 1 .. n] /\ \A j, k \in 1 .. n - 1 : m[j] = m[k] => j = k
  BY <1>1
<1>8. Picks(a \o b, n, m)
  <2> HIDE DEF m
  <2> QED BY <1>5, <1>6, <1>7 DEF Picks
<1>9. \E k : Picks(a \o b, n, k)
  <2> HIDE DEF m
  <2> QED BY <1>8
<1> QED BY <1>4, <1>5, <1>9 DEF n

(* Sessions that are marked otherwise, each in its place. *)
LEMMA MarkedSessions ==
  ASSUME SessionTypes, NEW f \in [DOMAIN live -> Session]
  PROVE  f \in Seq(Session) /\ Len(f) = Len(live) /\ DOMAIN f = DOMAIN live
<1>1. Len(live) \in Nat /\ DOMAIN live = 1 .. Len(live)
  BY LenProperties DEF SessionTypes
<1>2. f \in Seq(Session)
  BY <1>1, SeqDef
<1>3. Len(f) \in Nat /\ DOMAIN f = 1 .. Len(f)
  BY <1>2, LenProperties
<1> QED BY <1>1, <1>2, <1>3

(* What the handlers do in between leaves the sessions alone. *)
LEMMA SameSessions ==
  ASSUME SessionTypes, live' = live, password' \in Passwords,
         at' \in [Handlers -> Places], given' \in [Handlers -> Passwords \cup {NoPassword}],
         \A h \in Handlers : at'[h] = "write" => given'[h] \in Passwords
  PROVE  SessionTypes'
BY DEF SessionTypes

(* What becomes of the sessions, in the terms of the proofs below. *)
LEMMA SessionTypesStep ==
  ASSUME SessionTypes, [Next]_vars
  PROVE  SessionTypes'
<1> USE DEF Move, Step, Forget, local, row
<1>0. /\ password \in Passwords /\ at \in [Handlers -> Places]
      /\ given \in [Handlers -> Passwords \cup {NoPassword}]
      /\ \A h \in Handlers : at[h] = "write" => given[h] \in Passwords
      /\ live \in Seq(Session) /\ \A i \in DOMAIN live : live[i] \in Session
  BY LenProperties, ElementOfSeq DEF SessionTypes
<1>1. ASSUME NEW h \in Handlers, NEW p \in Passwords, Attempt(h, p) PROVE SessionTypes'
  BY <1>0, <1>1, SameSessions DEF Attempt, Places
<1>2. ASSUME NEW h \in Handlers, Find(h) PROVE SessionTypes'
  BY <1>0, <1>2, SameSessions DEF Find, Places, Passing
<1>3. ASSUME NEW h \in Handlers, IsLocked(h) PROVE SessionTypes'
  BY <1>0, <1>3, SameSessions DEF IsLocked, Places, Passing
<1>4. ASSUME NEW h \in Handlers, ReadFailures(h) PROVE SessionTypes'
  BY <1>0, <1>4, SameSessions DEF ReadFailures, Places
<1>5. ASSUME NEW h \in Handlers, IncrementFailures(h) PROVE SessionTypes'
  BY <1>0, <1>5, SameSessions DEF IncrementFailures, Places
<1>6. ASSUME NEW h \in Handlers, ResetRateLimit(h) PROVE SessionTypes'
  BY <1>0, <1>6, SameSessions DEF ResetRateLimit, Places, Passing
<1>7. ASSUME NEW h \in Handlers, UpdateLastLogin(h) PROVE SessionTypes'
  BY <1>0, <1>7, SameSessions DEF UpdateLastLogin, Places, Passing
<1>8. ASSUME NEW h \in Handlers, ListSessions(h) PROVE SessionTypes'
  <2>1. live' \in [DOMAIN live -> Session]
    BY <1>0, <1>8 DEF ListSessions, Session
  <2>2. live' \in Seq(Session)
    BY <2>1, MarkedSessions
  <2> QED BY <1>0, <1>8, <2>2 DEF ListSessions, SessionTypes, Places, Passing
<1>9. ASSUME NEW h \in Handlers, RevokeOldest(h) PROVE SessionTypes'
  BY <1>0, <1>9, UnlistedIsPicked DEF RevokeOldest, SessionTypes, Places, Passing
<1>10. ASSUME NEW h \in Handlers, CreateSession(h) PROVE SessionTypes'
  <2>1. [opened |-> given[h], listed |-> {}] \in Session
    BY <1>0 DEF Session
  <2>2. live' \in Seq(Session)
    BY <1>0, <1>10, <2>1, AppendProperties DEF CreateSession
  <2> QED BY <1>0, <1>10, <2>2 DEF CreateSession, SessionTypes, Places
<1>11. ASSUME NEW i \in DOMAIN live, EndSession(i) PROVE SessionTypes'
  BY <1>0, <1>11, RemovedIsPicked DEF EndSession, SessionTypes
<1>12. ASSUME NEW h \in Handlers, FindForReset(h) PROVE SessionTypes'
  BY <1>0, <1>12, SameSessions DEF FindForReset, Places
<1>13. ASSUME NEW h \in Handlers, StoreToken(h) PROVE SessionTypes'
  BY <1>0, <1>13, SameSessions DEF StoreToken, Places
<1>14. ASSUME NEW h \in Handlers, NEW p \in Passwords, FindByToken(h, p) PROVE SessionTypes'
  BY <1>0, <1>14, SameSessions DEF FindByToken, Places
<1>15. ASSUME NEW h \in Handlers, ClearExpired(h) PROVE SessionTypes'
  BY <1>0, <1>15, SameSessions DEF ClearExpired, Places
<1>16. ASSUME NEW h \in Handlers, CheckActive(h) PROVE SessionTypes'
  BY <1>0, <1>16, SameSessions DEF CheckActive, Places
<1>17. ASSUME NEW h \in Handlers, SetThenRevoke(h) PROVE SessionTypes'
  BY <1>0, <1>17, EmptySeq
  DEF SetThenRevoke, SetPassword, RevokeStep, RevokeAll, Overtaken, SessionTypes, Places, Passing
<1>18. ASSUME NEW a \in BOOLEAN, NEW p \in Passwords, Administer(a, p) PROVE SessionTypes'
  BY <1>0, <1>18, EmptySeq DEF Administer, RevokeAll, Overtaken, SessionTypes, Passing
<1>19. ASSUME NEW h \in Handlers, Stop(h) PROVE SessionTypes'
  <2>1. live' \in [DOMAIN live -> Session]
    BY <1>0, <1>19 DEF Stop, Session
  <2>2. live' \in Seq(Session)
    BY <2>1, MarkedSessions
  <2> QED BY <1>0, <1>19, <2>2 DEF Stop, SessionTypes, Places
<1>20. ASSUME NEW h \in Handlers, StopUnrevoked(h) PROVE SessionTypes'
  <2>1. live' \in [DOMAIN live -> Session]
    BY <1>0, <1>20 DEF StopUnrevoked, Session
  <2>2. live' \in Seq(Session)
    BY <2>1, MarkedSessions
  <2> QED BY <1>0, <1>20, <2>2 DEF StopUnrevoked, Overtaken, SessionTypes, Places, Passing
<1>21. CASE TurnedAway \/ Unlock \/ ExpireToken \/ ExpireBucket \/ UNCHANGED vars
  BY <1>0, <1>21, SameSessions DEF TurnedAway, Unlock, ExpireToken, ExpireBucket, vars
<1> QED
  BY <1>1, <1>2, <1>3, <1>4, <1>5, <1>6, <1>7, <1>8, <1>9, <1>10, <1>11, <1>12, <1>13,
     <1>14, <1>15, <1>16, <1>17, <1>18, <1>19, <1>20, <1>21
  DEF Next, LoginStep, ResetStep

-----------------------------------------------------------------------------
(* The logins that have looked for surplus sessions and are still to       *)
(* create theirs, and those among them that listed none of the sessions T. *)
Pending == {h \in Handlers : at[h] \in {"trim", "create"}}

Unaware(T) == {h \in Pending : \A i \in T : h \notin live[i].listed}

(* A session is marked only by logins that are about to revoke it. *)
Listing == \A h \in Handlers : at[h] # "trim" => \A i \in DOMAIN live : h \notin live[i].listed

(* Sessions beyond the limit are the work of logins that did not see them. *)
Crowded ==
  \A T \in SUBSET DOMAIN live :
    Cardinality(T) > MaxSessions =>
      Cardinality(T) + Cardinality(Unaware(T)) <= MaxSessions + Cardinality(Handlers)

CrowdInv == SessionTypes /\ Listing /\ Crowded

LEMMA SessionsFinite ==
  ASSUME NEW s \in Seq(Session)
  PROVE  /\ IsFiniteSet(DOMAIN s) /\ DOMAIN s = 1 .. Len(s) /\ Len(s) \in Nat
         /\ \A T \in SUBSET DOMAIN s : IsFiniteSet(T) /\ Cardinality(T) \in Nat
<1>1. Len(s) \in Nat /\ DOMAIN s = 1 .. Len(s)
  BY LenProperties
<1>2. IsFiniteSet(DOMAIN s)
  BY <1>1, FS_Interval
<1> QED BY <1>1, <1>2, FS_Subset, FS_CardinalityType

LEMMA HandlersFinite ==
  /\ Cardinality(Handlers) \in Nat
  /\ \A S \in SUBSET Handlers : /\ IsFiniteSet(S) /\ Cardinality(S) \in Nat
                                /\ Cardinality(S) <= Cardinality(Handlers)
  /\ \A S, R \in SUBSET Handlers : S \subseteq R => Cardinality(S) <= Cardinality(R)
BY AccountAssumption, FS_Subset, FS_CardinalityType

(* The image of a set of sessions under m is as large as the set. *)
LEMMA SameSize ==
  ASSUME NEW A, NEW B, NEW m \in [A -> B], IsFiniteSet(A),
         \A i, j \in A : m[i] = m[j] => i = j,
         NEW T \in SUBSET A
  PROVE  Cardinality({m[i] : i \in T}) = Cardinality(T)
<1> DEFINE U == {m[i] : i \in T}
           f == [i \in T |-> m[i]]
<1>1. f \in Bijection(T, U)
  <2>1. f \in [T -> U] /\ \A i, j \in T : f[i] = f[j] => i = j
    OBVIOUS
  <2>2. \A u \in U : \E i \in T : f[i] = u
    OBVIOUS
  <2> HIDE DEF f, U
  <2> QED BY <2>1, <2>2 DEF Bijection, Injection, Surjection, IsInjective
<1>2. ExistsBijection(T, U)
  <2> HIDE DEF f, U
  <2> QED BY <1>1 DEF ExistsBijection
<1>3. IsFiniteSet(T)
  BY FS_Subset
<1> HIDE DEF U
<1> QED BY <1>2, <1>3, FS_Bijection DEF U

(* Steps after which each session was live before, those a pending login  *)
(* had listed it still does, and no login has become pending.              *)
LEMMA NotCrowding ==
  ASSUME SessionTypes, Crowded, SessionTypes',
         NEW m \in [DOMAIN live' -> DOMAIN live],
         \A i, j \in DOMAIN live' : m[i] = m[j] => i = j,
         Pending' \subseteq Pending,
         \A i \in DOMAIN live' : \A h \in Pending' :
           h \in live[m[i]].listed => h \in live'[i].listed
  PROVE  Crowded'
<1> SUFFICES ASSUME NEW T \in SUBSET DOMAIN live', Cardinality(T) > MaxSessions
             PROVE  Cardinality(T) + Cardinality(Unaware(T)') <= MaxSessions + Cardinality(Handlers)
  BY DEF Crowded, Unaware
<1> DEFINE U == {m[i] : i \in T}
<1>1. U \in SUBSET DOMAIN live
  OBVIOUS
<1>2. IsFiniteSet(DOMAIN live')
  <2>1. live' \in Seq(Session)
    BY DEF SessionTypes
  <2> QED BY <2>1, SessionsFinite
<1>3. Cardinality(U) = Cardinality(T)
  <2>1. m \in [DOMAIN live' -> DOMAIN live] /\ \A i, j \in DOMAIN live' : m[i] = m[j] => i = j
    OBVIOUS
  <2> QED BY <1>2, <2>1, SameSize
<1>4. Unaware(T)' \subseteq Unaware(U)
  BY DEF Unaware
<1>5. Unaware(T)' \in SUBSET Handlers /\ Unaware(U) \in SUBSET Handlers
  BY DEF Unaware, Pending
<1> HIDE DEF U
<1>6. Cardinality(U) + Cardinality(Unaware(U)) <= MaxSessions + Cardinality(Handlers)
  BY <1>1, <1>3 DEF Crowded
<1>7. Cardinality(Unaware(T)') <= Cardinality(Unaware(U))
  BY <1>4, <1>5, HandlersFinite
<1>8. /\ Cardinality(Unaware(T)') \in Nat /\ Cardinality(Unaware(U)) \in Nat
      /\ Cardinality(U) \in Nat /\ Cardinality(Handlers) \in Nat /\ MaxSessions \in Nat
  BY <1>1, <1>5, HandlersFinite, SessionsFinite, AccountAssumption DEF SessionTypes
<1> QED BY <1>3, <1>6, <1>7, <1>8

(* Steps that mark the sessions otherwise, each in its place. *)
LEMMA RemarkedCrowd ==
  ASSUME CrowdInv, SessionTypes', Listing', DOMAIN live' = DOMAIN live,
         Pending' \subseteq Pending,
         \A i \in DOMAIN live : \A h \in Pending' :
           h \in live[i].listed => h \in live'[i].listed
  PROVE  CrowdInv'
<1> DEFINE m == [i \in DOMAIN live |-> i]
<1>1. /\ m \in [DOMAIN live' -> DOMAIN live]
      /\ \A i, j \in DOMAIN live' : m[i] = m[j] => i = j
      /\ \A i \in DOMAIN live' : \A h \in Pending' :
           h \in live[m[i]].listed => h \in live'[i].listed
  OBVIOUS
<1> HIDE DEF m
<1>2. Crowded'
  BY <1>1, NotCrowding DEF CrowdInv
<1> QED BY <1>2 DEF CrowdInv

(* Steps that leave the sessions alone. *)
LEMMA SameCrowd ==
  ASSUME CrowdInv, SessionTypes', live' = live, Pending' \subseteq Pending,
         \A h \in Handlers : at[h] = "trim" => at'[h] = "trim"
  PROVE  CrowdInv'
<1>1. Listing'
  BY DEF CrowdInv, Listing
<1> QED BY <1>1, RemarkedCrowd DEF CrowdInv

(* Steps after which there are fewer sessions, or the same otherwise       *)
(* marked.                                                                 *)
LEMMA PickedCrowd ==
  ASSUME CrowdInv, SessionTypes', Listing', Pending' \subseteq Pending,
         NEW m, Picks(live', Len(live), m)
  PROVE  CrowdInv'
<1>1. DOMAIN live = 1 .. Len(live) /\ DOMAIN live' = 1 .. Len(live')
  BY SessionsFinite DEF CrowdInv, SessionTypes
<1>2. /\ m \in [DOMAIN live' -> DOMAIN live]
      /\ \A i, j \in DOMAIN live' : m[i] = m[j] => i = j
      /\ \A i \in DOMAIN live' : live'[i] = live[m[i]]
  BY <1>1 DEF Picks
<1> QED BY <1>2, NotCrowding DEF CrowdInv

(* Who looks for surplus sessions marks the oldest.  More sessions than    *)
(* the limit are not all among the youngest, so it knows of one of them.   *)
LEMMA ListingKnows ==
  ASSUME CrowdInv, SessionTypes', NEW h \in Handlers, ListSessions(h)
  PROVE  CrowdInv'
<1> DEFINE n == Len(live)
<1>1. /\ n \in Nat /\ DOMAIN live = 1 .. n /\ live \in Seq(Session)
      /\ at \in [Handlers -> Places] /\ MaxSessions \in Nat
      /\ \A i \in DOMAIN live : live[i] \in Session
  BY SessionsFinite, ElementOfSeq, AccountAssumption DEF CrowdInv, SessionTypes
<1>2. /\ DOMAIN live' = DOMAIN live
      /\ \A i \in DOMAIN live :
           live'[i] = IF i \in Oldest THEN [live[i] EXCEPT !.listed = @ \cup {h}] ELSE live[i]
  BY DEF ListSessions
<1>3. \A i \in DOMAIN live :
        live'[i].listed = IF i \in Oldest THEN live[i].listed \cup {h} ELSE live[i].listed
  BY <1>1, <1>2 DEF Session
<1>4. /\ at[h] = "list" /\ at'[h] = IF Oldest = {} THEN "create" ELSE "trim"
      /\ \A g \in Handlers : g # h => at'[g] = at[g]
  BY <1>1 DEF ListSessions, Move
<1>5. Listing'
  <2> SUFFICES ASSUME NEW g \in Handlers, at'[g] # "trim", NEW i \in DOMAIN live
               PROVE  g \notin live'[i].listed
    BY <1>2 DEF Listing
  <2>1. at[g] # "trim"
    BY <1>4
  <2>2. g \notin live[i].listed
    BY <2>1 DEF CrowdInv, Listing
  <2> QED BY <1>3, <1>4, <2>2
<1>6. Crowded'
  <2> SUFFICES ASSUME NEW T \in SUBSET DOMAIN live, Cardinality(T) > MaxSessions
               PROVE  Cardinality(T) + Cardinality(Unaware(T)') <= MaxSessions + Cardinality(Handlers)
    BY <1>2 DEF Crowded, Unaware
  <2>1. \E i \in T : i \in Oldest
    <3> SUFFICES ASSUME \A i \in T : i \notin Oldest PROVE FALSE
      OBVIOUS
    <3> DEFINE first == IF n > MaxSessions THEN n - MaxSessions + 1 ELSE 1
               Y == first .. n
    <3>1. T \subseteq Y
      BY <1>1 DEF Oldest
    <3>2. IsFiniteSet(Y) /\ Cardinality(Y) <= MaxSessions /\ Cardinality(Y) \in Nat
      <4>1. first \in Int /\ n \in Int
        BY <1>1
      <4> HIDE DEF n
      <4>2. first > n \/ n - first + 1 <= MaxSessions
        BY <1>1
      <4> HIDE DEF first
      <4>3. IsFiniteSet(Y) /\ Cardinality(Y) = IF first > n THEN 0 ELSE n - first + 1
        BY <4>1, FS_Interval
      <4> QED BY <1>1, <4>1, <4>2, <4>3
    <3> HIDE DEF Y
    <3>3. Cardinality(T) <= Cardinality(Y) /\ Cardinality(T) \in Nat
      BY <3>1, <3>2, FS_Subset, FS_CardinalityType
    <3> QED BY <1>1, <3>2, <3>3
  <2>2. Unaware(T)' \subseteq Unaware(T)
    <3> SUFFICES ASSUME NEW g \in Handlers, at'[g] \in {"trim", "create"},
                        \A i \in T : g \notin live'[i].listed
                 PROVE  at[g] \in {"trim", "create"} /\ \A i \in T : g \notin live[i].listed
      BY DEF Unaware, Pending
    <3>1. g # h
      BY <1>3, <2>1
    <3> QED BY <1>3, <1>4, <3>1
  <2>3. Unaware(T)' \in SUBSET Handlers /\ Unaware(T) \in SUBSET Handlers
    BY DEF Unaware, Pending
  <2>4. Cardinality(T) + Cardinality(Unaware(T)) <= MaxSessions + Cardinality(Handlers)
    BY DEF CrowdInv, Crowded
  <2>5. Cardinality(Unaware(T)') <= Cardinality(Unaware(T))
    BY <2>2, <2>3, HandlersFinite
  <2> QED BY <1>1, <2>3, <2>4, <2>5, HandlersFinite, SessionsFinite
<1> QED BY <1>5, <1>6 DEF CrowdInv

(* Who creates a session had listed none of those there, and leaves the    *)
(* pending logins.                                                         *)
LEMMA CreatingCrowds ==
  ASSUME CrowdInv, SessionTypes', NEW h \in Handlers, CreateSession(h)
  PROVE  CrowdInv'
<1> DEFINE n == Len(live)
           new == [opened |-> given[h], listed |-> {}]
<1>1. /\ n \in Nat /\ DOMAIN live = 1 .. n /\ live \in Seq(Session)
      /\ at \in [Handlers -> Places] /\ MaxSessions \in Nat
      /\ new \in Session
  BY SessionsFinite, AccountAssumption DEF CrowdInv, SessionTypes, Session
<1>2. /\ DOMAIN live' = 1 .. n + 1
      /\ \A i \in 1 .. n : live'[i] = live[i]
      /\ live'[n + 1] = new
  <2>1. live' = Append(live, new)
    BY DEF CreateSession
  <2> HIDE DEF new
  <2>2. /\ Append(live, new) \in Seq(Session)
        /\ Len(Append(live, new)) = n + 1
        /\ \A i \in 1 .. n : Append(live, new)[i] = live[i]
        /\ Append(live, new)[n + 1] = new
    BY <1>1, AppendProperties
  <2> QED BY <1>1, <2>1, <2>2, LenProperties
<1>3. /\ at[h] = "create" /\ at'[h] = "idle"
      /\ \A g \in Handlers : g # h => at'[g] = at[g]
  BY <1>1 DEF CreateSession, Step, Move
<1>4. h \in Pending /\ Pending' = Pending \ {h} /\ Pending \subseteq Handlers
  BY <1>3 DEF Pending
<1>5. \A i \in 1 .. n : h \notin live[i].listed
  BY <1>1, <1>3 DEF CrowdInv, Listing
<1>6. Listing'
  BY <1>1, <1>2, <1>3, <1>5 DEF CrowdInv, Listing
<1>7. Crowded'
  <2> SUFFICES ASSUME NEW T \in SUBSET (1 .. n + 1), Cardinality(T) > MaxSessions
               PROVE  Cardinality(T) + Cardinality(Unaware(T)') <= MaxSessions + Cardinality(Handlers)
    BY <1>2 DEF Crowded, Unaware
  <2> DEFINE R == T \ {n + 1}
  <2>1. R \in SUBSET DOMAIN live
    <3> HIDE DEF n
    <3>1. \A i \in 1 .. n + 1 : i # n + 1 => i \in 1 .. n
      BY <1>1
    <3> QED BY <1>1, <3>1
  <2>2. IsFiniteSet(T) /\ IsFiniteSet(R) /\ Cardinality(T) \in Nat /\ Cardinality(R) \in Nat
    <3>1. IsFiniteSet(1 .. n + 1)
      <4> HIDE DEF n
      <4>1. 1 \in Int /\ n + 1 \in Int
        BY <1>1
      <4> QED BY <4>1, FS_Interval
    <3>2. IsFiniteSet(T)
      BY <3>1, FS_Subset
    <3>3. IsFiniteSet(R)
      BY <3>2, FS_Subset
    <3> HIDE DEF R
    <3> QED BY <3>2, <3>3, FS_CardinalityType
  <2>3. Cardinality(T) <= Cardinality(R) + 1
    BY <2>2, FS_RemoveElement
  <2>4. Unaware(T)' \subseteq Unaware(R) \ {h}
    BY <1>1, <1>2, <1>4, <2>1 DEF Unaware
  <2>5. h \in Unaware(R) /\ Unaware(R) \in SUBSET Handlers
    BY <1>1, <1>4, <1>5, <2>1 DEF Unaware
  <2> HIDE DEF R
  <2>6. /\ IsFiniteSet(Unaware(R)) /\ Cardinality(Unaware(R)) \in Nat
        /\ Cardinality(Unaware(R)) <= Cardinality(Handlers) /\ Cardinality(Handlers) \in Nat
    BY <2>5, HandlersFinite
  <2>7. Cardinality(Unaware(R) \ {h}) = Cardinality(Unaware(R)) - 1
    BY <2>5, <2>6, FS_RemoveElement
  <2>8. /\ Cardinality(Unaware(T)') \in Nat
        /\ Cardinality(Unaware(T)') <= Cardinality(Unaware(R)) - 1
    <3>1. Unaware(T)' \in SUBSET Handlers /\ Unaware(R) \ {h} \in SUBSET Handlers
      BY <2>4, <2>5
    <3> QED BY <2>4, <2>7, <3>1, HandlersFinite
  <2>9. CASE Cardinality(R) > MaxSessions
    <3>1. Cardinality(R) + Cardinality(Unaware(R)) <= MaxSessions + Cardinality(Handlers)
      BY <2>1, <2>9 DEF CrowdInv, Crowded
    <3> QED BY <1>1, <2>2, <2>3, <2>6, <2>8, <3>1
  <2>10. CASE ~(Cardinality(R) > MaxSessions)
    BY <1>1, <2>2, <2>3, <2>6, <2>8, <2>10
  <2> QED BY <2>9, <2>10
<1> QED BY <1>6, <1>7 DEF CrowdInv

LEMMA CrowdStep ==
  ASSUME CrowdInv, [Next]_vars
  PROVE  CrowdInv'
<1> USE DEF Move, Step, local, row
<1>0. /\ SessionTypes /\ Listing /\ Crowded /\ at \in [Handlers -> Places]
      /\ SessionTypes' /\ live \in Seq(Session) /\ \A i \in DOMAIN live : live[i] \in Session
  BY SessionTypesStep, LenProperties, ElementOfSeq DEF CrowdInv, SessionTypes
<1>1. ASSUME NEW h \in Handlers, ListSessions(h) PROVE CrowdInv'
  BY <1>0, <1>1, ListingKnows
<1>2. ASSUME NEW h \in Handlers, RevokeOldest(h) PROVE CrowdInv'
  <2>1. /\ Unlisted(h) \in Seq(Session)
        /\ \A i \in 1 .. Len(Unlisted(h)) : h \notin Unlisted(h)[i].listed
    BY <1>0, UnlistedIsPicked
  <2>2. PICK m : Picks(Unlisted(h), Len(live), m)
    BY <1>0, UnlistedIsPicked
  <2>3. live' = Unlisted(h) /\ Pending' \subseteq Pending
    BY <1>0, <1>2 DEF RevokeOldest, Pending
  <2>4. Listing'
    <3> SUFFICES ASSUME NEW g \in Handlers, at'[g] # "trim", NEW i \in DOMAIN live'
                 PROVE  g \notin live'[i].listed
      BY DEF Listing
    <3>1. DOMAIN live' = 1 .. Len(live') /\ DOMAIN live = 1 .. Len(live)
      BY <1>0, <2>1, <2>3, LenProperties
    <3>2. CASE g = h
      BY <2>1, <2>3, <3>1, <3>2
    <3>3. CASE g # h
      <4>1. at[g] # "trim"
        BY <1>0, <1>2, <3>3 DEF RevokeOldest
      <4>2. m[i] \in DOMAIN live /\ live'[i] = live[m[i]]
        BY <2>2, <2>3, <3>1 DEF Picks
      <4> QED BY <1>0, <4>1, <4>2 DEF Listing
    <3> QED BY <3>2, <3>3
  <2> QED BY <1>0, <2>2, <2>3, <2>4, PickedCrowd
<1>3. ASSUME NEW h \in Handlers, CreateSession(h) PROVE CrowdInv'
  BY <1>0, <1>3, CreatingCrowds
<1>4. ASSUME NEW i \in DOMAIN live, EndSession(i) PROVE CrowdInv'
  <2>1. RemoveAt(live, i) \in Seq(Session)
    BY <1>0, RemovedIsPicked
  <2>2. PICK m : Picks(RemoveAt(live, i), Len(live), m)
    BY <1>0, RemovedIsPicked
  <2>3. live' = RemoveAt(live, i) /\ Pending' \subseteq Pending
    BY <1>4 DEF EndSession, Pending
  <2>4. Listing'
    <3> SUFFICES ASSUME NEW g \in Handlers, at'[g] # "trim", NEW j \in DOMAIN live'
                 PROVE  g \notin live'[j].listed
      BY DEF Listing
    <3>1. DOMAIN live' = 1 .. Len(live') /\ DOMAIN live = 1 .. Len(live)
      BY <1>0, <2>1, <2>3, LenProperties
    <3>2. m[j] \in DOMAIN live /\ live'[j] = live[m[j]]
      BY <2>2, <2>3, <3>1 DEF Picks
    <3>3. at[g] # "trim"
      BY <1>4 DEF EndSession
    <3> QED BY <1>0, <3>2, <3>3 DEF Listing
  <2> QED BY <1>0, <2>2, <2>3, <2>4, PickedCrowd
<1>5. ASSUME live' = <<>> PROVE CrowdInv'
  <2>1. DOMAIN live' = {}
    BY <1>5
  <2>2. \A T \in SUBSET DOMAIN live' : ~(Cardinality(T) > MaxSessions)
    BY <2>1, FS_EmptySet, AccountAssumption
  <2> QED BY <1>0, <2>1, <2>2 DEF CrowdInv, Listing, Crowded
<1>6. ASSUME NEW h \in Handlers, SetThenRevoke(h) PROVE CrowdInv'
  <2>1. CASE Move(h, "write", "revoke") /\ live' = live
    BY <1>0, <2>1, SameCrowd DEF Pending
  <2> QED BY <1>5, <1>6, <2>1 DEF SetThenRevoke, RevokeStep, RevokeAll
<1>7. ASSUME NEW a \in BOOLEAN, NEW p \in Passwords, Administer(a, p) PROVE CrowdInv'
  <2>1. CASE live' = live
    BY <1>0, <1>7, <2>1, SameCrowd DEF Administer, Pending
  <2> QED BY <1>5, <1>7, <2>1 DEF Administer, RevokeAll
<1>8. ASSUME NEW h \in Handlers, Stop(h) PROVE CrowdInv'
  <2>1. /\ DOMAIN live' = DOMAIN live
        /\ \A i \in DOMAIN live : live'[i].listed = live[i].listed \ {h}
    BY <1>0, <1>8 DEF Stop, Session
  <2>2. at'[h] = "idle" /\ \A g \in Handlers : g # h => at'[g] = at[g]
    BY <1>0, <1>8 DEF Stop
  <2>3. Listing'
    BY <1>0, <2>1, <2>2 DEF Listing
  <2>4. Pending' \subseteq Pending \ {h}
    BY <2>2 DEF Pending
  <2> QED BY <1>0, <2>1, <2>3, <2>4, RemarkedCrowd DEF CrowdInv
<1>9. ASSUME NEW h \in Handlers, StopUnrevoked(h) PROVE CrowdInv'
  <2>1. /\ DOMAIN live' = DOMAIN live
        /\ \A i \in DOMAIN live : live'[i].listed = live[i].listed
    BY <1>0, <1>9 DEF StopUnrevoked, Session
  <2>2. \A g \in Handlers : at[g] = at'[g] \/ (at[g] = "revoke" /\ at'[g] = "idle")
    BY <1>0, <1>9 DEF StopUnrevoked
  <2>3. Listing'
    BY <1>0, <2>1, <2>2 DEF Listing
  <2>4. Pending' \subseteq Pending
    BY <2>2 DEF Pending
  <2> QED BY <1>0, <2>1, <2>3, <2>4, RemarkedCrowd DEF CrowdInv
<1>10. ASSUME NEW h \in Handlers, NEW p \in Passwords, Attempt(h, p) \/ FindByToken(h, p) PROVE CrowdInv'
  BY <1>0, <1>10, SameCrowd DEF Attempt, FindByToken, Pending
<1>11. ASSUME NEW h \in Handlers,
              \/ Find(h) \/ IsLocked(h) \/ ReadFailures(h) \/ IncrementFailures(h)
              \/ ResetRateLimit(h) \/ UpdateLastLogin(h)
       PROVE  CrowdInv'
  BY <1>0, <1>11, SameCrowd
  DEF Find, IsLocked, ReadFailures, IncrementFailures, ResetRateLimit, UpdateLastLogin, Pending
<1>12. ASSUME NEW h \in Handlers,
              FindForReset(h) \/ StoreToken(h) \/ ClearExpired(h) \/ CheckActive(h)
       PROVE  CrowdInv'
  BY <1>0, <1>12, SameCrowd DEF FindForReset, StoreToken, ClearExpired, CheckActive, Pending
<1>13. CASE TurnedAway \/ Unlock \/ ExpireToken \/ ExpireBucket \/ UNCHANGED vars
  BY <1>0, <1>13, SameCrowd DEF TurnedAway, Unlock, ExpireToken, ExpireBucket, Pending, vars
<1> QED
  BY <1>1, <1>2, <1>3, <1>4, <1>6, <1>7, <1>8, <1>9, <1>10, <1>11, <1>12, <1>13
  DEF Next, LoginStep, ResetStep

LEMMA SessionsInit == Init => CrowdInv
<1> SUFFICES ASSUME Init PROVE CrowdInv
  OBVIOUS
<1>1. live = <<>> /\ DOMAIN live = {} /\ <<>> \in Seq(Session)
  BY EmptySeq DEF Init
<1>2. SessionTypes
  BY <1>1 DEF Init, SessionTypes, Places
<1>3. \A T \in SUBSET DOMAIN live : ~(Cardinality(T) > MaxSessions)
  <2>1. Cardinality({}) = 0
    BY FS_EmptySet
  <2>2. \A T \in SUBSET DOMAIN live : T = {}
    BY <1>1
  <2>3. \A T \in SUBSET DOMAIN live : Cardinality(T) = 0
    BY <2>1, <2>2
  <2>4. MaxSessions \in Nat /\ ~(0 > MaxSessions)
    BY AccountAssumption
  <2> HIDE DEF Init
  <2> QED BY <2>3, <2>4
<1> QED BY <1>1, <1>2, <1>3 DEF CrowdInv, Listing, Crowded

(* SessionsBounded: a user never has more valid sessions than the limit    *)
(* and one more for each login in flight, however many logins check the    *)
(* limit before any of them creates its session.                           *)
THEOREM SessionsStayBounded == Spec => []SessionsBounded
<1>1. CrowdInv => SessionsBounded
  <2> SUFFICES ASSUME CrowdInv PROVE SessionsBounded
    OBVIOUS
  <2>1. /\ Len(live) \in Nat /\ DOMAIN live = 1 .. Len(live)
        /\ Cardinality(DOMAIN live) = Len(live)
    <3>1. Len(live) \in Nat /\ DOMAIN live = 1 .. Len(live)
      BY LenProperties DEF CrowdInv, SessionTypes
    <3>2. Cardinality(1 .. Len(live)) = IF 1 > Len(live) THEN 0 ELSE Len(live) - 1 + 1
      BY <3>1, FS_Interval
    <3> QED BY <3>1, <3>2
  <2>2. Cardinality(Unaware(DOMAIN live)) \in Nat /\ Cardinality(Handlers) \in Nat
    <3>1. Unaware(DOMAIN live) \in SUBSET Handlers
      BY DEF Unaware, Pending
    <3> QED BY <3>1, HandlersFinite
  <2>3. CASE Len(live) > MaxSessions
    <3>1. Len(live) + Cardinality(Unaware(DOMAIN live)) <= MaxSessions + Cardinality(Handlers)
      BY <2>1, <2>3 DEF CrowdInv, Crowded
    <3> QED BY <2>1, <2>2, <3>1, AccountAssumption DEF SessionsBounded
  <2>4. CASE ~(Len(live) > MaxSessions)
    BY <2>1, <2>2, <2>4, AccountAssumption DEF SessionsBounded
  <2> QED BY <2>3, <2>4
<1>2. CrowdInv /\ [Next]_vars => CrowdInv'
  BY CrowdStep
<1> QED BY SessionsInit, <1>1, <1>2, PTL DEF Spec

-----------------------------------------------------------------------------
(* A login past its lookup was sent the password in force, unless sessions *)
(* were revoked since, or are about to be.                                 *)
Overdue == \E h \in Handlers : at[h] = "revoke"

Informed ==
  \A h \in Handlers : at[h] \in Passing =>
    given[h] \in {password, NoPassword} \/ Overdue

PasswordInv == SessionTypes /\ Informed /\ ReplacedPasswordEndsSessions

(* Steps that leave the password alone and give nobody another one.        *)
LEMMA SamePassword ==
  ASSUME PasswordInv, SessionTypes', password' = password, Overdue => Overdue',
         \A h \in Handlers : at'[h] \in Passing =>
           \/ at[h] \in Passing /\ given'[h] \in {given[h], NoPassword}
           \/ given'[h] \in {password, NoPassword},
         \A i \in DOMAIN live' :
           \/ \E j \in DOMAIN live : live'[i].opened = live[j].opened
           \/ live'[i].opened = NoPassword
           \/ \E h \in Handlers : at[h] \in Passing /\ live'[i].opened = given[h]
  PROVE  PasswordInv'
<1>1. Informed'
  BY DEF PasswordInv, Informed
<1>2. ReplacedPasswordEndsSessions'
  BY DEF PasswordInv, Informed, ReplacedPasswordEndsSessions, Overdue
<1> QED BY <1>1, <1>2 DEF PasswordInv

(* Revocation leaves no session, and no login that remembers a password.   *)
LEMMA AllRevoked ==
  ASSUME SessionTypes, SessionTypes', RevokeAll,
         \A h \in Handlers : at'[h] \in Passing => at[h] \in Passing
  PROVE  PasswordInv'
<1>1. live' = <<>> /\ \A h \in Handlers : at'[h] \in Passing => given'[h] = NoPassword
  BY DEF RevokeAll, Overtaken, SessionTypes
<1> QED BY <1>1 DEF PasswordInv, Informed, ReplacedPasswordEndsSessions

LEMMA PasswordStep ==
  ASSUME PasswordInv, [Next]_vars
  PROVE  PasswordInv'
<1> USE DEF Move, Step, Forget, local, row, Passing
<1>0. /\ SessionTypes /\ SessionTypes' /\ at \in [Handlers -> Places]
      /\ given \in [Handlers -> Passwords \cup {NoPassword}]
      /\ live \in Seq(Session) /\ \A i \in DOMAIN live : live[i] \in Session
  BY SessionTypesStep, LenProperties, ElementOfSeq DEF PasswordInv, SessionTypes
<1>1. ASSUME NEW h \in Handlers, ListSessions(h) PROVE PasswordInv'
  <2>1. \A i \in DOMAIN live' : i \in DOMAIN live /\ live'[i].opened = live[i].opened
    BY <1>0, <1>1 DEF ListSessions, Session
  <2> QED BY <1>0, <1>1, <2>1, SamePassword DEF ListSessions, Overdue
<1>2. ASSUME NEW h \in Handlers, RevokeOldest(h) PROVE PasswordInv'
  <2>1. PICK m : Picks(Unlisted(h), Len(live), m)
    BY <1>0, UnlistedIsPicked
  <2>2. DOMAIN Unlisted(h) = 1 .. Len(Unlisted(h)) /\ DOMAIN live = 1 .. Len(live)
    BY <1>0, UnlistedIsPicked, LenProperties
  <2>3. \A i \in DOMAIN Unlisted(h) : \E j \in DOMAIN live : Unlisted(h)[i] = live[j]
    BY <2>1, <2>2 DEF Picks
  <2>4. live' = Unlisted(h)
    BY <1>2 DEF RevokeOldest
  <2>5. \A i \in DOMAIN live' : \E j \in DOMAIN live : live'[i].opened = live[j].opened
    BY <2>3, <2>4
  <2> QED BY <1>0, <1>2, <2>5, SamePassword DEF RevokeOldest, Overdue
<1>3. ASSUME NEW h \in Handlers, CreateSession(h) PROVE PasswordInv'
  <2> DEFINE new == [opened |-> given[h], listed |-> {}]
  <2>1. at[h] \in Passing /\ new \in Session /\ new.opened = given[h] /\ live' = Append(live, new)
    BY <1>0, <1>3 DEF CreateSession, Session
  <2> HIDE DEF new
  <2>2. \A i \in DOMAIN live' :
          \/ \E j \in DOMAIN live : live'[i].opened = live[j].opened
          \/ at[h] \in Passing /\ live'[i].opened = given[h]
    BY <1>0, <2>1, AppendProperties, LenProperties
  <2> QED BY <1>0, <1>3, <2>2, SamePassword DEF CreateSession, Overdue
<1>4. ASSUME NEW i \in DOMAIN live, EndSession(i) PROVE PasswordInv'
  <2>1. PICK m : Picks(RemoveAt(live, i), Len(live), m)
    BY <1>0, RemovedIsPicked
  <2>2. /\ DOMAIN RemoveAt(live, i) = 1 .. Len(RemoveAt(live, i))
        /\ DOMAIN live = 1 .. Len(live)
    BY <1>0, RemovedIsPicked, LenProperties
  <2>3. live' = RemoveAt(live, i)
    BY <1>4 DEF EndSession
  <2>4. \A k \in DOMAIN live' : \E j \in DOMAIN live : live'[k].opened = live[j].opened
    BY <2>1, <2>2, <2>3 DEF Picks
  <2> QED BY <1>0, <1>4, <2>4, SamePassword DEF EndSession, Overdue
<1>5. ASSUME NEW h \in Handlers, SetThenRevoke(h) PROVE PasswordInv'
  <2>1. CASE Move(h, "write", "revoke") /\ live' = live
    <3>1. at'[h] = "revoke"
      BY <1>0, <2>1
    <3>2. Overdue'
      BY <3>1 DEF Overdue
    <3> QED BY <1>0, <3>2 DEF PasswordInv, Informed, ReplacedPasswordEndsSessions, Overdue
  <2>2. CASE RevokeStep(h, "revoke", "idle")
    BY <1>0, <2>2, AllRevoked DEF RevokeStep
  <2> QED BY <1>5, <2>1, <2>2 DEF SetThenRevoke
<1>6. ASSUME NEW a \in BOOLEAN, NEW p \in Passwords, Administer(a, p) PROVE PasswordInv'
  <2>1. CASE p # password \/ ~a
    BY <1>0, <1>6, <2>1, AllRevoked DEF Administer
  <2>2. CASE ~(p # password \/ ~a)
    BY <1>0, <1>6, <2>2, SamePassword DEF Administer, Overdue
  <2> QED BY <2>1, <2>2
<1>7. ASSUME NEW h \in Handlers, Stop(h) PROVE PasswordInv'
  <2>1. \A i \in DOMAIN live' : i \in DOMAIN live /\ live'[i].opened = live[i].opened
    BY <1>0, <1>7 DEF Stop, Session
  <2> QED BY <1>0, <1>7, <2>1, SamePassword DEF Stop, Overdue
<1>8. ASSUME NEW h \in Handlers, StopUnrevoked(h) PROVE PasswordInv'
  <2>1. \A i \in DOMAIN live' : live'[i].opened = NoPassword
    BY <1>0, <1>8 DEF StopUnrevoked, Session
  <2>2. \A g \in Handlers : at'[g] \in Passing => given'[g] = NoPassword
    BY <1>0, <1>8 DEF StopUnrevoked, Overtaken
  <2> QED BY <1>0, <2>1, <2>2 DEF PasswordInv, Informed, ReplacedPasswordEndsSessions
<1>9. ASSUME NEW h \in Handlers, NEW p \in Passwords, Attempt(h, p) \/ FindByToken(h, p)
      PROVE  PasswordInv'
  BY <1>0, <1>9, SamePassword DEF Attempt, FindByToken, Overdue
<1>10. ASSUME NEW h \in Handlers, Find(h) PROVE PasswordInv'
  BY <1>0, <1>10, SamePassword DEF Find, Overdue
<1>11. ASSUME NEW h \in Handlers,
              \/ IsLocked(h) \/ ReadFailures(h) \/ IncrementFailures(h)
              \/ ResetRateLimit(h) \/ UpdateLastLogin(h)
       PROVE  PasswordInv'
  BY <1>0, <1>11, SamePassword
  DEF IsLocked, ReadFailures, IncrementFailures, ResetRateLimit, UpdateLastLogin, Overdue
<1>12. ASSUME NEW h \in Handlers,
              FindForReset(h) \/ StoreToken(h) \/ ClearExpired(h) \/ CheckActive(h)
       PROVE  PasswordInv'
  BY <1>0, <1>12, SamePassword DEF FindForReset, StoreToken, ClearExpired, CheckActive, Overdue
<1>13. CASE TurnedAway \/ Unlock \/ ExpireToken \/ ExpireBucket \/ UNCHANGED vars
  BY <1>0, <1>13, SamePassword DEF TurnedAway, Unlock, ExpireToken, ExpireBucket, Overdue, vars
<1> QED
  BY <1>1, <1>2, <1>3, <1>4, <1>5, <1>6, <1>7, <1>8, <1>9, <1>10, <1>11, <1>12, <1>13
  DEF Next, LoginStep, ResetStep

(* ReplacedPasswordEndsSessions: a session opened with a replaced password *)
(* is valid only until the revocation that follows, unless its login had   *)
(* looked the user up before it or a reset stopped short of it.            *)
THEOREM ReplacedPasswordsEndSessions == Spec => []ReplacedPasswordEndsSessions
<1>1. Init => PasswordInv
  <2>1. Init => SessionTypes /\ live = <<>> /\ \A h \in Handlers : at[h] \notin Passing
    BY SessionsInit DEF CrowdInv, Init, Passing
  <2> QED BY <2>1 DEF PasswordInv, Informed, ReplacedPasswordEndsSessions
<1>2. PasswordInv /\ [Next]_vars => PasswordInv'
  BY PasswordStep
<1>3. PasswordInv => ReplacedPasswordEndsSessions
  BY DEF PasswordInv
<1> QED BY <1>1, <1>2, <1>3, PTL DEF Spec

-----------------------------------------------------------------------------
(* Backups and restores. *)
Steps == {"new", "backup", "backing", "started", "list", "dump", "dumping"}

Begun == {"started", "list", "dump", "dumping", "exit", "succeeded", "failed"}

(* The journal and the tool follow the operation: a restore has its        *)
(* STARTED line from its first step on, pg_restore is launched by the last *)
(* of the steps, and what is written at the end is what it did.            *)
FollowsInv ==
  \A o \in Operations :
    /\ stage[o] \in Steps => tool[o] = "none"
    /\ stage[o] \in Begun \/ tool[o] # "none" => Says(o, "STARTED")
    /\ stage[o] = "succeeded" => tool[o] = "committed"
    /\ stage[o] = "failed" => tool[o] \in {"none", "aborted"}
    /\ Says(o, "FAILED") => stage[o] = "ended"

JournalInv == BackupTypeOK /\ FollowsInv /\ JournalIsTrue

Kept == written \ exposed

Dumped == UNION dumps

(* What a restore may overwrite is safe: in the snapshot that pg_dump is   *)
(* writing, or in a dump once pg_restore runs.                             *)
SafeInv ==
  \A o \in Operations :
    /\ stage[o] = "dumping" => Kept \subseteq snapshot[o] \cup Dumped
    /\ tool[o] = "running" => Kept \subseteq Dumped

LostInv == SafeInv /\ Kept \subseteq db \cup Dumped

-----------------------------------------------------------------------------
(* Types, needed by both invariants. *)
LEMMA TypesHold == BackupInit => BackupTypeOK
BY BackupAssumption DEF BackupInit, BackupTypeOK, Stages, Events

LEMMA TypesKept ==
  ASSUME BackupTypeOK, [BackupNext]_backupVars
  PROVE  BackupTypeOK'
<1> USE BackupAssumption DEF BackupTypeOK, Stages, Exclusive, Events, files, history
<1>0. BackupTypeOK
  OBVIOUS
<1>1. ASSUME NEW o \in Operations, StartBackup(o) PROVE BackupTypeOK'
  BY <1>0, <1>1 DEF StartBackup, Pass, Enter, Free
<1>2. ASSUME NEW o \in Operations, StartRestore(o) PROVE BackupTypeOK'
  BY <1>0, <1>2 DEF StartRestore, Pass, Write
<1>3. ASSUME NEW o \in Operations, EnterRestore(o) PROVE BackupTypeOK'
  BY <1>0, <1>3 DEF EnterRestore, Pass, Enter, Free, Fail
<1>4. ASSUME NEW o \in Operations, CheckFile(o) PROVE BackupTypeOK'
  BY <1>0, <1>4 DEF CheckFile, Pass, Fail, Leave
<1>5. ASSUME NEW o \in Operations, Snapshot(o) PROVE BackupTypeOK'
  BY <1>0, <1>5 DEF Snapshot, Pass
<1>6. ASSUME NEW o \in Operations, Dump(o) PROVE BackupTypeOK'
  <2>1. dumps' \subseteq SUBSET Writes /\ snapshot' \in [Operations -> SUBSET Writes]
    BY <1>0, <1>6 DEF Dump, KeepSnapshot
  <2>2. CASE Pass(o, "dumping", "exit") /\ Launch(o) /\ UNCHANGED busy
    BY <1>0, <1>6, <2>1, <2>2 DEF Dump, Pass, Launch
  <2>3. CASE Pass(o, "backing", "ended") /\ Leave(o) /\ UNCHANGED tool
    BY <1>0, <1>6, <2>1, <2>3 DEF Dump, Pass, Leave
  <2> QED BY <1>6, <2>2, <2>3 DEF Dump
<1>7. ASSUME NEW o \in Operations, DumpFails(o) PROVE BackupTypeOK'
  BY <1>0, <1>7 DEF DumpFails, Pass, Fail, Leave
<1>8. ASSUME NEW o \in Operations, SeeExit(o) PROVE BackupTypeOK'
  BY <1>0, <1>8 DEF SeeExit, Pass, Leave
<1>9. ASSUME NEW o \in Operations, RecordSuccess(o) PROVE BackupTypeOK'
  BY <1>0, <1>9 DEF RecordSuccess, Pass, Write
<1>10. ASSUME NEW o \in Operations, RecordFailure(o) PROVE BackupTypeOK'
  BY <1>0, <1>10 DEF RecordFailure, Pass, Write
<1>11. ASSUME NEW o \in Operations, Commit(o) PROVE BackupTypeOK'
  BY <1>0, <1>11 DEF Commit
<1>12. ASSUME NEW o \in Operations, Abort(o) PROVE BackupTypeOK'
  BY <1>0, <1>12 DEF Abort
<1>13. ASSUME NEW w \in Writes, CommitRow(w) PROVE BackupTypeOK'
  BY <1>0, <1>13 DEF CommitRow, Restoring
<1>14. ASSUME NEW p \in Processes, Crash(p) PROVE BackupTypeOK'
  BY <1>0, <1>14 DEF Crash
<1>15. CASE UNCHANGED backupVars
  BY <1>0, <1>15 DEF backupVars
<1> QED
  BY <1>1, <1>2, <1>3, <1>4, <1>5, <1>6, <1>7, <1>8,
     <1>9, <1>10, <1>11, <1>12, <1>13, <1>14, <1>15
  DEF BackupNext, Go, PgRestore

-----------------------------------------------------------------------------
(* The journal. *)
LEMMA JournalStart == BackupInit => JournalInv
BY TypesHold DEF BackupInit, JournalInv, FollowsInv, JournalIsTrue, Says, Steps, Begun

LEMMA JournalKept ==
  ASSUME JournalInv, [BackupNext]_backupVars
  PROVE  JournalInv'
<1> USE DEF JournalInv, BackupTypeOK, FollowsInv, JournalIsTrue, Says, Steps, Begun,
            files, history
<1>0. BackupTypeOK /\ FollowsInv /\ JournalIsTrue /\ BackupTypeOK'
  BY TypesKept
<1>1. ASSUME NEW o \in Operations, StartBackup(o) PROVE JournalInv'
  BY <1>0, <1>1 DEF StartBackup, Pass, Enter, Free
<1>2. ASSUME NEW o \in Operations, StartRestore(o) PROVE JournalInv'
  BY <1>0, <1>2 DEF StartRestore, Pass, Write
<1>3. ASSUME NEW o \in Operations, EnterRestore(o) PROVE JournalInv'
  BY <1>0, <1>3 DEF EnterRestore, Pass, Enter, Free, Fail
<1>4. ASSUME NEW o \in Operations, CheckFile(o) PROVE JournalInv'
  BY <1>0, <1>4 DEF CheckFile, Pass, Fail, Leave
<1>5. ASSUME NEW o \in Operations, Snapshot(o) PROVE JournalInv'
  BY <1>0, <1>5 DEF Snapshot, Pass
<1>6. ASSUME NEW o \in Operations, Dump(o) PROVE JournalInv'
  BY <1>0, <1>6 DEF Dump, Pass, KeepSnapshot, Launch, Leave
<1>7. ASSUME NEW o \in Operations, DumpFails(o) PROVE JournalInv'
  BY <1>0, <1>7 DEF DumpFails, Pass, Fail, Leave
<1>8. ASSUME NEW o \in Operations, SeeExit(o) PROVE JournalInv'
  BY <1>0, <1>8 DEF SeeExit, Pass, Leave
<1>9. ASSUME NEW o \in Operations, RecordSuccess(o) PROVE JournalInv'
  BY <1>0, <1>9 DEF RecordSuccess, Pass, Write
<1>10. ASSUME NEW o \in Operations, RecordFailure(o) PROVE JournalInv'
  BY <1>0, <1>10 DEF RecordFailure, Pass, Write
<1>11. ASSUME NEW o \in Operations, Commit(o) PROVE JournalInv'
  BY <1>0, <1>11 DEF Commit
<1>12. ASSUME NEW o \in Operations, Abort(o) PROVE JournalInv'
  BY <1>0, <1>12 DEF Abort
<1>13. ASSUME NEW w \in Writes, CommitRow(w) PROVE JournalInv'
  BY <1>0, <1>13 DEF CommitRow, Restoring
<1>14. ASSUME NEW p \in Processes, Crash(p) PROVE JournalInv'
  BY <1>0, <1>14 DEF Crash
<1>15. CASE UNCHANGED backupVars
  BY <1>0, <1>15 DEF backupVars
<1> QED
  BY <1>1, <1>2, <1>3, <1>4, <1>5, <1>6, <1>7, <1>8,
     <1>9, <1>10, <1>11, <1>12, <1>13, <1>14, <1>15
  DEF BackupNext, Go, PgRestore

(* JournalIsTrue holds in every state: the journal says of a restore what  *)
(* happened to the database (local-backup.service.ts:157-190, route.ts:    *)
(* 128-158).                                                               *)
THEOREM JournalTellsTheTruth == BackupSpec => []JournalIsTrue
<1>1. JournalInv => JournalIsTrue
  BY DEF JournalInv
<1> QED
  BY JournalStart, JournalKept, <1>1, PTL DEF BackupSpec

-----------------------------------------------------------------------------
(* The rows. *)
LEMMA SafeStart == BackupInit => BackupTypeOK /\ LostInv
BY TypesHold DEF BackupInit, LostInv, SafeInv, Kept, Dumped

LEMMA SafeKept ==
  ASSUME BackupTypeOK, LostInv, [BackupNext]_backupVars
  PROVE  LostInv'
<1> USE DEF BackupTypeOK, LostInv, SafeInv, Kept, Dumped, files, history
<1>0. BackupTypeOK /\ SafeInv /\ Kept \subseteq db \cup Dumped
  OBVIOUS
<1>1. ASSUME NEW o \in Operations, StartBackup(o) PROVE LostInv'
  BY <1>0, <1>1 DEF StartBackup, Pass, Enter, Free
<1>2. ASSUME NEW o \in Operations, StartRestore(o) PROVE LostInv'
  BY <1>0, <1>2 DEF StartRestore, Pass, Write
<1>3. ASSUME NEW o \in Operations, EnterRestore(o) PROVE LostInv'
  BY <1>0, <1>3 DEF EnterRestore, Pass, Enter, Free, Fail
<1>4. ASSUME NEW o \in Operations, CheckFile(o) PROVE LostInv'
  BY <1>0, <1>4 DEF CheckFile, Pass, Fail, Leave
<1>5. ASSUME NEW o \in Operations, Snapshot(o) PROVE LostInv'
  BY <1>0, <1>5 DEF Snapshot, Pass
<1>6. ASSUME NEW o \in Operations, Dump(o) PROVE LostInv'
  BY <1>0, <1>6 DEF Dump, Pass, KeepSnapshot, Launch, Leave
<1>7. ASSUME NEW o \in Operations, DumpFails(o) PROVE LostInv'
  BY <1>0, <1>7 DEF DumpFails, Pass, Fail, Leave
<1>8. ASSUME NEW o \in Operations, SeeExit(o) PROVE LostInv'
  BY <1>0, <1>8 DEF SeeExit, Pass, Leave
<1>9. ASSUME NEW o \in Operations, RecordSuccess(o) PROVE LostInv'
  BY <1>0, <1>9 DEF RecordSuccess, Pass, Write
<1>10. ASSUME NEW o \in Operations, RecordFailure(o) PROVE LostInv'
  BY <1>0, <1>10 DEF RecordFailure, Pass, Write
<1>11. ASSUME NEW o \in Operations, Commit(o) PROVE LostInv'
  BY <1>0, <1>11 DEF Commit
<1>12. ASSUME NEW o \in Operations, Abort(o) PROVE LostInv'
  BY <1>0, <1>12 DEF Abort
<1>13. ASSUME NEW w \in Writes, CommitRow(w) PROVE LostInv'
  BY <1>0, <1>13 DEF CommitRow, Restoring
<1>14. ASSUME NEW p \in Processes, Crash(p) PROVE LostInv'
  BY <1>0, <1>14 DEF Crash
<1>15. CASE UNCHANGED backupVars
  BY <1>0, <1>15 DEF backupVars
<1> QED
  BY <1>1, <1>2, <1>3, <1>4, <1>5, <1>6, <1>7, <1>8,
     <1>9, <1>10, <1>11, <1>12, <1>13, <1>14, <1>15
  DEF BackupNext, Go, PgRestore

(* NothingIsLost holds in every state: what a restore overwrites is in the *)
(* safety backup it made first (local-backup.service.ts:178-184).          *)
THEOREM CommittedRowsAreKept == BackupSpec => []NothingIsLost
<1>1. BackupTypeOK /\ LostInv => NothingIsLost
  BY DEF LostInv, Kept, Dumped, NothingIsLost
<1>2. BackupTypeOK /\ LostInv /\ [BackupNext]_backupVars => (BackupTypeOK /\ LostInv)'
  BY TypesKept, SafeKept
<1> QED
  BY SafeStart, <1>1, <1>2, PTL DEF BackupSpec
=============================================================================
