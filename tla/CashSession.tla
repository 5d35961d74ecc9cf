---------------------------- MODULE CashSession ----------------------------
(***************************************************************************)
(* The cash drawer of a store: src/src/services/cash.service.ts, and the   *)
(* cash movements that the checkout and payments routes, the refund and    *)
(* the supplier payment services write inside their own transactions.      *)
(*                                                                         *)
(* addMovement and close lock the session row FOR UPDATE for the whole     *)
(* transaction and are one step each.  The four other writers read an OPEN *)
(* session without a lock and insert their movement statements later; the  *)
(* insert's foreign key share-locks the session row until the commit,      *)
(* which is what FOR UPDATE waits for.                                     *)
(***************************************************************************)
EXTENDS Integers, FiniteSets

CONSTANTS
  Handlers,      \* concurrent handlers that take or pay out cash, or open a session
  Stores,
  Sessions,      \* ids of cash sessions, opened or not
  NoSession, NoStore,
  Openings,      \* opening amounts
  Cash,          \* movement amounts: received positive, paid out negative
  MaxCash        \* bound: no movement starts that would take a session beyond it

ASSUME CashAssumption ==
  /\ NoSession \notin Sessions
  /\ NoStore \notin Stores
  /\ Openings \subseteq Nat
  /\ Cash \subseteq Int \ {0}
  /\ MaxCash \in Nat

VARIABLES
  status,     \* of each session; "NONE" before it is opened
  store, opening, expected,
  recorded,   \* the sum of the committed movements of each session
  late,       \* of that, what was inserted after the last close
  at,         \* where each handler is
  mine,       \* the session a handler found, or is inserting into
  place,      \* the store whose session a handler is opening
  amount,     \* the movement a handler is to insert
  tardy       \* its session was closed when it inserted it

sessionVars == <<status, store, opening, expected, recorded, late>>
handlerVars == <<at, mine, place, amount, tardy>>
vars == <<sessionVars, handlerVars>>

OpenIn(st) == {i \in Sessions : status[i] = "OPEN" /\ store[i] = st}

(* Slip: the movement has no foreign key to the session. *)
ShareLockedNever(i) == FALSE

(* An uncommitted movement of session i exists. *)
ShareLocked(i) == \E h \in Handlers : at[h] = "inserted" /\ mine[h] = i

Init ==
  /\ status = [i \in Sessions |-> "NONE"]
  /\ store = [i \in Sessions |-> NoStore]
  /\ opening = [i \in Sessions |-> 0]
  /\ expected = [i \in Sessions |-> 0]
  /\ recorded = [i \in Sessions |-> 0]
  /\ late = [i \in Sessions |-> 0]
  /\ at = [h \in Handlers |-> "idle"]
  /\ mine = [h \in Handlers |-> NoSession]
  /\ place = [h \in Handlers |-> NoStore]
  /\ amount = [h \in Handlers |-> 0]
  /\ tardy = [h \in Handlers |-> FALSE]

-----------------------------------------------------------------------------
(* The end of a handler, by commit or by rollback. *)
Leave(h) ==
  /\ at' = [at EXCEPT ![h] = "idle"]
  /\ mine' = [mine EXCEPT ![h] = NoSession]
  /\ place' = [place EXCEPT ![h] = NoStore]
  /\ amount' = [amount EXCEPT ![h] = 0]
  /\ tardy' = [tardy EXCEPT ![h] = FALSE]

(* open() first looks for an open session of the store ... *)
CheckNoneOpen(h, st) ==
  /\ at[h] = "idle"
  /\ OpenIn(st) = {}
  /\ at' = [at EXCEPT ![h] = "opening"]
  /\ place' = [place EXCEPT ![h] = st]
  /\ UNCHANGED <<sessionVars, mine, amount, tardy>>

(* Slip: no partial unique index on the open sessions. *)
OpenUnindexed(h, i, sum) ==
  /\ at[h] = "opening"
  /\ status[i] = "NONE"
  /\ status' = [status EXCEPT ![i] = "OPEN"]
  /\ store' = [store EXCEPT ![i] = place[h]]
  /\ opening' = [opening EXCEPT ![i] = sum]
  /\ Leave(h)
  /\ UNCHANGED <<expected, recorded, late>>

(* ... and creates one, which the partial unique index refuses if another  *)
(* handler was faster.                                                     *)
Open(h, i, sum) ==
  /\ at[h] = "opening"
  /\ status[i] = "NONE"
  /\ OpenIn(place[h]) = {}
  /\ status' = [status EXCEPT ![i] = "OPEN"]
  /\ store' = [store EXCEPT ![i] = place[h]]
  /\ opening' = [opening EXCEPT ![i] = sum]
  /\ Leave(h)
  /\ UNCHANGED <<expected, recorded, late>>

(* A CASH checkout, payment, refund or supplier payment finds an open      *)
(* session of its store.                                                   *)
FindOpen(h, i, sum) ==
  /\ at[h] = "idle"
  /\ status[i] = "OPEN"
  /\ recorded[i] + sum \in -MaxCash..MaxCash
  /\ at' = [at EXCEPT ![h] = "found"]
  /\ mine' = [mine EXCEPT ![h] = i]
  /\ amount' = [amount EXCEPT ![h] = sum]
  /\ UNCHANGED <<sessionVars, place, tardy>>

(* Its movement names that session, whatever became of it. *)
Insert(h) ==
  /\ at[h] = "found"
  /\ at' = [at EXCEPT ![h] = "inserted"]
  /\ tardy' = [tardy EXCEPT ![h] = status[mine[h]] = "CLOSED"]
  /\ UNCHANGED <<sessionVars, mine, place, amount>>

Commit(h) ==
  /\ at[h] = "inserted"
  /\ recorded' = [recorded EXCEPT ![mine[h]] = recorded[mine[h]] + amount[h]]
  /\ late' = IF tardy[h]
             THEN [late EXCEPT ![mine[h]] = late[mine[h]] + amount[h]]
             ELSE late
  /\ Leave(h)
  /\ UNCHANGED <<status, store, opening, expected>>

(* A rollback: the unique index refused the session, a later statement     *)
(* failed, or the server died.                                             *)
RollBack(h) ==
  /\ at[h] # "idle"
  /\ Leave(h)
  /\ UNCHANGED sessionVars

(* A manual CASH_IN or CASH_OUT. *)
AddMovement(i, sum) ==
  /\ status[i] = "OPEN"
  /\ ~ShareLocked(i)
  /\ recorded[i] + sum \in -MaxCash..MaxCash
  /\ recorded' = [recorded EXCEPT ![i] = recorded[i] + sum]
  /\ UNCHANGED <<status, store, opening, expected, late, handlerVars>>

(* Sum the movements and store what should be in the drawer.  A session    *)
(* that is closed already is closed again.                                 *)
Close(i) ==
  /\ status[i] # "NONE"
  /\ ~ShareLocked(i)
  /\ status' = [status EXCEPT ![i] = "CLOSED"]
  /\ expected' = [expected EXCEPT ![i] = opening[i] + recorded[i]]
  /\ late' = [late EXCEPT ![i] = 0]
  /\ UNCHANGED <<store, opening, recorded, handlerVars>>

Next ==
  \/ \E h \in Handlers, st \in Stores : CheckNoneOpen(h, st)
  \/ \E h \in Handlers, i \in Sessions, sum \in Openings : Open(h, i, sum)
  \/ \E h \in Handlers, i \in Sessions, sum \in Cash : FindOpen(h, i, sum)
  \/ \E h \in Handlers : Insert(h) \/ Commit(h) \/ RollBack(h)
  \/ \E i \in Sessions, sum \in Cash : AddMovement(i, sum)
  \/ \E i \in Sessions : Close(i)

Spec == Init /\ [][Next]_vars

-----------------------------------------------------------------------------
TypeOK ==
  /\ status \in [Sessions -> {"NONE", "OPEN", "CLOSED"}]
  /\ store \in [Sessions -> Stores \cup {NoStore}]
  /\ opening \in [Sessions -> Nat]
  /\ expected \in [Sessions -> Int]
  /\ recorded \in [Sessions -> Int]
  /\ late \in [Sessions -> Int]
  /\ at \in [Handlers -> {"idle", "opening", "found", "inserted"}]
  /\ mine \in [Handlers -> Sessions \cup {NoSession}]
  /\ place \in [Handlers -> Stores \cup {NoStore}]
  /\ amount \in [Handlers -> Int]
  /\ tardy \in [Handlers -> BOOLEAN]
  /\ \A h \in Handlers :
       /\ mine[h] # NoSession <=> at[h] \in {"found", "inserted"}
       /\ mine[h] # NoSession => status[mine[h]] # "NONE"
       /\ place[h] # NoStore <=> at[h] = "opening"

(* A store never has two open sessions, however many handlers saw that it  *)
(* had none: CASH handlers can speak of the open session.                  *)
OneOpenPerStore ==
  \A i, j \in Sessions :
    status[i] = "OPEN" /\ status[j] = "OPEN" /\ store[i] = store[j] => i = j

(* The amount a closed session expects in the drawer accounts for every    *)
(* movement the session holds, but for those that the unlocked read let in *)
(* after it was closed: close() misses no transaction that was under way,  *)
(* and manual movements are never late.                                    *)
ExpectedAddsUp ==
  \A i \in Sessions :
    status[i] = "CLOSED" => expected[i] = opening[i] + recorded[i] - late[i]
=============================================================================
