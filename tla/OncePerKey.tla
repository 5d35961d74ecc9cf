----------------------------- MODULE OncePerKey -----------------------------
(***************************************************************************)
(* What a route with an Idempotency-Key promises: a key takes effect at    *)
(* most once, for the request it came with first, in one indivisible step; *)
(* whoever is told of success is told of an effect of that very request.   *)
(* Nothing is said of how.                                                 *)
(***************************************************************************)
CONSTANTS
  Handlers,    \* requests the server handles, one handler each
  Keys,
  Payloads,    \* what a request asks for
  NoRequest,   \* nothing was received yet
  NoRecord     \* the key was not used yet

VARIABLES
  request,     \* the request of each handler
  answered,    \* what its client was told; "nothing" as long as it waits
  record,      \* the payload each key took effect with
  effects      \* the handlers whose request took effect

promised == <<request, answered, record, effects>>

Request == [key : Keys, payload : Payloads]

Answers == {"created", "cached", "conflict", "refused", "failed", "lost"}

Init ==
  /\ request = [h \in Handlers |-> NoRequest]
  /\ answered = [h \in Handlers |-> "nothing"]
  /\ record = [k \in Keys |-> NoRecord]
  /\ effects = {}

Receive(h) ==
  /\ request[h] = NoRequest
  /\ \E r \in Request : request' = [request EXCEPT ![h] = r]
  /\ UNCHANGED <<answered, record, effects>>

Perform(h) ==
  /\ record[request[h].key] = NoRecord
  /\ record' = [record EXCEPT ![request[h].key] = request[h].payload]
  /\ effects' = effects \cup {h}
  /\ UNCHANGED <<request, answered>>

(* A client may be refused, or never hear of what became of its request.   *)
Answer(h, a) ==
  /\ a = "created" => h \in effects
  /\ a = "cached" => h \notin effects /\ record[request[h].key] = request[h].payload
  /\ a \in {"refused", "conflict"} => h \notin effects
  /\ a = "conflict" => record[request[h].key] \notin {NoRecord, request[h].payload}
  /\ answered' = [answered EXCEPT ![h] = a]
  /\ UNCHANGED <<request, record, effects>>

Waits(h) == request[h] # NoRequest /\ answered[h] = "nothing"

Next ==
  \E h \in Handlers :
    \/ Receive(h)
    \/ Waits(h) /\ Perform(h)
    \/ Waits(h) /\ \E a \in Answers : Answer(h, a)

Spec == Init /\ [][Next]_promised
=============================================================================
