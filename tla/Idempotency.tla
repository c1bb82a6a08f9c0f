------------------------------ MODULE Idempotency -----------------------------
(***************************************************************************)
(* The middleware of the idempotency keys (idempotency.ts), mounted before *)
(* contributions, donations and the changes of a subscription.  A key is   *)
(* looked up before the handler runs and stored after it answered: between *)
(* the two, another request with the key runs the handler too.  A body     *)
(* stands for its hash, which sees the fields of the outermost object and, *)
(* inside them, only fields of the same names.                             *)
(***************************************************************************)
EXTENDS Naturals

CONSTANTS
  IdemKey, IdemBody,       \* keys, and the bodies sent under them
  IdemCall                 \* requests in flight

VARIABLES
  entry,         \* entry[k]: the cached answer under the key, or none
  idemCall,      \* idemCall[c]: where the request is
  reply          \* what the middleware did last

idemVars == <<entry, idemCall, reply>>

NoEntry == [hash |-> "none"]
Ready   == [pc |-> "ready"]

(* A captured answer: a success, or an error below 500, and who stored it. *)
Entry == [hash : IdemBody, status : {200, 400}, by : IdemCall] \cup {NoEntry}

IdemTypeOK ==
  /\ entry \in [IdemKey -> Entry]
  /\ \A c \in IdemCall : idemCall[c].pc \in {"ready", "handler", "store"}
  /\ reply \in {"none", "next", "replayed", "conflict", "no_key"}

IdemInit ==
  /\ entry    = [k \in IdemKey |-> NoEntry]
  /\ idemCall = [c \in IdemCall |-> Ready]
  /\ reply    = "none"

-------------------------------------------------------------------------------
(* idempotency(): no key, or one too long.                                 *)
KeyMissing ==
  /\ reply' = "no_key"
  /\ UNCHANGED <<entry, idemCall>>

(* The lookup; a Redis that fails is a key never seen.                     *)
Lookup(c, k, body, redisUp) ==
  LET e == IF redisUp THEN entry[k] ELSE NoEntry
  IN /\ idemCall[c] = Ready
     /\ IF e = NoEntry
        THEN /\ idemCall' = [idemCall EXCEPT ![c] = [pc |-> "handler", key |-> k, body |-> body]]
             /\ reply' = "next"
        ELSE /\ reply' = IF e.hash = body THEN "replayed" ELSE "conflict"
             /\ UNCHANGED idemCall
     /\ UNCHANGED entry

(* The handler answers, and the answer is captured unless it is a 5xx.     *)
Respond(c, status) ==
  /\ idemCall[c].pc = "handler"
  /\ idemCall' = [idemCall EXCEPT ![c] =
       IF status < 500 THEN [pc |-> "store", key |-> @.key, body |-> @.body, status |-> status]
                       ELSE Ready]
  /\ UNCHANGED <<entry, reply>>

(* SET NX, after the answer went out and without waiting for it.           *)
Stored(c) ==
  [hash |-> idemCall[c].body, status |-> idemCall[c].status, by |-> c]

StoreAnswer(c) ==
  /\ idemCall[c].pc = "store"
  /\ entry' = [entry EXCEPT ![idemCall[c].key] = IF @ = NoEntry THEN Stored(c) ELSE @]
  /\ idemCall' = [idemCall EXCEPT ![c] = Ready]
  /\ UNCHANGED reply

StoreFails(c) ==
  /\ idemCall[c].pc = "store"
  /\ idemCall' = [idemCall EXCEPT ![c] = Ready]
  /\ UNCHANGED <<entry, reply>>

(* After 24 hours.                                                         *)
KeyExpires(k) ==
  /\ entry[k] # NoEntry
  /\ entry' = [entry EXCEPT ![k] = NoEntry]
  /\ UNCHANGED <<idemCall, reply>>

IdemNext ==
  \/ KeyMissing
  \/ \E c \in IdemCall :
       \/ \E k \in IdemKey, body \in IdemBody, redisUp \in BOOLEAN : Lookup(c, k, body, redisUp)
       \/ \E status \in {200, 400, 500} : Respond(c, status)
       \/ StoreAnswer(c) \/ StoreFails(c)
  \/ \E k \in IdemKey : KeyExpires(k)

IdemSpec == IdemInit /\ [][IdemNext]_idemVars

-------------------------------------------------------------------------------
===============================================================================
