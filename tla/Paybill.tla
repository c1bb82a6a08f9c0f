-------------------------------- MODULE Paybill --------------------------------
(***************************************************************************)
(* What contribute() and donate() do before they open a payment            *)
(* (contribute.service.ts): the pushes of a phone are counted in Redis, and*)
(* the paybill account number of the group is read, or made up and stored. *)
(* Officers may set the number themselves (updateChama).  Every await is a *)
(* step; the column is unique, and nothing else orders the writers.        *)
(***************************************************************************)
EXTENDS Naturals, FiniteSets

CONSTANTS
  PayGroup,           \* groups
  HashOf,             \* HashOf[g]: the code its id hashes to
  Salt,               \* the random suffixes
  Phone,              \* phones payments are pushed to
  PushCall,           \* requests in flight
  StkLimit,           \* pushes a phone gets in an hour (the code's 10)
  MaxPushes           \* bound on a phone's counter

ASSUME PaybillAssumption ==
  /\ DOMAIN HashOf = PayGroup
  /\ StkLimit \in Nat \ {0} /\ MaxPushes \in Nat

VARIABLES
  number,             \* number[g]: chama.paybillAccountNumber, or Unset
  pushes,             \* pushes[p]: the counter of the phone, 0 when there is none
  fading,             \* phones whose counter has a time to live
  quoted,             \* what Safaricom was told: <<group, number>>
  pushCall            \* pushCall[c]: the await the request is at

paybillVars == <<number, pushes, fading, quoted, pushCall>>

Unset == <<>>

(* CHA-xxxxx by the hash, or the same with four more characters.           *)
Plain(g)     == <<HashOf[g]>>
Salted(g, s) == <<HashOf[g], s>>

Number == {Plain(g) : g \in PayGroup} \cup {Salted(g, s) : g \in PayGroup, s \in Salt}

NoPush == [at |-> "none"]

PaybillTypeOK ==
  /\ number \in [PayGroup -> Number \cup {Unset}]
  /\ pushes \in [Phone -> 0 .. MaxPushes]
  /\ fading \subseteq {p \in Phone : pushes[p] > 0}
  /\ quoted \subseteq PayGroup \X Number
  /\ \A c \in PushCall :
       pushCall[c].at \in {"none", "expire", "read", "claim", "reread", "salt"}
  \* a number finds one group
  /\ \A g, h \in PayGroup : number[g] = number[h] /\ number[g] # Unset => g = h

PaybillInit ==
  /\ number   = [g \in PayGroup |-> Unset]
  /\ pushes   = [p \in Phone |-> 0]
  /\ fading   = {}
  /\ quoted   = {}
  /\ pushCall = [c \in PushCall |-> NoPush]

PushGoes(c, at) == pushCall' = [pushCall EXCEPT ![c].at = at]
PushEnds(c)     == pushCall' = [pushCall EXCEPT ![c] = NoPush]

Quote(c, n) ==
  /\ quoted' = quoted \cup {<<pushCall[c].group, n>>}
  /\ PushEnds(c)

-------------------------------------------------------------------------------
(* enforceStkRateLimit: INCR, and EXPIRE when the counter is new.  Beyond  *)
(* the limit the request is refused; without Redis it is let through.      *)
CountPush(c, p, g) ==
  /\ pushCall[c] = NoPush
  /\ pushes[p] < MaxPushes
  /\ pushes' = [pushes EXCEPT ![p] = @ + 1]
  /\ pushCall' = [pushCall EXCEPT ![c] =
       CASE pushes[p] = 0            -> [at |-> "expire", group |-> g, phone |-> p]
         [] pushes[p] + 1 > StkLimit -> NoPush
         [] OTHER                    -> [at |-> "read", group |-> g, phone |-> p]]
  /\ UNCHANGED <<number, fading, quoted>>

PushUncounted(c, p, g) ==
  /\ pushCall[c] = NoPush
  /\ pushCall' = [pushCall EXCEPT ![c] = [at |-> "read", group |-> g, phone |-> p]]
  /\ UNCHANGED <<number, pushes, fading, quoted>>

(* When it fails the counter stays without a time to live.                 *)
SetExpiry(c, redisUp) ==
  /\ pushCall[c].at = "expire"
  /\ fading' = IF redisUp THEN fading \cup {pushCall[c].phone} ELSE fading
  /\ PushGoes(c, "read")
  /\ UNCHANGED <<number, pushes, quoted>>

CounterFades(p) ==
  /\ p \in fading
  /\ pushes' = [pushes EXCEPT ![p] = 0]
  /\ fading' = fading \ {p}
  /\ UNCHANGED <<number, quoted, pushCall>>

-------------------------------------------------------------------------------
Taken(g, n) == \E h \in PayGroup \ {g} : number[h] = n

(* ensureChamaPaybillAccount: a stored number is the one to use.           *)
ReadNumber(c) ==
  LET n == number[pushCall[c].group]
  IN /\ pushCall[c].at = "read"
     /\ IF n # Unset THEN Quote(c, n) ELSE PushGoes(c, "claim") /\ UNCHANGED quoted
     /\ UNCHANGED <<number, pushes, fading>>

(* The update does not look whether the number was set since it was read.  *)
ClaimNumber(c) ==
  LET g == pushCall[c].group
  IN /\ pushCall[c].at = "claim"
     /\ IF Taken(g, Plain(g))
        THEN PushGoes(c, "reread") /\ UNCHANGED <<number, quoted>>
        ELSE number' = [number EXCEPT ![g] = Plain(g)] /\ Quote(c, Plain(g))
     /\ UNCHANGED <<pushes, fading>>

RereadNumber(c) ==
  LET n == number[pushCall[c].group]
  IN /\ pushCall[c].at = "reread"
     /\ IF n # Unset THEN Quote(c, n) ELSE PushGoes(c, "salt") /\ UNCHANGED quoted
     /\ UNCHANGED <<number, pushes, fading>>

(* One more try: if that number is taken as well the request fails.        *)
SaltNumber(c, s) ==
  LET g == pushCall[c].group
      n == Salted(g, s)
  IN /\ pushCall[c].at = "salt"
     /\ IF Taken(g, n)
        THEN PushEnds(c) /\ UNCHANGED <<number, quoted>>
        ELSE number' = [number EXCEPT ![g] = n] /\ Quote(c, n)
     /\ UNCHANGED <<pushes, fading>>

(* updateChama, by an officer: any number no other group has.              *)
SetNumber(g, n) ==
  /\ ~ Taken(g, n)
  /\ number' = [number EXCEPT ![g] = n]
  /\ UNCHANGED <<pushes, fading, quoted, pushCall>>

PushCallDies(c) ==
  /\ pushCall[c] # NoPush
  /\ PushEnds(c)
  /\ UNCHANGED <<number, pushes, fading, quoted>>

PaybillNext ==
  \/ \E c \in PushCall :
       \/ \E p \in Phone, g \in PayGroup : CountPush(c, p, g) \/ PushUncounted(c, p, g)
       \/ \E up \in BOOLEAN : SetExpiry(c, up)
       \/ ReadNumber(c) \/ ClaimNumber(c) \/ RereadNumber(c) \/ PushCallDies(c)
       \/ \E s \in Salt : SaltNumber(c, s)
  \/ \E p \in Phone : CounterFades(p)
  \/ \E g \in PayGroup, n \in Number : SetNumber(g, n)

PaybillSpec == PaybillInit /\ [][PaybillNext]_paybillVars
===============================================================================
