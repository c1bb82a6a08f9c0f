------------------------------ MODULE Preferences ------------------------------
(***************************************************************************)
(* What a user or a group keeps in Redis beside the database: the settings *)
(* and privacy documents (settings.service.ts, network.service.ts), each   *)
(* read, merged and written back whole, and the integrations of a group    *)
(* (integrations.service.ts), a key and an index entry written one after   *)
(* the other.  And the user's phone (users.service.ts), checked to be free *)
(* before it is written, and unique in the database.                       *)
(***************************************************************************)
EXTENDS Naturals

CONSTANTS
  PrefField,     \* fields of a document
  Provider,      \* integrations: "slack", "webhook", ...
  Subscriber,    \* users with a phone
  PhoneNo,       \* phone numbers
  PrefCall,      \* concurrent requests
  PrefMaxBegun   \* bound: requests begun

ASSUME PrefAssumption == PrefMaxBegun \in Nat

VARIABLES
  blob,       \* blob[k]: document k as it is read; an absent one reads as defaults
  secrets,    \* providers whose key, with its credentials, is set
  listed,     \* providers in the index of the group
  phone,      \* phone[u]
  prefCall,   \* prefCall[c]: what request c is doing
  prefBegun   \* requests begun (for the bound)

prefVars == <<blob, secrets, listed, phone, prefCall, prefBegun>>

Blob == {"settings", "privacy"}

PrefIdle == [at |-> "idle"]

Defaults == [f \in PrefField |-> TRUE]

OAuthProvider == {"slack", "google_calendar", "zoom", "quickbooks", "xero"}

PrefTypeOK ==
  /\ blob \in [Blob -> [PrefField -> BOOLEAN]]
  /\ secrets \subseteq Provider \ OAuthProvider
  /\ listed \subseteq Provider \ OAuthProvider
  /\ phone \in [Subscriber -> PhoneNo]
  /\ \A u, v \in Subscriber : phone[u] = phone[v] => u = v
  /\ prefBegun \in 0 .. PrefMaxBegun
  /\ \A c \in PrefCall : prefCall[c].at \in
       {"idle", "merging", "connecting", "disconnecting", "renumbering"}

PrefInit ==
  /\ blob = [k \in Blob |-> Defaults]
  /\ secrets = {} /\ listed = {}
  /\ phone \in {p \in [Subscriber -> PhoneNo] : \A u, v \in Subscriber : p[u] = p[v] => u = v}
  /\ prefCall = [c \in PrefCall |-> PrefIdle]
  /\ prefBegun = 0

PrefDo(c, s) == prefCall' = [prefCall EXCEPT ![c] = s] /\ UNCHANGED prefBegun

BeginPrefs(c, s) ==
  /\ prefCall[c] = PrefIdle
  /\ prefBegun < PrefMaxBegun
  /\ prefBegun' = prefBegun + 1
  /\ prefCall' = [prefCall EXCEPT ![c] = s]

(* A patch is merged into what was read.  For privacy a failed read counts *)
(* as no document, so that its write puts every other field back to the    *)
(* default; for settings it fails the request.                             *)
ReadPrefs(c, k, f, value) ==
  /\ \E current \in {blob[k]} \cup (IF k = "privacy" THEN {Defaults} ELSE {}) :
       BeginPrefs(c, [at |-> "merging", doc |-> k, merged |-> [current EXCEPT ![f] = value]])
  /\ UNCHANGED <<blob, secrets, listed, phone>>

(* The whole document is written, over what another request wrote since.   *)
WritePrefs(c) ==
  /\ prefCall[c].at = "merging"
  /\ blob' = [blob EXCEPT ![prefCall[c].doc] = prefCall[c].merged]
  /\ PrefDo(c, PrefIdle)
  /\ UNCHANGED <<secrets, listed, phone>>

StoreSecretOfAny(c, p) ==                      \* defect: the redirect is dropped
  /\ secrets' = secrets \cup {p}
  /\ BeginPrefs(c, [at |-> "connecting", provider |-> p])
  /\ UNCHANGED <<blob, listed, phone>>

(* Only the providers that take credentials are connected; the others are  *)
(* redirected, and no callback completes them.                             *)
StoreSecret(c, p) ==
  /\ p \notin OAuthProvider
  /\ secrets' = secrets \cup {p}
  /\ BeginPrefs(c, [at |-> "connecting", provider |-> p])
  /\ UNCHANGED <<blob, listed, phone>>

IndexProvider(c) ==
  /\ prefCall[c].at = "connecting"
  /\ listed' = listed \cup {prefCall[c].provider}
  /\ PrefDo(c, PrefIdle)
  /\ UNCHANGED <<blob, secrets, phone>>

DeleteSecret(c, p) ==
  /\ secrets' = secrets \ {p}
  /\ BeginPrefs(c, [at |-> "disconnecting", provider |-> p])
  /\ UNCHANGED <<blob, listed, phone>>

UnindexProvider(c) ==
  /\ prefCall[c].at = "disconnecting"
  /\ listed' = listed \ {prefCall[c].provider}
  /\ PrefDo(c, PrefIdle)
  /\ UNCHANGED <<blob, secrets, phone>>

(* A new number must belong to nobody when it is looked up; the update of  *)
(* one that was taken meanwhile fails on the unique column.                *)
CheckPhone(c, u, n) ==
  /\ \A v \in Subscriber \ {u} : phone[v] # n
  /\ BeginPrefs(c, [at |-> "renumbering", user |-> u, number |-> n])
  /\ UNCHANGED <<blob, secrets, listed, phone>>

WritePhone(c) ==
  /\ prefCall[c].at = "renumbering"
  /\ LET u == prefCall[c].user
         n == prefCall[c].number
     IN phone' = IF \E v \in Subscriber \ {u} : phone[v] = n
                 THEN phone ELSE [phone EXCEPT ![u] = n]
  /\ PrefDo(c, PrefIdle)
  /\ UNCHANGED <<blob, secrets, listed>>

(* A request dies between its awaits, or the write fails: for privacy the  *)
(* error is logged and the answer is the same.                             *)
PrefCallDies(c) ==
  /\ prefCall[c] # PrefIdle
  /\ PrefDo(c, PrefIdle)
  /\ UNCHANGED <<blob, secrets, listed, phone>>

PrefNext ==
  \E c \in PrefCall :
    \/ WritePrefs(c) \/ IndexProvider(c) \/ UnindexProvider(c)
    \/ WritePhone(c) \/ PrefCallDies(c)
    \/ \E k \in Blob, f \in PrefField, v \in BOOLEAN : ReadPrefs(c, k, f, v)
    \/ \E p \in Provider : StoreSecret(c, p) \/ DeleteSecret(c, p)
    \/ \E u \in Subscriber, n \in PhoneNo : CheckPhone(c, u, n)

PrefSpec == PrefInit /\ [][PrefNext]_prefVars
===============================================================================
