------------------------------- MODULE Messaging -------------------------------
(***************************************************************************)
(* Messages between users: the sockets and rooms of websocket/index.ts,    *)
(* the chat rows of a group (chat.service.ts), direct messages             *)
(* (dm.service.ts), notifications (notifications.service.ts) and the push  *)
(* devices of a user (push.service.ts).  Chat over the socket and chat     *)
(* over HTTP do not meet: what the one sends is shown to the room and not  *)
(* stored, what the other stores is shown to nobody until they ask.        *)
(*                                                                         *)
(* Sending a push is left out: only code that nobody calls sends one.      *)
(***************************************************************************)
EXTENDS Integers, FiniteSets, Sequences

CONSTANTS
  Chatter,       \* users
  Socket,        \* connections
  SocketUser,    \* SocketUser[s]: the user whose token socket s presents
  Device,        \* push tokens, with the platform read off their form
  MaxSaid        \* bound: messages, reminders and devices registered in all

ASSUME MessagingAssumption ==
  /\ SocketUser \in [Socket -> Chatter]
  /\ MaxSaid \in Nat

VARIABLES
  insiders,   \* users with an active membership of the group
  rooms,     \* rooms[s]: the rooms socket s is in, {} while disconnected
  joining,   \* sockets whose join passed the membership check
  heard,     \* heard[s]: chat messages that socket s was sent, by sender
  chat,      \* the chat rows: their authors
  direct,    \* direct messages: sender, recipient and whether read
  notified,   \* notices[u]: the read flags of u's notifications
  devices,   \* devices[u]: push tokens of u
  said       \* what was said so far (for the bound)

msgVars == <<insiders, rooms, joining, heard, chat, direct, notified, devices, said>>

MsgTypeOK ==
  /\ insiders \subseteq Chatter
  /\ rooms \in [Socket -> SUBSET {"user", "chama"}]
  /\ joining \subseteq Socket
  /\ \A s \in Socket : heard[s] \in Seq(Chatter)
  /\ chat \in Seq(Chatter) /\ said \in 0 .. MaxSaid
  /\ \A i \in DOMAIN direct : direct[i].from # direct[i].to
  /\ notified \in [Chatter -> Seq(BOOLEAN)]
  /\ devices \in [Chatter -> SUBSET Device]

MsgInit ==
  /\ insiders = Chatter
  /\ rooms = [s \in Socket |-> {}] /\ joining = {}
  /\ heard = [s \in Socket |-> <<>>]
  /\ chat = <<>> /\ direct = <<>> /\ said = 0
  /\ notified = [u \in Chatter |-> <<>>]
  /\ devices = [u \in Chatter |-> {}]

socketState == <<rooms, joining, heard>>
messageRows == <<chat, direct, notified, devices>>

Say == said < MaxSaid /\ said' = said + 1

-------------------------------------------------------------------------------
(* A valid access token connects, into the user's own room.                *)
Connect(s) ==
  /\ rooms[s] = {}
  /\ rooms' = [rooms EXCEPT ![s] = {"user"}]
  /\ UNCHANGED <<insiders, joining, heard, messageRows, said>>

Disconnect(s) ==
  /\ rooms[s] # {}
  /\ rooms' = [rooms EXCEPT ![s] = {}]
  /\ joining' = joining \ {s}
  /\ heard' = [heard EXCEPT ![s] = <<>>]
  /\ UNCHANGED <<insiders, messageRows, said>>

IsChamaMember(u) == u \in insiders

(* The membership is looked up once, before the room is joined: whoever    *)
(* leaves the group later goes on hearing and speaking in it.              *)
CheckMember(s) ==
  /\ rooms[s] # {} /\ s \notin joining
  /\ IsChamaMember(SocketUser[s])
  /\ joining' = joining \cup {s}
  /\ UNCHANGED <<insiders, rooms, heard, messageRows, said>>

JoinRoom(s) ==
  /\ s \in joining
  /\ joining' = joining \ {s}
  /\ rooms' = [rooms EXCEPT ![s] = @ \cup {"chama"}]
  /\ UNCHANGED <<insiders, heard, messageRows, said>>

LeaveRoom(s) ==
  /\ rooms[s] # {}
  /\ rooms' = [rooms EXCEPT ![s] = @ \ {"chama"}]
  /\ UNCHANGED <<insiders, joining, heard, messageRows, said>>

(* Everybody in the room is sent the message, its sender included.         *)
ChatSend(s) ==
  /\ "chama" \in rooms[s]
  /\ Say
  /\ heard' = [r \in Socket |-> IF "chama" \in rooms[r]
                                THEN Append(heard[r], SocketUser[s]) ELSE heard[r]]
  /\ UNCHANGED <<insiders, rooms, joining, messageRows>>

(* Memberships come and go (module Groups); the rooms do not follow.       *)
ChangeMembership(u) ==
  /\ insiders' = IF u \in insiders THEN insiders \ {u} ELSE insiders \cup {u}
  /\ UNCHANGED <<socketState, messageRows, said>>

-------------------------------------------------------------------------------
(* Over HTTP a message is stored for any user, member or not.              *)
SendMessage(u) ==
  /\ Say
  /\ chat' = Append(chat, u)
  /\ UNCHANGED <<insiders, socketState, direct, notified, devices>>

Notify(u) == notified' = [notified EXCEPT ![u] = Append(@, FALSE)]

(* The notification of a direct message comes after its row, and may fail. *)
SendDirect(u, v) ==
  /\ u # v /\ Say
  /\ direct' = Append(direct, [from |-> u, to |-> v, read |-> FALSE])
  /\ Notify(v) \/ UNCHANGED notified
  /\ UNCHANGED <<insiders, socketState, chat, devices>>

Unread(u, peer) ==
  {i \in DOMAIN direct : direct[i].from = peer /\ direct[i].to = u /\ ~ direct[i].read}

MarkRead(u, peer) ==
  /\ Unread(u, peer) # {}
  /\ direct' = [i \in DOMAIN direct |->
                  [direct[i] EXCEPT !.read = @ \/ i \in Unread(u, peer)]]
  /\ UNCHANGED <<insiders, socketState, chat, notified, devices, said>>

-------------------------------------------------------------------------------
(* Any user reminds any other of a contribution.                           *)
SendReminder(u) ==
  /\ Say
  /\ Notify(u)
  /\ UNCHANGED <<insiders, socketState, chat, direct, devices>>

MarkAsRead(u, i) ==
  /\ i \in DOMAIN notified[u]
  /\ notified' = [notified EXCEPT ![u][i] = TRUE]
  /\ UNCHANGED <<insiders, socketState, chat, direct, devices, said>>

MarkAllAsRead(u) ==
  /\ notified' = [notified EXCEPT ![u] = [i \in DOMAIN @ |-> TRUE]]
  /\ UNCHANGED <<insiders, socketState, chat, direct, devices, said>>

RemoveNotice(u, i) ==
  /\ i \in DOMAIN notified[u]
  /\ notified' = [notified EXCEPT ![u] = SubSeq(@, 1, i - 1) \o SubSeq(@, i + 1, Len(@))]
  /\ UNCHANGED <<insiders, socketState, chat, direct, devices, said>>

(* A device that two users register in turn belongs to both from then on.  *)
RegisterDevice(u, d) ==
  /\ Say
  /\ devices' = [devices EXCEPT ![u] = @ \cup {d}]
  /\ UNCHANGED <<insiders, socketState, chat, direct, notified>>

UnregisterDevice(u, d) ==
  /\ devices' = [devices EXCEPT ![u] = @ \ {d}]
  /\ UNCHANGED <<insiders, socketState, chat, direct, notified, said>>

MsgNext ==
  \/ \E s \in Socket :
       Connect(s) \/ Disconnect(s) \/ CheckMember(s) \/ JoinRoom(s) \/ LeaveRoom(s)
         \/ ChatSend(s)
  \/ \E u \in Chatter :
       \/ ChangeMembership(u) \/ SendMessage(u) \/ SendReminder(u) \/ MarkAllAsRead(u)
       \/ \E v \in Chatter : SendDirect(u, v) \/ MarkRead(u, v)
       \/ \E i \in DOMAIN notified[u] : MarkAsRead(u, i) \/ RemoveNotice(u, i)
       \/ \E d \in Device : RegisterDevice(u, d) \/ UnregisterDevice(u, d)

MsgSpec == MsgInit /\ [][MsgNext]_msgVars
===============================================================================
