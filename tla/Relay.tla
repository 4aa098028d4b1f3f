-------------------------------- MODULE Relay --------------------------------
(***************************************************************************)
(* The untrusted relay of relay.ts: parties connect over WebSockets, name  *)
(* a session and a role in a join message, and from then on everything     *)
(* they send is forwarded to whoever is registered in the other role.  A   *)
(* socket may join again, in another session or role: it then speaks for   *)
(* the new one, and stays registered in the old one as well.  The relay    *)
(* stores nothing: a message whose addressee is not registered, or gone,   *)
(* is dropped without an error.                                            *)
(*                                                                         *)
(* A connection delivers in order and without loss until it closes; what   *)
(* is then in flight may be lost, and the relay learns of the close later. *)
(* Between two connections nothing is ordered.                             *)
(***************************************************************************)
EXTENDS Integers, Sequences

CONSTANTS Sockets, SessionIds, Null

\* Any string is taken for a role: "observer" stands for the others.  Such a
\* socket is sent nothing, and what it sends goes to the provider.
Roles == {"provider", "consumer", "observer"}
Peer(role) == IF role = "provider" THEN "consumer" ELSE "provider"

Join(session, role) == [type |-> "join", session |-> session, role |-> role]

ASSUME RelayAssumption ==
    /\ Null \notin Sockets /\ Null \notin [Roles -> Sockets \cup {Null}]
    /\ \A session \in SessionIds, role \in Roles : Join(session, role) # Null

VARIABLES
    connection,   \* the client's end of each socket
    inbox,        \* what has been sent on a socket and not been handled
    outbox,       \* what the relay has sent on a socket and not been received
    joined,       \* sessionId and role of the connection handler's closure
    channels,     \* the relay's map from sessions to their registered sockets
    gone          \* the sockets whose close event the relay has handled

relayVars == <<connection, inbox, outbox, joined, channels, gone>>

RelayInit ==
    /\ connection = [ws \in Sockets |-> "new"]
    /\ inbox = [ws \in Sockets |-> <<>>]
    /\ outbox = [ws \in Sockets |-> <<>>]
    /\ joined = [ws \in Sockets |-> Null]
    /\ channels = [s \in SessionIds |-> Null]
    /\ gone = {}

-----------------------------------------------------------------------------
(***************************************************************************)
(* A client's end.                                                         *)
(***************************************************************************)
\* A socket opens.
Connect(ws) ==
    /\ connection[ws] = "new"
    /\ connection' = [connection EXCEPT ![ws] = "open"]
    /\ UNCHANGED <<inbox, outbox, joined, channels, gone>>

\* The SDK's client: its open handler sends the one join message.
Open(ws, session, role) ==
    /\ connection[ws] = "new"
    /\ connection' = [connection EXCEPT ![ws] = "open"]
    /\ inbox' = [inbox EXCEPT ![ws] = <<Join(session, role)>>]
    /\ UNCHANGED <<outbox, joined, channels, gone>>

Sent(box, ws, msg) ==
    IF connection[ws] = "open" THEN [box EXCEPT ![ws] = Append(@, msg)] ELSE box

\* The socket closes with what it has sent but for the last lost messages, and
\* receives nothing more.
Close(ws, lost) ==
    /\ connection[ws] = "open"
    /\ connection' = [connection EXCEPT ![ws] = "closed"]
    /\ inbox' = [inbox EXCEPT ![ws] = SubSeq(@, 1, Len(@) - lost)]
    /\ outbox' = [outbox EXCEPT ![ws] = <<>>]
    /\ UNCHANGED <<joined, channels, gone>>

-----------------------------------------------------------------------------
(***************************************************************************)
(* The relay's handlers.                                                   *)
(***************************************************************************)
Channel(session) ==
    IF channels[session] = Null THEN [role \in Roles |-> Null] ELSE channels[session]

\* Every join starts a new channel.
OnJoin_Wrong(ws, msg) ==
    /\ joined' = [joined EXCEPT ![ws] = msg]
    /\ channels' = [channels EXCEPT
          ![msg.session] = [role \in Roles |-> IF role = msg.role THEN ws ELSE Null]]
    /\ UNCHANGED outbox

\* A join registers the socket in its role, in place of any other.
OnJoin(ws, msg) ==
    /\ joined' = [joined EXCEPT ![ws] = msg]
    /\ channels' = [channels EXCEPT
          ![msg.session] = [Channel(msg.session) EXCEPT ![msg.role] = ws]]
    /\ UNCHANGED outbox

\* The message is sent to both ends.
Forward_Wrong(ws, msg) ==
    /\ joined[ws] # Null
    /\ outbox' = [w \in Sockets |->
                    IF \E role \in Roles : Channel(joined[ws].session)[role] = w
                    THEN Append(outbox[w], msg) ELSE outbox[w]]
    /\ UNCHANGED <<joined, channels>>

\* Verbatim, to the counterparty; ?.send drops it when there is none.
Forward(ws, msg) ==
    /\ LET peer == IF joined[ws] = Null THEN Null
                   ELSE Channel(joined[ws].session)[Peer(joined[ws].role)]
       IN  outbox' = IF peer = Null THEN outbox ELSE Sent(outbox, peer, msg)
    /\ UNCHANGED <<joined, channels>>

\* Messages are handled last first.
OnMessage_Wrong(ws) ==
    LET msg == inbox[ws][Len(inbox[ws])]
    IN  /\ inbox[ws] # <<>>
        /\ inbox' = [inbox EXCEPT ![ws] = SubSeq(@, 1, Len(@) - 1)]
        /\ IF msg.type = "join" THEN OnJoin(ws, msg) ELSE Forward(ws, msg)
        /\ UNCHANGED <<connection, gone>>

\* ws.on("message")
OnMessage(ws) ==
    LET msg == Head(inbox[ws])
    IN  /\ inbox[ws] # <<>>
        /\ inbox' = [inbox EXCEPT ![ws] = Tail(@)]
        /\ IF msg.type = "join" THEN OnJoin(ws, msg) ELSE Forward(ws, msg)
        /\ UNCHANGED <<connection, gone>>

\* The channel keeps the socket.
OnClose_Wrong(ws) ==
    /\ connection[ws] = "closed" /\ inbox[ws] = <<>> /\ ws \notin gone
    /\ gone' = gone \cup {ws}
    /\ UNCHANGED <<connection, inbox, outbox, joined, channels>>

\* ws.on("close"), after the last message: the role is cleared, whoever has it.
OnClose(ws) ==
    /\ connection[ws] = "closed" /\ inbox[ws] = <<>> /\ ws \notin gone
    /\ gone' = gone \cup {ws}
    /\ channels' = IF joined[ws] = Null THEN channels
                   ELSE [channels EXCEPT ![joined[ws].session] =
                            [Channel(joined[ws].session) EXCEPT ![joined[ws].role] = Null]]
    /\ UNCHANGED <<connection, inbox, outbox, joined>>
=============================================================================
