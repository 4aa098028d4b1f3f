---------------------------- MODULE RelayClients ----------------------------
(***************************************************************************)
(* The relay among arbitrary clients: each socket sends joins, for any     *)
(* session and in any role, and numbered updates, in any order, and closes *)
(* when it likes.  What it was last told it is, when it sent an update, is *)
(* written down with the update.                                           *)
(***************************************************************************)
EXTENDS Relay, FiniteSets

CONSTANTS
    MAX_MESSAGES,   \* bound on the updates that all clients send
    MAX_JOINS       \* bound on their joins

ASSUME ClientsAssumption == MAX_MESSAGES \in Nat /\ MAX_JOINS \in Nat

VARIABLES
    sent,    \* how many updates its client has sent on each socket
    asked    \* the joins it has sent on it, in order

clientVars == <<sent, asked>>
vars == <<relayVars, clientVars>>

Init ==
    /\ RelayInit
    /\ sent = [ws \in Sockets |-> 0]
    /\ asked = [ws \in Sockets |-> <<>>]

Asked(ws) == {asked[ws][i] : i \in 1..Len(asked[ws])}

\* The session and role a client speaks for: those it asked for last.
Speaks(ws) == IF asked[ws] = <<>> THEN Null ELSE asked[ws][Len(asked[ws])]

Total(count) == Cardinality(UNION {{ws} \X (1..count[ws]) : ws \in Sockets})

SendJoin(ws, session, role) ==
    /\ connection[ws] = "open"
    /\ Total([w \in Sockets |-> Len(asked[w])]) < MAX_JOINS
    /\ asked' = [asked EXCEPT ![ws] = Append(@, Join(session, role))]
    /\ inbox' = Sent(inbox, ws, Join(session, role))
    /\ UNCHANGED <<connection, outbox, joined, channels, gone, sent>>

SendUpdate(ws) ==
    /\ connection[ws] = "open"
    /\ Total(sent) < MAX_MESSAGES
    /\ sent' = [sent EXCEPT ![ws] = @ + 1]
    /\ inbox' = Sent(inbox, ws, [type |-> "update", from |-> ws, number |-> sent'[ws],
                                 as |-> Speaks(ws)])
    /\ UNCHANGED <<connection, outbox, joined, channels, gone, asked>>

Client(ws) ==
    \/ Connect(ws) /\ UNCHANGED clientVars
    \/ \E session \in SessionIds, role \in Roles : SendJoin(ws, session, role)
    \/ SendUpdate(ws)
    \/ \E lost \in 0..Len(inbox[ws]) : Close(ws, lost) /\ UNCHANGED clientVars

Next ==
    \E ws \in Sockets :
        \/ Client(ws)
        \/ OnMessage(ws) /\ UNCHANGED clientVars
        \/ OnClose(ws) /\ UNCHANGED clientVars

Spec == Init /\ [][Next]_vars

-----------------------------------------------------------------------------
\* What reaches a socket was sent by one that spoke for a session and a role, to
\* one that had asked to be that role's peer in that session, whatever sockets
\* joined, joined again, closed and took over a role before.  (A socket that has
\* gone on to another session is still a peer in the ones it left.)
OnlyCounterparty ==
    \A ws \in Sockets : \A i \in 1..Len(outbox[ws]) :
        LET as == outbox[ws][i].as
        IN  as # Null /\ Join(as.session, Peer(as.role)) \in Asked(ws)

\* The relay keeps the order of each sender and repeats nothing: a receiver that
\* sees a state has not yet seen a later one of the same connection.
ForwardedInOrder ==
    \A ws \in Sockets : \A i, j \in 1..Len(outbox[ws]) :
        i < j /\ outbox[ws][i].from = outbox[ws][j].from
            => outbox[ws][i].number < outbox[ws][j].number

\* A channel names sockets in roles they asked for, even though close handlers
\* clear roles blindly; and where it names one the relay has seen close, that
\* socket had gone on to another session or role: a close clears the last only.
RegisteredIsLive ==
    \A session \in SessionIds, role \in Roles :
        LET ws == Channel(session)[role]
        IN  ws # Null => /\ Join(session, role) \in Asked(ws)
                         /\ ws \in gone => joined[ws] # Join(session, role)

\* relay.ts:21, "Forward signed state updates to the counterparty verbatim": a
\* party that is connected and has joined, and whose older sockets the relay has
\* seen close, is the one its counterparty's updates go to.
JoinedIsReachable ==
    \A ws \in Sockets :
        (/\ joined[ws] # Null /\ connection[ws] = "open"
         /\ \A other \in Sockets \ {ws} : joined[ws] \in Asked(other) => other \in gone)
        => Channel(joined[ws].session)[joined[ws].role] = ws
=============================================================================
