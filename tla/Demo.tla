-------------------------------- MODULE Demo ---------------------------------
(***************************************************************************)
(* The happy path of demo.ts over the relay: one process opens a socket    *)
(* for each party; the provider signs TICKS states one after the other,    *)
(* the consumer counter-signs each, the provider keeps the one it received *)
(* last, and when the last tick has come back it is settled on chain.      *)
(* Nothing is repeated and nothing times out.                              *)
(***************************************************************************)
EXTENDS Relay

CONSTANTS
    pWs, cWs,   \* the provider's and the consumer's socket
    session,
    TICKS       \* 5 in the code

State(nonce, consumerSig) == [type |-> "state", nonce |-> nonce, consumerSig |-> consumerSig]

ASSUME DemoAssumption ==
    /\ Sockets = {pWs, cWs} /\ pWs # cWs
    /\ session \in SessionIds
    /\ TICKS \in Nat \ {0}
    /\ \A n \in 1..TICKS : State(n, TRUE) # Null

VARIABLES
    tick,       \* how many states the provider has sent
    latest,     \* the co-signed state the provider holds, or Null
    done,       \* the promise of that name is resolved
    settled     \* settle has been called with latest

demoVars == <<tick, latest, done, settled>>
vars == <<relayVars, demoVars>>

Init ==
    /\ RelayInit
    /\ tick = 0 /\ latest = Null
    /\ done = FALSE /\ settled = FALSE

\* ready: the join goes out when the socket opens.
Ready(ws, role) == Open(ws, session, role) /\ UNCHANGED demoVars

\* The loop, once both sockets are ready.
Serve ==
    /\ connection[pWs] # "new" /\ connection[cWs] # "new"
    /\ tick < TICKS
    /\ tick' = tick + 1
    /\ inbox' = Sent(inbox, pWs, State(tick + 1, FALSE))
    /\ UNCHANGED <<connection, outbox, joined, channels, gone, latest, done, settled>>

\* The consumer counter-signs whatever the provider has signed.
ConsumerMessage ==
    /\ outbox[cWs] # <<>>
    /\ inbox' = Sent(inbox, cWs, [Head(outbox[cWs]) EXCEPT !.consumerSig = TRUE])
    /\ outbox' = [outbox EXCEPT ![cWs] = Tail(@)]
    /\ UNCHANGED <<connection, joined, channels, gone, demoVars>>

\* done is resolved as soon as the last state has been sent.
ProviderMessage_Wrong ==
    /\ outbox[pWs] # <<>>
    /\ latest' = Head(outbox[pWs])
    /\ outbox' = [outbox EXCEPT ![pWs] = Tail(@)]
    /\ done' = (done \/ tick >= TICKS)
    /\ UNCHANGED <<connection, inbox, joined, channels, gone, tick, settled>>

\* One tick too many is waited for.
ProviderMessage_WrongBound ==
    /\ outbox[pWs] # <<>>
    /\ latest' = Head(outbox[pWs])
    /\ outbox' = [outbox EXCEPT ![pWs] = Tail(@)]
    /\ done' = (done \/ latest'.nonce > TICKS)
    /\ UNCHANGED <<connection, inbox, joined, channels, gone, tick, settled>>

\* The provider keeps what it receives, and resolves done with the last tick.
ProviderMessage ==
    /\ outbox[pWs] # <<>>
    /\ latest' = Head(outbox[pWs])
    /\ outbox' = [outbox EXCEPT ![pWs] = Tail(@)]
    /\ done' = (done \/ latest'.nonce >= TICKS)
    /\ UNCHANGED <<connection, inbox, joined, channels, gone, tick, settled>>

\* After the loop and done: both sockets are closed, and latest is settled.
Settle ==
    /\ tick = TICKS /\ done /\ ~settled
    /\ settled' = TRUE
    /\ connection' = [ws \in Sockets |-> "closed"]
    /\ outbox' = [ws \in Sockets |-> <<>>]
    /\ UNCHANGED <<inbox, joined, channels, gone, tick, latest, done>>

Client ==
    \/ Ready(pWs, "provider") \/ Ready(cWs, "consumer")
    \/ Serve \/ ConsumerMessage \/ ProviderMessage \/ Settle

\* A connection breaks; nobody in the demo listens for that.
Break(ws) == \E lost \in 0..Len(inbox[ws]) : Close(ws, lost) /\ UNCHANGED demoVars

Next ==
    \/ Client
    \/ \E ws \in Sockets :
          (OnMessage(ws) \/ OnClose(ws)) /\ UNCHANGED demoVars
    \/ \E ws \in Sockets : Break(ws)

Spec == Init /\ [][Next]_vars

\* Both processes run, and the relay's event loop serves every socket.
Fairness ==
    /\ WF_vars(Client)
    /\ \A ws \in Sockets : WF_vars(OnMessage(ws) /\ UNCHANGED demoVars)

FairSpec == Spec /\ Fairness

-----------------------------------------------------------------------------
\* A message in flight, to the relay or from it.
InFlight(m, box) == \E i \in 1..Len(box) : box[i] = m

\* The provider never gives up a state for an older one: on one connection
\* through the relay nothing overtakes, though latest is overwritten blindly.
LatestAdvances ==
    [][latest' # latest => latest = Null \/ latest'.nonce > latest.nonce]_vars

\* What is settled is the last state, and both have signed it: the provider does
\* not look at the consumer's signature, and only the relay's routing keeps it
\* from taking its own tick for the answer.
SettlesLastState == settled => latest = State(TICKS, TRUE)

\* A counter-signed state is not dropped while the provider is connected: its
\* join was handled before its first tick, and the consumer's join or close do
\* not unregister it.
ReplyIsForwarded ==
    \A n \in 1..TICKS :
        InFlight(State(n, TRUE), inbox[cWs]) /\ connection[pWs] = "open"
            => Channel(session)["provider"] = pWs

Broken == ~settled /\ \E ws \in Sockets : connection[ws] = "closed"

\* If the last tick finds the consumer registered, the demo completes, whatever
\* became of the ticks before it, unless a connection breaks.
LastTickSuffices ==
    (InFlight(State(TICKS, FALSE), inbox[pWs]) /\ Channel(session)["consumer"] = cWs)
        ~> (settled \/ Broken)
=============================================================================
