----------------------------- MODULE DemoProofs ------------------------------
(***************************************************************************)
(* The demo settles the last state whatever the relay drops and whichever  *)
(* connections break, for any number of ticks.  The states on their way    *)
(* form a queue of five boxes, from the provider through the relay to the  *)
(* consumer and back, in which none ever overtakes another.                *)
(***************************************************************************)
EXTENDS Demo, SequenceTheorems, TLAPS

Ticks == {State(n, FALSE) : n \in 1..TICKS}
Replies == {State(n, TRUE) : n \in 1..TICKS}

RoleOf(ws) == IF ws = pWs THEN "provider" ELSE "consumer"

\* What a socket's client sends, and what it receives.
Sends(ws) == (IF ws = pWs THEN Ticks ELSE Replies) \cup {Join(session, RoleOf(ws))}
Receives(ws) == IF ws = pWs THEN Replies ELSE Ticks

DemoTypeOK ==
    /\ connection \in [Sockets -> {"new", "open", "closed"}]
    /\ DOMAIN inbox = Sockets /\ DOMAIN outbox = Sockets
    /\ \A ws \in Sockets : inbox[ws] \in Seq(Sends(ws)) /\ outbox[ws] \in Seq(Receives(ws))
    /\ joined \in [Sockets -> {Null} \cup {Join(session, role) : role \in Roles}]
    /\ channels \in [SessionIds -> [Roles -> Sockets \cup {Null}] \cup {Null}]
    /\ gone \subseteq Sockets
    /\ tick \in 0..TICKS
    /\ latest \in Replies \cup {Null}
    /\ done \in BOOLEAN /\ settled \in BOOLEAN

-----------------------------------------------------------------------------
\* The states in a box, and that they are in order.
Nonces(box) == {box[i].nonce : i \in {j \in 1..Len(box) : box[j].type = "state"}}

Monotone(box) ==
    \A i, j \in 1..Len(box) :
        i < j /\ box[i].type = "state" /\ box[j].type = "state" => box[i].nonce < box[j].nonce

HasJoin(box) == box # <<>> /\ box[1].type = "join"
JoinFirst(box) == \A i \in 1..Len(box) : box[i].type = "join" => i = 1

\* Everything in A is older than everything in B.
Before(A, B) == \A a \in A, b \in B : a < b

Chain(A, B, C, D, E) ==
    /\ Before(A, B) /\ Before(A, C) /\ Before(A, D) /\ Before(A, E)
    /\ Before(B, C) /\ Before(B, D) /\ Before(B, E)
    /\ Before(C, D) /\ Before(C, E)
    /\ Before(D, E)

Held == IF latest = Null THEN {} ELSE {latest.nonce}

InOrder ==
    /\ \A ws \in Sockets : Monotone(inbox[ws]) /\ Monotone(outbox[ws])
    /\ Chain(Held, Nonces(outbox[pWs]), Nonces(inbox[cWs]),
             Nonces(outbox[cWs]), Nonces(inbox[pWs]))
    /\ Held \cup Nonces(outbox[pWs]) \cup Nonces(inbox[cWs])
         \cup Nonces(outbox[cWs]) \cup Nonces(inbox[pWs]) \subseteq 1..tick

\* A socket joins in its role with its first message, and stays registered until
\* the relay has seen it close.
Joining ==
    \A ws \in Sockets :
        /\ joined[ws] \in {Null, Join(session, RoleOf(ws))}
        /\ JoinFirst(inbox[ws])
        /\ HasJoin(inbox[ws]) => joined[ws] = Null
        /\ inbox[ws] # <<>> \/ connection[ws] = "open" =>
              joined[ws] # Null \/ HasJoin(inbox[ws])
        /\ connection[ws] = "new" => joined[ws] = Null /\ inbox[ws] = <<>>
        /\ ws \in gone => connection[ws] = "closed" /\ inbox[ws] = <<>>
        /\ joined[ws] # Null /\ ws \notin gone => Channel(session)[RoleOf(ws)] = ws
        /\ Channel(session)[RoleOf(ws)] \in {Null, ws}

\* What has passed the relay once was sent by a provider that had joined.
ProviderJoined ==
    Nonces(outbox[cWs]) \cup Nonces(inbox[cWs]) \cup Nonces(outbox[pWs]) # {} => joined[pWs] # Null

Finish == (done => latest = State(TICKS, TRUE)) /\ (settled => done)

DemoInv == DemoTypeOK /\ InOrder /\ Joining /\ ProviderJoined /\ Finish

-----------------------------------------------------------------------------
(***************************************************************************)
(* Boxes and the chain they form.                                          *)
(***************************************************************************)

\* What is left when the first message is taken out of a box.
LEMMA BoxTail ==
    ASSUME NEW S, NEW q \in Seq(S), q # <<>>
    PROVE  /\ Tail(q) \in Seq(S) /\ Head(q) = q[1] /\ q[1] \in S
           /\ Monotone(q) => Monotone(Tail(q))
           /\ Nonces(Tail(q)) \subseteq Nonces(q)
           /\ q[1].type = "state" => q[1].nonce \in Nonces(q)
           /\ q[1].type = "state" /\ Monotone(q) => Before({q[1].nonce}, Nonces(Tail(q)))
           /\ JoinFirst(q) => JoinFirst(Tail(q)) /\ ~HasJoin(Tail(q))
<1> DEFINE t == Tail(q)
<1>1. Len(q) \in Nat /\ Len(q) # 0 /\ 1 \in 1..Len(q)
  BY EmptySeq, LenProperties
<1>2. /\ t \in Seq(S) /\ Head(q) = q[1] /\ Len(t) = Len(q) - 1
      /\ \A i \in 1..Len(t) : t[i] = q[i + 1]
  BY <1>1, HeadTailProperties
<1>3. q[1] \in S
  BY <1>1, ElementOfSeq
<1> HIDE DEF t
<1>4. \A i \in 1..Len(t) : i + 1 \in 1..Len(q) /\ i + 1 # 1 /\ 1 < i + 1 /\ t[i] = q[i + 1]
  BY <1>1, <1>2
<1>5. Monotone(q) => Monotone(t)
  <2> SUFFICES ASSUME Monotone(q), NEW i \in 1..Len(t), NEW j \in 1..Len(t), i < j,
                      t[i].type = "state", t[j].type = "state"
               PROVE  t[i].nonce < t[j].nonce
    BY DEF Monotone
  <2>1. i + 1 < j + 1
    OBVIOUS
  <2> QED
    BY <1>4, <2>1 DEF Monotone
<1>6. Nonces(t) \subseteq Nonces(q)
  BY <1>4 DEF Nonces
<1>7. q[1].type = "state" => q[1].nonce \in Nonces(q)
  BY <1>1 DEF Nonces
<1>8. q[1].type = "state" /\ Monotone(q) => Before({q[1].nonce}, Nonces(t))
  BY <1>1, <1>4 DEF Monotone, Nonces, Before
<1>9. JoinFirst(q) => JoinFirst(t) /\ ~HasJoin(t)
  <2>1. JoinFirst(q) => \A i \in 1..Len(t) : t[i].type # "join"
    BY <1>4 DEF JoinFirst
  <2>2. t # <<>> => 1 \in 1..Len(t)
    BY <1>2, EmptySeq, LenProperties
  <2> QED
    BY <2>1, <2>2 DEF JoinFirst, HasJoin
<1> QED
  BY <1>2, <1>3, <1>5, <1>6, <1>7, <1>8, <1>9 DEF t

\* What a later state adds to a box.
LEMMA BoxAppend ==
    ASSUME NEW S, NEW q \in Seq(S), NEW e \in S, e.type = "state"
    PROVE  /\ Append(q, e) \in Seq(S) /\ Append(q, e) # <<>>
           /\ Nonces(Append(q, e)) = Nonces(q) \cup {e.nonce}
           /\ Monotone(q) /\ Before(Nonces(q), {e.nonce}) => Monotone(Append(q, e))
           /\ (HasJoin(Append(q, e)) <=> HasJoin(q))
           /\ JoinFirst(q) => JoinFirst(Append(q, e))
<1> DEFINE a == Append(q, e)
<1>1. a \in Seq(S) /\ Len(a) = Len(q) + 1 /\ Len(q) \in Nat
  BY AppendProperties, LenProperties
<1>2. (\A i \in 1..Len(q) : a[i] = q[i]) /\ a[Len(q) + 1] = e
  BY AppendProperties
<1> HIDE DEF a
<1>3. \A i \in 1..Len(a) : i \in 1..Len(q) \/ i = Len(q) + 1
  BY <1>1
<1>4. 1..Len(q) \subseteq 1..Len(a) /\ Len(q) + 1 \in 1..Len(a)
  BY <1>1
<1>5. Nonces(a) = Nonces(q) \cup {e.nonce}
  <2>1. Nonces(a) \subseteq Nonces(q) \cup {e.nonce}
    BY <1>2, <1>3 DEF Nonces
  <2>2. Nonces(q) \subseteq Nonces(a) /\ e.nonce \in Nonces(a)
    BY <1>2, <1>4 DEF Nonces
  <2> QED
    BY <2>1, <2>2
<1>6. Monotone(q) /\ Before(Nonces(q), {e.nonce}) => Monotone(a)
  <2> SUFFICES ASSUME Monotone(q), Before(Nonces(q), {e.nonce}),
                      NEW i \in 1..Len(a), NEW j \in 1..Len(a), i < j,
                      a[i].type = "state", a[j].type = "state"
               PROVE  a[i].nonce < a[j].nonce
    BY DEF Monotone
  <2>1. CASE j \in 1..Len(q)
    <3>1. i \in 1..Len(q)
      BY <1>1, <2>1
    <3> QED
      BY <1>2, <2>1, <3>1 DEF Monotone
  <2>2. CASE j = Len(q) + 1
    <3>1. i \in 1..Len(q)
      BY <1>1, <2>2
    <3>2. a[i].nonce \in Nonces(q)
      BY <1>2, <3>1 DEF Nonces
    <3> QED
      BY <1>2, <2>2, <3>2 DEF Before
  <2> QED
    BY <1>3, <2>1, <2>2
<1>7. a # <<>>
  BY <1>1, EmptySeq
<1>8. (HasJoin(a) <=> HasJoin(q))
  <2>1. CASE q = <<>>
    <3>1. a[1] = e
      BY <1>2, <2>1, EmptySeq
    <3> QED
      BY <2>1, <3>1 DEF HasJoin
  <2>2. CASE q # <<>>
    <3>1. a[1] = q[1]
      BY <1>1, <1>2, <2>2, EmptySeq
    <3> QED
      BY <1>7, <2>2, <3>1 DEF HasJoin
  <2> QED
    BY <2>1, <2>2
<1>9. JoinFirst(q) => JoinFirst(a)
  BY <1>2, <1>3 DEF JoinFirst
<1> QED
  BY <1>1, <1>5, <1>6, <1>7, <1>8, <1>9 DEF a

\* What is left when messages are lost at the end of a box.
LEMMA BoxCut ==
    ASSUME NEW S, NEW q \in Seq(S), NEW c \in Seq(S), Len(c) <= Len(q),
           \A i \in 1..Len(c) : c[i] = q[i]
    PROVE  /\ Nonces(c) \subseteq Nonces(q)
           /\ Monotone(q) => Monotone(c)
           /\ JoinFirst(q) => JoinFirst(c)
           /\ c # <<>> => q # <<>>
           /\ c # <<>> => (HasJoin(c) <=> HasJoin(q))
<1>1. Len(q) \in Nat /\ Len(c) \in Nat
  BY LenProperties
<1>2. \A i \in 1..Len(c) : i \in 1..Len(q) /\ c[i] = q[i]
  BY <1>1
<1>3. Nonces(c) \subseteq Nonces(q)
  BY <1>2 DEF Nonces
<1>4. Monotone(q) => Monotone(c)
  BY <1>2 DEF Monotone
<1>5. JoinFirst(q) => JoinFirst(c)
  BY <1>2 DEF JoinFirst
<1>6. c # <<>> => 1 \in 1..Len(c)
  BY <1>1, EmptySeq
<1>7. c # <<>> => q # <<>> /\ c[1] = q[1]
  BY <1>1, <1>2, <1>6, EmptySeq
<1> QED
  BY <1>3, <1>4, <1>5, <1>7 DEF HasJoin

\* An empty box is in order and has nothing in it.
LEMMA BoxEmpty ==
    /\ Nonces(<<>>) = {} /\ Monotone(<<>>) /\ JoinFirst(<<>>) /\ ~HasJoin(<<>>)
    /\ \A S : <<>> \in Seq(S)
<1>1. \A i \in 1..Len(<<>>) : FALSE
  BY EmptySeq
<1> QED
  BY <1>1, EmptySeq DEF Nonces, Monotone, JoinFirst, HasJoin

\* States may be taken out of the chain,
LEMMA ChainShrinks ==
    ASSUME NEW A, NEW B, NEW C, NEW D, NEW E, Chain(A, B, C, D, E),
           NEW a \in SUBSET A, NEW b \in SUBSET B, NEW c \in SUBSET C,
           NEW d \in SUBSET D, NEW e \in SUBSET E
    PROVE  Chain(a, b, c, d, e)
  BY DEF Chain, Before

\* and the first state of a box may move to the end of the next.
LEMMA ChainMoves ==
    ASSUME NEW A, NEW B, NEW C, NEW D, NEW E, Chain(A, B, C, D, E), NEW n
    PROVE  /\ \A e \in SUBSET E : n \in E /\ Before({n}, e) => Chain(A, B, C, D \cup {n}, e)
           /\ \A d \in SUBSET D : n \in D /\ Before({n}, d) => Chain(A, B, C \cup {n}, d, E)
           /\ \A c \in SUBSET C : n \in C /\ Before({n}, c) => Chain(A, B \cup {n}, c, D, E)
           /\ \A b \in SUBSET B : n \in B /\ Before({n}, b) => Chain({n}, b, C, D, E)
  BY DEF Chain, Before

-----------------------------------------------------------------------------
(***************************************************************************)
(* The two sides and their messages.                                       *)
(***************************************************************************)

LEMMA TwoSides ==
    /\ pWs \in Sockets /\ cWs \in Sockets /\ pWs # cWs
    /\ \A ws \in Sockets : ws = pWs \/ ws = cWs
    /\ RoleOf(pWs) = "provider" /\ RoleOf(cWs) = "consumer"
    /\ {"provider", "consumer"} \subseteq Roles
    /\ Peer("provider") = "consumer" /\ Peer("consumer") = "provider"
    /\ session \in SessionIds
  BY DemoAssumption DEF RoleOf, Roles, Peer

\* What the two sides send: ticks, replies and one join each.
LEMMA States ==
    \A n : \A sig, to : /\ State(n, sig).type = "state" /\ State(n, sig).nonce = n
                        /\ [State(n, sig) EXCEPT !.consumerSig = to] = State(n, to)
  BY DEF State

LEMMA TicksAre ==
    ASSUME NEW t \in Ticks
    PROVE  /\ t.type = "state" /\ t.nonce \in 1..TICKS
           /\ [t EXCEPT !.consumerSig = TRUE] = State(t.nonce, TRUE)
<1>1. PICK n \in 1..TICKS : t = State(n, FALSE)
  BY DEF Ticks
<1>2. t.type = "state" /\ t.nonce = n
  BY <1>1, States
<1>3. [t EXCEPT !.consumerSig = TRUE] = State(n, TRUE)
  BY <1>1, States
<1> QED
  BY <1>2, <1>3

LEMMA RepliesAre ==
    ASSUME NEW r \in Replies
    PROVE  r.type = "state" /\ r.nonce \in 1..TICKS /\ r = State(r.nonce, TRUE)
  BY DEF Replies, State

LEMMA Sendable ==
    ASSUME NEW n \in 1..TICKS
    PROVE  State(n, FALSE) \in Ticks /\ State(n, TRUE) \in Replies
  BY DEF Ticks, Replies

LEMMA Joins ==
    ASSUME NEW role \in Roles
    PROVE  /\ Join(session, role).type = "join" /\ Join(session, role).session = session
           /\ Join(session, role).role = role /\ Join(session, role) # Null
<1>1. Join(session, role) # Null
  BY RelayAssumption, DemoAssumption
<1> QED
  BY <1>1 DEF Join

LEMMA SendsSplit ==
    ASSUME NEW ws \in Sockets, NEW m \in Sends(ws)
    PROVE  /\ m.type = "join" => m = Join(session, RoleOf(ws))
           /\ m.type # "join" => /\ m.type = "state" /\ m.nonce \in 1..TICKS
                                 /\ ws = pWs => m \in Ticks
                                 /\ ws = cWs => m \in Replies
<1>1. RoleOf(ws) \in Roles /\ (ws = pWs \/ ws = cWs) /\ pWs # cWs
  BY TwoSides
<1>2. Join(session, RoleOf(ws)).type = "join"
  BY <1>1, Joins
<1>3. m = Join(session, RoleOf(ws)) \/ m \in (IF ws = pWs THEN Ticks ELSE Replies)
  BY DEF Sends
<1>4. \A t \in Ticks \cup Replies : t.type = "state" /\ t.nonce \in 1..TICKS
  BY TicksAre, RepliesAre
<1> QED
  BY <1>1, <1>2, <1>3, <1>4

\* A step that brings no new state into any box keeps their order.
LEMMA Shrunk ==
    ASSUME DemoInv, latest' = latest, tick' = tick,
           joined[pWs] # Null => joined'[pWs] # Null,
           \A ws \in Sockets :
               /\ Monotone(inbox'[ws]) /\ Nonces(inbox'[ws]) \subseteq Nonces(inbox[ws])
               /\ Monotone(outbox'[ws]) /\ Nonces(outbox'[ws]) \subseteq Nonces(outbox[ws])
    PROVE  InOrder' /\ ProviderJoined'
<1>1. /\ Nonces(inbox'[pWs]) \subseteq Nonces(inbox[pWs])
      /\ Nonces(inbox'[cWs]) \subseteq Nonces(inbox[cWs])
      /\ Nonces(outbox'[pWs]) \subseteq Nonces(outbox[pWs])
      /\ Nonces(outbox'[cWs]) \subseteq Nonces(outbox[cWs])
  BY TwoSides
<1>2. Held' = Held
  BY DEF Held
<1>3. Chain(Held, Nonces(outbox[pWs]), Nonces(inbox[cWs]),
            Nonces(outbox[cWs]), Nonces(inbox[pWs]))
  BY DEF DemoInv, InOrder
<1>4. Chain(Held, Nonces(outbox'[pWs]), Nonces(inbox'[cWs]),
            Nonces(outbox'[cWs]), Nonces(inbox'[pWs]))
  BY <1>1, <1>3, ChainShrinks
<1>5. InOrder'
  BY <1>1, <1>2, <1>4 DEF DemoInv, InOrder
<1>6. ProviderJoined'
  BY <1>1 DEF DemoInv, ProviderJoined
<1> QED
  BY <1>5, <1>6

-----------------------------------------------------------------------------
(***************************************************************************)
(* One lemma per action.                                                   *)
(***************************************************************************)

LEMMA ReadyKeeps ==
    ASSUME DemoInv, NEW ws \in Sockets, Ready(ws, RoleOf(ws))
    PROVE  DemoInv'
<1> DEFINE j == Join(session, RoleOf(ws))
           q == <<j>>
<1>1. j.type = "join" /\ j \in Sends(ws) /\ RoleOf(ws) \in Roles
  BY TwoSides, Joins DEF Sends
<1> HIDE DEF j
<1>2. /\ q \in Seq(Sends(ws)) /\ q # <<>> /\ Len(q) = 1 /\ q[1] = j
  BY <1>1
<1> HIDE DEF q
<1>3. HasJoin(q) /\ JoinFirst(q) /\ Monotone(q) /\ Nonces(q) = {}
  BY <1>1, <1>2 DEF HasJoin, JoinFirst, Monotone, Nonces
<1>4. joined[ws] = Null /\ inbox[ws] = <<>> /\ ws \notin gone
  BY DEF Ready, Open, DemoInv, Joining
<1>5. /\ inbox' = [inbox EXCEPT ![ws] = q]
      /\ connection' = [connection EXCEPT ![ws] = "open"]
      /\ UNCHANGED <<outbox, joined, channels, gone, tick, latest, done, settled>>
  BY DEF Ready, Open, demoVars, j, q
<1>6. /\ DOMAIN inbox' = Sockets /\ inbox'[ws] = q
      /\ \A w \in Sockets : w # ws => inbox'[w] = inbox[w]
      /\ connection' \in [Sockets -> {"new", "open", "closed"}] /\ connection'[ws] = "open"
      /\ \A w \in Sockets : w # ws => connection'[w] = connection[w]
  BY <1>5 DEF DemoInv, DemoTypeOK
<1>7. DemoTypeOK'
  BY <1>2, <1>5, <1>6 DEF DemoInv, DemoTypeOK
<1>8. InOrder' /\ ProviderJoined'
  <2>1. \A w \in Sockets : Monotone(inbox'[w]) /\ Nonces(inbox'[w]) \subseteq Nonces(inbox[w])
    BY <1>3, <1>6 DEF DemoInv, InOrder
  <2>2. \A w \in Sockets : Monotone(outbox[w])
    BY DEF DemoInv, InOrder
  <2> QED
    BY <1>5, <2>1, <2>2, Shrunk
<1>9. Joining'
  BY <1>3, <1>4, <1>5, <1>6 DEF DemoInv, Joining, Channel
<1> QED
  BY <1>5, <1>7, <1>8, <1>9 DEF DemoInv, Finish

\* A state that one side sends, or loses with its connection.
LEMMA SentBox ==
    ASSUME DemoTypeOK, Joining, NEW ws \in Sockets, NEW m \in Sends(ws), m.type = "state",
           Monotone(inbox[ws]), Before(Nonces(inbox[ws]), {m.nonce}),
           NEW box, box = Sent(inbox, ws, m)
    PROVE  /\ DOMAIN box = Sockets /\ box[ws] \in Seq(Sends(ws)) /\ Monotone(box[ws])
           /\ \A w \in Sockets : w # ws => box[w] = inbox[w]
           /\ Nonces(box[ws]) \subseteq Nonces(inbox[ws]) \cup {m.nonce}
           /\ JoinFirst(box[ws])
           /\ HasJoin(box[ws]) => joined[ws] = Null
           /\ box[ws] # <<>> \/ connection[ws] = "open" => joined[ws] # Null \/ HasJoin(box[ws])
           /\ connection[ws] # "open" => box[ws] = inbox[ws]
<1>1. inbox[ws] \in Seq(Sends(ws)) /\ DOMAIN inbox = Sockets
  BY DEF DemoTypeOK
<1>2. CASE connection[ws] # "open"
  <2>1. box = inbox
    BY <1>2 DEF Sent
  <2> QED
    BY <1>1, <1>2, <2>1 DEF Joining
<1>3. CASE connection[ws] = "open"
  <2>1. DOMAIN box = Sockets /\ box[ws] = Append(inbox[ws], m)
        /\ \A w \in Sockets : w # ws => box[w] = inbox[w]
    BY <1>1, <1>3 DEF Sent
  <2>2. /\ JoinFirst(inbox[ws]) /\ (HasJoin(inbox[ws]) => joined[ws] = Null)
        /\ joined[ws] # Null \/ HasJoin(inbox[ws])
    BY <1>3 DEF Joining
  <2>3. /\ box[ws] \in Seq(Sends(ws))
        /\ Nonces(box[ws]) = Nonces(inbox[ws]) \cup {m.nonce}
        /\ Monotone(box[ws])
        /\ (HasJoin(box[ws]) <=> HasJoin(inbox[ws])) /\ JoinFirst(box[ws])
    BY <1>1, <2>1, <2>2, BoxAppend
  <2> QED
    BY <1>3, <2>1, <2>2, <2>3
<1> QED
  BY <1>2, <1>3

LEMMA ServeKeeps == ASSUME DemoInv, Serve PROVE DemoInv'
<1> DEFINE m == State(tick + 1, FALSE)
<1>1. /\ tick \in Nat /\ TICKS \in Nat /\ tick + 1 \in 1..TICKS /\ tick' = tick + 1
      /\ tick' \in 0..TICKS
  BY DemoAssumption DEF Serve, DemoInv, DemoTypeOK
<1>2. m \in Sends(pWs) /\ m.type = "state" /\ m.nonce = tick + 1
  BY <1>1, States, Sendable DEF Sends
<1>3. inbox' = Sent(inbox, pWs, m)
      /\ UNCHANGED <<connection, outbox, joined, channels, gone, latest, done, settled>>
      /\ connection[pWs] # "new"
  BY DEF Serve
<1> HIDE DEF m
<1>4. Before(Nonces(inbox[pWs]), {m.nonce}) /\ Monotone(inbox[pWs])
  <2>1. Nonces(inbox[pWs]) \subseteq 1..tick /\ Monotone(inbox[pWs])
    BY TwoSides DEF DemoInv, InOrder
  <2> QED
    BY <1>1, <1>2, <2>1 DEF Before
<1>5. /\ DOMAIN inbox' = Sockets /\ inbox'[pWs] \in Seq(Sends(pWs)) /\ Monotone(inbox'[pWs])
      /\ \A w \in Sockets : w # pWs => inbox'[w] = inbox[w]
      /\ Nonces(inbox'[pWs]) \subseteq Nonces(inbox[pWs]) \cup {m.nonce}
      /\ JoinFirst(inbox'[pWs])
      /\ HasJoin(inbox'[pWs]) => joined[pWs] = Null
      /\ inbox'[pWs] # <<>> \/ connection[pWs] = "open"
            => joined[pWs] # Null \/ HasJoin(inbox'[pWs])
      /\ connection[pWs] # "open" => inbox'[pWs] = inbox[pWs]
  <2>1. pWs \in Sockets /\ DemoTypeOK /\ Joining
    BY TwoSides DEF DemoInv
  <2> QED
    BY <1>2, <1>3, <1>4, <2>1, SentBox, Zenon
<1>6. DemoTypeOK'
  BY <1>1, <1>3, <1>5, TwoSides DEF DemoInv, DemoTypeOK
<1>7. inbox'[cWs] = inbox[cWs]
  BY <1>5, TwoSides
<1>8. InOrder'
  <2>1. /\ Chain(Held, Nonces(outbox[pWs]), Nonces(inbox[cWs]),
                 Nonces(outbox[cWs]), Nonces(inbox[pWs]))
        /\ Held \cup Nonces(outbox[pWs]) \cup Nonces(inbox[cWs])
             \cup Nonces(outbox[cWs]) \cup Nonces(inbox[pWs]) \subseteq 1..tick
    BY DEF DemoInv, InOrder
  <2>2. \A n \in 1..tick : n < m.nonce
    BY <1>1, <1>2
  <2>3. Chain(Held, Nonces(outbox[pWs]), Nonces(inbox[cWs]),
              Nonces(outbox[cWs]), Nonces(inbox[pWs]) \cup {m.nonce})
    BY <2>1, <2>2 DEF Chain, Before
  <2>4. Chain(Held, Nonces(outbox[pWs]), Nonces(inbox[cWs]),
              Nonces(outbox[cWs]), Nonces(inbox'[pWs]))
    BY <1>5, <2>3, ChainShrinks
  <2>5. 1..tick \subseteq 1..tick' /\ m.nonce \in 1..tick'
    BY <1>1, <1>2
  <2>6. Held' \cup Nonces(outbox'[pWs]) \cup Nonces(inbox'[cWs])
             \cup Nonces(outbox'[cWs]) \cup Nonces(inbox'[pWs]) \subseteq 1..tick'
    BY <1>3, <1>5, <1>7, <2>1, <2>5 DEF Held
  <2>7. \A ws \in Sockets : Monotone(inbox'[ws]) /\ Monotone(outbox'[ws])
    BY <1>3, <1>5 DEF DemoInv, InOrder
  <2>8. Held' = Held
    BY <1>3 DEF Held
  <2> QED
    BY <1>3, <1>7, <2>4, <2>6, <2>7, <2>8 DEF InOrder
<1>9. Joining'
  BY <1>3, <1>5, TwoSides DEF DemoInv, Joining, Channel
<1>10. ProviderJoined' /\ Finish'
  BY <1>3, <1>7 DEF DemoInv, ProviderJoined, Finish
<1> QED
  BY <1>6, <1>8, <1>9, <1>10 DEF DemoInv

\* The consumer's answer takes the place of the tick it answers.
LEMMA ConsumerMessageKeeps == ASSUME DemoInv, ConsumerMessage PROVE DemoInv'
<1> DEFINE t == Head(outbox[cWs])
           m == [t EXCEPT !.consumerSig = TRUE]
           n == t.nonce
<1>1. /\ inbox' = Sent(inbox, cWs, m)
      /\ outbox' = [outbox EXCEPT ![cWs] = Tail(@)] /\ outbox[cWs] # <<>>
      /\ UNCHANGED <<connection, joined, channels, gone, tick, latest, done, settled>>
  BY DEF ConsumerMessage, demoVars
<1>2. outbox[cWs] \in Seq(Ticks) /\ Monotone(outbox[cWs])
  BY TwoSides DEF DemoInv, DemoTypeOK, InOrder, Receives
<1>3. /\ Tail(outbox[cWs]) \in Seq(Ticks) /\ t = outbox[cWs][1] /\ t \in Ticks
      /\ Monotone(Tail(outbox[cWs]))
      /\ Nonces(Tail(outbox[cWs])) \subseteq Nonces(outbox[cWs])
      /\ t.type = "state" => n \in Nonces(outbox[cWs])
      /\ t.type = "state" => Before({n}, Nonces(Tail(outbox[cWs])))
  <2>1. outbox[cWs] # <<>>
    BY <1>1
  <2> QED
    BY <1>2, <2>1, BoxTail, Zenon
<1>4. t.type = "state" /\ n \in 1..TICKS /\ m = State(n, TRUE)
  BY <1>3, TicksAre
<1> HIDE DEF t, m, n
<1>5. m \in Sends(cWs) /\ m.type = "state" /\ m.nonce = n
  <2>1. m \in Replies /\ cWs # pWs
    BY <1>4, Sendable, TwoSides
  <2>2. m.type = "state" /\ m.nonce = n
    BY <1>4, States, Zenon
  <2> QED
    BY <2>1, <2>2 DEF Sends
<1>6. Chain(Held, Nonces(outbox[pWs]), Nonces(inbox[cWs]),
            Nonces(outbox[cWs]), Nonces(inbox[pWs]))
  BY DEF DemoInv, InOrder
<1>7. /\ n \in Nonces(outbox[cWs])
      /\ Before({n}, Nonces(Tail(outbox[cWs])))
      /\ Before(Nonces(inbox[cWs]), {m.nonce}) /\ Monotone(inbox[cWs])
  <2>1. n \in Nonces(outbox[cWs]) /\ Before({n}, Nonces(Tail(outbox[cWs])))
    BY <1>3, <1>4
  <2>2. Before(Nonces(inbox[cWs]), Nonces(outbox[cWs]))
    BY <1>6 DEF Chain
  <2>3. Before(Nonces(inbox[cWs]), {m.nonce})
    BY <1>5, <2>1, <2>2 DEF Before
  <2> QED
    BY <2>1, <2>3, TwoSides DEF DemoInv, InOrder
<1>8. /\ DOMAIN inbox' = Sockets /\ inbox'[cWs] \in Seq(Sends(cWs)) /\ Monotone(inbox'[cWs])
      /\ \A w \in Sockets : w # cWs => inbox'[w] = inbox[w]
      /\ Nonces(inbox'[cWs]) \subseteq Nonces(inbox[cWs]) \cup {m.nonce}
      /\ JoinFirst(inbox'[cWs])
      /\ HasJoin(inbox'[cWs]) => joined[cWs] = Null
      /\ inbox'[cWs] # <<>> \/ connection[cWs] = "open"
            => joined[cWs] # Null \/ HasJoin(inbox'[cWs])
      /\ connection[cWs] # "open" => inbox'[cWs] = inbox[cWs]
  <2>1. cWs \in Sockets /\ DemoTypeOK /\ Joining
    BY TwoSides DEF DemoInv
  <2> QED
    BY <1>1, <1>5, <1>7, <2>1, SentBox, Zenon
<1>9. /\ DOMAIN outbox' = Sockets /\ outbox'[cWs] = Tail(outbox[cWs])
      /\ \A w \in Sockets : w # cWs => outbox'[w] = outbox[w]
      /\ inbox'[pWs] = inbox[pWs] /\ outbox'[pWs] = outbox[pWs]
  BY <1>1, <1>8, TwoSides DEF DemoInv, DemoTypeOK
<1>10. DemoTypeOK'
  <2>1. outbox'[cWs] \in Seq(Receives(cWs))
    BY <1>3, <1>9, TwoSides DEF Receives
  <2> QED
    BY <1>1, <1>8, <1>9, <2>1 DEF DemoInv, DemoTypeOK
<1>11. InOrder'
  <2>1. Chain(Held, Nonces(outbox[pWs]), Nonces(inbox[cWs]) \cup {n},
              Nonces(Tail(outbox[cWs])), Nonces(inbox[pWs]))
    BY <1>3, <1>6, <1>7, ChainMoves
  <2>2. Nonces(inbox'[cWs]) \subseteq Nonces(inbox[cWs]) \cup {n}
    BY <1>5, <1>8
  <2>3. Chain(Held, Nonces(outbox[pWs]), Nonces(inbox'[cWs]),
              Nonces(Tail(outbox[cWs])), Nonces(inbox[pWs]))
    BY <2>1, <2>2, ChainShrinks
  <2>4. \A ws \in Sockets : Monotone(inbox'[ws]) /\ Monotone(outbox'[ws])
    BY <1>3, <1>8, <1>9 DEF DemoInv, InOrder
  <2>5. Held' = Held
    BY <1>1 DEF Held
  <2>6. Held \cup Nonces(outbox[pWs]) \cup Nonces(inbox'[cWs])
             \cup Nonces(Tail(outbox[cWs])) \cup Nonces(inbox[pWs]) \subseteq 1..tick
    BY <1>3, <1>7, <2>2 DEF DemoInv, InOrder
  <2> QED
    BY <1>1, <1>9, <2>3, <2>4, <2>5, <2>6 DEF InOrder
<1>12. Joining'
  BY <1>1, <1>8, <1>9, TwoSides DEF DemoInv, Joining, Channel
<1>13. ProviderJoined'
  BY <1>1, <1>7 DEF DemoInv, ProviderJoined
<1>14. Finish'
  BY <1>1 DEF DemoInv, Finish
<1> QED
  BY <1>10, <1>11, <1>12, <1>13, <1>14 DEF DemoInv

\* What the provider keeps is newer than what it kept, and it stops waiting with
\* the last state only.
LEMMA ProviderMessageKeeps ==
    ASSUME DemoInv, ProviderMessage
    PROVE  DemoInv' /\ (latest = Null \/ latest'.nonce > latest.nonce)
<1> DEFINE m == Head(outbox[pWs])
           n == m.nonce
<1>1. /\ latest' = m /\ done' = (done \/ n >= TICKS)
      /\ outbox' = [outbox EXCEPT ![pWs] = Tail(@)] /\ outbox[pWs] # <<>>
      /\ UNCHANGED <<connection, inbox, joined, channels, gone, tick, settled>>
  BY DEF ProviderMessage
<1>2. outbox[pWs] \in Seq(Replies) /\ Monotone(outbox[pWs])
  BY TwoSides DEF DemoInv, DemoTypeOK, InOrder, Receives
<1>3. /\ Tail(outbox[pWs]) \in Seq(Replies) /\ m = outbox[pWs][1] /\ m \in Replies
      /\ Monotone(Tail(outbox[pWs]))
      /\ Nonces(Tail(outbox[pWs])) \subseteq Nonces(outbox[pWs])
      /\ m.type = "state" => n \in Nonces(outbox[pWs])
      /\ m.type = "state" => Before({n}, Nonces(Tail(outbox[pWs])))
  <2>1. outbox[pWs] # <<>>
    BY <1>1
  <2> QED
    BY <1>2, <2>1, BoxTail, Zenon
<1>4. m.type = "state" /\ n \in 1..TICKS /\ m = State(n, TRUE)
  BY <1>3, RepliesAre
<1> HIDE DEF m, n
<1>5. Chain(Held, Nonces(outbox[pWs]), Nonces(inbox[cWs]),
            Nonces(outbox[cWs]), Nonces(inbox[pWs]))
  BY DEF DemoInv, InOrder
<1>6. n \in Nonces(outbox[pWs]) /\ Before({n}, Nonces(Tail(outbox[pWs])))
  BY <1>3, <1>4
<1>7. /\ DOMAIN outbox' = Sockets /\ outbox'[pWs] = Tail(outbox[pWs])
      /\ \A w \in Sockets : w # pWs => outbox'[w] = outbox[w]
      /\ outbox'[cWs] = outbox[cWs]
  BY <1>1, TwoSides DEF DemoInv, DemoTypeOK
<1>8. latest = Null \/ n > latest.nonce
  <2>1. Before(Held, Nonces(outbox[pWs]))
    BY <1>5 DEF Chain
  <2>2. latest # Null => latest.nonce < n
    BY <1>6, <2>1 DEF Before, Held
  <2>3. latest # Null => latest.nonce \in 1..TICKS
    BY RepliesAre DEF DemoInv, DemoTypeOK
  <2> QED
    BY <1>4, <2>2, <2>3
<1>9. DemoTypeOK'
  <2>1. outbox'[pWs] \in Seq(Receives(pWs))
    BY <1>3, <1>7, TwoSides DEF Receives
  <2>2. done' \in BOOLEAN
    BY <1>1 DEF DemoInv, DemoTypeOK
  <2> QED
    BY <1>1, <1>3, <1>7, <2>1, <2>2 DEF DemoInv, DemoTypeOK
<1>10. InOrder'
  <2>1. Chain({n}, Nonces(Tail(outbox[pWs])), Nonces(inbox[cWs]),
              Nonces(outbox[cWs]), Nonces(inbox[pWs]))
    BY <1>3, <1>5, <1>6, ChainMoves
  <2>2. Held' \subseteq {n}
    BY <1>1 DEF Held, n
  <2>3. Chain(Held', Nonces(Tail(outbox[pWs])), Nonces(inbox[cWs]),
              Nonces(outbox[cWs]), Nonces(inbox[pWs]))
    BY <2>1, <2>2, ChainShrinks
  <2>4. \A ws \in Sockets : Monotone(inbox[ws]) /\ Monotone(outbox'[ws])
    BY <1>3, <1>7 DEF DemoInv, InOrder
  <2>5. Held' \cup Nonces(Tail(outbox[pWs])) \cup Nonces(inbox[cWs])
             \cup Nonces(outbox[cWs]) \cup Nonces(inbox[pWs]) \subseteq 1..tick
    BY <1>3, <1>6, <2>2 DEF DemoInv, InOrder
  <2> QED
    BY <1>1, <1>7, <2>3, <2>4, <2>5 DEF InOrder
<1>11. Joining' /\ ProviderJoined'
  BY <1>1, <1>3, <1>7 DEF DemoInv, Joining, ProviderJoined, Channel
<1>12. Finish'
  <2>1. CASE done
    <3>1. latest = State(TICKS, TRUE)
      BY <2>1 DEF DemoInv, Finish
    <3>2. latest # Null
      <4>1. TICKS \in 1..TICKS
        BY DemoAssumption
      <4> QED
        BY <3>1, <4>1, DemoAssumption, Zenon
    <3>3. n > TICKS
      BY <1>8, <3>1, <3>2, States
    <3> QED
      BY <1>4, <3>3, DemoAssumption
  <2>2. CASE ~done
    <3>1. n >= TICKS => n = TICKS
      BY <1>4, DemoAssumption
    <3> QED
      BY <1>1, <1>4, <2>2, <3>1 DEF DemoInv, Finish
  <2> QED
    BY <2>1, <2>2
<1>13. latest = Null \/ latest'.nonce > latest.nonce
  BY <1>1, <1>8 DEF n
<1> QED
  BY <1>9, <1>10, <1>11, <1>12, <1>13 DEF DemoInv

LEMMA SettleKeeps == ASSUME DemoInv, Settle PROVE DemoInv'
<1>1. /\ connection' = [ws \in Sockets |-> "closed"] /\ outbox' = [ws \in Sockets |-> <<>>]
      /\ done /\ settled' = TRUE
      /\ UNCHANGED <<inbox, joined, channels, gone, tick, latest, done>>
  BY DEF Settle
<1>2. \A ws \in Sockets : connection'[ws] = "closed" /\ outbox'[ws] = <<>>
  BY <1>1
<1>3. DemoTypeOK'
  <2>1. \A S : <<>> \in Seq(S)
    BY BoxEmpty
  <2> QED
    BY <1>1, <1>2, <2>1 DEF DemoInv, DemoTypeOK
<1>4. InOrder' /\ ProviderJoined'
  <2>1. \A ws \in Sockets : Monotone(inbox[ws])
    BY DEF DemoInv, InOrder
  <2>2. \A ws \in Sockets : Monotone(outbox'[ws]) /\ Nonces(outbox'[ws]) = {}
    BY <1>2, BoxEmpty
  <2>3. joined[pWs] # Null => joined'[pWs] # Null
    BY <1>1
  <2> QED
    BY <1>1, <2>1, <2>2, <2>3, Shrunk
<1>5. Joining'
  BY <1>1, <1>2 DEF DemoInv, Joining, Channel
<1>6. Finish'
  BY <1>1 DEF DemoInv, Finish
<1> QED
  BY <1>3, <1>4, <1>5, <1>6 DEF DemoInv

LEMMA BreakKeeps == ASSUME DemoInv, NEW ws \in Sockets, Break(ws) PROVE DemoInv'
<1>1. PICK lost \in 0..Len(inbox[ws]) : Close(ws, lost) /\ UNCHANGED demoVars
  BY DEF Break
<1> DEFINE c == SubSeq(inbox[ws], 1, Len(inbox[ws]) - lost)
<1>2. inbox[ws] \in Seq(Sends(ws)) /\ Monotone(inbox[ws]) /\ JoinFirst(inbox[ws])
  BY DEF DemoInv, DemoTypeOK, InOrder, Joining
<1>3. /\ c \in Seq(Sends(ws)) /\ Len(c) <= Len(inbox[ws])
      /\ \A i \in 1..Len(c) : c[i] = inbox[ws][i]
  <2>1. Len(inbox[ws]) \in Nat /\ lost \in 0..Len(inbox[ws])
    BY <1>1, <1>2, LenProperties
  <2>2. \A i \in 1..(Len(inbox[ws]) - lost) : inbox[ws][i] \in Sends(ws)
    BY <1>2, <2>1, ElementOfSeq
  <2> QED
    BY <2>1, <2>2, SubSeqProperties
<1>4. /\ inbox' = [inbox EXCEPT ![ws] = c] /\ outbox' = [outbox EXCEPT ![ws] = <<>>]
      /\ connection' = [connection EXCEPT ![ws] = "closed"] /\ connection[ws] = "open"
      /\ UNCHANGED <<joined, channels, gone, tick, latest, done, settled>>
  BY <1>1 DEF Close, demoVars
<1> HIDE DEF c
<1>5. /\ Nonces(c) \subseteq Nonces(inbox[ws]) /\ Monotone(c) /\ JoinFirst(c)
      /\ c # <<>> => inbox[ws] # <<>>
      /\ c # <<>> => (HasJoin(c) <=> HasJoin(inbox[ws]))
  BY <1>2, <1>3, BoxCut
<1>6. /\ DOMAIN inbox' = Sockets /\ DOMAIN outbox' = Sockets
      /\ inbox'[ws] = c /\ outbox'[ws] = <<>> /\ connection'[ws] = "closed"
      /\ connection' \in [Sockets -> {"new", "open", "closed"}]
      /\ \A w \in Sockets : w # ws => /\ inbox'[w] = inbox[w] /\ outbox'[w] = outbox[w]
                                      /\ connection'[w] = connection[w]
  BY <1>4 DEF DemoInv, DemoTypeOK
<1>7. DemoTypeOK'
  <2>1. \A S : <<>> \in Seq(S)
    BY BoxEmpty
  <2> QED
    BY <1>3, <1>4, <1>6, <2>1 DEF DemoInv, DemoTypeOK
<1>8. InOrder' /\ ProviderJoined'
  <2>1. \A w \in Sockets : Monotone(inbox'[w]) /\ Nonces(inbox'[w]) \subseteq Nonces(inbox[w])
    BY <1>5, <1>6 DEF DemoInv, InOrder
  <2>2. \A w \in Sockets : Monotone(outbox'[w]) /\ Nonces(outbox'[w]) \subseteq Nonces(outbox[w])
    BY <1>6, BoxEmpty DEF DemoInv, InOrder
  <2> QED
    BY <1>4, <2>1, <2>2, Shrunk
<1>9. Joining'
  <2>1. HasJoin(c) => c # <<>>
    BY DEF HasJoin
  <2> QED
    BY <1>4, <1>5, <1>6, <2>1 DEF DemoInv, Joining, Channel
<1>10. Finish'
  BY <1>4 DEF DemoInv, Finish
<1> QED
  BY <1>7, <1>8, <1>9, <1>10 DEF DemoInv

\* What a registration, or its end, leaves of the session's channel.
LEMMA Registered ==
    ASSUME DemoTypeOK, NEW role \in Roles, NEW x \in Sockets \cup {Null},
           channels' = [channels EXCEPT ![session] = [Channel(session) EXCEPT ![role] = x]]
    PROVE  /\ channels' \in [SessionIds -> [Roles -> Sockets \cup {Null}] \cup {Null}]
           /\ Channel(session)'[role] = x
           /\ \A r \in Roles : r # role => Channel(session)'[r] = Channel(session)[r]
<1> DEFINE f == [Channel(session) EXCEPT ![role] = x]
<1>1. session \in SessionIds
  BY TwoSides
<1>2. channels \in [SessionIds -> [Roles -> Sockets \cup {Null}] \cup {Null}]
  BY DEF DemoTypeOK
<1>3. Channel(session) \in [Roles -> Sockets \cup {Null}]
  BY <1>1, <1>2 DEF Channel
<1>4. /\ f \in [Roles -> Sockets \cup {Null}] /\ f[role] = x
      /\ \A r \in Roles : r # role => f[r] = Channel(session)[r]
  BY <1>3
<1> HIDE DEF f
<1>5. f # Null
  BY <1>4, RelayAssumption
<1>6. channels' = [channels EXCEPT ![session] = f]
  BY DEF f
<1>7. /\ channels' \in [SessionIds -> [Roles -> Sockets \cup {Null}] \cup {Null}]
      /\ channels'[session] = f
  BY <1>1, <1>2, <1>4, <1>6
<1>8. Channel(session)' = f
  BY <1>5, <1>7 DEF Channel
<1> QED
  BY <1>4, <1>7, <1>8

\* What a handler takes from an inbox and leaves in it.
LEMMA Handled ==
    ASSUME DemoInv, NEW ws \in Sockets, OnMessage(ws), NEW m, m = Head(inbox[ws])
    PROVE  /\ m \in Sends(ws) /\ m = inbox[ws][1] /\ inbox[ws] # <<>> /\ ws \notin gone
           /\ connection[ws] # "new"
           /\ DOMAIN inbox' = Sockets /\ inbox'[ws] = Tail(inbox[ws])
           /\ \A w \in Sockets : w # ws => inbox'[w] = inbox[w]
           /\ \A w \in Sockets : /\ inbox'[w] \in Seq(Sends(w)) /\ Monotone(inbox'[w])
                                 /\ Nonces(inbox'[w]) \subseteq Nonces(inbox[w])
                                 /\ JoinFirst(inbox'[w])
           /\ m.type = "state" => m.nonce \in Nonces(inbox[ws])
           /\ m.type = "state" => Before({m.nonce}, Nonces(inbox'[ws]))
           /\ ~HasJoin(inbox'[ws])
           /\ UNCHANGED <<connection, gone>>
<1>1. /\ inbox[ws] # <<>> /\ inbox' = [inbox EXCEPT ![ws] = Tail(@)]
      /\ UNCHANGED <<connection, gone>>
  BY DEF OnMessage
<1>2. inbox[ws] \in Seq(Sends(ws)) /\ Monotone(inbox[ws]) /\ JoinFirst(inbox[ws])
  BY DEF DemoInv, DemoTypeOK, InOrder, Joining
<1>3. /\ Tail(inbox[ws]) \in Seq(Sends(ws)) /\ m = inbox[ws][1] /\ m \in Sends(ws)
      /\ Monotone(Tail(inbox[ws]))
      /\ Nonces(Tail(inbox[ws])) \subseteq Nonces(inbox[ws])
      /\ m.type = "state" => m.nonce \in Nonces(inbox[ws])
      /\ m.type = "state" => Before({m.nonce}, Nonces(Tail(inbox[ws])))
      /\ JoinFirst(Tail(inbox[ws])) /\ ~HasJoin(Tail(inbox[ws]))
  <2>1. inbox[ws] # <<>>
    BY <1>1
  <2>2. /\ Tail(inbox[ws]) \in Seq(Sends(ws)) /\ Head(inbox[ws]) = inbox[ws][1]
        /\ inbox[ws][1] \in Sends(ws)
        /\ Monotone(inbox[ws]) => Monotone(Tail(inbox[ws]))
        /\ Nonces(Tail(inbox[ws])) \subseteq Nonces(inbox[ws])
        /\ inbox[ws][1].type = "state" => inbox[ws][1].nonce \in Nonces(inbox[ws])
        /\ inbox[ws][1].type = "state" /\ Monotone(inbox[ws])
              => Before({inbox[ws][1].nonce}, Nonces(Tail(inbox[ws])))
        /\ JoinFirst(inbox[ws]) => JoinFirst(Tail(inbox[ws])) /\ ~HasJoin(Tail(inbox[ws]))
    BY <1>2, <2>1, BoxTail, Zenon
  <2> QED
    BY <1>2, <2>2
<1>4. /\ DOMAIN inbox' = Sockets /\ inbox'[ws] = Tail(inbox[ws])
      /\ \A w \in Sockets : w # ws => inbox'[w] = inbox[w]
  BY <1>1 DEF DemoInv, DemoTypeOK
<1>5. \A w \in Sockets : inbox[w] \in Seq(Sends(w)) /\ Monotone(inbox[w]) /\ JoinFirst(inbox[w])
  BY DEF DemoInv, DemoTypeOK, InOrder, Joining
<1>6. ws \notin gone /\ connection[ws] # "new"
  BY <1>1 DEF DemoInv, Joining
<1> QED
  BY <1>1, <1>3, <1>4, <1>5, <1>6

\* The join is a socket's first message, and takes its own place.
LEMMA JoinKeeps ==
    ASSUME DemoInv, NEW ws \in Sockets, OnMessage(ws), UNCHANGED demoVars,
           Head(inbox[ws]).type = "join"
    PROVE  DemoInv'
<1> DEFINE m == Head(inbox[ws])
           role == RoleOf(ws)
<1>1. /\ m \in Sends(ws) /\ m = inbox[ws][1] /\ inbox[ws] # <<>> /\ ws \notin gone
      /\ connection[ws] # "new"
      /\ DOMAIN inbox' = Sockets /\ inbox'[ws] = Tail(inbox[ws])
      /\ \A w \in Sockets : w # ws => inbox'[w] = inbox[w]
      /\ \A w \in Sockets : /\ inbox'[w] \in Seq(Sends(w)) /\ Monotone(inbox'[w])
                            /\ Nonces(inbox'[w]) \subseteq Nonces(inbox[w])
                            /\ JoinFirst(inbox'[w])
      /\ ~HasJoin(inbox'[ws])
      /\ UNCHANGED <<connection, gone>>
  BY Handled
<1>2. /\ joined' = [joined EXCEPT ![ws] = m]
      /\ channels' = [channels EXCEPT
            ![m.session] = [Channel(m.session) EXCEPT ![m.role] = ws]]
      /\ UNCHANGED outbox
  BY DEF OnMessage, OnJoin
<1>3. m = Join(session, role) /\ m.type = "join" /\ role \in Roles
  BY <1>1, SendsSplit, TwoSides
<1>4. m.session = session /\ m.role = role /\ m # Null
  BY <1>3, Joins
<1>5. joined[ws] = Null
  BY <1>1, <1>3 DEF DemoInv, Joining, HasJoin
<1> HIDE DEF m
<1>6. UNCHANGED <<tick, latest, done, settled>>
  BY DEF demoVars
<1>7. \A w \in Sockets : w # ws => RoleOf(w) # role /\ RoleOf(w) \in Roles
  BY TwoSides
<1> HIDE DEF role
<1>8. /\ channels' \in [SessionIds -> [Roles -> Sockets \cup {Null}] \cup {Null}]
      /\ Channel(session)'[role] = ws
      /\ \A r \in Roles : r # role => Channel(session)'[r] = Channel(session)[r]
  <2>1. channels' = [channels EXCEPT ![session] = [Channel(session) EXCEPT ![role] = ws]]
    BY <1>2, <1>4
  <2>2. DemoTypeOK /\ ws \in Sockets \cup {Null} /\ role \in Roles
    BY <1>3 DEF DemoInv
  <2> QED
    BY <2>1, <2>2, Registered
<1>9. joined'[ws] = m /\ \A w \in Sockets : w # ws => joined'[w] = joined[w]
  BY <1>2 DEF DemoInv, DemoTypeOK
<1>10. DemoTypeOK'
  <2>1. joined' \in [Sockets -> {Null} \cup {Join(session, r) : r \in Roles}]
    BY <1>2, <1>3 DEF DemoInv, DemoTypeOK
  <2> QED
    BY <1>1, <1>2, <1>6, <1>8, <2>1 DEF DemoInv, DemoTypeOK
<1>11. InOrder' /\ ProviderJoined'
  <2>1. \A w \in Sockets : Monotone(inbox'[w]) /\ Nonces(inbox'[w]) \subseteq Nonces(inbox[w])
    BY <1>1
  <2>2. \A w \in Sockets : Monotone(outbox'[w]) /\ Nonces(outbox'[w]) \subseteq Nonces(outbox[w])
    BY <1>2 DEF DemoInv, InOrder
  <2>3. joined[pWs] # Null => joined'[pWs] # Null
    BY <1>4, <1>9, TwoSides
  <2> QED
    BY <1>6, <2>1, <2>2, <2>3, Shrunk
<1>12. Joining'
  <2> SUFFICES ASSUME NEW w \in Sockets
               PROVE  /\ joined'[w] \in {Null, Join(session, RoleOf(w))}
                      /\ JoinFirst(inbox'[w])
                      /\ HasJoin(inbox'[w]) => joined'[w] = Null
                      /\ inbox'[w] # <<>> \/ connection'[w] = "open" =>
                            joined'[w] # Null \/ HasJoin(inbox'[w])
                      /\ connection'[w] = "new" => joined'[w] = Null /\ inbox'[w] = <<>>
                      /\ w \in gone' => connection'[w] = "closed" /\ inbox'[w] = <<>>
                      /\ joined'[w] # Null /\ w \notin gone' => Channel(session)'[RoleOf(w)] = w
                      /\ Channel(session)'[RoleOf(w)] \in {Null, w}
    BY DEF Joining
  <2>1. CASE w = ws
    BY <1>1, <1>3, <1>4, <1>8, <1>9, <2>1 DEF role
  <2>2. CASE w # ws
    <3>1. /\ joined'[w] = joined[w] /\ inbox'[w] = inbox[w] /\ connection' = connection
          /\ gone' = gone /\ Channel(session)'[RoleOf(w)] = Channel(session)[RoleOf(w)]
      BY <1>1, <1>7, <1>8, <1>9, <2>2
    <3> QED
      BY <3>1 DEF DemoInv, Joining
  <2> QED
    BY <2>1, <2>2
<1>13. Finish'
  BY <1>6 DEF DemoInv, Finish
<1> QED
  BY <1>10, <1>11, <1>12, <1>13 DEF DemoInv

\* A state is handled after its sender's join, and goes to the other side or
\* nowhere.
LEMMA Forwarded ==
    ASSUME DemoInv, NEW ws \in Sockets, OnMessage(ws), NEW m, m = Head(inbox[ws]),
           m.type # "join", NEW other \in Sockets, other # ws
    PROVE  /\ joined[ws] # Null /\ UNCHANGED <<joined, channels>>
           /\ \/ outbox' = outbox
              \/ outbox' = [outbox EXCEPT ![other] = Append(@, m)]
<1>1. /\ inbox[ws] # <<>> /\ m = inbox[ws][1]
  BY Handled
<1>2. Forward(ws, m)
  BY DEF OnMessage
<1>3. joined[ws] = Join(session, RoleOf(ws)) /\ joined[ws] # Null
  BY <1>1 DEF DemoInv, Joining, HasJoin
<1>4. /\ joined[ws].session = session /\ joined[ws].role = RoleOf(ws)
  BY <1>3, Joins, TwoSides
<1>5. Peer(RoleOf(ws)) = RoleOf(other)
  BY TwoSides
<1>6. Channel(session)[RoleOf(other)] \in {Null, other}
  BY DEF DemoInv, Joining
<1>7. other # Null
  BY RelayAssumption
<1> QED
  BY <1>2, <1>3, <1>4, <1>5, <1>6, <1>7 DEF Forward, Sent

LEMMA ForwardKeeps ==
    ASSUME DemoInv, NEW ws \in Sockets, OnMessage(ws), UNCHANGED demoVars,
           Head(inbox[ws]).type # "join"
    PROVE  DemoInv'
<1> DEFINE m == Head(inbox[ws])
<1>1. /\ m \in Sends(ws) /\ inbox[ws] # <<>> /\ ws \notin gone
      /\ connection[ws] # "new"
      /\ DOMAIN inbox' = Sockets
      /\ \A w \in Sockets : w # ws => inbox'[w] = inbox[w]
      /\ \A w \in Sockets : /\ inbox'[w] \in Seq(Sends(w)) /\ Monotone(inbox'[w])
                            /\ Nonces(inbox'[w]) \subseteq Nonces(inbox[w])
                            /\ JoinFirst(inbox'[w])
      /\ m.type = "state" => m.nonce \in Nonces(inbox[ws])
      /\ m.type = "state" => Before({m.nonce}, Nonces(inbox'[ws]))
      /\ ~HasJoin(inbox'[ws])
      /\ UNCHANGED <<connection, gone>>
  BY Handled
<1>2. PICK other \in Sockets : /\ other # ws
                               /\ ws = pWs => other = cWs
                               /\ ws = cWs => other = pWs
  BY TwoSides
<1>3. /\ joined[ws] # Null /\ UNCHANGED <<joined, channels>>
      /\ \/ outbox' = outbox
         \/ outbox' = [outbox EXCEPT ![other] = Append(@, m)]
  BY <1>2, Forwarded
<1>4. /\ m.type = "state" /\ m.nonce \in 1..TICKS
      /\ ws = pWs => m \in Ticks
      /\ ws = cWs => m \in Replies
  BY <1>1, SendsSplit
<1> DEFINE n == m.nonce
<1>5. UNCHANGED <<tick, latest, done, settled>>
  BY DEF demoVars
<1>6. m \in Receives(other)
  BY <1>2, <1>4, TwoSides DEF Receives
<1> HIDE DEF m, n
<1>7. Joining' /\ Finish'
  BY <1>1, <1>3, <1>5 DEF DemoInv, Joining, Finish, Channel
<1>8. CASE outbox' = outbox
  <2>1. DemoTypeOK'
    BY <1>1, <1>3, <1>5, <1>8 DEF DemoInv, DemoTypeOK
  <2>2. \A w \in Sockets : Monotone(outbox'[w]) /\ Nonces(outbox'[w]) \subseteq Nonces(outbox[w])
    BY <1>8 DEF DemoInv, InOrder
  <2>3. \A w \in Sockets : Monotone(inbox'[w]) /\ Nonces(inbox'[w]) \subseteq Nonces(inbox[w])
    BY <1>1
  <2>4. joined[pWs] # Null => joined'[pWs] # Null
    BY <1>3
  <2>5. InOrder' /\ ProviderJoined'
    BY <1>5, <2>2, <2>3, <2>4, Shrunk
  <2> QED
    BY <1>7, <2>1, <2>5 DEF DemoInv
<1>9. CASE outbox' = [outbox EXCEPT ![other] = Append(@, m)]
  <2>1. /\ DOMAIN outbox' = Sockets /\ outbox'[other] = Append(outbox[other], m)
        /\ \A w \in Sockets : w # other => outbox'[w] = outbox[w]
    BY <1>9 DEF DemoInv, DemoTypeOK
  <2>2. outbox[other] \in Seq(Receives(other)) /\ Monotone(outbox[other])
    BY DEF DemoInv, DemoTypeOK, InOrder
  <2>3. /\ Append(outbox[other], m) \in Seq(Receives(other))
        /\ Nonces(Append(outbox[other], m)) = Nonces(outbox[other]) \cup {m.nonce}
        /\ Monotone(outbox[other]) /\ Before(Nonces(outbox[other]), {m.nonce})
              => Monotone(Append(outbox[other], m))
    <3>1. m \in Receives(other) /\ m.type = "state" /\ outbox[other] \in Seq(Receives(other))
      BY <1>4, <1>6, <2>2
    <3> QED
      BY <3>1, BoxAppend, ZenonT(60)
  <2>4. DemoTypeOK'
    BY <1>1, <1>3, <1>5, <2>1, <2>3 DEF DemoInv, DemoTypeOK
  <2>5. /\ n \in Nonces(inbox[ws]) /\ Before({n}, Nonces(inbox'[ws]))
        /\ Nonces(outbox'[other]) = Nonces(outbox[other]) \cup {n}
    BY <1>1, <1>4, <2>1, <2>3 DEF n
  <2>6. Chain(Held, Nonces(outbox[pWs]), Nonces(inbox[cWs]),
              Nonces(outbox[cWs]), Nonces(inbox[pWs]))
    BY DEF DemoInv, InOrder
  <2>7. /\ Before(Nonces(outbox[other]), {n})
        /\ Chain(Held, Nonces(outbox'[pWs]), Nonces(inbox'[cWs]),
                 Nonces(outbox'[cWs]), Nonces(inbox'[pWs]))
    <3>1. CASE ws = pWs
      <4>1. /\ other = cWs /\ inbox'[cWs] = inbox[cWs] /\ outbox'[pWs] = outbox[pWs]
            /\ Nonces(inbox'[pWs]) \subseteq Nonces(inbox[pWs])
        BY <1>1, <1>2, <2>1, <3>1, TwoSides
      <4>2. Chain(Held, Nonces(outbox[pWs]), Nonces(inbox[cWs]),
                  Nonces(outbox[cWs]) \cup {n}, Nonces(inbox'[pWs]))
        BY <2>5, <2>6, <3>1, <4>1, ChainMoves
      <4>3. Before(Nonces(outbox[cWs]), {n})
        BY <2>5, <2>6, <3>1 DEF Chain, Before
      <4> QED
        BY <2>5, <4>1, <4>2, <4>3
    <3>2. CASE ws = cWs
      <4>1. /\ other = pWs /\ inbox'[pWs] = inbox[pWs] /\ outbox'[cWs] = outbox[cWs]
            /\ Nonces(inbox'[cWs]) \subseteq Nonces(inbox[cWs])
        BY <1>1, <1>2, <2>1, <3>2, TwoSides
      <4>2. Chain(Held, Nonces(outbox[pWs]) \cup {n}, Nonces(inbox'[cWs]),
                  Nonces(outbox[cWs]), Nonces(inbox[pWs]))
        BY <2>5, <2>6, <3>2, <4>1, ChainMoves
      <4>3. Before(Nonces(outbox[pWs]), {n})
        BY <2>5, <2>6, <3>2 DEF Chain, Before
      <4> QED
        BY <2>5, <4>1, <4>2, <4>3
    <3> QED
      BY <3>1, <3>2, TwoSides
  <2>8. \A w \in Sockets : Monotone(inbox'[w]) /\ Monotone(outbox'[w])
    <3>1. Before(Nonces(outbox[other]), {m.nonce})
      BY <2>7 DEF n
    <3>2. Monotone(outbox'[other])
      BY <2>1, <2>2, <2>3, <3>1
    <3> QED
      BY <1>1, <2>1, <3>2 DEF DemoInv, InOrder
  <2>9. /\ \A w \in Sockets : Nonces(inbox[w]) \subseteq 1..tick /\ Nonces(outbox[w]) \subseteq 1..tick
        /\ Held \subseteq 1..tick
    BY TwoSides DEF DemoInv, InOrder
  <2>10. \A w \in Sockets : Nonces(inbox'[w]) \subseteq 1..tick /\ Nonces(outbox'[w]) \subseteq 1..tick
    BY <1>1, <2>1, <2>5, <2>9
  <2>11. InOrder'
    <3>1. Held' = Held /\ tick' = tick
      BY <1>5 DEF Held
    <3> QED
      BY <2>7, <2>8, <2>9, <2>10, <3>1, TwoSides DEF InOrder
  <2>12. ProviderJoined'
    <3>1. ws = cWs => joined[pWs] # Null
      BY <2>5 DEF DemoInv, ProviderJoined
    <3> QED
      BY <1>3, <3>1, TwoSides DEF ProviderJoined
  <2> QED
    BY <1>7, <2>4, <2>11, <2>12 DEF DemoInv
<1> QED
  BY <1>3, <1>8, <1>9

\* The relay has seen a socket close: its role is free.
LEMMA OnCloseKeeps ==
    ASSUME DemoInv, NEW ws \in Sockets, OnClose(ws), UNCHANGED demoVars
    PROVE  DemoInv'
<1> DEFINE role == RoleOf(ws)
<1>1. /\ connection[ws] = "closed" /\ inbox[ws] = <<>> /\ gone' = gone \cup {ws}
      /\ UNCHANGED <<connection, inbox, outbox, joined>>
      /\ UNCHANGED <<tick, latest, done, settled>>
  BY DEF OnClose, demoVars
<1>2. \A w \in Sockets : w # ws => RoleOf(w) # role /\ RoleOf(w) \in Roles
  BY TwoSides
<1>3. role \in Roles
  BY TwoSides
<1> HIDE DEF role
<1>4. /\ channels' \in [SessionIds -> [Roles -> Sockets \cup {Null}] \cup {Null}]
      /\ Channel(session)'[role] \in {Null, Channel(session)[role]}
      /\ \A r \in Roles : r # role => Channel(session)'[r] = Channel(session)[r]
  <2>1. CASE joined[ws] = Null
    <3>1. channels' = channels
      BY <2>1 DEF OnClose
    <3> QED
      BY <3>1 DEF DemoInv, DemoTypeOK, Channel
  <2>2. CASE joined[ws] # Null
    <3>1. joined[ws] = Join(session, role)
      BY <2>2 DEF DemoInv, Joining, role
    <3>2. joined[ws].session = session /\ joined[ws].role = role
      BY <1>3, <3>1, Joins
    <3>3. channels' = [channels EXCEPT ![session] = [Channel(session) EXCEPT ![role] = Null]]
      BY <2>2, <3>2 DEF OnClose
    <3>4. DemoTypeOK /\ Null \in Sockets \cup {Null}
      BY DEF DemoInv
    <3> QED
      BY <1>3, <3>3, <3>4, Registered
  <2> QED
    BY <2>1, <2>2
<1>5. DemoTypeOK'
  BY <1>1, <1>4 DEF DemoInv, DemoTypeOK
<1>6. InOrder' /\ ProviderJoined' /\ Finish'
  BY <1>1 DEF DemoInv, InOrder, ProviderJoined, Finish, Held
<1>7. Joining'
  <2> SUFFICES ASSUME NEW w \in Sockets
               PROVE  /\ w \in gone' => connection[w] = "closed" /\ inbox[w] = <<>>
                      /\ joined[w] # Null /\ w \notin gone' => Channel(session)'[RoleOf(w)] = w
                      /\ Channel(session)'[RoleOf(w)] \in {Null, w}
    BY <1>1 DEF DemoInv, Joining
  <2>1. CASE w = ws
    BY <1>1, <1>4, <2>1 DEF DemoInv, Joining, role
  <2>2. CASE w # ws
    BY <1>1, <1>2, <1>4, <2>2 DEF DemoInv, Joining
  <2> QED
    BY <2>1, <2>2
<1> QED
  BY <1>5, <1>6, <1>7 DEF DemoInv

LEMMA InitHolds == Init => DemoInv
<1> SUFFICES ASSUME Init PROVE DemoInv
  OBVIOUS
<1>1. /\ connection = [ws \in Sockets |-> "new"] /\ inbox = [ws \in Sockets |-> <<>>]
      /\ outbox = [ws \in Sockets |-> <<>>] /\ joined = [ws \in Sockets |-> Null]
      /\ channels = [s \in SessionIds |-> Null] /\ gone = {}
      /\ tick = 0 /\ latest = Null /\ done = FALSE /\ settled = FALSE
  BY DEF Init, RelayInit
<1>2. \A ws \in Sockets : /\ inbox[ws] = <<>> /\ outbox[ws] = <<>> /\ joined[ws] = Null
                          /\ connection[ws] = "new"
  BY <1>1
<1>3. \A ws \in Sockets : Nonces(inbox[ws]) = {} /\ Nonces(outbox[ws]) = {}
  BY <1>2, BoxEmpty
<1>4. DemoTypeOK
  <2>1. \A S : <<>> \in Seq(S)
    BY BoxEmpty
  <2>2. tick \in 0..TICKS
    BY <1>1, DemoAssumption
  <2> QED
    BY <1>1, <1>2, <2>1, <2>2 DEF DemoTypeOK
<1>5. InOrder /\ ProviderJoined
  <2>1. Held = {}
    BY <1>1 DEF Held
  <2>2. \A ws \in Sockets : Monotone(inbox[ws]) /\ Monotone(outbox[ws])
    BY <1>2, BoxEmpty
  <2> QED
    BY <1>3, <2>1, <2>2, TwoSides DEF InOrder, Chain, Before, ProviderJoined
<1>6. Joining
  <2>1. \A r \in Roles : Channel(session)[r] = Null
    BY <1>1, TwoSides DEF Channel
  <2>2. \A ws \in Sockets : RoleOf(ws) \in Roles
    BY TwoSides
  <2> QED
    BY <1>1, <1>2, <2>1, <2>2, BoxEmpty DEF Joining
<1>7. Finish
  BY <1>1 DEF Finish
<1> QED
  BY <1>4, <1>5, <1>6, <1>7 DEF DemoInv

LEMMA NextKeeps == DemoInv /\ [Next]_vars => DemoInv'
<1> SUFFICES ASSUME DemoInv, [Next]_vars PROVE DemoInv'
  OBVIOUS
<1>1. CASE UNCHANGED vars
  BY <1>1 DEF vars, relayVars, demoVars, DemoInv, DemoTypeOK, InOrder, Joining,
              ProviderJoined, Finish, Held, Channel
<1>2. CASE Ready(pWs, "provider") \/ Ready(cWs, "consumer")
  BY <1>2, ReadyKeeps, TwoSides
<1>3. CASE Serve
  BY <1>3, ServeKeeps
<1>4. CASE ConsumerMessage
  BY <1>4, ConsumerMessageKeeps
<1>5. CASE ProviderMessage
  BY <1>5, ProviderMessageKeeps
<1>6. CASE Settle
  BY <1>6, SettleKeeps
<1>7. ASSUME NEW ws \in Sockets, OnMessage(ws), UNCHANGED demoVars PROVE DemoInv'
  BY <1>7, JoinKeeps, ForwardKeeps
<1>8. ASSUME NEW ws \in Sockets, OnClose(ws), UNCHANGED demoVars PROVE DemoInv'
  BY <1>8, OnCloseKeeps
<1>9. ASSUME NEW ws \in Sockets, Break(ws) PROVE DemoInv'
  BY <1>9, BreakKeeps
<1> QED
  BY <1>1, <1>2, <1>3, <1>4, <1>5, <1>6, <1>7, <1>8, <1>9 DEF Next, Client

-----------------------------------------------------------------------------
(***************************************************************************)
(* The theorems.                                                           *)
(***************************************************************************)

\* The invariant holds in every behaviour of the demo, whatever the relay drops
\* and whichever connections break.
THEOREM DemoInvariant == Spec => []DemoInv
<1>1. Init => DemoInv
  BY InitHolds
<1>2. DemoInv /\ [Next]_vars => DemoInv'
  BY NextKeeps
<1> QED
  BY <1>1, <1>2, PTL DEF Spec

\* demo.ts settles the last state, signed by both: done is resolved by it alone,
\* and nothing the provider receives later takes its place.
THEOREM LastStateSettled == Spec => []SettlesLastState
<1>1. DemoInv => SettlesLastState
  BY DEF DemoInv, Finish, SettlesLastState
<1> QED
  BY <1>1, DemoInvariant, PTL

\* While the provider is connected the relay has it registered whenever an
\* answer is on its way there.
THEOREM RepliesForwarded == Spec => []ReplyIsForwarded
<1>1. ASSUME DemoInv PROVE ReplyIsForwarded
  <2> SUFFICES ASSUME NEW n \in 1..TICKS, InFlight(State(n, TRUE), inbox[cWs]),
                      connection[pWs] = "open"
               PROVE  Channel(session)["provider"] = pWs
    BY DEF ReplyIsForwarded
  <2>1. PICK i \in 1..Len(inbox[cWs]) : inbox[cWs][i] = State(n, TRUE)
    BY DEF InFlight
  <2>2. inbox[cWs][i].type = "state"
    BY <2>1 DEF State
  <2>3. Nonces(inbox[cWs]) # {}
    BY <2>2 DEF Nonces
  <2>4. joined[pWs] # Null
    BY <1>1, <2>3 DEF DemoInv, ProviderJoined
  <2>5. pWs \notin gone
    BY <1>1, TwoSides DEF DemoInv, Joining
  <2> QED
    BY <1>1, <2>4, <2>5, TwoSides DEF DemoInv, Joining
<1> QED
  BY <1>1, DemoInvariant, PTL

\* The provider's blind overwriting of latest never takes it back.
THEOREM NeverAnOlderState == Spec => LatestAdvances
<1>1. ASSUME DemoInv, [Next]_vars
      PROVE  [latest' # latest => latest = Null \/ latest'.nonce > latest.nonce]_vars
  <2>1. CASE ProviderMessage
    BY <1>1, <2>1, ProviderMessageKeeps
  <2>2. CASE ~ProviderMessage
    <3>1. latest' = latest
      BY <1>1, <2>2 DEF Next, Client, Ready, Serve, ConsumerMessage, Settle, Break,
                        vars, demoVars
    <3> QED
      BY <3>1
  <2> QED
    BY <2>1, <2>2
<1> QED
  BY <1>1, DemoInvariant, PTL DEF Spec, LatestAdvances
=============================================================================
