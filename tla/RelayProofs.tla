---------------------------- MODULE RelayProofs -----------------------------
(***************************************************************************)
(* The relay among any number of sockets, sessions, joins and messages:    *)
(* what it forwards reaches nobody who did not ask to be the counterparty, *)
(* in order, and it keeps a socket it has seen close only in the roles the *)
(* socket had gone on from.                                                *)
(***************************************************************************)
EXTENDS RelayClients, SequenceTheorems, TLAPS

JoinMessage == [type : {"join"}, session : SessionIds, role : Roles]
Update == [type : {"update"}, from : Sockets, number : Nat, as : JoinMessage \cup {Null}]
Message == JoinMessage \cup Update

RelayTypeOK ==
    /\ connection \in [Sockets -> {"new", "open", "closed"}]
    /\ inbox \in [Sockets -> Seq(Message)]
    /\ outbox \in [Sockets -> Seq(Update)]
    /\ joined \in [Sockets -> JoinMessage \cup {Null}]
    /\ channels \in [SessionIds -> [Roles -> Sockets \cup {Null}] \cup {Null}]
    /\ gone \in SUBSET Sockets
    /\ sent \in [Sockets -> Nat]
    /\ asked \in [Sockets -> Seq(JoinMessage)]

\* A socket that has not opened has left no trace, and one whose close has been
\* handled has nothing more to say.
Lifetimes ==
    \A ws \in Sockets :
        /\ connection[ws] = "new" =>
              joined[ws] = Null /\ inbox[ws] = <<>> /\ asked[ws] = <<>>
        /\ ws \in gone => connection[ws] = "closed" /\ inbox[ws] = <<>>

\* What a message says its sender speaks for.
Says(m) == IF m.type = "join" THEN m ELSE m.as

\* What the relay takes a socket for once it has handled its first i messages.
Told(ws, i) == IF i = 0 THEN joined[ws] ELSE Says(inbox[ws][i])

\* A socket's joins are what it asked for, and each of its updates will find the
\* relay taking it for what it spoke for when it sent the update.
InboxesTrue ==
    \A ws \in Sockets : \A i \in 1..Len(inbox[ws]) :
        /\ inbox[ws][i] \in JoinMessage => inbox[ws][i] \in Asked(ws)
        /\ inbox[ws][i] \in Update =>
              /\ inbox[ws][i].from = ws /\ inbox[ws][i].number <= sent[ws]
              /\ inbox[ws][i].as = Told(ws, i - 1)

\* The last thing an open socket has told is the last it asked for.
LastTold ==
    \A ws \in Sockets : connection[ws] = "open" => Speaks(ws) = Told(ws, Len(inbox[ws]))

JoinedAsked == \A ws \in Sockets : joined[ws] # Null => joined[ws] \in Asked(ws)

\* The updates that have not been handled are in order.
SentInOrder ==
    \A ws \in Sockets : \A i, j \in 1..Len(inbox[ws]) :
        i < j /\ inbox[ws][i] \in Update /\ inbox[ws][j] \in Update
            => inbox[ws][i].number < inbox[ws][j].number

\* An update that has been sent, before all that its sender's inbox holds.
Older(u) ==
    /\ u.number <= sent[u.from]
    /\ \A j \in 1..Len(inbox[u.from]) :
          inbox[u.from][j] \in Update => u.number < inbox[u.from][j].number

\* What has been forwarded was sent before what has not.
ForwardedFirst == \A ws \in Sockets : \A i \in 1..Len(outbox[ws]) : Older(outbox[ws][i])

RelayInv ==
    /\ RelayTypeOK /\ Lifetimes /\ InboxesTrue /\ LastTold /\ JoinedAsked
    /\ SentInOrder /\ ForwardedFirst /\ ForwardedInOrder /\ OnlyCounterparty /\ RegisteredIsLive

-----------------------------------------------------------------------------
(***************************************************************************)
(* Facts about messages, channels and sequences.                           *)
(***************************************************************************)

\* The two kinds of message are told apart by their type.
LEMMA Kinds ==
    ASSUME NEW m \in Message
    PROVE  /\ m.type = "join" <=> m \in JoinMessage
           /\ m.type # "join" <=> m \in Update
  BY DEF Message, JoinMessage, Update

\* A join message is the join of its session and role.
LEMMA JoinsAreJoins ==
    /\ \A s \in SessionIds, r \in Roles :
          Join(s, r) \in JoinMessage /\ Join(s, r).session = s /\ Join(s, r).role = r
    /\ \A m \in JoinMessage :
          /\ m.session \in SessionIds /\ m.role \in Roles
          /\ m = Join(m.session, m.role) /\ m # Null
  BY RelayAssumption DEF Join, JoinMessage

\* A role's peer is a role.
LEMMA Peers == \A r \in Roles : Peer(r) \in Roles
  BY DEF Roles, Peer

\* While no join is sent, sockets have asked for what they had.
LEMMA SameAsked ==
    ASSUME asked' = asked
    PROVE  \A w \in Sockets : Asked(w)' = Asked(w) /\ Speaks(w)' = Speaks(w)
  BY DEF Asked, Speaks

\* A session without a channel counts as one with both roles empty.
LEMMA ChannelType ==
    ASSUME RelayTypeOK, NEW s \in SessionIds
    PROVE  Channel(s) \in [Roles -> Sockets \cup {Null}]
  BY DEF RelayTypeOK, Channel

\* What the boxes hold.
LEMMA Boxes ==
    ASSUME RelayTypeOK, NEW w \in Sockets
    PROVE  /\ inbox[w] \in Seq(Message) /\ Len(inbox[w]) \in Nat
           /\ outbox[w] \in Seq(Update) /\ Len(outbox[w]) \in Nat
           /\ \A i \in 1..Len(inbox[w]) : inbox[w][i] \in Message
           /\ \A i \in 1..Len(outbox[w]) :
                 /\ outbox[w][i] \in Update
                 /\ outbox[w][i].from \in Sockets /\ outbox[w][i].number \in Nat
<1>1. inbox[w] \in Seq(Message) /\ outbox[w] \in Seq(Update)
  BY DEF RelayTypeOK
<1>2. ASSUME NEW i \in 1..Len(outbox[w])
      PROVE  /\ outbox[w][i] \in Update
             /\ outbox[w][i].from \in Sockets /\ outbox[w][i].number \in Nat
  <2>1. outbox[w][i] \in Update
    BY <1>1, ElementOfSeq
  <2> QED
    BY <2>1 DEF Update
<1>3. \A i \in 1..Len(inbox[w]) : inbox[w][i] \in Message
  BY <1>1, ElementOfSeq
<1> QED
  BY <1>1, <1>2, <1>3, LenProperties

\* What an Append adds to a sequence.
LEMMA Appended ==
    ASSUME NEW S, NEW q \in Seq(S), NEW e \in S
    PROVE  /\ Append(q, e) \in Seq(S)
           /\ Len(Append(q, e)) = Len(q) + 1
           /\ \A i \in 1..Len(Append(q, e)) :
                 Append(q, e)[i] = IF i <= Len(q) THEN q[i] ELSE e
  BY AppendProperties, LenProperties

\* What a cut at the end leaves.
LEMMA Cut ==
    ASSUME NEW S, NEW q \in Seq(S), NEW lost \in 0..Len(q)
    PROVE  /\ SubSeq(q, 1, Len(q) - lost) \in Seq(S)
           /\ Len(SubSeq(q, 1, Len(q) - lost)) = Len(q) - lost
           /\ \A i \in 1..(Len(q) - lost) : SubSeq(q, 1, Len(q) - lost)[i] = q[i]
<1>1. Len(q) \in Nat /\ \A i \in 1..(Len(q) - lost) : q[i] \in S
  BY LenProperties, ElementOfSeq
<1> QED
  BY <1>1, SubSeqProperties

\* What a handler finds at the head of a sequence and leaves behind.
LEMMA Tailed ==
    ASSUME NEW S, NEW q \in Seq(S), q # <<>>
    PROVE  /\ Head(q) = q[1] /\ q[1] \in S /\ 1 \in 1..Len(q)
           /\ Tail(q) \in Seq(S) /\ Len(Tail(q)) = Len(q) - 1
           /\ \A i \in 1..Len(Tail(q)) :
                 i + 1 \in 1..Len(q) /\ Tail(q)[i] = q[i + 1]
<1>1. Len(q) \in Nat /\ Len(q) # 0
  BY EmptySeq, LenProperties
<1>2. 1 \in 1..Len(q)
  BY <1>1
<1> QED
  BY <1>1, <1>2, HeadTailProperties, ElementOfSeq

\* What an assignment to one session's channel leaves.
LEMMA Assigned ==
    ASSUME RelayTypeOK, NEW t \in SessionIds, NEW f \in [Roles -> Sockets \cup {Null}],
           channels' = [channels EXCEPT ![t] = f]
    PROVE  /\ channels' \in [SessionIds -> [Roles -> Sockets \cup {Null}] \cup {Null}]
           /\ \A s \in SessionIds : Channel(s)' = IF s = t THEN f ELSE Channel(s)
<1>1. f # Null
  BY RelayAssumption
<1>2. channels \in [SessionIds -> [Roles -> Sockets \cup {Null}] \cup {Null}]
  BY DEF RelayTypeOK
<1> QED
  BY <1>1, <1>2 DEF Channel

-----------------------------------------------------------------------------
(***************************************************************************)
(* One lemma per action.                                                   *)
(***************************************************************************)

\* A socket that opens has said nothing yet.
LEMMA ConnectKeeps ==
    ASSUME RelayInv, NEW x \in Sockets, Connect(x), UNCHANGED <<sent, asked>>
    PROVE  RelayInv'
<1>1. /\ connection[x] = "new" /\ connection'[x] = "open"
      /\ \A w \in Sockets : w # x => connection'[w] = connection[w]
      /\ UNCHANGED <<inbox, outbox, joined, channels, gone, sent, asked>>
  BY DEF Connect, RelayInv, RelayTypeOK
<1>2. joined[x] = Null /\ inbox[x] = <<>> /\ asked[x] = <<>> /\ x \notin gone
  BY <1>1 DEF RelayInv, Lifetimes
<1>3. RelayTypeOK'
  BY DEF Connect, RelayInv, RelayTypeOK
<1>4. Lifetimes'
  BY <1>1, <1>2 DEF RelayInv, Lifetimes
<1>5. InboxesTrue' /\ JoinedAsked' /\ SentInOrder' /\ ForwardedFirst'
  BY <1>1 DEF RelayInv, InboxesTrue, Asked, Told, Says, JoinedAsked, SentInOrder,
     ForwardedFirst, Older
<1>6. LastTold'
  <2>1. Len(inbox[x]) = 0
    BY <1>2, EmptySeq
  <2> QED
    BY <1>1, <1>2, <2>1 DEF RelayInv, LastTold, Speaks, Told, Says
<1>7. ForwardedInOrder' /\ OnlyCounterparty' /\ RegisteredIsLive'
  BY <1>1 DEF RelayInv, ForwardedInOrder, OnlyCounterparty, RegisteredIsLive, Channel, Asked
<1> QED
  BY <1>3, <1>4, <1>5, <1>6, <1>7 DEF RelayInv

\* A message goes to the end of its socket's inbox.
LEMMA Posted ==
    ASSUME RelayInv, NEW x \in Sockets, NEW m \in Message, connection[x] = "open",
           inbox' = Sent(inbox, x, m)
    PROVE  /\ inbox' \in [Sockets -> Seq(Message)]
           /\ \A w \in Sockets : w # x => inbox'[w] = inbox[w]
           /\ Len(inbox[x]) \in Nat /\ Len(inbox'[x]) = Len(inbox[x]) + 1
           /\ \A i \in 1..Len(inbox[x]) :
                 /\ i \in 1..Len(inbox'[x]) /\ inbox'[x][i] = inbox[x][i]
                 /\ inbox[x][i] \in Message
           /\ inbox'[x][Len(inbox'[x])] = m
<1>1. inbox[x] \in Seq(Message) /\ Len(inbox[x]) \in Nat
      /\ \A i \in 1..Len(inbox[x]) : inbox[x][i] \in Message
  BY Boxes DEF RelayInv
<1> DEFINE q == Append(inbox[x], m)
<1>2. /\ q \in Seq(Message) /\ Len(q) = Len(inbox[x]) + 1
      /\ \A i \in 1..Len(q) : q[i] = IF i <= Len(inbox[x]) THEN inbox[x][i] ELSE m
  BY <1>1, Appended
<1>3. inbox' = [inbox EXCEPT ![x] = q]
  BY DEF Sent
<1> HIDE DEF q
<1>4. /\ inbox' \in [Sockets -> Seq(Message)] /\ inbox'[x] = q
      /\ \A w \in Sockets : w # x => inbox'[w] = inbox[w]
  BY <1>2, <1>3 DEF RelayInv, RelayTypeOK
<1> QED
  BY <1>1, <1>2, <1>4

\* What a socket has told so far, one more message does not change.
LEMMA PostedTold ==
    ASSUME RelayInv, NEW x \in Sockets, NEW m \in Message, connection[x] = "open",
           inbox' = Sent(inbox, x, m), joined' = joined
    PROVE  /\ \A w \in Sockets : \A i \in 0..Len(inbox[w]) : Told(w, i)' = Told(w, i)
           /\ \A k \in Nat : k = Len(inbox[x]) => Told(x, k + 1)' = Says(m)
<1>1. \A w \in Sockets : Len(inbox[w]) \in Nat
  BY Boxes DEF RelayInv
<1>2. ASSUME NEW w \in Sockets, NEW i \in 0..Len(inbox[w])
      PROVE  Told(w, i)' = Told(w, i)
  <2>1. CASE i = 0
    BY <2>1 DEF Told
  <2>2. CASE i # 0
    <3>1. i \in 1..Len(inbox[w])
      BY <1>1, <2>2
    <3>2. inbox'[w][i] = inbox[w][i]
      BY <3>1, Posted
    <3> QED
      BY <2>2, <3>2 DEF Told, Says
  <2> QED
    BY <2>1, <2>2
<1>3. ASSUME NEW k \in Nat, k = Len(inbox[x])
      PROVE  Told(x, k + 1)' = Says(m)
  <2>1. inbox'[x][k + 1] = m /\ k + 1 # 0
    BY <1>3, Posted
  <2> QED
    BY <2>1 DEF Told, Says
<1> QED
  BY <1>2, <1>3

\* A join is added to what its socket asked for.
LEMMA SendJoinKeeps ==
    ASSUME RelayInv, NEW x \in Sockets, NEW s \in SessionIds, NEW r \in Roles,
           SendJoin(x, s, r)
    PROVE  RelayInv'
<1> DEFINE m == Join(s, r)
<1>1. m \in JoinMessage /\ m \in Message /\ m \notin Update /\ Says(m) = m
  <2>1. m \in JoinMessage
    BY JoinsAreJoins
  <2> QED
    BY <2>1 DEF Message, Update, JoinMessage, Says
<1> HIDE DEF m
<1>2. /\ connection[x] = "open" /\ inbox' = Sent(inbox, x, m)
      /\ asked' = [asked EXCEPT ![x] = Append(@, m)]
      /\ UNCHANGED <<connection, outbox, joined, channels, gone, sent>>
  BY DEF SendJoin, m
<1>3. /\ asked' \in [Sockets -> Seq(JoinMessage)]
      /\ \A w \in Sockets : Asked(w) \subseteq Asked(w)'
      /\ m \in Asked(x)' /\ Speaks(x)' = m
      /\ \A w \in Sockets : w # x => Speaks(w)' = Speaks(w) /\ asked'[w] = asked[w]
  <2>1. asked \in [Sockets -> Seq(JoinMessage)] /\ asked[x] \in Seq(JoinMessage)
    BY DEF RelayInv, RelayTypeOK
  <2> DEFINE q == asked[x]
             q2 == Append(q, m)
  <2>2. /\ q2 \in Seq(JoinMessage) /\ Len(q2) = Len(q) + 1 /\ Len(q) \in Nat
        /\ \A i \in 1..Len(q2) : q2[i] = IF i <= Len(q) THEN q[i] ELSE m
    BY <1>1, <2>1, Appended, LenProperties
  <2> HIDE DEF q2
  <2>3. /\ asked' \in [Sockets -> Seq(JoinMessage)] /\ asked'[x] = q2
        /\ \A w \in Sockets : w # x => asked'[w] = asked[w]
    BY <1>2, <2>1, <2>2 DEF q2
  <2>4. q2[Len(q2)] = m /\ Len(q2) \in 1..Len(q2) /\ q2 # <<>>
    BY <2>2, EmptySeq
  <2>5. \A i \in 1..Len(q) : i \in 1..Len(q2) /\ q2[i] = q[i]
    BY <2>2
  <2>6. m \in Asked(x)' /\ Speaks(x)' = m
    BY <2>3, <2>4 DEF Asked, Speaks
  <2>7. \A w \in Sockets : Asked(w) \subseteq Asked(w)'
    BY <2>3, <2>5 DEF Asked
  <2> QED
    BY <2>3, <2>6, <2>7 DEF Speaks
<1>4. RelayTypeOK'
  BY <1>1, <1>2, <1>3, Posted DEF RelayInv, RelayTypeOK
<1>5. Lifetimes'
  BY <1>1, <1>2, <1>3, Posted DEF RelayInv, Lifetimes
<1>6. InboxesTrue'
  <2> SUFFICES ASSUME NEW w \in Sockets, NEW i \in 1..Len(inbox'[w])
               PROVE  /\ inbox'[w][i] \in JoinMessage => inbox'[w][i] \in Asked(w)'
                      /\ inbox'[w][i] \in Update =>
                            /\ inbox'[w][i].from = w /\ inbox'[w][i].number <= sent[w]
                            /\ inbox'[w][i].as = Told(w, i - 1)'
    BY <1>2 DEF InboxesTrue
  <2>1. Len(inbox[w]) \in Nat
    BY Boxes DEF RelayInv
  <2>2. CASE i \in 1..Len(inbox[w])
    <3>1. inbox'[w][i] = inbox[w][i]
      BY <1>1, <1>2, <2>2, Posted
    <3>2. Told(w, i - 1)' = Told(w, i - 1)
      BY <1>1, <1>2, <2>1, <2>2, PostedTold
    <3> QED
      BY <1>3, <2>2, <3>1, <3>2 DEF RelayInv, InboxesTrue
  <2>3. CASE i \notin 1..Len(inbox[w])
    <3>1. w = x /\ inbox'[w][i] = m
      BY <1>1, <1>2, <2>1, <2>3, Posted
    <3> QED
      BY <1>1, <1>3, <3>1
  <2> QED
    BY <2>2, <2>3
<1>7. LastTold'
  <2> SUFFICES ASSUME NEW w \in Sockets, connection[w] = "open"
               PROVE  Speaks(w)' = Told(w, Len(inbox[w]))'
    BY <1>2 DEF LastTold
  <2>1. CASE w = x
    <3>1. PICK k \in Nat : k = Len(inbox[x]) /\ Len(inbox'[x]) = k + 1
      BY <1>1, <1>2, Posted
    <3>2. Told(x, k + 1)' = m
      BY <1>1, <1>2, <3>1, PostedTold
    <3>3. Told(x, Len(inbox[x]))' = Told(x, k + 1)'
      BY <3>1 DEF Told
    <3> QED
      BY <1>3, <2>1, <3>2, <3>3
  <2>2. CASE w # x
    <3>1. inbox'[w] = inbox[w] /\ Speaks(w)' = Speaks(w)
      BY <1>1, <1>2, <1>3, <2>2, Posted
    <3> QED
      BY <1>2, <3>1 DEF RelayInv, LastTold, Told, Says
  <2> QED
    BY <2>1, <2>2
<1>8. SentInOrder' /\ ForwardedFirst'
  <2>1. \A w \in Sockets : \A i \in 1..Len(inbox'[w]) : inbox'[w][i] \in Update =>
            i \in 1..Len(inbox[w]) /\ inbox'[w][i] = inbox[w][i]
    <3> SUFFICES ASSUME NEW w \in Sockets, NEW i \in 1..Len(inbox'[w]), inbox'[w][i] \in Update
                 PROVE  i \in 1..Len(inbox[w]) /\ inbox'[w][i] = inbox[w][i]
      OBVIOUS
    <3> QED
      BY <1>1, <1>2, Posted
  <2>2. SentInOrder'
    BY <2>1 DEF RelayInv, SentInOrder
  <2>3. ForwardedFirst'
    <3> SUFFICES ASSUME NEW w \in Sockets, NEW i \in 1..Len(outbox[w])
                 PROVE  Older(outbox[w][i])'
      BY <1>2 DEF ForwardedFirst, Older
    <3>1. Older(outbox[w][i]) /\ outbox[w][i].from \in Sockets
      BY Boxes DEF RelayInv, ForwardedFirst
    <3> QED
      BY <1>2, <2>1, <3>1 DEF Older
  <2> QED
    BY <2>2, <2>3
<1>9. JoinedAsked' /\ ForwardedInOrder' /\ OnlyCounterparty'
  BY <1>2, <1>3 DEF RelayInv, JoinedAsked, ForwardedInOrder, OnlyCounterparty
<1>10. RegisteredIsLive'
  <2> SUFFICES ASSUME NEW s2 \in SessionIds, NEW r2 \in Roles, NEW w,
                      w = Channel(s2)[r2], w # Null
               PROVE  /\ Join(s2, r2) \in Asked(w)'
                      /\ w \in gone => joined[w] # Join(s2, r2)
    BY <1>2 DEF RegisteredIsLive, Channel, Asked
  <2>1. w \in Sockets
    BY ChannelType DEF RelayInv
  <2>2. Join(s2, r2) \in Asked(w) /\ (w \in gone => joined[w] # Join(s2, r2))
    BY DEF RelayInv, RegisteredIsLive
  <2> QED
    BY <1>3, <2>1, <2>2
<1> QED
  BY <1>4, <1>5, <1>6, <1>7, <1>8, <1>9, <1>10 DEF RelayInv

\* A new update is later than everything its socket has sent, and says what the
\* relay will by then have been told.
LEMMA SendKeeps ==
    ASSUME RelayInv, NEW x \in Sockets, SendUpdate(x)
    PROVE  RelayInv'
<1> DEFINE u == [type |-> "update", from |-> x, number |-> sent[x] + 1, as |-> Speaks(x)]
<1>1. sent'[x] = sent[x] + 1 /\ sent[x] \in Nat
      /\ \A w \in Sockets : w # x => sent'[w] = sent[w]
  BY DEF SendUpdate, RelayInv, RelayTypeOK
<1>2. /\ connection[x] = "open" /\ inbox' = Sent(inbox, x, u)
      /\ UNCHANGED <<connection, outbox, joined, channels, gone, asked>>
  BY <1>1 DEF SendUpdate
<1>3. Speaks(x) \in JoinMessage \cup {Null} /\ Speaks(x) = Told(x, Len(inbox[x]))
  <2>1. asked[x] \in Seq(JoinMessage)
    BY DEF RelayInv, RelayTypeOK
  <2>2. CASE asked[x] = <<>>
    BY <1>2, <2>2 DEF Speaks, RelayInv, LastTold
  <2>3. CASE asked[x] # <<>>
    <3>1. Len(asked[x]) \in 1..Len(asked[x])
      BY <2>1, <2>3, EmptySeq, LenProperties
    <3>2. asked[x][Len(asked[x])] \in JoinMessage
      BY <2>1, <3>1, ElementOfSeq
    <3> QED
      BY <1>2, <2>3, <3>2 DEF Speaks, RelayInv, LastTold
  <2> QED
    BY <2>2, <2>3
<1>4. /\ u \in Update /\ u \in Message /\ u \notin JoinMessage /\ Says(u) = Speaks(x)
      /\ u.from = x /\ u.number = sent[x] + 1 /\ u.as = Speaks(x)
  BY <1>1, <1>3 DEF Update, Message, JoinMessage, Says
<1> HIDE DEF u
<1>5. RelayTypeOK'
  <2>1. sent' \in [Sockets -> Nat]
    BY <1>1 DEF SendUpdate, RelayInv, RelayTypeOK
  <2>2. inbox' \in [Sockets -> Seq(Message)]
    BY <1>2, <1>4, Posted
  <2> QED
    BY <1>2, <2>1, <2>2 DEF RelayInv, RelayTypeOK
<1>6. Lifetimes'
  BY <1>2, <1>4, Posted DEF RelayInv, Lifetimes
<1>7. InboxesTrue'
  <2> SUFFICES ASSUME NEW w \in Sockets, NEW i \in 1..Len(inbox'[w])
               PROVE  /\ inbox'[w][i] \in JoinMessage => inbox'[w][i] \in Asked(w)
                      /\ inbox'[w][i] \in Update =>
                            /\ inbox'[w][i].from = w /\ inbox'[w][i].number <= sent'[w]
                            /\ inbox'[w][i].as = Told(w, i - 1)'
    BY <1>2 DEF InboxesTrue, Asked
  <2>1. Len(inbox[w]) \in Nat
    BY Boxes DEF RelayInv
  <2>2. CASE i \in 1..Len(inbox[w])
    <3>1. inbox'[w][i] = inbox[w][i]
      BY <1>2, <1>4, <2>2, Posted
    <3>2. Told(w, i - 1)' = Told(w, i - 1)
      BY <1>2, <1>4, <2>1, <2>2, PostedTold
    <3>3. inbox[w][i] \in Update => inbox[w][i].number \in Nat
      BY DEF Update
    <3>4. /\ inbox[w][i] \in JoinMessage => inbox[w][i] \in Asked(w)
          /\ inbox[w][i] \in Update =>
                /\ inbox[w][i].from = w /\ inbox[w][i].number <= sent[w]
                /\ inbox[w][i].as = Told(w, i - 1)
      BY <2>2 DEF RelayInv, InboxesTrue
    <3>5. sent[w] \in Nat /\ sent'[w] \in Nat /\ sent[w] <= sent'[w]
      <4>1. sent[w] \in Nat
        BY DEF RelayInv, RelayTypeOK
      <4>2. sent'[w] = sent[w] \/ sent'[w] = sent[w] + 1
        BY <1>1
      <4> QED
        BY <4>1, <4>2
    <3> QED
      BY <3>1, <3>2, <3>3, <3>4, <3>5
  <2>3. CASE i \notin 1..Len(inbox[w])
    <3>1. w = x /\ inbox'[w][i] = u /\ i = Len(inbox[x]) + 1
      BY <1>2, <1>4, <2>1, <2>3, Posted
    <3>2. PICK k \in Nat : k = Len(inbox[x]) /\ k = i - 1 /\ k \in 0..Len(inbox[x])
      BY <2>1, <3>1
    <3>3. Told(x, k)' = Told(x, k)
      BY <1>2, <1>4, <3>2, PostedTold
    <3>4. Told(x, i - 1)' = Speaks(x)
      BY <1>3, <3>2, <3>3
    <3>5. /\ inbox'[w][i] \notin JoinMessage
          /\ inbox'[w][i].from = w /\ inbox'[w][i].as = Speaks(x)
          /\ inbox'[w][i].number <= sent'[w]
      BY <1>1, <1>4, <3>1
    <3> QED
      BY <3>1, <3>4, <3>5
  <2> QED
    BY <2>2, <2>3
<1>8. LastTold'
  <2> SUFFICES ASSUME NEW w \in Sockets, connection[w] = "open"
               PROVE  Speaks(w) = Told(w, Len(inbox[w]))'
    BY <1>2 DEF LastTold, Speaks
  <2>1. CASE w = x
    <3>1. PICK k \in Nat : k = Len(inbox[x]) /\ Len(inbox'[x]) = k + 1
      BY <1>2, <1>4, Posted
    <3>2. Told(x, k + 1)' = Speaks(x)
      BY <1>2, <1>4, <3>1, PostedTold
    <3>3. Told(x, Len(inbox[x]))' = Told(x, k + 1)'
      BY <3>1 DEF Told
    <3> QED
      BY <2>1, <3>2, <3>3
  <2>2. CASE w # x
    <3>1. inbox'[w] = inbox[w]
      BY <1>2, <1>4, <2>2, Posted
    <3> QED
      BY <1>2, <3>1 DEF RelayInv, LastTold, Told, Says
  <2> QED
    BY <2>1, <2>2
<1>9. SentInOrder'
  <2> SUFFICES ASSUME NEW w \in Sockets,
                      NEW i \in 1..Len(inbox'[w]), NEW j \in 1..Len(inbox'[w]),
                      i < j, inbox'[w][i] \in Update, inbox'[w][j] \in Update
               PROVE  inbox'[w][i].number < inbox'[w][j].number
    BY DEF SentInOrder
  <2>1. Len(inbox[w]) \in Nat
    BY Boxes DEF RelayInv
  <2>2. i \in 1..Len(inbox[w]) /\ inbox'[w][i] = inbox[w][i]
    BY <1>2, <1>4, <2>1, Posted
  <2>3. CASE j \in 1..Len(inbox[w])
    BY <1>2, <1>4, <2>2, <2>3, Posted DEF RelayInv, SentInOrder
  <2>4. CASE j \notin 1..Len(inbox[w])
    <3>1. w = x /\ inbox'[w][j] = u
      BY <1>2, <1>4, <2>1, <2>4, Posted
    <3>2. inbox[x][i].number <= sent[x] /\ inbox[x][i].number \in Nat
      BY <2>2, <3>1 DEF RelayInv, InboxesTrue, Update
    <3> QED
      BY <1>1, <1>4, <2>2, <3>1, <3>2
  <2> QED
    BY <2>3, <2>4
<1>10. ForwardedFirst'
  <2> SUFFICES ASSUME NEW w \in Sockets, NEW i \in 1..Len(outbox[w])
               PROVE  Older(outbox[w][i])'
    BY <1>2 DEF ForwardedFirst, Older
  <2> DEFINE v == outbox[w][i]
  <2>1. v.from \in Sockets /\ v.number \in Nat /\ Older(v)
    BY Boxes DEF RelayInv, ForwardedFirst
  <2>2. /\ v.number <= sent[v.from]
        /\ \A j \in 1..Len(inbox[v.from]) :
              inbox[v.from][j] \in Update => v.number < inbox[v.from][j].number
    BY <2>1 DEF Older
  <2>3. v.number <= sent'[v.from]
    BY <1>1, <2>1, <2>2
  <2>4. ASSUME NEW j \in 1..Len(inbox'[v.from]), inbox'[v.from][j] \in Update
        PROVE  v.number < inbox'[v.from][j].number
    <3>1. CASE v.from # x
      <4>1. inbox'[v.from] = inbox[v.from]
        BY <1>2, <1>4, <2>1, <3>1, Posted
      <4> QED
        BY <2>2, <2>4, <4>1
    <3>2. CASE v.from = x /\ j \in 1..Len(inbox[x])
      <4>1. inbox'[x][j] = inbox[x][j]
        BY <1>2, <1>4, <3>2, Posted
      <4> QED
        BY <2>2, <2>4, <3>2, <4>1
    <3>3. CASE v.from = x /\ j \notin 1..Len(inbox[x])
      <4>1. j = Len(inbox'[x])
        <5>1. Len(inbox[x]) \in Nat /\ Len(inbox'[x]) = Len(inbox[x]) + 1
          BY <1>2, <1>4, Posted
        <5>2. j \in 1..Len(inbox'[x])
          BY <3>3
        <5> QED
          BY <3>3, <5>1, <5>2
      <4>2. inbox'[x][j] = u
        BY <1>2, <1>4, <4>1, Posted
      <4>3. v.number <= sent[x]
        BY <2>2, <3>3
      <4> QED
        BY <1>1, <1>4, <2>1, <3>3, <4>2, <4>3
    <3> QED
      BY <3>1, <3>2, <3>3
  <2> QED
    BY <1>2, <2>3, <2>4 DEF Older
<1>11. /\ JoinedAsked' /\ ForwardedInOrder' /\ OnlyCounterparty' /\ RegisteredIsLive'
  BY <1>2 DEF RelayInv, JoinedAsked, ForwardedInOrder, OnlyCounterparty, RegisteredIsLive,
     Channel, Asked
<1> QED
  BY <1>5, <1>6, <1>7, <1>8, <1>9, <1>10, <1>11 DEF RelayInv

\* A client's close takes away the end of its inbox and all of its outbox.
LEMMA CloseKeeps ==
    ASSUME RelayInv, NEW x \in Sockets, NEW lost \in 0..Len(inbox[x]),
           Close(x, lost), UNCHANGED <<sent, asked>>
    PROVE  RelayInv'
<1> DEFINE q == SubSeq(inbox[x], 1, Len(inbox[x]) - lost)
<1>1. /\ q \in Seq(Message) /\ Len(q) = Len(inbox[x]) - lost /\ Len(inbox[x]) \in Nat
      /\ \A i \in 1..Len(q) : q[i] = inbox[x][i] /\ i \in 1..Len(inbox[x])
  BY Cut, LenProperties DEF RelayInv, RelayTypeOK
<1>2. /\ inbox'[x] = q /\ \A w \in Sockets : w # x => inbox'[w] = inbox[w]
      /\ outbox'[x] = <<>> /\ \A w \in Sockets : w # x => outbox'[w] = outbox[w]
      /\ connection[x] = "open" /\ connection'[x] = "closed"
      /\ \A w \in Sockets : w # x => connection'[w] = connection[w]
      /\ UNCHANGED <<joined, channels, gone, sent, asked>>
  BY DEF Close, RelayInv, RelayTypeOK
<1>3. RelayTypeOK'
  <2>1. <<>> \in Seq(Update)
    BY EmptySeq
  <2> QED
    BY <1>1, <2>1 DEF Close, RelayInv, RelayTypeOK
<1>4. Lifetimes'
  BY <1>2 DEF RelayInv, Lifetimes
<1>5. \A w \in Sockets : \A i \in 1..Len(inbox'[w]) :
          i \in 1..Len(inbox[w]) /\ inbox'[w][i] = inbox[w][i]
  BY <1>1, <1>2
<1>6. \A w \in Sockets : \A i \in 1..Len(outbox'[w]) :
          i \in 1..Len(outbox[w]) /\ outbox'[w][i] = outbox[w][i]
  BY <1>2, EmptySeq
<1>7. InboxesTrue' /\ LastTold' /\ JoinedAsked'
  <2>1. ASSUME NEW w \in Sockets, NEW i \in 1..Len(inbox'[w])
        PROVE  Told(w, i - 1)' = Told(w, i - 1)
    <3>1. CASE i = 1
      BY <1>2, <3>1 DEF Told
    <3>2. CASE i # 1
      <4>1. i - 1 \in 1..Len(inbox'[w]) /\ i - 1 # 0
        BY <3>2
      <4> QED
        BY <1>5, <4>1 DEF Told, Says
    <3> QED
      BY <3>1, <3>2
  <2>2. InboxesTrue'
    <3> SUFFICES ASSUME NEW w \in Sockets, NEW i \in 1..Len(inbox'[w])
                 PROVE  /\ inbox'[w][i] \in JoinMessage => inbox'[w][i] \in Asked(w)
                        /\ inbox'[w][i] \in Update =>
                              /\ inbox'[w][i].from = w /\ inbox'[w][i].number <= sent[w]
                              /\ inbox'[w][i].as = Told(w, i - 1)'
      BY <1>2 DEF InboxesTrue, Asked
    <3>1. i \in 1..Len(inbox[w]) /\ inbox'[w][i] = inbox[w][i]
      BY <1>5
    <3>2. Told(w, i - 1)' = Told(w, i - 1)
      BY <2>1
    <3> QED
      BY <3>1, <3>2 DEF RelayInv, InboxesTrue
  <2>3. LastTold'
    BY <1>2 DEF RelayInv, LastTold, Speaks, Told, Says
  <2> QED
    BY <1>2, <2>2, <2>3 DEF RelayInv, JoinedAsked, Asked
<1>8. SentInOrder'
  BY <1>5 DEF RelayInv, SentInOrder
<1>9. ForwardedFirst'
  <2> SUFFICES ASSUME NEW w \in Sockets, NEW i \in 1..Len(outbox'[w]), NEW v,
                      v = outbox'[w][i]
               PROVE  /\ v.number <= sent[v.from]
                      /\ \A j \in 1..Len(inbox'[v.from]) :
                            inbox'[v.from][j] \in Update => v.number < inbox'[v.from][j].number
    BY <1>2 DEF ForwardedFirst, Older
  <2>1. i \in 1..Len(outbox[w]) /\ v = outbox[w][i]
    BY <1>6
  <2>2. v.from \in Sockets
    BY <2>1, Boxes DEF RelayInv
  <2>3. Older(v)
    BY <2>1 DEF RelayInv, ForwardedFirst
  <2>4. v.number <= sent[v.from]
    BY <2>3 DEF Older
  <2>5. ASSUME NEW j \in 1..Len(inbox'[v.from]), inbox'[v.from][j] \in Update
        PROVE  v.number < inbox'[v.from][j].number
    <3>1. j \in 1..Len(inbox[v.from]) /\ inbox'[v.from][j] = inbox[v.from][j]
      BY <1>5, <2>2
    <3> QED
      BY <2>3, <2>5, <3>1 DEF Older
  <2> QED
    BY <2>4, <2>5
<1>10. ForwardedInOrder'
  BY <1>6 DEF RelayInv, ForwardedInOrder
<1>11. OnlyCounterparty'
  <2> SUFFICES ASSUME NEW w \in Sockets, NEW i \in 1..Len(outbox'[w])
               PROVE  LET as == outbox'[w][i].as
                      IN  as # Null /\ Join(as.session, Peer(as.role)) \in Asked(w)
    BY <1>2, SameAsked DEF OnlyCounterparty
  <2>1. i \in 1..Len(outbox[w]) /\ outbox'[w][i] = outbox[w][i]
    BY <1>6
  <2>2. LET as == outbox[w][i].as
        IN  as # Null /\ Join(as.session, Peer(as.role)) \in Asked(w)
    BY <2>1 DEF RelayInv, OnlyCounterparty
  <2> QED
    BY <2>1, <2>2
<1>12. RegisteredIsLive'
  BY <1>2 DEF RelayInv, RegisteredIsLive, Channel, Asked
<1> QED
  BY <1>3, <1>4, <1>7, <1>8, <1>9, <1>10, <1>11, <1>12 DEF RelayInv

\* What both branches of the message handler leave of the inboxes.
LEMMA Handled ==
    ASSUME RelayInv, NEW x \in Sockets, OnMessage(x), UNCHANGED <<sent, asked>>
    PROVE  /\ inbox[x][1] \in Message /\ 1 \in 1..Len(inbox[x])
           /\ Head(inbox[x]) = inbox[x][1]
           /\ connection[x] # "new" /\ x \notin gone
           /\ inbox' \in [Sockets -> Seq(Message)]
           /\ \A w \in Sockets : w # x => inbox'[w] = inbox[w]
           /\ \A i \in 1..Len(inbox'[x]) :
                 i + 1 \in 1..Len(inbox[x]) /\ inbox'[x][i] = inbox[x][i + 1]
           /\ Len(inbox'[x]) = Len(inbox[x]) - 1 /\ Len(inbox[x]) \in Nat
           /\ SentInOrder'
<1>1. inbox[x] # <<>> /\ inbox' = [inbox EXCEPT ![x] = Tail(@)]
  BY DEF OnMessage
<1>2. /\ inbox \in [Sockets -> Seq(Message)] /\ inbox[x] \in Seq(Message)
      /\ Len(inbox[x]) \in Nat
  BY Boxes DEF RelayInv, RelayTypeOK
<1>3. /\ Head(inbox[x]) = inbox[x][1] /\ inbox[x][1] \in Message
      /\ 1 \in 1..Len(inbox[x]) /\ Tail(inbox[x]) \in Seq(Message)
      /\ Len(Tail(inbox[x])) = Len(inbox[x]) - 1
      /\ \A i \in 1..Len(Tail(inbox[x])) :
            i + 1 \in 1..Len(inbox[x]) /\ Tail(inbox[x])[i] = inbox[x][i + 1]
  BY <1>1, <1>2, Tailed
<1>4. connection[x] # "new" /\ x \notin gone
  BY <1>1 DEF RelayInv, Lifetimes
<1>5. /\ inbox' \in [Sockets -> Seq(Message)] /\ inbox'[x] = Tail(inbox[x])
      /\ \A w \in Sockets : w # x => inbox'[w] = inbox[w]
  BY <1>1, <1>2, <1>3
<1>6. SentInOrder'
  <2> SUFFICES ASSUME NEW w \in Sockets,
                      NEW i \in 1..Len(inbox'[w]), NEW j \in 1..Len(inbox'[w]),
                      i < j, inbox'[w][i] \in Update, inbox'[w][j] \in Update
               PROVE  inbox'[w][i].number < inbox'[w][j].number
    BY DEF SentInOrder
  <2>1. CASE w # x
    BY <1>5, <2>1 DEF RelayInv, SentInOrder
  <2>2. CASE w = x
    <3>1. i + 1 \in 1..Len(inbox[x]) /\ inbox'[w][i] = inbox[x][i + 1]
      BY <1>3, <1>5, <2>2
    <3>2. j + 1 \in 1..Len(inbox[x]) /\ inbox'[w][j] = inbox[x][j + 1]
      BY <1>3, <1>5, <2>2
    <3>3. i + 1 < j + 1
      OBVIOUS
    <3> QED
      BY <3>1, <3>2, <3>3 DEF RelayInv, SentInOrder
  <2> QED
    BY <2>1, <2>2
<1> QED
  BY <1>2, <1>3, <1>4, <1>5, <1>6

\* Whatever the handler does, the rest of the inbox is as true as it was, if the
\* relay now takes the socket for what the message said.
LEMMA HandledTrue ==
    ASSUME RelayInv, NEW x \in Sockets, OnMessage(x), UNCHANGED <<sent, asked>>,
           UNCHANGED connection, joined'[x] = Says(inbox[x][1]),
           \A w \in Sockets : w # x => joined'[w] = joined[w]
    PROVE  InboxesTrue' /\ LastTold'
<1>1. \A w \in Sockets, i \in Nat : w # x => Told(w, i)' = Told(w, i)
  BY Handled DEF Told, Says
<1>2. \A i \in 0..Len(inbox'[x]) : Told(x, i)' = Told(x, i + 1)
  <2> SUFFICES ASSUME NEW i \in 0..Len(inbox'[x]) PROVE Told(x, i)' = Told(x, i + 1)
    OBVIOUS
  <2>1. CASE i = 0
    BY <2>1 DEF Told
  <2>2. CASE i # 0
    <3>1. Len(inbox'[x]) \in Int /\ i \in 1..Len(inbox'[x]) /\ i + 1 # 0
      BY <2>2, Handled
    <3>2. inbox'[x][i] = inbox[x][i + 1]
      BY <3>1, Handled
    <3> QED
      BY <2>2, <3>1, <3>2 DEF Told, Says
  <2> QED
    BY <2>1, <2>2
<1>3. InboxesTrue'
  <2> SUFFICES ASSUME NEW w \in Sockets, NEW i \in 1..Len(inbox'[w])
               PROVE  /\ inbox'[w][i] \in JoinMessage => inbox'[w][i] \in Asked(w)
                      /\ inbox'[w][i] \in Update =>
                            /\ inbox'[w][i].from = w /\ inbox'[w][i].number <= sent[w]
                            /\ inbox'[w][i].as = Told(w, i - 1)'
    BY DEF InboxesTrue, Asked
  <2>1. CASE w # x
    <3>1. inbox'[w] = inbox[w] /\ i - 1 \in Nat
      BY <2>1, Handled
    <3>2. Told(w, i - 1)' = Told(w, i - 1)
      <4> DEFINE k == i - 1
      <4> HIDE DEF k
      <4>1. k \in Nat
        BY <3>1 DEF k
      <4>2. Told(w, k)' = Told(w, k)
        BY <1>1, <2>1, <4>1
      <4> QED
        BY <4>2 DEF k
    <3> QED
      BY <3>1, <3>2 DEF RelayInv, InboxesTrue
  <2>2. CASE w = x
    <3> DEFINE k == i - 1
    <3>1. k \in 0..Len(inbox'[x]) /\ k + 1 = i /\ i + 1 - 1 = i
      BY <2>2, Handled
    <3>2. i + 1 \in 1..Len(inbox[x]) /\ inbox'[w][i] = inbox[x][i + 1]
      BY <2>2, Handled
    <3> HIDE DEF k
    <3>3. Told(x, k)' = Told(x, i)
      BY <1>2, <3>1
    <3>4. Told(w, i - 1)' = Told(x, i)
      BY <2>2, <3>3 DEF k
    <3>5. /\ inbox[x][i + 1] \in JoinMessage => inbox[x][i + 1] \in Asked(x)
          /\ inbox[x][i + 1] \in Update =>
                /\ inbox[x][i + 1].from = x /\ inbox[x][i + 1].number <= sent[x]
                /\ inbox[x][i + 1].as = Told(x, i)
      BY <3>1, <3>2 DEF RelayInv, InboxesTrue
    <3> QED
      BY <2>2, <3>2, <3>4, <3>5
  <2> QED
    BY <2>1, <2>2
<1>4. LastTold'
  <2> SUFFICES ASSUME NEW w \in Sockets, connection[w] = "open"
               PROVE  Speaks(w) = Told(w, Len(inbox[w]))'
    BY DEF LastTold, Speaks
  <2>1. Speaks(w) = Told(w, Len(inbox[w])) /\ Len(inbox[w]) \in Nat
    BY Boxes DEF RelayInv, LastTold
  <2>2. CASE w # x
    <3>1. inbox'[w] = inbox[w]
      BY <2>2, Handled
    <3> QED
      BY <2>1, <2>2, <3>1 DEF Told, Says
  <2>3. CASE w = x
    <3>1. PICK k \in Nat : Len(inbox'[x]) = k /\ k + 1 = Len(inbox[x])
      BY Handled
    <3>2. Told(x, k)' = Told(x, k + 1)
      <4>1. k \in 0..Len(inbox'[x])
        BY <3>1
      <4> QED
        BY <1>2, <4>1
    <3>3. Told(x, Len(inbox[x]))' = Told(x, k)'
      BY <3>1 DEF Told
    <3> QED
      BY <2>1, <2>3, <3>1, <3>2, <3>3
  <2> QED
    BY <2>2, <2>3
<1> QED
  BY <1>3, <1>4

\* What is older than an inbox is older than what a handler leaves of it.
LEMMA StaysOlder ==
    ASSUME RelayInv, NEW x \in Sockets, OnMessage(x), UNCHANGED <<sent, asked>>,
           NEW u \in Update, Older(u)
    PROVE  u.number <= sent'[u.from] /\ \A j \in 1..Len(inbox'[u.from]) :
               inbox'[u.from][j] \in Update => u.number < inbox'[u.from][j].number
<1>1. u.from \in Sockets
  BY DEF Update
<1>2. CASE u.from # x
  BY <1>1, <1>2, Handled DEF Older
<1>3. CASE u.from = x
  <2>1. u.number <= sent'[x]
    BY <1>3 DEF Older
  <2>2. ASSUME NEW j \in 1..Len(inbox'[x]), inbox'[x][j] \in Update
        PROVE  u.number < inbox'[x][j].number
    <3>1. j + 1 \in 1..Len(inbox[x]) /\ inbox'[x][j] = inbox[x][j + 1]
      BY Handled
    <3> QED
      BY <1>3, <2>2, <3>1 DEF Older
  <2> QED
    BY <1>3, <2>1, <2>2
<1> QED
  BY <1>2, <1>3

\* What was forwarded stays older than what is left.
LEMMA ForwardedFirstKept ==
    ASSUME RelayInv, NEW x \in Sockets, OnMessage(x), UNCHANGED <<sent, asked, outbox>>
    PROVE  ForwardedFirst'
<1> SUFFICES ASSUME NEW w \in Sockets, NEW i \in 1..Len(outbox[w])
             PROVE  /\ outbox[w][i].number <= sent'[outbox[w][i].from]
                    /\ \A j \in 1..Len(inbox'[outbox[w][i].from]) :
                          inbox'[outbox[w][i].from][j] \in Update =>
                            outbox[w][i].number < inbox'[outbox[w][i].from][j].number
  BY DEF ForwardedFirst, Older
<1>1. outbox[w][i] \in Update /\ Older(outbox[w][i])
  BY Boxes DEF RelayInv, ForwardedFirst
<1> QED
  BY <1>1, StaysOlder

\* A join registers its socket once more.
LEMMA JoinKeeps ==
    ASSUME RelayInv, NEW x \in Sockets, OnMessage(x), UNCHANGED <<sent, asked>>,
           Head(inbox[x]).type = "join"
    PROVE  RelayInv'
<1> DEFINE m == inbox[x][1]
           f == [Channel(m.session) EXCEPT ![m.role] = x]
<1>1. m \in JoinMessage /\ m \in Asked(x) /\ m # Null /\ Says(m) = m /\ x \notin gone
  <2>1. m \in JoinMessage
    BY Handled, Kinds
  <2> QED
    BY <2>1, Handled, JoinsAreJoins DEF RelayInv, InboxesTrue, Says, JoinMessage
<1>2. m.session \in SessionIds /\ m.role \in Roles /\ m = Join(m.session, m.role)
  BY <1>1, JoinsAreJoins
<1>3. /\ joined' = [joined EXCEPT ![x] = m]
      /\ channels' = [channels EXCEPT ![m.session] = f]
      /\ UNCHANGED <<connection, outbox, gone, sent, asked>>
  BY Handled DEF OnMessage, OnJoin
<1>4. Channel(m.session) \in [Roles -> Sockets \cup {Null}]
  BY <1>2, ChannelType DEF RelayInv
<1>5. /\ f \in [Roles -> Sockets \cup {Null}] /\ f[m.role] = x
      /\ \A r \in Roles : r # m.role => f[r] = Channel(m.session)[r]
  BY <1>2, <1>4
<1>6. /\ channels' \in [SessionIds -> [Roles -> Sockets \cup {Null}] \cup {Null}]
      /\ \A s \in SessionIds : Channel(s)' = IF s = m.session THEN f ELSE Channel(s)
  BY <1>2, <1>3, <1>5, Assigned DEF RelayInv
<1>7. /\ joined' \in [Sockets -> JoinMessage \cup {Null}] /\ joined'[x] = m
      /\ \A w \in Sockets : w # x => joined'[w] = joined[w]
  BY <1>1, <1>3 DEF RelayInv, RelayTypeOK
<1>8. RelayTypeOK'
  BY <1>3, <1>6, <1>7, Handled DEF RelayInv, RelayTypeOK
<1>9. Lifetimes'
  BY <1>3, <1>7, Handled DEF RelayInv, Lifetimes
<1>10. InboxesTrue' /\ LastTold'
  BY <1>1, <1>3, <1>7, HandledTrue
<1>11. ForwardedFirst'
  BY <1>3, ForwardedFirstKept
<1>12. ForwardedInOrder'
  BY <1>3 DEF RelayInv, ForwardedInOrder
<1>13. OnlyCounterparty' /\ JoinedAsked'
  BY <1>1, <1>3, <1>7 DEF RelayInv, OnlyCounterparty, JoinedAsked, Asked
<1>14. RegisteredIsLive'
  <2> SUFFICES ASSUME NEW s \in SessionIds, NEW r \in Roles, Channel(s)'[r] # Null
               PROVE  /\ Join(s, r) \in Asked(Channel(s)'[r])
                      /\ Channel(s)'[r] \in gone => joined'[Channel(s)'[r]] # Join(s, r)
    BY <1>3 DEF RegisteredIsLive, Asked
  <2>1. CASE s = m.session /\ r = m.role
    <3>1. Channel(s)'[r] = x
      BY <1>2, <1>5, <1>6, <2>1
    <3> QED
      BY <1>1, <1>2, <2>1, <3>1
  <2>2. CASE ~(s = m.session /\ r = m.role)
    <3>1. Channel(s)'[r] = Channel(s)[r]
      BY <1>5, <1>6, <2>2
    <3>2. Channel(s)[r] \in Sockets
      BY <2>2, <3>1, ChannelType DEF RelayInv
    <3>3. /\ Join(s, r) \in Asked(Channel(s)[r])
          /\ Channel(s)[r] \in gone => joined[Channel(s)[r]] # Join(s, r)
      BY <3>1 DEF RelayInv, RegisteredIsLive
    <3> QED
      BY <1>1, <1>7, <3>1, <3>2, <3>3
  <2> QED
    BY <2>1, <2>2
<1> QED
  BY <1>8, <1>9, <1>10, <1>11, <1>12, <1>13, <1>14, Handled DEF RelayInv

\* An update goes to nobody, or to the end of the counterparty's box.
LEMMA ForwardKeeps ==
    ASSUME RelayInv, NEW x \in Sockets, OnMessage(x), UNCHANGED <<sent, asked>>,
           Head(inbox[x]).type # "join"
    PROVE  RelayInv'
<1> DEFINE m == inbox[x][1]
           p == Channel(joined[x].session)[Peer(joined[x].role)]
<1>1. /\ m \in Update /\ m \in Message /\ m.from = x /\ m.number \in Nat
      /\ m.number <= sent[x] /\ m.as = joined[x] /\ Says(m) = joined[x]
  <2>1. m \in Update /\ m.type # "join"
    BY Handled, Kinds
  <2>2. m.from = x /\ m.number <= sent[x] /\ m.as = Told(x, 1 - 1)
    <3>1. 1 \in 1..Len(inbox[x]) /\ InboxesTrue
      BY Handled DEF RelayInv
    <3>2. m \in Update =>
             m.from = x /\ m.number <= sent[x] /\ m.as = Told(x, 1 - 1)
      BY <3>1 DEF InboxesTrue
    <3> QED
      BY <2>1, <3>2
  <2>3. m.as = joined[x]
    BY <2>2 DEF Told
  <2> QED
    BY <2>1, <2>2, <2>3 DEF Update, Message, Says
<1>2. UNCHANGED <<connection, joined, channels, gone, sent, asked>>
  BY DEF OnMessage, Forward
<1>3. Lifetimes'
  BY <1>2, Handled DEF RelayInv, Lifetimes
<1>4. InboxesTrue' /\ LastTold' /\ JoinedAsked'
  BY <1>1, <1>2, HandledTrue DEF RelayInv, JoinedAsked, Asked
<1>5. RegisteredIsLive'
  BY <1>2 DEF RelayInv, RegisteredIsLive, Channel, Asked
<1>6. CASE outbox' = outbox
  <2>1. RelayTypeOK'
    BY <1>2, <1>6, Handled DEF RelayInv, RelayTypeOK
  <2>2. ForwardedFirst'
    BY <1>2, <1>6, ForwardedFirstKept
  <2>3. ForwardedInOrder' /\ OnlyCounterparty'
    BY <1>2, <1>6, SameAsked DEF RelayInv, ForwardedInOrder, OnlyCounterparty
  <2> QED
    BY <1>3, <1>4, <1>5, <2>1, <2>2, <2>3, Handled DEF RelayInv
<1>7. CASE outbox' # outbox
  <2>1. /\ joined[x] # Null /\ p # Null
        /\ outbox' = [outbox EXCEPT ![p] = Append(@, m)]
    BY <1>7, Handled DEF OnMessage, Forward, Sent
  <2>2. /\ joined[x] \in JoinMessage /\ joined[x].session \in SessionIds
        /\ joined[x].role \in Roles /\ Peer(joined[x].role) \in Roles
    <3>1. joined[x] \in JoinMessage
      BY <2>1 DEF RelayInv, RelayTypeOK
    <3> QED
      BY <3>1, JoinsAreJoins, Peers
  <2>3. p \in Sockets
    BY <2>1, <2>2, ChannelType DEF RelayInv
  <2>4. Join(joined[x].session, Peer(joined[x].role)) \in Asked(p)
    BY <2>1, <2>2 DEF RelayInv, RegisteredIsLive
  <2>5. /\ Append(outbox[p], m) \in Seq(Update) /\ Len(outbox[p]) \in Nat
        /\ Len(Append(outbox[p], m)) = Len(outbox[p]) + 1
        /\ \A i \in 1..Len(Append(outbox[p], m)) :
              Append(outbox[p], m)[i] = IF i <= Len(outbox[p]) THEN outbox[p][i] ELSE m
    BY <1>1, <2>3, Boxes, Appended DEF RelayInv
  <2>6. /\ outbox' \in [Sockets -> Seq(Update)]
        /\ outbox'[p] = Append(outbox[p], m)
        /\ \A w \in Sockets : w # p => outbox'[w] = outbox[w]
    BY <2>1, <2>3, <2>5 DEF RelayInv, RelayTypeOK
  <2> HIDE DEF p
  \* Each update in a box was there before, or is m in p's box.
  <2>7. ASSUME NEW w \in Sockets, NEW i \in 1..Len(outbox'[w])
        PROVE  \/ i \in 1..Len(outbox[w]) /\ outbox'[w][i] = outbox[w][i]
               \/ w = p /\ outbox'[w][i] = m /\ i = Len(outbox[p]) + 1
    <3>1. CASE w # p
      BY <2>6, <3>1
    <3>2. CASE w = p /\ i <= Len(outbox[p])
      <4>1. i \in 1..(Len(outbox[p]) + 1) /\ outbox'[p][i] = outbox[p][i]
        BY <2>5, <2>6, <3>2
      <4>2. i \in 1..Len(outbox[p])
        BY <2>5, <3>2, <4>1
      <4> QED
        BY <3>2, <4>1, <4>2
    <3>3. CASE w = p /\ ~(i <= Len(outbox[p]))
      <4>1. i \in 1..(Len(outbox[p]) + 1) /\ outbox'[p][i] = m
        BY <2>5, <2>6, <3>3
      <4> QED
        BY <2>5, <3>3, <4>1
    <3> QED
      BY <3>1, <3>2, <3>3
  <2>8. RelayTypeOK'
    BY <1>2, <2>6, Handled DEF RelayInv, RelayTypeOK
  <2>9. ForwardedFirst'
    <3> SUFFICES ASSUME NEW w \in Sockets, NEW i \in 1..Len(outbox'[w])
                 PROVE  Older(outbox[w][i])'
      BY DEF ForwardedFirst
    <3>1. CASE i \in 1..Len(outbox[w]) /\ outbox'[w][i] = outbox[w][i]
      <4>1. outbox[w][i] \in Update /\ Older(outbox[w][i])
        BY <3>1, Boxes DEF RelayInv, ForwardedFirst
      <4> QED
        BY <3>1, <4>1, StaysOlder DEF Older
    <3>2. CASE outbox'[w][i] = m
      <4>1. ASSUME NEW j \in 1..Len(inbox'[x]), inbox'[x][j] \in Update
            PROVE  m.number < inbox'[x][j].number
        <5>1. /\ 1 \in 1..Len(inbox[x]) /\ j + 1 \in 1..Len(inbox[x]) /\ j \in Nat \ {0}
              /\ inbox'[x][j] = inbox[x][j + 1]
          BY Handled
        <5>2. 1 < j + 1
          BY <5>1
        <5> QED
          BY <1>1, <4>1, <5>1, <5>2 DEF RelayInv, SentInOrder
      <4> QED
        BY <1>1, <1>2, <3>2, <4>1 DEF Older
    <3> QED
      BY <2>7, <3>1, <3>2
  <2>10. ForwardedInOrder'
    <3> SUFFICES ASSUME NEW w \in Sockets,
                        NEW i \in 1..Len(outbox'[w]), NEW j \in 1..Len(outbox'[w]),
                        i < j, outbox'[w][i].from = outbox'[w][j].from
                 PROVE  outbox'[w][i].number < outbox'[w][j].number
      BY DEF ForwardedInOrder
    <3>1. CASE j \in 1..Len(outbox[w]) /\ outbox'[w][j] = outbox[w][j]
      <4>1. i \in 1..Len(outbox[w])
        BY <3>1
      <4>2. outbox'[w][i] = outbox[w][i]
        BY <2>5, <2>7, <4>1
      <4> QED
        BY <3>1, <4>1, <4>2 DEF RelayInv, ForwardedInOrder
    <3>2. CASE w = p /\ outbox'[w][j] = m /\ j = Len(outbox[p]) + 1
      <4>1. i \in 1..Len(outbox[w]) /\ outbox'[w][i] = outbox[w][i]
        <5>1. i # Len(outbox[p]) + 1
          BY <2>5, <3>2
        <5> QED
          BY <2>7, <5>1
      <4>2. Older(outbox[w][i]) /\ outbox[w][i].from = x
        BY <1>1, <3>2, <4>1 DEF RelayInv, ForwardedFirst
      <4>3. 1 \in 1..Len(inbox[x])
        BY Handled
      <4> QED
        BY <1>1, <3>2, <4>1, <4>2, <4>3 DEF Older
    <3> QED
      BY <2>7, <3>1, <3>2
  <2>11. OnlyCounterparty'
    <3> SUFFICES ASSUME NEW w \in Sockets, NEW i \in 1..Len(outbox'[w])
                 PROVE  LET as == outbox'[w][i].as
                        IN  as # Null /\ Join(as.session, Peer(as.role)) \in Asked(w)
      BY <1>2 DEF OnlyCounterparty, Asked
    <3>1. CASE i \in 1..Len(outbox[w]) /\ outbox'[w][i] = outbox[w][i]
      BY <3>1 DEF RelayInv, OnlyCounterparty
    <3>2. CASE w = p /\ outbox'[w][i] = m
      BY <1>1, <2>1, <2>4, <3>2
    <3> QED
      BY <2>7, <3>1, <3>2
  <2> QED
    BY <1>3, <1>4, <1>5, <2>8, <2>9, <2>10, <2>11, Handled DEF RelayInv
<1> QED
  BY <1>6, <1>7

\* A close handler changes no box and no join.
LEMMA ClosedKeeps ==
    ASSUME RelayInv, NEW x \in Sockets, connection[x] = "closed", inbox[x] = <<>>,
           gone' = gone \cup {x}, UNCHANGED <<connection, inbox, outbox, joined, sent, asked>>,
           RelayTypeOK', RegisteredIsLive'
    PROVE  RelayInv'
<1>1. Lifetimes'
  BY DEF RelayInv, Lifetimes
<1>2. InboxesTrue' /\ LastTold' /\ JoinedAsked' /\ SentInOrder' /\ ForwardedFirst'
  BY DEF RelayInv, InboxesTrue, LastTold, JoinedAsked, Told, Says, Speaks, Asked,
     SentInOrder, ForwardedFirst, Older
<1>3. ForwardedInOrder' /\ OnlyCounterparty'
  BY DEF RelayInv, ForwardedInOrder, OnlyCounterparty, Asked
<1> QED
  BY <1>1, <1>2, <1>3 DEF RelayInv

\* A close clears the role its socket joined in, and no other.
LEMMA OnCloseKeeps ==
    ASSUME RelayInv, NEW x \in Sockets, OnClose(x), UNCHANGED <<sent, asked>>
    PROVE  RelayInv'
<1> DEFINE t == joined[x].session
           f == [Channel(t) EXCEPT ![joined[x].role] = Null]
<1>1. /\ connection[x] = "closed" /\ inbox[x] = <<>> /\ gone' = gone \cup {x}
      /\ UNCHANGED <<connection, inbox, outbox, joined, sent, asked>>
  BY DEF OnClose
<1>2. CASE joined[x] = Null
  <2>1. channels' = channels
    BY <1>2 DEF OnClose
  <2>2. RelayTypeOK'
    BY <1>1, <2>1 DEF RelayInv, RelayTypeOK
  <2>3. RegisteredIsLive'
    <3> SUFFICES ASSUME NEW s \in SessionIds, NEW r \in Roles, Channel(s)[r] # Null
                 PROVE  /\ Join(s, r) \in Asked(Channel(s)[r])
                        /\ Channel(s)[r] \in gone' => joined[Channel(s)[r]] # Join(s, r)
      BY <1>1, <2>1 DEF RegisteredIsLive, Channel, Asked
    <3>1. /\ Join(s, r) \in Asked(Channel(s)[r])
          /\ Channel(s)[r] \in gone => joined[Channel(s)[r]] # Join(s, r)
      BY DEF RelayInv, RegisteredIsLive
    <3>2. Join(s, r) # Null
      BY RelayAssumption
    <3> QED
      BY <1>1, <1>2, <3>1, <3>2
  <2> QED
    BY <1>1, <2>2, <2>3, ClosedKeeps
<1>3. CASE joined[x] # Null
  <2>1. t \in SessionIds /\ joined[x].role \in Roles /\ joined[x] = Join(t, joined[x].role)
    <3>1. joined[x] \in JoinMessage
      BY <1>3 DEF RelayInv, RelayTypeOK
    <3> QED
      BY <3>1, JoinsAreJoins
  <2>2. channels' = [channels EXCEPT ![t] = f]
    BY <1>3 DEF OnClose
  <2>3. Channel(t) \in [Roles -> Sockets \cup {Null}]
    BY <2>1, ChannelType DEF RelayInv
  <2>4. /\ f \in [Roles -> Sockets \cup {Null}] /\ f[joined[x].role] = Null
        /\ \A r \in Roles : r # joined[x].role => f[r] = Channel(t)[r]
    BY <2>1, <2>3
  <2>5. /\ channels' \in [SessionIds -> [Roles -> Sockets \cup {Null}] \cup {Null}]
        /\ \A s \in SessionIds : Channel(s)' = IF s = t THEN f ELSE Channel(s)
    BY <2>1, <2>2, <2>4, Assigned DEF RelayInv
  <2>6. RelayTypeOK'
    BY <1>1, <2>5 DEF RelayInv, RelayTypeOK
  <2>7. RegisteredIsLive'
    <3> SUFFICES ASSUME NEW s \in SessionIds, NEW r \in Roles, Channel(s)'[r] # Null
                 PROVE  /\ Join(s, r) \in Asked(Channel(s)'[r])
                        /\ Channel(s)'[r] \in gone' => joined[Channel(s)'[r]] # Join(s, r)
      BY <1>1 DEF RegisteredIsLive, Asked
    <3>1. ~(s = t /\ r = joined[x].role) /\ Channel(s)'[r] = Channel(s)[r]
      BY <2>4, <2>5
    <3>2. /\ Join(s, r) \in Asked(Channel(s)[r])
          /\ Channel(s)[r] \in gone => joined[Channel(s)[r]] # Join(s, r)
      BY <3>1 DEF RelayInv, RegisteredIsLive
    <3>3. Join(s, r).session = s /\ Join(s, r).role = r
      BY JoinsAreJoins
    <3>4. joined[x] # Join(s, r)
      BY <3>1, <3>3
    <3> QED
      BY <1>1, <3>1, <3>2, <3>4
  <2> QED
    BY <1>1, <2>6, <2>7, ClosedKeeps
<1> QED
  BY <1>2, <1>3

-----------------------------------------------------------------------------
(***************************************************************************)
(* The invariant and what follows from it.                                 *)
(***************************************************************************)

\* Nothing has happened yet.
LEMMA InitHolds == Init => RelayInv
<1> SUFFICES ASSUME Init PROVE RelayInv
  OBVIOUS
<1>1. /\ \A w \in Sockets : /\ connection[w] = "new" /\ inbox[w] = <<>>
                            /\ outbox[w] = <<>> /\ joined[w] = Null
                            /\ asked[w] = <<>>
      /\ \A s \in SessionIds : channels[s] = Null
      /\ gone = {}
  BY DEF Init, RelayInit
<1>2. RelayTypeOK
  <2>1. <<>> \in Seq(Message) /\ <<>> \in Seq(Update) /\ <<>> \in Seq(JoinMessage)
    BY EmptySeq
  <2> QED
    BY <2>1 DEF Init, RelayInit, RelayTypeOK
<1>3. \A w \in Sockets : \A i \in 1..Len(inbox[w]) : FALSE
  BY <1>1, EmptySeq
<1>4. \A w \in Sockets : \A i \in 1..Len(outbox[w]) : FALSE
  BY <1>1, EmptySeq
<1>5. Lifetimes
  BY <1>1 DEF Lifetimes
<1>6. InboxesTrue /\ LastTold /\ JoinedAsked /\ SentInOrder
  BY <1>1, <1>3 DEF InboxesTrue, LastTold, JoinedAsked, SentInOrder
<1>7. ForwardedFirst /\ ForwardedInOrder /\ OnlyCounterparty
  BY <1>4 DEF ForwardedFirst, ForwardedInOrder, OnlyCounterparty
<1>8. RegisteredIsLive
  BY <1>1 DEF RegisteredIsLive, Channel
<1> QED
  BY <1>2, <1>5, <1>6, <1>7, <1>8 DEF RelayInv

\* No step of a client or of the relay leaves the invariant.
LEMMA NextKeeps == RelayInv /\ [Next]_vars => RelayInv'
<1> SUFFICES ASSUME RelayInv, [Next]_vars PROVE RelayInv'
  OBVIOUS
<1>1. CASE UNCHANGED vars
  <2>1. UNCHANGED <<connection, inbox, outbox, joined, channels, gone, sent, asked>>
    BY <1>1 DEF vars, relayVars, clientVars
  <2>2. RelayTypeOK' /\ Lifetimes' /\ SentInOrder' /\ ForwardedFirst' /\ ForwardedInOrder'
    BY <2>1 DEF RelayInv, RelayTypeOK, Lifetimes, SentInOrder, ForwardedFirst, Older,
       ForwardedInOrder
  <2>3. InboxesTrue' /\ LastTold'
    BY <2>1 DEF RelayInv, InboxesTrue, LastTold, Told, Says, Speaks, Asked
  <2>4. JoinedAsked' /\ OnlyCounterparty' /\ RegisteredIsLive'
    BY <2>1 DEF RelayInv, JoinedAsked, OnlyCounterparty, RegisteredIsLive, Channel, Asked
  <2> QED
    BY <2>2, <2>3, <2>4 DEF RelayInv
<1>2. ASSUME NEW ws \in Sockets, Client(ws) PROVE RelayInv'
  <2>1. ASSUME NEW lost \in 0..Len(inbox[ws]), Close(ws, lost), UNCHANGED clientVars
        PROVE  RelayInv'
    BY <2>1, CloseKeeps DEF clientVars
  <2>2. ASSUME Connect(ws), UNCHANGED clientVars PROVE RelayInv'
    BY <2>2, ConnectKeeps DEF clientVars
  <2> QED
    BY <1>2, <2>1, <2>2, SendJoinKeeps, SendKeeps DEF Client
<1>3. ASSUME NEW ws \in Sockets, OnMessage(ws), UNCHANGED clientVars PROVE RelayInv'
  BY <1>3, JoinKeeps, ForwardKeeps DEF clientVars
<1>4. ASSUME NEW ws \in Sockets, OnClose(ws), UNCHANGED clientVars PROVE RelayInv'
  BY <1>4, OnCloseKeeps DEF clientVars
<1> QED
  BY <1>1, <1>2, <1>3, <1>4 DEF Next

\* In every behaviour the relay's state is as RelayInv says: each update in an
\* inbox will find the relay taking its sender for what it spoke for, and what has
\* been forwarded is older than what is waiting.
THEOREM RelayInvariant == Spec => []RelayInv
  BY InitHolds, NextKeeps, PTL DEF Spec

\* relay.ts:14-24: whatever sockets join, join again, close and take a role over, a
\* socket is sent only what was sent by one that spoke for a session and a role,
\* and only if it has asked to be that role's peer in that session.
THEOREM OnlyFromCounterparty == Spec => []OnlyCounterparty
<1>1. RelayInv => OnlyCounterparty
  BY DEF RelayInv
<1> QED
  BY <1>1, RelayInvariant, PTL

\* relay.ts:21-24: the relay repeats no update and keeps each connection's order.
THEOREM ForwardsInOrder == Spec => []ForwardedInOrder
<1>1. RelayInv => ForwardedInOrder
  BY DEF RelayInv
<1> QED
  BY <1>1, RelayInvariant, PTL

\* relay.ts:14-30: a socket is registered only in roles it asked for, and once the
\* relay has seen it close, only in those it had gone on from: the close handler
\* clears the last role a socket asked for, whoever has taken it, and no other.
THEOREM NoDeadRegistration == Spec => []RegisteredIsLive
<1>1. RelayInv => RegisteredIsLive
  BY DEF RelayInv
<1> QED
  BY <1>1, RelayInvariant, PTL
=============================================================================
