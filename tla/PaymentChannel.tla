--------------------------- MODULE PaymentChannel ---------------------------
(***************************************************************************)
(* What the settlement program promises to the two parties of a channel:   *)
(* a deposit is held until it has been split between them, by the amount   *)
(* of the newest payment that both signed and somebody showed in time.     *)
(*                                                                         *)
(* No accounts, assets, fees, nodes, configuration or units appear here:   *)
(* whatever the program does with them must look, to the parties, like a   *)
(* step of this module or like no step at all.                             *)
(***************************************************************************)
EXTENDS Integers

CONSTANTS
    Channels,      \* the names of the channels there may be
    Deposits,      \* the amounts that can be locked
    Payments,      \* the payments that can be signed
    Times,
    Null           \* a channel that has not been opened

VARIABLES
    chan,          \* the state of each channel
    signed,        \* the payments both parties have signed
    clock

Phases == {"Open", "Contested", "Over"}

\* held is what the channel really has in custody, the deposit or more; paid is
\* what has gone to the provider's side.  claim and deadline matter while the
\* channel is contested.
Channel == [phase: Phases, deposit: Nat, held: Int, paid: Nat, nonce: Nat,
            claim: Nat, expiry: Times, deadline: Times]

Init ==
    /\ chan = [c \in Channels |-> Null]
    /\ signed = {}
    /\ clock = 0

In(c, phase) == chan[c] # Null /\ chan[c].phase = phase

\* The parties lock the deposit, for a time.  Custody may hold more already.
Fund(c, deposit, expiry) ==
    /\ chan[c] = Null
    /\ expiry > clock
    /\ chan'[c].held >= deposit
    /\ chan' = [chan EXCEPT ![c] =
          [phase |-> "Open", deposit |-> deposit, held |-> chan'[c].held, paid |-> 0,
           nonce |-> 0, claim |-> 0, expiry |-> expiry, deadline |-> 0]]
    /\ UNCHANGED <<signed, clock>>

\* Somebody adds money that is neither party's.
Add(c) ==
    /\ chan[c] # Null /\ chan'[c] # Null
    /\ chan'[c].held > chan[c].held
    /\ chan' = [chan EXCEPT ![c].held = chan'[c].held]
    /\ UNCHANGED <<signed, clock>>

\* What is left in custody when all that is still owed has been paid out.
Emptied(c) == chan[c].held - (chan[c].deposit - chan[c].paid)

\* p can take the place of what channel c was last shown.
Newer(c, p) ==
    /\ p \in signed /\ p.channel = c
    /\ p.nonce > chan[c].nonce
    /\ p.owed \in chan[c].paid..chan[c].deposit

\* Part of the deposit goes to the provider and the channel stays open.
Pay(c, p) ==
    /\ In(c, "Open") /\ Newer(c, p)
    /\ chan' = [chan EXCEPT ![c] =
          [@ EXCEPT !.paid = p.owed, !.nonce = p.nonce,
                    !.held = chan[c].held - (p.owed - chan[c].paid)]]
    /\ UNCHANGED <<signed, clock>>

\* The deposit is split by p at once.
Settle(c, p) ==
    /\ In(c, "Open") /\ Newer(c, p)
    /\ chan' = [chan EXCEPT ![c] =
          [@ EXCEPT !.phase = "Over", !.paid = p.owed, !.nonce = p.nonce,
                    !.held = Emptied(c)]]
    /\ UNCHANGED <<signed, clock>>

\* One party asks for the split by p; the other has until the deadline.
Contest(c, p, deadline) ==
    /\ In(c, "Open") /\ Newer(c, p)
    /\ deadline > clock
    /\ chan' = [chan EXCEPT ![c] =
          [@ EXCEPT !.phase = "Contested", !.claim = p.owed, !.nonce = p.nonce,
                    !.deadline = deadline]]
    /\ UNCHANGED <<signed, clock>>

Answer(c, p) ==
    /\ In(c, "Contested") /\ clock <= chan[c].deadline /\ Newer(c, p)
    /\ chan' = [chan EXCEPT ![c] = [@ EXCEPT !.claim = p.owed, !.nonce = p.nonce]]
    /\ UNCHANGED <<signed, clock>>

\* The time to answer has passed and the claim stands.
Resolve(c) ==
    /\ In(c, "Contested") /\ clock > chan[c].deadline
    /\ chan' = [chan EXCEPT ![c] =
          [@ EXCEPT !.phase = "Over", !.paid = chan[c].claim, !.held = Emptied(c)]]
    /\ UNCHANGED <<signed, clock>>

\* What was not paid goes back: at any time if no payment was ever shown, and
\* otherwise when the channel has expired.
GiveBack(c) ==
    /\ In(c, "Open")
    /\ chan[c].nonce = 0 \/ clock > chan[c].expiry
    /\ chan' = [chan EXCEPT ![c] = [@ EXCEPT !.phase = "Over", !.held = Emptied(c)]]
    /\ UNCHANGED <<signed, clock>>

Sign(p) ==
    /\ signed' = signed \cup {p}
    /\ UNCHANGED <<chan, clock>>

Pass ==
    /\ clock' = clock + 1
    /\ UNCHANGED <<chan, signed>>

ChannelStep(c) ==
    \/ \E deposit \in Deposits, expiry \in Times : Fund(c, deposit, expiry)
    \/ \E p \in signed :
          \/ Pay(c, p) \/ Settle(c, p) \/ Answer(c, p)
          \/ \E deadline \in Times : Contest(c, p, deadline)
    \/ Resolve(c)
    \/ GiveBack(c)
    \/ Add(c)

\* A step that leaves c as it was is no step of c.
Next ==
    \/ \E c \in Channels : chan'[c] # chan[c] /\ ChannelStep(c)
    \/ \E p \in Payments : Sign(p)
    \/ Pass

Spec == Init /\ [][Next]_<<chan, signed, clock>>
=============================================================================
