-------------------------- MODULE DeliveryContract --------------------------
(***************************************************************************)
(* What the delivery of mails promises, said without the requests, the     *)
(* workers and their calls: every order to send a mail ends in one that    *)
(* the SMTP server accepted and whose mail says so, in one found cancelled,*)
(* or stays where somebody can see it; and no order is sent without end.   *)
(* MailDelivery is shown to implement it.                                  *)
(***************************************************************************)
EXTENDS Integers

CONSTANTS
    Mails,
    Orders,     \* orders to send a mail: the tasks of MailDelivery
    NoMail,     \* the mail of an order nobody has placed
    Limit       \* how often an order may be sent if nothing interrupts it

VARIABLES
    stage,      \* where each order is: "free" | "due" | "taken" (in hand) | "calledOff"
                \* (in hand, its mail found cancelled) | "parked" (given up, to be seen)
                \* | "closed" | "withdrawn"
    letter,     \* the mail it is about
    accepted,   \* how many messages the SMTP server accepted for it
    breaks,     \* how often a shutdown interrupted it
    recorded,   \* the mails that have their sent_at
    asked,      \* the mails somebody is cancelling
    cancelled   \* the mails that are cancelled now

cvars == <<stage, letter, accepted, breaks, recorded, asked, cancelled>>

CInit ==
    /\ stage = [t \in Orders |-> "free"]
    /\ letter = [t \in Orders |-> NoMail]
    /\ accepted = [t \in Orders |-> 0]
    /\ breaks = [t \in Orders |-> 0]
    /\ recorded = {} /\ asked = {} /\ cancelled = {}

Move(t, from, to) ==
    /\ stage[t] \in from
    /\ stage' = [stage EXCEPT ![t] = to]

Place(t, m) ==
    /\ Move(t, {"free"}, "due")
    /\ letter' = [letter EXCEPT ![t] = m]
    /\ UNCHANGED <<accepted, breaks, recorded, asked, cancelled>>

Take(t) ==
    /\ Move(t, {"due"}, "taken")
    /\ UNCHANGED <<letter, accepted, breaks, recorded, asked, cancelled>>

\* An order in hand goes back, whether it was tried or not, or is put aside.
PutBack(t) ==
    /\ Move(t, {"taken"}, "due")
    /\ UNCHANGED <<letter, accepted, breaks, recorded, asked, cancelled>>

Park(t) ==
    /\ Move(t, {"taken"}, "parked")
    /\ UNCHANGED <<letter, accepted, breaks, recorded, asked, cancelled>>

\* Only an interruption lets an order be sent once more than its limit.
Interrupt(t) ==
    /\ Move(t, {"taken", "calledOff"}, "due")
    /\ breaks' = [breaks EXCEPT ![t] = @ + 1]
    /\ UNCHANGED <<letter, accepted, recorded, asked, cancelled>>

Deliver(t) ==
    /\ stage[t] = "taken" /\ accepted[t] < Limit + breaks[t]
    /\ accepted' = [accepted EXCEPT ![t] = @ + 1]
    /\ UNCHANGED <<stage, letter, breaks, recorded, asked, cancelled>>

\* A mail says it was sent when it was, and never forgets it. The same write undoes a
\* cancellation that came too late.
Record(t) ==
    /\ stage[t] = "taken" /\ accepted[t] > 0
    /\ recorded' = recorded \cup {letter[t]}
    /\ cancelled' = cancelled \ {letter[t]}
    /\ UNCHANGED <<stage, letter, accepted, breaks, asked>>

\* An order is called off by whoever holds it, and only while its mail is cancelled; a
\* holder that dies takes this knowledge along.
CallOff(t) ==
    /\ Move(t, {"taken"}, "calledOff")
    /\ letter[t] \in cancelled
    /\ UNCHANGED <<letter, accepted, breaks, recorded, asked, cancelled>>

Forget(t) ==
    /\ Move(t, {"calledOff"}, "taken")
    /\ UNCHANGED <<letter, accepted, breaks, recorded, asked, cancelled>>

\* The only way to disappear for an order somebody holds.
Close(t) ==
    /\ Move(t, {"taken", "calledOff"}, "closed")
    /\ stage[t] = "taken" => accepted[t] > 0 /\ letter[t] \in recorded
    /\ UNCHANGED <<letter, accepted, breaks, recorded, asked, cancelled>>

\* And for one nobody holds: its own mail is being cancelled.
Withdraw(t) ==
    /\ Move(t, {"due", "parked"}, "withdrawn")
    /\ letter[t] \in asked
    /\ UNCHANGED <<letter, accepted, breaks, recorded, asked, cancelled>>

\* A mail is cancelled only by who asked for it; any other write to its row undoes that.
Ask(m) ==
    /\ asked' = asked \cup {m}
    /\ UNCHANGED <<stage, letter, accepted, breaks, recorded, cancelled>>

Drop(m) ==
    /\ asked' = asked \ {m}
    /\ UNCHANGED <<stage, letter, accepted, breaks, recorded, cancelled>>

Cancel(m) ==
    /\ m \in asked
    /\ asked' \in {asked, asked \ {m}}
    /\ cancelled' = cancelled \cup {m}
    /\ UNCHANGED <<stage, letter, accepted, breaks, recorded>>

Revive ==
    /\ cancelled' \subseteq cancelled
    /\ UNCHANGED <<stage, letter, accepted, breaks, recorded, asked>>

CNext ==
    \/ Revive
    \/ \E t \in Orders : \/ \E m \in Mails : Place(t, m)
                         \/ Take(t) \/ PutBack(t) \/ Park(t) \/ Interrupt(t)
                         \/ Deliver(t) \/ Record(t)
                         \/ CallOff(t) \/ Forget(t) \/ Close(t) \/ Withdraw(t)
    \/ \E m \in Mails : Ask(m) \/ Drop(m) \/ Cancel(m)

CSpec == CInit /\ [][CNext]_cvars
=============================================================================
