-------------------------------- MODULE Feed --------------------------------
(***************************************************************************)
(* What the stream promises the galleries, without channels: who listens   *)
(* is offered every event announced from then on, one after the other, and *)
(* takes it or loses it.  All listeners are at the same event or at the    *)
(* next, and the announcements are never more than two ahead of any.       *)
(***************************************************************************)
EXTENDS Naturals, Sequences

CONSTANT Clients

VARIABLES
    announced,   \* number of events announced
    listening,   \* clients that are offered events
    place,       \* place[c]: the last event c was offered, or missed by coming late
    received     \* received[c]: the events c took

feedVars == <<announced, listening, place, received>>

FeedInit ==
    /\ announced = 0
    /\ listening = {}
    /\ place = [c \in Clients |-> 0]
    /\ received = [c \in Clients |-> <<>>]

Announce ==
    /\ \A c \in listening : announced <= place[c] + 1
    /\ announced' = announced + 1
    /\ UNCHANGED <<listening, place, received>>

\* Whoever comes starts where the others are, with the event that waits if
\* there is one.
Join(c) ==
    /\ c \notin listening
    /\ listening' = listening \cup {c}
    /\ \E n \in 0..announced :
          /\ announced <= n + 1
          /\ \A d \in listening : place[d] = n
          /\ place' = [place EXCEPT ![c] = n]
    /\ UNCHANGED <<announced, received>>

Offer(c) ==
    /\ c \in listening
    /\ place[c] < announced
    /\ \A d \in listening : place[c] <= place[d]
    /\ place' = [place EXCEPT ![c] = @ + 1]
    /\ \/ received' = [received EXCEPT ![c] = Append(@, place[c] + 1)]
       \/ UNCHANGED received
    /\ UNCHANGED <<announced, listening>>

\* Nobody leaves in the middle of an event.
Leave(c) ==
    /\ c \in listening
    /\ \A d \in listening : place[d] = place[c]
    /\ listening' = listening \ {c}
    /\ place' = [place EXCEPT ![c] = 0]
    /\ received' = [received EXCEPT ![c] = <<>>]
    /\ UNCHANGED announced

FeedNext == Announce \/ \E c \in Clients : Join(c) \/ Offer(c) \/ Leave(c)

FeedSpec == FeedInit /\ [][FeedNext]_feedVars
=============================================================================
