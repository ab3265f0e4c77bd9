-------------------------------- MODULE Bus --------------------------------
(***************************************************************************)
(* The NATS subjects eventpix uses.  Both are core NATS: a message is      *)
(* handed, once, to a subscription that exists when it is published;       *)
(* nothing is stored for later, and Ack and Nak do nothing.  "new-photo"   *)
(* goes to one member of the queue group of thumbnailers, "new-thumbnail"  *)
(* to the server's own subscription.  Each subscription has a FIFO of its  *)
(* own, which is lost with the process that holds it.                      *)
(***************************************************************************)
EXTENDS Media

CONSTANT Workers     \* thumbnailer processes

VARIABLES
    subscribed,  \* the workers with a live queue subscription to "new-photo"
    inbox,       \* inbox[w]: delivered to w and not yet handled
    notices      \* thumbnail ids delivered on "new-thumbnail", not yet handled

busVars == <<subscribed, inbox, notices>>

NewMedia == [event : Events, file : Ids, video : BOOLEAN]

ASSUME BusAssumption == None \notin NewMedia

BusTypeOK ==
    /\ subscribed \subseteq Workers
    /\ inbox \in [Workers -> Seq(NewMedia)]
    /\ notices \in Seq(Ids)

BusInit ==
    /\ subscribed = {}
    /\ inbox = [w \in Workers |-> <<>>]
    /\ notices = <<>>

\* Mutant: Subscribe in place of QueueSubscribe.
DeliverToGroup_All(m) ==
    inbox' = [w \in Workers |-> IF w \in subscribed THEN Append(inbox[w], m) ELSE inbox[w]]

\* One subscribed member of the queue group gets the message.
DeliverToGroup(m) ==
    \E w \in subscribed : inbox' = [inbox EXCEPT ![w] = Append(@, m)]

\* nc.Publish("new-photo", m).  With nobody subscribed, or a connection lost,
\* the message is gone; the publisher only logs an error it can see.
PublishNewPhoto(m) ==
    /\ \/ DeliverToGroup(m)
       \/ (subscribed = {} \/ "nats" \in Faults) /\ UNCHANGED inbox
    /\ UNCHANGED <<subscribed, notices>>

\* nc.Publish("new-thumbnail", i); the subscriber is the server.
PublishNewThumbnail(i) ==
    /\ \/ serverUp /\ notices' = Append(notices, i)
       \/ (~serverUp \/ "nats" \in Faults) /\ UNCHANGED notices
    /\ UNCHANGED <<subscribed, inbox>>
=============================================================================
