----------------------------- MODULE SseBroker -----------------------------
(***************************************************************************)
(* The server-sent events of the galleries: the broker's Listen goroutine, *)
(* a ServeHTTP handler per open page, and the NATS callback that feeds the *)
(* Notifier channel.  newClients, closingClients and the message channel   *)
(* of each handler are unbuffered: a send and its receive are one step of  *)
(* both goroutines.  Notifier has room for one event.                      *)
(***************************************************************************)
EXTENDS Naturals, FiniteSets, Sequences

CONSTANTS
    Clients,     \* connections to /sse
    MaxEvents    \* thumbnails announced (bounds the model)

ASSUME BrokerAssumption == MaxEvents \in Nat

VARIABLES
    published,   \* events the callback has put into Notifier
    notifier,    \* Notifier, a FIFO with room for one
    clients,     \* the registry of the broker
    sending,     \* the event Listen is handing out, or 0
    pending,     \* the clients "range broker.clients" has still to come to
    handler,     \* handler[c]: where the handler of connection c is
    gone,        \* connections the browser has closed
    from,        \* ghost: published when c was registered
    got,         \* got[c]: the events handed to handler c
    skipped      \* skipped[c]: the events c lost to the patience of the broker

vars == <<published, notifier, clients, sending, pending, handler, gone, from, got, skipped>>

HandlerStates == {"closed", "registering", "checking", "receiving", "writing", "leaving"}

Init ==
    /\ published = 0
    /\ notifier = <<>>
    /\ clients = {}
    /\ sending = 0
    /\ pending = {}
    /\ handler = [c \in Clients |-> "closed"]
    /\ gone = {}
    /\ from = [c \in Clients |-> 0]
    /\ got = [c \in Clients |-> <<>>]
    /\ skipped = [c \in Clients |-> {}]

Move(c, pc) == handler' = [handler EXCEPT ![c] = pc]

-----------------------------------------------------------------------------
(* The NATS callback                                                       *)

\* Mutant: the send does not wait for room.
Notify_NoWait ==
    /\ published < MaxEvents
    /\ published' = published + 1
    /\ notifier' = Append(notifier, published')
    /\ UNCHANGED <<clients, sending, pending, handler, gone, from, got, skipped>>

\* broker.Notifier <- event, which blocks while the channel is full.
Notify ==
    /\ published < MaxEvents
    /\ notifier = <<>>
    /\ published' = published + 1
    /\ notifier' = <<published'>>
    /\ UNCHANGED <<clients, sending, pending, handler, gone, from, got, skipped>>

-----------------------------------------------------------------------------
(* Listen                                                                  *)

\* The broker is at its select.
AtSelect == sending = 0

\* Mutant: rounds in goroutines of their own, so that Listen is never away
\* from its select.
Register_MidRound(c) ==
    /\ handler[c] = "registering"
    /\ Move(c, "checking")
    /\ clients' = clients \cup {c}
    /\ from' = [from EXCEPT ![c] = published - Len(notifier)]
    /\ UNCHANGED <<published, notifier, sending, pending, gone, got, skipped>>

\* case s := <-broker.newClients, with the handler that sends.
Register(c) ==
    /\ AtSelect
    /\ handler[c] = "registering"
    /\ Move(c, "checking")
    /\ clients' = clients \cup {c}
    /\ from' = [from EXCEPT ![c] = published - Len(notifier)]
    /\ UNCHANGED <<published, notifier, sending, pending, gone, got, skipped>>

\* case s := <-broker.closingClients, with the handler that returns.
Unregister(c) ==
    /\ AtSelect
    /\ handler[c] = "leaving"
    /\ Move(c, "closed")
    /\ clients' = clients \ {c}
    /\ gone' = gone \ {c}
    /\ from' = [from EXCEPT ![c] = 0]
    /\ got' = [got EXCEPT ![c] = <<>>]
    /\ skipped' = [skipped EXCEPT ![c] = {}]
    /\ UNCHANGED <<published, notifier, sending, pending>>

\* case event := <-broker.Notifier.
Take ==
    /\ AtSelect
    /\ notifier # <<>>
    /\ sending' = Head(notifier)
    /\ notifier' = Tail(notifier)
    /\ pending' = clients
    /\ UNCHANGED <<published, clients, handler, gone, from, got, skipped>>

\* clientMessageChan <- event, to a handler that waits for one.
Hand(c) ==
    /\ c \in pending
    /\ handler[c] = "receiving"
    /\ Move(c, "writing")
    /\ got' = [got EXCEPT ![c] = Append(@, sending)]
    /\ pending' = pending \ {c}
    /\ UNCHANGED <<published, notifier, clients, sending, gone, from, skipped>>

\* Mutant: a slow client ends the round (a return in place of the log line).
Skip_Round(c) ==
    /\ c \in pending
    /\ handler[c] # "receiving"
    /\ skipped' = [skipped EXCEPT ![c] = @ \cup {sending}]
    /\ pending' = {}
    /\ UNCHANGED <<published, notifier, clients, sending, handler, gone, from, got>>

\* Mutant: no timer, the broker waits for the client.
Skip_Never(c) == FALSE /\ UNCHANGED vars

\* case <-time.After(patience): the handler has been busy for a second.
Skip(c) ==
    /\ c \in pending
    /\ handler[c] # "receiving"
    /\ skipped' = [skipped EXCEPT ![c] = @ \cup {sending}]
    /\ pending' = pending \ {c}
    /\ UNCHANGED <<published, notifier, clients, sending, handler, gone, from, got>>

RoundDone ==
    /\ sending # 0
    /\ pending = {}
    /\ sending' = 0
    /\ UNCHANGED <<published, notifier, clients, pending, handler, gone, from, got, skipped>>

Listen ==
    \/ \E c \in Clients : Register(c) \/ Unregister(c) \/ Hand(c) \/ Skip(c)
    \/ Take
    \/ RoundDone

-----------------------------------------------------------------------------
(* ServeHTTP and the browser                                               *)

Connect(c) ==
    /\ handler[c] = "closed"
    /\ Move(c, "registering")
    /\ UNCHANGED <<published, notifier, clients, sending, pending, gone, from, got, skipped>>

\* The browser closes the page or loses the connection.
Disconnect(c) ==
    /\ handler[c] # "closed"
    /\ gone' = gone \cup {c}
    /\ UNCHANGED <<published, notifier, clients, sending, pending, handler, from, got, skipped>>

\* Mutant: the page that has gone is noticed, and the handler returns without
\* telling the broker.
CheckGone_NoDefer(c) ==
    /\ handler[c] = "checking"
    /\ Move(c, IF c \in gone THEN "closed" ELSE "receiving")
    /\ UNCHANGED <<published, notifier, clients, sending, pending, gone, from, got, skipped>>

\* Mutant: the stream never looks for a closed connection.
CheckGone_Never(c) ==
    /\ handler[c] = "checking"
    /\ Move(c, "receiving")
    /\ UNCHANGED <<published, notifier, clients, sending, pending, gone, from, got, skipped>>

\* gin's Stream looks for a closed connection between two events only.
CheckGone(c) ==
    /\ handler[c] = "checking"
    /\ Move(c, IF c \in gone THEN "leaving" ELSE "receiving")
    /\ UNCHANGED <<published, notifier, clients, sending, pending, gone, from, got, skipped>>

Written(c) ==
    /\ handler[c] = "writing"
    /\ Move(c, "checking")
    /\ UNCHANGED <<published, notifier, clients, sending, pending, gone, from, got, skipped>>

Serve(c) == CheckGone(c) \/ Written(c)

Next ==
    \/ Notify
    \/ Listen
    \/ \E c \in Clients : Connect(c) \/ Disconnect(c) \/ Serve(c)

Spec == Init /\ [][Next]_vars

\* Listen and the handlers run when they can; select picks at random among
\* the channels that are ready, so none of its cases is passed over for ever;
\* a write to a page ends (TCP gives up in the end).  Nobody has to upload, to
\* open a page or to close one.
Fairness ==
    /\ SF_vars(Take)
    /\ WF_vars(RoundDone)
    /\ \A c \in Clients :
          /\ SF_vars(Register(c))
          /\ SF_vars(Unregister(c))
          /\ WF_vars(Hand(c) \/ Skip(c))
          /\ WF_vars(Serve(c))

FairSpec == Spec /\ Fairness

-----------------------------------------------------------------------------
(* Properties *)

BrokerTypeOK ==
    /\ published \in 0..MaxEvents
    /\ notifier \in Seq(1..MaxEvents) /\ Len(notifier) <= 1
    /\ clients \subseteq Clients
    /\ sending \in 0..MaxEvents
    /\ pending \subseteq clients
    /\ handler \in [Clients -> HandlerStates]
    /\ gone \subseteq Clients
    /\ from \in [Clients -> 0..MaxEvents]
    /\ got \in [Clients -> Seq(1..MaxEvents)]
    /\ skipped \in [Clients -> SUBSET (1..MaxEvents)]

\* The registry holds the handlers that are between their two messages to the
\* broker, and no other: nothing is sent to a channel nobody will ever read
\* again (ServeHTTP's deferred function, Listen's first two cases).
RegistryIsExact ==
    clients = {c \in Clients : handler[c] \notin {"closed", "registering"}}

\* Events whose round is over, for client c.
Rounds == IF sending = 0 THEN published - Len(notifier) ELSE sending - 1
Settled(c) == Rounds + IF sending # 0 /\ c \notin pending THEN 1 ELSE 0

\* A page is sent every event announced since it was registered, once and in
\* order, but for those it was too slow for.
EveryEventAccountedFor ==
    \A c \in clients :
        /\ {got[c][k] : k \in 1..Len(got[c])} \cup skipped[c] = (from[c] + 1)..Settled(c)
        /\ \A k \in 1..Len(got[c]) : got[c][k] \notin skipped[c]
        /\ \A j, k \in 1..Len(got[c]) : j < k => got[c][j] < got[c][k]

F == INSTANCE Feed WITH
        announced <- published,
        listening <- clients,
        place <- [c \in Clients |-> IF c \in clients THEN Settled(c) ELSE 0],
        received <- got

\* The broker is a Feed: no page gets an event twice, out of turn or instead of
\* another page, nobody runs ahead of the round or leaves in its middle, and
\* the NATS callback waits for the slowest page (Listen, ServeHTTP, Notifier).
ImplementsFeed == F!FeedSpec

\* No page, slow or gone, keeps the broker from the next announcement: the
\* callback never blocks for ever.
EventsGetThrough == \A n \in 1..MaxEvents : published >= n ~> Rounds >= n
=============================================================================
