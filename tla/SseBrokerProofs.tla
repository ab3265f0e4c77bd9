-------------------------- MODULE SseBrokerProofs --------------------------
(***************************************************************************)
(* Theorems about SseBroker, for any set of connections and any number of  *)
(* announcements.                                                          *)
(***************************************************************************)
EXTENDS SseBroker, TLAPS

-----------------------------------------------------------------------------
(* The inductive invariant                                                 *)

\* Notifier holds the latest announcement or nothing, and the one being handed
\* out is the latest that was taken from it.
Numbered ==
    /\ \/ notifier = <<>>
       \/ published > 0 /\ notifier = <<published>>
    /\ sending # 0 => sending = published - Len(notifier)
    /\ sending = 0 => pending = {}

\* A connection that is not registered owes nothing to an earlier one.
Unused == \A c \in Clients \ clients : got[c] = <<>> /\ skipped[c] = {}

\* EveryEventAccountedFor for one client, who has g, was passed over for s, was
\* registered after f events and has been come to for n.
Accounts(g, s, f, n) ==
    /\ f <= n
    /\ {g[k] : k \in 1..Len(g)} \cup s = (f + 1)..n
    /\ \A k \in 1..Len(g) : g[k] \notin s
    /\ \A j, k \in 1..Len(g) : j < k => g[j] < g[k]

Accounted == \A c \in clients : Accounts(got[c], skipped[c], from[c], Settled(c))

BrokerInv == BrokerTypeOK /\ RegistryIsExact /\ Numbered /\ Unused /\ Accounted

-----------------------------------------------------------------------------
(* Accounts                                                                *)

\* Handing out the next event keeps the account.
LEMMA HandKeepsAccount ==
    ASSUME NEW g \in Seq(Nat), NEW s \in SUBSET Nat, NEW f \in Nat, NEW n \in Nat,
           Accounts(g, s, f, n)
    PROVE  Accounts(Append(g, n + 1), s, f, n + 1)
<1> DEFINE h == Append(g, n + 1)
<1>1. /\ h \in Seq(Nat) /\ Len(h) = Len(g) + 1 /\ Len(g) \in Nat
      /\ \A k \in 1..Len(g) : h[k] = g[k] /\ g[k] \in Nat
      /\ h[Len(g) + 1] = n + 1
  OBVIOUS
<1>2. \A k \in 1..Len(g) : g[k] <= n
  BY <1>1 DEF Accounts
<1>3. \A x \in s : x <= n
  BY DEF Accounts
<1> HIDE DEF h
<1>4. {h[k] : k \in 1..Len(h)} = {g[k] : k \in 1..Len(g)} \cup {n + 1}
  <2>1. 1..Len(h) = 1..Len(g) \cup {Len(g) + 1}
    BY <1>1
  <2> QED
    BY <1>1, <2>1
<1>5. (f + 1)..(n + 1) = (f + 1)..n \cup {n + 1}
  <2>1. f <= n
    BY DEF Accounts
  <2> QED
    BY <2>1
<1>6. {h[k] : k \in 1..Len(h)} \cup s = (f + 1)..(n + 1)
  BY <1>4, <1>5 DEF Accounts
<1>7. \A k \in 1..Len(h) : h[k] \notin s
  <2> TAKE k \in 1..Len(h)
  <2>1. CASE k \in 1..Len(g)
    BY <1>1, <2>1 DEF Accounts
  <2>2. CASE k = Len(g) + 1
    BY <1>1, <1>3, <2>2
  <2> QED
    BY <1>1, <2>1, <2>2
<1>8. \A j, k \in 1..Len(h) : j < k => h[j] < h[k]
  <2> TAKE j, k \in 1..Len(h)
  <2> HAVE j < k
  <2>1. j \in 1..Len(g)
    BY <1>1
  <2>2. CASE k \in 1..Len(g)
    <3>1. g[j] < g[k]
      BY <2>1, <2>2 DEF Accounts
    <3> QED
      BY <1>1, <2>1, <2>2, <3>1
  <2>3. CASE k = Len(g) + 1
    <3>1. h[j] \in Nat /\ h[j] <= n
      BY <1>1, <1>2, <2>1
    <3>2. h[k] = n + 1
      BY <1>1, <2>3
    <3> QED
      BY <3>1, <3>2
  <2>4. k \in Nat /\ 1 <= k /\ k <= Len(g) + 1 /\ Len(g) \in Nat
    BY <1>1
  <2>5. k \in 1..Len(g) \/ k = Len(g) + 1
    BY <2>4
  <2> QED
    BY <2>2, <2>3, <2>5
<1> QED
  BY SMTT(30), <1>6, <1>7, <1>8 DEF Accounts, h

\* So does passing the client over.
LEMMA SkipKeepsAccount ==
    ASSUME NEW g \in Seq(Nat), NEW s \in SUBSET Nat, NEW f \in Nat, NEW n \in Nat,
           Accounts(g, s, f, n)
    PROVE  Accounts(g, s \cup {n + 1}, f, n + 1)
<1>1. Len(g) \in Nat /\ \A k \in 1..Len(g) : g[k] \in Nat
  OBVIOUS
<1>2. \A k \in 1..Len(g) : g[k] <= n
  BY <1>1 DEF Accounts
<1>3. (f + 1)..(n + 1) = (f + 1)..n \cup {n + 1}
  <2>1. f <= n
    BY DEF Accounts
  <2> QED
    BY <2>1
<1>4. {g[k] : k \in 1..Len(g)} \cup (s \cup {n + 1}) = (f + 1)..(n + 1)
  BY <1>3 DEF Accounts
<1>5. \A k \in 1..Len(g) : g[k] \notin s \cup {n + 1}
  BY <1>1, <1>2 DEF Accounts
<1> QED
  BY <1>4, <1>5 DEF Accounts

\* A client starts with nothing.
LEMMA NewAccount ==
    ASSUME NEW n \in Nat
    PROVE  Accounts(<<>>, {}, n, n)
<1>1. Len(<<>>) = 0 /\ 1..0 = {}
  OBVIOUS
<1>2. (n + 1)..n = {}
  OBVIOUS
<1> QED
  BY <1>1, <1>2 DEF Accounts

-----------------------------------------------------------------------------
(* Initially                                                               *)

LEMMA BrokerInit == Init => BrokerInv
<1> SUFFICES ASSUME Init PROVE BrokerInv
  OBVIOUS
<1>1. BrokerTypeOK
  BY BrokerAssumption DEF Init, BrokerTypeOK, HandlerStates
<1>2. RegistryIsExact
  BY DEF Init, RegistryIsExact
<1>3. Numbered /\ Unused
  BY DEF Init, Numbered, Unused
<1>4. Accounted
  BY DEF Init, Accounted
<1> QED
  BY <1>1, <1>2, <1>3, <1>4 DEF BrokerInv

-----------------------------------------------------------------------------
(* Steps                                                                   *)

\* What is known of the numbers of a client that is registered.
LEMMA Numbers ==
    ASSUME BrokerInv
    PROVE  /\ Len(notifier) \in {0, 1} /\ Len(notifier) <= published
           /\ sending # 0 => sending = published - Len(notifier)
           /\ Rounds \in Nat /\ published - Len(notifier) \in Nat
           /\ sending # 0 => Rounds = sending - 1
           /\ sending = 0 => Rounds = published - Len(notifier)
<1>1. published \in Nat /\ sending \in Nat
  BY BrokerAssumption DEF BrokerInv, BrokerTypeOK
<1>2. Len(notifier) \in {0, 1} /\ Len(notifier) <= published
  <2>1. CASE notifier = <<>>
    BY <1>1, <2>1
  <2>2. CASE published > 0 /\ notifier = <<published>>
    <3>1. Len(notifier) = 1
      BY <2>2
    <3> QED
      BY <1>1, <2>2, <3>1
  <2> QED
    BY <2>1, <2>2 DEF BrokerInv, Numbered
<1> QED
  BY <1>1, <1>2 DEF BrokerInv, Numbered, Rounds

\* A client's account is one of naturals, up to a natural it does not begin after.
LEMMA AccountTypes ==
    ASSUME BrokerInv, NEW c \in clients
    PROVE  /\ c \in Clients /\ got[c] \in Seq(Nat) /\ skipped[c] \in SUBSET Nat
           /\ from[c] \in Nat /\ Settled(c) \in Nat
           /\ Accounts(got[c], skipped[c], from[c], Settled(c))
<1>1. c \in Clients /\ from[c] \in Nat
  BY BrokerAssumption DEF BrokerInv, BrokerTypeOK
<1>2. got[c] \in Seq(1..MaxEvents) /\ skipped[c] \in SUBSET (1..MaxEvents)
  BY <1>1 DEF BrokerInv, BrokerTypeOK
<1>3. got[c] \in Seq(Nat) /\ skipped[c] \in SUBSET Nat
  BY <1>2, BrokerAssumption
<1>4. Settled(c) \in Nat
  BY Numbers DEF Settled
<1> QED
  BY <1>1, <1>3, <1>4 DEF BrokerInv, Accounted

LEMMA TypeNext == BrokerTypeOK /\ RegistryIsExact /\ Numbered /\ [Next]_vars => BrokerTypeOK'
<1> SUFFICES ASSUME BrokerTypeOK, RegistryIsExact, Numbered, [Next]_vars PROVE BrokerTypeOK'
  OBVIOUS
<1> USE BrokerAssumption
<1>0. /\ published \in Nat /\ sending \in Nat
      /\ notifier \in Seq(1..MaxEvents)
      /\ handler \in [Clients -> HandlerStates]
  BY DEF BrokerTypeOK
<1>1. CASE Notify
  <2>1. published' \in 1..MaxEvents /\ notifier' = <<published'>>
    BY <1>0, <1>1 DEF Notify
  <2>2. notifier' \in Seq(1..MaxEvents) /\ Len(notifier') <= 1
    BY <2>1
  <2> QED
    BY <1>1, <2>1, <2>2 DEF Notify, BrokerTypeOK
<1>2. ASSUME NEW c \in Clients, Register(c) PROVE BrokerTypeOK'
  <2>1. published - Len(notifier) \in 0..MaxEvents
    BY <1>0 DEF BrokerTypeOK, Numbered
  <2> QED
    BY <1>2, <2>1 DEF Register, Move, BrokerTypeOK, HandlerStates
<1>3. ASSUME NEW c \in Clients, Unregister(c) PROVE BrokerTypeOK'
  <2>1. pending = {}
    BY <1>3 DEF Unregister, AtSelect, Numbered
  <2>2. <<>> \in Seq(1..MaxEvents)
    OBVIOUS
  <2> QED
    BY <1>3, <2>1, <2>2 DEF Unregister, Move, BrokerTypeOK, HandlerStates
<1>4. CASE Take
  <2>1. notifier = <<published>> /\ published \in 1..MaxEvents
    BY <1>4 DEF Take, Numbered, BrokerTypeOK
  <2>2. sending' = published /\ notifier' = <<>>
    BY <1>4, <2>1 DEF Take
  <2>3. <<>> \in Seq(1..MaxEvents) /\ Len(<<>>) = 0
    OBVIOUS
  <2> QED
    BY <1>4, <2>1, <2>2, <2>3 DEF Take, BrokerTypeOK
<1>5. ASSUME NEW c \in Clients, Hand(c) PROVE BrokerTypeOK'
  <2>1. sending \in 1..MaxEvents
    BY <1>5 DEF Hand, Numbered, BrokerTypeOK
  <2>2. Append(got[c], sending) \in Seq(1..MaxEvents)
    BY <2>1 DEF BrokerTypeOK
  <2>3. got' \in [Clients -> Seq(1..MaxEvents)]
    BY <1>5, <2>2 DEF Hand, BrokerTypeOK
  <2> QED
    BY <1>5, <2>3 DEF Hand, Move, BrokerTypeOK, HandlerStates
<1>6. ASSUME NEW c \in Clients, Skip(c) PROVE BrokerTypeOK'
  <2>1. sending \in 1..MaxEvents
    BY <1>6 DEF Skip, Numbered, BrokerTypeOK
  <2>2. skipped' \in [Clients -> SUBSET (1..MaxEvents)]
    BY <1>6, <2>1 DEF Skip, BrokerTypeOK
  <2> QED
    BY <1>6, <2>2 DEF Skip, BrokerTypeOK
<1>7. CASE RoundDone
  BY <1>7 DEF RoundDone, BrokerTypeOK
<1>8. ASSUME NEW c \in Clients, Connect(c) \/ Disconnect(c) \/ Serve(c) PROVE BrokerTypeOK'
  BY <1>8 DEF Connect, Disconnect, Serve, CheckGone, Written, Move, BrokerTypeOK, HandlerStates
<1>9. CASE UNCHANGED vars
  BY <1>9 DEF vars, BrokerTypeOK
<1> QED
  BY <1>1, <1>2, <1>3, <1>4, <1>5, <1>6, <1>7, <1>8, <1>9 DEF Next, Listen

LEMMA RegistryNext == BrokerTypeOK /\ RegistryIsExact /\ [Next]_vars => RegistryIsExact'
<1> SUFFICES ASSUME BrokerTypeOK, RegistryIsExact, [Next]_vars PROVE RegistryIsExact'
  OBVIOUS
<1>0. handler \in [Clients -> HandlerStates] /\ clients \subseteq Clients
  BY DEF BrokerTypeOK
<1>1. CASE Notify \/ Take \/ RoundDone
  BY <1>1 DEF Notify, Take, RoundDone, RegistryIsExact
<1>2. ASSUME NEW c \in Clients, Register(c) PROVE RegistryIsExact'
  BY <1>0, <1>2 DEF Register, Move, RegistryIsExact
<1>3. ASSUME NEW c \in Clients, Unregister(c) PROVE RegistryIsExact'
  BY <1>0, <1>3 DEF Unregister, Move, RegistryIsExact
<1>4. ASSUME NEW c \in Clients, Hand(c) PROVE RegistryIsExact'
  BY <1>0, <1>4 DEF Hand, Move, RegistryIsExact
<1>5. ASSUME NEW c \in Clients, Skip(c) \/ Disconnect(c) PROVE RegistryIsExact'
  BY <1>5 DEF Skip, Disconnect, RegistryIsExact
<1>6. ASSUME NEW c \in Clients, Connect(c) PROVE RegistryIsExact'
  BY <1>0, <1>6 DEF Connect, Move, RegistryIsExact
<1>7. ASSUME NEW c \in Clients, Serve(c) PROVE RegistryIsExact'
  BY <1>0, <1>7 DEF Serve, CheckGone, Written, Move, RegistryIsExact
<1>8. CASE UNCHANGED vars
  BY <1>8 DEF vars, RegistryIsExact
<1> QED
  BY <1>1, <1>2, <1>3, <1>4, <1>5, <1>6, <1>7, <1>8 DEF Next, Listen

LEMMA NumberedNext == BrokerTypeOK /\ Numbered /\ Unused /\ [Next]_vars => Numbered' /\ Unused'
<1> SUFFICES ASSUME BrokerTypeOK, Numbered, Unused, [Next]_vars PROVE Numbered' /\ Unused'
  OBVIOUS
<1>0. /\ published \in Nat /\ sending \in Nat /\ pending \subseteq clients
      /\ got \in [Clients -> Seq(1..MaxEvents)] /\ skipped \in [Clients -> SUBSET (1..MaxEvents)]
  BY BrokerAssumption DEF BrokerTypeOK
<1>1. CASE Notify
  BY <1>0, <1>1 DEF Notify, Numbered, Unused
<1>2. ASSUME NEW c \in Clients, Register(c) PROVE Numbered' /\ Unused'
  BY <1>0, <1>2 DEF Register, Numbered, Unused
<1>3. ASSUME NEW c \in Clients, Unregister(c) PROVE Numbered' /\ Unused'
  BY <1>0, <1>3 DEF Unregister, Numbered, Unused
<1>4. CASE Take
  <2>1. notifier = <<published>> /\ published > 0
    BY <1>4 DEF Take, Numbered
  <2>2. sending' = published /\ notifier' = <<>> /\ Len(<<>>) = 0
    BY <1>4, <2>1 DEF Take
  <2> QED
    BY <1>0, <1>4, <2>1, <2>2 DEF Take, Numbered, Unused
<1>5. ASSUME NEW c \in Clients, Hand(c) PROVE Numbered' /\ Unused'
  <2>1. c \in clients /\ \A d \in Clients \ {c} : got'[d] = got[d]
    BY <1>0, <1>5 DEF Hand
  <2> QED
    BY <1>0, <1>5, <2>1 DEF Hand, Numbered, Unused
<1>6. ASSUME NEW c \in Clients, Skip(c) PROVE Numbered' /\ Unused'
  <2>1. c \in clients /\ \A d \in Clients \ {c} : skipped'[d] = skipped[d]
    BY <1>0, <1>6 DEF Skip
  <2> QED
    BY <1>0, <1>6, <2>1 DEF Skip, Numbered, Unused
<1>7. CASE RoundDone
  BY <1>0, <1>7 DEF RoundDone, Numbered, Unused
<1>8. ASSUME NEW c \in Clients, Connect(c) \/ Disconnect(c) \/ Serve(c) PROVE Numbered' /\ Unused'
  BY <1>8 DEF Connect, Disconnect, Serve, CheckGone, Written, Numbered, Unused
<1>9. CASE UNCHANGED vars
  BY <1>9 DEF vars, Numbered, Unused
<1> QED
  BY <1>1, <1>2, <1>3, <1>4, <1>5, <1>6, <1>7, <1>8, <1>9 DEF Next, Listen

LEMMA AccountedNext == BrokerInv /\ [Next]_vars => Accounted'
<1> SUFFICES ASSUME BrokerInv, [Next]_vars PROVE Accounted'
  OBVIOUS
<1>0. /\ published \in Nat /\ sending \in Nat /\ pending \subseteq clients /\ clients \subseteq Clients
      /\ got \in [Clients -> Seq(1..MaxEvents)] /\ skipped \in [Clients -> SUBSET (1..MaxEvents)]
      /\ from \in [Clients -> 0..MaxEvents]
      /\ Len(<<>>) = 0 /\ \A x : Len(<<x>>) = 1
  BY BrokerAssumption DEF BrokerInv, BrokerTypeOK
<1>a. ASSUME NEW c \in clients, got'[c] = got[c], skipped'[c] = skipped[c], from'[c] = from[c],
             Settled(c)' = Settled(c)
      PROVE  Accounts(got[c], skipped[c], from[c], Settled(c))'
  BY <1>a DEF BrokerInv, Accounted, Accounts
<1>1. CASE Notify
  <2>1. Rounds' = Rounds
    BY <1>0, <1>1, Numbers DEF Notify, Rounds
  <2>2. \A c \in clients : Settled(c)' = Settled(c)
    BY <1>1, <2>1 DEF Notify, Settled
  <2> QED
    BY <1>1, <1>a, <2>2 DEF Notify, Accounted
<1>2. ASSUME NEW c \in Clients, Register(c) PROVE Accounted'
  <2>1. /\ sending = 0 /\ sending' = 0 /\ published' = published /\ notifier' = notifier
        /\ pending' = pending
    BY <1>2 DEF Register, AtSelect
  <2>2. Rounds' = Rounds /\ Rounds = published - Len(notifier) /\ Rounds \in Nat
    BY <2>1, Numbers DEF Rounds
  <2>3. \A d \in Clients : Settled(d)' = Rounds /\ Settled(d) = Rounds
    BY <2>1, <2>2 DEF Settled
  <2>4. c \notin clients /\ got[c] = <<>> /\ skipped[c] = {}
    BY <1>2 DEF BrokerInv, RegistryIsExact, Unused, Register
  <2>5. ASSUME NEW d \in clients PROVE Accounts(got[d], skipped[d], from[d], Settled(d))'
    <3>1. from'[d] = from[d]
      BY <1>0, <1>2, <2>4 DEF Register
    <3> QED
      BY <1>0, <1>2, <1>a, <2>3, <3>1 DEF Register
  <2>6. Accounts(got[c], skipped[c], from[c], Settled(c))'
    <3>1. got'[c] = <<>> /\ skipped'[c] = {} /\ from'[c] = Rounds /\ Settled(c)' = Rounds
      BY <1>0, <1>2, <2>2, <2>3, <2>4 DEF Register
    <3>2. Accounts(<<>>, {}, Rounds, Rounds)
      BY <2>2, NewAccount
    <3> QED
      BY <3>1, <3>2 DEF Accounts
  <2> QED
    BY <1>2, <2>5, <2>6 DEF Register, Accounted
<1>3. ASSUME NEW c \in Clients, Unregister(c) PROVE Accounted'
  <2>1. \A d \in clients \ {c} : /\ got'[d] = got[d] /\ skipped'[d] = skipped[d] /\ from'[d] = from[d]
                                /\ Settled(d)' = Settled(d)
    BY <1>0, <1>3 DEF Unregister, Settled, Rounds
  <2> QED
    BY <1>3, <1>a, <2>1 DEF Unregister, Accounted
<1>4. CASE Take
  <2>1. sending = 0 /\ notifier = <<published>> /\ published > 0
    BY <1>4 DEF Take, AtSelect, BrokerInv, Numbered
  <2>2. sending' = published /\ notifier' = <<>> /\ pending' = clients /\ published' = published
    BY <1>4, <2>1 DEF Take
  <2>3. Rounds = published - 1 /\ Rounds' = published - 1 /\ sending' # 0
    BY <1>0, <2>1, <2>2 DEF Rounds
  <2>4. \A c \in clients : Settled(c)' = Settled(c)
    BY <2>1, <2>2, <2>3 DEF Settled
  <2> QED
    BY <1>4, <1>a, <2>4 DEF Take, Accounted
<1>5. ASSUME NEW c \in Clients, Hand(c) \/ Skip(c) PROVE Accounted'
  <2>1. c \in pending /\ c \in clients /\ sending # 0
    BY <1>0, <1>5 DEF Hand, Skip, BrokerInv, Numbered
  <2>2. /\ sending' = sending /\ published' = published /\ notifier' = notifier /\ from' = from
        /\ pending' = pending \ {c} /\ clients' = clients
    BY <1>5 DEF Hand, Skip
  <2>3. Rounds' = Rounds /\ Rounds = sending - 1 /\ Rounds \in Nat
    BY <2>1, <2>2, Numbers DEF Rounds
  <2>4. ASSUME NEW d \in clients \ {c} PROVE Accounts(got[d], skipped[d], from[d], Settled(d))'
    <3>1. got'[d] = got[d] /\ skipped'[d] = skipped[d] /\ from'[d] = from[d]
      BY <1>0, <1>5, <2>2 DEF Hand, Skip
    <3>2. Settled(d)' = Settled(d)
      BY <2>2, <2>3 DEF Settled
    <3> QED
      BY <1>a, <3>1, <3>2
  <2>5. Settled(c) = sending - 1 /\ Settled(c)' = sending - 1 + 1 /\ sending - 1 \in Nat /\ sending - 1 + 1 = sending
    BY <1>0, <2>1, <2>2, <2>3 DEF Settled
  <2>6. /\ got[c] \in Seq(Nat) /\ skipped[c] \in SUBSET Nat /\ from[c] \in Nat
        /\ Accounts(got[c], skipped[c], from[c], sending - 1)
    BY <2>1, <2>5, AccountTypes
  <2>7. CASE Hand(c)
    <3>1. got'[c] = Append(got[c], sending) /\ skipped'[c] = skipped[c]
      BY <1>0, <2>1, <2>7 DEF Hand
    <3>2. Accounts(Append(got[c], sending - 1 + 1), skipped[c], from[c], sending - 1 + 1)
      BY <2>5, <2>6, HandKeepsAccount
    <3>3. Accounts(got[c], skipped[c], from[c], Settled(c))'
      BY <2>2, <2>5, <3>1, <3>2 DEF Accounts
    <3> QED
      BY <2>2, <2>4, <3>3 DEF Accounted
  <2>8. CASE Skip(c)
    <3>1. skipped'[c] = skipped[c] \cup {sending} /\ got'[c] = got[c]
      BY <1>0, <2>1, <2>8 DEF Skip
    <3>2. Accounts(got[c], skipped[c] \cup {sending - 1 + 1}, from[c], sending - 1 + 1)
      BY <2>5, <2>6, SkipKeepsAccount
    <3>3. Accounts(got[c], skipped[c], from[c], Settled(c))'
      BY <2>2, <2>5, <3>1, <3>2 DEF Accounts
    <3> QED
      BY <2>2, <2>4, <3>3 DEF Accounted
  <2> QED
    BY <1>5, <2>7, <2>8
<1>6. CASE RoundDone
  <2>1. /\ sending # 0 /\ sending' = 0 /\ pending = {} /\ published' = published /\ notifier' = notifier
        /\ pending' = pending
    BY <1>6 DEF RoundDone
  <2>2. Rounds = sending - 1 /\ Rounds' = published - Len(notifier) /\ sending = published - Len(notifier)
    BY <2>1, Numbers DEF Rounds
  <2>3. \A c \in clients : Settled(c)' = Settled(c)
    BY <1>0, <2>1, <2>2, Numbers DEF Settled
  <2> QED
    BY <1>6, <1>a, <2>3 DEF RoundDone, Accounted
<1>7. ASSUME NEW c \in Clients, Connect(c) \/ Disconnect(c) \/ Serve(c) PROVE Accounted'
  <2>1. UNCHANGED <<published, notifier, clients, sending, pending, from, got, skipped>>
    BY <1>7 DEF Connect, Disconnect, Serve, CheckGone, Written
  <2> QED
    BY <2>1 DEF BrokerInv, Accounted, Accounts, Settled, Rounds
<1>8. CASE UNCHANGED vars
  BY <1>8 DEF vars, BrokerInv, Accounted, Accounts, Settled, Rounds
<1> QED
  BY <1>1, <1>2, <1>3, <1>4, <1>5, <1>6, <1>7, <1>8 DEF Next, Listen

-----------------------------------------------------------------------------
(* The broker as a Feed                                                    *)

\* The place of each client in the feed.
Places == [c \in Clients |-> IF c \in clients THEN Settled(c) ELSE 0]

\* Listeners are where the round has come to.
LEMMA PlacesAre ==
    ASSUME BrokerInv, NEW c \in clients
    PROVE  /\ c \in Clients /\ Places[c] = Settled(c)
           /\ c \in pending \/ sending = 0 => Settled(c) = Rounds
           /\ sending # 0 /\ c \notin pending => Settled(c) = sending
           /\ sending # 0 => Rounds = sending - 1
           /\ sending = 0 => c \notin pending
<1>1. c \in Clients
  BY DEF BrokerInv, BrokerTypeOK
<1>2. Rounds \in Nat /\ sending \in Nat
  BY Numbers, BrokerAssumption DEF BrokerInv, BrokerTypeOK
<1> QED
  BY <1>1, <1>2, Numbers DEF Places, Settled, BrokerInv, Numbered

\* A step that moves no client and announces nothing is none of the feed's.
LEMMA FeedStutters ==
    ASSUME UNCHANGED <<published, clients, got>>,
           \A c \in clients : Settled(c)' = Settled(c)
    PROVE  UNCHANGED <<published, clients, Places, got>>
BY DEF Places

LEMMA AnnounceIsFed == ASSUME BrokerInv, Notify PROVE F!Announce
<1>1. notifier = <<>> /\ published' = published + 1 /\ Len(<<>>) = 0
  BY DEF Notify
<1>2. published \in Nat /\ sending \in Nat
  BY BrokerAssumption DEF BrokerInv, BrokerTypeOK
<1>3. Rounds' = Rounds /\ published - Len(notifier) = published
  <2>1. Len(notifier') = 1
    BY DEF Notify
  <2> QED
    BY <1>1, <1>2, <2>1 DEF Notify, Rounds
<1>4. \A c \in clients : Settled(c)' = Settled(c)
  BY <1>3 DEF Notify, Settled
<1>5. Places' = Places /\ UNCHANGED <<clients, got>>
  BY <1>4 DEF Notify, Places
<1>6. ASSUME NEW c \in clients PROVE published <= Places[c] + 1
  <2>1. sending # 0 => sending = published
    BY <1>1, <1>3, Numbers
  <2> QED
    BY <1>2, <1>3, <2>1, PlacesAre, Numbers
<1> QED
  BY <1>1, <1>5, <1>6 DEF F!Announce, Places

LEMMA RegisterJoins == ASSUME BrokerInv, NEW c \in Clients, Register(c) PROVE F!Join(c)
<1>1. /\ sending = 0 /\ clients' = clients \cup {c}
      /\ UNCHANGED <<published, notifier, sending, pending, got>>
  BY DEF Register, AtSelect
<1>2. c \notin clients
  BY DEF Register, BrokerInv, RegistryIsExact
<1>3. published \in Nat /\ Rounds \in Nat /\ Rounds = published - Len(notifier) /\ Len(notifier) \in {0, 1}
  BY <1>1, Numbers, BrokerAssumption DEF BrokerInv, BrokerTypeOK
<1>4. Rounds \in 0..published /\ published <= Rounds + 1
  <2>1. ASSUME NEW n \in {0, 1}, NEW p \in Nat, p - n \in Nat
        PROVE  p - n \in 0..p /\ p <= p - n + 1
    BY <2>1
  <2> QED
    BY <1>3, <2>1
<1>5. \A d \in Clients : Settled(d) = Rounds /\ Settled(d)' = Rounds
  BY <1>1, <1>3 DEF Settled, Rounds
<1>6. \A d \in clients : Places[d] = Rounds
  BY <1>1, PlacesAre
<1>7. Places' = [Places EXCEPT ![c] = Rounds]
  BY <1>1, <1>5 DEF Places
<1> QED
  BY <1>1, <1>2, <1>4, <1>6, <1>7 DEF F!Join, Places

LEMMA HandingOffers == ASSUME BrokerInv, NEW c \in Clients, Hand(c) \/ Skip(c) PROVE F!Offer(c)
<1>1. /\ c \in pending /\ pending' = pending \ {c}
      /\ UNCHANGED <<published, notifier, clients, sending>>
  BY DEF Hand, Skip
<1>2. /\ c \in clients /\ pending \subseteq clients /\ clients \subseteq Clients /\ sending # 0
      /\ published \in Nat /\ sending \in Nat /\ got \in [Clients -> Seq(1..MaxEvents)]
  BY <1>1, BrokerAssumption DEF BrokerInv, BrokerTypeOK, Numbered
<1>3. Rounds' = Rounds /\ Rounds = sending - 1 /\ Rounds \in Nat
  BY <1>1, <1>2, Numbers DEF Rounds
<1>4. Places[c] = sending - 1 /\ sending = sending - 1 + 1 /\ sending <= published
  BY <1>1, <1>2, <1>3, PlacesAre, Numbers
<1>5. \A d \in clients : Places[c] <= Places[d]
  BY <1>2, <1>3, <1>4, PlacesAre
<1>6. Places' = [Places EXCEPT ![c] = @ + 1]
  <2>1. \A d \in clients \ {c} : Settled(d)' = Settled(d)
    BY <1>1, <1>3 DEF Settled
  <2>2. Settled(c)' = Places[c] + 1
    BY <1>1, <1>2, <1>3, <1>4 DEF Settled
  <2>3. \A d \in Clients : Places'[d] = IF d = c THEN Places[c] + 1 ELSE Places[d]
    BY <1>1, <1>2, <2>1, <2>2 DEF Places
  <2> QED
    BY <1>2, <2>3 DEF Places
<1>7. got' = [got EXCEPT ![c] = Append(@, Places[c] + 1)] \/ got' = got
  BY <1>2, <1>4 DEF Hand, Skip
<1>8. Places[c] < published
  BY <1>2, <1>4
<1> QED
  BY <1>1, <1>2, <1>5, <1>6, <1>7, <1>8 DEF F!Offer, Places

LEMMA UnregisterLeaves == ASSUME BrokerInv, NEW c \in Clients, Unregister(c) PROVE F!Leave(c)
<1>1. /\ sending = 0 /\ clients' = clients \ {c} /\ got' = [got EXCEPT ![c] = <<>>]
      /\ UNCHANGED <<published, notifier, sending, pending>>
  BY DEF Unregister, AtSelect
<1>2. c \in clients /\ clients \subseteq Clients
  BY DEF Unregister, BrokerInv, RegistryIsExact
<1>3. \A d \in clients : Places[d] = Places[c]
  BY <1>1, <1>2, PlacesAre
<1>4. \A d \in Clients : Settled(d)' = Settled(d)
  BY <1>1 DEF Settled, Rounds
<1>5. Places' = [Places EXCEPT ![c] = 0]
  BY <1>1, <1>2, <1>4 DEF Places
<1> QED
  BY <1>1, <1>2, <1>3, <1>5 DEF F!Leave, Places

LEMMA FeedStep ==
    ASSUME BrokerInv, [Next]_vars
    PROVE  F!FeedNext \/ UNCHANGED <<published, clients, Places, got>>
<1>0. published \in Nat /\ sending \in Nat /\ Len(<<>>) = 0
  BY BrokerAssumption DEF BrokerInv, BrokerTypeOK
<1>1. CASE Take
  <2>1. sending = 0 /\ notifier = <<published>> /\ published > 0
    BY <1>1 DEF Take, AtSelect, BrokerInv, Numbered
  <2>2. sending' = published /\ notifier' = <<>> /\ pending' = clients /\ published' = published
    BY <1>1, <2>1 DEF Take
  <2>3. Rounds = published - 1 /\ Rounds' = published - 1 /\ sending' # 0
    BY <1>0, <2>1, <2>2 DEF Rounds
  <2>4. \A c \in clients : Settled(c)' = Settled(c)
    BY <2>1, <2>2, <2>3 DEF Settled
  <2> QED
    BY <1>1, <2>4, FeedStutters DEF Take
<1>2. CASE RoundDone
  <2>1. /\ sending # 0 /\ sending' = 0 /\ pending = {} /\ published' = published /\ notifier' = notifier
        /\ pending' = pending
    BY <1>2 DEF RoundDone
  <2>2. Rounds = sending - 1 /\ Rounds' = published - Len(notifier) /\ sending = published - Len(notifier)
    BY <2>1, Numbers DEF Rounds
  <2>3. \A c \in clients : Settled(c)' = Settled(c)
    BY <1>0, <2>1, <2>2, Numbers DEF Settled
  <2> QED
    BY <1>2, <2>3, FeedStutters DEF RoundDone
<1>3. ASSUME NEW c \in Clients, Connect(c) \/ Disconnect(c) \/ Serve(c)
      PROVE  UNCHANGED <<published, clients, Places, got>>
  <2>1. UNCHANGED <<published, notifier, clients, sending, pending, got>>
    BY <1>3 DEF Connect, Disconnect, Serve, CheckGone, Written
  <2> QED
    BY <2>1, FeedStutters DEF Settled, Rounds
<1>4. CASE UNCHANGED vars
  BY <1>4, FeedStutters DEF vars, Settled, Rounds
<1> QED
  BY <1>1, <1>2, <1>3, <1>4, AnnounceIsFed, RegisterJoins, HandingOffers, UnregisterLeaves
  DEF Next, Listen, F!FeedNext

-----------------------------------------------------------------------------
(* Theorems                                                                *)

\* The invariant holds in every reachable state.
LEMMA BrokerInvariant == Spec => []BrokerInv
<1>1. Init => BrokerInv
  BY BrokerInit
<1>2. BrokerInv /\ [Next]_vars => BrokerInv'
  BY TypeNext, RegistryNext, NumberedNext, AccountedNext DEF BrokerInv
<1> QED
  BY <1>1, <1>2, PTL DEF Spec

\* The broker and its handlers are well-typed, Notifier never holds more than
\* one event, and Listen only comes to clients that are registered.
THEOREM BrokerTypeCorrect == Spec => []BrokerTypeOK
<1>1. BrokerInv => BrokerTypeOK
  BY DEF BrokerInv
<1> QED
  BY <1>1, BrokerInvariant, PTL

\* The registry of the broker is exact (newClients, closingClients and the
\* deferred function of ServeHTTP).
THEOREM RegistryAlwaysExact == Spec => []RegistryIsExact
<1>1. BrokerInv => RegistryIsExact
  BY DEF BrokerInv
<1> QED
  BY <1>1, BrokerInvariant, PTL

\* Every client is handed each event since it was registered once and in order,
\* or passed over for it (the round of Listen, patience).
THEOREM EventsAccountedFor == Spec => []EveryEventAccountedFor
<1>1. BrokerInv => EveryEventAccountedFor
  BY DEF BrokerInv, Accounted, Accounts, EveryEventAccountedFor
<1> QED
  BY <1>1, BrokerInvariant, PTL

\* Every page is offered each event from its registration on, one at a time, in
\* step with all others, and the NATS callback never runs more than two events
\* ahead of any (Listen, ServeHTTP, Notifier).
THEOREM BrokerIsAFeed == Spec => ImplementsFeed
<1>1. Init => F!FeedInit
  BY DEF Init, F!FeedInit
<1>2. BrokerInv /\ [Next]_vars => [F!FeedNext]_F!feedVars
  BY FeedStep DEF Places, F!feedVars
<1> QED
  BY <1>1, <1>2, BrokerInvariant, PTL DEF Spec, ImplementsFeed, F!FeedSpec
=============================================================================
