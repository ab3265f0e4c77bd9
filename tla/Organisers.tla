----------------------------- MODULE Organisers -----------------------------
(***************************************************************************)
(* What organisers do once they are logged in: link and unlink Google      *)
(* Drive, create events on a storage and delete or open their own; and     *)
(* what a guest's request to an event does with the Drive token of its     *)
(* owner.  AuthRequired reads the user, with the token, when a request     *)
(* starts; the rest of the request works with that copy.                   *)
(***************************************************************************)
EXTENDS Accounts, EventForm

CONSTANTS
    TokenIds,    \* autoincrement ids of Drive tokens
    EventIds,    \* autoincrement ids of events
    Filled       \* forms organisers send

ASSUME OrganisersAssumption ==
    /\ TokenIds \subseteq Nat /\ None \notin TokenIds
    /\ \E last \in TokenIds : \A t \in TokenIds : t <= last    \* an id has 64 bits
    /\ EventIds \subseteq Nat /\ None \notin EventIds
    /\ Filled \subseteq Forms

VARIABLES
    tokens,      \* rows of google_drive_tokens
    events,      \* rows of events, with the form (ghost) each was made from
    request,     \* request[s]: the authenticated request in slot s
    unlinked     \* ghost: users whose Drive token has been deleted

vars == <<driver, users, signup, booted, cookie, overlapped, blind, headless,
          tokens, events, request, unlinked>>

Tokens == [status : {"unborn", "present", "deleted"}, user : UserIds \cup {None}]
NoToken == [status |-> "unborn", user |-> None]

\* The row each form becomes.
StoredRow == [form \in Filled |-> Stored(form)]

Events == [status : {"unborn", "present", "deleted"}, user : UserIds \cup {None},
           row : {StoredRow[form] : form \in Filled} \cup {None}, form : Filled \cup {None}]
NoEvent == [status |-> "unborn", user |-> None, row |-> None, form |-> None]

\* linked: whether a GoogleDriveToken was preloaded with the user.
OrganiserRequests == [pc : {"idle", "authenticated", "authorized"}, who : People \cup {None},
                      user : UserIds \cup {None}, linked : BOOLEAN,
                      event : EventIds \cup {None}]
NoRequest == [pc |-> "idle", who |-> None, user |-> None, linked |-> FALSE, event |-> None]

Init ==
    /\ AccountsInit
    /\ tokens = [t \in TokenIds |-> NoToken]
    /\ events = [e \in EventIds |-> NoEvent]
    /\ request = [s \in Requests |-> NoRequest]
    /\ unlinked = {}

-----------------------------------------------------------------------------
TokensOf(u) == {t \in TokenIds : tokens[t].status = "present" /\ tokens[t].user = u}

\* Preload of a has-one: the rows are read in the order of their ids, and the
\* last of them stays in the field.
GoogleDriveToken(u) ==
    IF TokensOf(u) = {} THEN None ELSE CHOOSE t \in TokensOf(u) : \A v \in TokensOf(u) : v <= t

\* The next autoincrement id of a table.
NextId(table, ids) ==
    {i \in ids : table[i].status = "unborn" /\ \A j \in ids : j < i => table[j].status # "unborn"}

Finished(s) == request' = [request EXCEPT ![s] = NoRequest]

-----------------------------------------------------------------------------
(* The middleware                                                          *)

\* Mutant: a request without a session goes on.
AuthRequired_NoSession(s, p) ==
    /\ Server \in booted
    /\ request[s].pc = "idle" /\ signup[s].pc = "idle"
    /\ LET u == GetUser(cookie[p]) IN
       request' = [request EXCEPT ![s] = [pc |-> "authenticated", who |-> p, user |-> u,
                                          linked |-> GoogleDriveToken(u) # None, event |-> None]]
    /\ UNCHANGED <<accountVars, tokens, events, unlinked>>

\* AuthRequired: the user of the cookie's name, token and all.
AuthRequired(s, p) ==
    /\ Server \in booted
    /\ request[s].pc = "idle" /\ signup[s].pc = "idle"
    /\ cookie[p] # None /\ GetUser(cookie[p]) # None
    /\ LET u == GetUser(cookie[p]) IN
       request' = [request EXCEPT ![s] = [pc |-> "authenticated", who |-> p, user |-> u,
                                          linked |-> GoogleDriveToken(u) # None, event |-> None]]
    /\ UNCHANGED <<accountVars, tokens, events, unlinked>>

\* Mutant: the owner is not part of the query.
UserAuthorizedForEvent_Anyone(s, e) ==
    /\ request[s].pc = "authenticated"
    /\ events[e].status = "present"
    /\ request' = [request EXCEPT ![s].pc = "authorized", ![s].linked = FALSE, ![s].event = e]
    /\ UNCHANGED <<accountVars, tokens, events, unlinked>>

\* UserAuthorizedForEvent lets the request through.
UserAuthorizedForEvent(s, e) ==
    /\ request[s].pc = "authenticated"
    /\ events[e].status = "present" /\ events[e].user = request[s].user
    /\ request' = [request EXCEPT ![s].pc = "authorized", ![s].linked = FALSE, ![s].event = e]
    /\ UNCHANGED <<accountVars, tokens, events, unlinked>>

\* 401 or 422, 204, or a statement that fails.
Refused(s) ==
    /\ request[s].pc # "idle"
    /\ Finished(s)
    /\ UNCHANGED <<accountVars, tokens, events, unlinked>>

-----------------------------------------------------------------------------
(* Handlers                                                                *)

Add(s, form) ==
    \E e \in NextId(events, EventIds) :
       events' = [events EXCEPT ![e] = [status |-> "present", user |-> request[s].user,
                                        row |-> StoredRow[form], form |-> form]]

\* Mutant: the user need not have linked Drive.
CreateEvent_Unlinked(s, form) ==
    /\ request[s].pc = "authenticated"
    /\ Add(s, form)
    /\ Finished(s)
    /\ UNCHANGED <<accountVars, tokens, unlinked>>

\* createEvent: for a Drive event the copy of the user must have a token.
CreateEvent(s, form) ==
    /\ request[s].pc = "authenticated"
    /\ StoredRow[form].kind = "googleDrive" => request[s].linked
    /\ Add(s, form)
    /\ Finished(s)
    /\ UNCHANGED <<accountVars, tokens, unlinked>>

\* deleteEvent.  (setEventLive is let through in the same way; what it writes
\* is in EventTable.)
DeleteEvent(s) ==
    /\ request[s].pc = "authorized"
    /\ events[request[s].event].status = "present"
    /\ events' = [events EXCEPT ![request[s].event] = [NoEvent EXCEPT !.status = "deleted"]]
    /\ Finished(s)
    /\ UNCHANGED <<accountVars, tokens, unlinked>>

\* handleGoogleRedirect: the code is exchanged and the token inserted, next to
\* those the user may have.
HandleGoogleRedirect(s) ==
    /\ request[s].pc = "authenticated"
    /\ \E t \in NextId(tokens, TokenIds) :
          tokens' = [tokens EXCEPT ![t] = [status |-> "present", user |-> request[s].user]]
    /\ Finished(s)
    /\ UNCHANGED <<accountVars, events, unlinked>>

\* Mutant: only the token Preload shows is deleted.
DeleteGoogleToken_Newest(s) ==
    /\ request[s].pc = "authenticated"
    /\ request[s].linked /\ TokensOf(request[s].user) # {}
    /\ tokens' = [tokens EXCEPT ![GoogleDriveToken(request[s].user)].status = "deleted"]
    /\ unlinked' = unlinked \cup {request[s].user}
    /\ Finished(s)
    /\ UNCHANGED <<accountVars, events>>

\* deleteGoogleToken: every token of the user, also those inserted since the
\* copy was made.
DeleteGoogleToken(s) ==
    /\ request[s].pc = "authenticated"
    /\ request[s].linked
    /\ tokens' = [t \in TokenIds |->
          IF t \in TokensOf(request[s].user) THEN [tokens[t] EXCEPT !.status = "deleted"] ELSE tokens[t]]
    /\ unlinked' = unlinked \cup {request[s].user}
    /\ Finished(s)
    /\ UNCHANGED <<accountVars, events>>
-----------------------------------------------------------------------------
\* A process dies, and the requests it serves with it.
Crash(q) ==
    /\ Die(q)
    /\ request' = IF q = Server THEN [s \in Requests |-> NoRequest] ELSE request
    /\ UNCHANGED <<tokens, events, unlinked>>

Next ==
    \/ /\ AccountsNext({s \in Requests : request[s].pc = "idle"})
       /\ UNCHANGED <<tokens, events, request, unlinked>>
    \/ \E s \in Requests :
          \/ \E p \in People : AuthRequired(s, p)
          \/ \E e \in EventIds : UserAuthorizedForEvent(s, e)
          \/ \E form \in Filled : CreateEvent(s, form)
          \/ Refused(s) \/ DeleteEvent(s) \/ HandleGoogleRedirect(s) \/ DeleteGoogleToken(s)
    \/ \E q \in Processes : Crash(q)

Spec == Init /\ [][Next]_vars

-----------------------------------------------------------------------------
(* Properties *)

OrganisersTypeOK ==
    /\ driver \in Drivers
    /\ users \in [UserIds -> Users]
    /\ signup \in [Slots -> Signups]
    /\ booted \subseteq Processes
    /\ cookie \in [People -> Names \cup {None}]
    /\ overlapped \subseteq Names /\ blind \subseteq Names /\ headless \in BOOLEAN
    /\ tokens \in [TokenIds -> Tokens]
    /\ events \in [EventIds -> Events]
    /\ request \in [Requests -> OrganiserRequests]
    /\ \A s \in Requests : request[s].pc # "idle" => request[s].who # None /\ request[s].user # None
    /\ unlinked \subseteq UserIds

\* Two users share a name only if they were being created at the same time, or
\* a failed lookup was taken for an unused name (CreateUser), or the name is
\* the administrator's and a process went on with its start without there
\* being one: a guest may then register the name, and the next process to
\* start makes an administrator all the same (NewDb).  Of two such users
\* GetUser finds one, and the other cannot log in.
NamesAreUnique ==
    \A n \in Names : \A u, v \in Called(n) :
        u # v => n \in overlapped \/ n \in blind \/ (n = Admin /\ headless)

\* Whether name n can come to mean another user: on MySQL, if two inserts of
\* it commit out of order.
Unsettled(n) == driver = "mysql" /\ n \in overlapped

\* The cookie holds a name; as long as it is kept the name is that of the
\* user who logged in (Login, AuthRequired).
SessionsKeepTheirUser ==
    \A p \in People : cookie[p] # None =>
        \/ Unsettled(cookie[p])
        \/ GetUser(cookie[p]) # None /\ users[GetUser(cookie[p])].owner = p

\* A name that was found once is found for good and means the same user,
\* whoever else comes to have it (GetUser's First).  Not so on MySQL for a name
\* that two were creating at once: see Unsettled.
NamesAreStable ==
    [][users' # users =>
          \A n \in Names : GetUser(n) # None => GetUser(n)' = GetUser(n) \/ Unsettled(n)]_vars

\* An event is deleted only for the person whose user created it: through
\* cookie, name, user and event (AuthRequired, UserAuthorizedForEvent), unless
\* its owner's name is Unsettled.
Decided ==
    \A e \in EventIds : events[e].status = "present" /\ events'[e] # events[e] =>
        \/ Unsettled(users[events[e].user].name)
        \/ \E s \in Requests : /\ request[s].event = e
                               /\ request[s].who = users[events[e].user].owner

OwnersDecide == [][Decided]_vars

\* ExtractEventStorage dereferences the token of a Drive event's owner; the
\* upload, in a goroutine of its own, and Thumb then take their process down.
ExtractPanics(e) ==
    /\ events[e].status = "present" /\ events[e].row.kind = "googleDrive"
    /\ GoogleDriveToken(events[e].user) = None

\* That happens to nobody who has never unlinked Drive: createEvent has seen a
\* token, and no token goes away by itself.
OnlyUnlinkingPanics ==
    \A e \in EventIds : ExtractPanics(e) => events[e].user \in unlinked

\* Unlinking removes every token there is: none comes back that was stored
\* before one that was deleted (DeleteGoogleToken, Preload).
UnlinkingIsComplete ==
    \A t, v \in TokenIds :
        tokens[t].status = "deleted" /\ tokens[v].status = "present"
        /\ tokens[t].user = tokens[v].user => t < v

\* The row of an event has the storage, the texts and the ticks of the form
\* (json-enc-custom, protojson, CreateEvent).
StoredAsIntended ==
    \A e \in EventIds : events[e].status = "present" => events[e].row = Intended(events[e].form)
=============================================================================
