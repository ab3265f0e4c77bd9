------------------------------ MODULE Gallery ------------------------------
(***************************************************************************)
(* The gallery page: it reads the thumbnails page by page, newest first,   *)
(* and meanwhile the stream of SseBroker adds the new ones at the front.   *)
(* htmx asks for page 0 when the page is loaded and for the next one when  *)
(* the last picture comes into view; an answer without pictures ends the   *)
(* chain, and so does an error, which is swapped in like any answer.       *)
(*                                                                         *)
(* A stream has five minutes (WriteTimeout of the server).  Then nothing   *)
(* more reaches the browser, and the handler leaves with the next event;   *)
(* the browser sees the stream end and connects again, by itself or, after *)
(* an answer that is not a stream, with the timer of sse.js.               *)
(***************************************************************************)
EXTENDS SseBroker, SequencesExt

CONSTANTS
    Viewers,     \* connections whose page is modelled
    Limit,       \* pictures per page
    CreatedAt    \* created_at of the thumbnails, in the order of their announcements

ASSUME GalleryAssumption ==
    /\ Viewers \subseteq Clients
    /\ Limit \in Nat \ {0}
    /\ CreatedAt \in [1..MaxEvents -> Nat]

Thumbnails == 1..MaxEvents

VARIABLES
    recorded,    \* thumbnails with a row; the first of them are announced
    page         \* page[v]: what the browser of connection v shows

galleryVars == <<vars, recorded, page>>

\* chain: what becomes of the reading; next: the page to read; paged: how often
\* each thumbnail came with a page; live: those the stream brought; source: its
\* EventSource; first (ghost): the rows there were when page 0 was read.
Pages == [chain : {"none", "reading", "end"}, next : 0..MaxEvents + 1,
          paged : [Thumbnails -> 0..MaxEvents + 1], live : SUBSET Thumbnails,
          source : {"none", "connecting", "connected", "waiting"}, first : 0..MaxEvents]

NoPage == [chain |-> "none", next |-> 0, paged |-> [n \in Thumbnails |-> 0], live |-> {},
           source |-> "none", first |-> 0]

GalleryInit ==
    /\ Init
    /\ recorded = 0
    /\ page = [v \in Viewers |-> NoPage]

Open(v) == page[v].chain # "none"
-----------------------------------------------------------------------------
(* The server's side                                                       *)

\* AddThumbnailInfo.
Record ==
    /\ recorded < MaxEvents
    /\ recorded' = recorded + 1
    /\ UNCHANGED <<vars, page>>

\* new-thumbnail follows the row (Pipeline's MessagesFollowRows).
Announce ==
    /\ published < recorded
    /\ Notify
    /\ UNCHANGED <<recorded, page>>

\* ORDER BY created_at DESC: rows of the same time come in any order.
Listings ==
    {s \in SetToSeqs(1..recorded) :
        \A i, j \in 1..recorded : i < j => CreatedAt[s[i]] >= CreatedAt[s[j]]}

Slice(s, offset) == {s[i] : i \in {j \in 1..Len(s) : offset < j /\ j <= offset + Limit}}

\* Mutant: pages are counted from 1.
GetThumbnails_FromOne(k) == {Slice(s, Limit * (k + 1)) : s \in Listings}

\* Mutant: no limit.
GetThumbnails_NoLimit(k) == {{s[i] : i \in Limit * k + 1 .. Len(s)} : s \in Listings}

\* The answers there may be for page k.
GetThumbnails(k) == {Slice(s, Limit * k) : s \in Listings}

-----------------------------------------------------------------------------
(* The browser                                                             *)

OpenPage(v) ==
    /\ ~Open(v) /\ handler[v] = "closed"
    /\ page' = [page EXCEPT ![v] = [NoPage EXCEPT !.chain = "reading", !.source = "connecting"]]
    /\ UNCHANGED <<vars, recorded>>

\* The page is closed; its handler will notice.
ClosePage(v) ==
    /\ Open(v)
    /\ page' = [page EXCEPT ![v] = NoPage]
    /\ gone' = IF handler[v] = "closed" THEN gone ELSE gone \cup {v}
    /\ UNCHANGED <<published, notifier, clients, sending, pending, handler, from, got, skipped, recorded>>

WithPage(v, answer) ==
    [page[v] EXCEPT !.paged = [n \in Thumbnails |-> IF n \in answer THEN @[n] + 1 ELSE @[n]],
                    !.next = @ + 1,
                    !.first = IF page[v].next = 0 THEN recorded ELSE @,
                    !.chain = IF answer = {} THEN "end" ELSE @]

\* getThumbnails and the swap of its answer, when the last picture of the page
\* before comes into view.  It may never: the guest does not scroll, or the
\* answer is an error, and nothing is left that could come into view.
ReadPage(v) ==
    /\ page[v].chain = "reading"
    /\ \E answer \in GetThumbnails(page[v].next) : page' = [page EXCEPT ![v] = WithPage(v, answer)]
    /\ UNCHANGED <<vars, recorded>>

-----------------------------------------------------------------------------
(* The stream: the steps of SseBroker and what the browser does            *)

\* The five minutes are over.
Expire(v) ==
    /\ Open(v) /\ v \in clients \ gone
    /\ Disconnect(v)
    /\ UNCHANGED <<recorded, page>>

\* The headers come with the first event, and onopen with them.
StreamOpens(v) ==
    /\ page[v].source = "connecting"
    /\ Connect(v)
    /\ page' = [page EXCEPT ![v].source = "connected"]
    /\ UNCHANGED recorded

\* No answer, or not that of /sse: the source is closed, and onerror starts
\* the timer.
StreamRefused(v) ==
    /\ page[v].source = "connecting" /\ handler[v] = "closed"
    /\ page' = [page EXCEPT ![v].source = "waiting"]
    /\ UNCHANGED <<vars, recorded>>

\* Mutant: nobody starts a timer.
TimerFires_Never(v) == FALSE /\ UNCHANGED galleryVars

\* ensureEventSourceOnElement, half a second to 64 seconds later, with its
\* listener on the new source.
TimerFires(v) ==
    /\ page[v].source = "waiting"
    /\ page' = [page EXCEPT ![v].source = "connecting"]
    /\ UNCHANGED <<vars, recorded>>

\* Mutant: what arrives takes the place of what arrived before.
Receive_Replaces(v) ==
    /\ Written(v)
    /\ page' = IF v \in gone THEN page ELSE [page EXCEPT ![v].live = {got[v][Len(got[v])]}]
    /\ UNCHANGED recorded

\* What was written before the deadline reaches the page.
Receive(v) ==
    /\ Written(v)
    /\ page' = IF v \in gone THEN page
               ELSE [page EXCEPT ![v].live = @ \cup {got[v][Len(got[v])]}]
    /\ UNCHANGED recorded

\* Mutant: the browser takes no notice.
StreamEnds_Unnoticed(v) ==
    /\ Unregister(v)
    /\ UNCHANGED <<recorded, page>>

\* The handler has returned: the source is for connecting again.
StreamEnds(v) ==
    /\ Unregister(v)
    /\ page' = IF Open(v) THEN [page EXCEPT ![v].source = "connecting"] ELSE page
    /\ UNCHANGED recorded

\* Steps the browser of a page does not see.
Unseen ==
    /\ \/ Take \/ RoundDone
       \/ \E c \in Clients : Register(c) \/ Hand(c) \/ Skip(c) \/ CheckGone(c)
       \/ \E c \in Clients \ Viewers : Connect(c) \/ Disconnect(c) \/ Written(c) \/ Unregister(c)
    /\ UNCHANGED <<recorded, page>>

GalleryNext ==
    \/ Record \/ Announce \/ Unseen
    \/ \E v \in Viewers :
          \/ OpenPage(v) \/ ClosePage(v) \/ ReadPage(v)
          \/ Expire(v) \/ Receive(v) \/ StreamEnds(v)
          \/ StreamOpens(v) \/ StreamRefused(v) \/ TimerFires(v)

GallerySpec == GalleryInit /\ [][GalleryNext]_galleryVars

\* A timer fires, and a server that is asked again and again answers once.
GalleryFairness ==
    /\ Fairness
    /\ \A v \in Viewers : WF_galleryVars(TimerFires(v)) /\ SF_galleryVars(StreamOpens(v))

FairGallerySpec == GallerySpec /\ GalleryFairness

-----------------------------------------------------------------------------
(* Properties *)

GalleryTypeOK ==
    /\ recorded \in 0..MaxEvents /\ published <= recorded
    /\ page \in [Viewers -> Pages]
    /\ \A v \in Viewers : page[v].source = "connected" <=> Open(v) /\ handler[v] # "closed"

Tied(n) == \E m \in 1..recorded : m # n /\ CreatedAt[m] = CreatedAt[n]

\* A page that was read to its end has every thumbnail there was when its
\* first part was read, however many were recorded since, in whatever order:
\* rows move to later pages only.  Rows of one created_at are the exception
\* (getThumbnails, the ORDER BY of GetThumbnails).
PagingLeavesNoGap ==
    \A v \in Viewers : page[v].chain = "end" =>
        \A n \in 1..page[v].first : page[v].paged[n] > 0 \/ Tied(n)

\* Pages repeat a thumbnail only if another was recorded after page 0 was read.
RepeatsNeedArrivals ==
    \A v \in Viewers, n \in Thumbnails :
        page[v].paged[n] > 1 => recorded > page[v].first \/ Tied(n)

OnThePage(v, n) == page[v].paged[n] > 0 \/ n \in page[v].live

\* An announced thumbnail is on a page that was read to its end, from the
\* table or from the stream, unless it was recorded after page 0 was read and
\* then announced before the broker knew the page (or knew it again), or while
\* the page was writing.  A page whose five minutes are over knows nothing of
\* that.
NothingElseIsLost ==
    \A v \in Viewers : page[v].chain = "end" /\ v \in clients \ gone =>
        \A n \in 1..Settled(v) :
            \/ OnThePage(v, n)
            \/ n <= page[v].first /\ Tied(n)
            \/ n > page[v].first /\ (n <= from[v] \/ n \in skipped[v])
            \/ handler[v] = "writing" /\ n = got[v][Len(got[v])]

\* The handler of a page that is closed, or whose five minutes are over, ends
\* with the next event (its connection is looked at between two events; without
\* an event it stays).
GoneLeaves == \A v \in Viewers : v \in clients \cap gone /\ notifier # <<>> ~> v \notin clients

\* A page that is open comes to be known to the broker, and to be known again
\* when its handler has left, even while events are handed out and others come
\* and go.
OpenPagesAreStreamed == \A v \in Viewers : Open(v) /\ v \notin clients ~> ~Open(v) \/ v \in clients
=============================================================================
