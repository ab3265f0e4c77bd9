------------------------------- MODULE Media -------------------------------
(***************************************************************************)
(* The state the processes of eventpix share: the event, file_info and     *)
(* thumbnail_info tables of the database, the storage backends of the      *)
(* events, the cache, and whether the HTTP server is up; with the          *)
(* operations on them that no request path owns (creating, opening,        *)
(* closing and deleting an event, and the expiry of a cache entry).        *)
(*                                                                         *)
(* Bytes are abstracted to what they show (Contents).  Two kinds of        *)
(* backend are distinguished by the identifier Store returns: "fresh" ones *)
(* (S3, Google Drive) return a new identifier and appear at once, "named"  *)
(* ones (filesystem, FTP) return the file name, and truncate the object of *)
(* that name before they write it.                                         *)
(***************************************************************************)
EXTENDS Naturals, FiniteSets, Sequences

CONSTANTS
    Events,      \* autoincrement event ids; never used twice (db_test.go)
    Stores,      \* the places an event can be configured to keep its media
    Kind,        \* Kind[s]: "fresh" or "named"
    Names,       \* file names, of uploads and of thumbnails
    ThumbName,   \* ThumbName[n]: the name of the thumbnail of a file named n
    FreshIds,    \* the identifiers "fresh" stores can return (bounds the model)
    Uploads,     \* the files posted to the server
    None,        \* "no such thing"
    Faults       \* the kinds of fault the environment may cause

ASSUME MediaAssumption ==
    /\ Stores # {}
    /\ Kind \in [Stores -> {"fresh", "named"}]
    /\ ThumbName \in [Names -> Names]
    /\ Names \cap FreshIds = {}
    /\ None \notin Events \cup Stores \cup Names \cup FreshIds \cup Uploads
    /\ Faults \subseteq {"store", "db", "cache", "nats", "imagor", "crash"}

VARIABLES
    events,      \* the event table, with the columns of deleted rows kept
    files,       \* the file_info table; "by" is a ghost: the upload it records
    thumbs,      \* the thumbnail_info table
    objects,     \* objects[s][i]: what store s holds under identifier i
    cache,       \* cache[e][i]: the cache entry "e:i"
    serverUp     \* the server process runs

mediaVars == <<events, files, thumbs, objects, cache, serverUp>>

Ids == Names \cup FreshIds

Contents == [shows : {"nothing", "photo", "thumb", "page", "broken"},
             of : Uploads \cup {None}]

Nothing  == [shows |-> "nothing", of |-> None]  \* no object, no entry
Photo(u) == [shows |-> "photo", of |-> u]       \* the bytes of upload u
Thumb(u) == [shows |-> "thumb", of |-> u]       \* a thumbnail of upload u
Page     == [shows |-> "page", of |-> None]     \* imagor's error response
Broken   == [shows |-> "broken", of |-> None]   \* truncated or mixed bytes

EventRows == [status : {"unborn", "present", "deleted"}, live : BOOLEAN,
              cached : BOOLEAN, store : Stores]
FileRows  == [id : Ids, event : Events, name : Names, video : BOOLEAN, by : Uploads]
ThumbRows == [id : Ids, event : Events, file : Ids]

MediaTypeOK ==
    /\ events \in [Events -> EventRows]
    /\ files \subseteq FileRows
    /\ thumbs \subseteq ThumbRows
    /\ objects \in [Stores -> [Ids -> Contents]]
    /\ cache \in [Events -> [Ids -> Contents]]
    /\ serverUp \in BOOLEAN

MediaInit ==
    /\ events = [e \in Events |-> [status |-> "unborn", live |-> FALSE, cached |-> FALSE,
                                   store |-> CHOOSE s \in Stores : TRUE]]
    /\ files = {}
    /\ thumbs = {}
    /\ objects = [s \in Stores |-> [i \in Ids |-> Nothing]]
    /\ cache = [e \in Events |-> [i \in Ids |-> Nothing]]
    /\ serverUp = TRUE

-----------------------------------------------------------------------------
(* Queries.  A fault "db" makes any one of them fail.                      *)

Present(e) == events[e].status = "present"
StoreOf(e) == events[e].store

FileIds  == {f.id : f \in files}
ThumbIds == {t.id : t \in thumbs}

\* Mutant: the flag kept in the row itself, so that it outlives the event.
UsesCache_KeptInRow(e) == events[e].cached

\* The Cache column as preloaded with a file or thumbnail row: the zero
\* value once the event is gone.
UsesCache(e) == Present(e) /\ events[e].cached

(* Storage and cache writes. *)

Put(s, i, c) == objects' = [objects EXCEPT ![s][i] = c]

\* uuid.NewString, or the id Drive assigns.
Unused(i) == i \in FreshIds /\ \A s \in Stores : objects[s][i] = Nothing

\* PutObject / Files.Create: all of c or nothing, under an id of its own.
StoreFresh(s, i, c) ==
    /\ Kind[s] = "fresh"
    /\ Unused(i)
    /\ Put(s, i, c)

\* WriteFile / Stor, first half: the object named n is created or truncated.
StoreTruncate(s, n) ==
    /\ Kind[s] = "named"
    /\ Put(s, n, Broken)

\* Second half: the bytes land.  When another writer's bytes arrived in
\* between, the result may also be a mixture of both.
StoreWrite(s, n, c) ==
    /\ Kind[s] = "named"
    /\ \E r \in IF objects[s][n] = Broken THEN {c} ELSE {c, Broken} : Put(s, n, r)

\* cache.Set: its error is logged and ignored by every caller.
CacheSet(e, i, c) ==
    \/ cache' = [cache EXCEPT ![e][i] = c]
    \/ "cache" \in Faults /\ UNCHANGED cache

-----------------------------------------------------------------------------
(* Operations of the organiser, each one statement on the event table.     *)

CreateEvent(e) ==
    /\ serverUp
    /\ events[e].status = "unborn"
    /\ \E live, cached \in BOOLEAN, s \in Stores :
          events' = [events EXCEPT ![e] = [status |-> "present", live |-> live,
                                           cached |-> cached, store |-> s]]
    /\ UNCHANGED <<files, thumbs, objects, cache, serverUp>>

SetEventLive(e) ==
    /\ serverUp
    /\ Present(e)
    /\ \E live \in BOOLEAN : events' = [events EXCEPT ![e].live = live]
    /\ UNCHANGED <<files, thumbs, objects, cache, serverUp>>

\* Mutant: the media go with the event.
DeleteEvent_WithMedia(e) ==
    /\ serverUp
    /\ Present(e)
    /\ events' = [events EXCEPT ![e].status = "deleted"]
    /\ objects' = [objects EXCEPT ![StoreOf(e)] = [i \in Ids |-> Nothing]]
    /\ UNCHANGED <<files, thumbs, cache, serverUp>>

\* A hard delete of the event row alone: file and thumbnail rows, stored
\* objects and cache entries all stay.
DeleteEvent(e) ==
    /\ serverUp
    /\ Present(e)
    /\ events' = [events EXCEPT ![e].status = "deleted"]
    /\ UNCHANGED <<files, thumbs, objects, cache, serverUp>>

\* The expiration of newGoCache, or an eviction by redis.
CacheExpire(e, i) ==
    /\ cache[e][i] # Nothing
    /\ cache' = [cache EXCEPT ![e][i] = Nothing]
    /\ UNCHANGED <<events, files, thumbs, objects, serverUp>>

MediaNext ==
    \/ \E e \in Events : CreateEvent(e) \/ SetEventLive(e) \/ DeleteEvent(e)
    \/ \E e \in Events, i \in Ids : CacheExpire(e, i)
=============================================================================
