--------------------------- MODULE StorageService ---------------------------
(***************************************************************************)
(* GetPicture and GetThumbnail, the two read-through handlers behind       *)
(* /storage/picture/:id and /storage/thumbnail/:id.  They differ in the    *)
(* table they look the id up in and in nothing else.  A reader is a        *)
(* browser, or the imagor service fetching a picture for a thumbnailer.    *)
(***************************************************************************)
EXTENDS Media

CONSTANT Readers

VARIABLE reader      \* reader[r]: the request r is waiting for, if any

Tables == {"picture", "thumbnail"}

\* late is a ghost: the event was already deleted when the request arrived.
ReaderStates == [pc : {"idle", "cacheGet", "getEvent", "storageGet", "cacheSet",
                       "served", "failed"},
                 table : Tables \cup {None}, id : Ids \cup {None},
                 event : Events \cup {None}, useCache : BOOLEAN,
                 late : BOOLEAN, got : Contents]

\* The locals a step reads are the ones the steps before it have set.
ReaderTypeOK ==
    /\ \A r \in Readers : reader[r].pc \notin {"idle", "failed"} =>
          None \notin {reader[r].id, reader[r].event}
    /\ reader \in [Readers -> ReaderStates]

Idle == [pc |-> "idle", table |-> None, id |-> None, event |-> None,
         useCache |-> FALSE, late |-> FALSE, got |-> Nothing]

ReaderInit == reader = [r \in Readers |-> Idle]

Rows(table) == IF table = "picture" THEN files ELSE thumbs

ReadGoto(r, pc) == reader' = [reader EXCEPT ![r].pc = pc]

ReadFails(r) == ReadGoto(r, "failed")

-----------------------------------------------------------------------------
\* GetFileInfo / GetThumbnailInfo, which preload the row's event.
ReadLookup(r, table, id) ==
    /\ serverUp
    /\ \/ \E row \in Rows(table) :
             /\ row.id = id
             /\ reader' = [reader EXCEPT ![r] =
                  [pc |-> IF UsesCache(row.event) THEN "cacheGet" ELSE "getEvent",
                   table |-> table, id |-> id, event |-> row.event,
                   useCache |-> UsesCache(row.event),
                   late |-> ~Present(row.event), got |-> Nothing]]
       \/ /\ (\A row \in Rows(table) : row.id # id) \/ "db" \in Faults
          /\ reader' = [reader EXCEPT ![r] =
                  [Idle EXCEPT !.pc = "failed", !.table = table, !.id = id]]
    /\ UNCHANGED mediaVars

\* A miss, like a cache error, falls through to the storage.
ReadCache(r) ==
    LET hit == cache[reader[r].event][reader[r].id]
    IN  /\ reader[r].pc = "cacheGet"
        /\ \/ hit # Nothing /\ reader' = [reader EXCEPT ![r].pc = "served", ![r].got = hit]
           \/ (hit = Nothing \/ "cache" \in Faults) /\ ReadGoto(r, "getEvent")
        /\ UNCHANGED mediaVars

ReadEvent(r) ==
    /\ reader[r].pc = "getEvent"
    /\ \/ Present(reader[r].event) /\ ReadGoto(r, "storageGet")
       \/ (~Present(reader[r].event) \/ "db" \in Faults) /\ ReadFails(r)
    /\ UNCHANGED mediaVars

ReadStorage(r) ==
    LET data == objects[StoreOf(reader[r].event)][reader[r].id]
    IN  /\ reader[r].pc = "storageGet"
        /\ \/ /\ data # Nothing
              /\ reader' = [reader EXCEPT
                    ![r].pc = IF reader[r].useCache THEN "cacheSet" ELSE "served",
                    ![r].got = data]
           \/ (data = Nothing \/ "store" \in Faults) /\ ReadFails(r)
        /\ UNCHANGED mediaVars

ReadFill(r) ==
    /\ reader[r].pc = "cacheSet"
    /\ CacheSet(reader[r].event, reader[r].id, reader[r].got)
    /\ ReadGoto(r, "served")
    /\ UNCHANGED <<events, files, thumbs, objects, serverUp>>

ReadStep(r) == ReadCache(r) \/ ReadEvent(r) \/ ReadStorage(r) \/ ReadFill(r)

ReadDone(r) ==
    /\ reader[r].pc \in {"served", "failed"}
    /\ reader' = [reader EXCEPT ![r] = Idle]
    /\ UNCHANGED mediaVars

\* A crash of the server breaks the connections of the readers it was serving.
ReadersCrash ==
    reader' = [r \in Readers |->
                 IF reader[r].pc \in {"idle", "served", "failed"} THEN reader[r]
                 ELSE [reader[r] EXCEPT !.pc = "failed"]]
=============================================================================
