------------------------------- MODULE Upload -------------------------------
(***************************************************************************)
(* handleUpload and eventpixSvc.Upload: a request posts several files to   *)
(* one event; a goroutine per file checks the event, stores the bytes,     *)
(* records the file, fills the cache and announces the file on             *)
(* "new-photo"; the request is answered when all of its goroutines have    *)
(* returned.                                                               *)
(***************************************************************************)
EXTENDS Bus

CONSTANTS
    Requests,     \* upload requests
    RequestOf,    \* RequestOf[u]: the request whose form holds file u
    UploadNames,  \* the file names uploads are given
    MediaTypes    \* the kinds of content type: "image", "video", "other"

ASSUME UploadAssumption ==
    /\ RequestOf \in [Uploads -> Requests]
    /\ UploadNames \subseteq Names
    /\ MediaTypes \subseteq {"image", "video", "other"} \ {None}

VARIABLES
    up,           \* up[u]: the goroutine of file u and its locals
    response      \* response[r]: what the client of request r knows

uploadVars == <<up, response>>

UploadStates == [pc : {"unsent", "check", "store", "write", "record", "cache",
                       "publish", "stored", "failed"},
                 event : Events \cup {None}, name : Names \cup {None},
                 media : MediaTypes \cup {None}, id : Ids \cup {None}]

\* The locals a step reads are the ones the steps before it have set.
UploadTypeOK ==
    /\ \A u \in Uploads :
          /\ up[u].pc # "unsent" => None \notin {up[u].event, up[u].name, up[u].media}
          /\ up[u].pc \in {"record", "cache", "publish", "stored"} => up[u].id # None
    /\ up \in [Uploads -> UploadStates]
    /\ response \in [Requests -> {"unsent", "waiting", "ok", "error"}]

UploadInit ==
    /\ up = [u \in Uploads |-> [pc |-> "unsent", event |-> None, name |-> None,
                                media |-> None, id |-> None]]
    /\ response = [r \in Requests |-> "unsent"]

FilesOf(r) == {u \in Uploads : RequestOf[u] = r}

\* The store and the Cache column of the event snapshot the goroutine holds.
\* No statement ever updates either column, so the snapshot and the row agree.
UploadStore(u) == StoreOf(up[u].event)
UploadCaches(u) == events[up[u].event].cached

Goto(u, pc) == up' = [up EXCEPT ![u].pc = pc]

-----------------------------------------------------------------------------
\* The form is parsed and a goroutine started for every file.
Post(r) ==
    /\ serverUp
    /\ response[r] = "unsent"
    /\ \E e \in {x \in Events : events[x].status # "unborn"},
          name \in [FilesOf(r) -> UploadNames], media \in [FilesOf(r) -> MediaTypes] :
          up' = [u \in Uploads |->
                   IF u \in FilesOf(r)
                   THEN [pc |-> "check", event |-> e, name |-> name[u],
                         media |-> media[u], id |-> None]
                   ELSE up[u]]
    /\ response' = [response EXCEPT ![r] = "waiting"]
    /\ UNCHANGED <<mediaVars, busVars>>

\* Content type, then GetEvent, then the Live flag.
Admissible(u) ==
    /\ up[u].media # "other"
    /\ Present(up[u].event)
    /\ events[up[u].event].live

UploadCheck(u) ==
    /\ up[u].pc = "check"
    /\ \/ Admissible(u) /\ Goto(u, "store")
       \/ (~Admissible(u) \/ "db" \in Faults) /\ Goto(u, "failed")
    /\ UNCHANGED <<mediaVars, busVars, response>>

\* Mutant: Store hands out its identifier on an error too, and Upload goes on.
UploadBytes_ErrorIgnored(u) ==
    /\ up[u].pc = "store"
    /\ \E i \in FreshIds :
          /\ StoreFresh(UploadStore(u), i, Photo(u)) \/ (Unused(i) /\ UNCHANGED objects)
          /\ up' = [up EXCEPT ![u].pc = "record", ![u].id = i]
    /\ UNCHANGED <<events, files, thumbs, cache, serverUp, busVars, response>>

\* evt.Storage.Store: in one step for a fresh store, in two for a named one.
UploadBytes(u) ==
    /\ up[u].pc = "store"
    /\ \/ \E i \in FreshIds :
             /\ StoreFresh(UploadStore(u), i, Photo(u))
             /\ up' = [up EXCEPT ![u].pc = "record", ![u].id = i]
       \/ /\ StoreTruncate(UploadStore(u), up[u].name)
          /\ Goto(u, "write")
       \/ /\ "store" \in Faults
          /\ Goto(u, "failed")
          /\ UNCHANGED objects
    /\ UNCHANGED <<events, files, thumbs, cache, serverUp, busVars, response>>

UploadWrite(u) ==
    /\ up[u].pc = "write"
    /\ \/ /\ StoreWrite(UploadStore(u), up[u].name, Photo(u))
          /\ up' = [up EXCEPT ![u].pc = "record", ![u].id = up[u].name]
       \/ /\ "store" \in Faults
          /\ Goto(u, "failed")
          /\ UNCHANGED objects
    /\ UNCHANGED <<events, files, thumbs, cache, serverUp, busVars, response>>

\* Mutant: an error of AddFileInfo is logged and not returned.
UploadRecord_ErrorIgnored(u) ==
    /\ up[u].pc = "record"
    /\ \/ files' = files \cup {[id |-> up[u].id, event |-> up[u].event, name |-> up[u].name,
                                video |-> up[u].media = "video", by |-> u]}
       \/ UNCHANGED files
    /\ Goto(u, IF UploadCaches(u) THEN "cache" ELSE "publish")
    /\ UNCHANGED <<events, thumbs, objects, cache, serverUp, busVars, response>>

\* AddFileInfo: an INSERT that the primary key refuses when the id is taken,
\* whichever event took it.  On an error the object just stored stays.
UploadRecord(u) ==
    LET row == [id |-> up[u].id, event |-> up[u].event, name |-> up[u].name,
                video |-> up[u].media = "video", by |-> u]
    IN  /\ up[u].pc = "record"
        /\ \/ /\ row.id \notin FileIds
              /\ files' = files \cup {row}
              /\ Goto(u, IF UploadCaches(u) THEN "cache" ELSE "publish")
           \/ /\ row.id \in FileIds \/ "db" \in Faults
              /\ Goto(u, "failed")
              /\ UNCHANGED files
        /\ UNCHANGED <<events, thumbs, objects, cache, serverUp, busVars, response>>

\* Mutant: the cache is given the tee's buffer before the upload has streamed.
UploadCache_TooEarly(u) ==
    /\ up[u].pc = "cache"
    /\ CacheSet(up[u].event, up[u].id, Broken)
    /\ Goto(u, "publish")
    /\ UNCHANGED <<events, files, thumbs, objects, serverUp, busVars, response>>

UploadCache(u) ==
    /\ up[u].pc = "cache"
    /\ CacheSet(up[u].event, up[u].id, Photo(u))
    /\ Goto(u, "publish")
    /\ UNCHANGED <<events, files, thumbs, objects, serverUp, busVars, response>>

UploadPublish(u) ==
    /\ up[u].pc = "publish"
    /\ PublishNewPhoto([event |-> up[u].event, file |-> up[u].id,
                        video |-> up[u].media = "video"])
    /\ Goto(u, "stored")
    /\ UNCHANGED <<mediaVars, response>>

\* Mutant: a goroutine that fails never signals the group.
Finished_OnSuccessOnly(u) == up[u].pc = "stored"

Finished(u) == up[u].pc \in {"stored", "failed"}

\* Mutant: the error of a goroutine is lost when another one succeeds.
Outcome_LastWins(r) ==
    IF \A u \in FilesOf(r) : up[u].pc = "failed" THEN "error" ELSE "ok"

\* g.Wait returns the first error, if there was one: a 500.
Outcome(r) == IF \E u \in FilesOf(r) : up[u].pc = "failed" THEN "error" ELSE "ok"

Respond(r) ==
    /\ response[r] = "waiting"
    /\ \A u \in FilesOf(r) : Finished(u)
    /\ response' = [response EXCEPT ![r] = Outcome(r)]
    /\ UNCHANGED <<mediaVars, busVars, up>>

UploadStep(u) ==
    \/ UploadCheck(u)
    \/ UploadBytes(u)
    \/ UploadWrite(u)
    \/ UploadRecord(u)
    \/ UploadCache(u)
    \/ UploadPublish(u)

UploadNext ==
    \/ \E r \in Requests : Post(r) \/ Respond(r)
    \/ \E u \in Uploads : UploadStep(u)

\* What a crash of the server does to the requests in flight: the
\* goroutines are gone and the clients see the connection break.
UploadsCrash ==
    /\ up' = [u \in Uploads |->
                IF up[u].pc \in {"unsent", "stored"} THEN up[u]
                ELSE [up[u] EXCEPT !.pc = "failed"]]
    /\ response' = [r \in Requests |->
                      IF response[r] = "waiting" THEN "error" ELSE response[r]]
=============================================================================
