---------------------------- MODULE Thumbnailer ----------------------------
(***************************************************************************)
(* The thumbnailer workers: Start subscribes to "new-photo" in the queue   *)
(* group "thumbnailer" and calls Thumb on each message in turn.  Thumb     *)
(* reads the event and the file row, has imagor make a thumbnail (imagor   *)
(* fetches the picture from the server), stores it, caches it, records it  *)
(* and announces it on "new-thumbnail"; the server's subscription to that  *)
(* subject passes it to the open galleries.                                *)
(*                                                                         *)
(* A message whose Thumb fails is Nak'd, which core NATS ignores, so       *)
(* failing is the same as being idle again.                                *)
(***************************************************************************)
EXTENDS Bus, StorageService

VARIABLES
    worker,      \* worker[w]: the process w, with the locals of Thumb
    announced    \* thumbnails handed to the SSE broker (never taken back)

workerVars == <<worker, announced>>

WorkerStates == [pc : {"down", "idle", "lookup", "fetch", "thumb", "store",
                       "write", "cache", "record", "publish"},
                 msg : NewMedia \cup {None}, id : Ids \cup {None}, bytes : Contents]

\* The locals a step reads are the ones the steps before it have set.
WorkerTypeOK ==
    /\ \A w \in Workers :
          /\ worker[w].pc \notin {"down", "idle"} => worker[w].msg # None
          /\ worker[w].pc \in {"cache", "record", "publish"} => worker[w].id # None
    /\ worker \in [Workers -> WorkerStates]
    /\ announced \subseteq Ids

Rest(pc) == [pc |-> pc, msg |-> None, id |-> None, bytes |-> Nothing]

WorkerInit ==
    /\ worker = [w \in Workers |-> Rest("down")]
    /\ announced = {}

WorkerGoto(w, pc) == worker' = [worker EXCEPT ![w].pc = pc]

\* msg.Nak() and return, or msg.Ack().
Release(w) == worker' = [worker EXCEPT ![w] = Rest("idle")]

\* The file rows GetFileInfo finds for the message, its event's store and
\* Cache column (a snapshot; neither column is ever updated).
MsgFiles(w) == {f \in files : f.id = worker[w].msg.file}
WorkerStore(w) == StoreOf(worker[w].msg.event)
WorkerCaches(w) == events[worker[w].msg.event].cached

-----------------------------------------------------------------------------
\* QueueSubscribe, by a process whose former life has no fetch left running.
WorkerStart(w) ==
    /\ worker[w].pc = "down"
    /\ reader[w].pc \in {"idle", "served", "failed"}
    /\ worker' = [worker EXCEPT ![w] = Rest("idle")]
    /\ reader' = [reader EXCEPT ![w] = Idle]
    /\ subscribed' = subscribed \cup {w}
    /\ UNCHANGED <<mediaVars, inbox, notices, announced>>

WorkerReceive(w) ==
    /\ worker[w].pc = "idle"
    /\ inbox[w] # <<>>
    /\ worker' = [worker EXCEPT ![w] = [Rest("lookup") EXCEPT !.msg = Head(inbox[w])]]
    /\ inbox' = [inbox EXCEPT ![w] = Tail(@)]
    /\ UNCHANGED <<mediaVars, subscribed, notices, reader, announced>>

\* Mutant: a closed event's photos are not thumbnailed.
WorkerLookup_LiveOnly(w) ==
    LET found == MsgFiles(w) # {} /\ Present(worker[w].msg.event)
                                 /\ events[worker[w].msg.event].live
    IN  /\ worker[w].pc = "lookup"
        /\ \/ found /\ WorkerGoto(w, "fetch")
           \/ (~found \/ "db" \in Faults) /\ Release(w)
        /\ UNCHANGED <<mediaVars, busVars, reader, announced>>

\* GetEvent, then GetFileInfo.  File rows are never removed, so nothing that
\* can happen between the two changes what the second one finds.
WorkerLookup(w) ==
    LET found == Present(worker[w].msg.event) /\ MsgFiles(w) # {}
    IN  /\ worker[w].pc = "lookup"
        /\ \/ found /\ WorkerGoto(w, "fetch")
           \/ (~found \/ "db" \in Faults) /\ Release(w)
        /\ UNCHANGED <<mediaVars, busVars, reader, announced>>

\* imagor asks the server for the picture ...
WorkerFetch(w) ==
    /\ worker[w].pc = "fetch"
    /\ \/ ReadLookup(w, "picture", worker[w].msg.file)
       \/ /\ ~serverUp \/ "imagor" \in Faults
          /\ reader' = [reader EXCEPT ![w] = [Idle EXCEPT !.pc = "failed"]]
          /\ UNCHANGED mediaVars
    /\ WorkerGoto(w, "thumb")
    /\ UNCHANGED <<busVars, announced>>

\* What imagor can make of what it was served: a thumbnail of a picture (or
\* of a thumbnail), from damaged bytes perhaps a damaged one.
Thumbnailed(c) ==
    CASE c.shows \in {"photo", "thumb"} -> {Thumb(c.of)}
      [] c.shows = "broken" -> {Broken}
      [] OTHER -> {}

\* ... and answers the thumbnailer: an error when it was not served bytes it
\* can read.
ImagorErrs(w) ==
    \/ reader[w].pc = "failed"
    \/ reader[w].got.shows \notin {"photo", "thumb"}
    \/ "imagor" \in Faults

\* Mutant: ThumbImage without its check of the status code.
TakesErrorPage_Always(w) == TRUE

TakesErrorPage(w) == worker[w].msg.video

\* ThumbImage turns an error status into an error; ThumbVideo looks only at
\* transport errors, and takes the body of an error status for a thumbnail.
WorkerThumb(w) ==
    /\ worker[w].pc = "thumb"
    /\ reader[w].pc \in {"served", "failed"}
    /\ \/ /\ reader[w].pc = "served"
          /\ \E c \in Thumbnailed(reader[w].got) :
                worker' = [worker EXCEPT ![w].pc = "store", ![w].bytes = c]
       \/ /\ ImagorErrs(w)
          /\ TakesErrorPage(w)
          /\ worker' = [worker EXCEPT ![w].pc = "store", ![w].bytes = Page]
       \/ /\ ImagorErrs(w)
          /\ ~TakesErrorPage(w) \/ "imagor" \in Faults
          /\ Release(w)
    /\ reader' = [reader EXCEPT ![w] = Idle]
    /\ UNCHANGED <<mediaVars, busVars, announced>>

\* Mutant: the thumbnail takes the name of the picture.
ThumbNameOf_Same(f) == f.name

\* tname of Thumb.
ThumbNameOf(f) == ThumbName[f.name]

\* Mutant: the identifier Store returns is not kept.
Stored_IdDropped(w, i) ==
    worker' = [worker EXCEPT ![w].pc = IF WorkerCaches(w) THEN "cache" ELSE "record"]

\* Where Thumb goes once evt.Storage.Store has returned.
Stored(w, i) ==
    worker' = [worker EXCEPT ![w].pc = IF WorkerCaches(w) THEN "cache" ELSE "record",
                             ![w].id = i]

\* evt.Storage.Store under the thumbnail's name.
WorkerBytes(w) ==
    /\ worker[w].pc = "store"
    /\ \/ \E i \in FreshIds :
             StoreFresh(WorkerStore(w), i, worker[w].bytes) /\ Stored(w, i)
       \/ /\ \E f \in MsgFiles(w) : StoreTruncate(WorkerStore(w), ThumbNameOf(f))
          /\ WorkerGoto(w, "write")
       \/ "store" \in Faults /\ Release(w) /\ UNCHANGED objects
    /\ UNCHANGED <<events, files, thumbs, cache, serverUp, busVars, reader, announced>>

WorkerWrite(w) ==
    /\ worker[w].pc = "write"
    /\ \/ \E f \in MsgFiles(w) :
             /\ StoreWrite(WorkerStore(w), ThumbNameOf(f), worker[w].bytes)
             /\ Stored(w, ThumbNameOf(f))
       \/ "store" \in Faults /\ Release(w) /\ UNCHANGED objects
    /\ UNCHANGED <<events, files, thumbs, cache, serverUp, busVars, reader, announced>>

\* Mutant: the thumbnail is cached under the key of its picture.
WorkerCache_PictureKey(w) ==
    /\ worker[w].pc = "cache"
    /\ CacheSet(worker[w].msg.event, worker[w].msg.file, worker[w].bytes)
    /\ WorkerGoto(w, "record")
    /\ UNCHANGED <<events, files, thumbs, objects, serverUp, busVars, reader, announced>>

\* Before the thumbnail is recorded.
WorkerCache(w) ==
    /\ worker[w].pc = "cache"
    /\ CacheSet(worker[w].msg.event, worker[w].id, worker[w].bytes)
    /\ WorkerGoto(w, "record")
    /\ UNCHANGED <<events, files, thumbs, objects, serverUp, busVars, reader, announced>>

\* Mutant: the thumbnail is announced before it is recorded.
WorkerRecord_AfterPublish(w) ==
    /\ worker[w].pc = "record"
    /\ PublishNewThumbnail(worker[w].id)
    /\ WorkerGoto(w, "publish")
    /\ UNCHANGED <<mediaVars, reader, announced>>

\* AddThumbnailInfo, refused when the id is taken.
WorkerRecord(w) ==
    LET row == [id |-> worker[w].id, event |-> worker[w].msg.event,
                file |-> worker[w].msg.file]
    IN  /\ worker[w].pc = "record"
        /\ \/ /\ row.id \notin ThumbIds
              /\ thumbs' = thumbs \cup {row}
              /\ WorkerGoto(w, "publish")
           \/ /\ row.id \in ThumbIds \/ "db" \in Faults
              /\ Release(w)
              /\ UNCHANGED thumbs
        /\ UNCHANGED <<events, files, objects, cache, serverUp, busVars, reader, announced>>

\* Mutant: the message carries the id of the picture.
WorkerPublish_PictureId(w) ==
    /\ worker[w].pc = "publish"
    /\ PublishNewThumbnail(worker[w].msg.file)
    /\ Release(w)
    /\ UNCHANGED <<mediaVars, reader, announced>>

WorkerPublish(w) ==
    /\ worker[w].pc = "publish"
    /\ PublishNewThumbnail(worker[w].id)
    /\ Release(w)
    /\ UNCHANGED <<mediaVars, reader, announced>>

WorkerStep(w) ==
    \/ WorkerReceive(w)
    \/ WorkerLookup(w)
    \/ WorkerFetch(w)
    \/ WorkerThumb(w)
    \/ WorkerBytes(w)
    \/ WorkerWrite(w)
    \/ WorkerCache(w)
    \/ WorkerRecord(w)
    \/ WorkerPublish(w)

-----------------------------------------------------------------------------
\* The "new-thumbnail" subscription of handleUi: GetThumbnailInfo, template,
\* broker.Notifier; an error drops the message (Nak again does nothing).
Announce ==
    /\ serverUp
    /\ notices # <<>>
    /\ notices' = Tail(notices)
    /\ \/ Head(notices) \in ThumbIds /\ announced' = announced \cup {Head(notices)}
       \/ (Head(notices) \notin ThumbIds \/ "db" \in Faults) /\ UNCHANGED announced
    /\ UNCHANGED <<mediaVars, subscribed, inbox, reader, worker>>

\* A worker process dies, with the messages it had been handed.  The fetch it
\* caused goes on at the server, with nobody to wait for it.
WorkerCrash(w) ==
    /\ "crash" \in Faults
    /\ worker[w].pc # "down"
    /\ worker' = [worker EXCEPT ![w] = Rest("down")]
    /\ subscribed' = subscribed \ {w}
    /\ inbox' = [inbox EXCEPT ![w] = <<>>]
    /\ UNCHANGED <<mediaVars, notices, reader, announced>>

WorkerNext == Announce \/ \E w \in Workers : WorkerStart(w) \/ WorkerStep(w) \/ WorkerCrash(w)
=============================================================================
