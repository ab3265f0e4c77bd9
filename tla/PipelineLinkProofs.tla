------------------------- MODULE PipelineLinkProofs -------------------------
(***************************************************************************)
(* How rows, messages, objects and requests refer to one another in        *)
(* Pipeline, for every value of its constants: what a message, a           *)
(* thumbnail or a gallery link names is there, and is what it should be.   *)
(***************************************************************************)
EXTENDS PipelineProofs, SequenceTheorems

-----------------------------------------------------------------------------
(* The inductive invariant *)

FilesAreUnique == \A f, g \in files : f.id = g.id => f = g

\* A message is about a row of fs.
IsAbout(m, fs) == \E f \in fs : f.id = m.file /\ f.event = m.event /\ f.video = m.video

\* Upload u has recorded its file and not announced it yet.
Pending(u) == up[u].pc \in {"cache", "publish"}

PendingAreRecorded ==
    \A u \in Uploads : Pending(u) =>
        \E f \in files : /\ f.by = u /\ f.id = up[u].id /\ f.event = up[u].event
                         /\ f.video = (up[u].media = "video")

\* Worker w works on a message and has not recorded its thumbnail.
Handling(w) == worker[w].pc \notin {"down", "idle", "publish"}

MessagesAreAbout ==
    \A w \in Workers :
        /\ \A k \in 1..Len(inbox[w]) : IsAbout(inbox[w][k], files)
        /\ worker[w].pc \notin {"down", "idle"} => IsAbout(worker[w].msg, files)

NoticesAreRecorded ==
    /\ \A k \in 1..Len(notices) : notices[k] \in ThumbIds
    /\ \A w \in Workers : worker[w].pc = "publish" => worker[w].id \in ThumbIds

\* What is about to be recorded is in the store.
StoredBeforeRecorded ==
    /\ \A u \in Uploads : up[u].pc = "record" => Object(up[u].event, up[u].id) # Nothing
    /\ \A w \in Workers : worker[w].pc \in {"cache", "record"} =>
          Object(worker[w].msg.event, worker[w].id) # Nothing

\* A request works for a row it has found; one that came too late finds no event.
RequestsFollowRows ==
    \A r \in Readers : reader[r].pc \notin {"idle", "failed"} =>
        /\ reader[r].table \in Tables
        /\ reader[r].table = "picture" =>
              \E f \in files : f.id = reader[r].id /\ f.event = reader[r].event
        /\ reader[r].table = "thumbnail" =>
              \E t \in thumbs : t.id = reader[r].id /\ t.event = reader[r].event
        /\ reader[r].late => reader[r].pc = "getEvent" /\ ~Present(reader[r].event)

\* imagor fetches the picture the message is about, ...
FetchesFollowMessages ==
    \A w \in Workers : worker[w].pc = "thumb" =>
        \/ reader[w].pc = "failed"
        \/ /\ reader[w].pc # "idle"
           /\ reader[w].table = "picture" /\ reader[w].id = worker[w].msg.file

\* ... and what it made of it is a thumbnail of that picture, or an error page.
WorkersDepict ==
    \A w \in Workers :
        worker[w].pc \in {"store", "write", "cache", "record"} /\ Fresh(worker[w].msg.event) =>
            \E f \in files : /\ f.id = worker[w].msg.file /\ f.event = worker[w].msg.event
                             /\ worker[w].bytes \in MadeFrom(f)

\* A photo is waiting to be announced, or in one queue, or with one worker, or
\* has its thumbnail.
PendingAlone ==
    \A u \in Uploads : Pending(u) =>
        /\ \A v \in Uploads : Pending(v) /\ up[v].id = up[u].id => u = v
        /\ \A w \in Workers, k \in Nat : k \in 1..Len(inbox[w]) => inbox[w][k].file # up[u].id
        /\ \A w \in Workers : Handling(w) => worker[w].msg.file # up[u].id
        /\ \A t \in thumbs : t.file # up[u].id

QueuedAlone ==
    \A v \in Workers, k \in Nat : k \in 1..Len(inbox[v]) =>
        /\ \A w \in Workers, l \in Nat :
              l \in 1..Len(inbox[w]) /\ inbox[v][k].file = inbox[w][l].file => v = w /\ k = l
        /\ \A w \in Workers : Handling(w) => worker[w].msg.file # inbox[v][k].file
        /\ \A t \in thumbs : t.file # inbox[v][k].file

HandledAlone ==
    \A v \in Workers : Handling(v) =>
        /\ \A w \in Workers : Handling(w) /\ worker[v].msg.file = worker[w].msg.file => v = w
        /\ \A t \in thumbs : t.file # worker[v].msg.file

OnePlace == PendingAlone /\ QueuedAlone /\ HandledAlone /\ OneThumbnailPerFile

Linked ==
    /\ FilesAreUnique /\ PendingAreRecorded /\ MessagesAreAbout /\ NoticesAreRecorded
    /\ StoredBeforeRecorded /\ RowsHaveObjects
    /\ RequestsFollowRows /\ FetchesFollowMessages /\ WorkersDepict /\ ThumbnailsDepictTheirFiles
    /\ OnePlace

-----------------------------------------------------------------------------
(* What a step leaves alone *)

\* Photos, thumbnails and the rest are something.
LEMMA ContentsDiffer ==
    /\ \A u : Photo(u) # Nothing /\ Thumb(u) # Nothing /\ Photo(u) # Thumb(u)
    /\ Broken # Nothing /\ Page # Nothing
  BY DEF Photo, Thumb, Broken, Page, Nothing

\* Only a step of Store writes an object.
LEMMA ObjectsChange ==
    ASSUME TypeOK, [Next]_vars
    PROVE  \/ UNCHANGED objects
           \/ \E u \in Uploads : UploadBytes(u) \/ UploadWrite(u)
           \/ \E w \in Workers : WorkerBytes(w) \/ WorkerWrite(w)
<1>1. CASE Organise
  BY <1>1 DEF Organise, MediaNext, CreateEvent, SetEventLive, DeleteEvent, CacheExpire
<1>2. CASE Uploading
  BY <1>2 DEF Uploading, UploadNext, UploadStep, Post, Respond, UploadCheck, UploadRecord,
              UploadCache, UploadPublish, mediaVars
<1>3. CASE Reading
  BY <1>3 DEF Reading, Browse, ReadDone, ReadLookup, ReadStep, ReadCache, ReadEvent,
              ReadStorage, ReadFill, mediaVars
<1>4. CASE Thumbnailing
  BY <1>4 DEF Thumbnailing, WorkerNext, WorkerStep, Announce, WorkerStart, WorkerCrash,
              WorkerReceive, WorkerLookup, WorkerFetch, ReadLookup, WorkerThumb, WorkerCache,
              WorkerRecord, WorkerPublish, mediaVars
<1>5. CASE ServerCrash \/ ServerStart \/ UNCHANGED vars
  BY <1>5 DEF ServerCrash, ServerStart, vars, mediaVars
<1> QED
  BY <1>1, <1>2, <1>3, <1>4, <1>5 DEF Next

\* An object is never removed (Store of every backend, Upload, Thumb).
LEMMA ObjectsStay ==
    ASSUME TypeOK, [Next]_vars, WorkersWrote, NEW s \in Stores, NEW i \in Ids,
           objects[s][i] # Nothing
    PROVE  objects'[s][i] # Nothing
<1> objects \in [Stores -> [Ids -> Contents]]
  BY DEF TypeOK, MediaTypeOK
<1>0. CASE UNCHANGED objects
  BY <1>0
<1>1. ASSUME NEW x \in Stores, NEW j \in Ids, NEW c, c # Nothing, Put(x, j, c)
      PROVE  objects'[s][i] # Nothing
  BY <1>1 DEF Put
<1>2. ASSUME NEW x \in Stores, NEW j \in FreshIds, NEW c, c # Nothing, StoreFresh(x, j, c)
      PROVE  objects'[s][i] # Nothing
  BY <1>1, <1>2 DEF StoreFresh, Ids
<1>3. ASSUME NEW x \in Stores, NEW n \in Names, StoreTruncate(x, n)
      PROVE  objects'[s][i] # Nothing
  BY <1>1, <1>3, ContentsDiffer DEF StoreTruncate, Ids
<1>4. ASSUME NEW x \in Stores, NEW n \in Names, NEW c, c # Nothing, StoreWrite(x, n, c)
      PROVE  objects'[s][i] # Nothing
  <2> PICK d \in {c, Broken} : Put(x, n, d)
    BY <1>4 DEF StoreWrite
  <2>1. d # Nothing
    BY <1>4, ContentsDiffer
  <2> QED
    BY <1>1, <2>1 DEF Ids
<1>5. ASSUME NEW u \in Uploads, UploadBytes(u) \/ UploadWrite(u) PROVE objects'[s][i] # Nothing
  <2>1. UploadStore(u) \in Stores /\ up[u].name \in Names
    BY <1>5 DEF UploadBytes, UploadWrite, TypeOK, UploadTypeOK, UploadStates, UploadStore, StoreOf,
                MediaTypeOK, EventRows
  <2> QED
    BY <1>0, <1>2, <1>3, <1>4, <1>5, <2>1, ContentsDiffer DEF UploadBytes, UploadWrite
<1>6. ASSUME NEW w \in Workers, WorkerBytes(w) \/ WorkerWrite(w) PROVE objects'[s][i] # Nothing
  <2>1. WorkerStore(w) \in Stores /\ worker[w].bytes # Nothing
    BY <1>6, WorkerLocals DEF WorkerBytes, WorkerWrite, WorkersWrote
  <2>2. \A f \in MsgFiles(w) : ThumbNameOf(f) \in Names
    BY ThumbNameType DEF MsgFiles, TypeOK, MediaTypeOK
  <2> QED
    BY <1>0, <1>2, <1>3, <1>4, <1>6, <2>1, <2>2 DEF WorkerBytes, WorkerWrite
<1> QED
  BY <1>0, <1>5, <1>6, ObjectsChange

\* Nor does the object of a created event move.
LEMMA EventObjectsStay ==
    ASSUME TypeOK, [Next]_vars, WorkersWrote, NEW e \in Events, NEW i \in Ids, Born(e),
           Object(e, i) # Nothing
    PROVE  objects'[events'[e].store][i] # Nothing
<1>1. Grow
  BY StepGrows
<1>2. events[e].store \in Stores
  BY DEF TypeOK, MediaTypeOK, EventRows
<1>3. events'[e].store = events[e].store
  BY <1>1 DEF Grow
<1> QED
  BY <1>2, <1>3, ObjectsStay DEF Object, StoreOf

\* An event that has been deleted stays deleted.
LEMMA DeletedStays ==
    ASSUME TypeOK, [Next]_vars, NEW e \in Events, Born(e), ~Present(e)
    PROVE  events'[e].status # "present"
<1> events \in [Events -> EventRows]
  BY DEF TypeOK, MediaTypeOK
<1>1. CASE UNCHANGED events
  BY <1>1 DEF Present
<1>2. CASE Organise
  <2>1. ASSUME NEW x \in Events, CreateEvent(x) \/ SetEventLive(x) \/ DeleteEvent(x)
        PROVE  events'[e].status # "present"
    <3>1. e # x
      BY <2>1 DEF CreateEvent, SetEventLive, DeleteEvent, Born, Present
    <3>2. events'[e] = events[e]
      BY <2>1, <3>1 DEF CreateEvent, SetEventLive, DeleteEvent
    <3> QED
      BY <3>2 DEF Present
  <2> QED
    BY <1>1, <1>2, <2>1 DEF Organise, MediaNext, CacheExpire
<1>3. CASE Uploading
  BY <1>1, <1>3 DEF Uploading, UploadNext, UploadStep, Post, Respond, UploadCheck, UploadBytes,
              UploadWrite, UploadRecord, UploadCache, UploadPublish, mediaVars
<1>4. CASE Reading
  BY <1>1, <1>4 DEF Reading, Browse, ReadDone, ReadLookup, ReadStep, ReadCache, ReadEvent,
              ReadStorage, ReadFill, mediaVars
<1>5. CASE Thumbnailing
  BY <1>1, <1>5 DEF Thumbnailing, WorkerNext, WorkerStep, Announce, WorkerStart, WorkerCrash,
              WorkerReceive, WorkerLookup, WorkerFetch, ReadLookup, WorkerThumb, WorkerBytes,
              WorkerWrite, WorkerCache, WorkerRecord, WorkerPublish, mediaVars
<1>6. CASE ServerCrash \/ ServerStart \/ UNCHANGED vars
  BY <1>1, <1>6 DEF ServerCrash, ServerStart, vars, mediaVars
<1> QED
  BY <1>2, <1>3, <1>4, <1>5, <1>6 DEF Next

\* What a message is about stays there.
LEMMA IsAboutStays ==
    ASSUME Grow, NEW m, IsAbout(m, files)
    PROVE  IsAbout(m, files')
  BY DEF IsAbout, Grow

LEMMA ThumbIdsStay ==
    ASSUME Grow, NEW i \in ThumbIds
    PROVE  \E t \in thumbs' : t.id = i
  BY DEF ThumbIds, Grow

-----------------------------------------------------------------------------
(* Rows and messages *)

LEMMA FilesAreUniqueStep ==
    ASSUME [Next]_vars, FilesAreUnique
    PROVE  FilesAreUnique'
<1> SUFFICES ASSUME NEW f \in files', NEW g \in files', f.id = g.id PROVE f = g
  BY DEF FilesAreUnique
<1>1. CASE f \in files /\ g \in files
  BY <1>1 DEF FilesAreUnique
<1>2. ASSUME NEW h \in files', h \notin files
      PROVE  \A k \in files' : k.id = h.id => k = h
  <2> PICK u \in Uploads :
         /\ UploadRecord(u)
         /\ h = [id |-> up[u].id, event |-> up[u].event, name |-> up[u].name,
                 video |-> up[u].media = "video", by |-> u]
    BY <1>2, FileAdded
  <2>1. h.id = up[u].id
    OBVIOUS
  <2>2. files' = files \cup {h} /\ up[u].id \notin FileIds
    BY <1>2 DEF UploadRecord
  <2> QED
    BY <2>1, <2>2 DEF FileIds
<1> QED
  BY <1>1, <1>2

\* An upload comes to be pending by recording its file.
LEMMA PendingChange ==
    ASSUME TypeOK, [Next]_vars, NEW u \in Uploads, up'[u].pc \in {"cache", "publish"}
    PROVE  \/ Pending(u) /\ up'[u].id = up[u].id /\ up'[u].event = up[u].event
              /\ up'[u].media = up[u].media
           \/ /\ UploadRecord(u) /\ up[u].id \notin FileIds
              /\ up'[u].id = up[u].id /\ up'[u].event = up[u].event /\ up'[u].media = up[u].media
              /\ [id |-> up[u].id, event |-> up[u].event, name |-> up[u].name,
                  video |-> up[u].media = "video", by |-> u] \in files'
<1> up \in [Uploads -> UploadStates] /\ up[u] \in UploadStates
  BY DEF TypeOK, UploadTypeOK
<1>1. CASE up'[u] = up[u]
  BY <1>1 DEF Pending
<1>2. ASSUME NEW r \in Requests, u \in FilesOf(r), Post(r) PROVE FALSE
  BY <1>2 DEF Post
<1>3. CASE UploadStep(u)
  <2>1. CASE UploadCheck(u) \/ UploadBytes(u) \/ UploadWrite(u) \/ UploadPublish(u)
    BY <2>1 DEF UploadCheck, UploadBytes, UploadWrite, UploadPublish, Goto, UploadStates
  <2>2. CASE UploadRecord(u)
    BY <2>2 DEF UploadRecord, Goto, UploadStates
  <2>3. CASE UploadCache(u)
    BY <2>3 DEF UploadCache, Goto, UploadStates, Pending
  <2> QED
    BY <1>3, <2>1, <2>2, <2>3 DEF UploadStep
<1>4. CASE ServerCrash
  BY <1>1, <1>4 DEF ServerCrash, UploadsCrash
<1> QED
  BY <1>1, <1>2, <1>3, <1>4, UploadChange

LEMMA PendingAreRecordedStep ==
    ASSUME TypeOK, [Next]_vars, PendingAreRecorded
    PROVE  PendingAreRecorded'
<1> SUFFICES ASSUME NEW u \in Uploads, up'[u].pc \in {"cache", "publish"}
             PROVE  \E f \in files' :
                       /\ f.by = u /\ f.id = up'[u].id /\ f.event = up'[u].event
                       /\ f.video = (up'[u].media = "video")
  BY DEF PendingAreRecorded, Pending
<1>1. CASE /\ Pending(u) /\ up'[u].id = up[u].id /\ up'[u].event = up[u].event
           /\ up'[u].media = up[u].media
  <2> PICK f \in files : /\ f.by = u /\ f.id = up[u].id /\ f.event = up[u].event
                         /\ f.video = (up[u].media = "video")
    BY <1>1 DEF PendingAreRecorded
  <2>1. f \in files'
    BY StepGrows DEF Grow
  <2>2. (up'[u].media = "video") = (up[u].media = "video")
    BY <1>1
  <2> QED
    BY <1>1, <2>1, <2>2
<1>2. CASE /\ UploadRecord(u)
           /\ up'[u].id = up[u].id /\ up'[u].event = up[u].event /\ up'[u].media = up[u].media
           /\ [id |-> up[u].id, event |-> up[u].event, name |-> up[u].name,
               video |-> up[u].media = "video", by |-> u] \in files'
  <2> DEFINE f == [id |-> up[u].id, event |-> up[u].event, name |-> up[u].name,
                   video |-> up[u].media = "video", by |-> u]
  <2>1. f \in files'
    BY <1>2
  <2>2. f.by = u /\ f.id = up[u].id /\ f.event = up[u].event
    OBVIOUS
  <2>3. f.video = (up[u].media = "video")
    OBVIOUS
  <2>4. (up'[u].media = "video") = (up[u].media = "video")
    BY <1>2
  <2> HIDE DEF f
  <2> QED
    BY <1>2, <2>1, <2>2, <2>3, <2>4
<1> QED
  BY <1>1, <1>2, PendingChange

\* A worker has a message by taking it from its queue.
LEMMA MessageTaken ==
    ASSUME TypeOK, [Next]_vars, NEW w \in Workers, worker'[w].pc \notin {"down", "idle"}
    PROVE  \/ /\ worker[w].pc \notin {"down", "idle"} /\ worker'[w].msg = worker[w].msg
              /\ Handling(w) \/ worker'[w].pc = "publish"
           \/ /\ WorkerReceive(w) /\ inbox[w] # <<>> /\ worker'[w].msg = inbox[w][1]
              /\ worker'[w].pc = "lookup"
<1> worker \in [Workers -> WorkerStates] /\ worker[w] \in WorkerStates
  BY DEF TypeOK, WorkerTypeOK
<1>1. CASE worker'[w] = worker[w]
  BY <1>1 DEF Handling
<1>2. CASE WorkerReceive(w)
  <2>1. worker'[w] = [Rest("lookup") EXCEPT !.msg = Head(inbox[w])] /\ inbox[w] # <<>>
    BY <1>2 DEF WorkerReceive
  <2>2. inbox[w] \in Seq(NewMedia)
    BY DEF TypeOK, BusTypeOK
  <2>3. worker'[w].msg = Head(inbox[w]) /\ worker'[w].pc = "lookup"
    BY <2>1 DEF Rest
  <2>4. Head(inbox[w]) = inbox[w][1]
    BY <2>1, <2>2
  <2> QED
    BY <1>2, <2>1, <2>3, <2>4
<1>3. CASE WorkerStep(w) /\ ~WorkerReceive(w)
  <2>1. worker[w].pc \notin {"down", "idle"} /\ worker'[w].msg = worker[w].msg
    BY <1>3, WorkerKeeps DEF Rest
  <2>2. worker[w].pc # "publish"
    <3>1. ASSUME WorkerPublish(w) PROVE FALSE
      BY <3>1 DEF WorkerPublish, Release, Rest
    <3> QED
      BY <1>3, <3>1 DEF WorkerStep, WorkerLookup, WorkerFetch, WorkerThumb, WorkerBytes,
                        WorkerWrite, WorkerCache, WorkerRecord
  <2> QED
    BY <2>1, <2>2 DEF Handling
<1>4. CASE worker'[w] # worker[w] /\ (WorkerStart(w) \/ WorkerCrash(w) \/ ServerCrash)
  BY <1>4 DEF WorkerStart, WorkerCrash, ServerCrash, Rest
<1> QED
  BY <1>1, <1>2, <1>3, <1>4, WorkerChange

LEMMA MessagesAreAboutStep ==
    ASSUME TypeOK, [Next]_vars, Grow, PendingAreRecorded, MessagesAreAbout
    PROVE  MessagesAreAbout'
<1>1. ASSUME NEW w \in Workers, NEW k \in 1..Len(inbox'[w])
      PROVE  IsAbout(inbox'[w][k], files')
  <2> inbox[w] \in Seq(NewMedia)
    BY DEF TypeOK, BusTypeOK
  <2>0. \A j \in 1..Len(inbox[w]) : IsAbout(inbox[w][j], files')
    BY IsAboutStays DEF MessagesAreAbout
  <2>1. CASE inbox'[w] = inbox[w]
    BY <2>0, <2>1
  <2>2. ASSUME NEW u \in Uploads, UploadPublish(u),
               inbox'[w] = Append(inbox[w], [event |-> up[u].event, file |-> up[u].id,
                                             video |-> up[u].media = "video"])
        PROVE  IsAbout(inbox'[w][k], files')
    <3> DEFINE m == [event |-> up[u].event, file |-> up[u].id, video |-> up[u].media = "video"]
    <3>1. Pending(u)
      BY <2>2 DEF UploadPublish, Pending
    <3>2. PICK f \in files : /\ f.by = u /\ f.id = up[u].id /\ f.event = up[u].event
                             /\ f.video = (up[u].media = "video")
      BY <3>1 DEF PendingAreRecorded
    <3>3. m.video = (up[u].media = "video") /\ m.file = up[u].id /\ m.event = up[u].event
      OBVIOUS
    <3>4. m \in NewMedia
      BY <2>2 DEF UploadPublish, TypeOK, UploadTypeOK, UploadStates, NewMedia
    <3>5. inbox'[w] = Append(inbox[w], m)
      BY <2>2
    <3> HIDE DEF m
    <3>6. f.video = m.video
      BY <3>2, <3>3
    <3>7. IsAbout(m, files)
      BY <3>2, <3>3, <3>6 DEF IsAbout
    <3>8. IsAbout(m, files')
      BY <3>7, IsAboutStays
    <3>9. inbox'[w][k] = m \/ (k \in 1..Len(inbox[w]) /\ inbox'[w][k] = inbox[w][k])
      BY <3>4, <3>5
    <3> QED
      BY <2>0, <3>8, <3>9
  <2>3. CASE WorkerReceive(w) /\ inbox'[w] = Tail(inbox[w])
    <3>0. inbox[w] # <<>> /\ inbox'[w] = Tail(inbox[w]) /\ k \in 1..Len(Tail(inbox[w]))
      BY <2>3 DEF WorkerReceive
    <3>1. k + 1 \in 1..Len(inbox[w]) /\ inbox'[w][k] = inbox[w][k + 1]
      BY <3>0
    <3> QED
      BY <2>0, <3>1
  <2>4. CASE inbox'[w] = <<>>
    BY <2>4
  <2> QED
    BY <2>1, <2>2, <2>3, <2>4, InboxChange
<1>2. ASSUME NEW w \in Workers, worker'[w].pc \notin {"down", "idle"}
      PROVE  IsAbout(worker'[w].msg, files')
  <2>1. PICK m : m = worker'[w].msg /\ IsAbout(m, files)
    <3> inbox[w] \in Seq(NewMedia)
      BY DEF TypeOK, BusTypeOK
    <3>1. CASE worker[w].pc \notin {"down", "idle"} /\ worker'[w].msg = worker[w].msg
      BY <3>1 DEF MessagesAreAbout
    <3>2. CASE inbox[w] # <<>> /\ worker'[w].msg = inbox[w][1]
      <4>1. 1 \in 1..Len(inbox[w])
        BY <3>2
      <4> QED
        BY <3>2, <4>1 DEF MessagesAreAbout
    <3> QED
      BY <1>2, <3>1, <3>2, MessageTaken
  <2> QED
    BY <2>1, IsAboutStays
<1> QED
  BY <1>1, <1>2 DEF MessagesAreAbout

LEMMA NoticesChange ==
    ASSUME TypeOK, [Next]_vars
    PROVE  \/ notices' = notices \/ notices' = <<>>
           \/ notices # <<>> /\ notices' = Tail(notices)
           \/ \E w \in Workers : worker[w].pc = "publish" /\ worker[w].id \in Ids
                                 /\ notices' = Append(notices, worker[w].id)
<1>1. CASE Organise \/ Reading \/ ServerCrash \/ ServerStart \/ UNCHANGED vars
  BY <1>1 DEF Organise, Reading, ServerCrash, ServerStart, vars, busVars
<1>2. CASE Uploading
  BY <1>2 DEF Uploading, UploadNext, UploadStep, Post, Respond, UploadCheck, UploadBytes,
              UploadWrite, UploadRecord, UploadCache, UploadPublish, PublishNewPhoto, busVars
<1>3. CASE Thumbnailing
  <2>1. ASSUME NEW w \in Workers, WorkerPublish(w)
        PROVE  \/ notices' = notices
               \/ worker[w].pc = "publish" /\ worker[w].id \in Ids
                  /\ notices' = Append(notices, worker[w].id)
    BY <2>1, WorkerLocals DEF WorkerPublish, PublishNewThumbnail
  <2> QED
    BY <1>3, <2>1 DEF Thumbnailing, WorkerNext, WorkerStep, Announce, WorkerStart, WorkerCrash,
             WorkerReceive, WorkerLookup, WorkerFetch, WorkerThumb, WorkerBytes, WorkerWrite,
             WorkerCache, WorkerRecord, busVars
<1> QED
  BY <1>1, <1>2, <1>3 DEF Next

LEMMA NoticesAreRecordedStep ==
    ASSUME TypeOK, [Next]_vars, Grow, NoticesAreRecorded
    PROVE  NoticesAreRecorded'
<1>0. ThumbIds' = {t.id : t \in thumbs'} /\ ThumbIds \subseteq ThumbIds'
  BY DEF ThumbIds, Grow
<1>1. ASSUME NEW k \in 1..Len(notices') PROVE notices'[k] \in ThumbIds
  <2> notices \in Seq(Ids)
    BY DEF TypeOK, BusTypeOK
  <2>1. CASE notices' = notices
    BY <2>1 DEF NoticesAreRecorded
  <2>2. CASE notices' = <<>>
    BY <2>2
  <2>3. CASE notices # <<>> /\ notices' = Tail(notices)
    <3>1. k + 1 \in 1..Len(notices) /\ notices'[k] = notices[k + 1]
      BY <2>3
    <3> QED
      BY <3>1 DEF NoticesAreRecorded
  <2>4. ASSUME NEW i \in Ids, i \in ThumbIds, notices' = Append(notices, i)
        PROVE  notices'[k] \in ThumbIds
    <3>1. notices'[k] = i \/ (k \in 1..Len(notices) /\ notices'[k] = notices[k])
      BY <2>4
    <3> QED
      BY <2>4, <3>1 DEF NoticesAreRecorded
  <2> QED
    BY <2>1, <2>2, <2>3, <2>4, NoticesChange DEF NoticesAreRecorded
<1>2. ASSUME NEW w \in Workers, worker'[w].pc = "publish" PROVE worker'[w].id \in ThumbIds'
  <2> worker \in [Workers -> WorkerStates] /\ worker[w] \in WorkerStates
    BY DEF TypeOK, WorkerTypeOK
  <2>1. CASE worker'[w] = worker[w]
    BY <1>0, <1>2, <2>1 DEF NoticesAreRecorded
  <2>2. CASE WorkerStep(w)
    <3>1. CASE WorkerRecord(w)
      <4> DEFINE row == [id |-> worker[w].id, event |-> worker[w].msg.event,
                         file |-> worker[w].msg.file]
      <4>1. ~Release(w)
        BY <1>2 DEF Release, Rest
      <4>2. thumbs' = thumbs \cup {row} /\ worker'[w].id = worker[w].id
        BY <3>1, <4>1 DEF WorkerRecord, WorkerGoto, WorkerStates
      <4>3. row \in thumbs' /\ row.id = worker'[w].id
        BY <4>2
      <4> HIDE DEF row
      <4> QED
        BY <1>0, <4>3
    <3>2. ~WorkerRecord(w) => FALSE
      BY <1>2, <2>2 DEF WorkerStep, WorkerReceive, WorkerLookup, WorkerFetch, WorkerThumb,
            WorkerBytes, WorkerWrite, WorkerCache, WorkerPublish, WorkerGoto, Stored, Release,
            Rest, WorkerStates
    <3> QED
      BY <3>1, <3>2
  <2>3. CASE worker'[w] # worker[w] /\ (WorkerStart(w) \/ WorkerCrash(w) \/ ServerCrash)
    BY <1>2, <2>3 DEF WorkerStart, WorkerCrash, ServerCrash, Rest
  <2> QED
    BY <2>1, <2>2, <2>3, WorkerChange
<1> QED
  BY <1>0, <1>1, <1>2 DEF NoticesAreRecorded

-----------------------------------------------------------------------------
(* Objects *)

\* What Store leaves behind under the identifier it returns.
LEMMA StoredIsSomething ==
    ASSUME TypeOK, NEW s \in Stores, NEW c, c # Nothing, NEW i \in Ids,
           StoreFresh(s, i, c) \/ StoreWrite(s, i, c)
    PROVE  objects'[s][i] # Nothing
<1> objects \in [Stores -> [Ids -> Contents]]
  BY DEF TypeOK, MediaTypeOK
<1>1. ASSUME NEW d, d # Nothing, Put(s, i, d) PROVE objects'[s][i] # Nothing
  BY <1>1 DEF Put
<1>2. CASE StoreFresh(s, i, c)
  BY <1>1, <1>2 DEF StoreFresh
<1>3. CASE StoreWrite(s, i, c)
  <2> PICK d \in {c, Broken} : Put(s, i, d)
    BY <1>3 DEF StoreWrite
  <2> QED
    BY <1>1, ContentsDiffer
<1> QED
  BY <1>2, <1>3

LEMMA StoredBeforeRecordedStep ==
    ASSUME TypeOK, [Next]_vars, Grow, NothingUnborn, WorkersWrote, StoredBeforeRecorded
    PROVE  StoredBeforeRecorded'
<1>1. ASSUME NEW u \in Uploads, up'[u].pc = "record"
      PROVE  objects'[events'[up'[u].event].store][up'[u].id] # Nothing
  <2> up \in [Uploads -> UploadStates] /\ up[u] \in UploadStates
    BY DEF TypeOK, UploadTypeOK
  <2>1. CASE up'[u] = up[u]
    <3>1. up[u].pc = "record" /\ up[u].event \in Events /\ up[u].id \in Ids /\ Born(up[u].event)
      BY <1>1, <2>1 DEF TypeOK, UploadTypeOK, UploadStates, NothingUnborn
    <3> QED
      BY <2>1, <3>1, EventObjectsStay DEF StoredBeforeRecorded
  <2>2. CASE UploadStep(u)
    <3>1. CASE UploadBytes(u)
      <4>0. /\ up[u].event \in Events /\ UploadStore(u) \in Stores /\ events' = events
        BY <3>1 DEF UploadBytes, TypeOK, UploadTypeOK, UploadStates, UploadStore, StoreOf,
                    MediaTypeOK, EventRows
      <4>1. PICK i \in FreshIds : /\ StoreFresh(UploadStore(u), i, Photo(u))
                                  /\ up' = [up EXCEPT ![u].pc = "record", ![u].id = i]
        BY <1>1, <3>1 DEF UploadBytes, Goto, UploadStates
      <4>2. i \in Ids /\ up'[u].id = i /\ up'[u].event = up[u].event
        BY <4>1 DEF UploadStates, Ids
      <4>3. objects'[UploadStore(u)][i] # Nothing
        BY <4>0, <4>1, <4>2, StoredIsSomething, ContentsDiffer
      <4> QED
        BY <4>0, <4>2, <4>3 DEF UploadStore, StoreOf
    <3>2. CASE UploadWrite(u)
      <4>0. /\ up[u].event \in Events /\ UploadStore(u) \in Stores /\ events' = events
            /\ up[u].name \in Ids
        BY <3>2 DEF UploadWrite, TypeOK, UploadTypeOK, UploadStates, UploadStore, StoreOf,
                    MediaTypeOK, EventRows, Ids
      <4>1. /\ StoreWrite(UploadStore(u), up[u].name, Photo(u))
            /\ up' = [up EXCEPT ![u].pc = "record", ![u].id = up[u].name]
        BY <1>1, <3>2 DEF UploadWrite, Goto, UploadStates
      <4>2. up'[u].id = up[u].name /\ up'[u].event = up[u].event
        BY <4>1 DEF UploadStates
      <4>3. objects'[UploadStore(u)][up[u].name] # Nothing
        BY <4>0, <4>1, StoredIsSomething, ContentsDiffer
      <4> QED
        BY <4>0, <4>2, <4>3 DEF UploadStore, StoreOf
    <3>3. CASE UploadCheck(u) \/ UploadRecord(u) \/ UploadCache(u) \/ UploadPublish(u)
      BY <1>1, <3>3 DEF UploadCheck, UploadRecord, UploadCache, UploadPublish, Goto, UploadStates
    <3> QED
      BY <2>2, <3>1, <3>2, <3>3 DEF UploadStep
  <2>3. ASSUME NEW r \in Requests, u \in FilesOf(r), Post(r) PROVE FALSE
    BY <1>1, <2>3 DEF Post
  <2>4. CASE ServerCrash
    BY <1>1, <2>1, <2>4 DEF ServerCrash, UploadsCrash
  <2> QED
    BY <2>1, <2>2, <2>3, <2>4, UploadChange
<1>2. ASSUME NEW w \in Workers, worker'[w].pc \in {"cache", "record"}
      PROVE  objects'[events'[worker'[w].msg.event].store][worker'[w].id] # Nothing
  <2> worker \in [Workers -> WorkerStates] /\ worker[w] \in WorkerStates
    BY DEF TypeOK, WorkerTypeOK
  <2>1. ASSUME worker[w].pc \in {"cache", "record"}, worker'[w].msg = worker[w].msg,
               worker'[w].id = worker[w].id
        PROVE  objects'[events'[worker'[w].msg.event].store][worker'[w].id] # Nothing
    <3>1. /\ worker[w].msg.event \in Events /\ worker[w].id \in Ids
          /\ Born(worker[w].msg.event)
      BY <2>1, WorkerLocals DEF NewMedia, NothingUnborn
    <3> QED
      BY <2>1, <3>1, EventObjectsStay DEF StoredBeforeRecorded
  <2>2. CASE worker'[w] = worker[w]
    BY <1>2, <2>1, <2>2
  <2>3. CASE WorkerStep(w)
    <3>0. ASSUME WorkerBytes(w) \/ WorkerWrite(w)
          PROVE  /\ WorkerStore(w) \in Stores /\ worker[w].bytes # Nothing /\ events' = events
                 /\ worker[w].msg.event \in Events
      BY <3>0, WorkerLocals DEF WorkerBytes, WorkerWrite, WorkersWrote, NewMedia
    <3>1. ASSUME NEW i \in Ids, WorkerBytes(w) \/ WorkerWrite(w), Stored(w, i),
                 objects'[WorkerStore(w)][i] # Nothing
          PROVE  objects'[events'[worker'[w].msg.event].store][worker'[w].id] # Nothing
      <4>1. worker'[w].msg = worker[w].msg /\ worker'[w].id = i
        BY <3>1 DEF Stored, WorkerStates
      <4> QED
        BY <3>0, <3>1, <4>1 DEF WorkerStore, StoreOf
    <3>2. CASE WorkerBytes(w)
      <4>1. PICK i \in FreshIds :
               StoreFresh(WorkerStore(w), i, worker[w].bytes) /\ Stored(w, i)
        BY <1>2, <3>2 DEF WorkerBytes, WorkerGoto, Release, Rest, WorkerStates
      <4>2. i \in Ids
        BY DEF Ids
      <4>3. objects'[WorkerStore(w)][i] # Nothing
        BY <3>0, <3>2, <4>1, <4>2, StoredIsSomething
      <4> QED
        BY <3>1, <3>2, <4>1, <4>2, <4>3
    <3>3. CASE WorkerWrite(w)
      <4>1. PICK f \in MsgFiles(w) :
               /\ StoreWrite(WorkerStore(w), ThumbNameOf(f), worker[w].bytes)
               /\ Stored(w, ThumbNameOf(f))
        BY <1>2, <3>3 DEF WorkerWrite, Release, Rest, WorkerStates
      <4>2. ThumbNameOf(f) \in Ids
        BY ThumbNameType DEF MsgFiles, TypeOK, MediaTypeOK, Ids
      <4>3. objects'[WorkerStore(w)][ThumbNameOf(f)] # Nothing
        BY <3>0, <3>3, <4>1, <4>2, StoredIsSomething
      <4> QED
        BY <3>1, <3>3, <4>1, <4>2, <4>3
    <3>4. CASE WorkerCache(w)
      BY <2>1, <3>4 DEF WorkerCache, WorkerGoto, WorkerStates
    <3>5. ~(WorkerBytes(w) \/ WorkerWrite(w) \/ WorkerCache(w)) => FALSE
      BY <1>2, <2>3 DEF WorkerStep, WorkerReceive, WorkerLookup, WorkerFetch, WorkerThumb,
            WorkerRecord, WorkerPublish, WorkerGoto, Release, Rest, WorkerStates
    <3> QED
      BY <3>2, <3>3, <3>4, <3>5
  <2>4. CASE worker'[w] # worker[w] /\ (WorkerStart(w) \/ WorkerCrash(w) \/ ServerCrash)
    BY <1>2, <2>4 DEF WorkerStart, WorkerCrash, ServerCrash, Rest
  <2> QED
    BY <2>2, <2>3, <2>4, WorkerChange
<1> QED
  BY <1>1, <1>2 DEF StoredBeforeRecorded, Object, StoreOf

LEMMA RowsHaveObjectsStep ==
    ASSUME TypeOK, [Next]_vars, Grow, NothingUnborn, WorkersWrote, StoredBeforeRecorded,
           RowsHaveObjects
    PROVE  RowsHaveObjects'
<1>0. ASSUME NEW e \in Events, NEW i \in Ids, Born(e), Object(e, i) # Nothing
      PROVE  objects'[events'[e].store][i] # Nothing
  BY <1>0, EventObjectsStay
<1>1. ASSUME NEW f \in files' PROVE objects'[events'[f.event].store][f.id] # Nothing
  <2>1. CASE f \in files
    <3>1. f.event \in Events /\ f.id \in Ids /\ Born(f.event) /\ Object(f.event, f.id) # Nothing
      BY <2>1 DEF TypeOK, MediaTypeOK, FileRows, NothingUnborn, RowsHaveObjects
    <3> QED
      BY <1>0, <3>1
  <2>2. CASE f \notin files
    <3> PICK u \in Uploads : UploadRecord(u) /\ f.id = up[u].id /\ f.event = up[u].event
      BY <2>2, FileAdded
    <3>1. /\ up[u].event \in Events /\ up[u].id \in Ids /\ Born(up[u].event)
          /\ Object(up[u].event, up[u].id) # Nothing
      BY DEF UploadRecord, TypeOK, UploadTypeOK, UploadStates, NothingUnborn, StoredBeforeRecorded
    <3> QED
      BY <1>0, <3>1
  <2> QED
    BY <2>1, <2>2
<1>2. ASSUME NEW t \in thumbs' PROVE objects'[events'[t.event].store][t.id] # Nothing
  <2>1. CASE t \in thumbs
    <3>1. t.event \in Events /\ t.id \in Ids /\ Born(t.event) /\ Object(t.event, t.id) # Nothing
      BY <2>1 DEF TypeOK, MediaTypeOK, ThumbRows, NothingUnborn, RowsHaveObjects
    <3> QED
      BY <1>0, <3>1
  <2>2. CASE t \notin thumbs
    <3> PICK w \in Workers :
          WorkerRecord(w) /\ t.id = worker[w].id /\ t.event = worker[w].msg.event
      BY <2>2, ThumbAdded
    <3>1. worker[w].pc = "record"
      BY DEF WorkerRecord
    <3>2. /\ worker[w].msg.event \in Events /\ worker[w].id \in Ids
          /\ Born(worker[w].msg.event) /\ Object(worker[w].msg.event, worker[w].id) # Nothing
      BY <3>1, WorkerLocals DEF NewMedia, NothingUnborn, StoredBeforeRecorded
    <3> QED
      BY <1>0, <3>2
  <2> QED
    BY <2>1, <2>2
<1> QED
  BY <1>1, <1>2 DEF RowsHaveObjects, Object, StoreOf

-----------------------------------------------------------------------------
(* Requests, and what imagor is given *)

\* A request begins at a row, or at nothing.
LEMMA LookupFinds ==
    ASSUME TypeOK, NEW r \in Readers, NEW table \in Tables, NEW id \in Ids,
           ReadLookup(r, table, id), reader'[r].pc # "failed"
    PROVE  /\ \E row \in Rows(table) :
                 /\ row.id = id /\ reader'[r].event = row.event
                 /\ reader'[r].late = ~Present(row.event)
                 /\ Present(row.event) \/ reader'[r].pc = "getEvent"
           /\ reader'[r].table = table /\ reader'[r].id = id
           /\ reader'[r].pc \in {"cacheGet", "getEvent"}
<1> reader \in [Readers -> ReaderStates]
  BY DEF TypeOK, ReaderTypeOK
<1>1. reader'[r] # [Idle EXCEPT !.pc = "failed", !.table = table, !.id = id]
  BY DEF Idle
<1>2. PICK row \in Rows(table) :
        /\ row.id = id
        /\ reader' = [reader EXCEPT ![r] =
             [pc |-> IF UsesCache(row.event) THEN "cacheGet" ELSE "getEvent",
              table |-> table, id |-> id, event |-> row.event,
              useCache |-> UsesCache(row.event),
              late |-> ~Present(row.event), got |-> Nothing]]
  BY <1>1 DEF ReadLookup
<1> DEFINE new == [pc |-> IF UsesCache(row.event) THEN "cacheGet" ELSE "getEvent",
                   table |-> table, id |-> id, event |-> row.event,
                   useCache |-> UsesCache(row.event),
                   late |-> ~Present(row.event), got |-> Nothing]
<1>3. /\ new.event = row.event /\ new.table = table /\ new.id = id
      /\ new.pc = IF UsesCache(row.event) THEN "cacheGet" ELSE "getEvent"
  OBVIOUS
<1>4. new.late = ~Present(row.event)
  OBVIOUS
<1>5. reader'[r] = new
  BY <1>2
<1> HIDE DEF new
<1>6. reader'[r].late = ~Present(row.event)
  BY <1>4, <1>5
<1>7. Present(row.event) \/ reader'[r].pc = "getEvent"
  BY <1>3, <1>5 DEF UsesCache
<1> QED
  BY <1>2, <1>3, <1>5, <1>6, <1>7

LEMMA RequestsFollowRowsStep ==
    ASSUME TypeOK, [Next]_vars, Grow, NothingUnborn, RequestsFollowRows
    PROVE  RequestsFollowRows'
<1> DEFINE Right(r) ==
      /\ reader[r].table \in Tables
      /\ reader[r].table = "picture" =>
            \E f \in files : f.id = reader[r].id /\ f.event = reader[r].event
      /\ reader[r].table = "thumbnail" =>
            \E t \in thumbs : t.id = reader[r].id /\ t.event = reader[r].event
      /\ reader[r].late => reader[r].pc = "getEvent" /\ ~Present(reader[r].event)
<1> SUFFICES ASSUME NEW r \in Readers, reader'[r].pc \notin {"idle", "failed"}
             PROVE  Right(r)'
  BY DEF RequestsFollowRows
<1> reader \in [Readers -> ReaderStates] /\ reader[r] \in ReaderStates
  BY DEF TypeOK, ReaderTypeOK
<1> files \subseteq files' /\ thumbs \subseteq thumbs'
  BY DEF Grow
<1>1. ASSUME reader[r].pc \notin {"idle", "failed"}, reader'[r].event = reader[r].event,
             reader'[r].id = reader[r].id, reader'[r].table = reader[r].table,
             reader'[r].late = reader[r].late, reader[r].late => reader'[r].pc = reader[r].pc
      PROVE  Right(r)'
  <2>1. reader[r].event \in Events /\ Born(reader[r].event)
    BY <1>1 DEF TypeOK, ReaderTypeOK, ReaderStates, NothingUnborn
  <2>2. Right(r)
    BY <1>1 DEF RequestsFollowRows
  <2>3. reader[r].late => events'[reader[r].event].status # "present"
    BY <2>1, <2>2, DeletedStays
  <2>4. reader'[r].late => reader'[r].pc = "getEvent" /\ events'[reader'[r].event].status # "present"
    BY <1>1, <2>2, <2>3
  <2> QED
    BY <1>1, <2>2, <2>4 DEF Present
<1>2. CASE reader'[r] = reader[r]
  BY <1>1, <1>2
<1>3. CASE ReadStep(r)
  <2>1. /\ reader[r].pc \notin {"idle", "failed"} /\ reader'[r].event = reader[r].event
        /\ reader'[r].id = reader[r].id /\ reader'[r].table = reader[r].table
    BY <1>3, ReaderKeeps
  <2>2. reader'[r].late = reader[r].late
    BY <1>3 DEF ReadStep, ReadCache, ReadEvent, ReadStorage, ReadFill, ReadGoto, ReadFails,
                ReaderStates
  <2>3. ~reader[r].late
    <3>1. ASSUME reader[r].late PROVE FALSE
      <4>1. reader[r].pc = "getEvent" /\ ~Present(reader[r].event)
        BY <2>1, <3>1 DEF RequestsFollowRows
      <4>2. ReadEvent(r)
        BY <1>3, <4>1 DEF ReadStep, ReadCache, ReadStorage, ReadFill
      <4> QED
        BY <4>1, <4>2 DEF ReadEvent, ReadFails, ReadGoto, ReaderStates
    <3> QED
      BY <3>1
  <2> QED
    BY <1>1, <2>1, <2>2, <2>3
<1>4. ASSUME NEW table \in Tables, NEW id \in Ids, ReadLookup(r, table, id) PROVE Right(r)'
  <2>1. PICK row \in Rows(table) :
          /\ row.id = id /\ reader'[r].event = row.event
          /\ reader'[r].late = ~Present(row.event)
          /\ Present(row.event) \/ reader'[r].pc = "getEvent"
    BY <1>4, LookupFinds
  <2>2. /\ reader'[r].table = table /\ reader'[r].id = id
    BY <1>4, LookupFinds
  <2>3. row.event \in Events /\ Born(row.event)
    BY DEF Rows, TypeOK, MediaTypeOK, FileRows, ThumbRows, NothingUnborn
  <2>4. reader'[r].late => events'[row.event].status # "present"
    BY <2>1, <2>3, DeletedStays
  <2>5. table = "picture" => row \in files
    BY DEF Rows
  <2>6. table = "thumbnail" => row \in thumbs
    BY DEF Rows
  <2>7. reader'[r].late => reader'[r].pc = "getEvent"
    BY <2>1
  <2> QED
    BY <2>1, <2>2, <2>4, <2>5, <2>6, <2>7 DEF Present
<1>5. CASE Browse(r)
  <2> PICK table \in Tables : \E row \in Rows(table) : ReadLookup(r, table, row.id)
    BY <1>5 DEF Browse
  <2> PICK row \in Rows(table) : ReadLookup(r, table, row.id)
    OBVIOUS
  <2>1. row.id \in Ids
    BY DEF Rows, TypeOK, MediaTypeOK, FileRows, ThumbRows
  <2> QED
    BY <1>4, <2>1
<1>6. CASE r \in Workers /\ WorkerFetch(r)
  <2>1. ReadLookup(r, "picture", worker[r].msg.file)
    BY <1>6 DEF WorkerFetch, Idle
  <2>2. worker[r].msg.file \in Ids
    BY <1>6, WorkerLocals DEF WorkerFetch, NewMedia
  <2> QED
    BY <1>4, <2>1, <2>2 DEF Tables
<1>7. CASE ReadDone(r) \/ (r \in Workers /\ (WorkerStart(r) \/ WorkerThumb(r)))
  BY <1>7 DEF ReadDone, WorkerStart, WorkerThumb, Idle
<1>8. CASE ServerCrash
  <2>1. reader'[r] = reader[r]
    BY <1>8 DEF ServerCrash, ReadersCrash
  <2> QED
    BY <1>2, <2>1
<1> QED
  BY <1>2, <1>3, <1>5, <1>6, <1>7, <1>8, ReaderChange

LEMMA FetchesFollowMessagesStep ==
    ASSUME TypeOK, [Next]_vars, FetchesFollowMessages
    PROVE  FetchesFollowMessages'
<1> SUFFICES ASSUME NEW w \in Workers, worker'[w].pc = "thumb", reader'[w].pc # "failed"
             PROVE  /\ reader'[w].pc # "idle" /\ reader'[w].table = "picture"
                    /\ reader'[w].id = worker'[w].msg.file
  BY DEF FetchesFollowMessages
<1> worker \in [Workers -> WorkerStates] /\ worker[w] \in WorkerStates
  BY DEF TypeOK, WorkerTypeOK
<1> w \in Readers /\ reader \in [Readers -> ReaderStates] /\ reader[w] \in ReaderStates
  BY PipelineAssumption DEF TypeOK, ReaderTypeOK
<1>1. CASE WorkerFetch(w)
  <2>1. ReadLookup(w, "picture", worker[w].msg.file)
    BY <1>1 DEF WorkerFetch, Idle
  <2>2. worker[w].msg.file \in Ids /\ worker'[w].msg = worker[w].msg
    BY <1>1, WorkerLocals DEF WorkerFetch, WorkerGoto, NewMedia, WorkerStates
  <2>3. reader'[w].pc # "idle" /\ reader'[w].table = "picture"
        /\ reader'[w].id = worker[w].msg.file
    BY <2>1, <2>2, LookupFinds DEF Tables
  <2> QED
    BY <2>2, <2>3
<1>2. CASE ~WorkerFetch(w)
  <2>1. worker'[w] = worker[w]
    BY <1>2, ComesToThumb
  <2>2. worker[w].pc = "thumb"
    BY <2>1
  <2>3. CASE reader'[w] = reader[w]
    BY <2>1, <2>2, <2>3 DEF FetchesFollowMessages
  <2>4. CASE ReadStep(w)
    <3>1. /\ reader[w].pc \notin {"idle", "failed"} /\ reader'[w].id = reader[w].id
          /\ reader'[w].table = reader[w].table
      BY <2>4, ReaderKeeps
    <3>2. reader'[w].pc # "idle"
      BY <2>4 DEF ReadStep, ReadCache, ReadEvent, ReadStorage, ReadFill, ReadGoto, ReadFails,
                  ReaderStates
    <3> QED
      BY <2>1, <2>2, <3>1, <3>2 DEF FetchesFollowMessages
  <2>5. CASE ServerCrash
    <3>1. reader'[w] = reader[w]
      BY <2>5 DEF ServerCrash, ReadersCrash
    <3> QED
      BY <2>3, <3>1
  <2>6. ~WorkerStart(w) /\ ~WorkerThumb(w)
    BY <2>1, <2>2 DEF WorkerStart, WorkerThumb, Release, Rest, WorkerStates
  <2>7. w \notin Browsers
    BY DEF Browsers
  <2> QED
    BY <1>2, <2>3, <2>4, <2>5, <2>6, <2>7, ReaderChange
<1> QED
  BY <1>1, <1>2

\* What ThumbImage and ThumbVideo make of the picture they asked for.
LEMMA ThumbDepicts ==
    ASSUME TypeOK, BytesAgree, FilesAreUnique, MessagesAreAbout, RequestsFollowRows,
           FetchesFollowMessages, NEW w \in Workers, WorkerThumb(w), worker'[w].pc = "store",
           Fresh(worker[w].msg.event)
    PROVE  \E f \in files : /\ f.id = worker[w].msg.file /\ f.event = worker[w].msg.event
                            /\ worker'[w].bytes \in MadeFrom(f)
<1> worker \in [Workers -> WorkerStates] /\ worker[w] \in WorkerStates
  BY DEF TypeOK, WorkerTypeOK
<1> w \in Readers
  BY PipelineAssumption
<1>1. worker[w].pc = "thumb"
  BY DEF WorkerThumb
<1>2. PICK g \in files : /\ g.id = worker[w].msg.file /\ g.event = worker[w].msg.event
                         /\ g.video = worker[w].msg.video
  BY <1>1 DEF MessagesAreAbout, IsAbout
<1>3. CASE TakesErrorPage(w) /\ worker'[w].bytes = Page
  <2>1. worker[w].msg.video
    BY <1>3 DEF TakesErrorPage
  <2>2. g.video
    BY <1>2, <2>1
  <2> QED
    BY <1>2, <1>3, <2>2 DEF MadeFrom
<1>4. CASE reader[w].pc = "served" /\ worker'[w].bytes \in Thumbnailed(reader[w].got)
  <2>1. reader[w].table = "picture" /\ reader[w].id = worker[w].msg.file
    BY <1>1, <1>4 DEF FetchesFollowMessages
  <2>2. PICK f \in files : f.id = reader[w].id /\ f.event = reader[w].event
    BY <1>4, <2>1 DEF RequestsFollowRows
  <2>3. f = g
    BY <1>2, <2>1, <2>2 DEF FilesAreUnique
  <2>4. reader[w].event = worker[w].msg.event
    BY <1>2, <2>2, <2>3
  <2>5. Object(reader[w].event, reader[w].id) = reader[w].got
    BY <1>4, <2>4 DEF BytesAgree, ReadersRead
  <2>6. Object(f.event, f.id) = Photo(f.by)
    BY <2>2, <2>4 DEF BytesAgree, FilesWritten
  <2>7. reader[w].got = Photo(f.by)
    BY <2>2, <2>5, <2>6
  <2>8. Thumbnailed(Photo(f.by)) = {Thumb(f.by)}
    BY DEF Thumbnailed, Photo, Thumb
  <2>9. worker'[w].bytes = Thumb(g.by)
    BY <1>4, <2>3, <2>7, <2>8
  <2> QED
    BY <1>2, <2>9 DEF MadeFrom
<1>5. \/ TakesErrorPage(w) /\ worker'[w].bytes = Page
      \/ (reader[w].pc = "served" /\ worker'[w].bytes \in Thumbnailed(reader[w].got))
  <2>1. ~Release(w)
    BY DEF Release, Rest
  <2> QED
    BY <2>1 DEF WorkerThumb, WorkerStates
<1> QED
  BY <1>3, <1>4, <1>5

LEMMA WorkersDepictStep ==
    ASSUME TypeOK, [Next]_vars, Grow, BytesAgree, FilesAreUnique, MessagesAreAbout,
           RequestsFollowRows, FetchesFollowMessages, WorkersDepict
    PROVE  WorkersDepict'
<1> SUFFICES ASSUME NEW w \in Workers, worker'[w].pc \in {"store", "write", "cache", "record"},
                    Fresh(worker[w].msg.event)'
             PROVE  \E f \in files' :
                       /\ f.id = worker'[w].msg.file /\ f.event = worker'[w].msg.event
                       /\ worker'[w].bytes \in MadeFrom(f)
  BY DEF WorkersDepict
<1> worker \in [Workers -> WorkerStates] /\ worker[w] \in WorkerStates
  BY DEF TypeOK, WorkerTypeOK
<1>0. worker[w].pc \notin {"down", "idle"} /\ worker'[w].msg = worker[w].msg
  BY MessageTaken
<1>1. Fresh(worker[w].msg.event)
  <2>1. worker[w].msg.event \in Events /\ Born(worker[w].msg.event)
    BY <1>0, WorkerLocals DEF NewMedia, BytesAgree, NothingUnborn
  <2>2. events'[worker[w].msg.event].store = events[worker[w].msg.event].store
    BY <2>1 DEF Grow
  <2> QED
    BY <1>0, <2>2 DEF Fresh, StoreOf
<1>2. \E f \in files : /\ f.id = worker[w].msg.file /\ f.event = worker[w].msg.event
                       /\ worker'[w].bytes \in MadeFrom(f)
  <2>1. CASE WorkerThumb(w)
    <3>1. worker'[w].pc = "store"
      BY <2>1 DEF WorkerThumb, Release, Rest, WorkerStates
    <3> QED
      BY <1>1, <2>1, <3>1, ThumbDepicts
  <2>2. CASE worker[w].pc \in {"store", "write", "cache", "record"} /\ worker'[w].bytes = worker[w].bytes
    BY <1>1, <2>2 DEF WorkersDepict
  <2>3. CASE WorkerStep(w) /\ ~WorkerThumb(w)
    <3>1. worker[w].pc \in {"store", "write", "cache", "record"} /\ worker'[w].bytes = worker[w].bytes
      BY <2>3 DEF WorkerStep, WorkerReceive, WorkerLookup, WorkerFetch, WorkerBytes, WorkerWrite,
            WorkerCache, WorkerRecord, WorkerPublish, WorkerGoto, Stored, Release, Rest, WorkerStates
    <3> QED
      BY <2>2, <3>1
  <2>4. CASE worker'[w] = worker[w]
    BY <2>2, <2>4
  <2>5. CASE worker'[w] # worker[w] /\ (WorkerStart(w) \/ WorkerCrash(w) \/ ServerCrash)
    BY <2>5 DEF WorkerStart, WorkerCrash, ServerCrash, Rest
  <2> QED
    BY <2>1, <2>3, <2>4, <2>5, WorkerChange
<1> QED
  BY <1>0, <1>2 DEF Grow

LEMMA ThumbnailsDepictStep ==
    ASSUME TypeOK, [Next]_vars, Grow, BytesAgree, FilesAreUnique, MessagesAreAbout, WorkersDepict,
           ThumbnailsDepictTheirFiles
    PROVE  ThumbnailsDepictTheirFiles'
<1>0. ASSUME NEW t, t.event \in Events, t.id \in Ids, Born(t.event), NEW f \in files,
             f.id = t.file, f.event = t.event,
             Fresh(t.event) => Object(t.event, t.id) \in MadeFrom(f)
      PROVE  /\ f \in files'
             /\ Kind[events'[t.event].store] = "fresh" =>
                   objects'[events'[t.event].store][t.id] \in MadeFrom(f)
  <2>1. f \in files'
    BY DEF Grow
  <2>2. CASE ~Fresh(t.event)
    <3>1. events'[t.event].store = events[t.event].store
      BY <1>0 DEF Grow, Born
    <3> QED
      BY <2>1, <2>2, <3>1 DEF Fresh, StoreOf
  <2>3. CASE Fresh(t.event)
    <3> DEFINE e == t.event
               i == t.id
    <3>1. PICK c \in MadeFrom(f) : Object(e, i) = c
      BY <1>0, <2>3
    <3>2. e \in Events /\ i \in Ids /\ c # Nothing /\ events[e].status # "unborn"
      BY <1>0, ContentsDiffer DEF Born, MadeFrom, Page, Nothing
    <3>3. Kind[events[e].store] = "fresh" => objects[events[e].store][i] = c
      BY <3>1 DEF Fresh, Object, StoreOf
    <3> HIDE DEF e, i
    <3>4. Kind[events'[e].store] = "fresh" => objects'[events'[e].store][i] = c
      BY <3>2, <3>3, BytesStay
    <3> QED
      BY <2>1, <3>4 DEF e, i
  <2> QED
    BY <2>2, <2>3
<1>1. ASSUME NEW t \in thumbs'
      PROVE  \E f \in files' :
                /\ f.id = t.file /\ f.event = t.event
                /\ Kind[events'[t.event].store] = "fresh" =>
                      objects'[events'[t.event].store][t.id] \in MadeFrom(f)
  <2>1. CASE t \in thumbs
    <3>1. t.event \in Events /\ t.id \in Ids /\ Born(t.event)
      BY <2>1 DEF TypeOK, MediaTypeOK, ThumbRows, BytesAgree, NothingUnborn
    <3>2. PICK f \in files :
             /\ f.id = t.file /\ f.event = t.event
             /\ Fresh(t.event) => Object(t.event, t.id) \in MadeFrom(f)
      BY <2>1 DEF ThumbnailsDepictTheirFiles
    <3> QED
      BY <1>0, <3>1, <3>2
  <2>2. CASE t \notin thumbs
    <3> PICK w \in Workers :
          /\ WorkerRecord(w)
          /\ t.id = worker[w].id /\ t.event = worker[w].msg.event /\ t.file = worker[w].msg.file
      BY <2>2, ThumbAdded
    <3>1. worker[w].pc = "record"
      BY DEF WorkerRecord
    <3>2. t.event \in Events /\ t.id \in Ids /\ Born(t.event)
      BY <3>1, WorkerLocals DEF NewMedia, BytesAgree, NothingUnborn
    <3>3. PICK g \in files : g.id = t.file /\ g.event = t.event
      BY <3>1 DEF MessagesAreAbout, IsAbout
    <3>4. CASE ~Fresh(t.event)
      BY <1>0, <3>2, <3>3, <3>4
    <3>5. CASE Fresh(t.event)
      <4>1. PICK f \in files : /\ f.id = t.file /\ f.event = t.event
                               /\ worker[w].bytes \in MadeFrom(f)
        BY <3>1, <3>5 DEF WorkersDepict
      <4>2. Object(t.event, t.id) = worker[w].bytes
        BY <3>1, <3>5 DEF BytesAgree, WorkersWrote
      <4>3. Object(t.event, t.id) \in MadeFrom(f)
        BY <4>1, <4>2
      <4> QED
        BY <1>0, <3>2, <4>1, <4>3
    <3> QED
      BY <3>4, <3>5
  <2> QED
    BY <2>1, <2>2
<1> QED
  BY <1>1 DEF ThumbnailsDepictTheirFiles, Fresh, Object, StoreOf, MadeFrom

-----------------------------------------------------------------------------
(* One place for every photo *)

\* The step moves no photo on, though some may be lost.
NoneMoves ==
    /\ \A u \in Uploads : up'[u].pc \in {"cache", "publish"} => Pending(u) /\ up'[u].id = up[u].id
    /\ \A w \in Workers :
          /\ inbox'[w] = inbox[w] \/ inbox'[w] = <<>>
          /\ worker'[w].pc \notin {"down", "idle", "publish"} =>
                Handling(w) /\ worker'[w].msg = worker[w].msg
    /\ thumbs' = thumbs

\* Upload u records its file, whose identifier is new.
MovesIn(u) ==
    /\ up[u].id \notin FileIds /\ up'[u].id = up[u].id
    /\ \A v \in Uploads \ {u} : up'[v] = up[v]
    /\ UNCHANGED <<inbox, worker, thumbs>>

\* Upload u hands its photo to the queue of worker w.
MovesToQueue(u, w) ==
    /\ Pending(u) /\ up'[u].pc = "stored"
    /\ \A v \in Uploads \ {u} : up'[v] = up[v]
    /\ \E m \in NewMedia : m.file = up[u].id /\ inbox'[w] = Append(inbox[w], m)
    /\ \A v \in Workers \ {w} : inbox'[v] = inbox[v]
    /\ UNCHANGED <<worker, thumbs>>

\* Worker w takes the first photo of its queue.
MovesToWorker(w) ==
    /\ inbox[w] # <<>> /\ inbox'[w] = Tail(inbox[w])
    /\ worker'[w].msg = inbox[w][1]
    /\ \A v \in Workers \ {w} : inbox'[v] = inbox[v] /\ worker'[v] = worker[v]
    /\ UNCHANGED <<up, thumbs>>

\* Worker w records its thumbnail.
MovesToRow(w) ==
    /\ Handling(w) /\ worker'[w].pc = "publish"
    /\ \A v \in Workers \ {w} : worker'[v] = worker[v]
    /\ \E t : t.file = worker[w].msg.file /\ thumbs' = thumbs \cup {t}
    /\ UNCHANGED <<up, inbox>>

LEMMA UploadsMove ==
    ASSUME TypeOK, Uploading
    PROVE  \/ NoneMoves \/ \E u \in Uploads : MovesIn(u)
           \/ \E u \in Uploads, w \in Workers : MovesToQueue(u, w)
<1> up \in [Uploads -> UploadStates]
  BY DEF TypeOK, UploadTypeOK
<1> worker' = worker
  BY DEF Uploading, workerVars
<1>1. ASSUME UNCHANGED <<inbox, thumbs>>,
             \A u \in Uploads : up'[u].pc \in {"cache", "publish"} => Pending(u) /\ up'[u].id = up[u].id
      PROVE  NoneMoves
  BY <1>1 DEF NoneMoves, Handling
<1>2. ASSUME NEW r \in Requests, Post(r) PROVE NoneMoves
  <2>1. ASSUME NEW u \in Uploads, up'[u].pc \in {"cache", "publish"}
        PROVE  Pending(u) /\ up'[u].id = up[u].id
    BY <1>2, <2>1 DEF Post, Pending
  <2> QED
    BY <1>1, <1>2, <2>1 DEF Post, mediaVars, busVars
<1>3. ASSUME NEW r \in Requests, Respond(r) PROVE NoneMoves
  BY <1>1, <1>3 DEF Respond, mediaVars, busVars, Pending
<1>4. ASSUME NEW u \in Uploads, UploadCheck(u) \/ UploadBytes(u) \/ UploadWrite(u) PROVE NoneMoves
  <2>1. ASSUME NEW v \in Uploads, up'[v].pc \in {"cache", "publish"}
        PROVE  Pending(v) /\ up'[v].id = up[v].id
    BY <1>4, <2>1 DEF UploadCheck, UploadBytes, UploadWrite, Goto, UploadStates, Pending
  <2> QED
    BY <1>1, <1>4, <2>1 DEF UploadCheck, UploadBytes, UploadWrite, mediaVars, busVars
<1>5. ASSUME NEW u \in Uploads, UploadCache(u) PROVE NoneMoves
  <2>1. ASSUME NEW v \in Uploads, up'[v].pc \in {"cache", "publish"}
        PROVE  Pending(v) /\ up'[v].id = up[v].id
    BY <1>5, <2>1 DEF UploadCache, Goto, UploadStates, Pending
  <2> QED
    BY <1>1, <1>5, <2>1 DEF UploadCache, busVars
<1>6. ASSUME NEW u \in Uploads, UploadRecord(u) PROVE NoneMoves \/ MovesIn(u)
  <2>1. CASE Goto(u, "failed")
    <3>1. ASSUME NEW v \in Uploads, up'[v].pc \in {"cache", "publish"}
          PROVE  Pending(v) /\ up'[v].id = up[v].id
      BY <2>1, <3>1 DEF Goto, UploadStates, Pending
    <3> QED
      BY <1>1, <1>6, <3>1 DEF UploadRecord, busVars
  <2>2. CASE up[u].id \notin FileIds /\ \E pc : Goto(u, pc)
    BY <1>6, <2>2 DEF UploadRecord, MovesIn, Goto, UploadStates, busVars
  <2> QED
    BY <1>6, <2>1, <2>2 DEF UploadRecord
<1>7. ASSUME NEW u \in Uploads, UploadPublish(u)
      PROVE  NoneMoves \/ \E w \in Workers : MovesToQueue(u, w)
  <2> DEFINE m == [event |-> up[u].event, file |-> up[u].id, video |-> up[u].media = "video"]
  <2>1. m \in NewMedia /\ m.file = up[u].id
    BY <1>7 DEF UploadPublish, TypeOK, UploadTypeOK, UploadStates, NewMedia
  <2>2. /\ PublishNewPhoto(m) /\ thumbs' = thumbs /\ Pending(u)
        /\ up'[u].pc = "stored" /\ \A v \in Uploads \ {u} : up'[v] = up[v]
    BY <1>7 DEF UploadPublish, mediaVars, Pending, Goto, UploadStates
  <2> HIDE DEF m
  <2>3. CASE UNCHANGED inbox
    <3>1. ASSUME NEW v \in Uploads, up'[v].pc \in {"cache", "publish"}
          PROVE  Pending(v) /\ up'[v].id = up[v].id
      BY <2>2, <3>1 DEF Pending
    <3> QED
      BY <1>1, <2>2, <2>3, <3>1
  <2>4. CASE DeliverToGroup(m)
    <3> inbox \in [Workers -> Seq(NewMedia)] /\ subscribed \subseteq Workers
      BY DEF TypeOK, BusTypeOK
    <3> PICK w \in subscribed : inbox' = [inbox EXCEPT ![w] = Append(@, m)]
      BY <2>4 DEF DeliverToGroup
    <3>1. w \in Workers /\ inbox'[w] = Append(inbox[w], m)
          /\ \A v \in Workers \ {w} : inbox'[v] = inbox[v]
      OBVIOUS
    <3> QED
      BY <2>1, <2>2, <3>1 DEF MovesToQueue
  <2> QED
    BY <2>2, <2>3, <2>4 DEF PublishNewPhoto
<1> QED
  BY <1>2, <1>3, <1>4, <1>5, <1>6, <1>7 DEF Uploading, UploadNext, UploadStep

LEMMA WorkersMove ==
    ASSUME TypeOK, Thumbnailing
    PROVE  NoneMoves \/ \E w \in Workers : MovesToWorker(w) \/ MovesToRow(w)
<1> worker \in [Workers -> WorkerStates] /\ inbox \in [Workers -> Seq(NewMedia)]
  BY DEF TypeOK, WorkerTypeOK, BusTypeOK
<1> up' = up
  BY DEF Thumbnailing, uploadVars
<1>1. ASSUME thumbs' = thumbs, \A w \in Workers : inbox'[w] = inbox[w] \/ inbox'[w] = <<>>,
             \A w \in Workers : worker'[w].pc \notin {"down", "idle", "publish"} =>
                 Handling(w) /\ worker'[w].msg = worker[w].msg
      PROVE  NoneMoves
  BY <1>1 DEF NoneMoves, Pending
<1>2. CASE Announce
  BY <1>1, <1>2 DEF Announce, mediaVars, Handling
<1>3. ASSUME NEW w \in Workers, WorkerStart(w) \/ WorkerCrash(w) PROVE NoneMoves
  <2>1. \A v \in Workers : worker'[v].pc \notin {"down", "idle", "publish"} =>
                 Handling(v) /\ worker'[v].msg = worker[v].msg
    <3>1. worker'[w] = Rest("idle") \/ worker'[w] = Rest("down")
      BY <1>3 DEF WorkerStart, WorkerCrash
    <3>2. \A v \in Workers \ {w} : worker'[v] = worker[v]
      BY <1>3 DEF WorkerStart, WorkerCrash
    <3>3. worker'[w].pc \in {"down", "idle"}
      BY <3>1 DEF Rest
    <3> QED
      BY <3>2, <3>3 DEF Handling
  <2>2. thumbs' = thumbs /\ \A v \in Workers : inbox'[v] = inbox[v] \/ inbox'[v] = <<>>
    BY <1>3 DEF WorkerStart, WorkerCrash, mediaVars
  <2> QED
    BY <1>1, <2>1, <2>2
<1>4. ASSUME NEW w \in Workers, WorkerReceive(w) PROVE MovesToWorker(w)
  <2>1. /\ inbox[w] # <<>> /\ inbox'[w] = Tail(inbox[w]) /\ thumbs' = thumbs
        /\ worker'[w] = [Rest("lookup") EXCEPT !.msg = Head(inbox[w])]
        /\ \A v \in Workers \ {w} : inbox'[v] = inbox[v] /\ worker'[v] = worker[v]
    BY <1>4 DEF WorkerReceive, mediaVars
  <2>2. worker'[w].msg = Head(inbox[w])
    BY <2>1 DEF Rest
  <2>3. Head(inbox[w]) = inbox[w][1]
    BY <2>1
  <2> QED
    BY <2>1, <2>2, <2>3 DEF MovesToWorker
<1>5. ASSUME NEW w \in Workers,
             \/ WorkerLookup(w) \/ WorkerFetch(w) \/ WorkerThumb(w) \/ WorkerBytes(w)
             \/ WorkerWrite(w) \/ WorkerCache(w) \/ WorkerPublish(w)
      PROVE  NoneMoves
  <2>0. WorkerStep(w) /\ ~WorkerReceive(w)
    BY <1>5 DEF WorkerStep, WorkerReceive, WorkerLookup, WorkerFetch, WorkerThumb, WorkerBytes,
                WorkerWrite, WorkerCache, WorkerPublish
  <2>1. \A v \in Workers \ {w} : worker'[v] = worker[v]
    BY <1>5 DEF WorkerLookup, WorkerFetch, WorkerThumb, WorkerBytes, WorkerWrite, WorkerCache,
                WorkerPublish, WorkerGoto, Stored, Release
  <2>2. ASSUME worker'[w].pc \notin {"down", "idle", "publish"}
        PROVE  Handling(w) /\ worker'[w].msg = worker[w].msg
    <3>1. worker[w].pc \notin {"down", "idle"} /\ worker'[w].msg = worker[w].msg
      BY <2>0, <2>2, WorkerKeeps DEF Rest
    <3>2. ~WorkerPublish(w)
      BY <2>2 DEF WorkerPublish, Release, Rest
    <3>3. worker[w].pc # "publish"
      BY <1>5, <3>2 DEF WorkerLookup, WorkerFetch, WorkerThumb, WorkerBytes, WorkerWrite, WorkerCache
    <3> QED
      BY <3>1, <3>3 DEF Handling
  <2>3. inbox' = inbox /\ thumbs' = thumbs
    BY <1>5 DEF WorkerLookup, WorkerFetch, ReadLookup, WorkerThumb, WorkerBytes, WorkerWrite,
                WorkerCache, WorkerPublish, PublishNewThumbnail, mediaVars, busVars
  <2> QED
    BY <1>1, <2>1, <2>2, <2>3 DEF Handling
<1>6. ASSUME NEW w \in Workers, WorkerRecord(w) PROVE NoneMoves \/ MovesToRow(w)
  <2>0. worker[w].pc = "record" /\ inbox' = inbox
    BY <1>6 DEF WorkerRecord, busVars
  <2>1. CASE Release(w) /\ UNCHANGED thumbs
    <3>1. \A v \in Workers : worker'[v].pc \notin {"down", "idle", "publish"} =>
                 Handling(v) /\ worker'[v].msg = worker[v].msg
      BY <2>1 DEF Release, Rest, Handling
    <3> QED
      BY <1>1, <2>0, <2>1, <3>1
  <2>2. CASE /\ WorkerGoto(w, "publish")
             /\ thumbs' = thumbs \cup {[id |-> worker[w].id, event |-> worker[w].msg.event,
                                        file |-> worker[w].msg.file]}
    <3>1. worker'[w].pc = "publish" /\ Handling(w)
          /\ \A v \in Workers \ {w} : worker'[v] = worker[v]
      BY <2>0, <2>2 DEF WorkerGoto, Handling, WorkerStates
    <3>2. \E t : t.file = worker[w].msg.file /\ thumbs' = thumbs \cup {t}
      BY <2>2
    <3> QED
      BY <2>0, <3>1, <3>2 DEF MovesToRow
  <2> QED
    BY <1>6, <2>1, <2>2 DEF WorkerRecord
<1> QED
  BY <1>2, <1>3, <1>4, <1>5, <1>6 DEF Thumbnailing, WorkerNext, WorkerStep

LEMMA PhotosMove ==
    ASSUME TypeOK, [Next]_vars
    PROVE  \/ NoneMoves
           \/ \E u \in Uploads : MovesIn(u)
           \/ \E u \in Uploads, w \in Workers : MovesToQueue(u, w)
           \/ \E w \in Workers : MovesToWorker(w) \/ MovesToRow(w)
<1>1. CASE Organise \/ Reading \/ ServerStart \/ UNCHANGED vars
  <2>1. UNCHANGED <<up, inbox, worker, thumbs>>
    BY <1>1 DEF Organise, MediaNext, CreateEvent, SetEventLive, DeleteEvent, CacheExpire, Reading,
                Browse, ReadDone, ReadLookup, ReadStep, ReadCache, ReadEvent, ReadStorage,
                ReadFill, ServerStart, vars, mediaVars, busVars, uploadVars, workerVars
  <2> QED
    BY <2>1 DEF NoneMoves, Pending, Handling
<1>2. CASE ServerCrash
  <2>1. ASSUME NEW u \in Uploads, up'[u].pc \in {"cache", "publish"} PROVE FALSE
    BY <1>2, <2>1 DEF ServerCrash, UploadsCrash, TypeOK, UploadTypeOK, UploadStates
  <2>2. ASSUME NEW w \in Workers
        PROVE  /\ inbox'[w] = inbox[w] \/ inbox'[w] = <<>>
               /\ worker'[w].pc \notin {"down", "idle", "publish"} =>
                     Handling(w) /\ worker'[w].msg = worker[w].msg
    BY <1>2 DEF ServerCrash, Rest, Handling
  <2>3. thumbs' = thumbs
    BY <1>2 DEF ServerCrash
  <2> QED
    BY <2>1, <2>2, <2>3 DEF NoneMoves
<1> QED
  BY <1>1, <1>2, UploadsMove, WorkersMove DEF Next

\* Whoever has a photo has it alone: nothing is added when none moves, ...
LEMMA OnePlaceNoneMoves ==
    ASSUME OnePlace, NoneMoves
    PROVE  OnePlace'
<1>1. \A u \in Uploads : up'[u].pc \in {"cache", "publish"} => Pending(u) /\ up'[u].id = up[u].id
  BY DEF NoneMoves
<1>2. \A w \in Workers, k \in Nat : k \in 1..Len(inbox'[w]) =>
          k \in 1..Len(inbox[w]) /\ inbox'[w][k] = inbox[w][k]
  BY DEF NoneMoves
<1>3. \A w \in Workers : worker'[w].pc \notin {"down", "idle", "publish"} =>
          Handling(w) /\ worker'[w].msg = worker[w].msg
  BY DEF NoneMoves
<1>4. thumbs' = thumbs
  BY DEF NoneMoves
<1>5. PendingAlone'
  BY <1>1, <1>2, <1>3, <1>4 DEF OnePlace, PendingAlone, Pending, Handling
<1>6. QueuedAlone'
  <2> SUFFICES ASSUME NEW v \in Workers, NEW k \in Nat, k \in 1..Len(inbox'[v])
               PROVE  /\ \A w \in Workers, l \in Nat :
                            l \in 1..Len(inbox'[w]) /\ inbox'[v][k].file = inbox'[w][l].file
                               => v = w /\ k = l
                      /\ \A w \in Workers : worker'[w].pc \notin {"down", "idle", "publish"} =>
                            worker'[w].msg.file # inbox'[v][k].file
                      /\ \A t \in thumbs : t.file # inbox'[v][k].file
    BY <1>4 DEF QueuedAlone, Handling
  <2>1. k \in 1..Len(inbox[v]) /\ inbox'[v][k] = inbox[v][k]
    BY <1>2
  <2>2. /\ \A w \in Workers, l \in Nat :
              l \in 1..Len(inbox[w]) /\ inbox[v][k].file = inbox[w][l].file => v = w /\ k = l
        /\ \A w \in Workers : Handling(w) => worker[w].msg.file # inbox[v][k].file
        /\ \A t \in thumbs : t.file # inbox[v][k].file
    BY <2>1 DEF OnePlace, QueuedAlone
  <2> QED
    BY SMTT(30), <1>2, <1>3, <2>1, <2>2
<1>7. HandledAlone'
  BY <1>3, <1>4 DEF OnePlace, HandledAlone, Handling
<1> QED
  BY <1>4, <1>5, <1>6, <1>7 DEF OnePlace, OneThumbnailPerFile

\* ... a photo that comes in is known to nobody else, ...
LEMMA OnePlaceMovesIn ==
    ASSUME TypeOK, OnePlace, PendingAreRecorded, MessagesAreAbout, ThumbnailsDepictTheirFiles,
           NEW u \in Uploads, MovesIn(u)
    PROVE  OnePlace'
<1> DEFINE i == up[u].id
<1>0. /\ i \notin FileIds /\ up'[u].id = i
      /\ \A v \in Uploads \ {u} : up'[v] = up[v]
      /\ UNCHANGED <<inbox, worker, thumbs>>
  BY DEF MovesIn
<1> HIDE DEF i
<1>1. \A v \in Uploads : Pending(v) => up[v].id # i
  BY <1>0 DEF PendingAreRecorded, FileIds
<1>2. \A w \in Workers, k \in Nat : k \in 1..Len(inbox[w]) => inbox[w][k].file # i
  BY <1>0 DEF MessagesAreAbout, IsAbout, FileIds
<1>3. \A w \in Workers : Handling(w) => worker[w].msg.file # i
  BY <1>0 DEF MessagesAreAbout, IsAbout, FileIds, Handling
<1>4. \A t \in thumbs : t.file # i
  BY <1>0 DEF ThumbnailsDepictTheirFiles, FileIds
<1>5. PendingAlone'
  <2>1. ASSUME NEW v \in Uploads, up'[v].pc \in {"cache", "publish"}
        PROVE  v = u \/ (v # u /\ Pending(v) /\ up'[v].id = up[v].id)
    BY <1>0, <2>1 DEF Pending
  <2> QED
    <3> SUFFICES ASSUME NEW v \in Uploads, up'[v].pc \in {"cache", "publish"}
                 PROVE  /\ \A x \in Uploads :
                              up'[x].pc \in {"cache", "publish"} /\ up'[x].id = up'[v].id => v = x
                        /\ \A w \in Workers, k \in Nat : k \in 1..Len(inbox[w]) =>
                              inbox[w][k].file # up'[v].id
                        /\ \A w \in Workers : Handling(w) => worker[w].msg.file # up'[v].id
                        /\ \A t \in thumbs : t.file # up'[v].id
      BY <1>0 DEF PendingAlone, Pending, Handling
    <3>1. CASE v = u
      BY <1>0, <1>1, <1>2, <1>3, <1>4, <2>1, <3>1
    <3>2. CASE v # u
      <4>1. Pending(v) /\ up'[v].id = up[v].id /\ up[v].id # i
        BY <1>1, <2>1, <3>2
      <4>2. \A x \in Uploads :
                 up'[x].pc \in {"cache", "publish"} /\ up'[x].id = up'[v].id => v = x
        BY <1>0, <2>1, <4>1 DEF OnePlace, PendingAlone
      <4> QED
        BY <4>1, <4>2 DEF OnePlace, PendingAlone
    <3> QED
      BY <3>1, <3>2
<1>6. QueuedAlone'
  BY <1>0 DEF OnePlace, QueuedAlone, Handling
<1>7. HandledAlone'
  BY <1>0 DEF OnePlace, HandledAlone, Handling
<1>8. OneThumbnailPerFile'
  BY <1>0 DEF OnePlace, OneThumbnailPerFile
<1> QED
  BY <1>5, <1>6, <1>7, <1>8 DEF OnePlace

\* ... and one that moves on leaves where it was.
LEMMA OnePlaceMovesToQueue ==
    ASSUME TypeOK, OnePlace, NEW u \in Uploads, NEW w \in Workers, MovesToQueue(u, w)
    PROVE  OnePlace'
<1> inbox[w] \in Seq(NewMedia)
  BY DEF TypeOK, BusTypeOK
<1>0. PICK m \in NewMedia : m.file = up[u].id /\ inbox'[w] = Append(inbox[w], m)
  BY DEF MovesToQueue
<1>1. /\ Pending(u) /\ up'[u].pc = "stored" /\ \A v \in Uploads \ {u} : up'[v] = up[v]
      /\ \A v \in Workers \ {w} : inbox'[v] = inbox[v]
      /\ UNCHANGED <<worker, thumbs>>
  BY DEF MovesToQueue
<1> DEFINE n == Len(inbox[w]) + 1
<1>2. \A k \in Nat : k \in 1..Len(inbox'[w]) =>
          \/ k = n /\ inbox'[w][k] = m
          \/ k # n /\ k \in 1..Len(inbox[w]) /\ inbox'[w][k] = inbox[w][k]
  BY <1>0
<1> HIDE DEF n
<1>3. \A v \in Workers, k \in Nat : k \in 1..Len(inbox'[v]) =>
          \/ v = w /\ k = n /\ inbox'[v][k] = m
          \/ ~(v = w /\ k = n) /\ k \in 1..Len(inbox[v]) /\ inbox'[v][k] = inbox[v][k]
  BY <1>1, <1>2
<1>4. /\ \A v \in Uploads : Pending(v) /\ v # u => up[v].id # m.file
      /\ \A v \in Workers, k \in Nat : k \in 1..Len(inbox[v]) => inbox[v][k].file # m.file
      /\ \A v \in Workers : Handling(v) => worker[v].msg.file # m.file
      /\ \A t \in thumbs : t.file # m.file
  BY <1>0, <1>1 DEF OnePlace, PendingAlone
<1>5. ASSUME NEW v \in Uploads, up'[v].pc \in {"cache", "publish"}
      PROVE  v # u /\ Pending(v) /\ up'[v].id = up[v].id
  BY <1>1, <1>5 DEF Pending
<1>6. PendingAlone'
  BY <1>1, <1>3, <1>4, <1>5 DEF OnePlace, PendingAlone, Pending, Handling
<1>7. QueuedAlone'
  <2> SUFFICES ASSUME NEW v \in Workers, NEW k \in Nat, k \in 1..Len(inbox'[v])
               PROVE  /\ \A x \in Workers, l \in Nat :
                            l \in 1..Len(inbox'[x]) /\ inbox'[v][k].file = inbox'[x][l].file
                               => v = x /\ k = l
                      /\ \A x \in Workers : worker[x].pc \notin {"down", "idle", "publish"} =>
                            worker[x].msg.file # inbox'[v][k].file
                      /\ \A t \in thumbs : t.file # inbox'[v][k].file
    BY <1>1 DEF QueuedAlone, Handling
  <2>1. CASE v = w /\ k = n /\ inbox'[v][k] = m
    BY <1>3, <1>4, <2>1 DEF Handling
  <2>2. CASE k \in 1..Len(inbox[v]) /\ inbox'[v][k] = inbox[v][k]
    BY <1>3, <1>4, <2>2 DEF OnePlace, QueuedAlone, Handling
  <2> QED
    BY <1>3, <2>1, <2>2
<1>8. HandledAlone' /\ OneThumbnailPerFile'
  BY <1>1 DEF OnePlace, HandledAlone, Handling, OneThumbnailPerFile
<1> QED
  BY <1>6, <1>7, <1>8 DEF OnePlace

LEMMA OnePlaceMovesToWorker ==
    ASSUME TypeOK, OnePlace, NEW w \in Workers, MovesToWorker(w)
    PROVE  OnePlace'
<1> inbox[w] \in Seq(NewMedia)
  BY DEF TypeOK, BusTypeOK
<1>0. /\ inbox[w] # <<>> /\ inbox'[w] = Tail(inbox[w]) /\ worker'[w].msg = inbox[w][1]
      /\ \A v \in Workers \ {w} : inbox'[v] = inbox[v] /\ worker'[v] = worker[v]
      /\ UNCHANGED <<up, thumbs>>
  BY DEF MovesToWorker
<1>1. 1 \in 1..Len(inbox[w])
  BY <1>0
<1>2. \A k \in Nat : k \in 1..Len(inbox'[w]) =>
          k + 1 \in 1..Len(inbox[w]) /\ k + 1 # 1 /\ inbox'[w][k] = inbox[w][k + 1]
  BY <1>0
<1>3. ASSUME NEW v \in Workers, NEW k \in Nat, k \in 1..Len(inbox'[v])
      PROVE  \E j \in Nat : /\ j \in 1..Len(inbox[v]) /\ inbox'[v][k] = inbox[v][j]
                            /\ v = w => j = k + 1 /\ j # 1
                            /\ v # w => j = k
  <2>1. CASE v = w
    BY <1>2, <1>3, <2>1
  <2>2. CASE v # w
    BY <1>0, <1>3, <2>2
  <2> QED
    BY <2>1, <2>2
<1>4. ASSUME NEW v \in Workers, worker'[v].pc \notin {"down", "idle", "publish"}
      PROVE  (v = w /\ worker'[v].msg = inbox[w][1])
             \/ (v # w /\ Handling(v) /\ worker'[v].msg = worker[v].msg)
  BY <1>0, <1>4 DEF Handling
<1>5. PendingAlone'
  <2> SUFFICES ASSUME NEW u \in Uploads, Pending(u)
               PROVE  /\ \A v \in Uploads : Pending(v) /\ up[v].id = up[u].id => u = v
                      /\ \A v \in Workers, k \in Nat : k \in 1..Len(inbox'[v]) =>
                            inbox'[v][k].file # up[u].id
                      /\ \A v \in Workers : worker'[v].pc \notin {"down", "idle", "publish"} =>
                            worker'[v].msg.file # up[u].id
                      /\ \A t \in thumbs : t.file # up[u].id
    BY <1>0 DEF PendingAlone, Pending, Handling
  <2>1. \A v \in Workers, j \in Nat : j \in 1..Len(inbox[v]) => inbox[v][j].file # up[u].id
    BY DEF OnePlace, PendingAlone
  <2>2. ASSUME NEW v \in Workers, NEW k \in Nat, k \in 1..Len(inbox'[v])
        PROVE  inbox'[v][k].file # up[u].id
    <3> PICK j \in Nat : j \in 1..Len(inbox[v]) /\ inbox'[v][k] = inbox[v][j]
      BY <1>3, <2>2
    <3> QED
      BY <2>1
  <2>3. inbox[w][1].file # up[u].id
    BY <1>1, <2>1
  <2>4. ASSUME NEW v \in Workers, worker'[v].pc \notin {"down", "idle", "publish"}
        PROVE  worker'[v].msg.file # up[u].id
    BY <1>4, <2>3, <2>4 DEF OnePlace, PendingAlone
  <2> QED
    BY <2>2, <2>4 DEF OnePlace, PendingAlone
<1>6. QueuedAlone'
  <2> SUFFICES ASSUME NEW v \in Workers, NEW k \in Nat, k \in 1..Len(inbox'[v])
               PROVE  /\ \A x \in Workers, l \in Nat :
                            l \in 1..Len(inbox'[x]) /\ inbox'[v][k].file = inbox'[x][l].file
                               => v = x /\ k = l
                      /\ \A x \in Workers : worker'[x].pc \notin {"down", "idle", "publish"} =>
                            worker'[x].msg.file # inbox'[v][k].file
                      /\ \A t \in thumbs : t.file # inbox'[v][k].file
    BY <1>0 DEF QueuedAlone, Handling
  <2> PICK j \in Nat : /\ j \in 1..Len(inbox[v]) /\ inbox'[v][k] = inbox[v][j]
                       /\ v = w => j = k + 1 /\ j # 1
                       /\ v # w => j = k
    BY <1>3
  <2>1. ASSUME NEW x \in Workers, NEW l \in Nat, l \in 1..Len(inbox'[x]),
               inbox'[v][k].file = inbox'[x][l].file
        PROVE  v = x /\ k = l
    <3> PICK i \in Nat : /\ i \in 1..Len(inbox[x]) /\ inbox'[x][l] = inbox[x][i]
                         /\ x = w => i = l + 1 /\ i # 1
                         /\ x # w => i = l
      BY <1>3, <2>1
    <3>1. inbox[v][j].file = inbox[x][i].file
      BY <2>1
    <3>2. v = x /\ j = i
      BY <3>1 DEF OnePlace, QueuedAlone
    <3> QED
      BY <3>2
  <2>2. ASSUME NEW x \in Workers, worker'[x].pc \notin {"down", "idle", "publish"}
        PROVE  worker'[x].msg.file # inbox'[v][k].file
    <3>1. CASE x = w /\ worker'[x].msg = inbox[w][1]
      <4>1. inbox[w][1].file = inbox[v][j].file => w = v /\ 1 = j
        BY <1>1 DEF OnePlace, QueuedAlone
      <4> QED
        BY <3>1, <4>1
    <3>2. CASE Handling(x) /\ worker'[x].msg = worker[x].msg
      BY <3>2 DEF OnePlace, QueuedAlone
    <3> QED
      BY <1>4, <2>2, <3>1, <3>2
  <2>3. \A t \in thumbs : t.file # inbox'[v][k].file
    BY DEF OnePlace, QueuedAlone
  <2> QED
    BY <2>1, <2>2, <2>3
<1>7. HandledAlone'
  <2> SUFFICES ASSUME NEW v \in Workers, worker'[v].pc \notin {"down", "idle", "publish"}
               PROVE  /\ \A x \in Workers :
                            worker'[x].pc \notin {"down", "idle", "publish"}
                            /\ worker'[v].msg.file = worker'[x].msg.file => v = x
                      /\ \A t \in thumbs : t.file # worker'[v].msg.file
    BY <1>0 DEF HandledAlone, Handling
  <2>1. /\ \A x \in Workers : Handling(x) => worker[x].msg.file # inbox[w][1].file
        /\ \A t \in thumbs : t.file # inbox[w][1].file
    BY <1>1 DEF OnePlace, QueuedAlone
  <2>2. CASE v = w
    <3>1. worker'[v].msg = inbox[w][1]
      BY <1>4, <2>2
    <3>2. ASSUME NEW x \in Workers, worker'[x].pc \notin {"down", "idle", "publish"},
                 worker'[v].msg.file = worker'[x].msg.file, x # w
          PROVE  FALSE
      BY <1>4, <2>1, <3>1, <3>2
    <3> QED
      BY <2>1, <2>2, <3>1, <3>2
  <2>3. CASE v # w
    <3>1. Handling(v) /\ worker'[v].msg = worker[v].msg
      BY <1>4, <2>3
    <3>2. ASSUME NEW x \in Workers, worker'[x].pc \notin {"down", "idle", "publish"},
                 worker'[v].msg.file = worker'[x].msg.file
          PROVE  v = x
      BY <1>4, <2>1, <3>1, <3>2 DEF OnePlace, HandledAlone
    <3> QED
      BY <3>1, <3>2 DEF OnePlace, HandledAlone
  <2> QED
    BY <2>2, <2>3
<1>8. OneThumbnailPerFile'
  BY <1>0 DEF OnePlace, OneThumbnailPerFile
<1> QED
  BY <1>5, <1>6, <1>7, <1>8 DEF OnePlace

LEMMA OnePlaceMovesToRow ==
    ASSUME OnePlace, NEW w \in Workers, MovesToRow(w)
    PROVE  OnePlace'
<1>0. PICK t : t.file = worker[w].msg.file /\ thumbs' = thumbs \cup {t}
  BY DEF MovesToRow
<1>1. /\ Handling(w) /\ worker'[w].pc = "publish"
      /\ \A v \in Workers \ {w} : worker'[v] = worker[v]
      /\ UNCHANGED <<up, inbox>>
  BY DEF MovesToRow
<1>2. ASSUME NEW v \in Workers, worker'[v].pc \notin {"down", "idle", "publish"}
      PROVE  v # w /\ Handling(v) /\ worker'[v].msg = worker[v].msg
  BY <1>1, <1>2 DEF Handling
<1>3. /\ \A u \in Uploads : Pending(u) => up[u].id # t.file
      /\ \A v \in Workers, k \in Nat : k \in 1..Len(inbox[v]) => inbox[v][k].file # t.file
      /\ \A v \in Workers : Handling(v) /\ v # w => worker[v].msg.file # t.file
      /\ \A s \in thumbs : s.file # t.file
  BY <1>0, <1>1 DEF OnePlace, PendingAlone, QueuedAlone, HandledAlone
<1>4. PendingAlone'
  BY <1>0, <1>1, <1>2, <1>3 DEF OnePlace, PendingAlone, Pending, Handling
<1>5. QueuedAlone'
  BY <1>0, <1>1, <1>2, <1>3 DEF OnePlace, QueuedAlone, Handling
<1>6. HandledAlone'
  BY <1>0, <1>2, <1>3 DEF OnePlace, HandledAlone, Handling
<1>7. OneThumbnailPerFile'
  BY <1>0, <1>3 DEF OnePlace, OneThumbnailPerFile
<1> QED
  BY <1>4, <1>5, <1>6, <1>7 DEF OnePlace

-----------------------------------------------------------------------------
(* The theorems *)

LEMMA LinkedInit == Init => Linked
<1> SUFFICES ASSUME Init PROVE Linked
  OBVIOUS
<1>1. /\ files = {} /\ thumbs = {} /\ notices = <<>>
      /\ \A u \in Uploads : up[u].pc = "unsent"
      /\ \A w \in Workers : inbox[w] = <<>> /\ worker[w].pc = "down"
      /\ \A r \in Readers : reader[r].pc = "idle"
  BY DEF Init, MediaInit, BusInit, UploadInit, ReaderInit, WorkerInit, Idle, Rest
<1>2. FilesAreUnique /\ PendingAreRecorded /\ NoticesAreRecorded /\ StoredBeforeRecorded
      /\ RowsHaveObjects /\ ThumbnailsDepictTheirFiles
  BY <1>1 DEF FilesAreUnique, PendingAreRecorded, Pending, NoticesAreRecorded,
              StoredBeforeRecorded, RowsHaveObjects, ThumbnailsDepictTheirFiles
<1>3. MessagesAreAbout /\ RequestsFollowRows /\ FetchesFollowMessages /\ WorkersDepict
  BY <1>1 DEF MessagesAreAbout, RequestsFollowRows, FetchesFollowMessages, WorkersDepict
<1>4. OnePlace
  BY <1>1 DEF OnePlace, PendingAlone, QueuedAlone, HandledAlone, OneThumbnailPerFile, Pending,
              Handling
<1> QED
  BY <1>2, <1>3, <1>4 DEF Linked

LEMMA LinkedStep ==
    ASSUME TypeOK, [Next]_vars, BytesAgree, Linked
    PROVE  Linked'
<1>0. Grow /\ NothingUnborn /\ WorkersWrote
  BY StepGrows DEF BytesAgree
<1> USE <1>0 DEF Linked
<1>1. FilesAreUnique' /\ PendingAreRecorded' /\ MessagesAreAbout' /\ NoticesAreRecorded'
  BY FilesAreUniqueStep, PendingAreRecordedStep, MessagesAreAboutStep, NoticesAreRecordedStep
<1>2. StoredBeforeRecorded' /\ RowsHaveObjects'
  BY StoredBeforeRecordedStep, RowsHaveObjectsStep
<1>3. RequestsFollowRows' /\ FetchesFollowMessages'
  BY RequestsFollowRowsStep, FetchesFollowMessagesStep
<1>4. WorkersDepict' /\ ThumbnailsDepictTheirFiles'
  BY WorkersDepictStep, ThumbnailsDepictStep
<1>5. OnePlace'
  BY PhotosMove, OnePlaceNoneMoves, OnePlaceMovesIn, OnePlaceMovesToQueue,
     OnePlaceMovesToWorker, OnePlaceMovesToRow
<1> QED
  BY <1>1, <1>2, <1>3, <1>4, <1>5

LEMMA LinkedAlways == Spec => []Linked
<1>1. Init => Linked
  BY LinkedInit
<1>2. TypeOK /\ BytesAgree /\ Linked /\ [Next]_vars => Linked'
  BY LinkedStep
<1> QED
  BY <1>1, <1>2, TypeCorrect, BytesAlwaysAgree, PTL DEF Spec

\* No row of a file or thumbnail is without its object, on any kind of store
\* and whatever fails or crashes (Upload, Thumb).
THEOREM RowsAlwaysHaveObjects == Spec => []RowsHaveObjects
<1>1. Linked => RowsHaveObjects
  BY DEF Linked
<1> QED
  BY <1>1, LinkedAlways, PTL

\* A thumbnail row is that of a file of its event, and on a store of the first
\* kind its object is a thumbnail of that upload or, for a video only, imagor's
\* error page (Thumb, ThumbImage, ThumbVideo).
THEOREM ThumbnailsAlwaysDepict == Spec => []ThumbnailsDepictTheirFiles
<1>1. Linked => ThumbnailsDepictTheirFiles
  BY DEF Linked
<1> QED
  BY <1>1, LinkedAlways, PTL

\* Whoever receives a message finds the row it is about (Upload, Thumb).
THEOREM MessagesAlwaysFollow == Spec => []MessagesFollowRows
<1>1. Linked => MessagesFollowRows
  BY DEF Linked, MessagesAreAbout, NoticesAreRecorded, IsAbout, MessagesFollowRows
<1> QED
  BY <1>1, LinkedAlways, PTL

\* However many workers there are, come and go, no file gets two thumbnails
\* (the queue group of Start).
THEOREM OneThumbnailAlways == Spec => []OneThumbnailPerFile
<1>1. Linked => OneThumbnailPerFile
  BY DEF Linked, OnePlace
<1> QED
  BY <1>1, LinkedAlways, PTL

\* A request that comes after the deletion of its event is served nothing
\* (GetPicture, GetThumbnail).
THEOREM DeletedIsNeverServed == Spec => []NothingServedAfterDelete
<1>1. TypeOK /\ Linked => NothingServedAfterDelete
  <2> SUFFICES ASSUME TypeOK, Linked, NEW r \in Readers, reader[r].pc = "served", reader[r].late
               PROVE  FALSE
    BY DEF NothingServedAfterDelete
  <2> QED
    BY DEF Linked, RequestsFollowRows
<1> QED
  BY <1>1, TypeCorrect, LinkedAlways, PTL

\* What is served of a store of the first kind is the upload of the row that
\* was asked for, or a thumbnail made from it, and nothing of another upload;
\* for a video, imagor's error page may stand in for the thumbnail
\* (GetPicture, GetThumbnail, ThumbVideo).
THEOREM ServedIsAlwaysRecorded == Spec => []ServedIsRecorded
<1>1. BytesAgree /\ Linked => ServedIsRecorded
  <2> SUFFICES ASSUME BytesAgree, Linked, NEW r \in Readers, reader[r].pc = "served",
                      Fresh(reader[r].event)
               PROVE  Depicts(r)
    BY DEF ServedIsRecorded
  <2>1. /\ reader[r].table \in Tables
        /\ reader[r].table = "picture" =>
              \E f \in files : f.id = reader[r].id /\ f.event = reader[r].event
        /\ reader[r].table = "thumbnail" =>
              \E t \in thumbs : t.id = reader[r].id /\ t.event = reader[r].event
    BY DEF Linked, RequestsFollowRows
  <2>2. Object(reader[r].event, reader[r].id) = reader[r].got
    BY DEF BytesAgree, ReadersRead
  <2>3. CASE reader[r].table = "picture"
    <3> PICK f \in files : f.id = reader[r].id /\ f.event = reader[r].event
      BY <2>1, <2>3
    <3>1. reader[r].got = Photo(f.by)
      BY <2>2 DEF BytesAgree, FilesWritten
    <3> QED
      BY <2>3, <3>1 DEF Depicts
  <2>4. CASE reader[r].table = "thumbnail"
    <3> PICK t \in thumbs : t.id = reader[r].id /\ t.event = reader[r].event
      BY <2>1, <2>4
    <3> PICK f \in files :
          /\ f.id = t.file /\ f.event = t.event
          /\ Fresh(t.event) => Object(t.event, t.id) \in MadeFrom(f)
      BY DEF Linked, ThumbnailsDepictTheirFiles
    <3>1. reader[r].got \in MadeFrom(f)
      BY <2>2
    <3>2. \E s \in thumbs : s.id = reader[r].id /\ s.file = f.id
      OBVIOUS
    <3> QED
      BY <2>4, <3>1, <3>2 DEF Depicts
  <2> QED
    BY <2>1, <2>3, <2>4 DEF Tables
<1> QED
  BY <1>1, BytesAlwaysAgree, LinkedAlways, PTL
=============================================================================
