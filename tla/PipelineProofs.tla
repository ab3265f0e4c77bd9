--------------------------- MODULE PipelineProofs ---------------------------
(***************************************************************************)
(* Theorems about Pipeline, for every value of its constants.              *)
(***************************************************************************)
EXTENDS Pipeline, TLAPS

-----------------------------------------------------------------------------
(* Type correctness *)

LEMMA InitType == Init => TypeOK
<1> SUFFICES ASSUME Init PROVE TypeOK
  OBVIOUS
<1> USE MediaAssumption, UploadAssumption, PipelineAssumption
<1>1. MediaTypeOK
  BY DEF Init, MediaInit, MediaTypeOK, EventRows, Contents, Nothing, Ids
<1>2. BusTypeOK
  BY DEF Init, BusInit, BusTypeOK
<1>3. UploadTypeOK
  BY DEF Init, UploadInit, UploadTypeOK, UploadStates
<1>4. ReaderTypeOK
  BY DEF Init, ReaderInit, ReaderTypeOK, ReaderStates, Idle, Contents, Nothing
<1>5. WorkerTypeOK
  BY DEF Init, WorkerInit, WorkerTypeOK, WorkerStates, Rest, Contents, Nothing
<1> QED
  BY <1>1, <1>2, <1>3, <1>4, <1>5 DEF TypeOK

LEMMA OrganiseType == TypeOK /\ Organise => TypeOK'
<1> SUFFICES ASSUME TypeOK, Organise PROVE TypeOK'
  OBVIOUS
<1>1. MediaTypeOK'
  <2>1. ASSUME NEW e \in Events, CreateEvent(e) PROVE MediaTypeOK'
    BY <2>1 DEF TypeOK, MediaTypeOK, CreateEvent, EventRows
  <2>2. ASSUME NEW e \in Events, SetEventLive(e) PROVE MediaTypeOK'
    BY <2>2 DEF TypeOK, MediaTypeOK, SetEventLive, EventRows
  <2>3. ASSUME NEW e \in Events, DeleteEvent(e) PROVE MediaTypeOK'
    BY <2>3 DEF TypeOK, MediaTypeOK, DeleteEvent, EventRows
  <2>4. ASSUME NEW e \in Events, NEW i \in Ids, CacheExpire(e, i) PROVE MediaTypeOK'
    BY <2>4 DEF TypeOK, MediaTypeOK, CacheExpire, Contents, Nothing
  <2> QED
    BY <2>1, <2>2, <2>3, <2>4 DEF Organise, MediaNext
<1> QED
  BY <1>1 DEF TypeOK, Organise, busVars, uploadVars, workerVars, BusTypeOK,
       UploadTypeOK, ReaderTypeOK, WorkerTypeOK

\* Publishing keeps the type of the bus.
LEMMA NewPhotoType ==
    ASSUME BusTypeOK, NEW m \in NewMedia, PublishNewPhoto(m)
    PROVE  BusTypeOK'
<1>1. inbox' \in [Workers -> Seq(NewMedia)]
  <2>1. CASE DeliverToGroup(m)
    <3> PICK w \in subscribed : inbox' = [inbox EXCEPT ![w] = Append(@, m)]
      BY <2>1 DEF DeliverToGroup
    <3> QED
      BY DEF BusTypeOK
  <2>2. CASE UNCHANGED inbox
    BY <2>2 DEF BusTypeOK
  <2> QED
    BY <2>1, <2>2 DEF PublishNewPhoto
<1> QED
  BY <1>1 DEF PublishNewPhoto, BusTypeOK

LEMMA NewThumbnailType ==
    ASSUME BusTypeOK, NEW i \in Ids, PublishNewThumbnail(i)
    PROVE  BusTypeOK'
  BY DEF BusTypeOK, PublishNewThumbnail

\* Storing bytes keeps the type of the stores.
LEMMA PutType ==
    ASSUME MediaTypeOK, NEW s \in Stores, NEW i \in Ids, NEW c \in Contents, Put(s, i, c)
    PROVE  objects' \in [Stores -> [Ids -> Contents]]
  BY DEF MediaTypeOK, Put

LEMMA StoreType ==
    ASSUME MediaTypeOK, NEW s \in Stores, NEW c \in Contents,
           \/ \E i \in FreshIds : StoreFresh(s, i, c)
           \/ \E n \in Names : StoreTruncate(s, n) \/ StoreWrite(s, n, c)
    PROVE  objects' \in [Stores -> [Ids -> Contents]]
<1> Broken \in Contents
  BY DEF Broken, Contents
<1>1. ASSUME NEW i \in FreshIds, StoreFresh(s, i, c)
      PROVE  objects' \in [Stores -> [Ids -> Contents]]
  BY <1>1, PutType DEF StoreFresh, Ids
<1>2. ASSUME NEW n \in Names, StoreTruncate(s, n)
      PROVE  objects' \in [Stores -> [Ids -> Contents]]
  BY <1>2, PutType DEF StoreTruncate, Ids
<1>3. ASSUME NEW n \in Names, StoreWrite(s, n, c)
      PROVE  objects' \in [Stores -> [Ids -> Contents]]
  <2> PICK r \in {c, Broken} : Put(s, n, r)
    BY <1>3 DEF StoreWrite
  <2> QED
    BY PutType DEF Ids
<1> QED
  BY <1>1, <1>2, <1>3

LEMMA CacheSetType ==
    ASSUME MediaTypeOK, NEW e \in Events, NEW i \in Ids, NEW c \in Contents, CacheSet(e, i, c)
    PROVE  cache' \in [Events -> [Ids -> Contents]]
<1> cache \in [Events -> [Ids -> Contents]]
  BY DEF MediaTypeOK
<1>1. CASE cache' = [cache EXCEPT ![e][i] = c]
  BY <1>1
<1>2. CASE UNCHANGED cache
  BY <1>2
<1> QED
  BY <1>1, <1>2 DEF CacheSet

LEMMA PhotoIsContent == \A u \in Uploads : Photo(u) \in Contents
  BY DEF Photo, Contents

\* A goroutine moves on and changes no other local.
LEMMA GotoType ==
    ASSUME UploadTypeOK, NEW u \in Uploads, up[u].pc # "unsent",
           NEW pc \in {"store", "write", "record", "cache", "publish", "stored", "failed"},
           up[u].id # None \/ pc \in {"store", "write", "failed"},
           Goto(u, pc), UNCHANGED response
    PROVE  UploadTypeOK'
<1>1. up' \in [Uploads -> UploadStates]
  BY DEF Goto, UploadTypeOK, UploadStates
<1>2. ASSUME NEW v \in Uploads
      PROVE  /\ up'[v].pc # "unsent" => None \notin {up'[v].event, up'[v].name, up'[v].media}
             /\ up'[v].pc \in {"record", "cache", "publish", "stored"} => up'[v].id # None
  <2>1. CASE v # u
    BY <1>2, <2>1 DEF Goto, UploadTypeOK
  <2>2. CASE v = u
    BY <1>2, <2>2 DEF Goto, UploadTypeOK, UploadStates
  <2> QED
    BY <2>1, <2>2
<1> QED
  BY <1>1, <1>2 DEF UploadTypeOK

\* A step of an upload request.
LEMMA UploadingType == TypeOK /\ Uploading => TypeOK'
<1> SUFFICES ASSUME TypeOK, Uploading PROVE TypeOK'
  OBVIOUS
<1> USE MediaAssumption, UploadAssumption
<1>1. ReaderTypeOK' /\ WorkerTypeOK'
  BY DEF TypeOK, Uploading, ReaderTypeOK, WorkerTypeOK, workerVars
<1> DEFINE Goal == MediaTypeOK' /\ BusTypeOK' /\ UploadTypeOK'
<1> Goal
  <2> USE DEF TypeOK
  <2>1. ASSUME NEW r \in Requests, Post(r) PROVE Goal
    <3>1. MediaTypeOK' /\ BusTypeOK'
      BY <2>1 DEF Post, mediaVars, busVars, MediaTypeOK, BusTypeOK
    <3>2. PICK e \in {x \in Events : events[x].status # "unborn"},
               name \in [FilesOf(r) -> UploadNames], media \in [FilesOf(r) -> MediaTypes] :
             up' = [u \in Uploads |->
                      IF u \in FilesOf(r)
                      THEN [pc |-> "check", event |-> e, name |-> name[u],
                            media |-> media[u], id |-> None]
                      ELSE up[u]]
      BY <2>1 DEF Post
    <3>3. ASSUME NEW u \in Uploads
          PROVE  /\ up'[u] \in UploadStates
                 /\ up'[u].pc # "unsent" =>
                       None \notin {up'[u].event, up'[u].name, up'[u].media}
                 /\ up'[u].pc \in {"record", "cache", "publish", "stored"} => up'[u].id # None
      <4>1. CASE u \in FilesOf(r)
        <5>1. up'[u] = [pc |-> "check", event |-> e, name |-> name[u],
                        media |-> media[u], id |-> None]
          BY <3>2, <4>1
        <5>2. e \in Events /\ name[u] \in Names /\ media[u] \in MediaTypes
          BY <4>1
        <5>3. None \notin {e, name[u], media[u]}
          BY <5>2
        <5>4. [pc |-> "check", event |-> e, name |-> name[u], media |-> media[u], id |-> None]
                 \in UploadStates
          BY <5>2 DEF UploadStates
        <5> QED
          BY <5>1, <5>3, <5>4
      <4>2. CASE u \notin FilesOf(r)
        BY <3>2, <4>2 DEF UploadTypeOK
      <4> QED
        BY <4>1, <4>2
    <3>4. up' \in [Uploads -> UploadStates]
      BY <3>2, <3>3
    <3>5. response' \in [Requests -> {"unsent", "waiting", "ok", "error"}]
      BY <2>1 DEF Post, UploadTypeOK
    <3> QED
      BY <3>1, <3>3, <3>4, <3>5 DEF UploadTypeOK
  <2>2. ASSUME NEW r \in Requests, Respond(r) PROVE Goal
    BY <2>2 DEF Respond, Outcome, mediaVars, busVars, MediaTypeOK, BusTypeOK, UploadTypeOK
  <2>3. ASSUME NEW u \in Uploads, UploadCheck(u) PROVE Goal
    <3>1. MediaTypeOK' /\ BusTypeOK'
      BY <2>3 DEF UploadCheck, mediaVars, busVars, MediaTypeOK, BusTypeOK
    <3>2. UploadTypeOK'
      BY <2>3 DEF UploadCheck, Goto, UploadTypeOK, UploadStates
    <3> QED
      BY <3>1, <3>2
  <2>4. ASSUME NEW u \in Uploads, UploadBytes(u) PROVE Goal
    <3>1. up[u].event \in Events /\ up[u].name \in Names
      BY <2>4 DEF UploadBytes, UploadTypeOK, UploadStates
    <3>2. UploadStore(u) \in Stores
      BY <3>1 DEF UploadStore, StoreOf, MediaTypeOK, EventRows
    <3>3. objects' \in [Stores -> [Ids -> Contents]]
      <4>1. CASE UNCHANGED objects
        BY <4>1 DEF MediaTypeOK
      <4>2. CASE \E i \in FreshIds : StoreFresh(UploadStore(u), i, Photo(u))
        BY <4>2, <3>2, StoreType, PhotoIsContent
      <4>3. CASE StoreTruncate(UploadStore(u), up[u].name)
        BY <4>3, <3>1, <3>2, StoreType, PhotoIsContent
      <4> QED
        BY <2>4, <4>1, <4>2, <4>3 DEF UploadBytes
    <3>4. MediaTypeOK' /\ BusTypeOK'
      BY <2>4, <3>3 DEF UploadBytes, busVars, MediaTypeOK, BusTypeOK
    <3>5. UploadTypeOK'
      BY <2>4 DEF UploadBytes, Goto, UploadTypeOK, UploadStates, Ids
    <3> QED
      BY <3>4, <3>5
  <2>5. ASSUME NEW u \in Uploads, UploadWrite(u) PROVE Goal
    <3>1. up[u].event \in Events /\ up[u].name \in Names
      BY <2>5 DEF UploadWrite, UploadTypeOK, UploadStates
    <3>2. UploadStore(u) \in Stores
      BY <3>1 DEF UploadStore, StoreOf, MediaTypeOK, EventRows
    <3>3. objects' \in [Stores -> [Ids -> Contents]]
      <4>1. CASE UNCHANGED objects
        BY <4>1 DEF MediaTypeOK
      <4>2. CASE StoreWrite(UploadStore(u), up[u].name, Photo(u))
        BY <4>2, <3>1, <3>2, StoreType, PhotoIsContent
      <4> QED
        BY <2>5, <4>1, <4>2 DEF UploadWrite
    <3>4. MediaTypeOK' /\ BusTypeOK'
      BY <2>5, <3>3 DEF UploadWrite, busVars, MediaTypeOK, BusTypeOK
    <3>5. UploadTypeOK'
      BY <2>5, <3>1 DEF UploadWrite, Goto, UploadTypeOK, UploadStates, Ids
    <3> QED
      BY <3>4, <3>5
  <2>6. ASSUME NEW u \in Uploads, UploadRecord(u) PROVE Goal
    <3>1. /\ up[u].event \in Events
          /\ up[u].name \in Names
          /\ up[u].id \in Ids
      BY <2>6 DEF UploadRecord, UploadTypeOK, UploadStates
    <3>2. files' \subseteq FileRows
      <4> DEFINE row == [id |-> up[u].id, event |-> up[u].event, name |-> up[u].name,
                         video |-> up[u].media = "video", by |-> u]
      <4>1. row \in FileRows
        BY <3>1 DEF FileRows
      <4> HIDE DEF row
      <4>2. files' = files \/ files' = files \cup {row}
        BY <2>6 DEF UploadRecord, row
      <4> QED
        BY <4>1, <4>2 DEF MediaTypeOK
    <3>3. MediaTypeOK' /\ BusTypeOK'
      BY <2>6, <3>2 DEF UploadRecord, busVars, MediaTypeOK, BusTypeOK
    <3>4. UploadTypeOK'
      BY <2>6 DEF UploadRecord, Goto, UploadTypeOK, UploadStates
    <3> QED
      BY <3>3, <3>4
  <2>7. ASSUME NEW u \in Uploads, UploadCache(u) PROVE Goal
    <3>1. up[u].event \in Events /\ up[u].id \in Ids
      BY <2>7 DEF UploadCache, UploadTypeOK, UploadStates
    <3>2. cache' \in [Events -> [Ids -> Contents]]
      BY <2>7, <3>1, CacheSetType, PhotoIsContent DEF UploadCache
    <3>3. MediaTypeOK' /\ BusTypeOK'
      BY <2>7, <3>2 DEF UploadCache, busVars, MediaTypeOK, BusTypeOK
    <3>4. UploadTypeOK'
      BY <2>7, GotoType DEF UploadCache, UploadTypeOK
    <3> QED
      BY <3>3, <3>4
  <2>8. ASSUME NEW u \in Uploads, UploadPublish(u) PROVE Goal
    <3>1. up[u].event \in Events /\ up[u].id \in Ids
      BY <2>8 DEF UploadPublish, UploadTypeOK, UploadStates
    <3>2. BusTypeOK'
      BY <2>8, <3>1, NewPhotoType DEF UploadPublish, NewMedia
    <3>3. MediaTypeOK'
      BY <2>8 DEF UploadPublish, mediaVars, MediaTypeOK
    <3>4. up[u].pc = "publish" /\ Goto(u, "stored") /\ UNCHANGED response
      BY <2>8 DEF UploadPublish
    <3>5. UploadTypeOK'
      BY <3>4, GotoType DEF UploadTypeOK
    <3> QED
      BY <3>2, <3>3, <3>5
  <2> QED
    BY <2>1, <2>2, <2>3, <2>4, <2>5, <2>6, <2>7, <2>8 DEF Uploading, UploadNext, UploadStep
<1> QED
  BY <1>1 DEF TypeOK

\* A request to a storage handler, by a browser or on behalf of a worker.
LEMMA LookupType ==
    ASSUME MediaTypeOK, ReaderTypeOK, NEW r \in Readers, NEW table \in Tables, NEW id \in Ids,
           ReadLookup(r, table, id)
    PROVE  MediaTypeOK' /\ ReaderTypeOK'
<1> USE MediaAssumption
<1>1. MediaTypeOK'
  BY DEF ReadLookup, mediaVars, MediaTypeOK
<1>2. CASE \E row \in Rows(table) :
             reader' = [reader EXCEPT ![r] =
               [pc |-> IF UsesCache(row.event) THEN "cacheGet" ELSE "getEvent",
                table |-> table, id |-> id, event |-> row.event,
                useCache |-> UsesCache(row.event),
                late |-> ~Present(row.event), got |-> Nothing]]
  <2> PICK row \in Rows(table) :
             reader' = [reader EXCEPT ![r] =
               [pc |-> IF UsesCache(row.event) THEN "cacheGet" ELSE "getEvent",
                table |-> table, id |-> id, event |-> row.event,
                useCache |-> UsesCache(row.event),
                late |-> ~Present(row.event), got |-> Nothing]]
    BY <1>2
  <2>1. row.event \in Events
    BY DEF Rows, MediaTypeOK, FileRows, ThumbRows
  <2>2. UsesCache(row.event) \in BOOLEAN /\ (~Present(row.event)) \in BOOLEAN
    BY DEF UsesCache, Present
  <2>3. None \notin {id, row.event}
    BY <2>1 DEF Ids
  <2> DEFINE new == [pc |-> IF UsesCache(row.event) THEN "cacheGet" ELSE "getEvent",
                     table |-> table, id |-> id, event |-> row.event,
                     useCache |-> UsesCache(row.event),
                     late |-> ~Present(row.event), got |-> Nothing]
  <2>4. new \in ReaderStates
    BY <2>1, <2>2 DEF ReaderStates, Contents, Nothing
  <2>5. None \notin {new.id, new.event}
    BY <2>3
  <2> HIDE DEF new
  <2>6. reader' = [reader EXCEPT ![r] = new]
    BY DEF new
  <2> QED
    BY <1>1, <2>4, <2>5, <2>6 DEF ReaderTypeOK
<1>3. CASE reader' = [reader EXCEPT ![r] =
             [Idle EXCEPT !.pc = "failed", !.table = table, !.id = id]]
  BY <1>1, <1>3 DEF ReaderTypeOK, ReaderStates, Idle, Contents, Nothing
<1> QED
  BY <1>2, <1>3 DEF ReadLookup

LEMMA ReadStepType ==
    ASSUME MediaTypeOK, ReaderTypeOK, NEW r \in Readers, ReadStep(r)
    PROVE  MediaTypeOK' /\ ReaderTypeOK'
<1> USE MediaAssumption
<1> reader[r] \in ReaderStates
  BY DEF ReaderTypeOK
<1>0. /\ reader[r].event \in Events
      /\ reader[r].id \in Ids
      /\ reader[r].got \in Contents
  BY DEF ReadStep, ReadCache, ReadEvent, ReadStorage, ReadFill, ReaderTypeOK, ReaderStates
<1>1. CASE ReadCache(r)
  <2>1. cache[reader[r].event][reader[r].id] \in Contents
    BY <1>0 DEF MediaTypeOK
  <2>2. MediaTypeOK'
    BY <1>1 DEF ReadCache, mediaVars, MediaTypeOK
  <2>3. ReaderTypeOK'
    BY <1>1, <2>1 DEF ReadCache, ReadGoto, ReaderTypeOK, ReaderStates
  <2> QED
    BY <2>2, <2>3
<1>2. CASE ReadEvent(r)
  <2>1. MediaTypeOK'
    BY <1>2 DEF ReadEvent, mediaVars, MediaTypeOK
  <2>2. ReaderTypeOK'
    BY <1>2 DEF ReadEvent, ReadGoto, ReadFails, ReaderTypeOK, ReaderStates
  <2> QED
    BY <2>1, <2>2
<1>3. CASE ReadStorage(r)
  <2>1. objects[StoreOf(reader[r].event)][reader[r].id] \in Contents
    BY <1>0 DEF MediaTypeOK, StoreOf, EventRows
  <2>2. MediaTypeOK'
    BY <1>3 DEF ReadStorage, mediaVars, MediaTypeOK
  <2>3. ReaderTypeOK'
    BY <1>3, <2>1 DEF ReadStorage, ReadGoto, ReadFails, ReaderTypeOK, ReaderStates
  <2> QED
    BY <2>2, <2>3
<1>4. CASE ReadFill(r)
  <2>1. cache' \in [Events -> [Ids -> Contents]]
    BY <1>0, <1>4, CacheSetType DEF ReadFill
  <2>2. MediaTypeOK'
    BY <1>4, <2>1 DEF ReadFill, MediaTypeOK
  <2>3. ReaderTypeOK'
    BY <1>4 DEF ReadFill, ReadGoto, ReaderTypeOK, ReaderStates
  <2> QED
    BY <2>2, <2>3
<1> QED
  BY <1>1, <1>2, <1>3, <1>4 DEF ReadStep

LEMMA ReadingType == TypeOK /\ Reading => TypeOK'
<1> SUFFICES ASSUME TypeOK, Reading PROVE TypeOK'
  OBVIOUS
<1>1. BusTypeOK' /\ UploadTypeOK' /\ WorkerTypeOK'
  BY DEF TypeOK, Reading, busVars, uploadVars, workerVars, BusTypeOK, UploadTypeOK, WorkerTypeOK
<1>2. ASSUME NEW b \in Browsers, Browse(b) PROVE MediaTypeOK' /\ ReaderTypeOK'
  <2> PICK table \in Tables : \E row \in Rows(table) : ReadLookup(b, table, row.id)
    BY <1>2 DEF Browse
  <2> PICK row \in Rows(table) : ReadLookup(b, table, row.id)
    OBVIOUS
  <2> row.id \in Ids
    BY DEF TypeOK, Rows, MediaTypeOK, FileRows, ThumbRows
  <2> QED
    BY LookupType DEF TypeOK, Browsers
<1>3. ASSUME NEW b \in Browsers, ReadDone(b) PROVE MediaTypeOK' /\ ReaderTypeOK'
  BY <1>3, MediaAssumption DEF TypeOK, Browsers, ReadDone, mediaVars, MediaTypeOK, ReaderTypeOK,
                               ReaderStates, Idle, Contents, Nothing
<1>4. ASSUME NEW r \in Readers, ReadStep(r) PROVE MediaTypeOK' /\ ReaderTypeOK'
  BY <1>4, ReadStepType DEF TypeOK
<1> QED
  BY <1>1, <1>2, <1>3, <1>4 DEF TypeOK, Reading

LEMMA RestIsState == \A pc \in {"down", "idle"} :
                         /\ Rest(pc) \in WorkerStates
                         /\ Rest(pc).pc \in {"down", "idle"}
  BY DEF Rest, WorkerStates, Contents, Nothing

LEMMA ReleaseType ==
    ASSUME WorkerTypeOK, NEW w \in Workers, Release(w), UNCHANGED announced
    PROVE  WorkerTypeOK'
<1> DEFINE new == Rest("idle")
<1>1. new \in WorkerStates /\ new.pc = "idle"
  BY RestIsState DEF Rest
<1> HIDE DEF new
<1>2. worker' = [worker EXCEPT ![w] = new]
  BY DEF Release, new
<1> QED
  BY <1>1, <1>2 DEF WorkerTypeOK

\* The locals of a worker that is past receiving its message.
LEMMA WorkerLocals ==
    ASSUME TypeOK, NEW w \in Workers, worker[w].pc \notin {"down", "idle"}
    PROVE  /\ worker[w] \in WorkerStates
           /\ worker[w].msg \in NewMedia
           /\ worker[w].bytes \in Contents
           /\ WorkerStore(w) \in Stores
           /\ worker[w].pc \in {"cache", "record", "publish"} => worker[w].id \in Ids
<1>1. worker[w] \in WorkerStates /\ worker[w].msg # None
  BY DEF TypeOK, WorkerTypeOK
<1>2. worker[w].msg \in NewMedia /\ worker[w].bytes \in Contents
  BY <1>1 DEF WorkerStates
<1>3. WorkerStore(w) \in Stores
  BY <1>2 DEF TypeOK, MediaTypeOK, EventRows, NewMedia, WorkerStore, StoreOf
<1>4. worker[w].pc \in {"cache", "record", "publish"} => worker[w].id \in Ids
  BY <1>1 DEF TypeOK, WorkerTypeOK, WorkerStates
<1> QED
  BY <1>1, <1>2, <1>3, <1>4

LEMMA ThumbNameType == \A f \in FileRows : ThumbNameOf(f) \in Names
  BY MediaAssumption DEF FileRows, ThumbNameOf

\* A step of a worker, one operation at a time.
LEMMA WorkerStartType ==
    ASSUME TypeOK, NEW w \in Workers, WorkerStart(w)
    PROVE  MediaTypeOK' /\ BusTypeOK' /\ ReaderTypeOK' /\ WorkerTypeOK'
<1> USE MediaAssumption, PipelineAssumption
<1>1. MediaTypeOK' /\ BusTypeOK'
  BY DEF WorkerStart, mediaVars, TypeOK, MediaTypeOK, BusTypeOK
<1>2. ReaderTypeOK'
  BY DEF WorkerStart, TypeOK, ReaderTypeOK, ReaderStates, Idle, Contents, Nothing
<1>3. WorkerTypeOK'
  BY ReleaseType DEF WorkerStart, Release, TypeOK
<1> QED
  BY <1>1, <1>2, <1>3

LEMMA WorkerReceiveType ==
    ASSUME TypeOK, NEW w \in Workers, WorkerReceive(w)
    PROVE  MediaTypeOK' /\ BusTypeOK' /\ ReaderTypeOK' /\ WorkerTypeOK'
<1>1. MediaTypeOK' /\ ReaderTypeOK'
  BY DEF WorkerReceive, mediaVars, TypeOK, MediaTypeOK, ReaderTypeOK
<1>2. inbox[w] \in Seq(NewMedia) /\ inbox[w] # <<>>
  BY DEF WorkerReceive, TypeOK, BusTypeOK
<1>3. Head(inbox[w]) \in NewMedia /\ Tail(inbox[w]) \in Seq(NewMedia)
  BY <1>2
<1>4. BusTypeOK'
  BY <1>3 DEF WorkerReceive, TypeOK, BusTypeOK
<1> DEFINE new == [Rest("lookup") EXCEPT !.msg = Head(inbox[w])]
<1>5. new \in WorkerStates /\ new.pc = "lookup" /\ new.msg # None
  <2>1. Head(inbox[w]) # None
    BY <1>3, BusAssumption
  <2> QED
    BY <1>3, <2>1 DEF Rest, WorkerStates, Contents, Nothing
<1> HIDE DEF new
<1>6. worker' = [worker EXCEPT ![w] = new]
  BY DEF WorkerReceive, new
<1>7. WorkerTypeOK'
  BY <1>5, <1>6 DEF WorkerReceive, TypeOK, WorkerTypeOK
<1> QED
  BY <1>1, <1>4, <1>7

LEMMA WorkerLookupType ==
    ASSUME TypeOK, NEW w \in Workers, WorkerLookup(w)
    PROVE  MediaTypeOK' /\ BusTypeOK' /\ ReaderTypeOK' /\ WorkerTypeOK'
<1>1. MediaTypeOK' /\ BusTypeOK' /\ ReaderTypeOK'
  BY DEF WorkerLookup, mediaVars, busVars, TypeOK, MediaTypeOK, BusTypeOK, ReaderTypeOK
<1>2. WorkerTypeOK'
  <2>1. CASE WorkerGoto(w, "fetch")
    BY <2>1 DEF WorkerLookup, WorkerGoto, TypeOK, WorkerTypeOK, WorkerStates
  <2>2. CASE Release(w)
    BY <2>2, ReleaseType DEF WorkerLookup, TypeOK
  <2> QED
    BY <2>1, <2>2 DEF WorkerLookup
<1> QED
  BY <1>1, <1>2

LEMMA WorkerFetchType ==
    ASSUME TypeOK, NEW w \in Workers, WorkerFetch(w)
    PROVE  MediaTypeOK' /\ BusTypeOK' /\ ReaderTypeOK' /\ WorkerTypeOK'
<1> USE MediaAssumption, PipelineAssumption
<1>1. worker[w].msg \in NewMedia /\ worker[w] \in WorkerStates
  BY WorkerLocals DEF WorkerFetch
<1>2. BusTypeOK'
  BY DEF WorkerFetch, busVars, TypeOK, BusTypeOK
<1>3. WorkerTypeOK'
  BY <1>1 DEF WorkerFetch, WorkerGoto, TypeOK, WorkerTypeOK, WorkerStates
<1>4. MediaTypeOK' /\ ReaderTypeOK'
  <2>1. CASE ReadLookup(w, "picture", worker[w].msg.file)
    BY <1>1, <2>1, LookupType DEF TypeOK, Tables, NewMedia
  <2>2. CASE reader' = [reader EXCEPT ![w] = [Idle EXCEPT !.pc = "failed"]] /\ UNCHANGED mediaVars
    BY <2>2 DEF mediaVars, TypeOK, MediaTypeOK, ReaderTypeOK, ReaderStates, Idle, Contents, Nothing
  <2> QED
    BY <2>1, <2>2 DEF WorkerFetch
<1> QED
  BY <1>2, <1>3, <1>4

LEMMA ThumbnailedType == \A c \in Contents : Thumbnailed(c) \subseteq Contents
  BY DEF Contents, Thumbnailed, Thumb, Broken

LEMMA WorkerThumbType ==
    ASSUME TypeOK, NEW w \in Workers, WorkerThumb(w)
    PROVE  MediaTypeOK' /\ BusTypeOK' /\ ReaderTypeOK' /\ WorkerTypeOK'
<1> USE MediaAssumption, PipelineAssumption
<1>1. MediaTypeOK' /\ BusTypeOK'
  BY DEF WorkerThumb, mediaVars, busVars, TypeOK, MediaTypeOK, BusTypeOK
<1>2. ReaderTypeOK'
  BY DEF WorkerThumb, TypeOK, ReaderTypeOK, ReaderStates, Idle, Contents, Nothing
<1>3. ASSUME NEW c \in Contents,
             worker' = [worker EXCEPT ![w].pc = "store", ![w].bytes = c]
      PROVE  WorkerTypeOK'
  <2> DEFINE new == [worker[w] EXCEPT !.pc = "store", !.bytes = c]
  <2>1. worker[w] \in WorkerStates /\ worker[w].msg # None
    BY DEF WorkerThumb, TypeOK, WorkerTypeOK
  <2>2. new \in WorkerStates /\ new.pc = "store" /\ new.msg # None
    BY <2>1 DEF WorkerStates
  <2>3. worker' = [worker EXCEPT ![w] = new]
    BY <1>3
  <2> HIDE DEF new
  <2> QED
    BY <2>2, <2>3 DEF WorkerThumb, TypeOK, WorkerTypeOK
<1>4. reader[w].got \in Contents
  BY DEF TypeOK, ReaderTypeOK, ReaderStates
<1>5. WorkerTypeOK'
  <2>1. CASE \E c \in Thumbnailed(reader[w].got) :
               worker' = [worker EXCEPT ![w].pc = "store", ![w].bytes = c]
    BY <1>3, <1>4, <2>1, ThumbnailedType
  <2>2. CASE worker' = [worker EXCEPT ![w].pc = "store", ![w].bytes = Page]
    <3>1. Page \in Contents
      BY DEF Page, Contents
    <3> QED
      BY <1>3, <2>2, <3>1
  <2>3. CASE Release(w)
    BY <2>3, ReleaseType DEF WorkerThumb, TypeOK
  <2> QED
    BY <2>1, <2>2, <2>3 DEF WorkerThumb
<1> QED
  BY <1>1, <1>2, <1>5

LEMMA StoredType ==
    ASSUME WorkerTypeOK, NEW w \in Workers, worker[w].pc \notin {"down", "idle"},
           NEW i \in Ids, Stored(w, i), UNCHANGED announced
    PROVE  WorkerTypeOK'
<1> DEFINE next == IF WorkerCaches(w) THEN "cache" ELSE "record"
<1>1. next \in {"cache", "record"} /\ i # None
  BY MediaAssumption DEF Ids
<1> HIDE DEF next
<1>2. worker' = [worker EXCEPT ![w].pc = next, ![w].id = i]
  BY DEF Stored, next
<1> DEFINE new == [worker[w] EXCEPT !.pc = next, !.id = i]
<1>3. worker[w] \in WorkerStates /\ worker[w].msg # None
  BY DEF WorkerTypeOK
<1>4. new \in WorkerStates /\ new.msg # None /\ new.id # None
  BY <1>1, <1>3 DEF WorkerStates
<1>5. worker' = [worker EXCEPT ![w] = new]
  BY <1>2
<1> HIDE DEF new
<1> QED
  BY <1>4, <1>5 DEF WorkerTypeOK

LEMMA WorkerBytesType ==
    ASSUME TypeOK, NEW w \in Workers, WorkerBytes(w)
    PROVE  MediaTypeOK' /\ BusTypeOK' /\ ReaderTypeOK' /\ WorkerTypeOK'
<1>1. worker[w].bytes \in Contents /\ WorkerStore(w) \in Stores
  BY WorkerLocals DEF WorkerBytes
<1>2. BusTypeOK' /\ ReaderTypeOK'
  BY DEF WorkerBytes, busVars, TypeOK, BusTypeOK, ReaderTypeOK
<1>3. MsgFiles(w) \subseteq FileRows
  BY DEF MsgFiles, TypeOK, MediaTypeOK
<1>4. CASE \E i \in FreshIds : StoreFresh(WorkerStore(w), i, worker[w].bytes) /\ Stored(w, i)
  <2> PICK i \in FreshIds : StoreFresh(WorkerStore(w), i, worker[w].bytes) /\ Stored(w, i)
    BY <1>4
  <2>1. objects' \in [Stores -> [Ids -> Contents]]
    BY <1>1, StoreType DEF TypeOK
  <2>2. WorkerTypeOK'
    BY StoredType DEF WorkerBytes, TypeOK, Ids
  <2> QED
    BY <1>2, <2>1, <2>2 DEF WorkerBytes, TypeOK, MediaTypeOK
<1>5. CASE /\ \E f \in MsgFiles(w) : StoreTruncate(WorkerStore(w), ThumbNameOf(f))
           /\ WorkerGoto(w, "write")
  <2>1. objects' \in [Stores -> [Ids -> Contents]]
    BY <1>1, <1>3, <1>5, StoreType, ThumbNameType DEF TypeOK
  <2>2. WorkerTypeOK'
    BY <1>5 DEF WorkerBytes, WorkerGoto, TypeOK, WorkerTypeOK, WorkerStates
  <2> QED
    BY <1>2, <2>1, <2>2 DEF WorkerBytes, TypeOK, MediaTypeOK
<1>6. CASE Release(w) /\ UNCHANGED objects
  BY <1>2, <1>6, ReleaseType DEF WorkerBytes, TypeOK, MediaTypeOK
<1> QED
  BY <1>4, <1>5, <1>6 DEF WorkerBytes

LEMMA WorkerWriteType ==
    ASSUME TypeOK, NEW w \in Workers, WorkerWrite(w)
    PROVE  MediaTypeOK' /\ BusTypeOK' /\ ReaderTypeOK' /\ WorkerTypeOK'
<1>1. worker[w].bytes \in Contents /\ WorkerStore(w) \in Stores
  BY WorkerLocals DEF WorkerWrite
<1>2. BusTypeOK' /\ ReaderTypeOK'
  BY DEF WorkerWrite, busVars, TypeOK, BusTypeOK, ReaderTypeOK
<1>3. CASE \E f \in MsgFiles(w) :
             /\ StoreWrite(WorkerStore(w), ThumbNameOf(f), worker[w].bytes)
             /\ Stored(w, ThumbNameOf(f))
  <2> PICK f \in MsgFiles(w) :
             /\ StoreWrite(WorkerStore(w), ThumbNameOf(f), worker[w].bytes)
             /\ Stored(w, ThumbNameOf(f))
    BY <1>3
  <2>1. ThumbNameOf(f) \in Names
    BY ThumbNameType DEF MsgFiles, TypeOK, MediaTypeOK
  <2>2. objects' \in [Stores -> [Ids -> Contents]]
    BY <1>1, <2>1, StoreType DEF TypeOK
  <2>3. WorkerTypeOK'
    BY <2>1, StoredType DEF WorkerWrite, TypeOK, Ids
  <2> QED
    BY <1>2, <2>2, <2>3 DEF WorkerWrite, TypeOK, MediaTypeOK
<1>4. CASE Release(w) /\ UNCHANGED objects
  BY <1>2, <1>4, ReleaseType DEF WorkerWrite, TypeOK, MediaTypeOK
<1> QED
  BY <1>3, <1>4 DEF WorkerWrite

LEMMA WorkerCacheType ==
    ASSUME TypeOK, NEW w \in Workers, WorkerCache(w)
    PROVE  MediaTypeOK' /\ BusTypeOK' /\ ReaderTypeOK' /\ WorkerTypeOK'
<1>1. worker[w].msg \in NewMedia /\ worker[w].bytes \in Contents /\ worker[w].id \in Ids
  BY WorkerLocals DEF WorkerCache
<1>2. BusTypeOK' /\ ReaderTypeOK'
  BY DEF WorkerCache, busVars, TypeOK, BusTypeOK, ReaderTypeOK
<1>3. cache' \in [Events -> [Ids -> Contents]]
  BY <1>1, CacheSetType DEF WorkerCache, TypeOK, NewMedia
<1>4. MediaTypeOK'
  BY <1>3 DEF WorkerCache, TypeOK, MediaTypeOK
<1>5. WorkerTypeOK'
  BY DEF WorkerCache, WorkerGoto, TypeOK, WorkerTypeOK, WorkerStates
<1> QED
  BY <1>2, <1>4, <1>5

LEMMA WorkerRecordType ==
    ASSUME TypeOK, NEW w \in Workers, WorkerRecord(w)
    PROVE  MediaTypeOK' /\ BusTypeOK' /\ ReaderTypeOK' /\ WorkerTypeOK'
<1> DEFINE row == [id |-> worker[w].id, event |-> worker[w].msg.event,
                   file |-> worker[w].msg.file]
<1>1. BusTypeOK' /\ ReaderTypeOK'
  BY DEF WorkerRecord, busVars, TypeOK, BusTypeOK, ReaderTypeOK
<1>2. row \in ThumbRows
  BY WorkerLocals DEF WorkerRecord, NewMedia, ThumbRows
<1>3. \/ thumbs' = thumbs \cup {row} /\ WorkerGoto(w, "publish")
      \/ thumbs' = thumbs /\ Release(w)
  BY DEF WorkerRecord
<1> HIDE DEF row
<1>4. MediaTypeOK'
  BY <1>2, <1>3 DEF WorkerRecord, TypeOK, MediaTypeOK
<1>5. WorkerTypeOK'
  <2>1. CASE WorkerGoto(w, "publish")
    BY <2>1 DEF WorkerRecord, WorkerGoto, TypeOK, WorkerTypeOK, WorkerStates
  <2>2. CASE Release(w)
    BY <2>2, ReleaseType DEF WorkerRecord, TypeOK
  <2> QED
    BY <1>3, <2>1, <2>2
<1> QED
  BY <1>1, <1>4, <1>5

LEMMA WorkerPublishType ==
    ASSUME TypeOK, NEW w \in Workers, WorkerPublish(w)
    PROVE  MediaTypeOK' /\ BusTypeOK' /\ ReaderTypeOK' /\ WorkerTypeOK'
<1>1. MediaTypeOK' /\ ReaderTypeOK'
  BY DEF WorkerPublish, mediaVars, TypeOK, MediaTypeOK, ReaderTypeOK
<1>2. BusTypeOK'
  BY WorkerLocals, NewThumbnailType DEF WorkerPublish, TypeOK
<1>3. WorkerTypeOK'
  BY ReleaseType DEF WorkerPublish, TypeOK
<1> QED
  BY <1>1, <1>2, <1>3

LEMMA ThumbnailingType == TypeOK /\ Thumbnailing => TypeOK'
<1> SUFFICES ASSUME TypeOK, Thumbnailing PROVE TypeOK'
  OBVIOUS
<1> DEFINE Goal == MediaTypeOK' /\ BusTypeOK' /\ ReaderTypeOK' /\ WorkerTypeOK'
<1>1. UploadTypeOK'
  BY DEF TypeOK, Thumbnailing, uploadVars, UploadTypeOK
<1>2. CASE Announce
  <2>1. MediaTypeOK' /\ ReaderTypeOK'
    BY <1>2 DEF Announce, mediaVars, TypeOK, MediaTypeOK, ReaderTypeOK
  <2>2. Head(notices) \in Ids /\ Tail(notices) \in Seq(Ids)
    BY <1>2 DEF Announce, TypeOK, BusTypeOK
  <2>3. BusTypeOK' /\ WorkerTypeOK'
    BY <1>2, <2>2 DEF Announce, TypeOK, BusTypeOK, WorkerTypeOK
  <2> QED
    BY <1>1, <2>1, <2>3 DEF TypeOK
<1>3. ASSUME NEW w \in Workers, WorkerCrash(w) PROVE Goal
  <2>1. MediaTypeOK' /\ ReaderTypeOK'
    BY <1>3 DEF WorkerCrash, mediaVars, TypeOK, MediaTypeOK, ReaderTypeOK
  <2>2. BusTypeOK'
    BY <1>3 DEF WorkerCrash, TypeOK, BusTypeOK
  <2> DEFINE new == Rest("down")
  <2>3. new \in WorkerStates /\ new.pc = "down"
    BY RestIsState DEF Rest
  <2> HIDE DEF new
  <2>4. worker' = [worker EXCEPT ![w] = new]
    BY <1>3 DEF WorkerCrash, new
  <2>5. WorkerTypeOK'
    BY <1>3, <2>3, <2>4 DEF WorkerCrash, TypeOK, WorkerTypeOK
  <2> QED
    BY <2>1, <2>2, <2>5
<1>4. ASSUME NEW w \in Workers, WorkerStart(w) \/ WorkerStep(w) PROVE Goal
  BY <1>4, WorkerStartType, WorkerReceiveType, WorkerLookupType, WorkerFetchType,
     WorkerThumbType, WorkerBytesType, WorkerWriteType, WorkerCacheType, WorkerRecordType,
     WorkerPublishType DEF WorkerStep
<1> QED
  BY <1>1, <1>2, <1>3, <1>4 DEF TypeOK, Thumbnailing, WorkerNext

LEMMA CrashType == TypeOK /\ ServerCrash => TypeOK'
<1> SUFFICES ASSUME TypeOK, ServerCrash PROVE TypeOK'
  OBVIOUS
<1>1. MediaTypeOK'
  <2>1. Nothing \in Contents
    BY DEF Nothing, Contents
  <2>2. cache' \in [Events -> [Ids -> Contents]]
    <3>1. CASE cache' = [e \in Events |-> [i \in Ids |-> Nothing]]
      BY <2>1, <3>1
    <3>2. CASE UNCHANGED cache
      BY <3>2 DEF TypeOK, MediaTypeOK
    <3> QED
      BY <3>1, <3>2 DEF ServerCrash
  <2> QED
    BY <2>2 DEF ServerCrash, TypeOK, MediaTypeOK
<1>2. BusTypeOK'
  <2>1. inbox' \in [Workers -> Seq(NewMedia)]
    <3>1. CASE inbox' = [w \in Workers |-> <<>>]
      BY <3>1
    <3>2. CASE UNCHANGED inbox
      BY <3>2 DEF TypeOK, BusTypeOK
    <3> QED
      BY <3>1, <3>2 DEF ServerCrash
  <2>2. subscribed' \subseteq Workers
    BY DEF ServerCrash, TypeOK, BusTypeOK
  <2>3. notices' \in Seq(Ids)
    BY DEF ServerCrash
  <2> QED
    BY <2>1, <2>2, <2>3 DEF BusTypeOK
<1>3. UploadTypeOK'
  <2>1. UploadsCrash
    BY DEF ServerCrash
  <2> QED
    BY <2>1 DEF UploadsCrash, TypeOK, UploadTypeOK, UploadStates
<1>4. ReaderTypeOK'
  <2>1. ReadersCrash
    BY DEF ServerCrash
  <2> QED
    BY <2>1 DEF ReadersCrash, TypeOK, ReaderTypeOK, ReaderStates
<1>5. WorkerTypeOK'
  <2>1. CASE worker' = worker
    BY <2>1 DEF ServerCrash, TypeOK, WorkerTypeOK
  <2>2. CASE worker' = [w \in Workers |-> Rest("down")]
    <3> DEFINE new == Rest("down")
    <3>1. new \in WorkerStates /\ new.pc = "down"
      BY RestIsState DEF Rest
    <3> HIDE DEF new
    <3>2. worker' = [w \in Workers |-> new]
      BY <2>2 DEF new
    <3> QED
      BY <3>1, <3>2 DEF ServerCrash, TypeOK, WorkerTypeOK
  <2> QED
    BY <2>1, <2>2 DEF ServerCrash
<1> QED
  BY <1>1, <1>2, <1>3, <1>4, <1>5 DEF TypeOK

LEMMA StartType == TypeOK /\ ServerStart => TypeOK'
  BY DEF TypeOK, ServerStart, MediaTypeOK, BusTypeOK, UploadTypeOK, ReaderTypeOK, WorkerTypeOK,
         busVars, uploadVars, workerVars

\* Every step of the pipeline keeps the types, and the locals that later
\* steps of an upload, a read or a worker rely on.
LEMMA StepType == TypeOK /\ [Next]_vars => TypeOK'
<1>1. TypeOK /\ UNCHANGED vars => TypeOK'
  BY DEF TypeOK, vars, mediaVars, busVars, uploadVars, workerVars, MediaTypeOK, BusTypeOK,
         UploadTypeOK, ReaderTypeOK, WorkerTypeOK
<1> QED
  BY <1>1, OrganiseType, UploadingType, ReadingType, ThumbnailingType, CrashType, StartType
  DEF Next

\* TypeOK is an invariant of the pipeline: in particular no upload, reader or
\* worker ever acts on an event, an identifier or a message it does not have.
THEOREM TypeCorrect == Spec => []TypeOK
  BY InitType, StepType, PTL DEF Spec

-----------------------------------------------------------------------------
(* What a step can change *)

\* Who can change the state of upload u, reader r or worker w.
LEMMA UploadChange ==
    ASSUME TypeOK, [Next]_vars, NEW u \in Uploads, up'[u] # up[u]
    PROVE  \/ \E r \in Requests : u \in FilesOf(r) /\ Post(r)
           \/ UploadStep(u)
           \/ ServerCrash
<1> up \in [Uploads -> UploadStates]
  BY DEF TypeOK, UploadTypeOK
<1>1. up' # up
  OBVIOUS
<1>2. Uploading \/ ServerCrash
  BY <1>1 DEF Next, vars, uploadVars, Organise, Reading, Thumbnailing, ServerStart
<1>3. ASSUME NEW r \in Requests, Post(r) PROVE u \in FilesOf(r)
  BY <1>3 DEF Post
<1>4. ASSUME NEW r \in Requests, Respond(r) PROVE FALSE
  BY <1>1, <1>4 DEF Respond
<1>5. ASSUME NEW v \in Uploads, UploadStep(v) PROVE u = v
  BY <1>5 DEF UploadStep, UploadCheck, UploadBytes, UploadWrite, UploadRecord, UploadCache,
              UploadPublish, Goto
<1> QED
  BY <1>2, <1>3, <1>4, <1>5 DEF Uploading, UploadNext

LEMMA ReaderChange ==
    ASSUME TypeOK, [Next]_vars, NEW r \in Readers, reader'[r] # reader[r]
    PROVE  \/ ReadStep(r)
           \/ r \in Browsers /\ (Browse(r) \/ ReadDone(r))
           \/ r \in Workers /\ (WorkerStart(r) \/ WorkerFetch(r) \/ WorkerThumb(r))
           \/ ServerCrash
<1> reader \in [Readers -> ReaderStates]
  BY DEF TypeOK, ReaderTypeOK
<1>1. reader' # reader
  OBVIOUS
<1>2. Reading \/ Thumbnailing \/ ServerCrash
  BY <1>1 DEF Next, vars, Organise, Uploading, ServerStart
<1>3. ASSUME NEW b \in Browsers, Browse(b) \/ ReadDone(b) PROVE b = r
  BY <1>3 DEF Browse, ReadDone, ReadLookup
<1>4. ASSUME NEW q \in Readers, ReadStep(q) PROVE q = r
  BY <1>4 DEF ReadStep, ReadCache, ReadEvent, ReadStorage, ReadFill, ReadGoto, ReadFails
<1>5. ASSUME NEW w \in Workers, WorkerStart(w) \/ WorkerFetch(w) \/ WorkerThumb(w) PROVE w = r
  BY <1>5 DEF WorkerStart, WorkerFetch, WorkerThumb, ReadLookup
<1>6. ASSUME Thumbnailing
      PROVE  \E w \in Workers : WorkerStart(w) \/ WorkerFetch(w) \/ WorkerThumb(w)
  BY <1>1, <1>6 DEF Thumbnailing, WorkerNext, WorkerStep, Announce, WorkerCrash, WorkerReceive,
                    WorkerLookup, WorkerBytes, WorkerWrite, WorkerCache, WorkerRecord,
                    WorkerPublish
<1> QED
  BY <1>2, <1>3, <1>4, <1>5, <1>6 DEF Reading, Browsers

LEMMA WorkerChange ==
    ASSUME TypeOK, [Next]_vars, NEW w \in Workers, worker'[w] # worker[w]
    PROVE  WorkerStart(w) \/ WorkerStep(w) \/ WorkerCrash(w) \/ ServerCrash
<1> worker \in [Workers -> WorkerStates]
  BY DEF TypeOK, WorkerTypeOK
<1>1. worker' # worker
  OBVIOUS
<1>2. Thumbnailing \/ ServerCrash
  BY <1>1 DEF Next, vars, workerVars, Organise, Uploading, Reading, ServerStart
<1>3. ~Announce
  BY <1>1 DEF Announce
<1>4. ASSUME NEW v \in Workers, WorkerStart(v) \/ WorkerStep(v) \/ WorkerCrash(v) PROVE v = w
  BY <1>4 DEF WorkerStart, WorkerStep, WorkerCrash, WorkerReceive, WorkerLookup, WorkerFetch,
              WorkerThumb, WorkerBytes, WorkerWrite, WorkerCache, WorkerRecord, WorkerPublish,
              WorkerGoto, Release, Stored
<1> QED
  BY <1>2, <1>3, <1>4 DEF Thumbnailing, WorkerNext

\* What a step of a process leaves of its own locals.
LEMMA UploadKeeps ==
    ASSUME TypeOK, NEW u \in Uploads, UploadStep(u)
    PROVE  /\ up[u].pc # "unsent"
           /\ up'[u].event = up[u].event
           /\ up[u].pc \in {"record", "cache", "publish"} => up'[u].id = up[u].id
<1> up \in [Uploads -> UploadStates]
  BY DEF TypeOK, UploadTypeOK
<1> up[u] \in UploadStates
  OBVIOUS
<1> USE DEF UploadStates
<1>1. CASE UploadCheck(u)
  BY <1>1 DEF UploadCheck, Goto
<1>2. CASE UploadBytes(u)
  BY <1>2 DEF UploadBytes, Goto
<1>3. CASE UploadWrite(u)
  BY <1>3 DEF UploadWrite, Goto
<1>4. CASE UploadRecord(u)
  BY <1>4 DEF UploadRecord, Goto
<1>5. CASE UploadCache(u)
  BY <1>5 DEF UploadCache, Goto
<1>6. CASE UploadPublish(u)
  BY <1>6 DEF UploadPublish, Goto
<1> QED
  BY <1>1, <1>2, <1>3, <1>4, <1>5, <1>6 DEF UploadStep

LEMMA WorkerKeeps ==
    ASSUME TypeOK, NEW w \in Workers, WorkerStep(w), ~WorkerReceive(w)
    PROVE  /\ worker[w].pc \notin {"down", "idle"}
           /\ worker'[w] # Rest("idle") => worker'[w].msg = worker[w].msg
<1> worker \in [Workers -> WorkerStates]
  BY DEF TypeOK, WorkerTypeOK
<1> worker[w] \in WorkerStates
  OBVIOUS
<1> USE DEF WorkerStates, WorkerGoto, Release
<1>1. CASE WorkerLookup(w)
  BY <1>1 DEF WorkerLookup
<1>2. CASE WorkerFetch(w)
  BY <1>2 DEF WorkerFetch
<1>3. CASE WorkerThumb(w)
  BY <1>3 DEF WorkerThumb
<1>4. CASE WorkerBytes(w)
  BY <1>4 DEF WorkerBytes, Stored
<1>5. CASE WorkerWrite(w)
  BY <1>5 DEF WorkerWrite, Stored
<1>6. CASE WorkerCache(w)
  BY <1>6 DEF WorkerCache
<1>7. CASE WorkerRecord(w)
  BY <1>7 DEF WorkerRecord
<1>8. CASE WorkerPublish(w)
  BY <1>8 DEF WorkerPublish
<1> QED
  BY <1>1, <1>2, <1>3, <1>4, <1>5, <1>6, <1>7, <1>8 DEF WorkerStep

\* A worker comes to "thumb" by asking imagor.
LEMMA ComesToThumb ==
    ASSUME TypeOK, [Next]_vars, NEW w \in Workers, worker'[w].pc = "thumb"
    PROVE  WorkerFetch(w) \/ worker'[w] = worker[w]
<1> worker \in [Workers -> WorkerStates] /\ worker[w] \in WorkerStates
  BY DEF TypeOK, WorkerTypeOK
<1>1. ASSUME WorkerStep(w), ~WorkerFetch(w) PROVE FALSE
  BY <1>1 DEF WorkerStep, WorkerReceive, WorkerLookup, WorkerThumb, WorkerBytes,
        WorkerWrite, WorkerCache, WorkerRecord, WorkerPublish, WorkerGoto, Stored, Release,
        Rest, WorkerStates
<1>2. ASSUME WorkerStart(w) \/ WorkerCrash(w) PROVE FALSE
  BY <1>2 DEF WorkerStart, WorkerCrash, Rest
<1>3. ASSUME ServerCrash PROVE worker'[w] = worker[w]
  BY <1>3 DEF ServerCrash, Rest
<1> QED
  BY <1>1, <1>2, <1>3, WorkerChange

LEMMA ReaderKeeps ==
    ASSUME TypeOK, NEW r \in Readers, ReadStep(r)
    PROVE  /\ reader[r].pc \notin {"idle", "failed"}
           /\ reader'[r].event = reader[r].event
           /\ reader'[r].id = reader[r].id
           /\ reader'[r].table = reader[r].table
<1> reader \in [Readers -> ReaderStates]
  BY DEF TypeOK, ReaderTypeOK
<1> reader[r] \in ReaderStates
  OBVIOUS
<1> USE DEF ReaderStates, ReadGoto, ReadFails
<1>1. CASE ReadCache(r)
  BY <1>1 DEF ReadCache
<1>2. CASE ReadEvent(r)
  BY <1>2 DEF ReadEvent
<1>3. CASE ReadStorage(r)
  BY <1>3 DEF ReadStorage
<1>4. CASE ReadFill(r)
  BY <1>4 DEF ReadFill
<1> QED
  BY <1>1, <1>2, <1>3, <1>4 DEF ReadStep

\* Rows are only added, a created event keeps its store, and an object of a
\* store that gives out its own identifiers never changes.
Grow ==
    /\ files \subseteq files'
    /\ thumbs \subseteq thumbs'
    /\ \A e \in Events : Born(e) => events'[e].status # "unborn" /\ events'[e].store = events[e].store
    /\ \A s \in Stores, i \in Ids :
          Kind[s] = "fresh" /\ objects[s][i] # Nothing => objects'[s][i] = objects[s][i]

LEMMA StoreGrows ==
    ASSUME MediaTypeOK, NEW s \in Stores, NEW c,
           \/ \E i \in FreshIds : StoreFresh(s, i, c)
           \/ \E n \in Names : StoreTruncate(s, n) \/ StoreWrite(s, n, c)
    PROVE  \A x \in Stores, i \in Ids :
               Kind[x] = "fresh" /\ objects[x][i] # Nothing => objects'[x][i] = objects[x][i]
<1> SUFFICES ASSUME NEW x \in Stores, NEW j \in Ids, Kind[x] = "fresh", objects[x][j] # Nothing
             PROVE  objects'[x][j] = objects[x][j]
  OBVIOUS
<1> objects \in [Stores -> [Ids -> Contents]]
  BY DEF MediaTypeOK
<1>1. ASSUME NEW i \in FreshIds, StoreFresh(s, i, c) PROVE objects'[x][j] = objects[x][j]
  BY <1>1 DEF StoreFresh, Unused, Put
<1>2. ASSUME NEW n \in Names, StoreTruncate(s, n) \/ StoreWrite(s, n, c)
      PROVE  objects'[x][j] = objects[x][j]
  <2>1. s # x
    BY <1>2 DEF StoreTruncate, StoreWrite
  <2>2. \E r : Put(s, n, r)
    BY <1>2 DEF StoreTruncate, StoreWrite
  <2> QED
    BY <2>1, <2>2 DEF Put
<1> QED
  BY <1>1, <1>2

LEMMA StepGrows ==
    ASSUME TypeOK, [Next]_vars
    PROVE  Grow
<1> USE DEF Grow
<1>0. ASSUME UNCHANGED <<events, files, thumbs, objects>> PROVE Grow
  BY <1>0 DEF Born
<1>1. CASE Organise
  <2>1. ASSUME NEW e \in Events, CreateEvent(e) \/ SetEventLive(e) \/ DeleteEvent(e) PROVE Grow
    <3> events \in [Events -> EventRows]
      BY DEF TypeOK, MediaTypeOK
    <3>1. ASSUME NEW x \in Events, Born(x)
          PROVE  events'[x].status # "unborn" /\ events'[x].store = events[x].store
      <4>1. CASE CreateEvent(e)
        BY <3>1, <4>1 DEF CreateEvent, Born, EventRows
      <4>2. CASE SetEventLive(e)
        BY <3>1, <4>2 DEF SetEventLive, Born, EventRows
      <4>3. CASE DeleteEvent(e)
        BY <3>1, <4>3 DEF DeleteEvent, Born, EventRows
      <4> QED
        BY <2>1, <4>1, <4>2, <4>3
    <3>2. UNCHANGED <<files, thumbs, objects>>
      BY <2>1 DEF CreateEvent, SetEventLive, DeleteEvent
    <3> QED
      BY <3>1, <3>2
  <2>2. ASSUME NEW e \in Events, NEW i \in Ids, CacheExpire(e, i) PROVE Grow
    BY <1>0, <2>2 DEF CacheExpire
  <2> QED
    BY <1>1, <2>1, <2>2 DEF Organise, MediaNext
<1>2. CASE Uploading
  <2>1. ASSUME NEW r \in Requests, Post(r) \/ Respond(r) PROVE Grow
    BY <1>0, <2>1 DEF Post, Respond, mediaVars
  <2>2. ASSUME NEW u \in Uploads, UploadCheck(u) \/ UploadCache(u) \/ UploadPublish(u) PROVE Grow
    BY <1>0, <2>2 DEF UploadCheck, UploadCache, UploadPublish, mediaVars
  <2>3. ASSUME NEW u \in Uploads, UploadBytes(u) \/ UploadWrite(u) PROVE Grow
    <3>1. /\ up[u].name \in Names
          /\ UploadStore(u) \in Stores
      BY <2>3 DEF UploadBytes, UploadWrite, TypeOK, UploadTypeOK, UploadStates, UploadStore,
                  StoreOf, MediaTypeOK, EventRows
    <3>2. \A x \in Stores, i \in Ids :
             Kind[x] = "fresh" /\ objects[x][i] # Nothing => objects'[x][i] = objects[x][i]
      BY <2>3, <3>1, StoreGrows DEF UploadBytes, UploadWrite, TypeOK
    <3>3. UNCHANGED <<events, files, thumbs>>
      BY <2>3 DEF UploadBytes, UploadWrite
    <3> QED
      BY <3>2, <3>3 DEF Born
  <2>4. ASSUME NEW u \in Uploads, UploadRecord(u) PROVE Grow
    BY <2>4 DEF UploadRecord, Born
  <2> QED
    BY <1>2, <2>1, <2>2, <2>3, <2>4 DEF Uploading, UploadNext, UploadStep
<1>3. CASE Reading
  BY <1>0, <1>3 DEF Reading, Browse, ReadDone, ReadLookup, ReadStep, ReadCache, ReadEvent,
                    ReadStorage, ReadFill, mediaVars
<1>4. CASE Thumbnailing
  <2>1. CASE Announce
    BY <1>0, <2>1 DEF Announce, mediaVars
  <2>2. ASSUME NEW w \in Workers,
               \/ WorkerStart(w) \/ WorkerCrash(w) \/ WorkerReceive(w) \/ WorkerLookup(w)
               \/ WorkerFetch(w) \/ WorkerThumb(w) \/ WorkerCache(w) \/ WorkerPublish(w)
        PROVE  Grow
    BY <1>0, <2>2 DEF WorkerStart, WorkerCrash, WorkerReceive, WorkerLookup, WorkerFetch,
                      ReadLookup, WorkerThumb, WorkerCache, WorkerPublish, mediaVars
  <2>3. ASSUME NEW w \in Workers, WorkerBytes(w) \/ WorkerWrite(w) PROVE Grow
    <3>1. WorkerStore(w) \in Stores
      BY <2>3, WorkerLocals DEF WorkerBytes, WorkerWrite
    <3>2. \A f \in MsgFiles(w) : ThumbNameOf(f) \in Names
      BY ThumbNameType DEF MsgFiles, TypeOK, MediaTypeOK
    <3>3. \A x \in Stores, i \in Ids :
             Kind[x] = "fresh" /\ objects[x][i] # Nothing => objects'[x][i] = objects[x][i]
      <4>1. CASE UNCHANGED objects
        BY <4>1
      <4>2. CASE \E i \in FreshIds : StoreFresh(WorkerStore(w), i, worker[w].bytes)
        BY <3>1, <4>2, StoreGrows DEF TypeOK
      <4>3. CASE \E f \in MsgFiles(w) :
                   \/ StoreTruncate(WorkerStore(w), ThumbNameOf(f))
                   \/ StoreWrite(WorkerStore(w), ThumbNameOf(f), worker[w].bytes)
        BY <3>1, <3>2, <4>3, StoreGrows DEF TypeOK
      <4> QED
        BY <2>3, <4>1, <4>2, <4>3 DEF WorkerBytes, WorkerWrite
    <3>4. UNCHANGED <<events, files, thumbs>>
      BY <2>3 DEF WorkerBytes, WorkerWrite
    <3> QED
      BY <3>3, <3>4 DEF Born
  <2>4. ASSUME NEW w \in Workers, WorkerRecord(w) PROVE Grow
    BY <2>4 DEF WorkerRecord, Born
  <2> QED
    BY <1>4, <2>1, <2>2, <2>3, <2>4 DEF Thumbnailing, WorkerNext, WorkerStep
<1>5. CASE ServerCrash \/ ServerStart \/ UNCHANGED vars
  BY <1>0, <1>5 DEF ServerCrash, ServerStart, vars, mediaVars
<1> QED
  BY <1>1, <1>2, <1>3, <1>4, <1>5 DEF Next

\* Bytes in a store that gives out its own identifiers stay there.
LEMMA BytesStay ==
    ASSUME TypeOK, Grow, NEW e \in Events, NEW i \in Ids, NEW c, c # Nothing,
           events[e].status # "unborn",
           Kind[events[e].store] = "fresh" => objects[events[e].store][i] = c
    PROVE  /\ events'[e].store = events[e].store
           /\ Kind[events'[e].store] = "fresh" => objects'[events'[e].store][i] = c
<1>1. events[e].store \in Stores
  BY DEF TypeOK, MediaTypeOK, EventRows
<1>2. events'[e].store = events[e].store
  BY DEF Grow, Born
<1>3. Kind[events[e].store] = "fresh" =>
         objects[events[e].store][i] = c /\ objects'[events[e].store][i] = c
  BY <1>1 DEF Grow
<1> QED
  BY <1>2, <1>3

\* Who can add a row, a message or a cache entry.
LEMMA FileAdded ==
    ASSUME [Next]_vars, NEW f \in files', f \notin files
    PROVE  \E u \in Uploads :
              /\ UploadRecord(u)
              /\ f = [id |-> up[u].id, event |-> up[u].event, name |-> up[u].name,
                      video |-> up[u].media = "video", by |-> u]
<1>1. files' # files
  OBVIOUS
<1>2. Uploading
  BY <1>1 DEF Next, vars, mediaVars, Organise, MediaNext, CreateEvent, SetEventLive, DeleteEvent,
              CacheExpire, Reading, Browse, ReadDone, ReadLookup, ReadStep, ReadCache, ReadEvent,
              ReadStorage, ReadFill, Thumbnailing, WorkerNext, WorkerStep, Announce, WorkerStart,
              WorkerCrash, WorkerReceive, WorkerLookup, WorkerFetch, WorkerThumb, WorkerBytes,
              WorkerWrite, WorkerCache, WorkerRecord, WorkerPublish, ServerCrash, ServerStart
<1>3. \E u \in Uploads : UploadRecord(u)
  BY <1>1, <1>2 DEF Uploading, UploadNext, UploadStep, Post, Respond, UploadCheck, UploadBytes,
                    UploadWrite, UploadCache, UploadPublish, mediaVars
<1> QED
  BY <1>1, <1>3 DEF UploadRecord

LEMMA ThumbAdded ==
    ASSUME [Next]_vars, NEW t \in thumbs', t \notin thumbs
    PROVE  \E w \in Workers :
              /\ WorkerRecord(w)
              /\ t = [id |-> worker[w].id, event |-> worker[w].msg.event,
                      file |-> worker[w].msg.file]
<1>1. thumbs' # thumbs
  OBVIOUS
<1>2. Thumbnailing
  BY <1>1 DEF Next, vars, mediaVars, Organise, MediaNext, CreateEvent, SetEventLive, DeleteEvent,
              CacheExpire, Reading, Browse, ReadDone, ReadLookup, ReadStep, ReadCache, ReadEvent,
              ReadStorage, ReadFill, Uploading, UploadNext, UploadStep, Post, Respond,
              UploadCheck, UploadBytes, UploadWrite, UploadRecord, UploadCache, UploadPublish,
              ServerCrash, ServerStart
<1>3. \E w \in Workers : WorkerRecord(w)
  BY <1>1, <1>2 DEF Thumbnailing, WorkerNext, WorkerStep, Announce, WorkerStart, WorkerCrash,
                    WorkerReceive, WorkerLookup, WorkerFetch, ReadLookup, WorkerThumb,
                    WorkerBytes, WorkerWrite, WorkerCache, WorkerPublish, mediaVars
<1> QED
  BY <1>1, <1>3 DEF WorkerRecord

LEMMA CacheFilled ==
    ASSUME TypeOK, [Next]_vars, NEW e \in Events, NEW i \in Ids,
           cache'[e][i] # Nothing, cache'[e][i] # cache[e][i]
    PROVE  \/ \E u \in Uploads :
                 /\ UploadCache(u)
                 /\ e = up[u].event /\ i = up[u].id /\ cache'[e][i] = Photo(u)
           \/ \E w \in Workers :
                 /\ WorkerCache(w)
                 /\ e = worker[w].msg.event /\ i = worker[w].id
                 /\ cache'[e][i] = worker[w].bytes
           \/ \E r \in Readers :
                 /\ ReadFill(r)
                 /\ e = reader[r].event /\ i = reader[r].id /\ cache'[e][i] = reader[r].got
<1> cache \in [Events -> [Ids -> Contents]]
  BY DEF TypeOK, MediaTypeOK
<1>0. cache' # cache
  OBVIOUS
<1>1. ASSUME NEW a \in Events, NEW j \in Ids, NEW c, CacheSet(a, j, c)
      PROVE  e = a /\ i = j /\ cache'[e][i] = c
  BY <1>0, <1>1 DEF CacheSet
<1>2. CASE Organise
  BY <1>0, <1>2 DEF Organise, MediaNext, CreateEvent, SetEventLive, DeleteEvent, CacheExpire
<1>3. CASE Uploading
  <2> PICK u \in Uploads : UploadCache(u)
    BY <1>0, <1>3 DEF Uploading, UploadNext, UploadStep, Post, Respond, UploadCheck, UploadBytes,
                      UploadWrite, UploadRecord, UploadPublish, mediaVars
  <2>1. up[u].event \in Events /\ up[u].id \in Ids
    BY DEF UploadCache, TypeOK, UploadTypeOK, UploadStates
  <2> QED
    BY <1>1, <2>1 DEF UploadCache
<1>4. CASE Reading
  <2> PICK r \in Readers : ReadFill(r)
    BY <1>0, <1>4 DEF Reading, Browse, ReadDone, ReadLookup, ReadStep, ReadCache, ReadEvent,
                      ReadStorage, mediaVars
  <2>1. reader[r].event \in Events /\ reader[r].id \in Ids
    BY DEF ReadFill, TypeOK, ReaderTypeOK, ReaderStates
  <2> QED
    BY <1>1, <2>1 DEF ReadFill
<1>5. CASE Thumbnailing
  <2> PICK w \in Workers : WorkerCache(w)
    BY <1>0, <1>5 DEF Thumbnailing, WorkerNext, WorkerStep, Announce, WorkerStart, WorkerCrash,
                      WorkerReceive, WorkerLookup, WorkerFetch, ReadLookup, WorkerThumb,
                      WorkerBytes, WorkerWrite, WorkerRecord, WorkerPublish, mediaVars
  <2>1. worker[w].msg.event \in Events /\ worker[w].id \in Ids
    BY WorkerLocals DEF WorkerCache, NewMedia
  <2> QED
    BY <1>1, <2>1 DEF WorkerCache
<1>6. CASE ServerCrash \/ ServerStart \/ UNCHANGED vars
  BY <1>0, <1>6 DEF ServerCrash, ServerStart, vars, mediaVars
<1> QED
  BY <1>2, <1>3, <1>4, <1>5, <1>6 DEF Next

\* Who can change the messages a worker has been handed.
LEMMA InboxChange ==
    ASSUME TypeOK, [Next]_vars, NEW w \in Workers, inbox'[w] # inbox[w]
    PROVE  \/ \E u \in Uploads :
                 /\ UploadPublish(u)
                 /\ inbox'[w] = Append(inbox[w], [event |-> up[u].event, file |-> up[u].id,
                                                  video |-> up[u].media = "video"])
           \/ WorkerReceive(w) /\ inbox'[w] = Tail(inbox[w])
           \/ inbox'[w] = <<>>
<1> inbox \in [Workers -> Seq(NewMedia)]
  BY DEF TypeOK, BusTypeOK
<1>0. inbox' # inbox
  OBVIOUS
<1>1. Uploading \/ Thumbnailing \/ ServerCrash
  BY <1>0 DEF Next, vars, busVars, Organise, Reading, ServerStart
<1>2. CASE Uploading
  <2> PICK u \in Uploads : UploadPublish(u)
    BY <1>0, <1>2 DEF Uploading, UploadNext, UploadStep, Post, Respond, UploadCheck, UploadBytes,
                      UploadWrite, UploadRecord, UploadCache, busVars
  <2> DEFINE m == [event |-> up[u].event, file |-> up[u].id, video |-> up[u].media = "video"]
  <2>1. PublishNewPhoto(m)
    BY DEF UploadPublish
  <2> HIDE DEF m
  <2>2. inbox'[w] = Append(inbox[w], m)
    BY <1>0, <2>1 DEF PublishNewPhoto, DeliverToGroup
  <2> QED
    BY <2>2 DEF m
<1>3. CASE Thumbnailing
  <2>1. PICK v \in Workers : WorkerReceive(v) \/ WorkerCrash(v)
    BY <1>0, <1>3 DEF Thumbnailing, WorkerNext, WorkerStep, Announce, WorkerStart, WorkerLookup,
                      WorkerFetch, WorkerThumb, WorkerBytes, WorkerWrite, WorkerCache,
                      WorkerRecord, WorkerPublish, PublishNewThumbnail, busVars
  <2>2. CASE WorkerReceive(v)
    BY <2>2 DEF WorkerReceive
  <2>3. CASE WorkerCrash(v)
    BY <2>3 DEF WorkerCrash
  <2> QED
    BY <2>1, <2>2, <2>3
<1>4. CASE ServerCrash
  BY <1>0, <1>4 DEF ServerCrash
<1> QED
  BY <1>1, <1>2, <1>3, <1>4

-----------------------------------------------------------------------------
(* The bytes agree *)

LEMMA NothingUnbornStep ==
    ASSUME TypeOK, [Next]_vars, Grow, NothingUnborn
    PROVE  NothingUnborn'
<1>0. \A e \in Events : Born(e) => Born(e)'
  BY DEF Grow, Born
<1>1. ASSUME NEW u \in Uploads, up'[u].pc # "unsent" PROVE Born(up[u].event)' 
  <2> up[u] \in UploadStates
    BY DEF TypeOK, UploadTypeOK
  <2>1. ASSUME up[u].pc # "unsent" PROVE up[u].event \in Events /\ Born(up[u].event)
    BY <2>1 DEF TypeOK, UploadTypeOK, UploadStates, NothingUnborn
  <2>2. CASE up'[u] = up[u]
    BY <1>0, <1>1, <2>1, <2>2 DEF Born
  <2>3. ASSUME NEW r \in Requests, u \in FilesOf(r), Post(r) PROVE Born(up[u].event)'
    <3>1. PICK e \in {x \in Events : events[x].status # "unborn"} : up'[u].event = e
      BY <2>3 DEF Post
    <3> QED
      BY <1>0, <3>1 DEF Born
  <2>4. CASE UploadStep(u)
    <3>1. up'[u].event = up[u].event /\ up[u].pc # "unsent"
      BY <2>4, UploadKeeps
    <3> QED
      BY <1>0, <2>1, <3>1 DEF Born
  <2>5. CASE ServerCrash
    <3>1. up'[u].event = up[u].event /\ up[u].pc # "unsent"
      BY <1>1, <2>5 DEF ServerCrash, UploadsCrash
    <3> QED
      BY <1>0, <2>1, <3>1 DEF Born
  <2> QED
    BY <2>2, <2>3, <2>4, <2>5, UploadChange
<1>2. ASSUME NEW f \in files' PROVE Born(f.event)'
  <2>1. CASE f \in files
    BY <1>0, <2>1 DEF NothingUnborn, TypeOK, MediaTypeOK, FileRows
  <2>2. CASE f \notin files
    <3> PICK u \in Uploads : UploadRecord(u) /\ f.event = up[u].event
      BY <2>2, FileAdded
    <3> QED
      BY <1>0 DEF UploadRecord, NothingUnborn, TypeOK, UploadTypeOK, UploadStates
  <2> QED
    BY <2>1, <2>2
<1>3. ASSUME NEW t \in thumbs' PROVE Born(t.event)'
  <2>1. CASE t \in thumbs
    BY <1>0, <2>1 DEF NothingUnborn, TypeOK, MediaTypeOK, ThumbRows
  <2>2. CASE t \notin thumbs
    <3> PICK w \in Workers : WorkerRecord(w) /\ t.event = worker[w].msg.event
      BY <2>2, ThumbAdded
    <3> QED
      BY <1>0, WorkerLocals DEF WorkerRecord, NothingUnborn, NewMedia
  <2> QED
    BY <2>1, <2>2
<1>4. ASSUME NEW w \in Workers, NEW k \in 1..Len(inbox'[w]) PROVE Born(inbox[w][k].event)'
  <2> inbox[w] \in Seq(NewMedia)
    BY DEF TypeOK, BusTypeOK
  <2>0. \A j \in 1..Len(inbox[w]) : inbox[w][j].event \in Events /\ Born(inbox[w][j].event)
    <3>1. \A j \in 1..Len(inbox[w]) : inbox[w][j] \in NewMedia
      OBVIOUS
    <3>2. \A m \in NewMedia : m.event \in Events
      BY DEF NewMedia
    <3>3. \A j \in 1..Len(inbox[w]) : Born(inbox[w][j].event)
      BY DEF NothingUnborn
    <3> QED
      BY <3>1, <3>2, <3>3
  <2>1. CASE inbox'[w] = inbox[w]
    BY <1>0, <2>0, <2>1 DEF Born
  <2>2. ASSUME NEW u \in Uploads, UploadPublish(u),
               inbox'[w] = Append(inbox[w], [event |-> up[u].event, file |-> up[u].id,
                                             video |-> up[u].media = "video"])
        PROVE  Born(inbox[w][k].event)'
    <3> DEFINE m == [event |-> up[u].event, file |-> up[u].id, video |-> up[u].media = "video"]
    <3>1. m \in NewMedia /\ Born(m.event)
      BY <2>2 DEF UploadPublish, TypeOK, UploadTypeOK, UploadStates, NewMedia, NothingUnborn
    <3>2. inbox'[w] = Append(inbox[w], m)
      BY <2>2
    <3> HIDE DEF m
    <3>3. inbox'[w][k].event \in Events /\ Born(inbox'[w][k].event)
      BY <2>0, <3>1, <3>2 DEF NewMedia
    <3> QED
      BY <1>0, <3>3 DEF Born
  <2>3. CASE WorkerReceive(w) /\ inbox'[w] = Tail(inbox[w])
    <3>0. inbox[w] # <<>> /\ inbox'[w] = Tail(inbox[w]) /\ k \in 1..Len(Tail(inbox[w]))
      BY <2>3 DEF WorkerReceive
    <3>1. k + 1 \in 1..Len(inbox[w]) /\ inbox'[w][k] = inbox[w][k + 1]
      BY <3>0
    <3> QED
      BY <1>0, <2>0, <3>1 DEF Born
  <2>4. CASE inbox'[w] = <<>>
    BY <2>4
  <2> QED
    BY <2>1, <2>2, <2>3, <2>4, InboxChange
<1>5. ASSUME NEW w \in Workers, worker'[w].pc \notin {"down", "idle"}
      PROVE  Born(worker[w].msg.event)'
  <2> worker[w] \in WorkerStates
    BY DEF TypeOK, WorkerTypeOK
  <2>1. ASSUME worker[w].pc \notin {"down", "idle"}
        PROVE  worker[w].msg.event \in Events /\ Born(worker[w].msg.event)
    BY <2>1, WorkerLocals DEF NothingUnborn, NewMedia
  <2>2. CASE worker'[w] = worker[w]
    BY <1>0, <1>5, <2>1, <2>2 DEF Born
  <2>3. CASE WorkerReceive(w)
    <3>1. worker'[w].msg = inbox[w][1] /\ 1 \in 1..Len(inbox[w]) /\ inbox[w] \in Seq(NewMedia)
      BY <2>3 DEF WorkerReceive, TypeOK, WorkerTypeOK, BusTypeOK, Rest
    <3>2. worker'[w].msg \in NewMedia
      BY <3>1
    <3>3. Born(inbox[w][1].event)
      BY <3>1 DEF NothingUnborn
    <3>4. worker'[w].msg.event \in Events /\ Born(worker'[w].msg.event)
      BY <3>1, <3>2, <3>3 DEF NewMedia
    <3> QED
      BY <1>0, <3>4 DEF Born
  <2>4. CASE /\ worker'[w] # worker[w]
             /\ WorkerStart(w) \/ WorkerCrash(w) \/ ServerCrash
    BY <1>5, <2>2, <2>4 DEF WorkerStart, WorkerCrash, ServerCrash, Rest, TypeOK, WorkerTypeOK
  <2>5. CASE WorkerStep(w) /\ ~WorkerReceive(w)
    <3>1. worker[w].pc \notin {"down", "idle"} /\ worker'[w].msg = worker[w].msg
      BY <1>5, <2>5, WorkerKeeps DEF Rest
    <3> QED
      BY <1>0, <2>1, <3>1 DEF Born
  <2> QED
    BY <2>2, <2>3, <2>4, <2>5, WorkerChange
<1>6. ASSUME NEW r \in Readers, reader'[r].pc \notin {"idle", "failed"}
      PROVE  Born(reader[r].event)'
  <2> reader[r] \in ReaderStates
    BY DEF TypeOK, ReaderTypeOK
  <2>1. ASSUME reader[r].pc \notin {"idle", "failed"}
        PROVE  reader[r].event \in Events /\ Born(reader[r].event)
    BY <2>1 DEF TypeOK, ReaderTypeOK, ReaderStates, NothingUnborn
  <2>2. CASE reader'[r] = reader[r]
    BY <1>0, <1>6, <2>1, <2>2 DEF Born
  <2>3. CASE ReadStep(r)
    <3>1. reader'[r].event = reader[r].event /\ reader[r].pc \notin {"idle", "failed"}
      BY <2>3, ReaderKeeps
    <3> QED
      BY <1>0, <2>1, <3>1 DEF Born
  <2>4. ASSUME NEW table \in Tables, NEW id \in Ids, ReadLookup(r, table, id)
        PROVE  Born(reader[r].event)'
    <3>0. reader'[r] # [Idle EXCEPT !.pc = "failed", !.table = table, !.id = id]
      BY <1>6 DEF Idle
    <3>1. PICK row \in Rows(table) : reader'[r].event = row.event
      BY <2>4, <3>0 DEF ReadLookup, TypeOK, ReaderTypeOK
    <3>2. row.event \in Events /\ Born(row.event)
      BY <3>1 DEF Rows, TypeOK, MediaTypeOK, FileRows, ThumbRows, NothingUnborn
    <3> QED
      BY <1>0, <3>1, <3>2 DEF Born
  <2>5. CASE Browse(r)
    <3> PICK table \in Tables : \E row \in Rows(table) : ReadLookup(r, table, row.id)
      BY <2>5 DEF Browse
    <3> PICK row \in Rows(table) : ReadLookup(r, table, row.id)
      OBVIOUS
    <3>1. row.id \in Ids
      BY DEF Rows, TypeOK, MediaTypeOK, FileRows, ThumbRows
    <3> QED
      BY <2>4, <3>1
  <2>6. CASE r \in Workers /\ WorkerFetch(r)
    <3>1. ReadLookup(r, "picture", worker[r].msg.file)
      BY <1>6, <2>6 DEF WorkerFetch, TypeOK, ReaderTypeOK, Idle
    <3>2. worker[r].msg.file \in Ids
      BY <2>6, WorkerLocals DEF WorkerFetch, NewMedia
    <3> QED
      BY <2>4, <3>1, <3>2 DEF Tables
  <2>7. CASE ReadDone(r) \/ (r \in Workers /\ (WorkerStart(r) \/ WorkerThumb(r)))
    BY <1>6, <2>7 DEF ReadDone, WorkerStart, WorkerThumb, TypeOK, ReaderTypeOK, Idle
  <2>8. CASE ServerCrash
    <3>1. reader'[r] = reader[r]
      BY <1>6, <2>8 DEF ServerCrash, ReadersCrash
    <3> QED
      BY <2>2, <3>1
  <2> QED
    BY <2>2, <2>3, <2>5, <2>6, <2>7, <2>8, ReaderChange
<1>7. ASSUME NEW e \in Events, NEW i \in Ids, cache'[e][i] # Nothing PROVE Born(e)'
  <2>1. CASE cache'[e][i] = cache[e][i]
    BY <1>0, <1>7, <2>1 DEF NothingUnborn
  <2>2. CASE cache'[e][i] # cache[e][i]
    <3>1. Born(e)
      BY <1>7, <2>2, CacheFilled DEF NothingUnborn, UploadCache, WorkerCache, ReadFill
    <3> QED
      BY <1>0, <3>1
  <2> QED
    BY <2>1, <2>2
<1> QED
  BY <1>1, <1>2, <1>3, <1>4, <1>5, <1>6, <1>7 DEF NothingUnborn
LEMMA UploadsWrittenStep ==
    ASSUME TypeOK, [Next]_vars, Grow, NothingUnborn, UploadsWritten
    PROVE  UploadsWritten'
<1> SUFFICES ASSUME NEW u \in Uploads,
                    up'[u].pc \in {"record", "cache", "publish", "stored"},
                    Fresh(up[u].event)'
             PROVE  Object(up[u].event, up[u].id)' = Photo(u)
  BY DEF UploadsWritten
<1> up \in [Uploads -> UploadStates] /\ up[u] \in UploadStates
  BY DEF TypeOK, UploadTypeOK
<1>0. ASSUME up[u].pc # "unsent" PROVE up[u].event \in Events /\ Born(up[u].event)
  BY <1>0 DEF TypeOK, UploadTypeOK, UploadStates, NothingUnborn
<1>1. ASSUME up[u].pc \in {"record", "cache", "publish", "stored"},
             up'[u].event = up[u].event, up'[u].id = up[u].id
      PROVE  Object(up[u].event, up[u].id)' = Photo(u)
  <2>1. up[u].id \in Ids /\ up[u].event \in Events /\ Born(up[u].event)
    BY <1>0, <1>1 DEF TypeOK, UploadTypeOK, UploadStates
  <2>2. Fresh(up[u].event) => Object(up[u].event, up[u].id) = Photo(u)
    BY <1>1 DEF UploadsWritten
  <2>3. Photo(u) # Nothing
    BY DEF Photo, Nothing
  <2>4. Kind[events'[up[u].event].store] = "fresh" =>
           objects'[events'[up[u].event].store][up[u].id] = Photo(u)
    BY <2>1, <2>2, <2>3, BytesStay DEF Born, Fresh, Object, StoreOf
  <2> QED
    BY <1>1, <2>4 DEF Object, Fresh, StoreOf
<1>2. CASE up'[u] = up[u]
  BY <1>1, <1>2
<1>3. ASSUME NEW r \in Requests, u \in FilesOf(r), Post(r) PROVE FALSE
  BY <1>3 DEF Post
<1>4. CASE UploadStep(u)
  <2>1. CASE UploadCheck(u)
    BY <2>1 DEF UploadCheck, Goto, UploadStates
  <2>2. CASE UploadBytes(u)
    <3>1. PICK i \in FreshIds : /\ StoreFresh(UploadStore(u), i, Photo(u))
                                /\ up' = [up EXCEPT ![u].pc = "record", ![u].id = i]
      BY <2>2 DEF UploadBytes, Goto, UploadStates
    <3>2. /\ up'[u].id = i /\ i \in Ids
          /\ up'[u].event = up[u].event /\ events' = events
      BY <2>2, <3>1 DEF UploadBytes, UploadStates, Ids
    <3>3. UploadStore(u) \in Stores
      BY <1>0, <2>2 DEF UploadBytes, UploadStore, StoreOf, TypeOK, MediaTypeOK, EventRows
    <3>4. objects'[UploadStore(u)][i] = Photo(u)
      BY <3>1, <3>2, <3>3 DEF StoreFresh, Put, TypeOK, MediaTypeOK
    <3> QED
      BY <3>2, <3>4 DEF Object, StoreOf, UploadStore
  <2>3. CASE UploadWrite(u)
    <3>1. Kind[UploadStore(u)] = "named"
      BY <2>3 DEF UploadWrite, Goto, StoreWrite, UploadStates
    <3>2. up'[u].event = up[u].event /\ events' = events
      BY <1>4, <2>3, UploadKeeps DEF UploadWrite
    <3> QED
      BY <3>1, <3>2 DEF Fresh, StoreOf, UploadStore
  <2>4. CASE UploadRecord(u) \/ UploadCache(u) \/ UploadPublish(u)
    <3>1. up[u].pc \in {"record", "cache", "publish"}
      BY <2>4 DEF UploadRecord, UploadCache, UploadPublish
    <3> QED
      BY <1>1, <1>4, <3>1, UploadKeeps
  <2> QED
    BY <1>4, <2>1, <2>2, <2>3, <2>4 DEF UploadStep
<1>5. CASE ServerCrash
  BY <1>2, <1>5 DEF ServerCrash, UploadsCrash
<1> QED
  BY <1>2, <1>3, <1>4, <1>5, UploadChange

LEMMA ThumbnailedIsSomething ==
    ASSUME NEW c, NEW d \in Thumbnailed(c) \cup {Page}
    PROVE  d # Nothing
BY DEF Thumbnailed, Thumb, Broken, Page, Nothing

LEMMA WorkersWroteStep ==
    ASSUME TypeOK, [Next]_vars, Grow, NothingUnborn, WorkersWrote
    PROVE  WorkersWrote'
<1> DEFINE Right(w) ==
      /\ worker[w].pc \in {"store", "write", "cache", "record"} => worker[w].bytes # Nothing
      /\ worker[w].pc \in {"cache", "record"} /\ Fresh(worker[w].msg.event)
            => Object(worker[w].msg.event, worker[w].id) = worker[w].bytes
<1> SUFFICES ASSUME NEW w \in Workers PROVE Right(w)'
  BY DEF WorkersWrote
<1> worker \in [Workers -> WorkerStates] /\ worker[w] \in WorkerStates
  BY DEF TypeOK, WorkerTypeOK
<1>0. ASSUME worker[w].pc \notin {"down", "idle"}
      PROVE  worker[w].msg.event \in Events /\ Born(worker[w].msg.event)
  BY <1>0, WorkerLocals DEF NothingUnborn, NewMedia
<1>1. ASSUME worker'[w].pc \in {"cache", "record"} => worker[w].pc \in {"cache", "record"},
             worker'[w].pc \in {"store", "write", "cache", "record"} =>
                worker[w].pc \in {"store", "write", "cache", "record"},
             worker'[w].bytes = worker[w].bytes, worker'[w].msg = worker[w].msg,
             worker'[w].id = worker[w].id
      PROVE  Right(w)'
  <2>1. ASSUME worker'[w].pc \in {"cache", "record"}, Fresh(worker[w].msg.event)'
        PROVE  Object(worker[w].msg.event, worker[w].id)' = worker'[w].bytes
    <3> DEFINE e == worker[w].msg.event
               i == worker[w].id
               c == worker[w].bytes
    <3>1. /\ e \in Events /\ Born(e) /\ i \in Ids
      BY <1>0, <1>1, <2>1, WorkerLocals
    <3>2. c # Nothing /\ (Fresh(e) => Object(e, i) = c)
      BY <1>1, <2>1 DEF WorkersWrote
    <3>3. worker'[w].msg.event = e /\ worker'[w].id = i /\ worker'[w].bytes = c
      BY <1>1
    <3> HIDE DEF e, i, c
    <3>4. /\ Kind[events'[e].store] = Kind[events[e].store]
          /\ Kind[events'[e].store] = "fresh" => objects'[events'[e].store][i] = c
      BY <3>1, <3>2, BytesStay DEF Born, Fresh, Object, StoreOf
    <3> QED
      BY <2>1, <3>3, <3>4 DEF Object, Fresh, StoreOf
  <2> QED
    BY <1>1, <2>1 DEF WorkersWrote
<1>2. CASE worker'[w] = worker[w]
  BY <1>1, <1>2
<1>3. ASSUME worker'[w].pc \notin {"store", "write", "cache", "record"} PROVE Right(w)'
  BY <1>3
<1>4. CASE WorkerStep(w)
  <2>1. CASE WorkerReceive(w)
    BY <1>3, <2>1 DEF WorkerReceive, Rest
  <2>2. CASE WorkerLookup(w)
    BY <1>3, <2>2 DEF WorkerLookup, WorkerGoto, Release, Rest, WorkerStates
  <2>3. CASE WorkerFetch(w)
    BY <1>3, <2>3 DEF WorkerFetch, WorkerGoto, WorkerStates
  <2>4. CASE WorkerThumb(w)
    <3>1. CASE Release(w)
      BY <1>3, <3>1 DEF Release, Rest
    <3>2. ASSUME NEW c \in Thumbnailed(reader[w].got) \cup {Page},
                 worker' = [worker EXCEPT ![w].pc = "store", ![w].bytes = c]
          PROVE  Right(w)'
      <4>1. c # Nothing
        BY ThumbnailedIsSomething
      <4>2. worker'[w].pc = "store" /\ worker'[w].bytes = c
        BY <3>2 DEF WorkerStates
      <4> QED
        BY <4>1, <4>2
    <3> QED
      BY <2>4, <3>1, <3>2 DEF WorkerThumb
  <2>5. CASE WorkerBytes(w)
    <3>0. worker[w].pc = "store" /\ worker[w].bytes # Nothing
      BY <2>5 DEF WorkerBytes, WorkersWrote
    <3>1. ASSUME NEW i \in FreshIds, StoreFresh(WorkerStore(w), i, worker[w].bytes), Stored(w, i)
          PROVE  Right(w)'
      <4>1. /\ worker'[w].bytes = worker[w].bytes /\ worker'[w].msg = worker[w].msg
            /\ worker'[w].id = i /\ i \in Ids /\ events' = events
        BY <2>5, <3>1 DEF Stored, WorkerStates, Ids, WorkerBytes
      <4>2. WorkerStore(w) \in Stores
        BY <3>0, WorkerLocals
      <4>3. objects'[WorkerStore(w)][i] = worker[w].bytes
        BY <3>1, <4>1, <4>2 DEF StoreFresh, Put, TypeOK, MediaTypeOK
      <4> QED
        BY <3>0, <4>1, <4>3 DEF Object, StoreOf, WorkerStore
    <3>2. CASE WorkerGoto(w, "write")
      BY <1>1, <3>0, <3>2 DEF WorkerGoto, WorkerStates
    <3>3. CASE Release(w)
      BY <1>3, <3>3 DEF Release, Rest
    <3> QED
      BY <2>5, <3>1, <3>2, <3>3 DEF WorkerBytes
  <2>6. CASE WorkerWrite(w)
    <3>0. worker[w].pc = "write" /\ worker[w].bytes # Nothing
      BY <2>6 DEF WorkerWrite, WorkersWrote
    <3>1. ASSUME NEW f \in MsgFiles(w), Stored(w, ThumbNameOf(f)),
                 StoreWrite(WorkerStore(w), ThumbNameOf(f), worker[w].bytes)
          PROVE  Right(w)'
      <4>1. /\ worker'[w].bytes = worker[w].bytes /\ worker'[w].msg = worker[w].msg
            /\ events' = events
        BY <2>6, <3>1 DEF Stored, WorkerStates, WorkerWrite
      <4>2. Kind[WorkerStore(w)] = "named"
        BY <3>1 DEF StoreWrite
      <4> QED
        BY <3>0, <4>1, <4>2 DEF Fresh, StoreOf, WorkerStore
    <3>2. CASE Release(w)
      BY <1>3, <3>2 DEF Release, Rest
    <3> QED
      BY <2>6, <3>1, <3>2 DEF WorkerWrite
  <2>7. CASE WorkerCache(w)
    BY <1>1, <2>7 DEF WorkerCache, WorkerGoto, WorkerStates
  <2>8. CASE WorkerRecord(w)
    BY <1>3, <2>8 DEF WorkerRecord, WorkerGoto, Release, Rest, WorkerStates
  <2>9. CASE WorkerPublish(w)
    BY <1>3, <2>9 DEF WorkerPublish, Release, Rest
  <2> QED
    BY <1>4, <2>1, <2>2, <2>3, <2>4, <2>5, <2>6, <2>7, <2>8, <2>9 DEF WorkerStep
<1>5. CASE worker'[w] # worker[w] /\ (WorkerStart(w) \/ WorkerCrash(w) \/ ServerCrash)
  BY <1>3, <1>5 DEF WorkerStart, WorkerCrash, ServerCrash, Rest
<1> QED
  BY <1>2, <1>4, <1>5, WorkerChange

LEMMA ReadersReadStep ==
    ASSUME TypeOK, [Next]_vars, Grow, NothingUnborn, ReadersRead, CacheCoherent
    PROVE  ReadersRead'
<1> DEFINE Right(r) ==
      /\ reader[r].got # Nothing
      /\ Fresh(reader[r].event) => Object(reader[r].event, reader[r].id) = reader[r].got
<1> SUFFICES ASSUME NEW r \in Readers, reader'[r].pc \in {"cacheSet", "served"}
             PROVE  Right(r)'
  BY DEF ReadersRead
<1> reader \in [Readers -> ReaderStates] /\ reader[r] \in ReaderStates
  BY DEF TypeOK, ReaderTypeOK
<1>0. ASSUME reader[r].pc \notin {"idle", "failed"}
      PROVE  reader[r].event \in Events /\ reader[r].id \in Ids /\ Born(reader[r].event)
  BY <1>0 DEF TypeOK, ReaderTypeOK, ReaderStates, NothingUnborn
<1>1. ASSUME NEW c, c # Nothing, reader[r].pc \notin {"idle", "failed"},
             Fresh(reader[r].event) => Object(reader[r].event, reader[r].id) = c,
             reader'[r].got = c, reader'[r].event = reader[r].event, reader'[r].id = reader[r].id
      PROVE  Right(r)'
  <2> DEFINE e == reader[r].event
             i == reader[r].id
  <2>1. e \in Events /\ i \in Ids /\ Born(e)
    BY <1>0, <1>1
  <2>2. Fresh(e) => Object(e, i) = c
    BY <1>1
  <2>3. reader'[r].event = e /\ reader'[r].id = i
    BY <1>1
  <2> HIDE DEF e, i
  <2>4. Kind[events'[e].store] = "fresh" => objects'[events'[e].store][i] = c
    BY <1>1, <2>1, <2>2, BytesStay DEF Born, Fresh, Object, StoreOf
  <2> QED
    BY <1>1, <2>3, <2>4 DEF Object, Fresh, StoreOf
<1>2. CASE reader'[r] = reader[r]
  BY <1>1, <1>2 DEF ReadersRead
<1>3. CASE ReadStep(r)
  <2>0. /\ reader[r].pc \notin {"idle", "failed"}
        /\ reader'[r].event = reader[r].event /\ reader'[r].id = reader[r].id
    BY <1>3, ReaderKeeps
  <2>1. CASE ReadCache(r)
    <3> DEFINE c == cache[reader[r].event][reader[r].id]
    <3>1. c # Nothing /\ reader'[r].got = c
      BY <2>1 DEF ReadCache, ReadGoto, ReaderStates
    <3>2. Fresh(reader[r].event) => Object(reader[r].event, reader[r].id) = c
      BY <1>0, <2>0, <3>1 DEF CacheCoherent
    <3> QED
      BY <1>1, <2>0, <3>1, <3>2
  <2>2. CASE ReadEvent(r)
    BY <2>2 DEF ReadEvent, ReadGoto, ReadFails, ReaderStates
  <2>3. CASE ReadStorage(r)
    <3> DEFINE c == objects[StoreOf(reader[r].event)][reader[r].id]
    <3>1. c # Nothing /\ reader'[r].got = c
      BY <2>3 DEF ReadStorage, ReadFails, ReadGoto, ReaderStates
    <3> QED
      BY <1>1, <2>0, <3>1 DEF Object
  <2>4. CASE ReadFill(r)
    <3>1. reader[r].pc = "cacheSet" /\ reader'[r].got = reader[r].got
      BY <2>4 DEF ReadFill, ReadGoto, ReaderStates
    <3> QED
      BY <1>1, <2>0, <3>1 DEF ReadersRead
  <2> QED
    BY <1>3, <2>1, <2>2, <2>3, <2>4 DEF ReadStep
<1>4. ASSUME NEW table, NEW id, ReadLookup(r, table, id) PROVE FALSE
  <2>1. reader'[r].pc \in {"cacheGet", "getEvent", "failed"}
    <3>1. CASE \E row \in Rows(table) :
                 /\ row.id = id
                 /\ reader' = [reader EXCEPT ![r] =
                      [pc |-> IF UsesCache(row.event) THEN "cacheGet" ELSE "getEvent",
                       table |-> table, id |-> id, event |-> row.event,
                       useCache |-> UsesCache(row.event),
                       late |-> ~Present(row.event), got |-> Nothing]]
      BY <3>1
    <3>2. CASE reader' = [reader EXCEPT ![r] =
                  [Idle EXCEPT !.pc = "failed", !.table = table, !.id = id]]
      BY <3>2 DEF Idle
    <3> QED
      BY <1>4, <3>1, <3>2 DEF ReadLookup
  <2> QED
    BY <2>1
<1>5. CASE Browse(r) \/ (r \in Workers /\ WorkerFetch(r))
  BY <1>4, <1>5 DEF Browse, WorkerFetch, Idle
<1>6. CASE ReadDone(r) \/ (r \in Workers /\ (WorkerStart(r) \/ WorkerThumb(r)))
  BY <1>6 DEF ReadDone, WorkerStart, WorkerThumb, Idle
<1>7. CASE ServerCrash
  <2>1. reader'[r] = reader[r]
    BY <1>7 DEF ServerCrash, ReadersCrash
  <2> QED
    BY <1>2, <2>1
<1> QED
  BY <1>2, <1>3, <1>5, <1>6, <1>7, ReaderChange
LEMMA CacheCoherentStep ==
    ASSUME TypeOK, [Next]_vars, Grow, NothingUnborn, UploadsWritten, WorkersWrote, ReadersRead,
           CacheCoherent
    PROVE  CacheCoherent'
<1> SUFFICES ASSUME NEW e \in Events, NEW i \in Ids, cache'[e][i] # Nothing, Fresh(e)'
             PROVE  cache'[e][i] = Object(e, i)'
  BY DEF CacheCoherent
<1>1. ASSUME NEW c, c # Nothing, Born(e), Fresh(e) => Object(e, i) = c, cache'[e][i] = c
      PROVE  cache'[e][i] = Object(e, i)'
  <2>1. Kind[events'[e].store] = "fresh" => objects'[events'[e].store][i] = c
    BY <1>1, BytesStay DEF Born, Fresh, Object, StoreOf
  <2> QED
    BY <1>1, <2>1 DEF Object, Fresh, StoreOf
<1>2. CASE cache'[e][i] = cache[e][i]
  BY <1>1, <1>2 DEF CacheCoherent, NothingUnborn
<1>3. ASSUME NEW u \in Uploads, UploadCache(u), e = up[u].event, i = up[u].id,
             cache'[e][i] = Photo(u)
      PROVE  cache'[e][i] = Object(e, i)'
  <2>1. Photo(u) # Nothing
    BY DEF Photo, Nothing
  <2>2. Born(e) /\ (Fresh(e) => Object(e, i) = Photo(u))
    BY <1>3 DEF UploadCache, NothingUnborn, UploadsWritten
  <2> QED
    BY <1>1, <1>3, <2>1, <2>2
<1>4. ASSUME NEW w \in Workers, WorkerCache(w), e = worker[w].msg.event, i = worker[w].id,
             cache'[e][i] = worker[w].bytes
      PROVE  cache'[e][i] = Object(e, i)'
  <2>1. Born(e) /\ (Fresh(e) => Object(e, i) = worker[w].bytes)
    BY <1>4 DEF WorkerCache, NothingUnborn, WorkersWrote
  <2> QED
    BY <1>1, <1>4, <2>1
<1>5. ASSUME NEW r \in Readers, ReadFill(r), e = reader[r].event, i = reader[r].id,
             cache'[e][i] = reader[r].got
      PROVE  cache'[e][i] = Object(e, i)'
  <2>1. Born(e) /\ (Fresh(e) => Object(e, i) = reader[r].got)
    BY <1>5 DEF ReadFill, NothingUnborn, ReadersRead
  <2> QED
    BY <1>1, <1>5, <2>1
<1> QED
  BY <1>2, <1>3, <1>4, <1>5, CacheFilled

LEMMA FilesWrittenStep ==
    ASSUME TypeOK, [Next]_vars, Grow, NothingUnborn, UploadsWritten, FilesWritten
    PROVE  FilesWritten'
<1> SUFFICES ASSUME NEW f \in files', Fresh(f.event)'
             PROVE  Object(f.event, f.id)' = Photo(f.by)
  BY DEF FilesWritten
<1>1. ASSUME NEW u \in Uploads, f.by = u, f.event \in Events, f.id \in Ids, Born(f.event),
             Fresh(f.event) => Object(f.event, f.id) = Photo(u)
      PROVE  Object(f.event, f.id)' = Photo(f.by)
  <2>1. Photo(u) # Nothing
    BY DEF Photo, Nothing
  <2>2. Kind[events'[f.event].store] = "fresh" =>
           objects'[events'[f.event].store][f.id] = Photo(u)
    BY <1>1, <2>1, BytesStay DEF Born, Fresh, Object, StoreOf
  <2> QED
    BY <1>1, <2>2 DEF Object, Fresh, StoreOf
<1>2. CASE f \in files
  <2>1. f \in FileRows
    BY <1>2 DEF TypeOK, MediaTypeOK
  <2>2. f.by \in Uploads /\ f.event \in Events /\ f.id \in Ids
    BY <2>1 DEF FileRows
  <2> QED
    BY <1>1, <1>2, <2>2 DEF NothingUnborn, FilesWritten
<1>3. CASE f \notin files
  <2> PICK u \in Uploads :
         /\ UploadRecord(u)
         /\ f = [id |-> up[u].id, event |-> up[u].event, name |-> up[u].name,
                 video |-> up[u].media = "video", by |-> u]
    BY <1>3, FileAdded
  <2>1. up[u].pc = "record" /\ f.by = u /\ f.event = up[u].event /\ f.id = up[u].id
    BY DEF UploadRecord
  <2>2. f.event \in Events /\ f.id \in Ids
    BY <2>1 DEF TypeOK, UploadTypeOK, UploadStates
  <2>3. Born(f.event) /\ (Fresh(f.event) => Object(f.event, f.id) = Photo(u))
    BY <2>1 DEF NothingUnborn, UploadsWritten
  <2> QED
    BY <1>1, <2>1, <2>2, <2>3
<1> QED
  BY <1>2, <1>3

LEMMA UploadsRecordedStep ==
    ASSUME TypeOK, [Next]_vars, Grow, UploadsRecorded
    PROVE  UploadsRecorded'
<1> SUFFICES ASSUME NEW u \in Uploads, up'[u].pc \in {"cache", "publish", "stored"}
             PROVE  \E f \in files' : f.by = u /\ f.event = up'[u].event
  BY DEF UploadsRecorded
<1> up \in [Uploads -> UploadStates] /\ up[u] \in UploadStates
  BY DEF TypeOK, UploadTypeOK
<1>1. ASSUME up[u].pc \in {"cache", "publish", "stored"}, up'[u].event = up[u].event
      PROVE  \E f \in files' : f.by = u /\ f.event = up'[u].event
  BY <1>1 DEF UploadsRecorded, Grow
<1>2. CASE up'[u] = up[u]
  BY <1>1, <1>2
<1>3. ASSUME NEW r \in Requests, u \in FilesOf(r), Post(r) PROVE FALSE
  BY <1>3 DEF Post
<1>4. CASE UploadStep(u)
  <2>1. CASE UploadCheck(u) \/ UploadBytes(u) \/ UploadWrite(u)
    BY <2>1 DEF UploadCheck, UploadBytes, UploadWrite, Goto, UploadStates
  <2>2. CASE UploadRecord(u)
    <3> DEFINE row == [id |-> up[u].id, event |-> up[u].event, name |-> up[u].name,
                       video |-> up[u].media = "video", by |-> u]
    <3>1. row \in files'
      BY <2>2 DEF UploadRecord, Goto, UploadStates
    <3>2. row.by = u /\ row.event = up'[u].event
      BY <1>4, UploadKeeps
    <3> QED
      BY <3>1, <3>2
  <2>3. CASE UploadCache(u) \/ UploadPublish(u)
    <3>1. up[u].pc \in {"cache", "publish"}
      BY <2>3 DEF UploadCache, UploadPublish
    <3> QED
      BY <1>1, <1>4, <3>1, UploadKeeps
  <2> QED
    BY <1>4, <2>1, <2>2, <2>3 DEF UploadStep
<1>5. CASE ServerCrash
  BY <1>2, <1>5 DEF ServerCrash, UploadsCrash
<1> QED
  BY <1>2, <1>3, <1>4, <1>5, UploadChange

LEMMA AnswersWaitStep ==
    ASSUME TypeOK, [Next]_vars, AnswersWait
    PROVE  AnswersWait'
<1> SUFFICES ASSUME NEW r \in Requests, response'[r] = "ok", NEW u \in FilesOf(r)
             PROVE  up'[u].pc = "stored"
  BY DEF AnswersWait, FilesOf
<1> up \in [Uploads -> UploadStates] /\ u \in Uploads
  BY DEF TypeOK, UploadTypeOK, FilesOf
<1> response \in [Requests -> {"unsent", "waiting", "ok", "error"}]
  BY DEF TypeOK, UploadTypeOK
<1>1. CASE response[r] = "ok"
  <2>1. up[u].pc = "stored"
    BY <1>1 DEF AnswersWait
  <2>2. ASSUME NEW q \in Requests, u \in FilesOf(q), Post(q) PROVE FALSE
    BY <1>1, <2>2 DEF Post, FilesOf
  <2>3. ~UploadStep(u)
    BY <2>1 DEF UploadStep, UploadCheck, UploadBytes, UploadWrite, UploadRecord, UploadCache,
                UploadPublish
  <2>4. CASE ServerCrash
    BY <2>1, <2>4 DEF ServerCrash, UploadsCrash
  <2> QED
    BY <2>1, <2>2, <2>3, <2>4, UploadChange
<1>2. CASE response[r] # "ok"
  <2>1. response' # response
    BY <1>2
  <2>2. Uploading \/ ServerCrash
    BY <2>1 DEF Next, vars, uploadVars, Organise, Reading, Thumbnailing, ServerStart
  <2>3. ~ServerCrash
    BY <1>2 DEF ServerCrash, UploadsCrash
  <2>4. PICK q \in Requests : Post(q) \/ Respond(q)
    BY <2>1, <2>2, <2>3 DEF Uploading, UploadNext, UploadStep, UploadCheck, UploadBytes,
                            UploadWrite, UploadRecord, UploadCache, UploadPublish
  <2>5. q = r /\ Respond(r)
    BY <1>2, <2>4 DEF Post, Respond
  <2>6. Outcome(r) = "ok" /\ Finished(u) /\ UNCHANGED up
    BY <2>5 DEF Respond
  <2>7. up[u].pc # "failed"
    BY <2>6 DEF Outcome
  <2> QED
    BY <2>6, <2>7 DEF Finished
<1> QED
  BY <1>1, <1>2

LEMMA BytesAgreeStep ==
    ASSUME TypeOK, [Next]_vars, BytesAgree
    PROVE  BytesAgree'
<1>1. Grow
  BY StepGrows
<1> USE DEF BytesAgree
<1>2. NothingUnborn'
  BY <1>1, NothingUnbornStep
<1>3. UploadsWritten'
  BY <1>1, UploadsWrittenStep
<1>4. WorkersWrote'
  BY <1>1, WorkersWroteStep
<1>5. ReadersRead'
  BY <1>1, ReadersReadStep
<1>6. CacheCoherent'
  BY <1>1, CacheCoherentStep
<1>7. FilesWritten'
  BY <1>1, FilesWrittenStep
<1>8. UploadsRecorded'
  BY <1>1, UploadsRecordedStep
<1>9. AnswersWait'
  BY AnswersWaitStep
<1> QED
  BY <1>2, <1>3, <1>4, <1>5, <1>6, <1>7, <1>8, <1>9

LEMMA BytesAgreeInit == Init => BytesAgree
<1> SUFFICES ASSUME Init PROVE BytesAgree
  OBVIOUS
<1> USE DEF Init
<1>1. NothingUnborn
  BY PipelineAssumption DEF NothingUnborn, UploadInit, MediaInit, WorkerInit, ReaderInit, BusInit,
                            Rest, Idle
<1>2. UploadsWritten /\ UploadsRecorded
  BY DEF UploadInit, UploadsWritten, UploadsRecorded
<1>3. WorkersWrote
  BY DEF WorkerInit, WorkersWrote, Rest
<1>4. ReadersRead
  BY DEF ReaderInit, ReadersRead, Idle
<1>5. CacheCoherent /\ FilesWritten
  BY DEF MediaInit, CacheCoherent, FilesWritten
<1>6. AnswersWait
  BY DEF UploadInit, AnswersWait
<1> QED
  BY <1>1, <1>2, <1>3, <1>4, <1>5, <1>6 DEF BytesAgree

\* What any process has stored, recorded, read or cached is what the store
\* holds, in every reachable state (the invariant of the readers run).
THEOREM BytesAlwaysAgree == Spec => []BytesAgree
<1>1. Init => BytesAgree
  BY BytesAgreeInit
<1>2. TypeOK /\ BytesAgree /\ [Next]_vars => BytesAgree'
  BY BytesAgreeStep
<1> QED
  BY <1>1, <1>2, TypeCorrect, PTL DEF Spec

\* A photo whose upload request was answered 200 is recorded and retrievable
\* unaltered from a store that gives out its own identifiers, through every
\* later upload, deletion, crash and restart (Upload and handleUpload).
THEOREM AcceptedPhotosAreKept == Spec => []AcceptedIsKept
<1>1. BytesAgree => AcceptedIsKept
  <2> SUFFICES ASSUME BytesAgree, NEW r \in Requests, response[r] = "ok",
                      NEW u \in FilesOf(r), Fresh(up[u].event)
               PROVE  Kept(u)
    BY DEF AcceptedIsKept
  <2>1. u \in Uploads /\ up[u].pc = "stored"
    BY DEF BytesAgree, AnswersWait, FilesOf
  <2>2. PICK f \in files : f.by = u /\ f.event = up[u].event
    BY <2>1 DEF BytesAgree, UploadsRecorded
  <2>3. Object(f.event, f.id) = Photo(u)
    BY <2>2 DEF BytesAgree, FilesWritten
  <2> QED
    BY <2>2, <2>3 DEF Kept
<1> QED
  BY <1>1, BytesAlwaysAgree, PTL

\* A cache entry never differs from the object it stands for, on such a store,
\* whoever filled it (Upload, Thumb, GetPicture and GetThumbnail).
THEOREM CacheIsCoherent == Spec => []CacheCoherent
<1>1. BytesAgree => CacheCoherent
  BY DEF BytesAgree
<1> QED
  BY <1>1, BytesAlwaysAgree, PTL
=============================================================================
