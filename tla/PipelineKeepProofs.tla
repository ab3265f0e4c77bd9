------------------------- MODULE PipelineKeepProofs -------------------------
(***************************************************************************)
(* What Pipeline keeps, for every value of its constants: on a named store *)
(* a photo whose name nobody else was given; where every store gives out   *)
(* its own identifiers, all that Ledger promises; and the order in which   *)
(* Journey lets a photo come from its row to the galleries.                *)
(***************************************************************************)
EXTENDS PipelineLinkProofs

-----------------------------------------------------------------------------
(* The inductive invariant *)

\* A file row says what its upload said, and an upload has been posted.
FilesSayTheirUpload ==
    /\ \A f \in files : /\ up[f.by].pc # "unsent"
                        /\ f.name = up[f.by].name /\ f.event = up[f.by].event
    /\ \A u \in Uploads : up[u].pc # "unsent" => response[RequestOf[u]] # "unsent"

\* The row of an upload that is past AddFileInfo.
UploadsHaveRows ==
    \A u \in Uploads : up[u].pc \in {"cache", "publish", "stored"} =>
        \E f \in files : f.by = u /\ f.id = up[u].id /\ f.event = up[u].event

\* On a named store an upload truncates the object of its name and fills it,
\* and the object is left alone as long as the name is.
NamesHold ==
    \A u \in Uploads :
        /\ up[u].pc = "write" =>
              /\ Kind[UploadStore(u)] = "named"
              /\ NameTaken(u) \/ Object(up[u].event, up[u].name) = Broken
        /\ up[u].pc \in {"record", "cache", "publish", "stored"}
           /\ Kind[UploadStore(u)] = "named" =>
              /\ up[u].id = up[u].name
              /\ NameTaken(u) \/ Object(up[u].event, up[u].id) = Photo(u)

\* What the galleries were sent is in the table, under an identifier of its own.
AnnouncedAreRecorded ==
    /\ announced \subseteq ThumbIds
    /\ \A s, t \in thumbs : s.id = t.id => s = t

Keeping == FilesSayTheirUpload /\ UploadsHaveRows /\ NamesHold /\ AnnouncedAreRecorded

-----------------------------------------------------------------------------
(* Uploads and their rows *)

\* What was posted is not changed.
LEMMA PostedStays ==
    ASSUME TypeOK, [Next]_vars, FilesSayTheirUpload, NEW u \in Uploads, up[u].pc # "unsent"
    PROVE  up'[u].pc # "unsent" /\ up'[u].name = up[u].name /\ up'[u].event = up[u].event
<1> up \in [Uploads -> UploadStates] /\ up[u] \in UploadStates
  BY DEF TypeOK, UploadTypeOK
<1>1. CASE up'[u] = up[u]
  BY <1>1
<1>2. ASSUME NEW r \in Requests, u \in FilesOf(r), Post(r) PROVE FALSE
  BY <1>2 DEF Post, FilesOf, FilesSayTheirUpload
<1>3. CASE UploadStep(u)
  BY <1>3 DEF UploadStep, UploadCheck, UploadBytes, UploadWrite, UploadRecord, UploadCache,
              UploadPublish, Goto, UploadStates
<1>4. CASE ServerCrash
  BY <1>4 DEF ServerCrash, UploadsCrash, UploadStates
<1> QED
  BY <1>1, <1>2, <1>3, <1>4, UploadChange

LEMMA ResponsesChange ==
    ASSUME TypeOK, [Next]_vars, response' # response
    PROVE  \/ \E r \in Requests : Post(r) \/ Respond(r)
           \/ ServerCrash
  BY DEF Next, vars, uploadVars, Organise, Reading, Thumbnailing, ServerStart, Uploading,
         UploadNext, UploadStep, UploadCheck, UploadBytes, UploadWrite, UploadRecord, UploadCache,
         UploadPublish

LEMMA FilesSayTheirUploadStep ==
    ASSUME TypeOK, [Next]_vars, FilesSayTheirUpload
    PROVE  FilesSayTheirUpload'
<1> up \in [Uploads -> UploadStates]
    /\ response \in [Requests -> {"unsent", "waiting", "ok", "error"}]
  BY DEF TypeOK, UploadTypeOK
<1>1. ASSUME NEW f \in files'
      PROVE  up'[f.by].pc # "unsent" /\ f.name = up'[f.by].name /\ f.event = up'[f.by].event
  <2>1. CASE f \in files
    <3>1. f.by \in Uploads
      BY <2>1 DEF TypeOK, MediaTypeOK, FileRows
    <3> QED
      BY <2>1, <3>1, PostedStays DEF FilesSayTheirUpload
  <2>2. CASE f \notin files
    <3> PICK u \in Uploads :
           /\ UploadRecord(u)
           /\ f = [id |-> up[u].id, event |-> up[u].event, name |-> up[u].name,
                   video |-> up[u].media = "video", by |-> u]
      BY <2>2, FileAdded
    <3>1. f.by = u /\ f.name = up[u].name /\ f.event = up[u].event
      OBVIOUS
    <3>2. up[u].pc # "unsent"
      BY DEF UploadRecord
    <3> QED
      BY <3>1, <3>2, PostedStays
  <2> QED
    BY <2>1, <2>2
<1>2. ASSUME NEW u \in Uploads, up'[u].pc # "unsent" PROVE response'[RequestOf[u]] # "unsent"
  <2> RequestOf[u] \in Requests
    BY UploadAssumption
  <2>1. ASSUME NEW r \in Requests, response[r] # "unsent" PROVE response'[r] # "unsent"
    <3>1. CASE response' = response
      BY <2>1, <3>1
    <3>2. ASSUME NEW q \in Requests, Post(q) \/ Respond(q) PROVE response'[r] # "unsent"
      BY <2>1, <3>2 DEF Post, Respond, Outcome
    <3>3. CASE ServerCrash
      BY <2>1, <3>3 DEF ServerCrash, UploadsCrash
    <3> QED
      BY <3>1, <3>2, <3>3, ResponsesChange
  <2>2. CASE up[u].pc # "unsent"
    BY <2>1, <2>2 DEF FilesSayTheirUpload
  <2>3. CASE up[u].pc = "unsent"
    <3>1. ~UploadStep(u)
      BY <2>3 DEF UploadStep, UploadCheck, UploadBytes, UploadWrite, UploadRecord, UploadCache,
                  UploadPublish
    <3>2. ~ServerCrash
      BY <1>2, <2>3 DEF ServerCrash, UploadsCrash
    <3>3. PICK r \in Requests : u \in FilesOf(r) /\ Post(r)
      BY <1>2, <2>3, <3>1, <3>2, UploadChange
    <3>4. response' = [response EXCEPT ![r] = "waiting"] /\ RequestOf[u] = r
      BY <3>3 DEF Post, FilesOf
    <3> QED
      BY <3>4
  <2> QED
    BY <2>2, <2>3
<1> QED
  BY <1>1, <1>2 DEF FilesSayTheirUpload

LEMMA UploadsHaveRowsStep ==
    ASSUME TypeOK, [Next]_vars, Grow, FilesSayTheirUpload, UploadsHaveRows
    PROVE  UploadsHaveRows'
<1> SUFFICES ASSUME NEW u \in Uploads, up'[u].pc \in {"cache", "publish", "stored"}
             PROVE  \E f \in files' : f.by = u /\ f.id = up'[u].id /\ f.event = up'[u].event
  BY DEF UploadsHaveRows
<1> up \in [Uploads -> UploadStates] /\ up[u] \in UploadStates
  BY DEF TypeOK, UploadTypeOK
<1>1. ASSUME up[u].pc \in {"cache", "publish", "stored"}, up'[u].id = up[u].id
      PROVE  \E f \in files' : f.by = u /\ f.id = up'[u].id /\ f.event = up'[u].event
  BY <1>1, PostedStays DEF UploadsHaveRows, Grow
<1>2. CASE up'[u] = up[u]
  BY <1>1, <1>2
<1>3. ASSUME NEW r \in Requests, u \in FilesOf(r), Post(r) PROVE FALSE
  BY <1>3 DEF Post
<1>4. CASE UploadPublish(u)
  BY <1>1, <1>4 DEF UploadPublish, Goto, UploadStates
<1>5. CASE up'[u].pc \in {"cache", "publish"}
  <2>1. CASE Pending(u) /\ up'[u].id = up[u].id
    BY <1>1, <2>1 DEF Pending
  <2>2. CASE /\ up'[u].id = up[u].id /\ up'[u].event = up[u].event
             /\ [id |-> up[u].id, event |-> up[u].event, name |-> up[u].name,
                 video |-> up[u].media = "video", by |-> u] \in files'
    <3> DEFINE f == [id |-> up[u].id, event |-> up[u].event, name |-> up[u].name,
                     video |-> up[u].media = "video", by |-> u]
    <3>1. f \in files' /\ f.by = u /\ f.id = up[u].id /\ f.event = up[u].event
      BY <2>2
    <3> HIDE DEF f
    <3> QED
      BY <2>2, <3>1
  <2> QED
    BY <1>5, <2>1, <2>2, PendingChange
<1>6. CASE UploadStep(u) /\ up'[u].pc = "stored" /\ ~UploadPublish(u)
  BY <1>6 DEF UploadStep, UploadCheck, UploadBytes, UploadWrite, UploadRecord, UploadCache, Goto,
              UploadStates
<1>7. CASE ServerCrash
  BY <1>2, <1>7 DEF ServerCrash, UploadsCrash
<1> QED
  BY <1>2, <1>3, <1>4, <1>5, <1>6, <1>7, UploadChange

-----------------------------------------------------------------------------
(* Announcements *)

LEMMA AnnouncedChange ==
    ASSUME TypeOK, [Next]_vars, announced' # announced
    PROVE  \E i \in ThumbIds : announced' = announced \cup {i} /\ Announce
<1>1. Thumbnailing
  BY DEF Next, vars, workerVars, Organise, Uploading, Reading, ServerCrash, ServerStart
<1> QED
  BY <1>1 DEF Thumbnailing, WorkerNext, WorkerStep, Announce, WorkerStart, WorkerCrash,
              WorkerReceive, WorkerLookup, WorkerFetch, WorkerThumb, WorkerBytes, WorkerWrite,
              WorkerCache, WorkerRecord, WorkerPublish

LEMMA AnnouncedAreRecordedStep ==
    ASSUME TypeOK, [Next]_vars, Grow, AnnouncedAreRecorded
    PROVE  AnnouncedAreRecorded'
<1>1. announced' \subseteq ThumbIds'
  <2>1. ThumbIds \subseteq ThumbIds'
    BY DEF ThumbIds, Grow
  <2> QED
    BY <2>1, AnnouncedChange DEF AnnouncedAreRecorded
<1>2. ASSUME NEW s \in thumbs', s \notin thumbs
      PROVE  \A t \in thumbs' : t.id = s.id => t = s
  <2> PICK w \in Workers :
        /\ WorkerRecord(w)
        /\ s = [id |-> worker[w].id, event |-> worker[w].msg.event, file |-> worker[w].msg.file]
    BY <1>2, ThumbAdded
  <2>1. s.id = worker[w].id
    OBVIOUS
  <2>2. worker[w].id \notin ThumbIds /\ thumbs' = thumbs \cup {s}
    BY <1>2 DEF WorkerRecord
  <2> QED
    BY <2>1, <2>2 DEF ThumbIds
<1>3. ASSUME NEW s \in thumbs', NEW t \in thumbs', s.id = t.id PROVE s = t
  BY <1>2, <1>3 DEF AnnouncedAreRecorded
<1> QED
  BY <1>1, <1>3 DEF AnnouncedAreRecorded

-----------------------------------------------------------------------------
(* Named stores *)

\* The object of a name is written by an upload of that name, or by a worker
\* whose thumbnail has it.
LEMMA NamedObjectWritten ==
    ASSUME TypeOK, [Next]_vars, NEW s \in Stores, Kind[s] = "named", NEW i,
           objects'[s][i] # objects[s][i]
    PROVE  \/ \E v \in Uploads : /\ UploadBytes(v) \/ UploadWrite(v)
                                 /\ UploadStore(v) = s /\ up[v].name = i
           \/ \E w \in Workers : \E f \in MsgFiles(w) :
                 /\ worker[w].pc \in {"store", "write"}
                 /\ WorkerStore(w) = s /\ ThumbNameOf(f) = i
<1> objects \in [Stores -> [Ids -> Contents]]
  BY DEF TypeOK, MediaTypeOK
<1>0. objects' # objects
  OBVIOUS
<1>1. ASSUME NEW x \in Stores, NEW n, NEW c, StoreTruncate(x, n) \/ StoreWrite(x, n, c)
      PROVE  x = s /\ n = i
  <2> PICK d : Put(x, n, d)
    BY <1>1 DEF StoreTruncate, StoreWrite
  <2> QED
    BY DEF Put
<1>2. ASSUME NEW x \in Stores, NEW n, NEW c, StoreFresh(x, n, c) PROVE FALSE
  <2>1. x # s
    BY <1>2 DEF StoreFresh
  <2> QED
    BY <1>2, <2>1 DEF StoreFresh, Put
<1>3. ASSUME NEW v \in Uploads, UploadBytes(v) \/ UploadWrite(v)
      PROVE  UploadStore(v) = s /\ up[v].name = i
  <2>1. UploadStore(v) \in Stores
    BY <1>3 DEF UploadBytes, UploadWrite, TypeOK, UploadTypeOK, UploadStates, UploadStore, StoreOf,
                MediaTypeOK, EventRows
  <2>2. CASE UploadBytes(v)
    <3>1. StoreTruncate(UploadStore(v), up[v].name)
      BY <1>0, <1>2, <2>1, <2>2 DEF UploadBytes
    <3>2. Put(UploadStore(v), up[v].name, Broken)
      BY <3>1 DEF StoreTruncate
    <3> QED
      BY <2>1, <3>2 DEF Put
  <2>3. CASE UploadWrite(v)
    <3>1. StoreWrite(UploadStore(v), up[v].name, Photo(v))
      BY <1>0, <2>3 DEF UploadWrite
    <3> QED
      BY <1>1, <2>1, <3>1
  <2> QED
    BY <1>3, <2>2, <2>3
<1>4. ASSUME NEW w \in Workers, WorkerBytes(w) \/ WorkerWrite(w)
      PROVE  /\ worker[w].pc \in {"store", "write"}
             /\ \E f \in MsgFiles(w) : WorkerStore(w) = s /\ ThumbNameOf(f) = i
  <2>1. WorkerStore(w) \in Stores /\ worker[w].pc \in {"store", "write"}
    BY <1>4, WorkerLocals DEF WorkerBytes, WorkerWrite
  <2>2. CASE WorkerBytes(w)
    <3>1. PICK f \in MsgFiles(w) : StoreTruncate(WorkerStore(w), ThumbNameOf(f))
      BY <1>0, <1>2, <2>1, <2>2 DEF WorkerBytes
    <3> QED
      BY <1>1, <2>1, <3>1
  <2>3. CASE WorkerWrite(w)
    <3>1. PICK f \in MsgFiles(w) : StoreWrite(WorkerStore(w), ThumbNameOf(f), worker[w].bytes)
      BY <1>0, <2>3 DEF WorkerWrite
    <3> QED
      BY <1>1, <2>1, <3>1
  <2> QED
    BY <1>4, <2>2, <2>3, <2>1
<1>5. \/ \E u \in Uploads : UploadBytes(u) \/ UploadWrite(u)
      \/ \E w \in Workers : WorkerBytes(w) \/ WorkerWrite(w)
  BY <1>0, ObjectsChange
<1> QED
  BY <1>3, <1>4, <1>5

\* A name that has been taken stays taken.
LEMMA NameStaysTaken ==
    ASSUME TypeOK, [Next]_vars, NothingUnborn, FilesSayTheirUpload,
           NEW u \in Uploads, up[u].pc # "unsent"
    PROVE  /\ events'[up'[u].event].store = UploadStore(u)
           /\ NameTaken(u) => NameTaken(u)'
<1>1. ASSUME NEW v \in Uploads, up[v].pc # "unsent"
      PROVE  /\ up'[v].pc # "unsent" /\ up'[v].name = up[v].name
             /\ events'[up'[v].event].store = UploadStore(v)
  <2>1. up'[v].pc # "unsent" /\ up'[v].name = up[v].name /\ up'[v].event = up[v].event
    BY <1>1, PostedStays
  <2>2. up[v].event \in Events /\ Born(up[v].event)
    BY <1>1 DEF TypeOK, UploadTypeOK, UploadStates, NothingUnborn
  <2>3. events'[up[v].event].store = events[up[v].event].store
    BY <2>2, StepGrows DEF Grow
  <2> QED
    BY <2>1, <2>3 DEF UploadStore, StoreOf
<1>2. ASSUME NameTaken(u) PROVE NameTaken(u)'
  <2> PICK v \in Uploads :
        /\ up[v].pc # "unsent" /\ UploadStore(v) = UploadStore(u)
        /\ (v # u /\ up[v].name = up[u].name) \/ ThumbName[up[v].name] = up[u].name
    BY <1>2 DEF NameTaken
  <2>1. /\ up'[v].pc # "unsent" /\ up'[v].name = up[v].name /\ up'[u].name = up[u].name
        /\ events'[up'[v].event].store = events'[up'[u].event].store
    BY <1>1
  <2> QED
    BY <2>1 DEF NameTaken, UploadStore, StoreOf
<1> QED
  BY <1>1, <1>2

\* Whoever else writes the object of an upload has been given its name.
LEMMA WriterTakesName ==
    ASSUME TypeOK, [Next]_vars, FilesAreUnique, MessagesAreAbout, FilesSayTheirUpload,
           NEW u \in Uploads, up[u].pc # "unsent", Kind[UploadStore(u)] = "named",
           objects'[UploadStore(u)][up[u].name] # objects[UploadStore(u)][up[u].name]
    PROVE  NameTaken(u) \/ UploadBytes(u) \/ UploadWrite(u)
<1> UploadStore(u) \in Stores
  BY DEF TypeOK, UploadTypeOK, UploadStates, UploadStore, StoreOf, MediaTypeOK, EventRows
<1>1. ASSUME NEW v \in Uploads, UploadBytes(v) \/ UploadWrite(v),
             UploadStore(v) = UploadStore(u), up[v].name = up[u].name, v # u
      PROVE  NameTaken(u)
  BY <1>1 DEF NameTaken, UploadBytes, UploadWrite
<1>2. ASSUME NEW w \in Workers, NEW f \in MsgFiles(w), worker[w].pc \in {"store", "write"},
             WorkerStore(w) = UploadStore(u), ThumbNameOf(f) = up[u].name
      PROVE  NameTaken(u)
  <2>1. f \in files /\ f.id = worker[w].msg.file
    BY DEF MsgFiles
  <2>2. PICK g \in files : g.id = worker[w].msg.file /\ g.event = worker[w].msg.event
    BY <1>2 DEF MessagesAreAbout, IsAbout
  <2>3. f = g
    BY <2>1, <2>2 DEF FilesAreUnique
  <2>4. /\ f.by \in Uploads /\ up[f.by].pc # "unsent"
        /\ up[f.by].name = f.name /\ up[f.by].event = worker[w].msg.event
    BY <2>1, <2>2, <2>3 DEF TypeOK, MediaTypeOK, FileRows, FilesSayTheirUpload
  <2>5. UploadStore(f.by) = UploadStore(u) /\ ThumbName[up[f.by].name] = up[u].name
    BY <1>2, <2>4 DEF UploadStore, WorkerStore, StoreOf, ThumbNameOf
  <2> QED
    BY <2>4, <2>5 DEF NameTaken
<1> QED
  BY <1>1, <1>2, NamedObjectWritten

LEMMA NamesHoldStep ==
    ASSUME TypeOK, [Next]_vars, NothingUnborn, FilesAreUnique, MessagesAreAbout,
           FilesSayTheirUpload, NamesHold
    PROVE  NamesHold'
<1> SUFFICES ASSUME NEW u \in Uploads
             PROVE  /\ up'[u].pc = "write" =>
                          /\ Kind[events'[up'[u].event].store] = "named"
                          /\ \/ NameTaken(u)'
                             \/ objects'[events'[up'[u].event].store][up'[u].name] = Broken
                    /\ up'[u].pc \in {"record", "cache", "publish", "stored"}
                       /\ Kind[events'[up'[u].event].store] = "named" =>
                          /\ up'[u].id = up'[u].name
                          /\ \/ NameTaken(u)'
                             \/ objects'[events'[up'[u].event].store][up'[u].id] = Photo(u)
  BY DEF NamesHold, UploadStore, Object, StoreOf
<1> up \in [Uploads -> UploadStates] /\ up[u] \in UploadStates
  BY DEF TypeOK, UploadTypeOK
<1> objects \in [Stores -> [Ids -> Contents]]
  BY DEF TypeOK, MediaTypeOK
<1> DEFINE s == UploadStore(u)
           n == up[u].name
<1>0. ASSUME up[u].pc # "unsent"
      PROVE  /\ events'[up'[u].event].store = s /\ up'[u].name = n
             /\ NameTaken(u) => NameTaken(u)'
             /\ s \in Stores /\ n \in Ids
  BY <1>0, NameStaysTaken, PostedStays DEF TypeOK, UploadTypeOK, UploadStates, StoreOf,
     MediaTypeOK, EventRows, Ids, UploadStore
<1>00. s = events[up[u].event].store
  BY DEF UploadStore, StoreOf
<1>1. ASSUME ~UploadBytes(u), ~UploadWrite(u), up'[u].id = up[u].id,
             \/ up[u].pc = "write" /\ up'[u].pc = "write"
             \/ /\ up[u].pc \in {"record", "cache", "publish", "stored"}
                /\ up'[u].pc \in {"record", "cache", "publish", "stored"}
             \/ up'[u].pc \notin {"write", "record", "cache", "publish", "stored"}
      PROVE  /\ up'[u].pc = "write" =>
                   /\ Kind[events'[up'[u].event].store] = "named"
                   /\ NameTaken(u)' \/ objects'[events'[up'[u].event].store][up'[u].name] = Broken
             /\ up'[u].pc \in {"record", "cache", "publish", "stored"}
                /\ Kind[events'[up'[u].event].store] = "named" =>
                   /\ up'[u].id = up'[u].name
                   /\ NameTaken(u)' \/ objects'[events'[up'[u].event].store][up'[u].id] = Photo(u)
  <2>0. CASE up'[u].pc \notin {"write", "record", "cache", "publish", "stored"}
    BY <2>0
  <2>1. CASE up[u].pc # "unsent"
    <3>1. /\ events'[up'[u].event].store = s /\ up'[u].name = n
          /\ NameTaken(u) => NameTaken(u)'
          /\ s \in Stores /\ n \in Ids
      BY <1>0, <2>1
    <3>2. Kind[s] = "named" => NameTaken(u) \/ objects'[s][n] = objects[s][n]
      BY <1>1, <2>1, WriterTakesName
    <3>3. CASE up[u].pc = "write" /\ up'[u].pc = "write"
      <4>1. Kind[s] = "named" /\ (NameTaken(u) \/ objects[s][n] = Broken)
        BY <1>00, <3>3 DEF NamesHold, Object, StoreOf
      <4> QED
        BY <3>1, <3>2, <3>3, <4>1
    <3>4. CASE /\ up[u].pc \in {"record", "cache", "publish", "stored"}
               /\ up'[u].pc \in {"record", "cache", "publish", "stored"}
      <4>1. Kind[s] = "named" => up[u].id = n /\ (NameTaken(u) \/ objects[s][n] = Photo(u))
        BY <1>00, <3>4 DEF NamesHold, Object, StoreOf
      <4> QED
        BY <1>1, <3>1, <3>2, <3>4, <4>1
    <3> QED
      BY <1>1, <2>0, <3>3, <3>4
  <2> QED
    BY <1>1, <2>0, <2>1
<1>2. CASE up'[u] = up[u]
  <2>1. ~UploadBytes(u) /\ ~UploadWrite(u)
    BY <1>2 DEF UploadBytes, UploadWrite, Goto, UploadStates
  <2> QED
    BY <1>1, <1>2, <2>1 DEF UploadStates
<1>3. ASSUME NEW r \in Requests, u \in FilesOf(r), Post(r) PROVE up'[u].pc = "check"
  BY <1>3 DEF Post
<1>4. CASE UploadCheck(u) \/ UploadRecord(u) \/ UploadCache(u) \/ UploadPublish(u)
  <2>1. ~UploadBytes(u) /\ ~UploadWrite(u)
    BY <1>4 DEF UploadCheck, UploadBytes, UploadWrite, UploadRecord, UploadCache, UploadPublish
  <2>2. /\ up'[u].id = up[u].id
        /\ \/ /\ up[u].pc \in {"record", "cache", "publish", "stored"}
              /\ up'[u].pc \in {"record", "cache", "publish", "stored"}
           \/ up'[u].pc \notin {"write", "record", "cache", "publish", "stored"}
    BY <1>4 DEF UploadCheck, UploadRecord, UploadCache, UploadPublish, Goto, UploadStates
  <2> QED
    BY <1>1, <2>1, <2>2
<1>5. CASE UploadBytes(u)
  <2>0. up[u].pc # "unsent"
    BY <1>5 DEF UploadBytes
  <2>1. CASE StoreTruncate(s, n) /\ Goto(u, "write")
    <3>1. up'[u].pc = "write" /\ Kind[s] = "named" /\ objects' = [objects EXCEPT ![s][n] = Broken]
      BY <2>1 DEF StoreTruncate, Put, Goto, UploadStates
    <3>2. objects'[s][n] = Broken
      BY <1>0, <2>0, <3>1
    <3> HIDE DEF s, n
    <3> QED
      BY <1>0, <2>0, <3>1, <3>2
  <2>2. CASE Kind[s] = "fresh" /\ up'[u].pc = "record"
    <3> HIDE DEF s, n
    <3> QED
      BY <1>0, <2>0, <2>2
  <2>3. CASE up'[u].pc = "failed"
    BY <2>3
  <2> QED
    BY <1>5, <2>1, <2>2, <2>3 DEF UploadBytes, Goto, UploadStates, StoreFresh
<1>6. CASE UploadWrite(u)
  <2>0. up[u].pc = "write"
    BY <1>6 DEF UploadWrite
  <2>1. CASE /\ StoreWrite(s, n, Photo(u))
             /\ up' = [up EXCEPT ![u].pc = "record", ![u].id = n]
    <3>1. Kind[s] = "named" /\ (NameTaken(u) \/ objects[s][n] = Broken)
      BY <1>00, <2>0 DEF NamesHold, Object, StoreOf
    <3>2. up'[u].pc = "record" /\ up'[u].id = n
      BY <2>1 DEF UploadStates
    <3>3. ASSUME objects[s][n] = Broken PROVE objects'[s][n] = Photo(u)
      <4>1. objects' = [objects EXCEPT ![s][n] = Photo(u)]
        BY <2>1, <3>3 DEF StoreWrite, Put
      <4> QED
        BY <1>0, <2>0, <4>1
    <3> HIDE DEF s, n
    <3> QED
      BY <1>0, <2>0, <3>1, <3>2, <3>3
  <2>2. CASE up'[u].pc = "failed"
    BY <2>2
  <2> QED
    BY <1>6, <2>1, <2>2 DEF UploadWrite, Goto, UploadStates
<1>7. CASE ServerCrash
  <2>1. up'[u] = up[u] \/ up'[u].pc = "failed"
    BY <1>7 DEF ServerCrash, UploadsCrash, UploadStates
  <2>2. CASE up'[u].pc = "failed"
    BY <2>2
  <2> QED
    BY <1>2, <2>1, <2>2
<1> QED
  BY <1>2, <1>3, <1>4, <1>5, <1>6, <1>7, UploadChange DEF UploadStep

-----------------------------------------------------------------------------
(* The invariant holds, and what follows from it *)

LEMMA KeepingInit == Init => Keeping
<1> SUFFICES ASSUME Init PROVE Keeping
  OBVIOUS
<1>1. files = {} /\ thumbs = {} /\ announced = {} /\ \A u \in Uploads : up[u].pc = "unsent"
  BY DEF Init, MediaInit, UploadInit, WorkerInit
<1> QED
  BY <1>1 DEF Keeping, FilesSayTheirUpload, UploadsHaveRows, NamesHold, AnnouncedAreRecorded,
              ThumbIds

LEMMA KeepingStep ==
    ASSUME TypeOK, [Next]_vars, BytesAgree, Linked, Keeping
    PROVE  Keeping'
<1>1. Grow /\ NothingUnborn /\ FilesAreUnique /\ MessagesAreAbout
  BY StepGrows DEF BytesAgree, Linked
<1>2. FilesSayTheirUpload' /\ UploadsHaveRows'
  BY <1>1, FilesSayTheirUploadStep, UploadsHaveRowsStep DEF Keeping
<1>3. NamesHold' /\ AnnouncedAreRecorded'
  BY <1>1, NamesHoldStep, AnnouncedAreRecordedStep DEF Keeping
<1> QED
  BY <1>2, <1>3 DEF Keeping

LEMMA KeepingAlways == Spec => []Keeping
<1>1. Init => Keeping
  BY KeepingInit
<1>2. TypeOK /\ BytesAgree /\ Linked /\ Keeping /\ [Next]_vars => Keeping'
  BY KeepingStep
<1> QED
  BY <1>1, <1>2, TypeCorrect, BytesAlwaysAgree, LinkedAlways, PTL DEF Spec

\* Where stores are named, what was answered 200 is intact as long as nobody
\* else was given its name in the same store (Upload, filesystem and FTP Store).
THEOREM KeptUntilNameTaken == Spec => []KeptUnlessNameTaken
<1>1. TypeOK /\ BytesAgree /\ Keeping => KeptUnlessNameTaken
  <2> SUFFICES ASSUME TypeOK, BytesAgree, Keeping, NEW r \in Requests, response[r] = "ok",
                      NEW u \in FilesOf(r)
               PROVE  NameTaken(u) \/ Kept(u)
    BY DEF KeptUnlessNameTaken
  <2>1. u \in Uploads /\ up[u].pc = "stored"
    BY DEF FilesOf, BytesAgree, AnswersWait
  <2> PICK f \in files : f.by = u /\ f.id = up[u].id /\ f.event = up[u].event
    BY <2>1 DEF Keeping, UploadsHaveRows
  <2>2. f.event \in Events /\ UploadStore(u) = StoreOf(f.event) /\ StoreOf(f.event) \in Stores
    BY DEF TypeOK, MediaTypeOK, FileRows, EventRows, UploadStore, StoreOf
  <2>3. CASE Fresh(f.event)
    BY <2>3 DEF BytesAgree, FilesWritten, Kept
  <2>4. CASE Kind[StoreOf(f.event)] = "named"
    BY <2>1, <2>2, <2>4 DEF Keeping, NamesHold, Kept
  <2> QED
    BY <2>2, <2>3, <2>4, MediaAssumption DEF Fresh
<1> QED
  BY <1>1, TypeCorrect, BytesAlwaysAgree, KeepingAlways, PTL

-----------------------------------------------------------------------------
(* The ledger.  Where every store is fresh, what is kept and shown can be   *)
(* read from the tables.                                                   *)

Recorded(u) == \E f \in files : f.by = u

Advertised(u) == \E f \in files, t \in thumbs : f.by = u /\ t.file = f.id /\ t.id \in announced

TablesTell == \A u \in Uploads : (Kept(u) <=> Recorded(u)) /\ (Shown(u) <=> Advertised(u))

KeptOnes == {u \in Uploads : Kept(u)}
ShownOnes == {u \in Uploads : Shown(u)}
Answers == [r \in Requests |-> Answer(r)]

LEMMA TablesTellAll ==
    ASSUME \A s \in Stores : Kind[s] = "fresh", TypeOK, BytesAgree, Linked
    PROVE  TablesTell
<1> SUFFICES ASSUME NEW u \in Uploads
             PROVE  (Kept(u) <=> Recorded(u)) /\ (Shown(u) <=> Advertised(u))
  BY DEF TablesTell
<1>0. \A e \in Events : Fresh(e)
  BY DEF TypeOK, MediaTypeOK, EventRows, StoreOf, Fresh
<1>1. Kept(u) <=> Recorded(u)
  <2>1. ASSUME NEW f \in files, f.by = u PROVE Kept(u)
    <3>1. f.event \in Events
      BY DEF TypeOK, MediaTypeOK, FileRows
    <3> QED
      BY <1>0, <2>1, <3>1 DEF Kept, BytesAgree, FilesWritten
  <2> QED
    BY <2>1 DEF Kept, Recorded
<1>2. Shown(u) <=> Advertised(u)
  <2>1. ASSUME NEW f \in files, NEW t \in thumbs, f.by = u, t.file = f.id, t.id \in announced
        PROVE  Shown(u)
    <3>1. t.event \in Events
      BY DEF TypeOK, MediaTypeOK, ThumbRows
    <3>2. PICK g \in files : g.id = t.file /\ Object(t.event, t.id) \in MadeFrom(g)
      BY <1>0, <3>1 DEF Linked, ThumbnailsDepictTheirFiles
    <3>3. g = f
      BY <2>1, <3>2 DEF Linked, FilesAreUnique
    <3> QED
      BY <2>1, <3>2, <3>3 DEF Shown
  <2> QED
    BY <2>1 DEF Shown, Advertised
<1> QED
  BY <1>1, <1>2

\* What is kept changes only when AddFileInfo succeeds.
LEMMA KeptChange ==
    ASSUME TypeOK, [Next]_vars, Grow, TablesTell, TablesTell'
    PROVE  \/ KeptOnes' = KeptOnes
           \/ \E u \in Uploads : UploadRecord(u) /\ KeptOnes' = KeptOnes \cup {u}
<1>1. KeptOnes = {u \in Uploads : Recorded(u)} /\ KeptOnes' = {u \in Uploads : Recorded(u)'}
  BY DEF KeptOnes, TablesTell
<1>2. \A u \in Uploads : Recorded(u) => Recorded(u)'
  BY DEF Recorded, Grow
<1>3. CASE files' = files
  BY <1>1, <1>3 DEF Recorded
<1>4. CASE files' # files
  <2> PICK f \in files' : f \notin files
    BY <1>4 DEF Grow
  <2> PICK u \in Uploads :
        /\ UploadRecord(u)
        /\ f = [id |-> up[u].id, event |-> up[u].event, name |-> up[u].name,
                video |-> up[u].media = "video", by |-> u]
    BY FileAdded
  <2>1. f.by = u /\ files' = files \cup {f}
    BY <1>4 DEF UploadRecord
  <2>2. \A v \in Uploads : Recorded(v)' <=> Recorded(v) \/ v = u
    BY <2>1 DEF Recorded
  <2> QED
    BY <1>1, <2>2
<1> QED
  BY <1>3, <1>4

\* Nothing is shown because of a new row: a new photo has no thumbnail yet,
\* and a new thumbnail has not been announced.
LEMMA ShownWaitsForAnnounce ==
    ASSUME TypeOK, [Next]_vars, Grow, Linked, Linked', Keeping, TablesTell, TablesTell',
           announced' = announced
    PROVE  ShownOnes' = ShownOnes
<1>1. ASSUME NEW u \in Uploads, NEW f \in files', NEW t \in thumbs',
             f.by = u, t.file = f.id, t.id \in announced
      PROVE  Advertised(u)
  <2>1. PICK s \in thumbs : s.id = t.id
    BY <1>1 DEF Keeping, AnnouncedAreRecorded, ThumbIds
  <2>2. t \in thumbs
    <3>1. SUFFICES ASSUME t \notin thumbs PROVE FALSE
      OBVIOUS
    <3> PICK w \in Workers :
          /\ WorkerRecord(w)
          /\ t = [id |-> worker[w].id, event |-> worker[w].msg.event, file |-> worker[w].msg.file]
      BY <3>1, ThumbAdded
    <3>2. worker[w].id \notin ThumbIds
      BY <3>1 DEF WorkerRecord
    <3> QED
      BY <2>1, <3>2 DEF ThumbIds
  <2>3. PICK g \in files : g.id = t.file
    BY <2>2 DEF Linked, ThumbnailsDepictTheirFiles
  <2>4. g = f
    BY <1>1, <2>3 DEF Grow, Linked, FilesAreUnique
  <2> QED
    BY <1>1, <2>2, <2>3, <2>4 DEF Advertised
<1>2. \A u \in Uploads : Advertised(u)' <=> Advertised(u)
  BY <1>1 DEF Advertised, Grow
<1> QED
  BY <1>2 DEF ShownOnes, TablesTell

\* An announcement shows one photo, and one that is kept.
LEMMA AnnounceShowsOne ==
    ASSUME TypeOK, [Next]_vars, Linked, Keeping, TablesTell, TablesTell', announced' # announced
    PROVE  /\ KeptOnes' = KeptOnes /\ Answers' = Answers
           /\ \E u \in KeptOnes : ShownOnes' = ShownOnes \cup {u}
<1> PICK i \in ThumbIds : announced' = announced \cup {i} /\ Announce
  BY AnnouncedChange
<1>1. UNCHANGED <<files, thumbs, response>>
  <2>1. UNCHANGED <<files, thumbs>>
    BY DEF Announce, mediaVars
  <2>2. response' = response
    BY DEF Next, vars, workerVars, Organise, Uploading, Reading, ServerCrash, ServerStart,
           Thumbnailing, uploadVars
  <2> QED
    BY <2>1, <2>2
<1>2. KeptOnes' = KeptOnes
  BY <1>1 DEF KeptOnes, TablesTell, Recorded
<1>3. Answers' = Answers
  BY <1>1 DEF Answers, Answer
<1>4. PICK t \in thumbs : t.id = i
  BY DEF ThumbIds
<1>5. PICK f \in files : f.id = t.file
  BY DEF Linked, ThumbnailsDepictTheirFiles
<1>6. f.by \in Uploads
  BY DEF TypeOK, MediaTypeOK, FileRows
<1>7. ASSUME NEW u \in Uploads PROVE Advertised(u)' <=> Advertised(u) \/ u = f.by
  <2>1. ASSUME NEW g \in files, NEW s \in thumbs, g.by = u, s.file = g.id,
               s.id \in announced \cup {i}
        PROVE  Advertised(u) \/ u = f.by
    <3>1. CASE s.id \in announced
      BY <2>1, <3>1 DEF Advertised
    <3>2. CASE s.id = i
      <4>1. s = t
        BY <1>4, <3>2 DEF Keeping, AnnouncedAreRecorded
      <4>2. g = f
        BY <1>5, <2>1, <4>1 DEF Linked, FilesAreUnique
      <4> QED
        BY <2>1, <4>2
    <3> QED
      BY <2>1, <3>1, <3>2
  <2> QED
    BY <1>1, <1>4, <1>5, <2>1 DEF Advertised
<1>8. ShownOnes' = ShownOnes \cup {f.by}
  BY <1>6, <1>7 DEF ShownOnes, TablesTell
<1>9. f.by \in KeptOnes
  BY <1>6 DEF KeptOnes, TablesTell, Recorded
<1> QED
  BY <1>2, <1>3, <1>8, <1>9

\* A request is answered by Respond, with "ok" only when all it brought is
\* kept, or broken off by a crash.
LEMMA AnswersChange ==
    ASSUME TypeOK, [Next]_vars, Keeping, TablesTell, UNCHANGED <<KeptOnes, ShownOnes>>
    PROVE  \/ Answers' = Answers
           \/ \E r \in Requests : L!Accept(r)
           \/ \E rs \in SUBSET Requests : L!Fail(rs)
<1> response \in [Requests -> {"unsent", "waiting", "ok", "error"}]
  BY DEF TypeOK, UploadTypeOK
<1>1. CASE response' = response
  BY <1>1 DEF Answers, Answer
<1>2. ASSUME NEW r \in Requests, Post(r) PROVE Answers' = Answers
  <2>1. response[r] = "unsent" /\ response' = [response EXCEPT ![r] = "waiting"]
    BY <1>2 DEF Post
  <2>2. \A q \in Requests : Answer(q)' = Answer(q)
    BY <2>1 DEF Answer
  <2> QED
    BY <2>2 DEF Answers
<1>3. ASSUME NEW r \in Requests, Respond(r), Outcome(r) = "ok" PROVE L!Accept(r)
  <2>1. response[r] = "waiting" /\ response' = [response EXCEPT ![r] = "ok"]
    BY <1>3 DEF Respond
  <2>2. Answers[r] = "none" /\ Answers' = [Answers EXCEPT ![r] = "ok"]
    BY <2>1 DEF Answers, Answer
  <2>3. ASSUME NEW u \in Uploads, RequestOf[u] = r PROVE u \in KeptOnes
    <3>1. up[u].pc = "stored"
      BY <1>3, <2>3 DEF Respond, Finished, Outcome, FilesOf
    <3> QED
      BY <3>1 DEF Keeping, UploadsHaveRows, TablesTell, Recorded, KeptOnes
  <2> QED
    BY <2>2, <2>3 DEF L!Accept, Answers, KeptOnes, ShownOnes
<1>4. ASSUME NEW r \in Requests, Respond(r), Outcome(r) = "error" PROVE L!Fail({r})
  <2>1. response[r] = "waiting" /\ response' = [response EXCEPT ![r] = "error"]
    BY <1>4 DEF Respond
  <2>2. Answers[r] = "none"
        /\ Answers' = [q \in Requests |-> IF q \in {r} THEN "error" ELSE Answers[q]]
    BY <2>1 DEF Answers, Answer
  <2> QED
    BY <2>2 DEF L!Fail, Answers, KeptOnes, ShownOnes
<1>5. CASE ServerCrash
  <2> DEFINE rs == {r \in Requests : response[r] = "waiting"}
  <2>1. response' = [r \in Requests |-> IF response[r] = "waiting" THEN "error" ELSE response[r]]
    BY <1>5 DEF ServerCrash, UploadsCrash
  <2>2. /\ \A r \in rs : Answers[r] = "none"
        /\ Answers' = [q \in Requests |-> IF q \in rs THEN "error" ELSE Answers[q]]
    BY <2>1 DEF Answers, Answer
  <2>3. rs \in SUBSET Requests
    OBVIOUS
  <2> HIDE DEF rs
  <2>4. L!Fail(rs)
    BY <2>2 DEF L!Fail, Answers, KeptOnes, ShownOnes
  <2> QED
    BY <2>3, <2>4
<1> QED
  BY <1>1, <1>2, <1>3, <1>4, <1>5, ResponsesChange DEF Outcome

LEMMA LedgerStep ==
    ASSUME TypeOK, [Next]_vars, Linked, Linked', Keeping, TablesTell, TablesTell'
    PROVE  [L!LedgerNext]_(L!ledgerVars)
<1>0. Grow
  BY StepGrows
<1>1. CASE announced' # announced
  <2>1. /\ KeptOnes' = KeptOnes /\ Answers' = Answers
        /\ \E u \in KeptOnes : ShownOnes' = ShownOnes \cup {u}
    BY <1>1, AnnounceShowsOne
  <2>2. \E u \in Uploads : L!Show(u)
    BY <2>1 DEF L!Show, KeptOnes, ShownOnes, Answers
  <2> QED
    BY <2>2 DEF L!LedgerNext
<1>2. CASE announced' = announced
  <2>1. ShownOnes' = ShownOnes
    BY <1>0, <1>2, ShownWaitsForAnnounce
  <2>2. ASSUME NEW u \in Uploads, UploadRecord(u), KeptOnes' = KeptOnes \cup {u} PROVE L!Keep(u)
    <3>1. Answers' = Answers
      BY <2>2 DEF UploadRecord, Answers, Answer
    <3> QED
      BY <2>1, <2>2, <3>1 DEF L!Keep, KeptOnes, ShownOnes, Answers
  <2>3. CASE KeptOnes' = KeptOnes
    <3>1. \/ Answers' = Answers
          \/ \E r \in Requests : L!Accept(r)
          \/ \E rs \in SUBSET Requests : L!Fail(rs)
      BY <2>1, <2>3, AnswersChange
    <3>2. CASE Answers' = Answers
      BY <2>1, <2>3, <3>2 DEF L!ledgerVars, KeptOnes, ShownOnes, Answers
    <3> QED
      BY <3>1, <3>2 DEF L!LedgerNext
  <2> QED
    BY <1>0, <2>2, <2>3, KeptChange DEF L!LedgerNext
<1> QED
  BY <1>1, <1>2

\* Where every store gives out identifiers of its own, deleting an event, a
\* crash, a failed upload or a second try never takes back what was kept,
\* shown or answered: the pipeline implements Ledger.
THEOREM PipelineKeepsLedger ==
    ASSUME \A s \in Stores : Kind[s] = "fresh"
    PROVE  Spec => KeepsLedger
<1>1. Init => L!LedgerInit
  <2> SUFFICES ASSUME Init PROVE L!LedgerInit
    OBVIOUS
  <2>1. files = {} /\ response = [r \in Requests |-> "unsent"]
    BY DEF Init, MediaInit, UploadInit
  <2>2. KeptOnes = {} /\ ShownOnes = {}
    BY <2>1 DEF KeptOnes, ShownOnes, Kept, Shown
  <2>3. Answers = [r \in Requests |-> "none"]
    BY <2>1 DEF Answers, Answer
  <2> QED
    BY <2>2, <2>3 DEF L!LedgerInit, KeptOnes, ShownOnes, Answers
<1>2. TypeOK /\ BytesAgree /\ Linked => TablesTell
  BY TablesTellAll
<1>3. TypeOK /\ Linked /\ Linked' /\ Keeping /\ TablesTell /\ TablesTell' /\ [Next]_vars
        => [L!LedgerNext]_(L!ledgerVars)
  BY LedgerStep
<1> QED
  BY <1>1, <1>2, <1>3, TypeCorrect, BytesAlwaysAgree, LinkedAlways, KeepingAlways, PTL
     DEF Spec, KeepsLedger, L!LedgerSpec

-----------------------------------------------------------------------------
(* The journey: the inductive invariant *)

\* An upload is recorded once, and has no row before it is.
RecordedOnce ==
    /\ \A f, g \in files : f.by = g.by => f = g
    /\ \A f \in files : up[f.by].pc \in {"cache", "publish", "stored", "failed"}
    /\ \A u \in Uploads : up[u].pc = "unsent" => up[u].event = None

Publishing(w) == worker[w].pc = "publish"

\* A thumbnail is about to be published by one worker, or once in the queue of
\* the server, or announced.
NoticedOnce ==
    /\ \A v, w \in Workers : Publishing(v) /\ Publishing(w) /\ worker[v].id = worker[w].id => v = w
    /\ \A w \in Workers, k \in Nat :
          k \in 1..Len(notices) /\ Publishing(w) => worker[w].id # notices[k]
    /\ \A k, l \in Nat :
          k \in 1..Len(notices) /\ l \in 1..Len(notices) /\ notices[k] = notices[l] => k = l
    /\ \A k \in Nat : k \in 1..Len(notices) => notices[k] \notin announced
    /\ \A w \in Workers : Publishing(w) => worker[w].id \notin announced

\* Nothing fails that a photo's way depends on.
Dependable == Faults \subseteq {"cache"} /\ \A s \in Stores : Kind[s] = "fresh"

\* Worker w has the identifier of the thumbnail it has stored.
Naming(w) == worker[w].pc \in {"cache", "record"}

\* Then a fetch fails only where the event is gone, and AddThumbnailInfo is
\* never given an identifier that is taken.
NothingFails ==
    Dependable =>
        /\ serverUp
        /\ \A w \in Workers : worker[w].pc = "thumb" /\ reader[w].pc = "failed" =>
              ~Present(worker[w].msg.event)
        /\ \A w \in Workers : Naming(w) => worker[w].id \notin ThumbIds
        /\ \A v, w \in Workers : Naming(v) /\ Naming(w) /\ worker[v].id = worker[w].id => v = w

Travelling == RecordedOnce /\ NoticedOnce /\ NothingFails

LEMMA RecordedOnceStep ==
    ASSUME TypeOK, [Next]_vars, FilesSayTheirUpload, RecordedOnce
    PROVE  RecordedOnce'
<1> up \in [Uploads -> UploadStates]
  BY DEF TypeOK, UploadTypeOK
<1>1. ASSUME NEW f \in files', f \notin files
      PROVE  /\ f.by \in Uploads /\ up'[f.by].pc \in {"cache", "publish"}
             /\ files' = files \cup {f} /\ \A g \in files : g.by # f.by
  <2> PICK u \in Uploads :
        /\ UploadRecord(u)
        /\ f = [id |-> up[u].id, event |-> up[u].event, name |-> up[u].name,
                video |-> up[u].media = "video", by |-> u]
    BY <1>1, FileAdded
  <2>1. f.by = u
    OBVIOUS
  <2>2. /\ up[u].pc = "record" /\ files' = files \cup {f}
        /\ Goto(u, IF UploadCaches(u) THEN "cache" ELSE "publish")
    BY <1>1 DEF UploadRecord
  <2>3. up'[u].pc \in {"cache", "publish"}
    BY <2>2 DEF Goto, UploadStates
  <2>4. \A g \in files : g.by # u
    BY <2>2 DEF RecordedOnce
  <2> QED
    BY <2>1, <2>2, <2>3, <2>4
<1>2. ASSUME NEW f \in files', NEW g \in files', f.by = g.by PROVE f = g
  BY <1>1, <1>2 DEF RecordedOnce
<1>3. ASSUME NEW f \in files' PROVE up'[f.by].pc \in {"cache", "publish", "stored", "failed"}
  <2>1. CASE f \notin files
    BY <1>1, <2>1
  <2>2. CASE f \in files
    <3> PICK u \in Uploads : u = f.by
      BY <2>2 DEF TypeOK, MediaTypeOK, FileRows
    <3>1. up[u].pc \in {"cache", "publish", "stored", "failed"}
      BY <2>2 DEF RecordedOnce
    <3>2. SUFFICES ASSUME up'[u] # up[u]
                   PROVE  up'[u].pc \in {"cache", "publish", "stored", "failed"}
      BY <3>1
    <3>3. ASSUME NEW r \in Requests, u \in FilesOf(r), Post(r) PROVE FALSE
      BY <3>1, <3>3 DEF Post, FilesOf, FilesSayTheirUpload
    <3>4. CASE UploadStep(u)
      BY <3>1, <3>4 DEF UploadStep, UploadCheck, UploadBytes, UploadWrite, UploadRecord,
                        UploadCache, UploadPublish, Goto, UploadStates
    <3>5. CASE ServerCrash
      BY <3>1, <3>5 DEF ServerCrash, UploadsCrash, UploadStates
    <3> QED
      BY <3>2, <3>3, <3>4, <3>5, UploadChange
  <2> QED
    BY <2>1, <2>2
<1>4. ASSUME NEW u \in Uploads, up'[u].pc = "unsent" PROVE up'[u].event = None
  <2>1. ASSUME up'[u] # up[u] PROVE FALSE
    <3>1. ASSUME NEW r \in Requests, u \in FilesOf(r), Post(r) PROVE FALSE
      BY <1>4, <3>1 DEF Post
    <3>2. ASSUME UploadStep(u) PROVE FALSE
      BY <1>4, <3>2 DEF UploadStep, UploadCheck, UploadBytes, UploadWrite, UploadRecord,
                        UploadCache, UploadPublish, Goto, UploadStates
    <3>3. ASSUME ServerCrash PROVE FALSE
      BY <1>4, <2>1, <3>3 DEF ServerCrash, UploadsCrash, UploadStates
    <3> QED
      BY <2>1, <3>1, <3>2, <3>3, UploadChange
  <2> QED
    BY <1>4, <2>1 DEF RecordedOnce
<1> QED
  BY <1>2, <1>3, <1>4 DEF RecordedOnce

\* A worker comes to "publish" by recording a thumbnail under a new identifier.
LEMMA PublishingChange ==
    ASSUME TypeOK, [Next]_vars, NEW w \in Workers, worker'[w].pc = "publish"
    PROVE  \/ Publishing(w) /\ worker'[w] = worker[w]
           \/ /\ ~Publishing(w)
              /\ WorkerRecord(w) /\ worker'[w].id = worker[w].id /\ worker[w].id \notin ThumbIds
              /\ \A v \in Workers \ {w} : worker'[v] = worker[v]
              /\ UNCHANGED <<notices, announced>>
<1> worker \in [Workers -> WorkerStates] /\ worker[w] \in WorkerStates
  BY DEF TypeOK, WorkerTypeOK
<1>1. CASE worker'[w] = worker[w]
  BY <1>1 DEF Publishing
<1>2. CASE WorkerRecord(w)
  <2>1. ~Release(w)
    BY DEF Release, Rest
  <2> QED
    BY <1>2, <2>1 DEF WorkerRecord, WorkerGoto, WorkerStates, busVars, Publishing
<1>3. CASE WorkerStep(w) /\ ~WorkerRecord(w)
  BY <1>3 DEF WorkerStep, WorkerReceive, WorkerLookup, WorkerFetch, WorkerThumb,
            WorkerBytes, WorkerWrite, WorkerCache, WorkerPublish, WorkerGoto, Stored, Release,
            Rest, WorkerStates
<1>4. CASE worker'[w] # worker[w] /\ (WorkerStart(w) \/ WorkerCrash(w) \/ ServerCrash)
  BY <1>4 DEF WorkerStart, WorkerCrash, ServerCrash, Rest
<1> QED
  BY <1>1, <1>2, <1>3, <1>4, WorkerChange

\* What is published was about to be, by one worker that is done with it.
LEMMA NoticeChange ==
    ASSUME TypeOK, [Next]_vars
    PROVE  \/ notices' = notices /\ announced' = announced
           \/ notices' = <<>> /\ announced' = announced
           \/ /\ notices # <<>> /\ notices' = Tail(notices) /\ worker' = worker
              /\ announced' = announced \/ announced' = announced \cup {notices[1]}
           \/ \E w \in Workers :
                 /\ Publishing(w) /\ notices' = Append(notices, worker[w].id) /\ Release(w)
                 /\ worker[w].id \in Ids /\ announced' = announced
<1>0. CASE Organise \/ Uploading \/ Reading \/ ServerCrash \/ ServerStart \/ UNCHANGED vars
  <2>1. announced' = announced
    BY <1>0 DEF Organise, Uploading, Reading, ServerCrash, ServerStart, vars, workerVars
  <2>2. notices' = notices \/ notices' = <<>>
    BY <1>0 DEF Organise, Uploading, UploadNext, UploadStep, Post, Respond, UploadCheck,
          UploadBytes, UploadWrite, UploadRecord, UploadCache, UploadPublish, PublishNewPhoto,
          Reading, ServerCrash, ServerStart, vars, busVars
  <2> QED
    BY <2>1, <2>2
<1>1. ASSUME NEW w \in Workers, WorkerPublish(w)
      PROVE  \/ notices' = notices /\ announced' = announced
             \/ /\ Publishing(w) /\ notices' = Append(notices, worker[w].id) /\ Release(w)
                /\ worker[w].id \in Ids /\ announced' = announced
  BY <1>1, WorkerLocals DEF WorkerPublish, PublishNewThumbnail, Publishing
<1>2. CASE Announce
  <2> notices \in Seq(Ids)
    BY DEF TypeOK, BusTypeOK
  <2>1. notices # <<>> => Head(notices) = notices[1]
    OBVIOUS
  <2> QED
    BY <1>2, <2>1 DEF Announce
<1>3. ASSUME NEW w \in Workers,
             WorkerStart(w) \/ WorkerCrash(w) \/ (WorkerStep(w) /\ ~WorkerPublish(w))
      PROVE  notices' = notices /\ announced' = announced
  BY <1>3 DEF WorkerStep, WorkerStart, WorkerCrash, WorkerReceive, WorkerLookup, WorkerFetch,
              WorkerThumb, WorkerBytes, WorkerWrite, WorkerCache, WorkerRecord, busVars
<1> QED
  BY <1>0, <1>1, <1>2, <1>3 DEF Next, Thumbnailing, WorkerNext

LEMMA NoticedOnceStep ==
    ASSUME TypeOK, [Next]_vars, NoticesAreRecorded, AnnouncedAreRecorded, NoticedOnce
    PROVE  NoticedOnce'
<1> notices \in Seq(Ids) /\ worker \in [Workers -> WorkerStates]
  BY DEF TypeOK, BusTypeOK, WorkerTypeOK
<1>0. /\ \A w \in Workers : Publishing(w) => worker[w].id \in ThumbIds
      /\ \A k \in Nat : k \in 1..Len(notices) => notices[k] \in ThumbIds
      /\ announced \subseteq ThumbIds
  BY DEF NoticesAreRecorded, AnnouncedAreRecorded, Publishing
\* A worker that comes to "publish".
<1>1. ASSUME NEW w \in Workers, worker'[w].pc = "publish", ~Publishing(w) PROVE NoticedOnce'
  <2>1. /\ worker'[w].id \notin ThumbIds /\ \A v \in Workers \ {w} : worker'[v] = worker[v]
        /\ UNCHANGED <<notices, announced>>
    BY <1>1, PublishingChange
  <2>2. ASSUME NEW u \in Workers, NEW v \in Workers, worker'[u].pc = "publish",
               worker'[v].pc = "publish", worker'[u].id = worker'[v].id
        PROVE  u = v
    BY <1>0, <2>1, <2>2 DEF NoticedOnce, Publishing
  <2>3. \A v \in Workers, k \in Nat :
          k \in 1..Len(notices) /\ worker'[v].pc = "publish" => worker'[v].id # notices[k]
    BY <1>0, <2>1 DEF NoticedOnce, Publishing
  <2>4. \A v \in Workers : worker'[v].pc = "publish" => worker'[v].id \notin announced
    BY <1>0, <2>1 DEF NoticedOnce, Publishing
  <2> QED
    BY <2>1, <2>2, <2>3, <2>4 DEF NoticedOnce, Publishing
<1>2. ASSUME \A w \in Workers : worker'[w].pc = "publish" => Publishing(w) /\ worker'[w] = worker[w]
      PROVE  NoticedOnce'
  <2>0. ASSUME NEW u \in Workers, NEW v \in Workers, worker'[u].pc = "publish",
               worker'[v].pc = "publish", worker'[u].id = worker'[v].id
        PROVE  u = v
    BY <1>2, <2>0 DEF NoticedOnce, Publishing
  <2>1. CASE notices' = notices /\ announced' = announced
    BY <1>2, <2>0, <2>1 DEF NoticedOnce, Publishing
  <2>2. CASE notices' = <<>> /\ announced' = announced
    BY <1>2, <2>0, <2>2 DEF NoticedOnce, Publishing
  <2>3. CASE /\ notices # <<>> /\ notices' = Tail(notices) /\ worker' = worker
             /\ announced' = announced \/ announced' = announced \cup {notices[1]}
    <3>1. \A k \in Nat : k \in 1..Len(notices') =>
              /\ k + 1 \in Nat /\ k + 1 \in 1..Len(notices) /\ notices'[k] = notices[k + 1]
      BY <2>3
    <3>2. 1 \in Nat /\ 1 \in 1..Len(notices) /\ \A k \in Nat : k \in 1..Len(notices') => k + 1 # 1
      BY <2>3
    <3>3. \A w \in Workers, k \in Nat :
            k \in 1..Len(notices') /\ Publishing(w) => worker[w].id # notices'[k]
      BY <3>1 DEF NoticedOnce
    <3>4. \A k, l \in Nat :
            k \in 1..Len(notices') /\ l \in 1..Len(notices') /\ notices'[k] = notices'[l] => k = l
      <4> SUFFICES ASSUME NEW k \in Nat, NEW l \in Nat, k \in 1..Len(notices'),
                          l \in 1..Len(notices'), notices'[k] = notices'[l]
                   PROVE  k = l
        OBVIOUS
      <4>1. k + 1 = l + 1
        BY <3>1 DEF NoticedOnce
      <4> QED
        BY <4>1
    <3>5. \A k \in Nat : k \in 1..Len(notices') => notices'[k] \notin announced'
      BY <2>3, <3>1, <3>2 DEF NoticedOnce
    <3>6. \A w \in Workers : Publishing(w) => worker[w].id \notin announced'
      BY <2>3, <3>2 DEF NoticedOnce
    <3> QED
      BY <2>0, <2>3, <3>3, <3>4, <3>5, <3>6 DEF NoticedOnce, Publishing
  <2>4. ASSUME NEW w \in Workers, Publishing(w), notices' = Append(notices, worker[w].id),
               Release(w), worker[w].id \in Ids, announced' = announced
        PROVE  NoticedOnce'
    <3>1. worker'[w].pc # "publish"
      BY <2>4 DEF Release, Rest
    <3>2. \A k \in Nat : k \in 1..Len(notices') =>
              \/ k \in 1..Len(notices) /\ notices'[k] = notices[k]
              \/ k = Len(notices) + 1 /\ notices'[k] = worker[w].id
      BY <2>4
    <3>3. \A v \in Workers, k \in Nat :
            k \in 1..Len(notices') /\ worker'[v].pc = "publish" => worker'[v].id # notices'[k]
      <4> SUFFICES ASSUME NEW v \in Workers, NEW k \in Nat, k \in 1..Len(notices'),
                          worker'[v].pc = "publish"
                   PROVE  worker[v].id # notices'[k]
        BY <1>2
      <4>1. v # w /\ Publishing(v)
        BY <1>2, <3>1
      <4> QED
        BY <2>4, <3>2, <4>1 DEF NoticedOnce
    <3>4. \A k, l \in Nat :
            k \in 1..Len(notices') /\ l \in 1..Len(notices') /\ notices'[k] = notices'[l] => k = l
      BY <2>4, <3>2 DEF NoticedOnce
    <3>5. \A k \in Nat : k \in 1..Len(notices') => notices'[k] \notin announced'
      BY <2>4, <3>2 DEF NoticedOnce
    <3>6. \A v \in Workers : worker'[v].pc = "publish" => worker'[v].id \notin announced'
      BY <1>2, <2>4 DEF NoticedOnce
    <3> QED
      BY <2>0, <3>3, <3>4, <3>5, <3>6 DEF NoticedOnce, Publishing
  <2> QED
    BY <2>1, <2>2, <2>3, <2>4, NoticeChange
<1> QED
  BY <1>1, <1>2, PublishingChange

\* What imagor fetches for a worker is of the event of the message, and there.
LEMMA FetchIsOfMessage ==
    ASSUME Linked, NEW w \in Workers, worker[w].pc = "thumb", reader[w].pc # "failed"
    PROVE  /\ reader[w].table = "picture" /\ reader[w].id = worker[w].msg.file
           /\ reader[w].event = worker[w].msg.event
           /\ Object(reader[w].event, reader[w].id) # Nothing
<1> w \in Readers
  BY PipelineAssumption
<1>1. reader[w].pc # "idle" /\ reader[w].table = "picture" /\ reader[w].id = worker[w].msg.file
  BY DEF Linked, FetchesFollowMessages
<1>2. PICK f \in files : f.id = reader[w].id /\ f.event = reader[w].event
  BY <1>1 DEF Linked, RequestsFollowRows
<1>3. PICK g \in files : g.id = worker[w].msg.file /\ g.event = worker[w].msg.event
  BY DEF Linked, MessagesAreAbout, IsAbout
<1>4. f = g
  BY <1>1, <1>2, <1>3 DEF Linked, FilesAreUnique
<1> QED
  BY <1>1, <1>2, <1>3, <1>4 DEF Linked, RowsHaveObjects

LEMMA ServerStaysUp ==
    ASSUME [Next]_vars, "crash" \notin Faults, serverUp
    PROVE  serverUp'
  BY DEF Next, vars, mediaVars, Organise, MediaNext, CreateEvent, SetEventLive, DeleteEvent,
         CacheExpire, Uploading, UploadNext, UploadStep, Post, Respond, UploadCheck, UploadBytes,
         UploadWrite, UploadRecord, UploadCache, UploadPublish, Reading, Browse, ReadDone,
         ReadLookup, ReadStep, ReadCache, ReadEvent, ReadStorage, ReadFill, Thumbnailing,
         WorkerNext, WorkerStep, Announce, WorkerStart, WorkerCrash, WorkerReceive, WorkerLookup,
         WorkerFetch, WorkerThumb, WorkerBytes, WorkerWrite, WorkerCache, WorkerRecord,
         WorkerPublish, ServerCrash, ServerStart

\* A fetch that fails, of an event that is there, fails by a fault.
LEMMA FetchFails ==
    ASSUME TypeOK, BytesAgree, Linked, [Next]_vars, Dependable, serverUp, NEW w \in Workers,
           worker'[w].pc = "thumb", reader'[w].pc = "failed",
           ~(worker[w].pc = "thumb" /\ reader[w].pc = "failed")
    PROVE  /\ worker'[w].msg.event = worker[w].msg.event /\ ~Present(worker[w].msg.event)
           /\ worker[w].pc = "thumb"
<1> worker \in [Workers -> WorkerStates] /\ worker[w] \in WorkerStates
  BY DEF TypeOK, WorkerTypeOK
<1> w \in Readers /\ reader \in [Readers -> ReaderStates] /\ reader[w] \in ReaderStates
  BY PipelineAssumption DEF TypeOK, ReaderTypeOK
<1>1. ~WorkerFetch(w)
  <2> SUFFICES ASSUME WorkerFetch(w) PROVE FALSE
    OBVIOUS
  <2>1. ReadLookup(w, "picture", worker[w].msg.file)
    BY DEF WorkerFetch, Dependable
  <2>2. PICK f \in files : f.id = worker[w].msg.file
    BY DEF WorkerFetch, Linked, MessagesAreAbout, IsAbout
  <2>3. \E row \in files :
          reader' = [reader EXCEPT ![w] =
             [pc |-> IF UsesCache(row.event) THEN "cacheGet" ELSE "getEvent",
              table |-> "picture", id |-> worker[w].msg.file, event |-> row.event,
              useCache |-> UsesCache(row.event),
              late |-> ~Present(row.event), got |-> Nothing]]
    BY <2>1, <2>2 DEF ReadLookup, Rows, Dependable
  <2> QED
    BY <2>3
<1>2. worker'[w] = worker[w]
  BY <1>1, ComesToThumb
<1>3. ReadStep(w)
  <2>1. reader'[w] # reader[w]
    BY <1>2
  <2>2. ~WorkerStart(w) /\ ~WorkerThumb(w) /\ ~ServerCrash
    BY <1>2 DEF WorkerStart, WorkerThumb, Release, Rest, WorkerStates, ServerCrash, Dependable
  <2>3. w \notin Browsers
    BY DEF Browsers
  <2> QED
    BY <1>1, <2>1, <2>2, <2>3, ReaderChange
<1>4. reader[w].event = worker[w].msg.event /\ Object(reader[w].event, reader[w].id) # Nothing
  BY <1>2, FetchIsOfMessage
<1>5. ~Present(reader[w].event)
  <2>1. ~ReadCache(w) /\ ~ReadFill(w)
    BY DEF ReadCache, ReadFill, ReadGoto, ReaderStates
  <2>2. ReadStorage(w) => FALSE
    BY <1>4 DEF ReadStorage, ReadFails, ReadGoto, ReaderStates, Object, Dependable
  <2>3. ReadEvent(w) => ~Present(reader[w].event)
    BY DEF ReadEvent, ReadGoto, ReaderStates, Dependable
  <2> QED
    BY <1>3, <2>1, <2>2, <2>3 DEF ReadStep
<1> QED
  BY <1>2, <1>4, <1>5

LEMMA NamingChange ==
    ASSUME TypeOK, [Next]_vars, Dependable, NEW w \in Workers, worker'[w].pc \in {"cache", "record"}
    PROVE  \/ Naming(w) /\ worker'[w].id = worker[w].id
           \/ /\ ~Naming(w) /\ worker'[w].id \in FreshIds /\ Unused(worker'[w].id)
              /\ thumbs' = thumbs /\ \A v \in Workers \ {w} : worker'[v] = worker[v]
<1> worker \in [Workers -> WorkerStates] /\ worker[w] \in WorkerStates
  BY DEF TypeOK, WorkerTypeOK
<1>1. CASE worker'[w] = worker[w]
  BY <1>1 DEF Naming
<1>2. CASE WorkerBytes(w)
  <2>1. PICK i \in FreshIds : StoreFresh(WorkerStore(w), i, worker[w].bytes) /\ Stored(w, i)
    BY <1>2 DEF WorkerBytes, WorkerGoto, Release, Rest, WorkerStates
  <2>2. worker'[w].id = i /\ Unused(i) /\ \A v \in Workers \ {w} : worker'[v] = worker[v]
    BY <2>1 DEF Stored, StoreFresh, WorkerStates
  <2> QED
    BY <1>2, <2>2 DEF WorkerBytes, Naming
<1>3. CASE WorkerWrite(w)
  <2>1. WorkerStore(w) \in Stores
    BY <1>3, WorkerLocals DEF WorkerWrite
  <2> QED
    BY <1>3, <2>1 DEF WorkerWrite, StoreWrite, Dependable
<1>4. CASE WorkerCache(w)
  BY <1>4 DEF WorkerCache, WorkerGoto, WorkerStates, Naming
<1>5. CASE WorkerStep(w) /\ ~WorkerBytes(w) /\ ~WorkerWrite(w) /\ ~WorkerCache(w)
  <2>1. ~WorkerReceive(w) /\ ~WorkerThumb(w)
    BY DEF WorkerReceive, WorkerThumb, Release, Rest, WorkerStates
  <2>2. ~WorkerLookup(w) /\ ~WorkerFetch(w) /\ ~WorkerRecord(w) /\ ~WorkerPublish(w)
    BY DEF WorkerLookup, WorkerFetch, WorkerRecord, WorkerPublish, WorkerGoto, Release, Rest,
           WorkerStates
  <2> QED
    BY <1>5, <2>1, <2>2 DEF WorkerStep
<1>6. CASE WorkerStart(w) \/ WorkerCrash(w) \/ ServerCrash
  BY <1>6 DEF WorkerStart, WorkerCrash, ServerCrash, Rest, Dependable
<1> QED
  BY <1>1, <1>2, <1>3, <1>4, <1>5, <1>6, WorkerChange

LEMMA NothingFailsStep ==
    ASSUME TypeOK, BytesAgree, Linked, [Next]_vars, NothingFails
    PROVE  NothingFails'
<1> DEFINE Clash(v, w) == /\ worker'[v].pc \in {"cache", "record"}
                          /\ worker'[w].pc \in {"cache", "record"}
                          /\ worker'[v].id = worker'[w].id
<1> SUFFICES ASSUME Dependable
             PROVE  /\ serverUp'
                    /\ \A w \in Workers : worker'[w].pc = "thumb" /\ reader'[w].pc = "failed" =>
                          events'[worker'[w].msg.event].status # "present"
                    /\ \A w \in Workers : worker'[w].pc \in {"cache", "record"} =>
                          worker'[w].id \notin ThumbIds'
                    /\ \A v, w \in Workers : Clash(v, w) => v = w
  BY DEF NothingFails, Dependable, Naming, Present
<1> worker \in [Workers -> WorkerStates]
  BY DEF TypeOK, WorkerTypeOK
<1>0. serverUp
  BY DEF NothingFails
<1>1. serverUp'
  BY <1>0, ServerStaysUp DEF Dependable
<1>2. ASSUME NEW w \in Workers, worker'[w].pc = "thumb", reader'[w].pc = "failed"
      PROVE  events'[worker'[w].msg.event].status # "present"
  <2>1. ~Present(worker[w].msg.event) /\ worker'[w].msg.event = worker[w].msg.event
        /\ worker[w].pc = "thumb"
    <3>1. CASE worker[w].pc = "thumb" /\ reader[w].pc = "failed"
      <4>1. worker'[w].msg = worker[w].msg
        BY <1>2, <3>1, MessageTaken DEF WorkerReceive
      <4> QED
        BY <3>1, <4>1 DEF NothingFails
    <3>2. CASE ~(worker[w].pc = "thumb" /\ reader[w].pc = "failed")
      BY <1>0, <1>2, <3>2, FetchFails
    <3> QED
      BY <3>1, <3>2
  <2>2. worker[w].msg.event \in Events /\ Born(worker[w].msg.event)
    BY <2>1, WorkerLocals DEF BytesAgree, NothingUnborn, NewMedia
  <2> QED
    BY <2>1, <2>2, DeletedStays
\* An identifier nobody has used is not in the table and with no worker.
<1>3. ASSUME NEW i \in FreshIds, Unused(i)
      PROVE  i \notin ThumbIds /\ \A w \in Workers : Naming(w) => worker[w].id # i
  <2>1. ASSUME NEW t \in thumbs PROVE t.id # i
    <3>1. StoreOf(t.event) \in Stores
      BY DEF TypeOK, MediaTypeOK, ThumbRows, EventRows, StoreOf
    <3> QED
      BY <1>3, <3>1 DEF Linked, RowsHaveObjects, Object, Unused
  <2>2. ASSUME NEW w \in Workers, Naming(w) PROVE worker[w].id # i
    <3>1. WorkerStore(w) \in Stores
      BY <2>2, WorkerLocals DEF Naming
    <3>2. objects[WorkerStore(w)][worker[w].id] # Nothing
      BY <2>2 DEF Linked, StoredBeforeRecorded, Object, WorkerStore, Naming
    <3> QED
      BY <1>3, <3>1, <3>2 DEF Unused
  <2> QED
    BY <2>1, <2>2 DEF ThumbIds
<1>4. ASSUME NEW w \in Workers, worker'[w].pc \in {"cache", "record"}
      PROVE  worker'[w].id \notin ThumbIds'
  <2>1. worker'[w].id \notin ThumbIds
    BY <1>3, <1>4, NamingChange DEF NothingFails
  <2>2. ASSUME NEW t \in thumbs', t.id = worker'[w].id PROVE FALSE
    <3>1. t \notin thumbs
      BY <2>1, <2>2 DEF ThumbIds
    <3> PICK v \in Workers :
          /\ WorkerRecord(v)
          /\ t = [id |-> worker[v].id, event |-> worker[v].msg.event, file |-> worker[v].msg.file]
      BY <3>1, ThumbAdded
    <3>2. t.id = worker[v].id /\ Naming(v)
      BY DEF WorkerRecord, Naming
    <3>3. Naming(w) /\ worker'[w].id = worker[w].id
      BY <1>4, <2>2, <3>1, NamingChange
    <3>4. v = w
      BY <2>2, <3>2, <3>3 DEF NothingFails
    <3>5. thumbs' # thumbs
      BY <3>1, <2>2
    <3>6. worker'[v].pc = "publish"
      BY <3>5 DEF WorkerRecord, WorkerGoto, WorkerStates
    <3> QED
      BY <1>4, <3>4, <3>6
  <2> QED
    BY <2>2 DEF ThumbIds
<1>5. ASSUME NEW v \in Workers, NEW w \in Workers, worker'[v].pc \in {"cache", "record"},
             worker'[w].pc \in {"cache", "record"}, worker'[v].id = worker'[w].id, v # w
      PROVE  FALSE
  <2>1. CASE Naming(v) /\ Naming(w)
    BY <1>5, <2>1, NamingChange DEF NothingFails
  <2>2. ASSUME NEW x \in {v, w}, ~Naming(x) PROVE FALSE
    <3> PICK y \in {v, w} : y # x
      BY <1>5
    <3>1. worker'[x].id \in FreshIds /\ Unused(worker'[x].id) /\ worker'[y] = worker[y]
      BY <1>5, <2>2, NamingChange
    <3>2. Naming(y)
      BY <1>5, <3>1 DEF Naming
    <3> QED
      BY <1>3, <1>5, <3>1, <3>2
  <2> QED
    BY <2>1, <2>2
<1>6. \A v, w \in Workers : Clash(v, w) => v = w
  BY <1>5
<1> QED
  BY <1>1, <1>2, <1>4, <1>6

-----------------------------------------------------------------------------
(* The stages, told by exclusive signs *)

Noticed(u) == \E t \in ThumbnailsOf(u) : InNotice(t.id)
Handled(u) == \E w \in Workers : HandledBy(w, u)

StageTells ==
    \A u \in Uploads :
        /\ Stage(u) = "apart" <=> ~Recorded(u)
        /\ Stage(u) = "recorded" <=> Pending(u)
        /\ Stage(u) = "queued" <=> Queued(u)
        /\ Stage(u) = "handled" <=> Handled(u)
        /\ Stage(u) = "thumbnailed" <=> Noticed(u)
        /\ Stage(u) = "announced" <=> Advertised(u)
        /\ Stage(u) \in {"apart", "recorded", "queued", "handled", "thumbnailed", "announced", "lost"}

LEMMA StageTellsAll ==
    ASSUME TypeOK, Linked, Travelling
    PROVE  StageTells
<1> SUFFICES ASSUME NEW u \in Uploads
             PROVE  /\ Stage(u) = "apart" <=> ~Recorded(u)
                    /\ Stage(u) = "recorded" <=> Pending(u)
                    /\ Stage(u) = "queued" <=> Queued(u)
                    /\ Stage(u) = "handled" <=> Handled(u)
                    /\ Stage(u) = "thumbnailed" <=> Noticed(u)
                    /\ Stage(u) = "announced" <=> Advertised(u)
                    /\ Stage(u) \in {"apart", "recorded", "queued", "handled", "thumbnailed",
                                     "announced", "lost"}
  BY DEF StageTells
<1>0. /\ (\A f \in files : f.by # u) <=> ~Recorded(u)
      /\ (\E t \in ThumbnailsOf(u) : t.id \in announced) <=> Advertised(u)
      /\ (\E t \in ThumbnailsOf(u) : InNotice(t.id)) <=> Noticed(u)
      /\ (\E w \in Workers : HandledBy(w, u)) <=> Handled(u)
      /\ (up[u].pc \in {"cache", "publish"}) <=> Pending(u)
  BY DEF ThumbnailsOf, Advertised, Noticed, Handled, Pending, Recorded
<1>1. CASE ~Recorded(u)
  <2>1. ~Pending(u)
    BY <1>1 DEF Linked, PendingAreRecorded, Recorded
  <2>2. ~Queued(u) /\ ~Handled(u) /\ ~Noticed(u) /\ ~Advertised(u)
    BY <1>1 DEF Queued, Handled, HandledBy, MsgFiles, Noticed, ThumbnailsOf, Advertised, Recorded
  <2>3. Stage(u) = "apart"
    BY <1>0, <1>1, <2>1, <2>2 DEF Stage
  <2> QED
    BY <1>1, <2>1, <2>2, <2>3
<1>2. CASE Recorded(u)
  <2> PICK f \in files : f.by = u
    BY <1>2 DEF Recorded
  <2>0. \A g \in files : g.by = u => g = f
    BY DEF Travelling, RecordedOnce
  <2>1. Pending(u) => up[u].id = f.id
    BY <2>0 DEF Linked, PendingAreRecorded
  <2>2. Queued(u) => \E w \in Workers, k \in Nat : k \in 1..Len(inbox[w]) /\ inbox[w][k].file = f.id
    BY <2>0 DEF Queued
  <2>3. Handled(u) => \E w \in Workers : Handling(w) /\ worker[w].msg.file = f.id
    BY <2>0 DEF Handled, HandledBy, MsgFiles, Handling
  <2>4. Noticed(u) => \E t \in thumbs : t.file = f.id /\ InNotice(t.id)
    BY <2>0 DEF Noticed, ThumbnailsOf
  <2>5. Advertised(u) => \E t \in thumbs : t.file = f.id /\ t.id \in announced
    BY <2>0 DEF Advertised
  <2>6. \A i \in announced : ~InNotice(i)
    BY DEF Travelling, NoticedOnce, InNotice, Publishing
  <2>7. ~(Noticed(u) /\ Advertised(u))
    BY <2>4, <2>5, <2>6 DEF Linked, OnePlace, OneThumbnailPerFile
  <2>8. Handled(u) => ~Noticed(u) /\ ~Advertised(u)
    BY <2>3, <2>4, <2>5 DEF Linked, OnePlace, HandledAlone
  <2>9. Queued(u) => ~Noticed(u) /\ ~Advertised(u) /\ ~Handled(u)
    BY <2>2, <2>3, <2>4, <2>5 DEF Linked, OnePlace, QueuedAlone
  <2>10. Pending(u) => ~Noticed(u) /\ ~Advertised(u) /\ ~Handled(u) /\ ~Queued(u)
    BY <2>1, <2>2, <2>3, <2>4, <2>5 DEF Linked, OnePlace, PendingAlone
  <2> HIDE DEF Noticed, Handled
  <2>11. CASE Advertised(u)
    BY <1>2, <2>7, <2>8, <2>9, <2>10, <1>0, <2>11 DEF Stage
  <2>12. CASE Noticed(u)
    BY <1>2, <2>7, <2>8, <2>9, <2>10, <1>0, <2>12 DEF Stage
  <2>13. CASE Handled(u)
    BY <1>2, <2>7, <2>8, <2>9, <2>10, <1>0, <2>13 DEF Stage
  <2>14. CASE Queued(u)
    BY <1>2, <2>7, <2>8, <2>9, <2>10, <1>0, <2>14 DEF Stage
  <2>15. CASE Pending(u)
    BY <1>2, <2>7, <2>8, <2>9, <2>10, <1>0, <2>15 DEF Stage
  <2>16. CASE ~Advertised(u) /\ ~Noticed(u) /\ ~Handled(u) /\ ~Queued(u) /\ ~Pending(u)
    BY <1>2, <1>0, <2>16 DEF Stage
  <2> QED
    BY <2>11, <2>12, <2>13, <2>14, <2>15, <2>16
<1> QED
  BY <1>1, <1>2

-----------------------------------------------------------------------------
(* What a step does to the stages *)

LossStages == {"recorded", "queued", "handled", "thumbnailed"}

\* No sign of a photo is new: its stage is the same, or it is lost.
LEMMA StageFades ==
    ASSUME StageTells, StageTells', NEW u \in Uploads,
           Recorded(u)' <=> Recorded(u), Advertised(u)' <=> Advertised(u),
           Noticed(u)' => Noticed(u), Handled(u)' => Handled(u), Queued(u)' => Queued(u),
           Pending(u)' => Pending(u)
    PROVE  Stage(u)' = Stage(u) \/ (Stage(u)' = "lost" /\ Stage(u) \in LossStages)
<1> DEFINE s == Stage(u)
           t == Stage(u)'
           Tells(x, r, a, n, h, q, p) ==
              /\ (x = "apart" <=> ~r) /\ (x = "recorded" <=> p) /\ (x = "queued" <=> q)
              /\ (x = "handled" <=> h) /\ (x = "thumbnailed" <=> n) /\ (x = "announced" <=> a)
              /\ x \in {"apart", "recorded", "queued", "handled", "thumbnailed", "announced", "lost"}
<1>1. Tells(s, Recorded(u), Advertised(u), Noticed(u), Handled(u), Queued(u), Pending(u))
  BY DEF StageTells
<1>2. Tells(t, Recorded(u)', Advertised(u)', Noticed(u)', Handled(u)', Queued(u)', Pending(u)')
  BY DEF StageTells
<1> HIDE DEF s, t
<1>3. t = s \/ (t = "lost" /\ s \in LossStages)
  BY <1>1, <1>2 DEF LossStages
<1> QED
  BY <1>3 DEF s, t

LEMMA StagesFade ==
    ASSUME StageTells, StageTells', UNCHANGED <<files, thumbs, announced>>,
           \A u \in Uploads : up'[u].pc \in {"cache", "publish"} => Pending(u),
           \A w \in Workers : worker'[w].pc \notin {"down", "idle", "publish"} =>
              Handling(w) /\ worker'[w].msg = worker[w].msg,
           \A w \in Workers : \A k \in 1..Len(inbox'[w]) :
              \E l \in 1..Len(inbox[w]) : inbox'[w][k] = inbox[w][l],
           \A t \in thumbs : InNotice(t.id)' => InNotice(t.id),
           NEW u \in Uploads
    PROVE  Stage(u)' = Stage(u) \/ (Stage(u)' = "lost" /\ Stage(u) \in LossStages)
<1>1. Recorded(u)' <=> Recorded(u)
  BY DEF Recorded
<1>2. Advertised(u)' <=> Advertised(u)
  BY DEF Advertised
<1>3. Noticed(u)' => Noticed(u)
  BY DEF Noticed, ThumbnailsOf
<1>4. Handled(u)' => Handled(u)
  BY DEF Handled, HandledBy, MsgFiles, Handling
<1>5. Queued(u)' => Queued(u)
  BY DEF Queued
<1>6. Pending(u)' => Pending(u)
  BY DEF Pending
<1> QED
  BY <1>1, <1>2, <1>3, <1>4, <1>5, <1>6, StageFades

\* Nobody that has a photo or a thumbnail gets another or lets go of it.
LEMMA StagesStay ==
    ASSUME UNCHANGED <<files, thumbs, announced, notices, inbox>>,
           \A u \in Uploads : up'[u].pc \in {"cache", "publish"} <=> Pending(u),
           \A w \in Workers :
              /\ worker'[w].pc \notin {"down", "idle", "publish"} <=> Handling(w)
              /\ Handling(w) => worker'[w].msg = worker[w].msg
              /\ worker'[w].pc = "publish" <=> Publishing(w)
              /\ Publishing(w) => worker'[w].id = worker[w].id,
           NEW u \in Uploads
    PROVE  Stage(u)' = Stage(u)
<1>1. (\A f \in files : f.by # u)' <=> (\A f \in files : f.by # u)
  OBVIOUS
<1>2. ThumbnailsOf(u)' = ThumbnailsOf(u)
  BY DEF ThumbnailsOf
<1>3. \A i : InNotice(i)' <=> InNotice(i)
  BY DEF InNotice, Publishing
<1>4. \A w \in Workers : HandledBy(w, u)' <=> HandledBy(w, u)
  BY DEF HandledBy, MsgFiles, Handling
<1>5. Queued(u)' <=> Queued(u)
  BY DEF Queued
<1>6. (up[u].pc \in {"cache", "publish"})' <=> up[u].pc \in {"cache", "publish"}
  BY DEF Pending
<1> QED
  BY <1>1, <1>2, <1>3, <1>4, <1>5, <1>6 DEF Stage

\* The stage of u is b after a, and no other photo's has changed.
Onward(u, a, b) ==
    /\ Stage(u) = a /\ Stage(u)' = b
    /\ \A v \in Uploads \ {u} : Stage(v)' = Stage(v)

\* Upload u records its file.
LEMMA RecordingAdvances ==
    ASSUME TypeOK, StageTells, StageTells', RecordedOnce,
           NEW u \in Uploads, UploadRecord(u), files' # files, UNCHANGED workerVars
    PROVE  Onward(u, "apart", "recorded")
<1> up \in [Uploads -> UploadStates]
  BY DEF TypeOK, UploadTypeOK
<1> DEFINE f == [id |-> up[u].id, event |-> up[u].event, name |-> up[u].name,
                 video |-> up[u].media = "video", by |-> u]
<1>1. /\ files' = files \cup {f} /\ up[u].pc = "record"
      /\ Goto(u, IF UploadCaches(u) THEN "cache" ELSE "publish")
      /\ UNCHANGED <<thumbs, announced, inbox, notices, worker>>
  BY DEF UploadRecord, busVars, workerVars
<1>2. f.by = u
  OBVIOUS
<1> HIDE DEF f
<1>3. up'[u].pc \in {"cache", "publish"} /\ \A v \in Uploads \ {u} : up'[v] = up[v]
  BY <1>1 DEF Goto, UploadStates
<1>4. ~Recorded(u) /\ Pending(u)'
  BY <1>1, <1>3 DEF RecordedOnce, Recorded, Pending
<1>5. Stage(u) = "apart" /\ Stage(u)' = "recorded"
  BY <1>4 DEF StageTells
<1>6. ASSUME NEW v \in Uploads \ {u} PROVE Stage(v)' = Stage(v)
  <2>1. (\A g \in files : g.by # v)' <=> (\A g \in files : g.by # v)
    BY <1>1, <1>2
  <2>2. ThumbnailsOf(v)' = ThumbnailsOf(v)
    BY <1>1, <1>2 DEF ThumbnailsOf
  <2>3. \A i : InNotice(i)' <=> InNotice(i)
    BY <1>1 DEF InNotice
  <2>4. \A w \in Workers : HandledBy(w, v)' <=> HandledBy(w, v)
    BY <1>1, <1>2 DEF HandledBy, MsgFiles
  <2>5. Queued(v)' <=> Queued(v)
    BY <1>1, <1>2 DEF Queued
  <2>6. up'[v] = up[v]
    BY <1>3
  <2> QED
    BY <1>1, <2>1, <2>2, <2>3, <2>4, <2>5, <2>6 DEF Stage
<1> QED
  BY <1>5, <1>6 DEF Onward

\* Upload u announces its file: to a worker, or to nobody.
LEMMA QueueingAdvances ==
    ASSUME TypeOK, StageTells, StageTells', Linked, RecordedOnce,
           NEW u \in Uploads, UploadPublish(u), inbox' # inbox, UNCHANGED workerVars
    PROVE  Onward(u, "recorded", "queued")
<1> up \in [Uploads -> UploadStates] /\ inbox \in [Workers -> Seq(NewMedia)]
  BY DEF TypeOK, UploadTypeOK, BusTypeOK
<1> DEFINE m == [event |-> up[u].event, file |-> up[u].id, video |-> up[u].media = "video"]
<1>1. m \in NewMedia /\ m.file = up[u].id
  BY DEF UploadPublish, TypeOK, UploadTypeOK, UploadStates, NewMedia
<1>2. /\ PublishNewPhoto(m) /\ Pending(u) /\ UNCHANGED <<files, thumbs, notices, worker, announced>>
      /\ up'[u].pc = "stored" /\ \A v \in Uploads \ {u} : up'[v] = up[v]
  BY DEF UploadPublish, mediaVars, workerVars, PublishNewPhoto, Pending, Goto, UploadStates
<1> HIDE DEF m
<1>3. PICK w \in Workers : inbox' = [inbox EXCEPT ![w] = Append(inbox[w], m)]
  BY <1>2 DEF PublishNewPhoto, DeliverToGroup, TypeOK, BusTypeOK
<1>4. PICK f \in files : f.by = u /\ f.id = m.file
  BY <1>1, <1>2 DEF Linked, PendingAreRecorded
<1>5. \A g \in files : g.id = m.file => g.by = u
  BY <1>4 DEF Linked, FilesAreUnique
<1>6. inbox'[w] = Append(inbox[w], m) /\ \A v \in Workers \ {w} : inbox'[v] = inbox[v]
  BY <1>3
<1>7. Len(inbox'[w]) = Len(inbox[w]) + 1 /\ inbox'[w][Len(inbox[w]) + 1] = m
      /\ \A k \in 1..Len(inbox[w]) : inbox'[w][k] = inbox[w][k]
      /\ Len(inbox[w]) \in Nat
  BY <1>1, <1>6
<1>8. Queued(u)'
  <2>1. Len(inbox'[w]) \in 1..Len(inbox'[w]) /\ inbox'[w][Len(inbox'[w])] = m
    BY <1>7
  <2> QED
    BY <1>2, <1>4, <2>1 DEF Queued
<1>9. Stage(u) = "recorded" /\ Stage(u)' = "queued"
  BY <1>2, <1>8 DEF StageTells
<1>10. ASSUME NEW v \in Uploads \ {u} PROVE Stage(v)' = Stage(v)
  <2>1. Queued(v)' <=> Queued(v)
    <3>1. ASSUME NEW x \in Workers, NEW k \in 1..Len(inbox'[x]), NEW g \in files,
                 g.id = inbox'[x][k].file, g.by = v
          PROVE  k \in 1..Len(inbox[x]) /\ inbox[x][k] = inbox'[x][k]
      <4>1. inbox'[x][k] # m
        BY <1>5, <3>1
      <4>2. CASE x = w
        <5>1. k # Len(inbox[w]) + 1
          BY <1>7, <4>1, <4>2
        <5> QED
          BY <1>7, <4>2, <5>1
      <4> QED
        BY <1>6, <4>2
    <3>2. ASSUME NEW x \in Workers, NEW k \in 1..Len(inbox[x])
          PROVE  k \in 1..Len(inbox'[x]) /\ inbox[x][k] = inbox'[x][k]
      <4>1. CASE x = w
        BY <1>7, <4>1
      <4> QED
        BY <1>6, <4>1
    <3>3. Queued(v)' => Queued(v)
      <4> SUFFICES ASSUME Queued(v)' PROVE Queued(v)
        OBVIOUS
      <4> PICK x \in Workers : \E k \in 1..Len(inbox'[x]), g \in files :
            g.id = inbox'[x][k].file /\ g.by = v
        BY <1>2 DEF Queued
      <4> PICK k \in 1..Len(inbox'[x]), g \in files : g.id = inbox'[x][k].file /\ g.by = v
        OBVIOUS
      <4>1. k \in 1..Len(inbox[x]) /\ inbox[x][k] = inbox'[x][k]
        BY <3>1
      <4> QED
        BY <4>1 DEF Queued
    <3>4. Queued(v) => Queued(v)'
      BY <1>2, <3>2 DEF Queued
    <3> QED
      BY <3>3, <3>4
  <2>2. ThumbnailsOf(v)' = ThumbnailsOf(v) /\ \A i : InNotice(i)' <=> InNotice(i)
    BY <1>2 DEF ThumbnailsOf, InNotice
  <2>3. \A x \in Workers : HandledBy(x, v)' <=> HandledBy(x, v)
    BY <1>2 DEF HandledBy, MsgFiles
  <2>4. up'[v] = up[v]
    BY <1>2
  <2> QED
    BY <1>2, <2>1, <2>2, <2>3, <2>4 DEF Stage
<1> QED
  BY <1>9, <1>10 DEF Onward

LEMMA UnqueuedIsLost ==
    ASSUME TypeOK, StageTells, StageTells', NEW u \in Uploads, UploadPublish(u),
           inbox' = inbox, UNCHANGED workerVars
    PROVE  \A v \in Uploads :
              Stage(v)' = Stage(v) \/ (Stage(v)' = "lost" /\ Stage(v) = "recorded")
<1> up \in [Uploads -> UploadStates] /\ inbox \in [Workers -> Seq(NewMedia)]
  BY DEF TypeOK, UploadTypeOK, BusTypeOK
<1>1. /\ Pending(u) /\ UNCHANGED <<files, thumbs, notices, worker, announced, inbox>>
      /\ up'[u].pc = "stored" /\ \A v \in Uploads \ {u} : up'[v] = up[v]
  BY DEF UploadPublish, mediaVars, workerVars, PublishNewPhoto, Pending, Goto, UploadStates
<1>2. ASSUME NEW v \in Uploads \ {u} PROVE Stage(v)' = Stage(v)
  <2>1. Queued(v)' <=> Queued(v)
    BY <1>1 DEF Queued
  <2>2. ThumbnailsOf(v)' = ThumbnailsOf(v) /\ \A i : InNotice(i)' <=> InNotice(i)
    BY <1>1 DEF ThumbnailsOf, InNotice
  <2>3. \A x \in Workers : HandledBy(x, v)' <=> HandledBy(x, v)
    BY <1>1 DEF HandledBy, MsgFiles
  <2>4. up'[v] = up[v]
    BY <1>1
  <2> QED
    BY <1>1, <2>1, <2>2, <2>3, <2>4 DEF Stage
<1>3. Stage(u) = "recorded"
  BY <1>1 DEF StageTells
<1>4. Stage(u)' = Stage(u) \/ Stage(u)' = "lost"
  <2>1. \A v \in Uploads : up'[v].pc \in {"cache", "publish"} => Pending(v)
    BY <1>1 DEF Pending
  <2> QED
    BY <1>1, <2>1, StagesFade DEF Handling, InNotice
<1> QED
  BY <1>2, <1>3, <1>4

\* Worker w takes up the first message of its queue.
LEMMA ReceivingAdvances ==
    ASSUME TypeOK, StageTells, StageTells', Linked, NEW w \in Workers, WorkerReceive(w),
           UNCHANGED uploadVars
    PROVE  \E u \in Uploads : Onward(u, "queued", "handled")
<1> worker \in [Workers -> WorkerStates] /\ inbox \in [Workers -> Seq(NewMedia)]
  BY DEF TypeOK, WorkerTypeOK, BusTypeOK
<1>1. /\ inbox[w] # <<>> /\ inbox' = [inbox EXCEPT ![w] = Tail(inbox[w])]
      /\ worker' = [worker EXCEPT ![w] = [Rest("lookup") EXCEPT !.msg = Head(inbox[w])]]
      /\ worker[w].pc = "idle"
      /\ UNCHANGED <<files, thumbs, notices, announced, up>>
  BY DEF WorkerReceive, mediaVars, uploadVars
<1> DEFINE m == inbox[w][1]
<1>2. /\ Len(inbox[w]) \in Nat /\ 1 \in 1..Len(inbox[w]) /\ Head(inbox[w]) = m
      /\ \A k \in 1..Len(inbox'[w]) : k + 1 \in 1..Len(inbox[w]) /\ inbox'[w][k] = inbox[w][k + 1]
      /\ \A k \in 1..Len(inbox[w]) : k = 1 \/ (k - 1 \in 1..Len(inbox'[w]) /\ inbox'[w][k - 1] = inbox[w][k])
  BY <1>1
<1> HIDE DEF m
<1>3. /\ worker'[w].pc = "lookup" /\ worker'[w].msg = m
      /\ \A v \in Workers \ {w} : inbox'[v] = inbox[v] /\ worker'[v] = worker[v]
  BY <1>1, <1>2 DEF Rest
<1>4. PICK f \in files : f.id = m.file
  BY <1>2 DEF Linked, MessagesAreAbout, IsAbout, m
<1> DEFINE u == f.by
<1>5. u \in Uploads /\ \A g \in files : g.id = m.file => g.by = u
  BY <1>4 DEF Linked, FilesAreUnique, TypeOK, MediaTypeOK, FileRows
<1> HIDE DEF u
<1>6. Queued(u)
  BY <1>2, <1>4 DEF Queued, m, u
<1>7. Handled(u)'
  BY <1>1, <1>3, <1>4 DEF Handled, HandledBy, MsgFiles, u
<1>8. Stage(u) = "queued" /\ Stage(u)' = "handled"
  BY <1>5, <1>6, <1>7 DEF StageTells
<1>9. ASSUME NEW v \in Uploads \ {u} PROVE Stage(v)' = Stage(v)
  <2>1. Queued(v)' => Queued(v)
    <3> SUFFICES ASSUME NEW x \in Workers, NEW k \in 1..Len(inbox'[x]), NEW g \in files,
                        g.id = inbox'[x][k].file, g.by = v
                 PROVE  Queued(v)
      BY <1>1 DEF Queued
    <3>1. \E l \in 1..Len(inbox[x]) : inbox'[x][k] = inbox[x][l]
      <4>1. CASE x = w
        BY <1>2, <4>1
      <4> QED
        BY <1>3, <4>1
    <3> QED
      BY <3>1 DEF Queued
  <2>2. Queued(v) => Queued(v)'
    <3> SUFFICES ASSUME NEW x \in Workers, NEW k \in 1..Len(inbox[x]), NEW g \in files,
                        g.id = inbox[x][k].file, g.by = v
                 PROVE  Queued(v)'
      BY DEF Queued
    <3>1. inbox[x][k] # m
      BY <1>5
    <3>2. \E l \in 1..Len(inbox'[x]) : inbox'[x][l] = inbox[x][k]
      <4>1. CASE x = w
        BY <1>2, <3>1, <4>1 DEF m
      <4> QED
        BY <1>3, <4>1
    <3> QED
      BY <1>1, <3>2 DEF Queued
  <2>3. ThumbnailsOf(v)' = ThumbnailsOf(v)
    BY <1>1 DEF ThumbnailsOf
  <2>4. \A i : InNotice(i)' <=> InNotice(i)
    BY <1>1, <1>3 DEF InNotice
  <2>5. \A x \in Workers : HandledBy(x, v)' <=> HandledBy(x, v)
    BY <1>1, <1>3, <1>5 DEF HandledBy, MsgFiles
  <2> QED
    BY <1>1, <2>1, <2>2, <2>3, <2>4, <2>5 DEF Stage
<1> QED
  BY <1>5, <1>8, <1>9 DEF Onward

\* Worker w records its thumbnail.
LEMMA ThumbnailingAdvances ==
    ASSUME TypeOK, StageTells, StageTells', Linked, NEW w \in Workers, WorkerRecord(w),
           thumbs' # thumbs, UNCHANGED <<uploadVars, announced>>
    PROVE  \E u \in Uploads : Onward(u, "handled", "thumbnailed")
<1> worker \in [Workers -> WorkerStates]
  BY DEF TypeOK, WorkerTypeOK
<1> PICK t : t = [id |-> worker[w].id, event |-> worker[w].msg.event,
                  file |-> worker[w].msg.file]
  OBVIOUS
<1>1. /\ worker[w].pc = "record" /\ t.id \notin ThumbIds /\ thumbs' = thumbs \cup {t}
      /\ WorkerGoto(w, "publish") /\ UNCHANGED <<files, notices, inbox, announced, up>>
  BY DEF WorkerRecord, busVars, uploadVars
<1>2. t.id = worker[w].id /\ t.file = worker[w].msg.file
  OBVIOUS
<1>3. /\ worker'[w].pc = "publish" /\ worker'[w].id = t.id
      /\ \A v \in Workers \ {w} : worker'[v] = worker[v]
  BY <1>1, <1>2 DEF WorkerGoto, WorkerStates
<1>4. PICK f \in files : f.id = t.file
  BY <1>1, <1>2 DEF Linked, MessagesAreAbout, IsAbout
<1> DEFINE u == f.by
<1>5. u \in Uploads /\ \A g \in files : g.id = t.file => g.by = u
  BY <1>4 DEF Linked, FilesAreUnique, TypeOK, MediaTypeOK, FileRows
<1>6. Handled(u)
  BY <1>1, <1>2, <1>4 DEF Handled, HandledBy, MsgFiles
<1>7. Noticed(u)'
  <2>1. t \in ThumbnailsOf(u)'
    BY <1>1, <1>4 DEF ThumbnailsOf
  <2>2. InNotice(t.id)'
    BY <1>3 DEF InNotice
  <2> QED
    BY <2>1, <2>2 DEF Noticed
<1> HIDE DEF u
<1>8. Stage(u) = "handled" /\ Stage(u)' = "thumbnailed"
  BY <1>5, <1>6, <1>7 DEF StageTells
<1>9. ASSUME NEW v \in Uploads \ {u} PROVE Stage(v)' = Stage(v)
  <2>1. Queued(v)' <=> Queued(v)
    BY <1>1 DEF Queued
  <2>2. ThumbnailsOf(v)' = ThumbnailsOf(v)
    BY <1>1, <1>5 DEF ThumbnailsOf
  <2>3. \A s \in ThumbnailsOf(v) : InNotice(s.id)' <=> InNotice(s.id)
    <3>1. \A s \in ThumbnailsOf(v) : s.id # t.id
      BY <1>1 DEF ThumbnailsOf, ThumbIds
    <3> QED
      BY <1>1, <1>2, <1>3, <3>1 DEF InNotice
  <2>4. \A x \in Workers : HandledBy(x, v)' <=> HandledBy(x, v)
    <3>1. ~HandledBy(w, v)
      BY <1>2, <1>5 DEF HandledBy, MsgFiles
    <3>2. ~HandledBy(w, v)'
      BY <1>3 DEF HandledBy
    <3> QED
      BY <1>1, <1>3, <3>1, <3>2 DEF HandledBy, MsgFiles
  <2> QED
    BY <1>1, <2>1, <2>2, <2>3, <2>4 DEF Stage
<1> QED
  BY <1>5, <1>8, <1>9 DEF Onward

\* The server passes the first thumbnail that was published to the galleries.
LEMMA AnnouncingAdvances ==
    ASSUME TypeOK, StageTells, StageTells', Linked, Keeping, Announce, announced' # announced,
           UNCHANGED uploadVars
    PROVE  \E u \in Uploads : Onward(u, "thumbnailed", "announced")
<1> notices \in Seq(Ids)
  BY DEF TypeOK, BusTypeOK
<1> DEFINE i == notices[1]
<1>1. /\ notices # <<>> /\ notices' = Tail(notices) /\ announced' = announced \cup {i} /\ i \in ThumbIds
      /\ UNCHANGED <<files, thumbs, inbox, worker, up>>
  BY DEF Announce, mediaVars, uploadVars
<1>2. /\ Len(notices) \in Nat /\ 1 \in 1..Len(notices) /\ notices[1] = i
      /\ \A k \in 1..Len(notices') : k + 1 \in 1..Len(notices) /\ notices'[k] = notices[k + 1]
      /\ \A k \in 1..Len(notices) : k = 1 \/ (k - 1 \in 1..Len(notices') /\ notices'[k - 1] = notices[k])
  BY <1>1
<1> HIDE DEF i
<1>3. PICK t \in thumbs : t.id = i
  BY <1>1 DEF ThumbIds
<1>4. PICK f \in files : f.id = t.file
  BY DEF Linked, ThumbnailsDepictTheirFiles
<1> DEFINE u == f.by
<1>5. u \in Uploads /\ \A g \in files : g.id = t.file => g.by = u
  BY <1>4 DEF Linked, FilesAreUnique, TypeOK, MediaTypeOK, FileRows
<1>6. Noticed(u)
  BY <1>2, <1>3, <1>4 DEF Noticed, ThumbnailsOf, InNotice
<1>7. Advertised(u)'
  BY <1>1, <1>3, <1>4 DEF Advertised
<1> HIDE DEF u
<1>8. Stage(u) = "thumbnailed" /\ Stage(u)' = "announced"
  BY <1>5, <1>6, <1>7 DEF StageTells
<1>9. ASSUME NEW v \in Uploads \ {u} PROVE Stage(v)' = Stage(v)
  <2>1. Queued(v)' <=> Queued(v)
    BY <1>1 DEF Queued
  <2>2. ThumbnailsOf(v)' = ThumbnailsOf(v)
    BY <1>1 DEF ThumbnailsOf
  <2>3. ASSUME NEW s \in ThumbnailsOf(v) PROVE s.id # i
    <3>1. s # t
      BY <1>5, <2>3 DEF ThumbnailsOf
    <3> QED
      BY <1>3, <3>1 DEF Keeping, AnnouncedAreRecorded, ThumbnailsOf
  <2>4. \A s \in ThumbnailsOf(v) : InNotice(s.id)' <=> InNotice(s.id)
    <3>1. \A j : j # i => ((\E k \in 1..Len(notices') : notices'[k] = j)
                              <=> (\E k \in 1..Len(notices) : notices[k] = j))
      BY <1>2
    <3> QED
      BY <1>1, <2>3, <3>1 DEF InNotice
  <2>5. \A s \in ThumbnailsOf(v) : s.id \in announced' <=> s.id \in announced
    BY <1>1, <2>3
  <2>6. \A x \in Workers : HandledBy(x, v)' <=> HandledBy(x, v)
    BY <1>1 DEF HandledBy, MsgFiles
  <2> QED
    BY <1>1, <2>1, <2>2, <2>4, <2>5, <2>6 DEF Stage
<1> QED
  BY <1>5, <1>8, <1>9 DEF Onward

\* A worker that goes on with a photo keeps it.
LEMMA WorkingStays ==
    ASSUME TypeOK, NEW w \in Workers, ~Release(w), UNCHANGED uploadVars,
           \/ WorkerLookup(w) \/ WorkerFetch(w) \/ WorkerThumb(w)
           \/ WorkerBytes(w) \/ WorkerWrite(w) \/ WorkerCache(w)
    PROVE  \A u \in Uploads : Stage(u)' = Stage(u)
<1> worker \in [Workers -> WorkerStates] /\ worker[w] \in WorkerStates
  BY DEF TypeOK, WorkerTypeOK
<1>1. UNCHANGED <<files, thumbs, notices, inbox, announced, up>>
  BY DEF WorkerLookup, WorkerFetch, ReadLookup, WorkerThumb, WorkerBytes, WorkerWrite, WorkerCache,
         mediaVars, busVars, uploadVars
<1>2. \A v \in Workers \ {w} : worker'[v] = worker[v]
  BY DEF WorkerLookup, WorkerFetch, WorkerThumb, WorkerBytes, WorkerWrite, WorkerCache, WorkerGoto,
         Stored
<1>3. worker[w].pc \notin {"down", "idle", "publish"} /\ worker'[w].msg = worker[w].msg
  BY DEF WorkerLookup, WorkerFetch, WorkerThumb, WorkerBytes, WorkerWrite, WorkerCache, WorkerGoto,
         Stored, WorkerStates
<1>4. worker'[w].pc \notin {"down", "idle", "publish"}
  BY DEF WorkerLookup, WorkerFetch, WorkerThumb, WorkerBytes, WorkerWrite, WorkerCache, WorkerGoto,
         Stored, WorkerStates
<1>5. \A v \in Workers :
        /\ worker'[v].pc \notin {"down", "idle", "publish"} <=> Handling(v)
        /\ Handling(v) => worker'[v].msg = worker[v].msg
        /\ worker'[v].pc = "publish" <=> Publishing(v)
        /\ Publishing(v) => worker'[v].id = worker[v].id
  BY <1>2, <1>3, <1>4 DEF Handling, Publishing
<1> QED
  BY <1>1, <1>5, StagesStay DEF Pending

\* One that gives up loses it, ...
LEMMA ReleasingLoses ==
    ASSUME TypeOK, StageTells, StageTells', NEW w \in Workers, Handling(w), Release(w),
           UNCHANGED <<files, thumbs, notices, inbox, announced, up>>
    PROVE  \A u \in Uploads :
              \/ Stage(u)' = Stage(u)
              \/ Stage(u)' = "lost" /\ Stage(u) = "handled" /\ HandledBy(w, u)
<1> worker \in [Workers -> WorkerStates]
  BY DEF TypeOK, WorkerTypeOK
<1>1. worker'[w].pc = "idle" /\ \A v \in Workers \ {w} : worker'[v] = worker[v]
  BY DEF Release, Rest
<1>2. \A i : InNotice(i)' <=> InNotice(i)
  BY <1>1 DEF InNotice, Handling
<1>3. ASSUME NEW u \in Uploads, HandledBy(w, u)
      PROVE  Stage(u) = "handled" /\ (Stage(u)' = Stage(u) \/ Stage(u)' = "lost")
  <2>1. Stage(u) = "handled"
    BY <1>3 DEF StageTells, Handled
  <2>2. \A v \in Workers : worker'[v].pc \notin {"down", "idle", "publish"} =>
              Handling(v) /\ worker'[v].msg = worker[v].msg
    BY <1>1 DEF Handling
  <2>3. Stage(u)' = Stage(u) \/ Stage(u)' = "lost"
    BY <1>2, <2>2, StagesFade DEF Pending
  <2> QED
    BY <2>1, <2>3
<1>4. ASSUME NEW u \in Uploads, ~HandledBy(w, u) PROVE Stage(u)' = Stage(u)
  <2>1. ThumbnailsOf(u)' = ThumbnailsOf(u)
    BY DEF ThumbnailsOf
  <2>2. \A v \in Workers : HandledBy(v, u)' <=> HandledBy(v, u)
    BY <1>1, <1>4 DEF HandledBy, MsgFiles
  <2>3. Queued(u)' <=> Queued(u)
    BY DEF Queued
  <2> QED
    BY <1>2, <2>1, <2>2, <2>3 DEF Stage
<1> QED
  BY <1>3, <1>4

\* ... but it only does where something failed, or the event is gone.
LEMMA ReleaseIsExcused ==
    ASSUME TypeOK, BytesAgree, Linked, NothingFails, Dependable, NEW w \in Workers, Release(w),
           \/ WorkerLookup(w) \/ WorkerThumb(w) \/ WorkerBytes(w) \/ WorkerWrite(w)
           \/ WorkerRecord(w)
    PROVE  ~Present(worker[w].msg.event)
<1> worker \in [Workers -> WorkerStates] /\ worker[w] \in WorkerStates
  BY DEF TypeOK, WorkerTypeOK
<1>0. worker'[w].pc = "idle" /\ "store" \notin Faults /\ "db" \notin Faults /\ "imagor" \notin Faults
  BY DEF Release, Rest, Dependable
<1>1. CASE WorkerLookup(w)
  <2>1. MsgFiles(w) # {}
    BY <1>1 DEF WorkerLookup, Linked, MessagesAreAbout, IsAbout, MsgFiles
  <2> QED
    BY <1>0, <1>1, <2>1 DEF WorkerLookup, WorkerGoto, WorkerStates
<1>2. CASE WorkerThumb(w)
  <2>1. worker[w].pc = "thumb" /\ reader[w].pc \in {"served", "failed"} /\ ImagorErrs(w)
    BY <1>0, <1>2 DEF WorkerThumb, WorkerStates
  <2>2. CASE reader[w].pc = "failed"
    BY <2>1, <2>2 DEF NothingFails
  <2>3. CASE reader[w].pc = "served"
    <3> w \in Readers
      BY PipelineAssumption
    <3>1. reader[w].table = "picture" /\ reader[w].event = worker[w].msg.event
      BY <2>1, <2>3, FetchIsOfMessage
    <3>2. PICK f \in files : f.id = reader[w].id /\ f.event = reader[w].event
      BY <2>3, <3>1 DEF Linked, RequestsFollowRows
    <3>3. Fresh(f.event)
      BY DEF TypeOK, MediaTypeOK, FileRows, EventRows, Fresh, StoreOf, Dependable
    <3>4. reader[w].got = Photo(f.by)
      BY <2>3, <3>2, <3>3 DEF BytesAgree, ReadersRead, FilesWritten
    <3> QED
      BY <1>0, <2>1, <2>3, <3>4 DEF ImagorErrs, Photo
  <2> QED
    BY <2>1, <2>2, <2>3
<1>3. CASE WorkerBytes(w)
  BY <1>0, <1>3 DEF WorkerBytes, WorkerGoto, Stored, WorkerStates
<1>4. CASE WorkerWrite(w)
  BY <1>0, <1>4 DEF WorkerWrite, WorkerGoto, Stored, WorkerStates
<1>5. CASE WorkerRecord(w)
  <2>1. worker[w].id \in ThumbIds /\ Naming(w)
    BY <1>0, <1>5 DEF WorkerRecord, WorkerGoto, WorkerStates, Naming
  <2> QED
    BY <2>1 DEF NothingFails
<1> QED
  BY <1>1, <1>2, <1>3, <1>4, <1>5

\* What is published is known to the server instead of the worker.
LEMMA PublishingStays ==
    ASSUME TypeOK, NEW w \in Workers, WorkerPublish(w), UNCHANGED uploadVars, notices' # notices
    PROVE  \A u \in Uploads : Stage(u)' = Stage(u)
<1> worker \in [Workers -> WorkerStates] /\ notices \in Seq(Ids)
  BY DEF TypeOK, WorkerTypeOK, BusTypeOK
<1> PICK i : i = worker[w].id
  OBVIOUS
<1>1. /\ worker[w].pc = "publish" /\ notices' = Append(notices, i) /\ Release(w)
      /\ UNCHANGED <<files, thumbs, inbox, announced, up>>
  BY DEF WorkerPublish, PublishNewThumbnail, mediaVars, uploadVars
<1>2. worker'[w].pc = "idle" /\ \A v \in Workers \ {w} : worker'[v] = worker[v]
  BY <1>1 DEF Release, Rest
<1>3. /\ \A k \in 1..Len(notices) : k \in 1..Len(notices') /\ notices'[k] = notices[k]
      /\ Len(notices') \in 1..Len(notices') /\ notices'[Len(notices')] = i
      /\ \A k \in 1..Len(notices') :
            (k \in 1..Len(notices) /\ notices'[k] = notices[k]) \/ notices'[k] = i
  <2>1. i \in Ids
    BY <1>1, WorkerLocals
  <2> QED
    BY <1>1, <2>1
<1>4. ASSUME NEW j PROVE InNotice(j)' <=> InNotice(j)
  <2>1. CASE j = i
    <3>1. InNotice(j)
      BY <1>1, <2>1 DEF InNotice
    <3>2. InNotice(j)'
      BY <1>3, <2>1 DEF InNotice
    <3> QED
      BY <3>1, <3>2
  <2>2. CASE j # i
    BY <1>1, <1>2, <1>3, <2>2 DEF InNotice
  <2> QED
    BY <2>1, <2>2
<1> SUFFICES ASSUME NEW u \in Uploads PROVE Stage(u)' = Stage(u)
  OBVIOUS
<1>5. ThumbnailsOf(u)' = ThumbnailsOf(u) /\ (Queued(u)' <=> Queued(u))
  BY <1>1 DEF ThumbnailsOf, Queued
<1>6. \A v \in Workers : HandledBy(v, u)' <=> HandledBy(v, u)
  BY <1>1, <1>2 DEF HandledBy, MsgFiles
<1> QED
  BY <1>1, <1>4, <1>5, <1>6 DEF Stage

-----------------------------------------------------------------------------
(* The refinement *)

Stages == [u \in Uploads |-> Stage(u)]
GoneOnes == {u \in Uploads : Gone(u)}
Attended == subscribed # {}

MayBeLost(u) ==
    \/ Stage(u) = "recorded" /\ ~Attended
    \/ Stage(u) = "handled" /\ Gone(u)
    \/ Stage(u) \in LossStages /\ ~Dependable

\* What one step may do to the stages: move one photo on, or lose some.
StagesGoOn ==
    \/ \E u \in Uploads :
          \/ Onward(u, "apart", "recorded") \/ Onward(u, "recorded", "queued")
          \/ Onward(u, "queued", "handled") \/ Onward(u, "handled", "thumbnailed")
          \/ Onward(u, "thumbnailed", "announced")
    \/ \A u \in Uploads : Stage(u)' = Stage(u) \/ (Stage(u)' = "lost" /\ MayBeLost(u))

LEMMA UploadingGoesOn ==
    ASSUME TypeOK, StageTells, StageTells', Linked, Keeping, RecordedOnce, Uploading
    PROVE  StagesGoOn
<1> up \in [Uploads -> UploadStates]
  BY DEF TypeOK, UploadTypeOK
<1>0. UNCHANGED workerVars
  BY DEF Uploading
<1>1. ASSUME UNCHANGED <<files, thumbs, notices, inbox>>,
             \A u \in Uploads : up'[u].pc \in {"cache", "publish"} <=> Pending(u)
      PROVE  StagesGoOn
  BY <1>0, <1>1, StagesStay DEF StagesGoOn, workerVars, Handling, Publishing
<1>2. ASSUME NEW r \in Requests, Post(r) PROVE StagesGoOn
  <2>1. \A u \in FilesOf(r) : up[u].pc = "unsent"
    BY <1>2 DEF Post, FilesOf, Keeping, FilesSayTheirUpload
  <2>2. \A v \in Uploads : up'[v].pc \in {"cache", "publish"} <=> Pending(v)
    BY <1>2, <2>1 DEF Post, Pending
  <2> QED
    BY <1>1, <1>2, <2>2 DEF Post, mediaVars, busVars
<1>3. ASSUME NEW r \in Requests, Respond(r) PROVE StagesGoOn
  BY <1>1, <1>3 DEF Respond, mediaVars, busVars, Pending
<1>4. ASSUME NEW u \in Uploads, UploadCheck(u) \/ UploadBytes(u) \/ UploadWrite(u) PROVE StagesGoOn
  <2>1. \A v \in Uploads : up'[v].pc \in {"cache", "publish"} <=> Pending(v)
    BY <1>4 DEF UploadCheck, UploadBytes, UploadWrite, Goto, UploadStates, Pending
  <2> QED
    BY <1>1, <1>4, <2>1 DEF UploadCheck, UploadBytes, UploadWrite, mediaVars, busVars
<1>5. ASSUME NEW u \in Uploads, UploadCache(u) PROVE StagesGoOn
  <2>1. \A v \in Uploads : up'[v].pc \in {"cache", "publish"} <=> Pending(v)
    BY <1>5 DEF UploadCache, Goto, UploadStates, Pending
  <2> QED
    BY <1>1, <1>5, <2>1 DEF UploadCache, busVars
<1>6. ASSUME NEW u \in Uploads, UploadRecord(u) PROVE StagesGoOn
  <2>1. CASE files' = files
    <3>1. Goto(u, "failed") /\ up[u].pc = "record"
      BY <1>6, <2>1 DEF UploadRecord, FileIds
    <3>2. \A v \in Uploads : up'[v].pc \in {"cache", "publish"} <=> Pending(v)
      BY <3>1 DEF Goto, UploadStates, Pending
    <3> QED
      BY <1>1, <1>6, <2>1, <3>2 DEF UploadRecord, busVars
  <2>2. CASE files' # files
    BY <1>0, <1>6, <2>2, RecordingAdvances DEF StagesGoOn
  <2> QED
    BY <2>1, <2>2
<1>7. ASSUME NEW u \in Uploads, UploadPublish(u) PROVE StagesGoOn
  <2>1. CASE inbox' # inbox
    BY <1>0, <1>7, <2>1, QueueingAdvances DEF StagesGoOn
  <2>2. CASE inbox' = inbox
    <3>1. ~Attended \/ ~Dependable
      <4>1. ASSUME NEW w \in subscribed, NEW m \in NewMedia,
                   inbox' = [inbox EXCEPT ![w] = Append(@, m)]
            PROVE  FALSE
        <5>1. inbox[w] \in Seq(NewMedia) /\ w \in Workers /\ inbox \in [Workers -> Seq(NewMedia)]
          BY DEF TypeOK, BusTypeOK
        <5>2. inbox'[w] = Append(inbox[w], m)
          BY <4>1, <5>1
        <5>3. Len(inbox'[w]) = Len(inbox[w]) + 1 /\ Len(inbox[w]) \in Nat
          BY <5>1, <5>2
        <5> QED
          BY <2>2, <5>3
      <4>2. [event |-> up[u].event, file |-> up[u].id, video |-> up[u].media = "video"] \in NewMedia
        BY <1>7 DEF UploadPublish, TypeOK, UploadTypeOK, UploadStates, NewMedia
      <4> QED
        BY <1>7, <4>1, <4>2 DEF UploadPublish, PublishNewPhoto, DeliverToGroup, Attended, Dependable
    <3>2. \A v \in Uploads :
              Stage(v)' = Stage(v) \/ (Stage(v)' = "lost" /\ Stage(v) = "recorded")
      BY <1>0, <1>7, <2>2, UnqueuedIsLost
    <3> QED
      BY <3>1, <3>2 DEF StagesGoOn, MayBeLost, LossStages
  <2> QED
    BY <2>1, <2>2
<1> QED
  BY <1>2, <1>3, <1>4, <1>5, <1>6, <1>7 DEF Uploading, UploadNext, UploadStep

LEMMA ThumbnailingGoesOn ==
    ASSUME TypeOK, BytesAgree, StageTells, StageTells', Linked, Keeping, Travelling,
           Thumbnailing
    PROVE  StagesGoOn
<1> worker \in [Workers -> WorkerStates]
  BY DEF TypeOK, WorkerTypeOK
<1>0. UNCHANGED uploadVars
  BY DEF Thumbnailing
<1>1. CASE Announce
  <2>1. CASE announced' # announced
    BY <1>0, <1>1, <2>1, AnnouncingAdvances DEF StagesGoOn
  <2>2. CASE announced' = announced
    <3>1. /\ notices # <<>> /\ notices' = Tail(notices)
          /\ UNCHANGED <<files, thumbs, inbox, worker, up>>
      BY <1>0, <1>1 DEF Announce, mediaVars, uploadVars
    <3>2. ~Dependable
      <4>1. 1 \in 1..Len(notices) /\ Head(notices) = notices[1]
        BY <3>1 DEF TypeOK, BusTypeOK
      <4>2. Head(notices) \in ThumbIds /\ Head(notices) \notin announced
        BY <4>1 DEF Linked, NoticesAreRecorded, Travelling, NoticedOnce
      <4> QED
        BY <1>1, <2>2, <4>2 DEF Announce, Dependable
    <3>3. \A i : InNotice(i)' => InNotice(i)
      <4>1. \A k \in 1..Len(notices') :
                k + 1 \in 1..Len(notices) /\ notices'[k] = notices[k + 1]
        BY <3>1 DEF TypeOK, BusTypeOK
      <4> QED
        BY <3>1, <4>1 DEF InNotice
    <3>4. \A u \in Uploads : Stage(u)' = Stage(u) \/ (Stage(u)' = "lost" /\ Stage(u) \in LossStages)
      BY <2>2, <3>1, <3>3, StagesFade DEF Pending, Handling
    <3> QED
      BY <3>2, <3>4 DEF StagesGoOn, MayBeLost
  <2> QED
    BY <2>1, <2>2
<1>2. ASSUME NEW w \in Workers, WorkerStart(w) PROVE StagesGoOn
  <2>1. UNCHANGED <<files, thumbs, notices, inbox, announced, up>> /\ worker[w].pc = "down"
        /\ worker'[w] = Rest("idle") /\ \A v \in Workers \ {w} : worker'[v] = worker[v]
    BY <1>0, <1>2 DEF WorkerStart, mediaVars, uploadVars
  <2> QED
    BY <2>1, StagesStay DEF Rest, Handling, Publishing, Pending, StagesGoOn
<1>3. ASSUME NEW w \in Workers, WorkerCrash(w) PROVE StagesGoOn
  <2>1. UNCHANGED <<files, thumbs, notices, announced, up>> /\ worker'[w] = Rest("down")
        /\ inbox'[w] = <<>> /\ ~Dependable
        /\ \A v \in Workers \ {w} : worker'[v] = worker[v] /\ inbox'[v] = inbox[v]
    BY <1>0, <1>3 DEF WorkerCrash, mediaVars, uploadVars, Dependable, TypeOK, BusTypeOK
  <2>2. worker'[w].pc = "down"
    BY <2>1 DEF Rest
  <2>3. \A v \in Workers : worker'[v].pc \notin {"down", "idle", "publish"} =>
              Handling(v) /\ worker'[v].msg = worker[v].msg
    BY <2>1, <2>2 DEF Handling
  <2>4. \A v \in Workers : \A k \in 1..Len(inbox'[v]) :
              \E l \in 1..Len(inbox[v]) : inbox'[v][k] = inbox[v][l]
    BY <2>1
  <2>5. \A i : InNotice(i)' => InNotice(i)
    BY <2>1, <2>2 DEF InNotice
  <2>6. \A u \in Uploads : Stage(u)' = Stage(u) \/ (Stage(u)' = "lost" /\ Stage(u) \in LossStages)
    BY <2>1, <2>3, <2>4, <2>5, StagesFade DEF Pending
  <2> QED
    BY <2>1, <2>6 DEF StagesGoOn, MayBeLost
<1>4. ASSUME NEW w \in Workers, WorkerReceive(w) PROVE StagesGoOn
  BY <1>0, <1>4, ReceivingAdvances DEF StagesGoOn
<1>5. ASSUME NEW w \in Workers, Release(w),
             \/ WorkerLookup(w) \/ WorkerThumb(w) \/ WorkerBytes(w) \/ WorkerWrite(w)
             \/ WorkerRecord(w) /\ thumbs' = thumbs
      PROVE  StagesGoOn
  <2>1. UNCHANGED <<files, thumbs, notices, inbox, announced, up>>
    BY <1>0, <1>5 DEF WorkerLookup, WorkerThumb, WorkerBytes, WorkerWrite, WorkerRecord,
                      mediaVars, busVars, uploadVars
  <2>2. Handling(w)
    BY <1>5 DEF WorkerLookup, WorkerThumb, WorkerBytes, WorkerWrite, WorkerRecord, Handling
  <2>3. ASSUME Dependable, NEW u \in Uploads, HandledBy(w, u) PROVE Gone(u)
    <3>1. ~Present(worker[w].msg.event)
      BY <1>5, <2>3, ReleaseIsExcused DEF Travelling
    <3>2. PICK g \in files : g.id = worker[w].msg.file /\ g.event = worker[w].msg.event
      BY <2>2 DEF Handling, Linked, MessagesAreAbout, IsAbout
    <3>3. g.by = u
      BY <2>3, <3>2 DEF HandledBy, MsgFiles, Linked, FilesAreUnique
    <3>4. up[u].pc # "unsent" /\ up[u].event = worker[w].msg.event
      BY <3>2, <3>3 DEF Keeping, FilesSayTheirUpload
    <3>5. up[u].event # None
      BY <3>4 DEF TypeOK, UploadTypeOK
    <3> QED
      BY <3>1, <3>4, <3>5 DEF Gone
  <2>4. \A u \in Uploads :
            \/ Stage(u)' = Stage(u)
            \/ Stage(u)' = "lost" /\ Stage(u) = "handled" /\ HandledBy(w, u)
    BY <1>5, <2>1, <2>2, ReleasingLoses
  <2> QED
    BY <2>3, <2>4 DEF StagesGoOn, MayBeLost, LossStages
<1>6. ASSUME NEW w \in Workers, ~Release(w),
             \/ WorkerLookup(w) \/ WorkerFetch(w) \/ WorkerThumb(w)
             \/ WorkerBytes(w) \/ WorkerWrite(w) \/ WorkerCache(w)
      PROVE  StagesGoOn
  BY <1>0, <1>6, WorkingStays DEF StagesGoOn
<1>7. ASSUME NEW w \in Workers, WorkerFetch(w) \/ WorkerCache(w) PROVE ~Release(w)
  BY <1>7 DEF WorkerFetch, WorkerCache, WorkerGoto, Release, Rest, WorkerStates
<1>8. ASSUME NEW w \in Workers, WorkerRecord(w) PROVE StagesGoOn
  <2>1. CASE thumbs' # thumbs
    <3>1. announced' = announced
      BY <1>8 DEF WorkerRecord
    <3> QED
      BY <1>0, <1>8, <2>1, <3>1, ThumbnailingAdvances DEF StagesGoOn
  <2>2. CASE thumbs' = thumbs
    <3>1. Release(w)
      BY <1>8, <2>2 DEF WorkerRecord, ThumbIds
    <3> QED
      BY <1>5, <1>8, <2>2, <3>1
  <2> QED
    BY <2>1, <2>2
<1>9. ASSUME NEW w \in Workers, WorkerPublish(w) PROVE StagesGoOn
  <2>1. CASE notices' # notices
    BY <1>0, <1>9, <2>1, PublishingStays DEF StagesGoOn
  <2>2. CASE notices' = notices
    <3>1. UNCHANGED <<files, thumbs, notices, inbox, announced, up>> /\ Release(w)
      BY <1>0, <1>9, <2>2 DEF WorkerPublish, PublishNewThumbnail, mediaVars, uploadVars
    <3>2. ~Dependable
      <4>1. Len(Append(notices, worker[w].id)) # Len(notices)
        BY <1>9, WorkerLocals DEF WorkerPublish, TypeOK, BusTypeOK
      <4> QED
        BY <1>9, <2>2, <4>1 DEF WorkerPublish, PublishNewThumbnail, Dependable, Travelling,
                                NothingFails
    <3>3. worker'[w].pc = "idle" /\ \A v \in Workers \ {w} : worker'[v] = worker[v]
      BY <3>1 DEF Release, Rest
    <3>4. \A i : InNotice(i)' => InNotice(i)
      BY <3>1, <3>3 DEF InNotice
    <3>5. \A v \in Workers : worker'[v].pc \notin {"down", "idle", "publish"} =>
                Handling(v) /\ worker'[v].msg = worker[v].msg
      BY <3>3 DEF Handling
    <3>6. \A u \in Uploads : Stage(u)' = Stage(u) \/ (Stage(u)' = "lost" /\ Stage(u) \in LossStages)
      BY <3>1, <3>4, <3>5, StagesFade DEF Pending
    <3> QED
      BY <3>2, <3>6 DEF StagesGoOn, MayBeLost
  <2> QED
    BY <2>1, <2>2
<1> QED
  BY <1>1, <1>2, <1>3, <1>4, <1>5, <1>6, <1>7, <1>8, <1>9 DEF Thumbnailing, WorkerNext, WorkerStep

LEMMA GoneStay ==
    ASSUME TypeOK, BytesAgree, Keeping, RecordedOnce, [Next]_vars
    PROVE  GoneOnes \subseteq GoneOnes'
<1> SUFFICES ASSUME NEW u \in Uploads, Gone(u) PROVE Gone(u)'
  BY DEF GoneOnes
<1>1. up[u].pc # "unsent" /\ up[u].event # None /\ ~Present(up[u].event)
  BY DEF Gone, RecordedOnce
<1>2. up[u].event \in Events /\ Born(up[u].event)
  BY <1>1 DEF TypeOK, UploadTypeOK, UploadStates, BytesAgree, NothingUnborn
<1>3. up'[u].event = up[u].event
  BY <1>1, PostedStays DEF Keeping
<1>4. events'[up[u].event].status # "present"
  BY <1>1, <1>2, DeletedStays
<1> QED
  BY <1>1, <1>3, <1>4 DEF Gone, Present

LEMMA StagesAlwaysGoOn ==
    ASSUME TypeOK, BytesAgree, StageTells, StageTells', Linked, Keeping, Travelling,
           [Next]_vars
    PROVE  StagesGoOn
<1>1. CASE Organise \/ Reading \/ ServerStart \/ UNCHANGED vars
  <2>1. UNCHANGED <<files, thumbs, notices, inbox, announced, worker, up>>
    BY <1>1 DEF Organise, MediaNext, CreateEvent, SetEventLive, DeleteEvent, CacheExpire, Reading,
                Browse, ReadDone, ReadLookup, ReadStep, ReadCache, ReadEvent, ReadStorage,
                ReadFill, ServerStart, vars, mediaVars, busVars, uploadVars, workerVars
  <2> QED
    BY <2>1, StagesStay DEF Pending, Handling, Publishing, StagesGoOn
<1>2. CASE ServerCrash
  <2>1. UNCHANGED <<files, thumbs, announced>> /\ notices' = <<>> /\ ~Dependable
    BY <1>2 DEF ServerCrash, Dependable
  <2>2. \A u \in Uploads : up'[u].pc \notin {"cache", "publish"}
    BY <1>2 DEF ServerCrash, UploadsCrash, TypeOK, UploadTypeOK, UploadStates
  <2>3. \A w \in Workers : worker'[w] = worker[w] \/ worker'[w].pc = "down"
    BY <1>2 DEF ServerCrash, Rest
  <2>4. \A w \in Workers : inbox'[w] = inbox[w] \/ inbox'[w] = <<>>
    BY <1>2 DEF ServerCrash
  <2>5. \A w \in Workers : worker'[w].pc \notin {"down", "idle", "publish"} =>
              Handling(w) /\ worker'[w].msg = worker[w].msg
    BY <2>3 DEF Handling
  <2>6. \A w \in Workers : \A k \in 1..Len(inbox'[w]) :
              \E l \in 1..Len(inbox[w]) : inbox'[w][k] = inbox[w][l]
    BY <2>4
  <2>7. \A i : InNotice(i)' => InNotice(i)
    BY <2>1, <2>3 DEF InNotice
  <2>8. \A u \in Uploads : Stage(u)' = Stage(u) \/ (Stage(u)' = "lost" /\ Stage(u) \in LossStages)
    BY <2>1, <2>2, <2>5, <2>6, <2>7, StagesFade
  <2> QED
    BY <2>1, <2>8 DEF StagesGoOn, MayBeLost
<1> QED
  BY <1>1, <1>2, UploadingGoesOn, ThumbnailingGoesOn DEF Next, Travelling

LEMMA JourneyStep ==
    ASSUME TypeOK, BytesAgree, StageTells, StageTells', Linked, Keeping, Travelling,
           [Next]_vars
    PROVE  J!JourneyNext
<1>1. GoneOnes \subseteq GoneOnes'
  BY GoneStay DEF Travelling
<1>2. ASSUME NEW u \in Uploads, NEW a, a \in DOMAIN J!NextStage, Onward(u, a, J!NextStage[a])
      PROVE  J!Advance(u)
  <2>1. Stages[u] = a /\ Stages' = [Stages EXCEPT ![u] = J!NextStage[a]]
    BY <1>2 DEF Onward, Stages
  <2> QED
    BY <1>2, <2>1 DEF J!Advance, Stages
<1>3. /\ {"apart", "recorded", "queued", "handled", "thumbnailed"} \subseteq DOMAIN J!NextStage
      /\ J!NextStage["apart"] = "recorded" /\ J!NextStage["recorded"] = "queued"
      /\ J!NextStage["queued"] = "handled" /\ J!NextStage["handled"] = "thumbnailed"
      /\ J!NextStage["thumbnailed"] = "announced"
  BY DEF J!NextStage
<1>4. ASSUME \A u \in Uploads : Stage(u)' = Stage(u) \/ (Stage(u)' = "lost" /\ MayBeLost(u))
      PROVE  \E us \in SUBSET Uploads : J!Lose(us)
  <2> DEFINE us == {u \in Uploads : Stage(u)' # Stage(u)}
  <2>1. \A u \in us : J!CanBeLost(u)
    BY <1>4 DEF MayBeLost, LossStages, Attended, Dependable, J!CanBeLost
  <2>2. Stages' = [u \in Uploads |-> IF u \in us THEN "lost" ELSE Stages[u]]
    BY <1>4 DEF Stages
  <2>3. us \in SUBSET Uploads
    OBVIOUS
  <2> HIDE DEF us
  <2>4. J!Lose(us)
    BY <2>1, <2>2 DEF J!Lose, Stages
  <2> QED
    BY <2>3, <2>4
<1>5. (\E u \in Uploads : J!Advance(u)) \/ (\E us \in SUBSET Uploads : J!Lose(us))
  BY <1>2, <1>3, <1>4, StagesAlwaysGoOn DEF StagesGoOn
<1> QED
  BY <1>1, <1>5 DEF J!JourneyNext, GoneOnes

LEMMA TravellingInit == Init => Travelling
<1> SUFFICES ASSUME Init PROVE Travelling
  OBVIOUS
<1>1. files = {} /\ notices = <<>> /\ serverUp /\ \A u \in Uploads : up[u].event = None
  BY DEF Init, MediaInit, BusInit, UploadInit
<1>2. \A w \in Workers : worker[w].pc = "down"
  BY DEF Init, WorkerInit, Rest
<1> QED
  BY <1>1, <1>2 DEF Travelling, RecordedOnce, NoticedOnce, NothingFails, Naming, Publishing

LEMMA TravellingAlways == Spec => []Travelling
<1>1. TypeOK /\ BytesAgree /\ Linked /\ Keeping /\ Travelling /\ [Next]_vars => Travelling'
  BY RecordedOnceStep, NoticedOnceStep, NothingFailsStep DEF Travelling, Linked, Keeping
<1> QED
  BY <1>1, TravellingInit, TypeCorrect, BytesAlwaysAgree, LinkedAlways, KeepingAlways, PTL DEF Spec

\* A photo goes from stage to stage, one at a time and never back.  Where
\* nothing fails but the cache, and stores give out identifiers of their own,
\* it is only lost by Publish without a subscriber, and by a Thumb that does
\* not find the event: the pipeline implements Journey.
THEOREM JourneysAlwaysGoOn == Spec => JourneysGoOn
<1>1. TypeOK /\ Linked /\ Travelling => StageTells
  BY StageTellsAll
<1>2. Init /\ StageTells => J!JourneyInit
  <2> SUFFICES ASSUME Init, StageTells PROVE J!JourneyInit
    OBVIOUS
  <2>1. files = {} /\ subscribed = {} /\ \A u \in Uploads : up[u].event = None
    BY DEF Init, MediaInit, BusInit, UploadInit
  <2>2. Stages = [u \in Uploads |-> "apart"]
    BY <2>1 DEF Stages, StageTells, Recorded
  <2>3. GoneOnes = {}
    BY <2>1 DEF GoneOnes, Gone
  <2> QED
    BY <2>1, <2>2, <2>3 DEF J!JourneyInit, Stages, GoneOnes
<1>3. TypeOK /\ BytesAgree /\ StageTells /\ StageTells' /\ Linked /\ Keeping
        /\ Travelling /\ [Next]_vars => J!JourneyNext
  BY JourneyStep
<1> QED
  BY <1>1, <1>2, <1>3, TypeCorrect, BytesAlwaysAgree, LinkedAlways, KeepingAlways, TravellingAlways,
     PTL DEF Spec, JourneysGoOn, J!JourneySpec
=============================================================================
