------------------------------ MODULE Pipeline ------------------------------
(***************************************************************************)
(* The media path of eventpix as a whole: the server (uploads, storage     *)
(* handlers, organiser's pages, the "new-thumbnail" subscription), the     *)
(* thumbnailer workers and browsers, over the shared database, stores,     *)
(* cache and bus.  Embedded says which deployment: TRUE for config.yaml,   *)
(* where the thumbnailer, the NATS server and the cache live in the server *)
(* process, FALSE for docker-compose, where each is a container.           *)
(***************************************************************************)
EXTENDS Upload, Thumbnailer

CONSTANT Embedded

ASSUME PipelineAssumption ==
    /\ Workers \subseteq Readers
    /\ Embedded \in BOOLEAN

vars == <<mediaVars, busVars, uploadVars, reader, workerVars>>

Browsers == Readers \ Workers

Init ==
    /\ MediaInit
    /\ BusInit
    /\ UploadInit
    /\ ReaderInit
    /\ WorkerInit

-----------------------------------------------------------------------------
Organise ==
    /\ MediaNext
    /\ UNCHANGED <<busVars, uploadVars, reader, workerVars>>

Uploading ==
    /\ UploadNext
    /\ UNCHANGED <<reader, workerVars>>

\* A gallery asks for a thumbnail or a picture it has a link to.
Browse(b) ==
    /\ reader[b].pc = "idle"
    /\ \E table \in Tables : \E row \in Rows(table) : ReadLookup(b, table, row.id)

Reading ==
    /\ \/ \E b \in Browsers : Browse(b) \/ ReadDone(b)
       \/ \E r \in Readers : ReadStep(r)
    /\ UNCHANGED <<busVars, uploadVars, workerVars>>

Thumbnailing ==
    /\ WorkerNext
    /\ Embedded => serverUp
    /\ UNCHANGED uploadVars

\* The server process dies: requests in flight, its bus subscription and,
\* in the embedded deployment, the workers and the cache go with it.
ServerCrash ==
    /\ "crash" \in Faults
    /\ serverUp
    /\ serverUp' = FALSE
    /\ UploadsCrash
    /\ ReadersCrash
    /\ notices' = <<>>
    /\ IF Embedded
       THEN /\ worker' = [w \in Workers |-> Rest("down")]
            /\ subscribed' = {}
            /\ inbox' = [w \in Workers |-> <<>>]
            /\ cache' = [e \in Events |-> [i \in Ids |-> Nothing]]
       ELSE UNCHANGED <<worker, subscribed, inbox, cache>>
    /\ UNCHANGED <<events, files, thumbs, objects, announced>>

ServerStart ==
    /\ ~serverUp
    /\ serverUp' = TRUE
    /\ UNCHANGED <<events, files, thumbs, objects, cache, busVars, uploadVars,
                   reader, workerVars>>

Next ==
    \/ Organise
    \/ Uploading
    \/ Reading
    \/ Thumbnailing
    \/ ServerCrash
    \/ ServerStart

Spec == Init /\ [][Next]_vars

\* Goroutines, HTTP handlers and subscription callbacks that can run do run;
\* nobody has to post, browse, organise or crash.
Fairness ==
    /\ \A u \in Uploads : WF_vars(UploadStep(u) /\ UNCHANGED <<reader, workerVars>>)
    /\ \A r \in Requests : WF_vars(Respond(r) /\ UNCHANGED <<reader, workerVars>>)
    /\ \A r \in Readers : WF_vars(ReadStep(r) /\ UNCHANGED <<busVars, uploadVars, workerVars>>)
    /\ \A w \in Workers : WF_vars((WorkerStart(w) \/ WorkerStep(w)) /\ UNCHANGED uploadVars)
    /\ WF_vars(Announce /\ UNCHANGED uploadVars)

FairSpec == Spec /\ Fairness

-----------------------------------------------------------------------------
(* Properties *)

\* Every variable has its type, and no step of an upload, a read or a worker
\* uses a local that the steps before it have not set.
TypeOK ==
    /\ MediaTypeOK
    /\ BusTypeOK
    /\ UploadTypeOK
    /\ ReaderTypeOK
    /\ WorkerTypeOK

Fresh(e) == Kind[StoreOf(e)] = "fresh"
Object(e, i) == objects[StoreOf(e)][i]

\* The photo of upload u is recorded, and its object in the event's store is
\* the uploaded bytes.
Kept(u) == \E f \in files : f.by = u /\ Object(f.event, f.id) = Photo(u)

\* An upload request answered 200 has every one of its files recorded and, on
\* a store that gives out its own identifiers, retrievable unaltered from then
\* on, whatever other uploads, thumbnailers, deletions and crashes do
\* (handleUpload and Upload: Store, then AddFileInfo, then the answer).
AcceptedIsKept ==
    \A r \in Requests : response[r] = "ok" =>
        \A u \in FilesOf(r) : Fresh(up[u].event) => Kept(u)

\* Every file and thumbnail row points at an object, so a link in a gallery
\* finds one as long as the event is there to be asked for: rows are inserted
\* after their objects, and no object is removed (Upload and Thumb).
RowsHaveObjects ==
    \A row \in files \cup thumbs : Object(row.event, row.id) # Nothing

\* On such a store a cache entry always holds exactly the bytes of the object
\* it stands for, whether the uploader, the thumbnailer or a reader filled it
\* ("e:id" is one key space for pictures and thumbnails).
CacheCoherent ==
    \A e \in Events, i \in Ids :
        cache[e][i] # Nothing /\ Fresh(e) => cache[e][i] = Object(e, i)

\* What a thumbnail of file f may be: one made from that very upload or, for a
\* video, imagor's error page, which ThumbVideo does not tell from one (run
\* errorpage finds it).
MadeFrom(f) == {Thumb(f.by)} \cup (IF f.video THEN {Page} ELSE {})

\* What GetPicture and GetThumbnail serve, from the cache or the store, is the
\* upload the row records or a thumbnail made from it, never anything of
\* another upload.  A video's thumbnail may be imagor's error page instead.
Depicts(r) ==
    \E f \in files :
        \/ /\ reader[r].table = "picture"
           /\ f.id = reader[r].id
           /\ reader[r].got = Photo(f.by)
        \/ /\ reader[r].table = "thumbnail"
           /\ \E t \in thumbs : t.id = reader[r].id /\ t.file = f.id
           /\ reader[r].got \in MadeFrom(f)

ServedIsRecorded ==
    \A r \in Readers :
        reader[r].pc = "served" /\ Fresh(reader[r].event) => Depicts(r)

\* A thumbnail row belongs to a recorded file of the same event and, on such a
\* store, its object is a thumbnail made from that very upload or, for a video
\* only, imagor's error page.
ThumbnailsDepictTheirFiles ==
    \A t \in thumbs : \E f \in files :
        /\ f.id = t.file
        /\ f.event = t.event
        /\ Fresh(t.event) => Object(t.event, t.id) \in MadeFrom(f)

\* Messages never run ahead of the database: whoever receives a new-photo or a
\* new-thumbnail message finds the row it names (AddFileInfo and
\* AddThumbnailInfo come before Publish).
MessagesFollowRows ==
    /\ \A w \in Workers : \A k \in 1..Len(inbox[w]) : \E f \in files :
          f.id = inbox[w][k].file /\ f.event = inbox[w][k].event /\ f.video = inbox[w][k].video
    /\ \A k \in 1..Len(notices) : notices[k] \in ThumbIds

\* The queue group hands each photo to one worker: no file gets two
\* thumbnails, however many workers run, crash and come back.
OneThumbnailPerFile ==
    \A s, t \in thumbs : s.file = t.file => s = t

\* Once an event is deleted no request that arrives later is served any of its
\* media, although rows, objects and cache entries stay behind.
NothingServedAfterDelete ==
    \A r \in Readers : reader[r].pc = "served" => ~reader[r].late

\* Where stores are named, a photo answered 200 is intact as long as no other
\* upload or thumbnail was given its name in the same store.
NameTaken(u) ==
    \E v \in Uploads :
        /\ up[v].pc # "unsent"
        /\ UploadStore(v) = UploadStore(u)
        /\ \/ v # u /\ up[v].name = up[u].name
           \/ ThumbName[up[v].name] = up[u].name

KeptUnlessNameTaken ==
    \A r \in Requests : response[r] = "ok" =>
        \A u \in FilesOf(r) : NameTaken(u) \/ Kept(u)

\* Every upload request is answered (a goroutine that fails still counts for
\* the errgroup).
RequestsAreAnswered ==
    \A r \in Requests : response[r] = "waiting" ~> response[r] \in {"ok", "error"}

\* Without faults, an upload whose message reached a thumbnailer is announced
\* to the open galleries with a thumbnail of its own, unless its event is
\* deleted first.
Queued(u) ==
    \E w \in Workers : \E k \in 1..Len(inbox[w]), f \in files :
        f.id = inbox[w][k].file /\ f.by = u

Shown(u) ==
    \E f \in files, t \in thumbs :
        /\ f.by = u /\ t.file = f.id /\ t.id \in announced
        /\ Object(t.event, t.id) \in MadeFrom(f)

Gone(u) == up[u].event # None /\ ~Present(up[u].event)

QueuedIsShown ==
    \A u \in Uploads :
        Queued(u) /\ Fresh(up[u].event) ~> Shown(u) \/ Gone(u)

-----------------------------------------------------------------------------
(* Why the stores and the cache stay right: the inductive invariant behind *)
(* AcceptedIsKept and CacheCoherent                                        *)

\* Whatever refers to an event refers to one that was created, so its store
\* and its Cache column are settled.
Born(e) == events[e].status # "unborn"

NothingUnborn ==
    /\ \A u \in Uploads : up[u].pc # "unsent" => Born(up[u].event)
    /\ \A f \in files : Born(f.event)
    /\ \A t \in thumbs : Born(t.event)
    /\ \A w \in Workers :
          /\ \A k \in 1..Len(inbox[w]) : Born(inbox[w][k].event)
          /\ worker[w].pc \notin {"down", "idle"} => Born(worker[w].msg.event)
    /\ \A r \in Readers : reader[r].pc \notin {"idle", "failed"} => Born(reader[r].event)
    /\ \A e \in Events, i \in Ids : cache[e][i] # Nothing => Born(e)

\* Bytes that somebody has stored, recorded, read or cached are the bytes of
\* the object.
UploadsWritten ==
    \A u \in Uploads :
        up[u].pc \in {"record", "cache", "publish", "stored"} /\ Fresh(up[u].event)
            => Object(up[u].event, up[u].id) = Photo(u)

WorkersWrote ==
    \A w \in Workers :
        /\ worker[w].pc \in {"store", "write", "cache", "record"} => worker[w].bytes # Nothing
        /\ worker[w].pc \in {"cache", "record"} /\ Fresh(worker[w].msg.event)
              => Object(worker[w].msg.event, worker[w].id) = worker[w].bytes

ReadersRead ==
    \A r \in Readers : reader[r].pc \in {"cacheSet", "served"} =>
        /\ reader[r].got # Nothing
        /\ Fresh(reader[r].event) => Object(reader[r].event, reader[r].id) = reader[r].got

FilesWritten ==
    \A f \in files : Fresh(f.event) => Object(f.event, f.id) = Photo(f.by)

\* An upload is recorded before its goroutine reports success, and a request
\* is answered "ok" after all of its goroutines did.
UploadsRecorded ==
    \A u \in Uploads : up[u].pc \in {"cache", "publish", "stored"} =>
        \E f \in files : f.by = u /\ f.event = up[u].event

AnswersWait ==
    \A r \in Requests : response[r] = "ok" =>
        \A u \in FilesOf(r) : up[u].pc = "stored"

\* Nobody holds, has recorded or has cached bytes that differ from the object
\* the event's store has for them (Store, then AddFileInfo or cache.Set).
BytesAgree ==
    /\ NothingUnborn
    /\ UploadsWritten
    /\ WorkersWrote
    /\ ReadersRead
    /\ CacheCoherent
    /\ FilesWritten
    /\ UploadsRecorded
    /\ AnswersWait

-----------------------------------------------------------------------------
(* What the documentation says and the code does not do *)

\* "All uploaded media is stored directly in your storage": a photo answered
\* 200 is in the store, whichever kind of store it is.
AcceptedIsKeptOnEveryStore ==
    \A r \in Requests : response[r] = "ok" => \A u \in FilesOf(r) : Kept(u)

\* A message that is not acknowledged "will be resent over and over again": a
\* photo a thumbnailer took up is shown in the end, if not at the first try.
TakenUp(u) ==
    \E w \in Workers, f \in files :
        worker[w].pc = "lookup" /\ worker[w].msg.file = f.id /\ f.by = u

NakedIsResent == \A u \in Uploads : TakenUp(u) ~> Shown(u) \/ Gone(u)

\* The thumbnailer "creates a thumbnail for the photo and stores it back in
\* the storage": the object of a thumbnail row is an image.
ThumbnailsAreImages ==
    \A t \in thumbs : Fresh(t.event) => Object(t.event, t.id) # Page

-----------------------------------------------------------------------------
(* Implementation of the ledger *)

Answer(r) == IF response[r] \in {"ok", "error"} THEN response[r] ELSE "none"

L == INSTANCE Ledger WITH
        kept <- {u \in Uploads : Kept(u)},
        shown <- {u \in Uploads : Shown(u)},
        answer <- [r \in Requests |-> Answer(r)]

\* With stores that give out their own identifiers, the pipeline keeps the
\* promises of Ledger: deleting an event, a crash or a failed upload never
\* takes back what was kept, shown or answered ("Your pictures will not be
\* deleted", eventRow.html).
KeepsLedger == L!LedgerSpec

-----------------------------------------------------------------------------
(* Implementation of the journey                                           *)

HandledBy(w, u) ==
    worker[w].pc \notin {"down", "idle", "publish"} /\ \E f \in MsgFiles(w) : f.by = u

ThumbnailsOf(u) == {t \in thumbs : \E f \in files : f.by = u /\ f.id = t.file}

\* About to be published, or published and not yet taken by the server.
InNotice(i) ==
    \/ \E w \in Workers : worker[w].pc = "publish" /\ worker[w].id = i
    \/ \E k \in 1..Len(notices) : notices[k] = i

Stage(u) ==
    CASE \A f \in files : f.by # u -> "apart"
      [] \E t \in ThumbnailsOf(u) : t.id \in announced -> "announced"
      [] \E t \in ThumbnailsOf(u) : InNotice(t.id) -> "thumbnailed"
      [] \E w \in Workers : HandledBy(w, u) -> "handled"
      [] Queued(u) -> "queued"
      [] up[u].pc \in {"cache", "publish"} -> "recorded"
      [] OTHER -> "lost"

J == INSTANCE Journey WITH
        Reliable <- Faults \subseteq {"cache"} /\ \A s \in Stores : Kind[s] = "fresh",
        stage <- [u \in Uploads |-> Stage(u)],
        deleted <- {u \in Uploads : Gone(u)},
        attended <- subscribed # {}

\* Through Upload, queue group, Thumb and the server's subscription a photo
\* goes from stage to stage, and without faults it is not lost but for the
\* two reasons of Journey: Publish without a subscriber, and a Thumb that does
\* not find the event.
JourneysGoOn == J!JourneySpec
=============================================================================
