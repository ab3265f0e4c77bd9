# eventpix in TLA+

eventpix lets the guests of an event post photos and videos from a browser. The
server stores them in the organiser's own storage, a thumbnailer makes
thumbnails, and the open galleries are told of each new one. This directory
holds TLA+ models of that system, the TLC configurations that check them on
small instances, and theorems about them that TLAPS has proved for every value
of the constants.

Paths below are relative to the repository (`src/` in `PROJECT.json`, whose
`map` names, for each definition, the lines of code it stands for).

## The system

    browser --POST /upload/:id--> handleUpload --one goroutine per file--> eventpixSvc.Upload
                                                   | Store (filesystem, FTP, S3, Google Drive)
                                                   | AddFileInfo (database)
                                                   | cache.Set
                                                   v
                              "new-photo" (NATS, queue group "thumbnailer")
                                                   v
    thumbnailer.Start -> Thumb -> imagor --GET /storage/picture/:id--> storageSvc.GetPicture
                           | Store, cache.Set, AddThumbnailInfo
                           v
                "new-thumbnail" (NATS) -> server's subscription -> sse.Broker -> /sse of open galleries
                                                                                  |
    browser --GET /storage/thumbnail/:id--> storageSvc.GetThumbnail (cache, database, storage) <-+

There are two deployments. With `config.yaml` the HTTP server, the NATS server,
the thumbnailer and an in-memory cache share one process. With docker compose
each is a container, and there may be several thumbnailers.

### Components

| Component (code) | State | Operations | Talks to | What makes it correct |
|---|---|---|---|---|
| Upload path (`internal/server/upload_route.go`, `internal/service/picture.go`) | one goroutine per file with its event snapshot, identifier and bytes; the errgroup | check, store, record, cache, publish; answer | database, storage, cache, NATS | an answer 200 means every file of the request is recorded and stored; every request is answered |
| Storage backends (`internal/data/storage/`) | the organiser's objects | `Store`, `Get` | - | an object, once stored, is what was stored |
| Storage service (`internal/service/storage.go`, `internal/server/storage_routes.go`) | none of its own | `GetPicture`, `GetThumbnail`: cache, event, storage, fill | cache, database, storage | serves what the row records; nothing of a deleted event |
| Cache (`internal/cache/`) | entries `event:id` with an expiry | `Get`, `Set` | - | an entry equals the object it stands for |
| Thumbnailer (`internal/service/thumbnailer.go`, `cmd/thumbnailer.go`) | the message it handles | `Start`, `Thumb` | NATS, database, imagor, storage, cache | one thumbnail per file, made from that file |
| imagor client (`internal/pkg/imagor/`) | none | `ThumbImage`, `ThumbVideo` | imagor, which fetches from the server | an error of imagor is an error |
| Message bus (`internal/server/nats_server.go`, `cmd/common.go`) | per subscription queues | publish, (queue) subscribe | - | messages do not overtake the rows they name |
| SSE broker (`internal/server/sse/sse.go`, `internal/server/ui_routes.go`) | registry of open pages, `Notifier` | `Listen`, `ServeHTTP` | NATS callback, browsers | every page gets every event in order unless it is too slow; nobody blocks anybody for ever |
| Gallery page (`assets/templates/eventGallery.html`, `thumbnails.html`, `htmx/sse.js`, `getThumbnails`, `GetThumbnails`) | the pictures on the page, its `EventSource` | read the next page, receive, expire, reconnect | database, SSE broker | what was announced is on the page; paging leaves no gap |
| Event table (`internal/data/db/db.go`, `models.go`) | rows of events | create, open/close, delete, `SetActiveEvent`, `GetActiveEvent` | - | the landing page shows the event activated last; an activation touches nothing else |
| Accounts and login (`internal/service/auth.go`, `internal/server/middleware/auth.go`, `NewDb`, `CreateUser`) | users, the `AuthToken` cookie | register, create the administrator, log in and out, `AuthRequired`, `UserAuthorizedForEvent` | database | one user per name; a session stays its user's; only its owner deletes an event |
| Google Drive tokens (`internal/server/oauth_routes.go`, `internal/data/db/`) | tokens of users | store, delete, preload, use | database, Google | no Drive event is without a token unless its owner unlinked Drive; unlinking takes every token |
| Event form (`assets/templates/createEventForm.html`, `json-enc-custom.js`, `CreateEvent`) | none | encode, unmarshal, store | - | the row is what the organiser filled in |
| Process life cycle (`cmd/server.go`, `cmd/thumbnailer.go`) | which processes run | start, shutdown, crash | all | what was accepted survives |
| Other pages, validation, configuration, generated code, vendored scripts | none that changes | - | - | - |

### What is hard

Goroutines of one request share an answer. Uploads, thumbnailers, readers and
the organiser's pages interleave over four stores (database, storage, cache,
bus) that share no transaction. Any step can fail and any process can die
between two of them. The bus keeps nothing for an absent subscriber. The cache is
filled by three different parties under one key space. Two backends overwrite
by file name. The broker and its handlers meet on unbuffered channels.
`SetActiveEvent` reads and writes in a transaction whose isolation depends on
the driver. `CreateUser` looks a name up and inserts it without a unique index,
and every process does the same for the administrator when it starts. A request
of an organiser works with a copy of the user that others may have made stale. A
gallery page is fed by two sources that share no position: offsets into a list
that grows at the front, and a stream that the server cuts every five minutes.
`PROJECT.json` lists 40 such hazards at their lines.

## Modules

| Module | Models | Reading guide |
|---|---|---|
| `Media` | the tables, stores, cache and the organiser's statements | bytes are what they show (`Photo(u)`, `Thumb(u)`, `Page`, `Broken`, `Nothing`) |
| `Bus` | both NATS subjects | `inbox[w]` is a worker's queue, `notices` the server's |
| `Upload` | `handleUpload`, `Upload` | `up[u].pc` is the next call of the goroutine of file `u` |
| `StorageService` | `GetPicture`, `GetThumbnail` | `reader[r].pc`; the reader of a worker is imagor fetching for it |
| `Thumbnailer` | `Start`, `Thumb`, the "new-thumbnail" callback | `worker[w].pc` is the next call of `Thumb` |
| `Pipeline` | composition, both deployments (`Embedded`), crash and restart; the properties and the inductive invariant | |
| `Ledger` | the abstract promise about uploads | refined by `Pipeline` (`KeepsLedger`) |
| `Journey` | the abstract way of a photo: its stages from the row to the galleries, and where it may be lost | refined by `Pipeline` (`JourneysGoOn`), whose `Stage(u)` reads the stage from the tables, queues and processes |
| `EventTable` | the event table, `SetActiveEvent` statement by statement, under the locks of SQLite and of MySQL | `tx[s].pc` is the next statement of request `s` |
| `EventRegister` | the abstract promise about the organiser's pages | refined by `EventTable` (`KeepsRegister`) |
| `SseBroker` | `Listen`, `ServeHTTP`, `Notifier` | a send on an unbuffered channel and its receive are one step |
| `Feed` | the abstract promise of the stream: listeners in step, each offered every event in order | refined by `SseBroker` (`ImplementsFeed`): a listener's place is the last event whose round has come past it |
| `Gallery` | the browser's page over `SseBroker`: `getThumbnails` page by page, the stream, its end after five minutes, and its return | `page[v].chain` is the reading, `page[v].source` the `EventSource` |
| `Accounts` | `Register`, `CreateUser`, the administrator of `NewDb`, `Login`, `Logout`, the death and restart of processes | `signup[s].pc` is the next call of slot `s`: a request of the server, or a process that starts |
| `EventForm` | from the inputs of a form to the row: the browser, json-enc-custom, protojson, `CreateEvent` | pure functions; `Intended` is their reference |
| `Organisers` | over both: `AuthRequired`, `UserAuthorizedForEvent`, `createEvent`, `deleteEvent`, `handleGoogleRedirect`, `deleteGoogleToken`, `ExtractEventStorage` | `request[s]` is an authenticated request with its copy of the user |
| `PipelineProofs`, `PipelineLinkProofs`, `PipelineKeepProofs`, `EventTableProofs`, `SseBrokerProofs`, `GalleryProofs`, `AccountsProofs`, `OrganisersProofs` | theorems | each EXTENDS the module it is about |
| `MCPipeline`, `MCEventTable`, `MCGallery`, `MCOrganisers` | constants and symmetry for TLC | |

`Upload` and `Thumbnailer` extend `Bus`, which extends `Media`; `Thumbnailer`
also extends `StorageService`; `Pipeline` extends both and says which variables
each leaves alone. `Gallery` extends `SseBroker` and `Organisers` extends
`Accounts` and `EventForm` in the same way. Definitions named `X_Something`, marked "Mutant", are wrong
versions of `X`: replacing `X` by one of them must break a property, which shows
that the property depends on that code.

### How the code is abstracted

* Every call that can fail or that others can observe is a step of its own, in
  the order of the code. Two calls are merged only where nothing in between can
  change what the second finds (said at the definition).
* The four backends become two kinds. S3 and Drive are "fresh": a new identifier,
  the object appears whole. Filesystem and FTP are "named": the identifier is the
  file name, and `Store` truncates, then writes. Two interleaved writers may
  leave a mixture.
* File names are members of a small set with a function `ThumbName` for the name
  `Thumb` builds (`thumb_` + base name + `.webp`): two names with one thumbnail
  name, and a name that is itself a thumbnail name, are what matters.
* The message bus is core NATS as the code uses it: delivered at most once, to a
  subscriber that is there; `Ack` and `Nak` have no effect, so a failed `Thumb`
  simply ends.
* An autoincrement id is never used twice (`internal/data/db/db_test.go`).
* In `Pipeline` a deleted event stays deleted. That `tx.Save` can insert the row
  again is part of `EventTable`, where the race is.
* `Media`'s event statements are single SQL statements: a crash during one is the
  same as the statement before or after it.
* In `Accounts` an insert takes its id at INSERT and is seen by others after
  COMMIT. SQLite lets one insert in at a time; on MySQL two may commit in either
  order, which decides whom `GetUser`'s `First` finds. bcrypt and the signature
  of the token are taken to work: whoever logs in knows the password of that row.
* The ghosts of `Accounts` name the three ways to a second user of a name.
  `overlapped`: two were creating it at once. `blind`: a failed lookup took a name
  in use for an unused one (`CreateUser` drops that error). `headless`: a process
  has gone on with its start without there being an administrator, because
  `NewDb` looks at no error of `FirstOrCreate`; a guest may then register
  "admin", and the next process to start, which looks for the flag and not for
  the name, makes an administrator of that name all the same.
* In `Gallery` a thumbnail is its number in the order of announcements, and
  `CreatedAt` says how the table orders it: in another order, or with ties that
  the ORDER BY leaves open.
* `WriteTimeout` (`internal/server/http_server.go:93`) ends a stream after five
  minutes. Nothing is noticed then: the first event after it is written into the
  void, the handler leaves, and the browser connects again. `Expire` is that
  moment.
* In `EventForm` a text is present or not; its characters are left out.

`EventTable` models SQLite as the code's DSN leaves it: gorm's `BEGIN` is deferred,
the journal is the default rollback journal (WAL, which nobody turns on, is not
modelled). A transaction has a shared lock from `First` on, takes the one
reserved lock with its first write, and commits with the exclusive lock, when
nobody else has a shared one; a statement outside of a transaction is a
transaction of its own. So any number of activations can be past `First` at
once, and `TxFirst` is never held back. Whoever waits for a lock longer than the
busy timeout gets SQLITE_BUSY, from any statement and from the commit, and, since
requests that have nothing to do with events take the same locks, at any time.
An `Update` or a commit that gets it rolls its transaction back; a `Save` that
gets it goes unnoticed, and the `Update` after it may still go through when the
other transaction has been rolled back. The ghost `dropped` records the commit of
a transaction that should have made a `Save` and has not: two events are then
active, on any driver and without any fault but contention.

MySQL and MariaDB are repeatable read: plain reads do not lock, writes lock their
row until the end, a lock that cannot be had may be an error. With MariaDB's
`innodb_snapshot_isolation` a write to a row changed since the snapshot also
fails; the code drops `Save`'s error, and that outcome (the last branch of
`TxSave`) is in the model already.

## Runs

Each run finishes in under five minutes with two workers. `CHECK_DEADLOCK FALSE`
is set for `Pipeline` and `Gallery`, which really come to rest when all bounded
uploads or announcements are done; `EventTable` and `Organisers` never rest and
are checked for deadlock.

| Run | Instance | Checks | Shows |
|---|---|---|---|
| `faults` | embedded, one request of two files, one fresh store, one worker, every fault and crashes (118 000 states) | `TypeOK`, `AcceptedIsKept`, `RowsHaveObjects`, `ThumbnailsDepictTheirFiles`, `KeepsLedger` | whatever fails, an answer 200 is kept for good, no row points nowhere, and the pipeline implements `Ledger` |
| `workers` | compose, two workers that crash, images and videos (413 000) | `OneThumbnailPerFile`, `ThumbnailsDepictTheirFiles`, `MessagesFollowRows` | the queue group gives no file two thumbnails; messages find their rows |
| `readers` | one fresh store, images and videos, a browser and imagor reading, a cache and an imagor that fail (654 000) | `CacheCoherent`, `ServedIsRecorded`, `NothingServedAfterDelete`, `BytesAgree` | read-through and three fillers of one cache stay coherent, what is served is the upload or its thumbnail (for a video perhaps imagor's error page, never anything of another upload), and the inductive invariant holds |
| `named` | two events on one named store, colliding upload and thumbnail names (1 400 000) | `KeptUnlessNameTaken` | a photo on a filesystem or FTP store is damaged only by its name being used again |
| `live` | compose, a cache that fails, fairness (207 000) | `RequestsAreAnswered`, `QueuedIsShown`, `JourneysGoOn` | every request is answered, every photo delivered to a thumbnailer is announced; on its way no photo goes back or is lost, but for a missing subscriber or a deleted event |
| `landing` | three events, two activations at once, both drivers, statements and commits that are refused or fail (1 760 000) | `EventTableTypeOK`, `ReadsStayCurrent`, `LandingNeverLost`, `KeepsRegister` | on SQLite both may be past `First`, and still neither works with a stale copy and the table is an `EventRegister`; on either driver an activation never empties the landing page |
| `pages` | one gallery page and one other connection, two announcements, one picture per page, fairness (115 000) | `BrokerTypeOK`, `RegistryIsExact`, `EveryEventAccountedFor`, `GalleryTypeOK`, `PagingLeavesNoGap`, `RepeatsNeedArrivals`, `NothingElseIsLost`, `EventsGetThrough`, `GoneLeaves`, `OpenPagesAreStreamed`, `ImplementsFeed` | the registry is exact, the broker is a `Feed`, every event is handed out or skipped in order, a page has what was announced but for a gap that is named, nobody blocks anybody for ever, and a stream that was cut comes back |
| `organisers` | two people, one of them the administrator, two requests at a time, two processes that start and die, failing statements, MySQL; the guest registers every name, the administrator's too (2 700 000) | `OrganisersTypeOK`, `NamesAreUnique`, `SessionsKeepTheirUser`, `OnlyUnlinkingPanics`, `UnlinkingIsComplete`, `StoredAsIntended`, `NamesAreStable`, `OwnersDecide` | which interleavings make a second user of a name and what still holds then; who may delete an event; when a Drive event is without a token; a form arrives as it was filled in |
| `overwritten` | as `named`, one event | `AcceptedIsKeptOnEveryStore` is violated | see findings |
| `naked` | one upload, database faults, fairness | `NakedIsResent` is violated | see findings |
| `errorpage` | one video, imagor failing | `ThumbnailsAreImages` is violated | see findings |
| `twoactive` | MySQL, no faults | `AtMostOneActive` is violated | see findings |

**Bounds.** `Uploads` (two) and their requests: two goroutines are enough for
each pair of calls to interleave; an answer depends on all files of a request
symmetrically. `FreshIds` (four): two uploads and a thumbnail of each; a store
that runs out of identifiers only stops in the model, which is why a worker that
failed after storing uses one up and liveness is checked with no fault but those of
the cache.
`Workers` (two): the queue group and a take-over after a crash need two. One event
suffices where events do not share names; `named` has two on one store.
`Ids` of events (three): the active one, the next, and one that is neither or is
not there. `Sessions` (two): transactions conflict in pairs. `MaxEvents`
(two): one in the round and one in `Notifier`; with `Limit` one the second
thumbnail shifts the pages of the first. That leaves out a third one
waiting for `Notifier`, which the liveness of `pages` does not see; the safety
properties of `SseBroker` and `Gallery` are proved for any number.
`organisers` has MySQL only: SQLite's behaviours are those among them in which
no two inserts overlap between INSERT and COMMIT, and the theorems cover both.
Its two `UserIds` are the administrator and a guest, or a name twice, or the
administrator twice; two `TokenIds`, one event and two requests (slots are
symmetric) are what a stale copy, a hidden token and a race need. Its two forms
have boxes ticked at both levels and none. `GuestNames` lets the guest try
"ann" and "admin", so the second administrator that follows a failed start is
reached; the operator does not register beside the administrator.
`readers` has one fresh store because what may be said of bytes read from a store
is said of such stores only; `NothingServedAfterDelete` and `BytesAgree` are proved
with stores of either kind.
`SYMMETRY` is used in runs without liveness only, over sets the models treat
alike; where `RequestOf` is the identity requests and uploads are permuted
together.

**Fairness.** `Pipeline!Fairness` is weak fairness of the steps of goroutines,
HTTP handlers and subscription callbacks: the Go runtime runs what can run, and
every call they wait for returns (an HTTP or database call ends in an answer or
an error). Nobody is obliged to post, browse, organise, expire an entry, crash,
or restart the server. `SseBroker!Fairness` is strong fairness of the cases of
`Listen`'s `select`, because Go chooses at random among the ready ones and so
passes none over for ever; weak fairness of handing over or skipping (the timer
`patience` fires) and of a handler's own steps (a write to a dead connection
fails in the end). `Gallery!GalleryFairness` adds that the timer of sse.js fires,
and that a server which is asked for the stream again and again answers once
(strong fairness of `StreamOpens`; without it an overloaded or stopped server may
refuse every time). A page need not be read on: the guest may not scroll, and an
answer that is an error ends the reading. Nobody has to upload, or to open or
close a page.

### Findings

* `overwritten`: on filesystem and FTP stores a second upload with the same name
  replaces the first one's bytes, and only then is refused by the primary key
  (`internal/data/storage/filesystem.go:41`, `ftp.go:39`). The first guest had a
  200; `KeptUnlessNameTaken` says this is the only way to lose one.
* `naked`: `Start` relies on `Nak` to have a failed message sent again
  (`internal/service/thumbnailer.go:54`); core NATS ignores it, and the photo
  never gets a thumbnail.
* `errorpage`: `ThumbVideo` does not look at the status of imagor's answer
  (`internal/pkg/imagor/imagor.go:45`), so an error page becomes the thumbnail of
  the video. `ThumbnailsDepictTheirFiles`, `ServedIsRecorded` and `QueuedIsShown` allow just
  this page for a video (`MadeFrom`), and nothing else.
* `twoactive`: on MySQL two overlapping `SetActiveEvent` leave two events active
  (`internal/data/db/db.go:224`), and the landing page then shows the lowest id
  whatever is activated next. On SQLite it takes a `Save` that got SQLITE_BUSY
  and was dropped (`db.go:230`), while the other activation was rolled back.

Seen in the models without being a broken promise of the repository: a `SetEventLive`
that commits between the `First` and the `Save` of an activation is undone on
MySQL; an event deleted there is inserted again; a photo uploaded while no
thumbnailer is subscribed is kept but never shown; the `/sse` handler of a page
that has gone stays until the next announcement; two registrations at once make two
users of a name, of whom only the one `First` finds can log in; so does a guest who registers "admin" after
a start that could not create the administrator; a Drive event created
with a stale copy of the user, or before its owner unlinked Drive, has no token, and
the upload or `Thumb` that needs it panics; a thumbnail recorded after page 0 was read and
announced before the stream is registered is on neither; after an answer that is an
error the reading of a gallery's pages ends. In single event mode
`POST /event/:id/active` (`internal/server/ui_routes.go:121`) is behind no login, so
`OwnersDecide` is about the deletion of events only, and anybody's request is a session
of `EventTable`.

## Proofs

TLC's instances are small. The theorems hold for any sets of events,
stores, uploads, requests, workers, readers, connections, people, processes and
faults, for any number of announcements and any size of a page, for both
deployments and both kinds of driver. They use only the named assumptions of the
modules (`MediaAssumption`, `BusAssumption`, `UploadAssumption`,
`PipelineAssumption`, `EventTableAssumption`, `BrokerAssumption`,
`GalleryAssumption`, `AccountsAssumption`, `OrganisersAssumption`): the constants
have the right type, `None` is none of the values, names and fresh identifiers
are different, workers fetch through readers of their own, ids are naturals, the
ids of tokens have a greatest (a column of 64 bits), a page holds at least one
picture.

| Theorem | States |
|---|---|
| `PipelineProofs!TypeCorrect` | `Spec => []TypeOK` |
| `PipelineProofs!BytesAlwaysAgree` | `Spec => []BytesAgree` |
| `PipelineProofs!AcceptedPhotosAreKept` | `Spec => []AcceptedIsKept` |
| `PipelineProofs!CacheIsCoherent` | `Spec => []CacheCoherent` |
| `PipelineLinkProofs!RowsAlwaysHaveObjects` | `Spec => []RowsHaveObjects` |
| `PipelineLinkProofs!ThumbnailsAlwaysDepict` | `Spec => []ThumbnailsDepictTheirFiles` |
| `PipelineLinkProofs!MessagesAlwaysFollow` | `Spec => []MessagesFollowRows` |
| `PipelineLinkProofs!OneThumbnailAlways` | `Spec => []OneThumbnailPerFile` |
| `PipelineLinkProofs!DeletedIsNeverServed` | `Spec => []NothingServedAfterDelete` |
| `PipelineLinkProofs!ServedIsAlwaysRecorded` | `Spec => []ServedIsRecorded` |
| `PipelineKeepProofs!KeptUntilNameTaken` | `Spec => []KeptUnlessNameTaken` |
| `PipelineKeepProofs!PipelineKeepsLedger` | `Spec => KeepsLedger`, where every store is "fresh" |
| `PipelineKeepProofs!JourneysAlwaysGoOn` | `Spec => JourneysGoOn`, on any stores and with any faults |
| `EventTableProofs!TableTypeCorrect` | `Spec => []EventTableTypeOK` |
| `EventTableProofs!ReadsAlwaysCurrent` | `Spec => []ReadsStayCurrent` |
| `EventTableProofs!LandingIsNeverLost` | `Spec => LandingNeverLost` |
| `EventTableProofs!RegisterIsKept` | `Spec => KeepsRegister` |
| `SseBrokerProofs!BrokerTypeCorrect` | `Spec => []BrokerTypeOK` |
| `SseBrokerProofs!RegistryAlwaysExact` | `Spec => []RegistryIsExact` |
| `SseBrokerProofs!EventsAccountedFor` | `Spec => []EveryEventAccountedFor` |
| `SseBrokerProofs!BrokerIsAFeed` | `Spec => ImplementsFeed` |
| `GalleryProofs!GalleryUsesTheBroker` | `GallerySpec => Spec` |
| `GalleryProofs!GalleryTypeCorrect` | `GallerySpec => []GalleryTypeOK` |
| `GalleryProofs!PagesLeaveNoGap` | `GallerySpec => []PagingLeavesNoGap` |
| `GalleryProofs!RepeatsComeFromArrivals` | `GallerySpec => []RepeatsNeedArrivals` |
| `GalleryProofs!OnlyTheGapIsLost` | `GallerySpec => []NothingElseIsLost` |
| `OrganisersProofs!OrganisersTypeCorrect` | `Spec => []OrganisersTypeOK` |
| `OrganisersProofs!NamesAreAlwaysUnique` | `Spec => []NamesAreUnique` |
| `OrganisersProofs!SessionsAlwaysKeepTheirUser` | `Spec => []SessionsKeepTheirUser` |
| `OrganisersProofs!NamesStayTheirs` | `Spec => NamesAreStable` |
| `OrganisersProofs!OnlyOwnersDecide` | `Spec => OwnersDecide` |
| `OrganisersProofs!OnlyUnlinkingEverPanics` | `Spec => []OnlyUnlinkingPanics` |
| `OrganisersProofs!UnlinkingIsAlwaysComplete` | `Spec => []UnlinkingIsComplete` |
| `OrganisersProofs!RowsAreAsIntended` | `Stored(form) = Intended(form)` for every form there can be |
| `OrganisersProofs!EventsAreStoredAsIntended` | `Spec => []StoredAsIntended` |

**`BytesAgree`.** `AcceptedIsKept` is not inductive: that a photo is retrievable
when the answer goes out rests on what each goroutine had done several steps
earlier. The invariant adds, for everybody who holds an identifier or bytes,
that they agree with the object of the event's store: `UploadsWritten`,
`WorkersWrote`, `ReadersRead`, `CacheCoherent`, `FilesWritten`. It also says that
a goroutine past `AddFileInfo` has its row (`UploadsRecorded`), that an answer
"ok" comes after every goroutine (`AnswersWait`), and that whatever refers to an
event refers to one that exists or existed (`NothingUnborn`), whose store and
Cache column are therefore settled. The proof first shows what any step can
do to the shared state (`StepGrows`: on a fresh store an object that is there
never changes, rows are only added, a born event keeps its store) and to each
process that did not take it; then there is one lemma per conjunct, and in it one case
for the step that creates the fact. `StoreGrows` is where "fresh" is needed.

**`ReadsStayCurrent`.** That the table implements `EventRegister` on SQLite needs more
than "at most one active": a transaction must still know, when it commits, what
it read when it began. `IsCurrent(s)` says so for each stage of `SetActiveEvent`, and
it is inductive because of who may change the table: a statement outside of a
transaction only when nobody is past `First`, a transaction only when nobody else is
(`StaysCurrent`, `TxKeepsCurrent`). How many transactions have read, or have lost
their `Save`, does not matter to it; a lost `Save` matters to "at most one active" and
to the refinement, which both end with its commit (`SaveLost`, `dropped`). The commit
is the step that uses it (`WrittenActivates`): the saved row differs from the committed
one in `active` only, so the commit is exactly `Activate(target)`. `First`'s choice of
the lowest id is shown to find an element (`LowestIsIn`) by the well-foundedness of
`<`.

**`LandingNeverLost`** holds on both drivers and with dropped errors, from a
different invariant, `Committable`: the row about to be committed is visible to its
transaction, and stays so because its lock keeps `DeleteEvent` out.

**`Linked`.** What messages, rows, requests and galleries name is there. Each
holder of a reference has a conjunct: an upload between `AddFileInfo` and
`Publish`, a message in a queue or in a worker's hands, a notice, a request of a
browser or of imagor, bytes on their way to becoming a thumbnail. Stores, queues
and tables are tied step by step: `WorkersDepict` needs that imagor was served
the picture of the message (`FetchesFollowMessages`, `RequestsFollowRows`), that
what is served is the object (`BytesAgree`), and that the row's identifier is
unique (`FilesAreUnique`). `OnePlace` is why there is one thumbnail: a photo is
with its upload, or in one place of one queue, or with one worker, or has its
row, and in one of them only. A step either moves nothing, or one photo from one
place to the next (`PhotosMove`); each of the four moves, and standing still, has a
lemma that keeps `OnePlace`.

**`Keeping`** adds what the named stores need: an upload truncates the object of
its name, fills it, and whoever else writes that object has been given the name
(`WriterTakesName`), which is then taken for ever (`NameStaysTaken`).

**`KeepsLedger`.** Where all stores are fresh, `Kept` and `Shown`, which speak
of objects, can be read from the tables alone (`TablesTell`). Then a step that
records a file is `Keep`, one that announces is `Show` of one photo, because thumbnail
identifiers and file identifiers are unique, an answer is `Accept` or `Fail`, and
a crash is `Fail` of all open requests. A new row by itself shows nothing: it
has not been announced (`ShownWaitsForAnnounce`).

**`JourneysGoOn`.** `Stage(u)` takes the first sign of a photo's whereabouts that it
finds. The proof needs the signs to exclude each other, so that a step can be read
off what it does to one of them (`StageTells`). `OnePlace` gives most of that;
`Travelling` adds what it does not: an upload has one row (`RecordedOnce`), and a
thumbnail is about to be published by one worker, or once in the server's queue,
or announced (`NoticedOnce`). Where `Journey` says that nothing is lost
(`Dependable`: only the cache fails, all stores are fresh), one must also know that
nothing else can fail: a fetch does only if the event is gone, and
`AddThumbnailInfo` never meets an identifier that is taken (`NothingFails`). Then
there is a lemma for each way on (`RecordingAdvances`, `QueueingAdvances`,
`ReceivingAdvances`, `ThumbnailingAdvances`, `AnnouncingAdvances`) and for each way
to be lost (`UnqueuedIsLost`, `ReleasingLoses`); all other steps leave every stage
alone, but for a crash, which loses at once what a process had taken.

**`SseBroker`.** `EveryEventAccountedFor` becomes inductive with the numbering of
events across `Notifier` and the round (`Numbered`), and with `Unused`: a
connection that is not registered starts with a clean account. The two ways an
account grows, an event handed out and one passed over, are lemmas about sequences
and sets. `ImplementsFeed` says what no single account can: how the pages stand to each
other and to the callback. Whom the round has still to come to is one event behind the
others (`PlacesAre`); a handler joins or leaves at the `select` only, where all are at
one place; taking an event and ending a round move nobody. The numbering then bounds
how far the announcements are ahead of the slowest page.

**`Gallery`.** Every step of the gallery is a step of the broker or leaves it
alone, so the broker's invariants carry over (`GalleryUsesTheBroker`). A listing
puts a row that is not tied exactly behind those that are newer, so the row is on
the page that their number falls on; a row that is added moves others to later
pages only. That turns into the invariant `Reads`: of the rows page 0 knew, one that has not
been shown is still to come. `Sourced` and `Delivered` tie the browser's
`EventSource` and its pictures to the handler on the other side.

**`NamesAreUnique`.** Where nobody has been careless with a name (`Careful`), at most one
slot is creating it, none while a user has it, and at most one user has it. For the
administrator's name that needs `AdminFirst`: whoever has started found an
administrator there, so no guest gets the name, and whoever is starting makes one
only if there is none. `Doubted` are the names for which this fails: `blind`, and the
administrator's once a process is `headless`.

**`Organisers`.** The facts about accounts are in `AccountsProofs`: a slot owns the
row it inserts, ids are taken in order, and, on MySQL, an insert that commits
later has the later id unless the name is `overlapped`; so the user `First` finds stays the
one it found (`NamesAreStable`, `SessionsKeepTheirUser` and `OwnersDecide` except such
names on MySQL, by `Unsettled`). A request's copy of the user is stale, but the user it
names is not: rows of users are never removed. Its flag `linked` may be stale too,
and `OnlyUnlinkingPanics` holds because only unlinking makes it so.
`GoogleDriveToken` chooses the greatest id, which exists because ids are bounded.
`RowsAreAsIntended` is about the loop over the inputs of a form. The library's
induction theorems take an operator and cannot be used here; the proof argues with
the least number of rounds for which the loop is undefined (`EncodingIsDefined`) or
has not made exactly the keys of the inputs seen so far (`Encodes`, `FormIsEncoded`),
which the round before it contradicts.

Model-checked only: the liveness properties `RequestsAreAnswered`, `QueuedIsShown`,
`EventsGetThrough`, `GoneLeaves` and `OpenPagesAreStreamed` (the prover has no rule
for fairness and ENABLED), and the four properties that the code violates. Every
safety property and every refinement of a passing run is also a theorem. No module
declares a RECURSIVE operator.

## Not modelled

* Graceful shutdown (`cmd/server.go`, `cmd/thumbnailer.go`): the 10 second limit,
  the clean-up functions and the draining of subscriptions. A process that stops
  is a crash in `Pipeline` and `Organisers`, which may come at any step and so
  covers every way a shutdown can leave the data; what is missing is that a
  shutdown ends.
* Pages other than the gallery, QR codes and the contact form render state and
  change none.
* Validation and conversion (`internal/pkg/validate`, `prodto`) are pure functions
  of one value; the slug rule matters only as "refused", which is an outcome of
  every action that creates an event.
* The growing delay of sse.js (half a second to 64 seconds) is one timer; its
  count of attempts changes nothing but the delay.
* Migration and the encryption of columns, base64 in the cache, bcrypt and
  the signature of tokens are taken to work.
* The panic of `SetEventLive` on MySQL (`internal/data/db/db.go:136`) comes after
  the statement has taken effect and changes no state that another request sees.
* Configuration is read once and appears as constants.
* Generated code (protobuf messages, wire, mocks) and the vendored scripts
  (lightgallery, htmx, video.js, masonry, Google's client) are not this
  repository's logic. Of them sse.js takes part, as far as the gallery uses it.
* imagor, NATS, the databases, storage services, Google and Go's scheduler are
  external and modelled as the code uses them.

## Plan

Done, in this order: `Media`, `Bus`, `Upload`, `StorageService`, `Thumbnailer`,
`Pipeline`, `Ledger`; `EventRegister`, `EventTable`; `SseBroker`; `Accounts`,
`EventForm`, `Organisers`; `Gallery`; `Journey`, `Feed`; and the proofs above, which cover every
safety property of the passing runs.

What could come next:

1. `LifeCycle`: start and graceful shutdown of both processes, with open `/sse`
   connections that keep `Shutdown` waiting.
2. The gallery over the pipeline: `Announce` of `Gallery` is the `Announce` of
   `Thumbnailer` seen from the other side; one composition would carry a photo from
   `POST` to the screen in a single model.
3. Pure operators against reference definitions: the thumbnail name (`TrimRight`
   with a cut set), the slug rule.
