# Verification of the iOS bootcamp apps

This directory holds TLA+ models of the programs of this repository, the TLC
runs that check them, and proofs checked by TLAPS. The repository is a set of
small iOS apps; the one with real concurrency is **Flash Chat**, a chat over
Firebase, and the client library it ships with. Most of the models are about
these; the quote app, the to-do app, the calculator and the Twitter library of
Twittermenti have one each.

## The system

| Part | State | Operations | How it interacts |
|---|---|---|---|
| **Flash Chat** (`Flash-Chat-iOS13-master/Flash Chat iOS13`) | navigation stack, a message list and a table per chat screen, a text field | register, log in, send, log out, show a snapshot | calls FirebaseAuth and Firestore, is called back on the main queue |
| **FirebaseAuth** (pod) | current user (keychain), requests underway | sign in, sign up, sign out, notify | posts auth changes and completion blocks to the main queue |
| **Firestore client, listening side** (pod: `event_manager.cc`, `query_listener.cc`, `view.cc`, `sync_engine.cc`, `remote_event.cc`, `remote_store.cc`, `local_store.cc`, `online_state_tracker.cc`) | listeners, view, limbo documents, targets with their resume tokens and unanswered requests, remote document cache, online state | listen, leave, apply watch events, resolve limbo, repair a filter mismatch, swap the user, refuse a query | runs on a worker queue, talks to the backend, sends snapshots to the main queue |
| **Firestore client, write path** (pod: `remote_store.cc`, `stream.cc`, `write_stream.cc`, `leveldb_mutation_queue.cc`) | mutation queues on disk, write pipeline, write stream, completion blocks | write, acknowledge, reject, restart, change user | runs on the same worker queue, talks to the backend |
| **InspoQuotes** | purchased flag, premium rows, StoreKit queue | buy, restore, finish | observer of the payment queue |
| **Todoey** | Realm categories and items, table rows, search filter | add, toggle, delete, search | Realm and SwipeCellKit |
| **Calculator** | display text, pending operation | digit, operation | none |
| **Swifter** | HTTP requests, OAuth token, stream buffer, upload | request, authorise, upload in chunks, poll | Twitter's API |
| **HackerNewsReader, Twittermenti, NameThatFlower, SeeFood** | last answer shown | fetch, classify | one request each |
| **AR Ruler, ARDiceee, Dicee, business card, classroom** | points, dice | tap | ARKit |

The hard behaviours are in the first four: three threads of control (main
queue, worker queue, backend) that reach each other only through queues; state
read on one and used on another; a process that can be killed at any point with
writes on disk; streams that die with requests underway; users that change
while everything of the previous one is still in flight. What makes each part
correct:

* write path: nothing is lost, skipped, sent for the wrong user, stored twice
  or reported wrongly, and what is queued is delivered in the end;
* listening side: every listener's last snapshot is the current view; a view
  that is not "from cache" is the backend's, and it catches up;
* FirebaseAuth: who is signed in is known to Firestore before the app acts on it;
* app: the table agrees with the list, a chat is only shown to somebody signed
  in, a draft is only cleared for a save, no index is out of range;
* quote app: what was paid for is neither lost nor shown to somebody who has
  not paid, wherever the process dies;
* to-do app: the rows of a table are the live results behind it;
* Twitter upload: the server gets the whole media and the caller an answer.

`PROJECT.json` lists every hazard with its line and the properties aimed at it.

## Modules

| Module | Contents |
|---|---|
| `MessageStore` | what the write path promises the app: an outbox per user, delivered in order, each message stored and reported at most once |
| `FirestoreWrites` | the write path in detail, its properties, its inductive invariant, and the mapping under which it implements `MessageStore` |
| `FirestoreRefinementProofs` | lemmas about the queue operators, the invariant (pipeline, wire, timer and stream; completion blocks, batch ids, commits, order) and the theorems that follow from it, the last of which is that `FirestoreWrites` implements `MessageStore` |
| `FirestoreWatch`, `FirestoreWatchProofs` | the listening side in detail, for one query: watch stream, aggregator, limbo resolution, resume tokens, existence filters, online state; proofs that its types, the code's assertions and the count of answers hold |
| `FlashChat` | the app, FirebaseAuth and the listening side, composed with `MessageStore` in place of the write path |
| `MCFlashChat` | `FlashChat` with its symmetry |
| `FlashChatProofs` | types, table rows, navigation and listening, for any number of screens, accounts and messages |
| `FlashChatQueueProofs` | what rests on the order of the two queues: drafts, snapshots, senders, and the scroll to the last row |
| `Sorting`, `SortingProofs` | a set of numbers in order, and the elements of a sequence that are in a set; what both return |
| `InspoQuotes`, `InspoQuotesProofs` | the in-app purchase, and proofs of its safety properties |
| `Todoey`, `MCTodoey`, `TodoeyProofs` | both screens of the to-do app over one Realm; which titles match which search; proofs of all its properties |
| `SwifterMedia`, `SwifterMediaProofs` | the chunked media upload, and proofs of its safety properties |
| `Calculator` | typing into the display and reading it back |

`FlashChat` composes with the abstract store instead of `FirestoreWrites`: the
run `FirestoreWrites` checks, and `FirestoreRefinementProofs` proves, that the
detailed module implements the abstract one (`StoreSpec`), so the app is checked
against the promise, and the promise against the code. `FlashChat` also sees the
listening side from outside: `ApplyRemoteEvent` brings any new documents;
`FirestoreWatch` is what stands behind it, without the app.

### FirestoreWrites

One action is one task of the worker queue (`AsyncQueue`), which is serial: a
handler and everything it calls runs to its end. `queue` is on disk (mutation
rows by batch id), everything else dies with the process.

| Definition | Code |
|---|---|
| `WriteMutations` | `SyncEngine::WriteMutations`, `LocalStore::WriteLocally`, `FillWritePipeline` |
| `HandleCredentialChange` | `SyncEngine::HandleCredentialChange`, `LocalStore::HandleUserChange`, `RestartNetwork` |
| `ConnectivityChanged` | the callback of `RemoteStore::Start` |
| `ResumeStartWithCredentials` | token arrived, gRPC stream up, handshake sent |
| `OnWriteStreamHandshakeComplete`, `OnWriteStreamMutationResult` | `WriteStream::NotifyStreamResponse` and the `RemoteStore` handlers |
| `HandleWriteError` | a permanent error after the handshake: one batch is given up |
| `OnWriteStreamClose` | any other end of the stream |
| `IdleTimeout`, `BackoffElapsed` | the two timers of `Stream` |
| `BackendCommits` | the backend carries out a request (external) |
| `KillAndRelaunch`, `KillWhileAcknowledging` | the process dies; in the second case between `NotifyUser` and `AcknowledgeBatch` |

`wire` is the sequence of requests the client has sent on the current stream
and has not seen answered; `answered` counts those at its front that the
backend has carried out. Dropping `wire` when a stream ends loses the answers,
not the writes: a write may be stored and sent again.

What is taken for granted, because it lies outside the code: requests die with
their stream; the backend ends a write stream with an error status; writing a
document that exists under the same id changes nothing. `FillWritePipeline` is
only ever called with the network enabled, as the app never disables it.
A process that dies in `HandleRejectedWrite` between the removal of the batch
and the call of the block leaves what a process leaves that dies before both
and is refused again after its relaunch.

### FirestoreWatch

Again one action is one task of the worker queue, a step of the backend or the
death of the process. The state is grouped as the code groups it: `disk` is
what `LocalStore` has written (documents with the version they were read at, a
target's keys, its resume token, the last snapshot), `engine` is `SyncEngine`
with its view and limbo bookkeeping, `remote` is `RemoteStore` with the stream,
the `WatchChangeAggregator` and the `OnlineStateTracker`. Handlers are operators
from one such record to the next, so that the call chains of the code
(`OnWatchStreamChange` to `RaiseWatchSnapshot` to `ApplyRemoteEvent` to
`UpdateLimbo` to `PumpEnqueuedLimboResolutions`) are the nesting of operators
in one step. `history`, `viewVersion` and `crossed` are there for the properties:
what the backend had at each version, the version that the last event told the
view of, and how many refusals of the query have crossed an unwatch of it on
this connection (`Crosses`: the refusal is read when the listener has left, and
perhaps come back).

| Definition | Code |
|---|---|
| `Listen`, `StopListening` | `SyncEngine::Listen` with the first view from disk; `StopListening` with `ReleaseTarget` |
| `OnTargetAdded` ... `OnExistenceFilter` | what `OnWatchStreamChange` hands to the aggregator |
| `OnGlobalSnapshot`, `RaiseWatchSnapshot`, `CreateRemoteEvent` | a consistent snapshot becomes a remote event; mismatched targets are asked for again |
| `StoreTargetChange`, `ApplyToView`, `UpdateLimbo` | keys and token on disk, the view, documents that enter and leave limbo |
| `OnTargetError`, `HandleRejectedListen` | a target is refused; for a limbo target the document counts as deleted |
| `Open`, `Close`, `IdleTimeout`, `RestartNetwork`, `OnlineStateTimeout` | the stream, its timers, and the online state |
| `ServeWatch`, `ServeUnwatch`, `Refuse`, `Advance`, `Commit` | the backend and other clients (external) |

A document has a life (`Absent`, `Matching`, `Other`, `Deleted`) in which each
stage has a later version, so a level stands for a version of the document.
`Answers` lists the ways in which the backend may answer a watch request: what
changed since the token, with or without values; a reset and all documents; the
additions and a count; for a limbo document a delete or a count of 0. What is
taken for granted: the messages of a stream arrive in order, a snapshot is sent
when every target being served has been brought to its version, and an unwatch is
answered, also that of a target that was refused.

### FlashChat

`main` is the main queue, `tasks` the worker queue; both hold small records,
one per block that the code sends. `RunBlock` and `RunTask` run their heads.
Taps happen between blocks.

| Definition | Code |
|---|---|
| `LoginPressed` | `loginPressed`, `registerPressed` (the same shape) |
| `SignInAnswered`, `SignedIn` | `signInFlowAuthDataResultCallback...`, `updateCurrentUser`: the notification is sent to the main queue before the caller's block |
| `PostAuthStateChange` | the notification reaches Firestore's credentials provider, which enqueues the user change |
| `PerformSegue` | the closure of `loginPressed`, and `viewDidLoad` of the chat it pushes |
| `OnSnapshot`, `ReloadAndScroll` | the two halves of `loadMessages`, one main-queue hop apart |
| `SendPressed`, `MessageSaved`, `ClearField` | `sendPressed`, its completion block and the block that one sends |
| `LogOutPressed`, `CellForRow` | the methods of these names |
| `AddQueryListener`, `WriteMutations`, `HandleCredentialChange` | tasks of the worker queue, each with the events it sends (`Publish`) |
| `ShouldRaise` | `ShouldRaiseInitialEvent`, `ShouldRaiseEvent` |
| `ApplyRemoteEvent`, `HandleRejectedListen`, `GoOffline` | the watch stream |
| `Settle` | the write path reports the oldest write of the user |
| `Relaunch` | the process is killed, or has crashed, and starts again |

A message is a number that stands for its date; the documents of other devices
appear by `ForeignWrite`, and those in `Malformed` lack a field and are skipped
by the list. A form is held weakly by its closure and a chat strongly by its
listener: `Free` says when a screen object can be a new one. UIKit's behaviour
is external: scrolling to row -1 and asking for a row the list does not have
end the process (`crashed`); only the top screen is laid out; a chat has no
back button (`hidesBackButton`). Two variables only record what has happened:
`early` the messages sent while a sign-in was underway, `retracted` whether a
document has left Firestore's view since the launch. No guard reads them.

### The smaller apps

`InspoQuotes`: StoreKit's queue (`state`) and the flag (`purchased`) survive the
process. `updatedTransactions` runs statement by statement (`Remember`,
`Display`, `FinishPurchase`), because the process may die between any two of
them and the queue then tells of the transaction again. `Todoey`: the Realm, the
live `Results` of a screen (`TodoItems`) and the rows its table counts on; each
write may fail, and `Explains` is UIKit's check of an inserted or deleted row.
`SwifterMedia`: `request` and `answer` are the one HTTP request underway;
`SubData` is the range `appendUpload` cuts, with bytes named by their position;
the server side is external. The answer to FINALIZE may name any state of the
processing, so that `StatusCheck` ends or goes on from there as it does from an
answer to STATUS; that it force-unwraps `state` and `check_after_secs`
(`SwifterMedia.swift:113-115`), and so ends the process over an answer without
them, is outside the model: the server sends both. `Calculator`: the display is
abstracted to what `Double(text)` and `floor` make of it.

## Runs

| Run | Bounds | Shows |
|---|---|---|
| `FirestoreWrites` | 2 users, 3 messages, pipeline of 2 | the nine safety properties and `StoreSpec`; 344,552 states |
| `FirestoreWritesLive` | 2 users, 2 messages, pipeline of 1 | `Delivered` |
| `FlashChat` | 2 accounts, 1 message, 2 screens, 2 overlapping sign-ins, refused writes, outages | list, table, session, sender, draft and crash properties; 3,266,788 states |
| `FlashChatLive` | 1 account, 2 messages, 1 screen | `SentIsShown`, `ReceivedIsShown` |
| `FirestoreWatch` | 2 documents, 1 commit, at most 4 limbo targets and 2 at a time, 2 answers underway when a listener leaves | the code's assertions, the count of answers, and that a view not from cache is the backend's; connections lag, listeners come and go, the process dies |
| `FirestoreWatchLive` | 2 documents, 2 commits, existence filters | `ViewCatchesUp` |
| `FirestoreWatchMismatch` | 2 documents, 1 commit, existence filters and a listener that leaves | a violation: see Findings |
| `FirestoreWatchRefused` | 2 documents, 1 commit, and the query refused while its listener comes and goes | a violation: see Findings |
| `InspoQuotes` | 3 transactions, 2 free and 2 premium quotes | the purchase across deaths of the process |
| `Todoey` | 2 categories, 3 items, 2 searches | rows, searches, crashes |
| `SwifterMedia` | 0 to 10 bytes in chunks of 3 | the upload |
| `Calculator` | none needed: the state is finite | a violation: see Findings |

Why the bounds are enough. A pipeline of two with three messages has a batch
being answered, one behind it and one that only fits later; a second user gives
a swap with batches on either side, and batch ids that coincide. The limit is a
constant in the proofs. In `FlashChat`, two sign-ins give two chats on the
stack and two listeners; two screens give a leaked listener next to a live one.
`MaxQueued` bounds only the moment a sign-in may start, so that a user who logs
in and out without end does not fill the queues; inside a session the queues
are unbounded. Symmetry over accounts and screens is sound: no definition
orders them or chooses among them. The live runs use none.

In `FirestoreWatch` two documents let one be removed, or in limbo, while another
stays; one commit (two versions) puts a connection before, at and behind the
client's snapshot, and the live run has two commits, so that a document can
match, stop matching and be deleted. `MaxWire` only bounds the answers underway
when a listener leaves, so that leaving and coming back does not fill the wire;
two are enough to have an answer to an old request in front of the new one's.
Target ids for limbo are numbers that are never used twice, so a relaunch starts
over and a refusal needs ids to spare. `Filters` is off in `FirestoreWatch`,
because with it `SyncedViewIsServer` fails (Findings), and so is `Lags` in the
live run: with a lagging connection a refused limbo target can leave the
document in limbo for as long as nothing else changes (`view.cc:378`).
`MaxCrossed` bounds the refusals of the query that cross on a connection. It is
0 in these runs, so that they refuse limbo targets only, because after a
crossing `SyncedViewIsServer` fails: the run `FirestoreWatchRefused` has it at
1. That the other properties hold for every bound and whatever is refused is
proved; what the app sees of a refused query is in `FlashChat`. The sizes of
`SwifterMedia` are all residues of the chunk size, up to four chunks; three
transactions of `InspoQuotes` are a first purchase, a second one and a restored
one.

What the chat app does not guarantee. Two properties of `FlashChat` except a case,
because in that case the code fails:

* `SenderOwnsQueue` except a message sent while a sign-in was underway. Nothing
  disables the login button (`LoginViewController.swift:22`): pressed twice, it
  leaves a sign-in running behind the chat that the first answer has pushed. When
  its answer comes just before somebody sends, the message names the new account
  and waits in the queue of the old one. The property says that nothing else does
  this: not logging out and in again, not a late
  answer to a form that was left, not a change of account with messages unsent.
* `CrashHasCause` names the two causes of a crash. With an empty collection, or
  with malformed documents only, `ReloadAndScroll` scrolls a table without rows
  to row -1 (`ChatViewController.swift:86`). And a document may leave Firestore's
  view, when a write is refused or the user changes: the list gets shorter between
  the two halves of `loadMessages`, and `cellForRowAt` is asked for a row that is
  gone, or the last row is row -1 after all. Without either there is no crash,
  however many snapshots are queued, screens left behind and sign-ins overlapped.

Both cases are in the run `FlashChat`, and its other properties hold in them as
well. No document is malformed and none is cached at the first launch in the
runs of the chat app, where they would double the states; the theorems about it
hold for any of both.

Every property has a mutant in `PROJECT.json`: a faulty form of one definition,
kept just before the definition it replaces and marked "Faulty", under which
TLC finds the property violated.

## Fairness

`FirestoreWrites`: strong fairness of token, handshake, commit and answer (a
stream may fail again and again, but not every time), weak fairness of the
backoff timer. Nothing forces errors, user changes or kills to stop; `Delivered`
only asks that the author stays signed in. `FlashChat`: the main queue and the
worker queue run on (dispatch queues do), and the watch stream catches up when
it stays possible. No user action and no answer to a write or a sign-in is
assumed. `FirestoreWatch`: the client reads what it is sent (`Read`), and a
backend that is connected answers requests and goes on to its newest version;
nothing makes a connection stay or a listener come, and `ViewCatchesUp` asks for
both. `InspoQuotes`: the main thread goes on with what it has begun, and
StoreKit tells of what is unfinished; nobody has to launch the app.
`SwifterMedia`: `URLSession` ends every request, if only with a timeout, the
main queue and `asyncAfter` go on, and the server gets through with what it
processes.

## Findings

* `Calculator`: the getter of `displayValue` ends the process. Its `fatalError`
  (`ViewController.swift:22`) asserts that the text of the display is a number,
  but a point can be typed first, or behind a text like `5.` whose value is
  whole. (The comment above it, about a display that always contains text, only
  justifies the force-unwrap, and is right.)
* `FirestoreWatchMismatch`: a listener that leaves after an existence filter
  mismatch has been gathered and comes back before the next snapshot leaves
  token and keys out of step: the token is cleared in `listen_targets_`, the keys
  on disk and the view's synced documents stay, because an inactive target gets
  no change in the remote event. When the connection then breaks, the target is
  asked for without a token; the full answer has no word of a document that is
  gone, and the view is raised as not from cache with that document in it.

* `FirestoreWatchRefused`: `ProcessTargetError` drops the state of a refused
  target with its count of outstanding responses (`remote_store.cc:359`), also
  when requests that went out behind the refused one are still to be answered.
  Their answers make a new state and count it down from 0, so that the watch of
  the next listener brings the count to 0 again and the target counts as
  answered at once. What is still on the wire for an earlier watch is then taken
  for the new one's: a CURRENT whose documents were ignored, while nobody
  listened, raises the new view as not from cache and empty. TLC needs a
  listener that leaves, comes back, and is refused, twice, and a backend that
  then accepts it; with a backend that leaves the unwatch of a refused target
  unanswered one refusal is enough.

Also seen, and listed as hazards without a property: a limbo key that waits
for a free slot is not taken out of the queue when its document leaves limbo
(`sync_engine.cc:557`); the stream reader of Swifter keeps a chunk that does not
parse in front of all later ones (`Swifter.swift:215`).

## Proofs

### The write path

For every set of users and messages and every `MaxPending` in Nat \ {0}
(assumption `MaxPendingAssumption`; nothing else is assumed), TLAPS checks:

* `PipelineInvariant`: rows are ordered by id below `nextBatchId`, the pipeline
  is the front of the queue, the wire is the pipeline on an established stream,
  a started stream without handshake has something to write, the idle timer
  runs only when drained, nothing is stranded. These need each other: to remove
  the head of the pipeline from disk one needs that it is the head of the
  queue; that the refill continues where the pipeline ends needs the order of
  the ids; that no batch is stranded after an answer needs that the stream
  stayed open.
* `Invariant`: the above with `CallbackForItsWrite`, `AnsweredIsCommitted`,
  `OkMeansCommitted`, `RowsAreSubmitted` and `RegisteredNotTold`. The last
  three strengthen: an acknowledged head is a committed document because
  answers are at the front of the wire, and the wire is the pipeline; a block
  is told once because a registered block has not been told, and no message is
  in two rows.
* From it `TypeCorrect`, `PipelineCorrect`, `WireCorrect`, `IdleCorrect`,
  `NoWriteStranded`, `CallbackCorrect`, `OkIsTrue` and the action property
  `NeverToldTwice`.

The argument splits each step into what it does to the queue operators
(`Filling`, `Stopped`, `Restarting`, `NextAfterFront`: "the first row after the
pipeline is the row at its length plus one") and what it does to the completion
blocks (`Notifying`, `EndNotifies`, `CallbackStep`).

For the order there is `OrderInv`. `CommitsFollowSubmission` is not
inductive: that a message is stored after its predecessors needs that the wire
is the front of the queue and that the backend works through a front of it
(`CommittedIsFront`), that the queue is what is left of the messages submitted
(`QueueIsRest`), and that a message is submitted once. `CommitIsNext` says that
the backend carries out the row behind those it has answered; the theorem is
`OrderCorrect`.

Last comes `Refinement`, `Spec => StoreSpec`, under the
mapping in `FirestoreWrites`: a message is settled when it was submitted and its
row is gone, and waiting while a block is registered for it. The steps:

| `FirestoreWrites` | `MessageStore` |
|---|---|
| `WriteMutations` | `Submit` |
| `OnWriteStreamMutationResult`, `HandleWriteError` | `Settle` with "ok" or "error" |
| `BackendCommits` | `Commit`, or nothing for a document that is there already |
| `KillAndRelaunch` | `Relaunch` |
| `KillWhileAcknowledging` | `RelaunchAfterTelling` |
| all others | nothing |

The lemmas carry what a mapping by rows needs: a block is the one for its row
(`BlockOfRow`), the first row is the oldest message that is not settled
(`FirstIsOldest`), and the settled messages of a user are exactly those before
its rows (`SettledFacts`).

### The listening side

For every finite set of documents, any number of versions, any limit of limbo
resolutions, with filters, lags and a listener that leaves possible or not
(`FirestoreWatchAssumption`):

| Theorem | Inductive invariant |
|---|---|
| `WatchTypeCorrect` | `TypeInv`: the types of disk, engine, remote, wire and backend; `Linked`: what RemoteStore listens to is the query, if it has a view, and the limbo resolutions, each for the one document it is about |
| `WatchAcksMatchWire`, `WatchAssertionsHold` | `WatchInv`: `TypeInv` and `WholeInv` |

One hypothesis stands in the theorems. `~IsFiniteSet(LimboTarget)`: the target ids
do not run out, as `target_id_generator.cc` counts on; with finitely many,
`NextId` has nothing to return in the end. (The last guard of `Refuse` compares
the number of ids that are left, which says nothing then: the proofs use none
of it and cover both outcomes.) Any target may be refused at any time, the query
included, `Refused` and `MaxCrossed` being any.

`AcksMatchWire` is about targets that are listened to; it is not inductive, since
a target may be listened to again, and about the query it is right only until a
refusal of it crosses. `WholeInv` (`Whole` in the module) says:

* `Quiet`: unless the stream is open nothing is asked, awaited, under way or
  served;
* `Counted`: for every target, listened to or not, as many answers are awaited
  as are to come (`ToCome`: requests not read and answers not delivered). For
  the query the two differ by a number, `off`, that only a crossing changes and
  that is 0 without one: `WholeInv` says that there is such a number. It need
  not be known for the rest of the invariant. For a limbo target nobody listens
  to any more it may be more, because its refusal is then ignored, but never
  fewer; one that is listened to awaits one at most, so that a refusal, which
  drops the state, leaves nothing to come;
* `Fated`: a limbo target is asked for once. Its watch request is the first thing
  on its way and the backend does not serve it before; once its end (a removal
  or a refusal) is on the wire, the backend does not serve it any more;
* `Aimed`: requests, served documents, messages and gathered changes of a limbo
  target are about its one document, so it has at most one change;
* `Tagged`: for the query and for an active limbo target a gathered change is an
  addition exactly if the target does not have the document, and a target
  without pending changes has none. The sets that `RemoteKeys` returns move when
  an event is applied, which is why the second half is needed: applying an event
  leaves nothing gathered for the targets whose keys it moves;
* `Clocks`: the two timers run only when they may.

The loops of the code are folds, which are recursive functions in the library.
For each of them (`Solves...`: removing and tracking limbo targets, pumping the
waiting ones, resetting a target, synthesizing deletes, watching all targets,
the news for all targets) a lemma shows that the recursion has a solution and
that a predicate kept by every turn holds at the end; what a step does is then
one turn at a time. `Sound` is that predicate for the loops of the sync engine:
between any two turns the client is already in a state of the invariant.

### The chat app

For every set of accounts, forms, screens and messages and any bound on the
requests and the queue (`FlashChatAssumption`; the documents cached at the first
launch are finitely many), with refused writes and outages possible or not:

| Theorem | Inductive invariant |
|---|---|
| `TypeCorrect` | `TypeInv`: the types, with the entries of both queues, a request per form, and the finite sets behind each list |
| `TableAgrees` | `RowsInv`: a reload is queued for every chat whose list has run ahead of its table |
| `ChatsAreSignedIn` | `NavInv`: the shape of the stack (`StackShape`), and that a push waiting on the main queue is for somebody who is signed in (`PushMeansSignedIn`) |
| `VisibleChatListens` | `ListenInv` |
| `ClearedMeansSaved` | `SavedInv`: a completion block on the main queue, and the clearing it sends, are for a message that the backend has (`SavedIsCommitted`) and that was sent from that chat (`Authored`) |
| `ListsAreViews` | `LatestInv`: the last snapshot queued for a listener, or its list when none is queued, is the view (`Follows`) |
| `SendersOwnTheirQueues` | `OwnerInv` |
| `CrashesHaveCauses` | `ListsGrow` |

`TopChatListens` is not inductive because listeners are removed: a refused query
(`HandleRejectedListen`) takes them all, but needs that nobody is signed in on
the worker queue. `ListenInv` says why the top chat is not among them. Its task
is behind every user change that leads to nobody, or its listener was added
after the last of these; and the closure that will push a chat has, in front of
it on the main queue, the notification of its sign-in, which sends the worker
queue the change to somebody. Two generic predicates carry this over the
queues: `Clean(q, Out, n)`, no entry after the n-th is in `Out`, and
`Sure(q, In, Out, n)`, an entry before the n-th is in `In` and none after it in
`Out`; `ShiftedClean` and `ExtendedClean` say what running the head and sending
blocks does to them.

`LatestInv` rests on the two ways in which the code tells a listener: the first
snapshot when it is added, and one for every change of the view. Since blocks
run in the order they were sent, the last one decides. What is sent is
`Selected` of the listeners, so `SelectedElements` in `SortingProofs` (each of
them that should be told, and no other) is what replaces a loop.

`OwnerInv` follows the user through the two queues: the user changes on their
way (`LastAuth`, `NoAuth`, `AccountRules`) end with who is signed in, the
notification of a sign-in is right in front of the caller's block (`Answered`),
and a message that waits its turn on the worker queue meets its sender there
(`WritesRule`) unless it is in `early`. A chat can only send while its session
goes on, and what changes the user then is an answer to a request that was
underway: that is all the exception has to cover, for any number of sign-ins.

`ListsGrow` says for every screen, as long as no document has left the view: the
table has no more rows than the list, the list no more than the view, and the
snapshots queued for it hold ever more documents, each at least what the list has
(`Grows`). A reload then finds as many messages as the table has rows or more, so
that only a table without rows can scroll to row -1, and no row is asked for that
is not there.

### The smaller apps

* `TodoeyProofs`, for any categories, items and searches (`TodoeyAssumption`).
  The swipe deletes a row of the table without reloading it, so `RowsAreResults`
  rests on a fact about the two orders in which results come: taking an item
  out of the Realm takes exactly its row out of the results. `AscendingWithout`
  is that fact for the list by title, `SelectedWithout` for the list newest
  first, where the positions behind the item move up; `CellsWithout` puts them
  together. They rest on `AscendingUnique` and `SelectedAt` in `SortingProofs`: a
  set of numbers has one list in increasing order. `IInv` adds to the checked
  properties that no item is in the Realm twice, that a name for an item is
  only asked for on an items screen, and that an empty search bar goes with
  unsearched results. `TypeCorrect`, `RowsShowResults`, `NoSearchShowsAll` and the
  action property `CrashesOnlyAfterFailedWrite` follow.
* `InspoQuotesProofs`, for any transactions and numbers of quotes
  (`InspoQuotesAssumption`): `IInv` adds to the types that payments, flag and
  premium quotes stem from an account that owns the product, that
  `updatedTransactions` past its first statement is at a paid transaction with
  the flag on disk, and that the table has counted on the flag except during
  one statement. `TypeCorrect`, `OnlyPaid`, `RowsAgree` and the action property
  `NotForgotten` follow.
* `SwifterMediaProofs`, for any size and chunk size (`SwifterMediaAssumption`):
  `IInv` adds what each request and answer say of the media (`ProgressInv`), that
  the tweet is posted last and once (`TweetInv`), and that the server has the
  segments up to the one asked for, none of them beyond the data
  (`SegmentInv`). `TypeCorrect`, `SegmentsFit`, `SuccessIsTrue` and
  `FinalizedWhole` follow. The last one is about `FlattenSeq`, a recursive
  function: `Flattened` shows that a solution of its recursion is the only one,
  and the numbers up to the end of each segment (`End`) are a solution.

`Ascending` and `Selected` are defined by `CHOOSE`, not by recursion, so that
what they return can be proved: `AscendingExists` is an induction over the size
of the set, done as a search for a smallest counterexample (`LeastNumber`, from
the well-foundedness of the numbers).

### Only model-checked

`SyncedViewIsServer` of `FirestoreWatch`. Its inductive invariant has to follow
the contents of the stream: for every target that is served, what the client has
on disk, in the view and in the aggregator, with the messages still under way,
is what the backend had at the version of the next snapshot, and this through
tokens that are saved late, lagging connections and documents in limbo. The
theorems above give the part of it that is about which messages count; the
part about what they say is left to TLC. All liveness properties, which the prover
does not reach: `Delivered`, `SentIsShown`, `ReceivedIsShown`,
`ViewCatchesUp`, `PaidIsSettled`, `CallerIsTold`.

## Not modelled

* Of the Firestore client: several queries and queries with a limit,
  transactions, garbage collection of the cache, token refresh (the pairing of a
  token with the current user inside `GetToken` is a known gap, listed as a
  hazard), writes of more than one document. The chat app has one query and
  none of these.
* Of FirebaseAuth: other providers, and failures to save to the keychain.
* Of Swifter: the OAuth flow, which is a chain of single requests, and the
  stream reader, whose state is text that is parsed character by character. The
  other endpoint files build requests.
* HackerNewsReader, Twittermenti, NameThatFlower and SeeFood: one request, whose
  answer replaces what is shown. AR Ruler, ARDiceee, Dicee, the business card
  and the classroom exercises: rendering, or a list that a tap extends.
* Views, storyboards, formatting, generated code, and the vendored pods below the
  Firestore core (gRPC, BoringSSL, abseil, LevelDB, Realm), which make up nearly
  all the lines of the repository: they are used through their interfaces.

## Plan

1. `MessageStore`, `FirestoreWrites`, their proofs and the refinement: done.
2. `FlashChat` over `MessageStore`, with proofs of all its safety properties: done.
3. `FirestoreWatch`, with proofs of its types, of the code's assertions and of the
   count of answers: done. Left: a proof of `SyncedViewIsServer`, which holds
   without `Filters` and without crossing refusals of the query only; two queries that share documents; the limit of limbo
   resolutions with ids that are used again.
4. `InspoQuotes`, `SwifterMedia` and `Todoey` with their proofs, `Calculator`:
   done.
5. Left: the stream reader of Swifter, with its chunks as a small set.
