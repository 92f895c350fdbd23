-------------------------- MODULE FirestoreWrites --------------------------
(***************************************************************************)
(* The write path of the Firestore client the chat app is built with: what *)
(* happens between addDocument and the call of its completion block.       *)
(*                                                                         *)
(* Every action is one task of the client's worker queue (a serial queue,  *)
(* so a handler runs to its end before the next one starts), a step of the *)
(* backend, or the death of the process.  SyncEngine keeps the completion  *)
(* blocks, LocalStore and LevelDbMutationQueue keep the batches on disk,   *)
(* RemoteStore keeps the write pipeline and drives the write stream.       *)
(***************************************************************************)
EXTENDS Integers, Sequences, FiniteSets, FiniteSetsExt, SequencesExt

CONSTANTS
    User,        \* users of this device; one of them stands for "signed out"
    Message,     \* documents of the messages collection
    MaxPending   \* kMaxPendingWrites

ASSUME MaxPendingAssumption == MaxPending \in Nat \ {0}

VARIABLES
    \* On disk: survives the process.
    queue,              \* [User -> Seq(Batch)]: mutation rows, by batch id
    \* In memory.
    currentUser,        \* SyncEngine::current_user_
    nextBatchId,        \* LevelDbMutationQueue::next_batch_id_
    callbacks,          \* [User -> SUBSET Batch]: mutation_callbacks_
    pipeline,           \* RemoteStore::write_pipeline_
    stream,             \* Stream::state_ of the write stream
    handshakeComplete,  \* WriteStream::handshake_complete_
    idle,               \* Stream::idleness_timer_ is scheduled
    \* The connection: requests sent and not answered to the client yet, and
    \* how many of them the backend has carried out.
    wire, answered,
    \* The backend and what the app has seen.
    committed,          \* message documents in the order they were created
    submitted,          \* [User -> Seq(Message)]: all writes, in order
    outcome             \* [Message -> Outcome]: what each block was told

memory == <<currentUser, nextBatchId, callbacks>>
network == <<pipeline, stream, handshakeComplete, idle, wire, answered>>
vars == <<queue, memory, network, committed, submitted, outcome>>

Batch == [id : Nat, doc : Message]

StreamState == {"Initial", "Starting", "Open", "Error", "Backoff"}

Outcome == {"none", "ok", "error"}

kBatchIdUnknown == -1

Committed(m) == Contains(committed, m)

SubmittedBy(u, m) == Contains(submitted[u], m)

-----------------------------------------------------------------------------
(* The mutation queue on disk *)

IdsOf(rows) == {rows[i].id : i \in DOMAIN rows}

\* The rows of a user's queue.
Rows(u) == {queue[u][i] : i \in DOMAIN queue[u]}

\* Faulty: looks at the queue of one user only.
LoadNextBatchIdOfCurrentUser(q) == Max({0} \cup IdsOf(q[currentUser])) + 1

\* One more than the largest id in any user's queue: recomputed whenever a
\* queue is started, so ids are handed out again once their rows are gone.
LoadNextBatchIdFromDb(q) == Max({0} \cup UNION {IdsOf(q[u]) : u \in User}) + 1

\* A new row goes behind all rows of its user: its id is the largest.
AddMutationBatch(rows, id, m) == Append(rows, [id |-> id, doc |-> m])

RemoveMutationBatch(rows, id) ==
    RemoveAt(rows, CHOOSE i \in DOMAIN rows : rows[i].id = id)

\* Faulty: the row itself is found again.
NextFrom(rows, id) ==
    CHOOSE i \in 1..(Len(rows) + 1) :
        /\ \A j \in 1..(i - 1) : rows[j].id < id
        /\ i <= Len(rows) => rows[i].id >= id

\* The position of the first row whose id is greater than the given one.
NextAfter(rows, id) ==
    CHOOSE i \in 1..(Len(rows) + 1) :
        /\ \A j \in 1..(i - 1) : rows[j].id <= id
        /\ i <= Len(rows) => rows[i].id > id

-----------------------------------------------------------------------------
(* The write pipeline and the write stream *)

IsStarted(s) == s \in {"Starting", "Open", "Backoff"}

\* Faulty: one batch too many.
RoomPastLimit(p) == MaxPending + 1 - Len(p)

\* CanAddToWritePipeline: how many batches the pipeline still takes.
Room(p) == MaxPending - Len(p)

\* The batches FillWritePipeline loads behind those of p: the rows after the
\* last one in p, while there is room.
Loaded(rows, p) ==
    LET last  == IF p = <<>> THEN kBatchIdUnknown ELSE p[Len(p)].id
        first == NextAfter(rows, last)
    IN  SubSeq(rows, first, Min({Len(rows), first + Room(p) - 1}))

\* Stream::Start: an error is followed by a backoff.
Start(s) == IF s = "Error" THEN "Backoff" ELSE "Starting"

\* Faulty: a stream that failed is not started again.
RestartedUnlessFailed(s, p) == IF s = "Initial" /\ p # <<>> THEN Start(s) ELSE s

\* ShouldStartWriteStream and StartWriteStream: a stopped stream is started
\* when there is something to write.
Restarted(s, p) == IF ~IsStarted(s) /\ p # <<>> THEN Start(s) ELSE s

\* Faulty: a send leaves the idle timer running.
IdleAfterUncancelled(t, s, full, sent) == IF full = <<>> THEN t \/ s = "Open" ELSE t

\* The idle timer: MarkIdle schedules it on an open stream with nothing left
\* to write, a send cancels it.
IdleAfter(t, s, full, sent) ==
    IF full = <<>> THEN t \/ s = "Open" ELSE t /\ sent = <<>>

\* FillWritePipeline for pipeline p, stream state s with handshake hs, wire w
\* and idle timer t: a batch that enters the pipeline of an established
\* stream is sent at once.
FillWritePipeline(rows, p, s, hs, w, t) ==
    LET more == Loaded(rows, p)
        full == p \o more
        sent == IF s = "Open" /\ hs THEN more ELSE <<>>
    IN  /\ pipeline' = full
        /\ wire' = w \o sent
        /\ idle' = IdleAfter(t, s, full, sent)
        /\ stream' = Restarted(s, full)

\* RestartNetwork: the stream is stopped, pipeline and error state are
\* cleared, and the pipeline is filled from the given rows.
RestartNetwork(rows) ==
    /\ FillWritePipeline(rows, <<>>, "Initial", FALSE, <<>>, FALSE)
    /\ handshakeComplete' = FALSE
    /\ answered' = 0

\* Faulty: the block is told "ok" whatever the status.
NotifyUserOk(id, result) ==
    LET called == {c \in callbacks[currentUser] : c.id = id}
    IN  /\ outcome' = [m \in Message |->
                          IF \E c \in called : c.doc = m THEN "ok" ELSE outcome[m]]
        /\ callbacks' = [callbacks EXCEPT ![currentUser] = @ \ called]

\* Faulty: the block is kept after it was called.
NotifyUserAgain(id, result) ==
    /\ outcome' = [m \in Message |->
                      IF \E c \in callbacks[currentUser] : c.id = id /\ c.doc = m
                      THEN result ELSE outcome[m]]
    /\ UNCHANGED callbacks

\* NotifyUser: the block kept for this batch id of the current user, if there
\* is one, is called and forgotten.
NotifyUser(id, result) ==
    LET called == {c \in callbacks[currentUser] : c.id = id}
    IN  /\ outcome' = [m \in Message |->
                          IF \E c \in called : c.doc = m THEN result ELSE outcome[m]]
        /\ callbacks' = [callbacks EXCEPT ![currentUser] = @ \ called]

\* The same call, when the process dies before anything else is remembered.
NotifyUserAndDie(id, result) ==
    outcome' = [m \in Message |->
                   IF \E c \in callbacks[currentUser] : c.id = id /\ c.doc = m
                   THEN result ELSE outcome[m]]

\* mutation_callbacks_ is a map: an insert under a key in use does nothing.
InsertCallback(id, m) ==
    callbacks' = [callbacks EXCEPT ![currentUser] =
                     IF \E c \in @ : c.id = id THEN @ ELSE @ \cup {[id |-> id, doc |-> m]}]

-----------------------------------------------------------------------------

Init ==
    /\ queue = [u \in User |-> <<>>]
    /\ currentUser \in User
    /\ nextBatchId = 1
    /\ callbacks = [u \in User |-> {}]
    /\ pipeline = <<>>
    /\ stream = "Initial"
    /\ handshakeComplete = FALSE
    /\ idle = FALSE
    /\ wire = <<>>
    /\ answered = 0
    /\ committed = <<>>
    /\ submitted = [u \in User |-> <<>>]
    /\ outcome = [m \in Message |-> "none"]

\* addDocument: SyncEngine::WriteMutations for a document with a fresh id.
WriteMutations(m) ==
    /\ \A u \in User : ~SubmittedBy(u, m)
    /\ submitted' = [submitted EXCEPT ![currentUser] = Append(@, m)]
    /\ queue' = [queue EXCEPT ![currentUser] = AddMutationBatch(@, nextBatchId, m)]
    /\ nextBatchId' = nextBatchId + 1
    /\ InsertCallback(nextBatchId, m)
    /\ FillWritePipeline(queue'[currentUser], pipeline, stream, handshakeComplete, wire, idle)
    /\ UNCHANGED <<currentUser, handshakeComplete, answered, committed, outcome>>

\* SyncEngine::HandleCredentialChange: the mutation queue is swapped only for
\* another user, the streams are restarted for a fresh token too.
HandleCredentialChange(u) ==
    /\ currentUser' = u
    /\ nextBatchId' = IF u = currentUser THEN nextBatchId ELSE LoadNextBatchIdFromDb(queue)
    /\ RestartNetwork(queue[u])
    /\ UNCHANGED <<queue, callbacks, committed, submitted, outcome>>

\* The connectivity callback of RemoteStore::Start.
ConnectivityChanged ==
    /\ RestartNetwork(queue[currentUser])
    /\ UNCHANGED <<queue, memory, committed, submitted, outcome>>

\* The auth token has arrived: the stream opens at once and sends its
\* handshake.
ResumeStartWithCredentials ==
    /\ stream = "Starting"
    /\ stream' = "Open"
    /\ UNCHANGED <<queue, memory, pipeline, handshakeComplete, idle, wire, answered,
                   committed, submitted, outcome>>

\* Faulty: writes that waited for the handshake are not sent.
HandshakeWithoutPipeline ==
    /\ stream = "Open"
    /\ ~handshakeComplete
    /\ handshakeComplete' = TRUE
    /\ UNCHANGED <<queue, memory, pipeline, stream, idle, wire, answered,
                   committed, submitted, outcome>>

\* The first response on a stream completes the handshake, and the whole
\* pipeline is sent.
OnWriteStreamHandshakeComplete ==
    /\ stream = "Open"
    /\ ~handshakeComplete
    /\ handshakeComplete' = TRUE
    /\ wire' = wire \o pipeline
    /\ idle' = (idle /\ pipeline = <<>>)
    /\ UNCHANGED <<queue, memory, pipeline, stream, answered, committed, submitted, outcome>>

\* The backend carries out the oldest request it has not carried out yet and
\* answers it.  Writing a document that is there already changes nothing.
BackendCommits ==
    /\ answered < Len(wire)
    /\ LET m == wire[answered + 1].doc
       IN  committed' = IF Committed(m) THEN committed ELSE Append(committed, m)
    /\ answered' = answered + 1
    /\ UNCHANGED <<queue, memory, pipeline, stream, handshakeComplete, idle, wire,
                   submitted, outcome>>

\* An answer is taken to be for the oldest batch of the pipeline: its block is
\* called, its row deleted, and the pipeline filled again.
OnWriteStreamMutationResult ==
    /\ answered > 0
    /\ LET id == Head(pipeline).id
       IN  /\ NotifyUser(id, "ok")
           /\ queue' = [queue EXCEPT ![currentUser] = RemoveMutationBatch(@, id)]
    /\ FillWritePipeline(queue'[currentUser], Tail(pipeline), stream, handshakeComplete,
                         Tail(wire), idle)
    /\ answered' = answered - 1
    /\ UNCHANGED <<currentUser, nextBatchId, handshakeComplete, committed, submitted>>

\* Faulty: the batch that is given up stays on disk.
HandleWriteErrorKeepsRow ==
    /\ stream = "Open"
    /\ handshakeComplete
    /\ pipeline # <<>>
    /\ NotifyUser(Head(pipeline).id, "error")
    /\ FillWritePipeline(queue[currentUser], Tail(pipeline), "Initial", FALSE, <<>>, FALSE)
    /\ handshakeComplete' = FALSE
    /\ answered' = 0
    /\ UNCHANGED <<queue, currentUser, nextBatchId, committed, submitted>>

\* The stream has ended with a permanent error while writes were underway:
\* the oldest batch of the pipeline is given up.
HandleWriteError ==
    /\ stream = "Open"
    /\ handshakeComplete
    /\ pipeline # <<>>
    /\ LET id == Head(pipeline).id
       IN  /\ queue' = [queue EXCEPT ![currentUser] = RemoveMutationBatch(@, id)]
           /\ NotifyUser(id, "error")
    /\ FillWritePipeline(queue'[currentUser], Tail(pipeline), "Initial", FALSE, <<>>, FALSE)
    /\ handshakeComplete' = FALSE
    /\ answered' = 0
    /\ UNCHANGED <<currentUser, nextBatchId, committed, submitted>>

\* Any other error: no token, no handshake, a transient status, or nothing to
\* send.  The pipeline is kept and sent again after a backoff.
OnWriteStreamClose ==
    /\ stream \in {"Starting", "Open"}
    /\ stream' = Restarted("Error", pipeline)
    /\ handshakeComplete' = FALSE
    /\ idle' = FALSE
    /\ wire' = <<>>
    /\ answered' = 0
    /\ UNCHANGED <<queue, memory, pipeline, committed, submitted, outcome>>

\* The idle timer stops the stream.
IdleTimeout ==
    /\ idle
    /\ stream' = "Initial"
    /\ handshakeComplete' = FALSE
    /\ idle' = FALSE
    /\ wire' = <<>>
    /\ answered' = 0
    /\ UNCHANGED <<queue, memory, pipeline, committed, submitted, outcome>>

BackoffElapsed ==
    /\ stream = "Backoff"
    /\ stream' = Start("Initial")
    /\ UNCHANGED <<queue, memory, pipeline, handshakeComplete, idle, wire, answered,
                   committed, submitted, outcome>>

\* A new process: FirestoreClient::Initialize for the user FirebaseAuth
\* remembers.
Initialize(u) ==
    /\ currentUser' = u
    /\ nextBatchId' = LoadNextBatchIdFromDb(queue)
    /\ callbacks' = [v \in User |-> {}]
    /\ RestartNetwork(queue[u])
    /\ UNCHANGED <<queue, committed, submitted>>

KillAndRelaunch(u) == Initialize(u) /\ UNCHANGED outcome

\* HandleSuccessfulWrite calls the completion block first and deletes the row
\* after that: the process dies between the two.
KillWhileAcknowledging(u) ==
    /\ answered > 0
    /\ NotifyUserAndDie(Head(pipeline).id, "ok")
    /\ Initialize(u)

Next ==
    \/ \E m \in Message : WriteMutations(m)
    \/ \E u \in User : HandleCredentialChange(u)
    \/ ConnectivityChanged
    \/ ResumeStartWithCredentials
    \/ OnWriteStreamHandshakeComplete
    \/ BackendCommits
    \/ OnWriteStreamMutationResult
    \/ HandleWriteError
    \/ OnWriteStreamClose
    \/ IdleTimeout
    \/ BackoffElapsed
    \/ \E u \in User : KillAndRelaunch(u)
    \/ \E u \in User : KillWhileAcknowledging(u)

Spec == Init /\ [][Next]_vars

\* Token, handshake, answer and their delivery each get through in the end if
\* they get a chance again and again; the backoff timer runs off on its own.
\* Nothing makes the app write, the user change, or an error happen.
Fairness ==
    /\ SF_vars(ResumeStartWithCredentials)
    /\ SF_vars(OnWriteStreamHandshakeComplete)
    /\ SF_vars(BackendCommits)
    /\ SF_vars(OnWriteStreamMutationResult)
    /\ WF_vars(BackoffElapsed)

FairSpec == Spec /\ Fairness

-----------------------------------------------------------------------------
(* Properties *)

\* Every variable has its type, and the pipeline never holds more than
\* kMaxPendingWrites batches (AddToWritePipeline asserts it).
TypeOK ==
    /\ queue \in [User -> Seq(Batch)]
    /\ currentUser \in User
    /\ nextBatchId \in Nat
    /\ callbacks \in [User -> SUBSET Batch]
    /\ pipeline \in Seq(Batch)
    /\ Len(pipeline) <= MaxPending
    /\ stream \in StreamState
    /\ handshakeComplete \in BOOLEAN
    /\ idle \in BOOLEAN
    /\ wire \in Seq(Batch)
    /\ answered \in 0..Len(wire)
    /\ committed \in Seq(Message)
    /\ submitted \in [User -> Seq(Message)]
    /\ outcome \in [Message -> Outcome]

\* p is the front of the given rows.
IsFrontOf(p, rows) ==
    /\ Len(p) <= Len(rows)
    /\ \A i \in 1..Len(p) : p[i] = rows[i]

\* The pipeline is the front of the current user's queue on disk, batch for
\* batch: what FillWritePipeline, the acknowledgements, the rejections, the
\* user changes and the restarts leave behind never skips, repeats or mixes
\* up a batch.
PipelineIsQueueFront == IsFrontOf(pipeline, queue[currentUser])

\* On an established stream the requests without an answer are exactly the
\* batches of the pipeline, in order, so that taking an answer to be for the
\* front of the pipeline is right (the assertion in
\* OnWriteStreamMutationResult follows); without one nothing is underway.
WireMatchesPipeline ==
    wire = IF stream = "Open" /\ handshakeComplete THEN pipeline ELSE <<>>

\* The assertion of OnWriteStreamClose, "Write stream was stopped gracefully
\* while still needed": whenever the idle timer can go off, the stream is up
\* and there is nothing to write; and MarkIdle only ever finds a stream that
\* has finished its handshake.
IdleOnlyWhenDrained ==
    idle => stream = "Open" /\ handshakeComplete /\ pipeline = <<>>

\* Something to write is never left with a stream that nobody will start.
NeverStranded ==
    /\ pipeline # <<>> => IsStarted(stream)
    /\ pipeline = <<>> => queue[currentUser] = <<>>

\* A completion block waits for exactly the write it was given for: batch ids
\* are handed out again after a restart or a change of user, but never while
\* a block is registered under one.
CallbackForItsWrite ==
    \A u \in User :
        /\ callbacks[u] \subseteq Rows(u)
        /\ \A c \in callbacks[u], row \in Rows(u) : row.id = c.id => row = c

\* "Message saved." is the truth: the backend has the document.
OkMeansCommitted == \A m \in Message : outcome[m] = "ok" => Committed(m)

\* The backend creates the messages of one user in the order they were sent.
CommitsFollowSubmission ==
    \A u \in User : \A i, j \in DOMAIN submitted[u] : \A k, l \in DOMAIN committed :
        (i < j /\ committed[k] = submitted[u][i] /\ committed[l] = submitted[u][j]) => k < l

\* A completion block that has been called is not called again with another
\* result.
ToldOnce == [][\A m \in Message : outcome[m] # "none" => outcome'[m] = outcome[m]]_vars

-----------------------------------------------------------------------------
(* The inductive invariant: what the properties above need to be preserved *)

IsOrdered(rows) == \A i, j \in 1..Len(rows) : i < j => rows[i].id < rows[j].id

\* Rows are in the order of their ids, and the next id is above all of them,
\* also above those of the users that are not signed in.
RowsByIncreasingId ==
    \A u \in User :
        /\ IsOrdered(queue[u])
        /\ \A i \in 1..Len(queue[u]) : queue[u][i].id < nextBatchId

\* The stream is up or coming up without a handshake only for the sake of the
\* pipeline, and a handshake belongs to an open stream.
StartedForThePipeline ==
    /\ (IsStarted(stream) /\ ~handshakeComplete) => pipeline # <<>>
    /\ handshakeComplete => stream = "Open"

\* What has been answered has been stored.
AnsweredIsCommitted == \A i \in 1..answered : Committed(wire[i].doc)

\* A message is written once: it is in one row of one user, who submitted it.
RowsAreSubmitted ==
    /\ \A u \in User : \A r \in Rows(u) : SubmittedBy(u, r.doc)
    /\ \A u, v \in User : \A r \in Rows(u), s \in Rows(v) :
          r.doc = s.doc => u = v /\ r = s

\* A block that is still registered has not been called.
RegisteredNotTold ==
    /\ \A u \in User : \A c \in callbacks[u] : outcome[c.doc] = "none"
    /\ \A m \in Message : outcome[m] # "none" => \E u \in User : SubmittedBy(u, m)

IInv ==
    /\ TypeOK
    /\ RowsByIncreasingId
    /\ PipelineIsQueueFront
    /\ WireMatchesPipeline
    /\ StartedForThePipeline
    /\ IdleOnlyWhenDrained
    /\ NeverStranded
    /\ CallbackForItsWrite
    /\ AnsweredIsCommitted
    /\ OkMeansCommitted
    /\ RowsAreSubmitted
    /\ RegisteredNotTold

-----------------------------------------------------------------------------
(* The refinement mapping *)

Queued(u, m) == \E r \in Rows(u) : r.doc = m

\* Written and no longer queued: acknowledged, or given up.
SettledMessages ==
    {m \in Message : \E u \in User : SubmittedBy(u, m) /\ ~Queued(u, m)}

WaitingMessages == {m \in Message : \E u \in User : \E c \in callbacks[u] : c.doc = m}

Store == INSTANCE MessageStore WITH
             settled <- SettledMessages,
             waiting <- WaitingMessages

\* The write path implements MessageStore.
StoreSpec == Store!Spec

\* While its author stays signed in, a message in the queue is settled in the
\* end, through any number of stream errors, restarts and relaunches.
Delivered ==
    \A u \in User, m \in Message :
        <>[](currentUser = u) => (Queued(u, m) ~> ~Queued(u, m))
=============================================================================
