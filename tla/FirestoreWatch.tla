---------------------------- MODULE FirestoreWatch ----------------------------
(***************************************************************************)
(* The listening side of the Firestore client: how the view of a query     *)
(* follows the backend over the watch stream.                              *)
(*                                                                         *)
(* RemoteStore sends a request for each target and hands what the stream   *)
(* brings to a WatchChangeAggregator; a global snapshot turns what has     *)
(* been gathered into a remote event, which LocalStore writes to disk and  *)
(* SyncEngine applies to the view.  A document that the disk has and the   *)
(* backend does not report is in limbo: a target of its own finds out what *)
(* became of it.                                                           *)
(*                                                                         *)
(* There is one query, as in the chat app.  Each action is a task of the   *)
(* client's worker queue, a step of the backend, or the process's death.   *)
(* The backend reads requests as they come; its answers take any time.     *)
(***************************************************************************)
EXTENDS Integers, Sequences, FiniteSets, FiniteSetsExt, SequencesExt, Functions, Sorting

CONSTANTS
    Doc,            \* documents: numbers, in the order of their keys
    MaxVersion,     \* bound: the backend's versions
    LimboTarget,    \* bound: target ids for limbo resolutions, numbers above 0
    MaxWire,        \* bound: answers under way when a listener leaves
    MaxConcurrentLimboResolutions,
    Refused,        \* the targets that the backend may refuse
    MaxCrossed,     \* bound: refusals of the query that cross on a connection
    Filters,        \* the backend may have forgotten removals and send a count
    Lags,           \* a new connection may be behind the last snapshot
    Leaves          \* the listener may leave and the process may die

ASSUME FirestoreWatchAssumption ==
    /\ Doc \subseteq Nat /\ IsFiniteSet(Doc)
    /\ MaxVersion \in Nat \ {0}
    /\ LimboTarget \subseteq Nat \ {0}
    /\ MaxWire \in Nat
    /\ MaxConcurrentLimboResolutions \in Nat \ {0}
    /\ Refused \subseteq {0} \cup LimboTarget
    /\ MaxCrossed \in Nat
    /\ {Filters, Lags, Leaves} \subseteq BOOLEAN

VARIABLES
    disk,          \* what LocalStore has written
    engine,        \* SyncEngine, its view, LocalStore's active target
    remote,        \* RemoteStore, its stream, aggregator and online state
    wire,          \* what the backend has sent and the client has not read
    history,       \* Seq([Doc -> Level]): the backend's documents by version
    served,        \* the version this connection has got to
    watched,       \* the documents of each target the backend serves
    viewVersion,   \* the version of the last event that told of the query
    crossed        \* the refusals of the query that crossed on this connection

vars == <<disk, engine, remote, wire, history, served, watched, viewVersion, crossed>>
backend == <<wire, history, served, watched>>

Query == 0
Target == {Query} \cup LimboTarget

\* What is known of a document.  A document has a life: it is not there,
\* matches the query, exists but does not match, is deleted.  A later stage
\* has a later version.
Absent == 0
Matching == 1
Other == 2
Deleted == 3
Level == Absent..Deleted

Empty == <<>>

Drop(f, x) == [y \in DOMAIN f \ {x} |-> f[y]]
With(f, x, v) == [y \in DOMAIN f \cup {x} |-> IF y = x THEN v ELSE f[y]]

-----------------------------------------------------------------------------
(* OnlineStateTracker: [state, failures, timer].                           *)

Online(state) == [state |-> state, failures |-> 0, timer |-> FALSE]

HandleWatchStreamStart(o) ==
    IF o.failures # 0 THEN o ELSE [o EXCEPT !.state = "Unknown", !.timer = TRUE]

\* kMaxWatchStreamFailures is 1.
HandleWatchStreamFailure(o) ==
    IF o.state = "Online" THEN [o EXCEPT !.state = "Unknown"]
                          ELSE [state |-> "Offline", failures |-> 1, timer |-> FALSE]

\* ApplyOnlineStateChange: going offline makes the view not current.
Broadcast(e, r) == IF r.online.state = "Offline" THEN [e EXCEPT !.current = FALSE] ELSE e

-----------------------------------------------------------------------------
(* RemoteStore.  r is its state:                                           *)
(*   listens   listen_targets_, by target: [token, docs]                   *)
(*   stream    "off", "starting" (waiting for a token or a backoff), "open"*)
(*   idle      the idle timer is scheduled                                 *)
(*   requests  sent and not read by the backend yet                        *)
(*   states    the aggregator's target_states_                             *)
(*   updates   pending_document_updates_, by document; Absent stands for   *)
(*             a NoDocument without a version                              *)
(*   resets    the query is in pending_target_resets_                      *)
(*   online    the OnlineStateTracker                                      *)

NewTargetState ==
    [outstanding |-> 0, current |-> FALSE, pending |-> TRUE, token |-> 0, changes |-> Empty]

StateOf(r, t) == IF t \in DOMAIN r.states THEN r.states[t] ELSE NewTargetState

\* Faulty: messages from before the last answer count.
IsListened(r, t) == t \in DOMAIN r.listens

\* A target is active that is listened to and has all its requests answered.
IsActive(r, t) == t \in DOMAIN r.listens /\ StateOf(r, t).outstanding = 0

FirstRemote == [listens |-> Empty, online |-> Online("Unknown"),
                stream |-> "off", idle |-> FALSE, requests |-> <<>>,
                states |-> Empty, updates |-> Empty, resets |-> FALSE]

\* CleanUpWatchStreamState, with what the stream itself forgets.
CleanUp(r) == [FirstRemote EXCEPT !.listens = r.listens, !.online = r.online]

Request(type, t, data) == [type |-> type, target |-> t, token |-> data.token, docs |-> data.docs]

\* Faulty: a request leaves the idle timer running.
SendWhileIdle(r, request) ==
    [r EXCEPT !.requests = Append(@, request),
              !.states = With(@, request.target,
                              [StateOf(r, request.target) EXCEPT !.outstanding = @ + 1])]

\* SendWatchRequest and SendUnwatchRequest.
Send(r, request) ==
    [r EXCEPT !.requests = Append(@, request),
              !.idle = FALSE,
              !.states = With(@, request.target,
                              [StateOf(r, request.target) EXCEPT !.outstanding = @ + 1])]

StartWatchStream(r) ==
    [r EXCEPT !.stream = "starting", !.online = HandleWatchStreamStart(@)]

\* RemoteStore::Listen
ListenTo(r, t, data) ==
    LET listening == [r EXCEPT !.listens = With(@, t, data)]
    IN  CASE r.stream = "off"  -> StartWatchStream(listening)
          [] r.stream = "open" -> Send(listening, Request("watch", t, data))
          [] OTHER             -> listening

\* RemoteStore::StopListening
StopListeningTo(r, t) ==
    LET stopped == [r EXCEPT !.listens = Drop(@, t)]
        told    == IF r.stream = "open" THEN Send(stopped, Request("unwatch", t, r.listens[t]))
                                        ELSE stopped
    IN  IF told.listens # Empty THEN told
        ELSE IF r.stream = "open" THEN [told EXCEPT !.idle = TRUE]
        ELSE [told EXCEPT !.online = Online("Unknown")]

-----------------------------------------------------------------------------
(* SyncEngine.  c is [engine, remote], and c.engine is:                    *)
(*   listening    the query has a view                                     *)
(*   documents, synced, current, limbo   the view's document_set_,         *)
(*                synced_documents_, current_, limbo_documents_            *)
(*   data         the query's target data in LocalStore: [token,           *)
(*                limboFree], the latter last_limbo_free_snapshot_version  *)
(*   byKey        active_limbo_targets_by_key_                             *)
(*   resolutions  active_limbo_resolutions_by_target_: [key, received]     *)
(*   enqueued     enqueued_limbo_resolutions_                              *)

NoData == [token |-> 0, limboFree |-> 0]

FirstEngine == [listening |-> FALSE, documents |-> {}, synced |-> {}, current |-> FALSE,
                limbo |-> {}, data |-> NoData,
                byKey |-> Empty, resolutions |-> Empty, enqueued |-> <<>>]

\* The view goes, the limbo resolutions stay.
WithoutView(e) == [FirstEngine EXCEPT !.byKey = e.byKey, !.resolutions = e.resolutions,
                                      !.enqueued = e.enqueued]

Synced(e) == e.listening /\ e.current /\ e.limbo = {}

\* GetRemoteKeys
RemoteKeys(e, t) ==
    CASE t \in DOMAIN e.resolutions /\ e.resolutions[t].received -> {e.resolutions[t].key}
      [] t = Query                                               -> e.synced
      [] OTHER                                                   -> {}

\* The next target id: one that nothing refers to stands for a fresh one.
FreshIds(c) ==
    {t \in LimboTarget :
        /\ t \notin DOMAIN c.engine.resolutions \cup DOMAIN c.remote.states
        /\ \A i \in DOMAIN wire : wire[i].target # t}

NextId(c) == Min(FreshIds(c))

\* PumpEnqueuedLimboResolutions: one turn of its loop, and the loop.
PumpOne(c) ==
    LET e  == c.engine
        d  == Head(e.enqueued)
        id == NextId(c)
    IN  IF e.enqueued = <<>> \/ Cardinality(DOMAIN e.byKey) >= MaxConcurrentLimboResolutions
        THEN c
        ELSE [engine |-> [e EXCEPT !.enqueued = Tail(@),
                                   !.byKey = IF d \in DOMAIN @ THEN @ ELSE With(@, d, id),
                                   !.resolutions = With(@, id, [key |-> d, received |-> FALSE])],
              remote |-> ListenTo(c.remote, id, [token |-> 0, docs |-> {d}])]

PumpEnqueuedLimboResolutions(c) ==
    FoldLeft(LAMBDA x, d : PumpOne(x), c, c.engine.enqueued)

TrackLimboChange(c, d) ==
    IF d \in DOMAIN c.engine.byKey THEN c
    ELSE PumpEnqueuedLimboResolutions([c EXCEPT !.engine.enqueued = Append(@, d)])

RemoveLimboTarget(c, d) ==
    IF d \notin DOMAIN c.engine.byKey THEN c
    ELSE LET id == c.engine.byKey[d]
         IN  PumpEnqueuedLimboResolutions(
                [engine |-> [c.engine EXCEPT !.byKey = Drop(@, d), !.resolutions = Drop(@, id)],
                 remote |-> StopListeningTo(c.remote, id)])

\* UpdateLimboDocuments and UpdateTrackedLimboDocuments.
UpdateLimbo(c) ==
    LET old   == c.engine.limbo
        new   == c.engine.documents \ c.engine.synced
        fewer == FoldLeft(RemoveLimboTarget, [c EXCEPT !.engine.limbo = new], Ascending(old \ new))
    IN  IF c.engine.current THEN FoldLeft(TrackLimboChange, fewer, Ascending(new \ old)) ELSE c

\* Faulty: the limbo targets go, the view stays.
CleanupLimboOnly(c) == FoldLeft(RemoveLimboTarget, c, Ascending(c.engine.limbo))

\* RemoveAndCleanupTarget, after RemoteStore has let the query go.
CleanupTarget(c) ==
    FoldLeft(RemoveLimboTarget, [c EXCEPT !.engine = WithoutView(@)], Ascending(c.engine.limbo))

-----------------------------------------------------------------------------
(* WatchChangeAggregator: r with what a message of the stream adds.        *)

\* AddDocumentToTarget
AddDocument(r, t, d, level) ==
    LET type  == IF d \in RemoteKeys(engine, t) THEN "modified" ELSE "added"
        state == StateOf(r, t)
    IN  IF ~IsActive(r, t) THEN r
        ELSE [r EXCEPT !.states = With(@, t, [state EXCEPT !.pending = TRUE,
                                                           !.changes = With(@, d, type)]),
                       !.updates = With(@, d, level)]

\* RemoveDocumentFromTarget; values is {} or the one value that came along.
RemoveDocument(r, t, d, values) ==
    LET state == StateOf(r, t)
        left  == [state EXCEPT !.pending = TRUE,
                               !.changes = IF d \in RemoteKeys(engine, t)
                                           THEN With(@, d, "removed") ELSE Drop(@, d)]
    IN  IF ~IsActive(r, t) THEN r
        ELSE [r EXCEPT !.states = With(@, t, left),
                       !.updates = IF values = {} THEN @
                                   ELSE With(@, d, CHOOSE v \in values : TRUE)]

\* HandleDocumentChange, for one target.
HandleDocumentChange(r, m) ==
    IF m.belongs THEN AddDocument(r, m.target, m.doc, m.level)
                 ELSE RemoveDocument(r, m.target, m.doc, m.values)

\* ResetTarget, for an active target.
ResetTarget(r, t) ==
    FoldLeft(LAMBDA x, d : RemoveDocument(x, t, d, {}),
             [r EXCEPT !.states = With(@, t, NewTargetState)],
             Ascending(RemoteKeys(engine, t)))

UpdateResumeToken(state, token) ==
    IF token = 0 THEN state ELSE [state EXCEPT !.pending = TRUE, !.token = token]

\* An answer to a request: only the last one that was waited for counts.
Answered(r, t) == [StateOf(r, t) EXCEPT !.outstanding = @ - 1]

HandleTargetAdded(r, t) ==
    LET state == Answered(r, t)
    IN  [r EXCEPT !.states = With(@, t, IF state.outstanding # 0 THEN state
                                        ELSE [state EXCEPT !.pending = FALSE, !.changes = Empty])]

\* Faulty: the first removal is taken for the last.
HandleFirstRemoved(r, t) == [r EXCEPT !.states = Drop(@, t)]

HandleTargetRemoved(r, t) ==
    LET state == Answered(r, t)
    IN  [r EXCEPT !.states = IF state.outstanding # 0 THEN With(@, t, state) ELSE Drop(@, t)]

HandleTargetCurrent(r, t, token) ==
    LET state == [StateOf(r, t) EXCEPT !.current = TRUE, !.pending = TRUE]
    IN  IF IsActive(r, t) THEN [r EXCEPT !.states = With(@, t, UpdateResumeToken(state, token))]
                          ELSE r

\* A change without targets is for all the active ones.
HandleSnapshot(r, token) ==
    [r EXCEPT !.states = [t \in DOMAIN @ |-> IF IsActive(r, t) THEN UpdateResumeToken(@[t], token)
                                                               ELSE @[t]]]

\* The document that a limbo target is about.
KeyOf(r, t) == CHOOSE d \in r.listens[t].docs : TRUE

\* HandleExistenceFilter
HandleExistenceFilter(r, t, count) ==
    LET changes == StateOf(r, t).changes
        Number(type) == Cardinality({d \in DOMAIN changes : changes[d] = type})
        current == Cardinality(RemoteKeys(engine, t)) + Number("added") - Number("removed")
    IN  CASE ~IsActive(r, t) -> r
          [] IsActive(r, t) /\ t # Query ->
                IF count = 0 THEN RemoveDocument(r, t, KeyOf(r, t), {Absent}) ELSE r
          [] IsActive(r, t) /\ t = Query ->
                IF current = count THEN r ELSE [ResetTarget(r, t) EXCEPT !.resets = TRUE]

\* Faulty: only a document that was reported can be gone.
SynthesizeNothing(r, t) == r

\* The document of a current limbo target that was never reported is deleted.
SynthesizeDelete(r, t) ==
    IF /\ IsActive(r, t) /\ t # Query /\ StateOf(r, t).current
       /\ KeyOf(r, t) \notin DOMAIN r.updates \cup RemoteKeys(engine, t)
    THEN RemoveDocument(r, t, KeyOf(r, t), {Deleted}) ELSE r

\* CreateRemoteEvent: the event, and what is left of r.
CreateRemoteEvent(r, version) ==
    LET full    == FoldLeft(SynthesizeDelete, r, Ascending(DOMAIN r.states))
        changed == {t \in DOMAIN full.states : IsActive(full, t) /\ full.states[t].pending}
    IN  [event |-> [version |-> version, updates |-> full.updates, mismatch |-> full.resets,
                    changes |-> [t \in changed |-> full.states[t]]],
         rest  |-> [full EXCEPT
                      !.updates = Empty, !.resets = FALSE,
                      !.states = [t \in DOMAIN @ |->
                                    IF t \in changed THEN [@[t] EXCEPT !.pending = FALSE,
                                                                       !.changes = Empty]
                                                     ELSE @[t]]]]

-----------------------------------------------------------------------------
(* A remote event, applied to c = [disk, engine, remote].                  *)

OfType(change, type) == {d \in DOMAIN change.changes : change.changes[d] = type}

\* SyncEngine::ApplyRemoteEvent: what limbo resolutions have received.
Receive(resolutions, changes) ==
    [t \in DOMAIN resolutions |->
        [resolutions[t] EXCEPT !.received =
            IF t \notin DOMAIN changes THEN @
            ELSE (@ \/ OfType(changes[t], "added") # {}) /\ OfType(changes[t], "removed") = {}]]

\* LocalStore::ApplyRemoteEvent: the documents that the cache takes.
Taken(k, updates) ==
    {d \in DOMAIN updates : updates[d] = Absent \/ updates[d] > k.cache[d].level}

\* LocalStore::ApplyRemoteEvent: the query's keys, token and saved target
\* data.  late: the saved token is five minutes old.
StoreTargetChange(c, event, late) ==
    LET change == event.changes[Query]
        data   == [c.engine.data EXCEPT !.token = change.token]
        save   == c.engine.data.token = 0 \/ change.changes # Empty \/ late
        stored == [c EXCEPT !.disk.keys = (@ \ OfType(change, "removed")) \cup OfType(change, "added")]
    IN  CASE ~c.engine.listening \/ Query \notin DOMAIN event.changes -> c
          [] OTHER -> IF change.token = 0 THEN stored
                      ELSE [stored EXCEPT !.engine.data = data,
                                          !.disk.saved = IF save THEN data ELSE @]

\* View::ComputeDocumentChanges and ApplyChanges.
ApplyToView(e, cache, taken, changes) ==
    LET change == changes[Query]
        shown  == (e.documents \ taken) \cup {d \in taken : cache[d].level = Matching}
    IN  IF ~e.listening THEN e
        ELSE IF Query \notin DOMAIN changes THEN [e EXCEPT !.documents = shown]
        ELSE [e EXCEPT !.documents = shown,
                       !.synced = (@ \cup OfType(change, "added")) \ OfType(change, "removed"),
                       !.current = change.current]

\* NotifyLocalViewChanges, which follows when the view raised a snapshot.
NotifyLocalViewChanges(c, before) ==
    IF Synced(c.engine) /\ (~Synced(before) \/ c.engine.documents # before.documents)
    THEN [c EXCEPT !.engine.data.limboFree = c.engine.data.token] ELSE c

ApplyRemoteEvent(c, event, late) ==
    LET taken   == Taken(c.disk, event.updates)
        cache   == [d \in Doc |-> IF d \in taken
                                  THEN [level |-> event.updates[d], read |-> event.version]
                                  ELSE c.disk.cache[d]]
        stored  == StoreTargetChange(c, event, late)
        view    == ApplyToView(stored.engine, cache, taken, event.changes)
        applied == [disk   |-> [stored.disk EXCEPT
                                  !.cache = cache,
                                  !.lastSnapshot = IF event.version = 0 THEN @ ELSE event.version],
                    engine |-> [view EXCEPT !.resolutions = Receive(@, event.changes)],
                    remote |-> c.remote]
        tracked == UpdateLimbo([engine |-> applied.engine, remote |-> applied.remote])
    IN  NotifyLocalViewChanges([disk |-> applied.disk, engine |-> tracked.engine,
                                remote |-> tracked.remote], c.engine)

\* RaiseWatchSnapshot: tokens, then mismatches, then the event.
RaiseWatchSnapshot(c, version, late) ==
    LET created == CreateRemoteEvent(c.remote, version)
        event   == created.event
        tokens  == [created.rest EXCEPT !.listens =
                      [t \in DOMAIN @ |->
                          IF t \in DOMAIN event.changes /\ event.changes[t].token # 0
                          THEN [@[t] EXCEPT !.token = event.changes[t].token] ELSE @[t]]]
        anew    == [token |-> 0, docs |-> Doc]
        relist  == Send(Send([tokens EXCEPT !.listens[Query] = anew],
                             Request("unwatch", Query, anew)),
                        Request("watch", Query, anew))
    IN  ApplyRemoteEvent([c EXCEPT !.remote = IF event.mismatch /\ Query \in DOMAIN tokens.listens
                                              THEN relist ELSE tokens],
                         event, late)

\* ReleaseTarget saves the query's target data.
ReleaseTarget(c) == [c EXCEPT !.disk.saved = c.engine.data]

\* HandleRejectedListen, for a target that RemoteStore has forgotten.
HandleRejectedListen(c, t) ==
    LET e      == c.engine
        d      == e.resolutions[t].key
        gone   == [e EXCEPT !.byKey = Drop(@, d), !.resolutions = Drop(@, t)]
        pumped == PumpEnqueuedLimboResolutions([engine |-> gone, remote |-> c.remote])
        purge  == [version |-> 0, updates |-> [x \in {d} |-> Absent], changes |-> Empty]
        left   == CleanupTarget([engine |-> e, remote |-> c.remote])
    IN  IF t \in DOMAIN e.resolutions
        THEN ApplyRemoteEvent([disk |-> c.disk, engine |-> pumped.engine,
                               remote |-> pumped.remote], purge, FALSE)
        ELSE [ReleaseTarget(c) EXCEPT !.engine = left.engine, !.remote = left.remote]

\* ProcessTargetError
ProcessTargetError(c, t) ==
    IF t \notin DOMAIN c.remote.listens THEN c
    ELSE HandleRejectedListen([disk |-> c.disk, engine |-> c.engine,
                               remote |-> [c.remote EXCEPT !.listens = Drop(@, t),
                                                           !.states = Drop(@, t)]], t)

-----------------------------------------------------------------------------
Init ==
    /\ disk = [cache |-> [d \in Doc |-> [level |-> Absent, read |-> 0]],
               keys |-> {}, saved |-> NoData, lastSnapshot |-> 0]
    /\ engine = FirstEngine
    /\ remote = FirstRemote
    /\ \E documents \in [Doc -> {Absent, Matching}] : history = <<documents>>
    /\ wire = <<>> /\ served = 0 /\ watched = Empty
    /\ viewVersion = 0
    /\ crossed = 0

(* The app and the clock                                                   *)

\* QueryEngine: the documents the query had, and those read since it was
\* last free of limbo.
GetDocumentsMatchingQuery ==
    {d \in Doc : /\ disk.cache[d].level = Matching
                 /\ \/ disk.saved.limboFree = 0
                    \/ d \in disk.keys
                    \/ disk.cache[d].read > disk.saved.limboFree}

\* SyncEngine::Listen
Listen ==
    /\ ~engine.listening
    /\ engine' = [engine EXCEPT !.listening = TRUE, !.documents = GetDocumentsMatchingQuery,
                                !.synced = disk.keys, !.data = disk.saved]
    /\ remote' = ListenTo(remote, Query, [token |-> disk.saved.token, docs |-> Doc])
    /\ UNCHANGED <<disk, backend, viewVersion, crossed>>

\* SyncEngine::StopListening
StopListening ==
    /\ Leaves /\ engine.listening
    /\ Len(wire) + Len(remote.requests) <= MaxWire
    /\ LET left == CleanupTarget([engine |-> engine, remote |-> StopListeningTo(remote, Query)])
       IN  engine' = left.engine /\ remote' = left.remote
    /\ disk' = ReleaseTarget([disk |-> disk, engine |-> engine]).disk
    /\ UNCHANGED <<backend, viewVersion, crossed>>

\* The process dies.  Only the disk is left.
Kill ==
    /\ Leaves
    /\ engine' = FirstEngine
    /\ remote' = FirstRemote
    /\ wire' = <<>> /\ watched' = Empty
    /\ crossed' = 0
    /\ UNCHANGED <<disk, history, served, viewVersion>>

\* The timer of HandleWatchStreamStart.
OnlineStateTimeout ==
    /\ remote.online.timer
    /\ remote' = [remote EXCEPT !.online = [remote.online EXCEPT !.timer = FALSE,
                                                                 !.state = "Offline"]]
    /\ engine' = Broadcast(engine, remote')
    /\ UNCHANGED <<disk, backend, viewVersion, crossed>>

-----------------------------------------------------------------------------
(* The stream                                                              *)

\* OnWatchStreamOpen: all that is listened to is asked for.
WatchAll(r, order) ==
    FoldLeft(LAMBDA x, t : Send(x, Request("watch", t, x.listens[t])),
             [r EXCEPT !.stream = "open"], order)

\* The backend has got as far as any token it is shown.
Open ==
    /\ remote.stream = "starting"
    /\ \E order \in SetToSeqs(DOMAIN remote.listens) : remote' = WatchAll(remote, order)
    /\ \E version \in 1..Len(history) :
          /\ \A t \in DOMAIN remote.listens : remote.listens[t].token <= version
          /\ Lags \/ disk.lastSnapshot <= version
          /\ served' = version
    /\ UNCHANGED <<disk, engine, wire, history, watched, viewVersion, crossed>>

Disconnected ==
    /\ wire' = <<>> /\ watched' = Empty /\ crossed' = 0
    /\ UNCHANGED <<disk, history, served, viewVersion>>

\* OnWatchStreamClose with an error
Close ==
    /\ remote.stream # "off"
    /\ LET closed == CleanUp(remote)
       IN  remote' = IF remote.listens = Empty
                     THEN [closed EXCEPT !.online = Online("Unknown")]
                     ELSE StartWatchStream([closed EXCEPT !.online = HandleWatchStreamFailure(@)])
    \* A failure is told of before the next attempt is.
    /\ engine' = Broadcast(engine, [online |-> IF remote.listens = Empty THEN Online("Unknown")
                                               ELSE HandleWatchStreamFailure(remote.online)])
    /\ Disconnected

\* The idle timer stops the stream.
IdleTimeout ==
    /\ remote.idle
    /\ remote' = [CleanUp(remote) EXCEPT !.online = Online("Unknown")]
    /\ UNCHANGED engine
    /\ Disconnected

\* RestartNetwork: the connectivity or the user has changed.
RestartNetwork ==
    /\ LET stopped == [CleanUp(remote) EXCEPT !.online = Online("Unknown")]
       IN  remote' = IF remote.listens = Empty THEN stopped ELSE StartWatchStream(stopped)
    /\ UNCHANGED engine
    /\ Disconnected

-----------------------------------------------------------------------------
(* OnWatchStreamChange.  Any message means that the client is online.      *)

Arrives(type) == remote.stream = "open" /\ wire # <<>> /\ Head(wire).type = type

Heard == [remote EXCEPT !.online = Online("Online")]

Gathered(r) ==
    /\ remote' = r
    /\ wire' = Tail(wire)
    /\ UNCHANGED <<disk, engine, history, served, watched, viewVersion, crossed>>

OnTargetAdded ==
    Arrives("added") /\ Gathered(HandleTargetAdded(Heard, Head(wire).target))

OnTargetRemoved ==
    Arrives("removed") /\ Gathered(HandleTargetRemoved(Heard, Head(wire).target))

OnTargetCurrent ==
    /\ Arrives("current")
    /\ Gathered(HandleTargetCurrent(Heard, Head(wire).target, Head(wire).version))

OnTargetReset ==
    /\ Arrives("reset")
    /\ Gathered(IF IsActive(remote, Head(wire).target) THEN ResetTarget(Heard, Head(wire).target)
                                                       ELSE Heard)

OnDocument ==
    Arrives("document") /\ Gathered(HandleDocumentChange(Heard, Head(wire)))

OnExistenceFilter ==
    /\ Arrives("filter")
    /\ Gathered(HandleExistenceFilter(Heard, Head(wire).target, Head(wire).count))

Applied(c) ==
    /\ disk' = c.disk /\ engine' = c.engine /\ remote' = c.remote
    /\ wire' = Tail(wire)
    /\ UNCHANGED <<history, served, watched>>

\* The answers for a target that are still to come.
ToCome(t) ==
    Cardinality({i \in DOMAIN remote.requests : remote.requests[i].target = t})
    + Cardinality({i \in DOMAIN wire : /\ wire[i].target = t
                                       /\ wire[i].type \in {"added", "removed", "error"}})

\* The refusal to be read finds the query not listened to, or with answers to
\* come behind it: its listener has left, and may have come back.
Crosses == Head(wire).target = Query /\ ~(IsListened(remote, Query) /\ ToCome(Query) = 1)

OnTargetError ==
    /\ Arrives("error")
    /\ Applied(ProcessTargetError([disk |-> disk, engine |-> engine, remote |-> Heard],
                                  Head(wire).target))
    /\ crossed' = IF Crosses THEN crossed + 1 ELSE crossed
    /\ UNCHANGED viewVersion

OnGlobalSnapshot ==
    /\ Arrives("snapshot")
    /\ LET version == Head(wire).version
           raised  == version >= disk.lastSnapshot
           told    == [disk |-> disk, engine |-> engine, remote |-> HandleSnapshot(Heard, version)]
       IN  /\ \E late \in BOOLEAN :
                 Applied(IF raised THEN RaiseWatchSnapshot(told, version, late) ELSE told)
           /\ viewVersion' = IF raised /\ IsActive(remote, Query) THEN version ELSE viewVersion
    /\ UNCHANGED crossed

-----------------------------------------------------------------------------
(* The backend                                                             *)

Belongs(t, level) == level = Matching \/ (t # Query /\ level = Other)

TargetMessage(type, t) == [type |-> type, target |-> t]
CurrentMessage(t) == [type |-> "current", target |-> t, version |-> served]
SnapshotMessage(version) == [type |-> "snapshot", target |-> -1, version |-> version]
FilterMessage(t, n) == [type |-> "filter", target |-> t, count |-> n]

\* A document that is the target's, or is not any more: told with what it is
\* now, or as a mere removal.
DocumentMessage(t, d, level, withValue) ==
    [type |-> "document", target |-> t, doc |-> d, level |-> level,
     belongs |-> Belongs(t, level), values |-> IF withValue THEN {level} ELSE {}]

\* What changed for a target between two states of its documents.
News(t, docs, then, now, withValue) ==
    LET changed == {d \in docs : /\ then[d] # now[d]
                                 /\ Belongs(t, then[d]) \/ Belongs(t, now[d])}
    IN  [i \in 1..Cardinality(changed) |->
            LET d == Ascending(changed)[i] IN DocumentMessage(t, d, now[d], withValue)]

\* The ways to answer a watch request: what changed since the token; all
\* over again; what came since the token and how many there are; for a
\* document that does not exist, that it is deleted or that there is none.
Answers(t, token, docs) ==
    LET none    == [d \in Doc |-> Absent]
        now     == history[served]
        then    == IF token = 0 THEN none ELSE history[token]
        present == {d \in docs : Belongs(t, now[d])}
        end     == <<CurrentMessage(t), SnapshotMessage(served)>>
        counted == <<CurrentMessage(t), FilterMessage(t, Cardinality(present)),
                     SnapshotMessage(served)>>
        added   == <<TargetMessage("added", t)>>
        reset   == added \o <<TargetMessage("reset", t)>>
    IN  {added \o News(t, docs, then, now, withValue) \o end : withValue \in BOOLEAN}
        \cup {reset \o News(t, docs, none, now, TRUE) \o end : x \in {token} \ {0}}
        \cup {added \o News(t, present, then, now, TRUE) \o counted :
                 x \in IF Filters /\ t = Query THEN {token} \ {0} ELSE {}}
        \cup {added \o <<DocumentMessage(t, d, Deleted, TRUE)>> \o end :
                 d \in IF t = Query THEN {} ELSE docs \ present}
        \cup {added \o counted : d \in IF t = Query THEN {} ELSE docs \ present}

\* A watch request is answered.
ServeWatch ==
    /\ remote.requests # <<>> /\ remote.stream = "open"
    /\ LET request == Head(remote.requests)
       IN  /\ request.type = "watch"
           /\ request.token <= served
           /\ \E answer \in Answers(request.target, request.token, request.docs) :
                 wire' = wire \o answer
           /\ watched' = With(watched, request.target, request.docs)
    /\ remote' = [remote EXCEPT !.requests = Tail(@)]
    /\ UNCHANGED <<disk, engine, history, served, viewVersion, crossed>>

\* A watch request is refused.  Bounds: while there are target ids to spare,
\* and few refusals of the query cross.
Refuse ==
    /\ remote.requests # <<>> /\ remote.stream = "open"
    /\ LET request == Head(remote.requests)
       IN  /\ request.type = "watch" /\ request.target \in Refused
           /\ request.target = Query => crossed < MaxCrossed
           /\ wire' = Append(wire, TargetMessage("error", request.target))
    /\ Cardinality(FreshIds([engine |-> engine, remote |-> remote])) > Cardinality(Doc)
    /\ remote' = [remote EXCEPT !.requests = Tail(@)]
    /\ UNCHANGED <<disk, engine, history, served, watched, viewVersion, crossed>>

ServeUnwatch ==
    /\ remote.requests # <<>> /\ remote.stream = "open"
    /\ LET request == Head(remote.requests)
       IN  /\ request.type = "unwatch"
           /\ wire' = Append(wire, TargetMessage("removed", request.target))
           /\ watched' = Drop(watched, request.target)
    /\ remote' = [remote EXCEPT !.requests = Tail(@)]
    /\ UNCHANGED <<disk, engine, history, served, viewVersion, crossed>>

\* What the next version has for the targets that are watched.
NextNews(withValue) ==
    FoldLeft(LAMBDA w, t : w \o News(t, watched[t], history[served], history[served + 1],
                                     withValue),
             wire, Ascending(DOMAIN watched))

\* The connection gets to the next version.
Advance ==
    /\ remote.stream = "open" /\ served < Len(history)
    /\ \E withValue \in BOOLEAN :
          wire' = NextNews(withValue) \o <<SnapshotMessage(served + 1)>>
    /\ served' = served + 1
    /\ UNCHANGED <<disk, engine, remote, history, watched, viewVersion, crossed>>

\* Somebody writes a document.
Commit ==
    /\ Len(history) < MaxVersion
    /\ \E d \in Doc, level \in Level :
          /\ level > Last(history)[d]
          /\ history' = Append(history, [Last(history) EXCEPT ![d] = level])
    /\ UNCHANGED <<disk, engine, remote, wire, served, watched, viewVersion, crossed>>

-----------------------------------------------------------------------------
Deliver ==
    \/ OnTargetAdded \/ OnTargetRemoved \/ OnTargetCurrent \/ OnTargetReset
    \/ OnDocument \/ OnExistenceFilter \/ OnTargetError \/ OnGlobalSnapshot

Next ==
    \/ Listen \/ StopListening \/ Kill \/ OnlineStateTimeout
    \/ Open \/ Close \/ IdleTimeout \/ RestartNetwork
    \/ Deliver
    \/ ServeWatch \/ ServeUnwatch \/ Refuse \/ Advance \/ Commit

\* What a Deliver step does to the wire.
Read == remote.stream = "open" /\ wire # <<>> /\ wire' = Tail(wire)

\* The client reads what it is sent; a backend that is connected answers
\* and goes on to the newest version.
Spec ==
    /\ Init /\ [][Next]_vars
    /\ WF_wire(Read) /\ WF_vars(ServeWatch) /\ WF_vars(ServeUnwatch) /\ WF_vars(Advance)

-----------------------------------------------------------------------------
(* Properties                                                              *)

TypeOK ==
    /\ disk.cache \in [Doc -> [level : Level, read : 0..MaxVersion]]
    /\ disk.keys \subseteq Doc
    /\ engine.documents \cup engine.synced \cup engine.limbo \subseteq Doc
    /\ engine.listening <=> Query \in DOMAIN remote.listens
    /\ remote.stream \in {"off", "starting", "open"}
    /\ remote.online.state \in {"Unknown", "Online", "Offline"}
    /\ served \in 0..Len(history) /\ viewVersion \in 0..Len(history)

\* The assertions of the code hold.  A document changes or leaves a target
\* that has it (view.cc:363, sync_engine.cc:287 and 290); a limbo target has
\* one change (sync_engine.cc:279); the online timer runs only in a state
\* that is unknown and under an attempt to connect (online_state_tracker.cc:59
\* and 65); the stream is not stopped while a target needs it
\* (remote_store.cc:236).
AssertionsHold ==
    /\ \A t \in DOMAIN remote.states : IsActive(remote, t) =>
          /\ \A d \in DOMAIN remote.states[t].changes :
                (remote.states[t].changes[d] = "added") <=> (d \notin RemoteKeys(engine, t))
          /\ t # Query => Cardinality(DOMAIN remote.states[t].changes) <= 1
    /\ remote.online.timer => remote.online.state = "Unknown" /\ remote.stream # "off"
    /\ remote.idle => remote.listens = Empty /\ remote.stream = "open"

\* The aggregator waits for exactly the answers that are still to come, for
\* each target that is listened to (remote_event.h:208): were the count ever
\* short, a stale answer would be taken for the new listen's, and were it
\* long, the target would stay deaf.  Only for the query, and only from a
\* refusal that crosses to the end of the connection, it may be otherwise:
\* ProcessTargetError then forgets requests that are still to be answered, or
\* leaves the refused one in the count.
AcksMatchWire ==
    \A t \in DOMAIN remote.listens : remote.stream = "open" =>
        \/ StateOf(remote, t).outstanding = ToCome(t)
        \/ t = Query /\ crossed > 0

ServerDocuments(version) == {d \in Doc : history[version][d] = Matching}

\* A view that is not from cache shows what the backend had at the version of
\* the last snapshot that told of the query: through removals without a
\* value, documents in limbo, re-listens and dead processes.
SyncedViewIsServer == Synced(engine) => engine.documents = ServerDocuments(viewVersion)

\* While the connection stays and there is a listener, the view comes to show
\* the newest version and is not from cache.
ViewCatchesUp ==
    <>[](engine.listening /\ remote.stream = "open")
        => <>[](Synced(engine) /\ engine.documents = ServerDocuments(Len(history)))

=============================================================================
