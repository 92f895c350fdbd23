----------------------------- MODULE FlashChat -----------------------------
(***************************************************************************)
(* The chat app: its screens, the main queue they share, FirebaseAuth and  *)
(* the listening side of the Firestore client.                             *)
(*                                                                         *)
(* Three threads of control take part.  The main thread runs taps and the  *)
(* blocks of the main queue, one at a time; Firestore's worker queue runs  *)
(* its tasks, one at a time; FirebaseAuth answers sign-in requests.  They  *)
(* reach each other only by appending to the two queues.  The write path   *)
(* behind addDocument is MessageStore, which FirestoreWrites implements.   *)
(***************************************************************************)
EXTENDS Integers, Sequences, FiniteSets, SequencesExt, Sorting

CONSTANTS
    Email,        \* the accounts used on this device
    NoUser,       \* nobody is signed in
    Message,      \* documents of the collection; a number stands for its date
    Malformed,    \* those of other clients that lack a field
    Cached,       \* documents this device has seen before it is first launched
    Form, Screen, \* view controllers: login or register forms, and chats
    NoScreen,     \* no chat
    MaxRequests,  \* bound: sign-ins underway at a time
    MaxQueued,    \* bound: blocks and tasks queued when a sign-in starts
    Rejections,   \* the backend may refuse a write
    Outages       \* the device may lose its connection

ASSUME FlashChatAssumption ==
    /\ NoUser \notin Email
    /\ Message \subseteq Nat
    /\ Malformed \subseteq Message
    /\ Cached \subseteq Message /\ IsFiniteSet(Cached)
    /\ Form \cap Screen = {}
    /\ NoScreen \notin Form \cup Screen
    /\ MaxRequests \in Nat \ {0}
    /\ MaxQueued \in Nat \ {0}
    /\ Rejections \in BOOLEAN
    /\ Outages \in BOOLEAN

VARIABLES
    \* FirebaseAuth
    account,    \* Auth.auth().currentUser, kept in the keychain
    requests,   \* sign-in requests underway
    \* The app, on the main thread
    stack,      \* the navigation stack above the welcome screen
    messages,   \* [Screen -> Seq(Message)]: ChatViewController.messages
    rows,       \* [Screen -> Nat]: the rows the table view counts on
    field,      \* [Screen -> BOOLEAN]: there is text in messageTextfield
    main,       \* the main queue
    crashed,    \* an exception has ended the process
    \* Firestore, on its worker queue
    tasks,      \* the worker queue
    fsUser,     \* SyncEngine::current_user_
    listeners,  \* QueryListenersInfo::listeners: the screens, in order
    raised,     \* the listeners that have had their initial event
    cache,      \* the remote documents the device knows, kept on disk
    synced,     \* the view is current
    offline,    \* the online state is Offline
    retracted,  \* history: a document has left the view since the launch
    \* The write path (MessageStore)
    submitted, settled, committed, waiting, outcome,
    \* The backend and history
    foreign,    \* documents written by other devices
    author,     \* [Message -> Email]: the sender field of a message sent here
    sentFrom,   \* [Message -> Screen]: the screen it was sent from
    early       \* messages sent while a sign-in was underway

auth == <<account, requests>>
ui == <<stack, messages, rows, field, crashed>>
view == <<fsUser, listeners, raised, cache, synced, offline, retracted>>
writes == <<submitted, settled, committed, waiting, outcome>>
history == <<foreign, author, sentFrom, early>>
vars == <<auth, ui, main, tasks, view, writes, history>>

User == Email \cup {NoUser}

Store == INSTANCE MessageStore

Task == [kind : {"listen"}, screen : Screen]
        \cup [kind : {"write"}, doc : Message]
        \cup [kind : {"user"}, user : User]

Block == [kind : {"auth"}, user : User]
         \cup [kind : {"signedIn"}, form : Form]
         \cup [kind : {"snapshot"}, screen : Screen, docs : SUBSET Message]
         \cup [kind : {"reload", "saved", "clear"}, screen : Screen]

-----------------------------------------------------------------------------
(* The listening side of Firestore *)

Pending(u) == {m \in Message : Store!SubmittedBy(u, m) /\ m \notin settled}

\* What a query over the collection returns: the known documents and the
\* pending writes of the user whose mutation queue is open.
View == cache \cup Pending(fsUser)

\* Faulty: the documents are fetched once, not listened to.
ShouldRaiseOnce(s, old, new) ==
    s \notin raised /\ (synced' \/ new # {} \/ offline')

\* QueryListener::OnViewSnapshot and OnOnlineStateChanged for the view after
\* a step: the first event waits for a document, for the backend, or for the
\* certainty that there is no connection; later ones need a change.
ShouldRaise(s, old, new) ==
    IF s \in raised THEN new # old ELSE synced' \/ new # {} \/ offline'

\* Faulty: only the newest listener of the query is served.
EventsForLast(old) ==
    IF listeners' # <<>> /\ ShouldRaise(Last(listeners'), old, View')
    THEN <<[kind |-> "snapshot", screen |-> Last(listeners'), docs |-> View']>>
    ELSE <<>>

\* The blocks that EventManager::OnViewSnapshots and HandleOnlineStateChange
\* send to the main queue, in the order of the listeners.
Events(old) ==
    LET told == Selected(listeners', {s \in Screen : ShouldRaise(s, old, View')})
    IN  [i \in DOMAIN told |->
            [kind |-> "snapshot", screen |-> told[i], docs |-> View']]

\* A step of the worker queue or of the streams: it may have changed the view,
\* and sends the given blocks before the events.
Publish(blocks) ==
    LET events == Events(View)
    IN  /\ main' = main \o blocks \o events
        /\ retracted' = (retracted \/ ~(View \subseteq View'))
        /\ raised' = (raised \cap ToSet(listeners'))
                         \cup {events[i].screen : i \in DOMAIN events}

-----------------------------------------------------------------------------
(* The worker queue *)

\* EventManager::AddQueryListener: a screen joins the listeners of the query.
AddQueryListener(s) ==
    /\ listeners' = Append(listeners, s)
    /\ UNCHANGED <<fsUser, cache, synced, offline, writes>>
    /\ Publish(<<>>)

\* Faulty: the view is only told when the backend has answered.
WriteMutationsQuietly(m) ==
    /\ Store!Submit(fsUser, m)
    /\ UNCHANGED <<view, main>>

\* SyncEngine::WriteMutations: the message is on disk and in the view.
WriteMutations(m) ==
    /\ Store!Submit(fsUser, m)
    /\ UNCHANGED <<fsUser, listeners, cache, synced, offline>>
    /\ Publish(<<>>)

\* Faulty: the mutation queue is swapped and no view is told.
SwapWithoutEvents(u) ==
    /\ fsUser' = u
    /\ offline' = FALSE
    /\ UNCHANGED <<listeners, raised, cache, synced, retracted, writes, main>>

\* SyncEngine::HandleCredentialChange: the mutation queue is swapped, and the
\* restart of the streams makes the online state unknown.
HandleCredentialChange(u) ==
    /\ fsUser' = u
    /\ offline' = FALSE
    /\ UNCHANGED <<listeners, cache, synced, writes>>
    /\ Publish(<<>>)

RunTask ==
    /\ ~crashed
    /\ tasks # <<>>
    /\ LET task == Head(tasks)
       IN  \/ task.kind = "listen" /\ AddQueryListener(task.screen)
           \/ task.kind = "write" /\ WriteMutations(task.doc)
           \/ task.kind = "user" /\ HandleCredentialChange(task.user)
    /\ tasks' = Tail(tasks)
    /\ UNCHANGED <<auth, ui, history>>

\* Faulty: the error is not looked at.
CompletionIgnoringError(m, result) ==
    IF m \in waiting THEN <<[kind |-> "saved", screen |-> sentFrom[m]]>> ELSE <<>>

\* The call of sendPressed's completion block, which only prints an error.
Completion(m, result) ==
    IF m \in waiting /\ result = "ok"
    THEN <<[kind |-> "saved", screen |-> sentFrom[m]]>> ELSE <<>>

\* The backend answers the oldest write of the signed-in user.  The completion
\* block goes out before the events.
Settle(m, result) ==
    /\ ~crashed
    /\ Store!Settle(fsUser, m, result)
    /\ result = "error" => Rejections
    /\ cache' = IF result = "ok" THEN cache \cup {m} ELSE cache
    /\ UNCHANGED <<auth, ui, tasks, fsUser, listeners, synced, offline, history>>
    /\ Publish(Completion(m, result))

\* The backend stores a message of the signed-in user.
Commit(m) ==
    /\ ~crashed
    /\ Store!Commit(fsUser, m)
    /\ UNCHANGED <<auth, ui, main, tasks, view, history>>

Server == ToSet(committed) \cup foreign

\* The watch stream brings new documents of the query, up to some version of
\* the collection.
ApplyRemoteEvent(new) ==
    /\ ~crashed
    /\ listeners # <<>>
    /\ new # {} \/ ~synced
    /\ cache' = cache \cup new
    /\ synced' = TRUE
    /\ offline' = FALSE
    /\ UNCHANGED <<auth, ui, tasks, fsUser, listeners, writes, history>>
    /\ Publish(<<>>)

\* Faulty: a screen that listens again is taken to have had its first event.
HandleRejectedListenKeepsRaised ==
    /\ ~crashed
    /\ fsUser = NoUser
    /\ listeners # <<>>
    /\ listeners' = <<>>
    /\ synced' = FALSE
    /\ UNCHANGED <<auth, ui, main, tasks, fsUser, raised, cache, offline, retracted,
                   writes, history>>

\* The backend refuses the query to somebody who is not signed in: all
\* listeners are told the error, which they only print, and removed.
HandleRejectedListen ==
    /\ ~crashed
    /\ fsUser = NoUser
    /\ listeners # <<>>
    /\ listeners' = <<>>
    /\ raised' = {}
    /\ synced' = FALSE
    /\ UNCHANGED <<auth, ui, main, tasks, fsUser, cache, offline, retracted, writes, history>>

\* HandleOnlineStateChange after failed attempts to reach the backend.
GoOffline ==
    /\ ~crashed
    /\ Outages
    /\ ~offline
    /\ offline' = TRUE
    /\ synced' = FALSE
    /\ UNCHANGED <<auth, ui, tasks, fsUser, listeners, cache, writes, history>>
    /\ Publish(<<>>)

\* Another device writes a message, dated by its own clock.
ForeignWrite(m) ==
    /\ author[m] = NoUser /\ m \notin foreign
    /\ foreign' = foreign \cup {m}
    /\ UNCHANGED <<auth, ui, main, tasks, view, writes, author, sentFrom, early>>

-----------------------------------------------------------------------------
(* FirebaseAuth, on its global work queue *)

SigningIn ==
    Len(requests) + Cardinality({i \in DOMAIN main : main[i].kind = "signedIn"})

\* Faulty: the caller is told before the auth listeners.
SignedInFirst(email, form) ==
    <<[kind |-> "signedIn", form |-> form], [kind |-> "auth", user |-> email]>>

\* updateCurrentUser posts the notification, then the caller's block is sent.
SignedIn(email, form) ==
    <<[kind |-> "auth", user |-> email], [kind |-> "signedIn", form |-> form]>>

\* signInFlowAuthDataResultCallback: the answer to the i-th request.  A failure
\* only shows an alert on the form.
SignInAnswered(i, ok) ==
    /\ ~crashed
    /\ i \in DOMAIN requests
    /\ requests' = RemoveAt(requests, i)
    /\ IF ok
       THEN /\ account' = requests[i].email
            /\ main' = main \o SignedIn(requests[i].email, requests[i].form)
       ELSE UNCHANGED <<account, main>>
    /\ UNCHANGED <<ui, tasks, view, writes, history>>

-----------------------------------------------------------------------------
(* Taps, on the main thread *)

Top == IF stack = <<>> THEN NoScreen ELSE Last(stack)

OnStack(c) == Contains(stack, c)

\* A screen object that nothing refers to: a view controller lives as long as
\* its listener or one of its closures does.
Free(s) ==
    /\ ~OnStack(s)
    /\ ~Contains(listeners, s)
    /\ \A b \in ToSet(main) : b.kind \notin {"auth", "signedIn"} => b.screen # s
    /\ [kind |-> "listen", screen |-> s] \notin ToSet(tasks)
    /\ \A t \in ToSet(tasks) : t.kind = "write" => sentFrom[t.doc] # s
    /\ \A m \in waiting : sentFrom[m] # s

OpenForm(f) ==
    /\ ~crashed
    /\ stack = <<>>
    /\ \A r \in ToSet(requests) : r.form # f
    /\ \A b \in ToSet(main) : b.kind = "signedIn" => b.form # f
    /\ stack' = <<f>>
    /\ UNCHANGED <<auth, messages, rows, field, crashed, main, tasks, view, writes, history>>

\* Only a form has a back button; the closure of loginPressed holds it weakly.
Back ==
    /\ ~crashed
    /\ Top \in Form
    /\ stack' = Front(stack)
    /\ UNCHANGED <<auth, messages, rows, field, crashed, main, tasks, view, writes, history>>

\* LoginViewController.loginPressed and RegisterViewController.registerPressed.
\* Nothing disables the button while a request is underway.
LoginPressed(email) ==
    /\ ~crashed
    /\ Top \in Form
    /\ SigningIn < MaxRequests
    /\ SigningIn < Cardinality({s \in Screen : Free(s)})
    /\ Len(main) + Len(tasks) < MaxQueued
    /\ requests' = Append(requests, [email |-> email, form |-> Top])
    /\ UNCHANGED <<account, ui, main, tasks, view, writes, history>>

Type(s) ==
    /\ ~crashed
    /\ Top = s
    /\ field' = [field EXCEPT ![s] = TRUE]
    /\ UNCHANGED <<auth, stack, messages, rows, crashed, main, tasks, view, writes, history>>

\* ChatViewController.sendPressed: the text stays in the field until the
\* message is saved, and nothing keeps it from being sent again.
SendPressed(s, m) ==
    /\ ~crashed
    /\ Top = s
    /\ account # NoUser
    /\ m \notin Malformed \cup foreign
    /\ author[m] = NoUser
    /\ author' = [author EXCEPT ![m] = account]
    /\ sentFrom' = [sentFrom EXCEPT ![m] = s]
    /\ early' = IF SigningIn > 0 THEN early \cup {m} ELSE early
    /\ tasks' = Append(tasks, [kind |-> "write", doc |-> m])
    /\ UNCHANGED <<auth, ui, main, view, writes, foreign>>

\* Faulty: only the chat itself is popped.
PopViewController == Front(stack)

\* What popToRootViewController leaves above the welcome screen.
PopToRoot == <<>>

\* ChatViewController.logOutPressed.
LogOutPressed(s) ==
    /\ ~crashed
    /\ Top = s
    /\ account' = NoUser
    /\ main' = IF account = NoUser THEN main
               ELSE Append(main, [kind |-> "auth", user |-> NoUser])
    /\ stack' = PopToRoot
    /\ UNCHANGED <<requests, messages, rows, field, crashed, tasks, view, writes, history>>

\* The table view asks for one of the rows it counts on, and cellForRowAt
\* finds the list shorter.
CellForRow(s) ==
    /\ ~crashed
    /\ Top = s
    /\ rows[s] > Len(messages[s])
    /\ crashed' = TRUE
    /\ UNCHANGED <<auth, stack, messages, rows, field, main, tasks, view, writes, history>>

-----------------------------------------------------------------------------
(* The blocks of the main queue *)

\* The first block of the main queue has run; it sends further blocks.
Sends(blocks) == main' = Tail(main) \o blocks

\* The rows that loadMessages keeps of a snapshot, in the order of their date.
Listed(docs) == Ascending(docs \ Malformed)

\* The auth listeners: Firestore's enqueues the change on its worker queue.
PostAuthStateChange(u) ==
    /\ Sends(<<>>)
    /\ tasks' = Append(tasks, [kind |-> "user", user |-> u])
    /\ UNCHANGED <<ui, sentFrom>>

\* The closure of loginPressed or registerPressed, and viewDidLoad of the chat
\* it shows.
PerformSegue(f) ==
    /\ Sends(<<>>)
    /\ UNCHANGED crashed
    /\ \/ /\ ~OnStack(f)
          /\ UNCHANGED <<stack, messages, rows, field, tasks, sentFrom>>
       \/ /\ OnStack(f)
          /\ \E s \in Screen :
                /\ Free(s)
                /\ stack' = Append(stack, s)
                /\ messages' = [messages EXCEPT ![s] = <<>>]
                /\ rows' = [rows EXCEPT ![s] = 0]
                /\ field' = [field EXCEPT ![s] = FALSE]
                /\ tasks' = Append(tasks, [kind |-> "listen", screen |-> s])
                /\ sentFrom' = [m \in Message |->
                                  IF sentFrom[m] = s THEN NoScreen ELSE sentFrom[m]]

\* Faulty: the table is only reloaded for more messages.
OnSnapshotReloadsForMore(s, docs) ==
    /\ messages' = [messages EXCEPT ![s] = Listed(docs)]
    /\ Sends(IF Len(Listed(docs)) > Len(messages[s])
             THEN <<[kind |-> "reload", screen |-> s]>> ELSE <<>>)
    /\ UNCHANGED <<stack, rows, field, crashed, tasks, sentFrom>>

\* The listener of loadMessages.
OnSnapshot(s, docs) ==
    /\ messages' = [messages EXCEPT ![s] = Listed(docs)]
    /\ Sends(<<[kind |-> "reload", screen |-> s]>>)
    /\ UNCHANGED <<stack, rows, field, crashed, tasks, sentFrom>>

\* Faulty: the table view is told of a row that has no message.
ReloadWithSpareRow(s) ==
    /\ Sends(<<>>)
    /\ rows' = [rows EXCEPT ![s] = Len(messages[s]) + 1]
    /\ crashed' = (messages[s] = <<>>)
    /\ UNCHANGED <<stack, messages, field, tasks, sentFrom>>

\* reloadData, and scrollToRow to row count - 1: an exception when that is -1.
ReloadAndScroll(s) ==
    /\ Sends(<<>>)
    /\ rows' = [rows EXCEPT ![s] = Len(messages[s])]
    /\ crashed' = (messages[s] = <<>>)
    /\ UNCHANGED <<stack, messages, field, tasks, sentFrom>>

\* The completion block of sendPressed, told that there was no error.
MessageSaved(s) ==
    /\ Sends(<<[kind |-> "clear", screen |-> s]>>)
    /\ UNCHANGED <<ui, tasks, sentFrom>>

ClearField(s) ==
    /\ Sends(<<>>)
    /\ field' = [field EXCEPT ![s] = FALSE]
    /\ UNCHANGED <<stack, messages, rows, crashed, tasks, sentFrom>>

RunBlock ==
    /\ ~crashed
    /\ main # <<>>
    /\ LET b == Head(main)
       IN  \/ b.kind = "auth" /\ PostAuthStateChange(b.user)
           \/ b.kind = "signedIn" /\ PerformSegue(b.form)
           \/ b.kind = "snapshot" /\ OnSnapshot(b.screen, b.docs)
           \/ b.kind = "reload" /\ ReloadAndScroll(b.screen)
           \/ b.kind = "saved" /\ MessageSaved(b.screen)
           \/ b.kind = "clear" /\ ClearField(b.screen)
    /\ UNCHANGED <<auth, view, writes, foreign, author, early>>

-----------------------------------------------------------------------------

\* The first launch.  Earlier sessions may have left documents in the
\* cache; the welcome screen is shown whoever is signed in.
Init ==
    /\ account = NoUser
    /\ requests = <<>>
    /\ stack = <<>>
    /\ messages = [s \in Screen |-> <<>>]
    /\ rows = [s \in Screen |-> 0]
    /\ field = [s \in Screen |-> FALSE]
    /\ main = <<>>
    /\ crashed = FALSE
    /\ tasks = <<>>
    /\ fsUser = account
    /\ listeners = <<>>
    /\ raised = {}
    /\ synced = FALSE
    /\ offline = FALSE
    /\ cache = Cached
    /\ foreign = Cached
    /\ author = [m \in Message |-> NoUser]
    /\ sentFrom = [m \in Message |-> NoScreen]
    /\ retracted = FALSE
    /\ early = {}
    /\ Store!Init

\* The app is killed, or has crashed, and is launched again: the account is in
\* the keychain, the cache and the mutation queues are on disk.
Relaunch ==
    /\ UNCHANGED <<account, cache, foreign, author, early>>
    /\ requests' = <<>>
    /\ stack' = <<>>
    /\ messages' = [s \in Screen |-> <<>>]
    /\ rows' = [s \in Screen |-> 0]
    /\ field' = [s \in Screen |-> FALSE]
    /\ main' = <<>>
    /\ crashed' = FALSE
    /\ tasks' = <<>>
    /\ fsUser' = account
    /\ listeners' = <<>>
    /\ raised' = {}
    /\ synced' = FALSE
    /\ offline' = FALSE
    /\ retracted' = FALSE
    /\ Store!Relaunch
    /\ sentFrom' = [m \in Message |-> NoScreen]

Tap ==
    \/ \E f \in Form : OpenForm(f)
    \/ Back
    \/ \E e \in Email : LoginPressed(e)
    \/ \E s \in Screen :
          \/ Type(s)
          \/ \E m \in Message : SendPressed(s, m)
          \/ LogOutPressed(s)
          \/ CellForRow(s)

World ==
    \/ \E i \in 1..MaxRequests, ok \in BOOLEAN : SignInAnswered(i, ok)
    \/ \E m \in Message :
          \/ Commit(m)
          \/ \E result \in {"ok", "error"} : Settle(m, result)
          \/ ForeignWrite(m)
    \/ \E new \in SUBSET (Server \ cache) : ApplyRemoteEvent(new)
    \/ HandleRejectedListen
    \/ GoOffline

Next == RunBlock \/ RunTask \/ Tap \/ World \/ Relaunch

Spec == Init /\ [][Next]_vars

-----------------------------------------------------------------------------
(* Properties *)

TypeOK ==
    /\ account \in User
    /\ requests \in Seq([email : Email, form : Form])
    /\ stack \in Seq(Form \cup Screen)
    /\ messages \in [Screen -> Seq(Message)]
    /\ rows \in [Screen -> Nat]
    /\ field \in [Screen -> BOOLEAN]
    /\ main \in Seq(Block)
    /\ crashed \in BOOLEAN
    /\ tasks \in Seq(Task)
    /\ fsUser \in User
    /\ listeners \in Seq(Screen)
    /\ raised \subseteq ToSet(listeners)
    /\ cache \subseteq Message
    /\ synced \in BOOLEAN
    /\ offline \in BOOLEAN
    /\ retracted \in BOOLEAN
    /\ early \subseteq Message
    /\ foreign \subseteq Message
    /\ author \in [Message -> User]
    /\ sentFrom \in [Message -> Screen \cup {NoScreen}]

Queued(kind, s) ==
    {i \in DOMAIN main : main[i].kind = kind /\ main[i].screen = s}

\* The list a screen has, or will have once its last queued snapshot has run.
EventualList(s) ==
    LET snapshots == Queued("snapshot", s)
    IN  IF snapshots = {} THEN messages[s]
        ELSE Listed(main[CHOOSE i \in snapshots : \A j \in snapshots : j <= i].docs)

\* loadMessages replaces the whole list with each snapshot, and Firestore tells
\* a listener only of changes: the list agrees with Firestore's view of the
\* collection as soon as the queued snapshots have run, whatever was sent,
\* received, rejected or logged out meanwhile.
ListIsView ==
    ~crashed => \A s \in raised : EventualList(s) = Listed(View)

\* messages changes in one block and the table is reloaded in a later one:
\* outside that window the table view and the list have the same rows, so
\* that cellForRowAt finds a message for each.
RowsMatchList ==
    \A s \in Screen :
        rows[s] = Len(messages[s]) \/ Queued("reload", s) # {}

\* A chat is never on the screen without somebody signed in: logOutPressed
\* leaves no chat behind, and no late sign-in answer pushes one afterwards.
ChatMeansSignedIn == Top \in Screen => account # NoUser

\* The visible chat is a listener of the collection or is about to be one; no
\* logging out and in again makes it miss that its listener was dropped.
TopChatListens ==
    Top \in Screen =>
        \/ Contains(listeners, Top)
        \/ Contains(tasks, [kind |-> "listen", screen |-> Top])

\* A message waits in the mutation queue of the user named as its sender, so
\* that it is sent with that user's credentials, although the sender is read on
\* the main thread and the queue is chosen later, on the worker queue.  It need
\* not be so for a message that was sent while a sign-in was underway: a
\* login button pressed twice leaves one running behind the chat.
SenderOwnsQueue ==
    \A u \in User : \A m \in ToSet(submitted[u]) : author[m] = u \/ m \in early

\* Two things alone end the process: a chat that has had no rows is reloaded
\* with none and scrolls to row -1, or a document has left Firestore's view
\* since the launch, by a refused write or a change of the user.  While the
\* view only gains documents no list gets shorter than the rows of its table.
CrashHasCause ==
    [][~crashed /\ crashed' =>
          \/ retracted
          \/ /\ main # <<>>
             /\ Head(main).kind = "reload"
             /\ rows[Head(main).screen] = 0]_vars

\* The text of a chat disappears only after a message sent from that chat has
\* reached the backend.
ClearedOnlyAfterSave ==
    [][\A s \in Screen :
          OnStack(s) /\ OnStack(s)' /\ field[s] /\ ~field'[s]
              => \E m \in Message : sentFrom[m] = s /\ Store!Committed(m)]_vars

\* What is still on the screen some time after a message was sent from it shows
\* the message, unless the backend refused it or the process died.
Shows(s, m) == Contains(messages[s], m)
SentIsShown ==
    \A s \in Screen, m \in Message :
        Top = s /\ sentFrom[m] = s
            ~> Shows(s, m) \/ Top # s \/ crashed \/ outcome[m] = "error"

\* A chat that stays on the screen shows every message of other devices.
ReceivedIsShown ==
    \A s \in Screen, m \in Message \ Malformed :
        Top = s /\ m \in foreign ~> Shows(s, m) \/ Top # s \/ crashed

\* The queues are served, and the watch stream catches up.
Fairness ==
    /\ WF_vars(RunBlock)
    /\ WF_vars(RunTask)
    /\ WF_vars(ApplyRemoteEvent(Server \ cache))

LiveSpec == Spec /\ Fairness
=============================================================================
