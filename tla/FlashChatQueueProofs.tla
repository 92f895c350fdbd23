------------------------ MODULE FlashChatQueueProofs ------------------------
(***************************************************************************)
(* Proofs about what the two queues of FlashChat carry: the completion     *)
(* blocks that empty a text field, the snapshots that make a list          *)
(* Firestore's view, the user whose mutation queue takes a message, and    *)
(* the exceptions of the table view.  They build on the types, the steps   *)
(* and the navigation of FlashChatProofs.                                  *)
(***************************************************************************)
EXTENDS FlashChatProofs

(***************************************************************************)
(* The text of a chat goes when its message has come.                      *)
(***************************************************************************)

\* A message that is on its way was sent from this device.
Authored ==
    /\ \A t \in ToSet(tasks) : t.kind = "write" => author[t.doc] # NoUser
    /\ \A u \in User : \A m \in ToSet(submitted[u]) : author[m] # NoUser
    /\ \A m \in ToSet(committed) : author[m] # NoUser

SavedIsCommitted ==
    \A b \in ToSet(main) : b.kind \in {"saved", "clear"} =>
        \E m \in Message : sentFrom[m] = b.screen /\ Store!Committed(m)

SavedInv == Authored /\ SavedIsCommitted

LEMMA CommittedSet ==
    ASSUME TypeInv
    PROVE  \A m : Store!Committed(m) <=> m \in ToSet(committed)
BY SetType DEF TypeInv, StoreTypes, Store!Committed, Store!Contains, Contains

LEMMA AuthoredSame ==
    ASSUME Authored, UNCHANGED <<author, submitted, committed>>,
           \A t \in ToSet(tasks') : t.kind = "write" => t \in ToSet(tasks)
    PROVE  Authored'
BY DEF Authored

\* No message that the backend has is sent again, and the origin of none is
\* forgotten while a block of its screen is queued.
LEMMA SavedSame ==
    ASSUME SavedIsCommitted, UNCHANGED <<sentFrom, committed>>,
           \A b \in ToSet(main') : b \in ToSet(main) \/ b.kind \notin {"saved", "clear"}
              \/ FromWorker(b)
    PROVE  SavedIsCommitted'
BY DEF SavedIsCommitted, FromWorker, Store!Committed

LEMMA AuthoredStep == TypeInv /\ Authored /\ [Next]_vars => Authored'
<1> SUFFICES ASSUME TypeInv, Authored, [Next]_vars PROVE Authored'
    OBVIOUS
<1>1. /\ tasks \in Seq(Task) /\ submitted \in [User -> Seq(Message)]
      /\ committed \in Seq(Message) /\ author \in [Message -> User]
    BY DEF TypeInv, TypeOK, StoreTypes
<1>2. CASE RunTask
    <2>1. UNCHANGED <<author, committed>>
        BY <1>2 DEF RunTask, history, AddQueryListener, WriteMutations, HandleCredentialChange,
              Store!Submit, writes
    <2>2. ToSet(tasks') \subseteq ToSet(tasks)
        <3>1. /\ tasks' \in Seq(Task) /\ Len(tasks') = Len(tasks) - 1 /\ Len(tasks) \in Nat \ {0}
              /\ \A i \in 1..Len(tasks') : tasks'[i] = tasks[i + 1]
            BY <1>2, RunTaskTypes
        <3>2. ASSUME NEW i \in 1..Len(tasks') PROVE tasks'[i] \in ToSet(tasks)
            <4>1. i + 1 \in 1..Len(tasks)
                BY <3>1
            <4>2. QED
                BY <1>1, <3>1, <4>1, Entries
        <3>3. QED
            BY <3>1, <3>2 DEF ToSet
    <2>3. CASE tasks[1].kind # "write" /\ UNCHANGED writes
        BY <2>1, <2>2, <2>3, AuthoredSame DEF writes
    <2>4. CASE tasks[1].kind = "write" /\ Store!Submit(fsUser, tasks[1].doc)
        <3>1. PICK m : m = tasks[1].doc
            OBVIOUS
        <3>2. /\ m \in Message /\ fsUser \in User
              /\ submitted' = [submitted EXCEPT ![fsUser] = Append(@, m)]
            BY <1>2, <2>4, <3>1, RunTaskTypes, TaskFields DEF Store!Submit, TypeInv, TypeOK
        <3>3. author[m] # NoUser
            BY <1>2, <2>4, <3>1, RunTaskTypes DEF Authored
        <3>4. \A u \in User : ToSet(submitted'[u]) \subseteq ToSet(submitted[u]) \cup {m}
            <4>1. ToSet(Append(submitted[fsUser], m)) = ToSet(submitted[fsUser]) \cup {m}
                BY <1>1, <3>2, AppendedSet
            <4>2. QED
                BY <1>1, <3>2, <4>1
        <3>5. QED
            BY <2>1, <2>2, <3>3, <3>4 DEF Authored
    <2>5. QED
        BY <1>2, <2>3, <2>4, RunTaskTypes
<1>3. CASE QuietTap
    <2>1. ASSUME NEW s \in Screen, NEW m \in Message, SendPressed(s, m) PROVE Authored'
        <3>1. PICK t : t = [kind |-> "write", doc |-> m]
            OBVIOUS
        <3>2. t \in Task /\ t.kind = "write" /\ t.doc = m
            BY <3>1, Tasks
        <3>3. ToSet(tasks') = ToSet(tasks) \cup {t}
            BY <1>1, <2>1, <3>1, <3>2, AppendedSet DEF SendPressed
        <3>4. /\ author' = [author EXCEPT ![m] = account] /\ account # NoUser
              /\ UNCHANGED <<submitted, committed>>
            BY <2>1 DEF SendPressed, writes
        <3>5. \A n : n \in Message => (author[n] # NoUser => author'[n] # NoUser) /\ author'[m] # NoUser
            BY <1>1, <3>4
        <3>6. /\ ToSet(committed) \subseteq Message
              /\ \A u \in User : ToSet(submitted[u]) \subseteq Message
            BY <1>1, SetType
        <3>7. \A x \in ToSet(tasks) : x.kind = "write" => x.doc \in Message
            BY <1>1, SetType, TaskFields
        <3>8. QED
            BY <3>2, <3>3, <3>4, <3>5, <3>6, <3>7 DEF Authored
    <2>2. ASSUME UNCHANGED <<author, submitted, committed, tasks>> PROVE Authored'
        BY <2>2, AuthoredSame
    <2>3. CASE ~\E s \in Screen, m \in Message : SendPressed(s, m)
        <3>1. UNCHANGED <<author, submitted, committed, tasks>>
            BY <1>3, <2>3 DEF QuietTap, OpenForm, Back, LoginPressed, Type, CellForRow,
                  writes, history
        <3>2. QED
            BY <2>2, <3>1
    <2>4. QED
        BY <2>1, <2>3
<1>4. CASE Streams
    <2>1. ASSUME NEW m \in Message, Commit(m) PROVE Authored'
        <3>1. fsUser \in User /\ Store!Commit(fsUser, m)
              /\ UNCHANGED <<submitted, author, tasks>>
            BY <2>1 DEF Commit, Store!Commit, history, TypeInv, TypeOK
        <3>2. m \in ToSet(submitted[fsUser]) /\ committed' = Append(committed, m)
            BY <3>1 DEF Store!Commit, ToSet
        <3>3. ToSet(committed') = ToSet(committed) \cup {m}
            BY <1>1, <3>2, AppendedSet
        <3>4. author[m] # NoUser
            BY <3>1, <3>2 DEF Authored
        <3>5. QED
            BY <3>1, <3>3, <3>4 DEF Authored
    <2>2. ASSUME UNCHANGED <<author, submitted, committed, tasks>> PROVE Authored'
        BY <2>2, AuthoredSame
    <2>3. CASE ~\E m \in Message : Commit(m)
        <3>1. UNCHANGED <<author, submitted, committed, tasks>>
            BY <1>4, <2>3 DEF Streams, Settle, ForeignWrite, ApplyRemoteEvent,
                  HandleRejectedListen, GoOffline, Store!Settle, writes, history
        <3>2. QED
            BY <2>2, <3>1
    <2>4. QED
        BY <2>1, <2>3
<1>5. CASE \E i \in 1..MaxRequests, ok \in BOOLEAN : SignInAnswered(i, ok)
    <2>1. UNCHANGED <<author, submitted, committed, tasks>>
        BY <1>5 DEF SignInAnswered, writes, history
    <2>2. QED
        BY <2>1, AuthoredSame
<1>6. CASE \E s \in Screen : LogOutPressed(s)
    <2>1. UNCHANGED <<author, submitted, committed, tasks>>
        BY <1>6 DEF LogOutPressed, writes, history
    <2>2. QED
        BY <2>1, AuthoredSame
<1>7. CASE RunBlock
    <2>1. UNCHANGED <<author, submitted, committed>>
        BY <1>7, RunBlockFacts
    <2>2. PICK c : /\ Ran(c)
                   /\ RanAuth \/ RanSignedIn \/ RanSnapshot(c) \/ RanReload \/ RanSaved(c) \/ RanClear
        BY <1>7, RunBlockFacts
    <2>3. CASE UNCHANGED tasks
        BY <2>1, <2>3, AuthoredSame
    <2>4. ASSUME NEW t \in Task, t.kind # "write", tasks' = Append(tasks, t) PROVE Authored'
        <3>1. ToSet(tasks') = ToSet(tasks) \cup {t}
            BY <1>1, <2>4, AppendedSet
        <3>2. QED
            BY <2>1, <2>4, <3>1, AuthoredSame
    <2>5. CASE RanAuth
        <3>1. PICK t : t = [kind |-> "user", user |-> main[1].user]
            OBVIOUS
        <3>2. t \in Task /\ t.kind = "user"
            BY <2>2, <2>5, <3>1, BlockFields, Tasks DEF Ran, RanAuth
        <3>3. QED
            BY <2>4, <2>5, <3>1, <3>2 DEF RanAuth
    <2>6. ASSUME NEW s \in Screen, tasks' = Append(tasks, [kind |-> "listen", screen |-> s])
          PROVE  Authored'
        <3>1. PICK t : t = [kind |-> "listen", screen |-> s]
            OBVIOUS
        <3>2. t \in Task /\ t.kind = "listen"
            BY <3>1, Tasks
        <3>3. QED
            BY <2>4, <2>6, <3>1, <3>2
    <2>7. QED
        BY <2>2, <2>3, <2>5, <2>6 DEF RanSignedIn, RanSnapshot, RanReload, RanSaved, RanClear
<1>8. CASE Relaunch
    BY <1>8, SmallSets DEF Authored, Relaunch, Store!Relaunch
<1>9. CASE UNCHANGED vars
    BY <1>9, AuthoredSame DEF vars, writes, history
<1>10. QED
    BY <1>2, <1>3, <1>4, <1>5, <1>6, <1>7, <1>8, <1>9, Steps

LEMMA SavedStep == TypeInv /\ SavedInv /\ [Next]_vars => SavedIsCommitted'
<1> SUFFICES ASSUME TypeInv, SavedInv, [Next]_vars PROVE SavedIsCommitted'
    OBVIOUS
<1>1. /\ committed \in Seq(Message) /\ sentFrom \in [Message -> Screen \cup {NoScreen}]
      /\ main \in Seq(Block) /\ SavedIsCommitted /\ Authored
    BY DEF TypeInv, TypeOK, StoreTypes, SavedInv
<1>2. CASE RunTask \/ QuietTap \/ Streams
    <2>1. PICK b : Joined(b) /\ \A x \in ToSet(b) : FromWorker(x)
        BY <1>2, QuietMain
    <2>2. \A x \in ToSet(main') : x \in ToSet(main) \/ FromWorker(x)
        BY <2>1 DEF Joined
    <2>3. CASE UNCHANGED <<sentFrom, committed>>
        BY <1>1, <2>2, <2>3, SavedSame
    <2>4. ASSUME NEW s \in Screen, NEW m \in Message, SendPressed(s, m)
          PROVE  SavedIsCommitted'
        <3>1. /\ sentFrom' = [sentFrom EXCEPT ![m] = s] /\ author[m] = NoUser
              /\ UNCHANGED <<committed, main>>
            BY <2>4 DEF SendPressed, writes
        <3>2. ~Store!Committed(m)
            BY <1>1, <3>1, CommittedSet DEF Authored
        <3>3. \A n \in Message : Store!Committed(n) => sentFrom'[n] = sentFrom[n]
            BY <1>1, <3>1, <3>2
        <3>4. QED
            BY <1>1, <3>1, <3>3 DEF SavedIsCommitted, Store!Committed
    <2>5. ASSUME NEW m \in Message, Commit(m) PROVE SavedIsCommitted'
        <3>1. committed' = Append(committed, m) /\ UNCHANGED <<main, sentFrom>>
            BY <2>5 DEF Commit, Store!Commit, history
        <3>2. TypeInv'
            BY <2>5, TypeInvWorld
        <3>3. ToSet(committed') = ToSet(committed) \cup {m}
            BY <1>1, <3>1, AppendedSet
        <3>4. \A n : n \in ToSet(committed') <=> Store!Committed(n)'
            BY <3>2, SetType DEF TypeInv, StoreTypes, Store!Committed, Store!Contains, Contains
        <3>5. \A n : Store!Committed(n) => Store!Committed(n)'
            BY <3>3, <3>4, CommittedSet
        <3>6. QED
            BY <1>1, <3>1, <3>5 DEF SavedIsCommitted
    <2>6. CASE ~(\E s \in Screen, m \in Message : SendPressed(s, m)) /\ ~\E m \in Message : Commit(m)
        <3>1. UNCHANGED <<sentFrom, committed>>
            BY <1>2, <2>6 DEF RunTask, AddQueryListener, WriteMutations, HandleCredentialChange,
                  QuietTap, OpenForm, Back, LoginPressed, Type, CellForRow, Streams, Settle,
                  ForeignWrite, ApplyRemoteEvent, HandleRejectedListen, GoOffline,
                  Store!Submit, Store!Settle, writes, history
        <3>2. QED
            BY <2>3, <3>1
    <2>7. QED
        BY <2>4, <2>5, <2>6
<1>3. ASSUME NEW i \in 1..MaxRequests, NEW ok \in BOOLEAN, SignInAnswered(i, ok)
      PROVE  SavedIsCommitted'
    <2>1. UNCHANGED <<sentFrom, committed>>
        BY <1>3 DEF SignInAnswered, writes, history
    <2>2. \A b \in ToSet(main') : b \in ToSet(main) \/ b.kind \notin {"saved", "clear"}
        <3>1. CASE UNCHANGED main
            BY <3>1
        <3>2. ASSUME NEW x \in Block, NEW y \in Block, x.kind = "auth", y.kind = "signedIn",
                     Joined(<<x, y>>)
              PROVE  \A b \in ToSet(main') : b \in ToSet(main) \/ b.kind \notin {"saved", "clear"}
            <4>1. ToSet(<<x, y>>) = {x, y}
                BY DEF ToSet
            <4>2. QED
                BY <3>2, <4>1 DEF Joined
        <3>3. QED
            BY <1>3, <3>1, <3>2, SignInMain
    <2>3. QED
        BY <1>1, <2>1, <2>2, SavedSame
<1>4. ASSUME NEW s \in Screen, LogOutPressed(s) PROVE SavedIsCommitted'
    <2>1. UNCHANGED <<sentFrom, committed>>
        BY <1>4 DEF LogOutPressed, writes, history
    <2>2. \A b \in ToSet(main') : b \in ToSet(main) \/ b.kind = "auth"
        BY <1>4, LogOutMain DEF Joined
    <2>3. \A b \in ToSet(main') : b \in ToSet(main) \/ b.kind \notin {"saved", "clear"}
        BY <2>2
    <2>4. QED
        BY <1>1, <2>1, <2>3, SavedSame
<1>5. CASE RunBlock
    <2>1. UNCHANGED committed
        BY <1>5, RunBlockFacts
    <2>2. PICK c : /\ Ran(c)
                   /\ \/ c = <<>> /\ RanAuth
                      \/ c = <<>> /\ RanSignedIn
                      \/ RanSnapshot(c)
                      \/ c = <<>> /\ RanReload
                      \/ RanSaved(c)
                      \/ c = <<>> /\ RanClear
        BY <1>5, RunBlockFacts
    <2>3. \A b \in ToSet(main') : b \in ToSet(main) \/ b.kind \notin {"saved", "clear"}
             \/ (main[1].kind = "saved" /\ b.screen = main[1].screen)
        BY <2>2, SmallSets DEF Ran, RanSnapshot, RanSaved
    <2>4. main[1].kind = "saved" => \E m \in Message : sentFrom[m] = main[1].screen /\ Store!Committed(m)
        BY <1>1, <2>2 DEF Ran, SavedIsCommitted
    <2>5. CASE UNCHANGED sentFrom
        BY <1>1, <2>1, <2>3, <2>4, <2>5 DEF SavedIsCommitted, Store!Committed
    <2>6. ASSUME NEW s \in Screen, Free(s), main[1].kind = "signedIn",
                 sentFrom' = [m \in Message |-> IF sentFrom[m] = s THEN NoScreen ELSE sentFrom[m]]
          PROVE  SavedIsCommitted'
        <3>1. \A b \in ToSet(main) : b.kind \in {"saved", "clear"} => b.screen # s
            BY <2>6 DEF Free
        <3>2. \A m \in Message : sentFrom[m] # s => sentFrom'[m] = sentFrom[m]
            BY <2>6
        <3>3. \A b \in ToSet(main') : b \in ToSet(main) \/ b.kind \notin {"saved", "clear"}
            BY <2>3, <2>6
        <3>4. QED
            BY <1>1, <2>1, <3>1, <3>2, <3>3 DEF SavedIsCommitted, Store!Committed
    <2>7. QED
        BY <2>2, <2>5, <2>6 DEF RanAuth, RanSignedIn, RanSnapshot, RanReload, RanSaved, RanClear
<1>6. CASE Relaunch
    BY <1>6, SmallSets DEF SavedIsCommitted, Relaunch
<1>7. CASE UNCHANGED vars
    BY <1>1, <1>7, SavedSame DEF vars, writes, history
<1>8. QED
    BY <1>2, <1>3, <1>4, <1>5, <1>6, <1>7, Steps

LEMMA SavedInvariant == Spec => [](TypeInv /\ SavedInv)
<1>1. Init => SavedInv
    <2> SUFFICES ASSUME Init PROVE SavedInv
        OBVIOUS
    <2>1. /\ main = <<>> /\ tasks = <<>> /\ committed = <<>>
          /\ submitted = [u \in User |-> <<>>]
        BY DEF Init, Store!Init
    <2>2. QED
        BY <2>1, SmallSets DEF SavedInv, Authored, SavedIsCommitted
<1>2. TypeInv /\ SavedInv /\ [Next]_vars => SavedInv'
    BY AuthoredStep, SavedStep DEF SavedInv
<1>3. QED
    BY <1>1, <1>2, TypeInvariant, PTL DEF Spec

Clears(s) == OnStack(s) /\ OnStack(s)' /\ field[s] /\ ~field'[s]

\* A step empties the text of a chat that stays only in the second block of a
\* completion, and that block has a message behind it.
LEMMA ClearedStep ==
    ASSUME TypeInv, SavedInv, [Next]_vars, NEW s \in Screen, Clears(s)
    PROVE  \E m \in Message : sentFrom[m] = s /\ Store!Committed(m)
<1>1. field \in [Screen -> BOOLEAN]
    BY DEF TypeInv, TypeOK
<1>2. field' # field
    BY DEF Clears
<1>3. CASE RunTask \/ QuietTap \/ Streams
    <2>1. \A t \in Screen : field' = [field EXCEPT ![t] = TRUE] => field'[s] \/ ~field[s]
        BY <1>1
    <2>2. QED
        BY <1>2, <1>3, <2>1 DEF Clears, RunTask, QuietTap, Streams, OpenForm, Back, LoginPressed,
              Type, SendPressed, CellForRow, Commit, Settle, ForeignWrite, ApplyRemoteEvent,
              HandleRejectedListen, GoOffline, ui
<1>4. CASE RunBlock
    <2>1. PICK c : /\ Ran(c)
                   /\ RanAuth \/ RanSignedIn \/ RanSnapshot(c) \/ RanReload \/ RanSaved(c) \/ RanClear
        BY <1>4, RunBlockFacts
    <2>2. CASE RanClear
        <3>1. PICK t : t = main[1].screen
            OBVIOUS
        <3>2. t \in Screen /\ field' = [field EXCEPT ![t] = FALSE]
            BY <2>1, <2>2, <3>1, BlockFields DEF Ran, RanClear
        <3>3. s = t
            BY <1>1, <3>2 DEF Clears
        <3>4. QED
            BY <2>1, <2>2, <3>1, <3>3 DEF Ran, RanClear, SavedInv, SavedIsCommitted
    <2>3. ASSUME NEW t \in Screen, Free(t), field' = [field EXCEPT ![t] = FALSE] PROVE FALSE
        <3>1. s = t
            BY <1>1, <2>3 DEF Clears
        <3>2. QED
            BY <2>3, <3>1 DEF Free, Clears
    <2>4. QED
        BY <1>2, <2>1, <2>2, <2>3 DEF RanAuth, RanSignedIn, RanSnapshot, RanReload, RanSaved
<1>5. ~Relaunch
    <2>1. stack' = <<>> => ~OnStack(s)'
        BY DEF OnStack, Contains
    <2>2. QED
        BY <2>1 DEF Clears, Relaunch
<1>6. CASE \E i \in 1..MaxRequests, ok \in BOOLEAN : SignInAnswered(i, ok)
    BY <1>2, <1>6 DEF SignInAnswered, ui
<1>7. CASE \E t \in Screen : LogOutPressed(t)
    BY <1>2, <1>7 DEF LogOutPressed
<1>8. QED
    BY <1>2, <1>3, <1>4, <1>5, <1>6, <1>7, Steps DEF vars, ui

\* The text of a chat that stays on the screen's stack disappears only when a
\* message sent from that very chat is in the backend's collection: late
\* completion blocks, chats above it and screen objects used again included.
THEOREM ClearedMeansSaved == Spec => ClearedOnlyAfterSave
<1>1. TypeInv /\ SavedInv /\ [Next]_vars =>
          [\A s \in Screen : OnStack(s) /\ OnStack(s)' /\ field[s] /\ ~field'[s]
              => \E m \in Message : sentFrom[m] = s /\ Store!Committed(m)]_vars
    BY ClearedStep DEF Clears
<1>2. QED
    BY <1>1, SavedInvariant, PTL DEF Spec, ClearedOnlyAfterSave

(***************************************************************************)
(* The list a chat will have is Firestore's view.                          *)
(***************************************************************************)

IsSnapshotFor(x, s) == x.kind = "snapshot" /\ x.screen = s

\* Once the snapshots for s in the queue q have run, the list l has become L.
Follows(q, s, l, L) ==
    /\ (\A i \in 1..Len(q) : ~IsSnapshotFor(q[i], s)) => l = L
    /\ \A i \in 1..Len(q) :
          /\ IsSnapshotFor(q[i], s)
          /\ \A j \in 1..Len(q) : j > i => ~IsSnapshotFor(q[j], s)
          => Listed(q[i].docs) = L

LatestInv == \A s \in raised : Follows(main, s, messages[s], Listed(View))

LEMMA FollowsExtended ==
    ASSUME NEW q, NEW r, NEW b, IsExtension(r, q, b), NEW s, NEW l, NEW L,
           Follows(q, s, l, L), \A i \in 1..Len(b) : ~IsSnapshotFor(b[i], s)
    PROVE  Follows(r, s, l, L)
<1>1. /\ Len(q) \in Nat /\ Len(b) \in Nat /\ Len(r) = Len(q) + Len(b)
      /\ \A i \in 1..Len(q) : r[i] = q[i]
      /\ \A i \in 1..Len(b) : r[Len(q) + i] = b[i]
    BY DEF IsExtension
<1>2. ASSUME NEW k \in 1..Len(r), k > Len(q) PROVE ~IsSnapshotFor(r[k], s)
    <2>1. k - Len(q) \in 1..Len(b) /\ Len(q) + (k - Len(q)) = k
        BY <1>1, <1>2
    <2>2. r[k] = b[k - Len(q)]
        BY <1>1, <2>1
    <2>3. QED
        BY <2>1, <2>2
<1>3. \A k \in 1..Len(q) : k \in 1..Len(r) /\ r[k] = q[k]
    BY <1>1
<1>4. ASSUME \A i \in 1..Len(r) : ~IsSnapshotFor(r[i], s) PROVE l = L
    BY <1>3, <1>4 DEF Follows
<1>5. ASSUME NEW i \in 1..Len(r), IsSnapshotFor(r[i], s),
             \A j \in 1..Len(r) : j > i => ~IsSnapshotFor(r[j], s)
      PROVE  Listed(r[i].docs) = L
    <2>1. i \in 1..Len(q)
        BY <1>1, <1>2, <1>5
    <2>2. IsSnapshotFor(q[i], s) /\ \A j \in 1..Len(q) : j > i => ~IsSnapshotFor(q[j], s)
        BY <1>3, <1>5, <2>1
    <2>3. Listed(q[i].docs) = L
        BY <2>1, <2>2 DEF Follows
    <2>4. QED
        BY <1>3, <2>1, <2>3
<1>6. QED
    BY <1>4, <1>5 DEF Follows

LEMMA FollowsTold ==
    ASSUME NEW q, NEW r, NEW b, IsExtension(r, q, b), NEW s, NEW l, NEW L,
           \E i \in 1..Len(b) : IsSnapshotFor(b[i], s),
           \A i \in 1..Len(b) : IsSnapshotFor(b[i], s) => Listed(b[i].docs) = L
    PROVE  Follows(r, s, l, L)
<1>1. /\ Len(q) \in Nat /\ Len(b) \in Nat /\ Len(r) = Len(q) + Len(b)
      /\ \A i \in 1..Len(q) : r[i] = q[i]
      /\ \A i \in 1..Len(b) : r[Len(q) + i] = b[i]
    BY DEF IsExtension
<1>2. PICK k \in 1..Len(b) : IsSnapshotFor(b[k], s)
    OBVIOUS
<1>3. PICK n \in Nat : n = Len(q) + k
    BY <1>1
<1>4. n \in 1..Len(r) /\ n > Len(q) /\ IsSnapshotFor(r[n], s)
    BY <1>1, <1>2, <1>3
<1>5. ASSUME NEW i \in 1..Len(r), IsSnapshotFor(r[i], s),
             \A j \in 1..Len(r) : j > i => ~IsSnapshotFor(r[j], s)
      PROVE  Listed(r[i].docs) = L
    <2>1. i >= n
        BY <1>1, <1>4, <1>5
    <2>2. i - Len(q) \in 1..Len(b) /\ Len(q) + (i - Len(q)) = i
        BY <1>1, <1>4, <2>1
    <2>3. r[i] = b[i - Len(q)]
        BY <1>1, <2>2
    <2>4. QED
        BY <1>5, <2>2, <2>3
<1>6. ~\A i \in 1..Len(r) : ~IsSnapshotFor(r[i], s)
    BY <1>4
<1>7. QED
    BY <1>5, <1>6 DEF Follows

LEMMA FollowsShifted ==
    ASSUME NEW q, NEW r, NEW b, IsShift(r, q, b), NEW s, NEW l, NEW L, NEW k,
           Follows(q, s, l, L), \A i \in 1..Len(b) : ~IsSnapshotFor(b[i], s),
           k = IF IsSnapshotFor(q[1], s) THEN Listed(q[1].docs) ELSE l
    PROVE  Follows(r, s, k, L)
<1>1. /\ Len(q) \in Nat \ {0} /\ Len(b) \in Nat /\ Len(r) = Len(q) - 1 + Len(b)
      /\ \A i \in 1..(Len(q) - 1) : r[i] = q[i + 1]
      /\ \A i \in 1..Len(b) : r[Len(q) - 1 + i] = b[i]
    BY DEF IsShift
<1>2. ASSUME NEW n \in 1..Len(r), n > Len(q) - 1 PROVE ~IsSnapshotFor(r[n], s)
    <2>1. n - (Len(q) - 1) \in 1..Len(b) /\ Len(q) - 1 + (n - (Len(q) - 1)) = n
        BY <1>1, <1>2
    <2>2. r[n] = b[n - (Len(q) - 1)]
        BY <1>1, <2>1
    <2>3. QED
        BY <2>1, <2>2
<1>3. ASSUME NEW n \in 1..Len(q), n # 1
      PROVE  \E i \in 1..Len(r) : n = i + 1 /\ i <= Len(q) - 1 /\ r[i] = q[n]
    <2>1. n - 1 \in 1..Len(r) /\ n - 1 \in 1..(Len(q) - 1) /\ n = (n - 1) + 1
        BY <1>1, <1>3
    <2>2. QED
        BY <1>1, <2>1
<1>4. ASSUME \A i \in 1..Len(r) : ~IsSnapshotFor(r[i], s) PROVE k = L
    <2>1. \A n \in 1..Len(q) : n # 1 => ~IsSnapshotFor(q[n], s)
        BY <1>3, <1>4
    <2>2. CASE IsSnapshotFor(q[1], s)
        <3>1. 1 \in 1..Len(q) /\ \A j \in 1..Len(q) : j > 1 => ~IsSnapshotFor(q[j], s)
            BY <1>1, <2>1
        <3>2. QED
            BY <2>2, <3>1 DEF Follows
    <2>3. CASE ~IsSnapshotFor(q[1], s)
        BY <2>1, <2>3 DEF Follows
    <2>4. QED
        BY <2>2, <2>3
<1>5. ASSUME NEW i \in 1..Len(r), IsSnapshotFor(r[i], s),
             \A j \in 1..Len(r) : j > i => ~IsSnapshotFor(r[j], s)
      PROVE  Listed(r[i].docs) = L
    <2>1. i \in 1..(Len(q) - 1) /\ i + 1 \in 1..Len(q) /\ r[i] = q[i + 1]
        BY <1>1, <1>2, <1>5
    <2>2. ASSUME NEW n \in 1..Len(q), n > i + 1 PROVE ~IsSnapshotFor(q[n], s)
        <3>1. PICK j \in 1..Len(r) : n = j + 1 /\ r[j] = q[n]
            BY <1>3, <2>1, <2>2
        <3>2. j > i
            BY <2>2, <3>1
        <3>3. QED
            BY <1>5, <3>1, <3>2
    <2>3. PICK n \in 1..Len(q) : n = i + 1
        BY <2>1
    <2>4. IsSnapshotFor(q[n], s) /\ r[i] = q[n]
          /\ \A j \in 1..Len(q) : j > n => ~IsSnapshotFor(q[j], s)
        BY <1>5, <2>1, <2>2, <2>3
    <2>5. Listed(q[n].docs) = L
        BY <2>4 DEF Follows
    <2>6. QED
        BY <2>4, <2>5
<1>6. QED
    BY <1>4, <1>5 DEF Follows

LEMMA ViewSame ==
    ASSUME UNCHANGED <<cache, fsUser, submitted, settled>>
    PROVE  View' = View
BY DEF View, Pending, Store!SubmittedBy, Store!Contains

\* A step that tells nobody.
LEMMA LatestSame ==
    ASSUME LatestInv, raised' \subseteq raised, UNCHANGED messages, View' = View,
           NEW b, IsExtension(main', main, b),
           \A i \in 1..Len(b) : b[i].kind # "snapshot"
    PROVE  LatestInv'
<1>1. PICK m : m = main'
    OBVIOUS
<1>2. ASSUME NEW s \in raised PROVE Follows(m, s, messages[s], Listed(View))
    <2>1. PICK l, L : l = messages[s] /\ L = Listed(View)
        OBVIOUS
    <2>2. Follows(main, s, l, L)
        BY <2>1 DEF LatestInv
    <2>3. IsExtension(m, main, b) /\ \A i \in 1..Len(b) : ~IsSnapshotFor(b[i], s)
        BY <1>1 DEF IsSnapshotFor
    <2>4. Follows(m, s, l, L)
        BY <2>2, <2>3, FollowsExtended
    <2>5. QED
        BY <2>1, <2>4
<1>3. Listed(View)' = Listed(View)
    BY DEF Listed
<1>4. \A s : Follows(m, s, messages[s], Listed(View)) =>
              Follows(main, s, messages[s], Listed(View))'
    BY <1>1, <1>3 DEF Follows, Listed
<1>5. QED
    BY <1>2, <1>4 DEF LatestInv

\* A step that publishes: who is told has the new view in the queue, and for
\* the others the view is as it was.
LEMMA LatestPublish ==
    ASSUME TypeInv, LatestInv, UNCHANGED messages,
           listeners' \in Seq(Screen), View' \subseteq Message,
           NEW blocks \in Seq(Block), \A i \in 1..Len(blocks) : blocks[i].kind # "snapshot",
           Publish(blocks)
    PROVE  LatestInv'
<1>1. main \in Seq(Block)
    BY DEF TypeInv, TypeOK
<1>2. PICK events : /\ AreEvents(events)
                    /\ main' = main \o (blocks \o events)
                    /\ \A s : s \in raised' <=>
                          Told(s) \/ (s \in raised /\ s \in Screen /\ Contains(listeners', s))
    BY <1>1, PublishFacts
<1>3. PICK b, m, V : b = blocks \o events /\ m = main' /\ V = View'
    OBVIOUS
<1>4. /\ events \in Seq(Block)
      /\ \A k \in 1..Len(events) : \E s : Told(s) /\ events[k] = Snapshot(s, V)
      /\ \A s : Told(s) => \E k \in 1..Len(events) : events[k] = Snapshot(s, V)
    BY <1>2, <1>3 DEF AreEvents
<1>5. /\ b \in Seq(Block) /\ IsExtension(b, blocks, events) /\ IsExtension(m, main, b)
    <2>1. b \in Seq(Block) /\ IsExtension(b, blocks, events)
        BY <1>3, <1>4, Extended
    <2>2. m = main \o b
        BY <1>2, <1>3
    <2>3. QED
        BY <1>1, <2>1, <2>2, Extended
<1>6. /\ Len(blocks) \in Nat /\ Len(events) \in Nat /\ Len(b) = Len(blocks) + Len(events)
      /\ \A i \in 1..Len(blocks) : b[i] = blocks[i]
      /\ \A i \in 1..Len(events) : b[Len(blocks) + i] = events[i]
    BY <1>5 DEF IsExtension
<1>7. ASSUME NEW i \in 1..Len(b), b[i].kind = "snapshot"
      PROVE  \E s : Told(s) /\ b[i] = Snapshot(s, V)
    <2>1. i > Len(blocks)
        BY <1>6, <1>7
    <2>2. i - Len(blocks) \in 1..Len(events) /\ Len(blocks) + (i - Len(blocks)) = i
        BY <1>6, <2>1
    <2>3. b[i] = events[i - Len(blocks)]
        BY <1>6, <2>2
    <2>4. QED
        BY <1>4, <2>2, <2>3
<1>8. ASSUME NEW s, Told(s) PROVE Follows(m, s, messages[s], Listed(V))
    <2>1. PICK l, L : l = messages[s] /\ L = Listed(V)
        OBVIOUS
    <2>2. PICK k \in 1..Len(events) : events[k] = Snapshot(s, V)
        BY <1>4, <1>8
    <2>3. Len(blocks) + k \in 1..Len(b) /\ b[Len(blocks) + k] = Snapshot(s, V)
        BY <1>6, <2>2
    <2>4. \E i \in 1..Len(b) : IsSnapshotFor(b[i], s)
        BY <2>3, SnapshotFields DEF IsSnapshotFor
    <2>5. \A i \in 1..Len(b) : IsSnapshotFor(b[i], s) => Listed(b[i].docs) = L
        BY <1>7, <2>1, SnapshotFields DEF IsSnapshotFor
    <2>6. Follows(m, s, l, L)
        BY <1>5, <2>4, <2>5, FollowsTold
    <2>7. QED
        BY <2>1, <2>6
<1>9. ASSUME NEW s \in raised, s \in Screen, Contains(listeners', s), ~Told(s)
      PROVE  Follows(m, s, messages[s], Listed(V))
    <2>1. V = View
        BY <1>3, <1>9 DEF Told, ShouldRaise
    <2>2. PICK l, L : l = messages[s] /\ L = Listed(V)
        OBVIOUS
    <2>3. Follows(main, s, l, L)
        BY <2>1, <2>2 DEF LatestInv
    <2>4. \A i \in 1..Len(b) : ~IsSnapshotFor(b[i], s)
        BY <1>7, <1>9, SnapshotFields DEF IsSnapshotFor
    <2>5. Follows(m, s, l, L)
        BY <1>5, <2>3, <2>4, FollowsExtended
    <2>6. QED
        BY <2>2, <2>5
<1>10. \A s \in raised' : Follows(m, s, messages[s], Listed(V))
    BY <1>2, <1>8, <1>9
<1>11. Listed(View)' = Listed(V)
    BY <1>3 DEF Listed
<1>12. \A s : Follows(m, s, messages[s], Listed(V)) =>
              Follows(main, s, messages[s], Listed(View))'
    BY <1>3, <1>11 DEF Follows, Listed
<1>13. QED
    BY <1>10, <1>12 DEF LatestInv

LEMMA LatestRunBlock ==
    ASSUME TypeInv, LatestInv, RunBlock
    PROVE  LatestInv'
<1>1. /\ UNCHANGED <<fsUser, listeners, raised, cache, submitted, settled>>
      /\ messages \in [Screen -> Seq(Message)] /\ raised \subseteq ToSet(listeners)
      /\ listeners \in Seq(Screen)
    BY RunBlockFacts DEF TypeInv, TypeOK
<1>2. PICK c : /\ Ran(c)
               /\ \/ c = <<>> /\ RanAuth
                  \/ c = <<>> /\ RanSignedIn
                  \/ RanSnapshot(c)
                  \/ c = <<>> /\ RanReload
                  \/ RanSaved(c)
                  \/ c = <<>> /\ RanClear
    BY RunBlockFacts
<1>3. \A i \in 1..Len(c) : c[i].kind # "snapshot"
    <2>1. CASE c = <<>>
        BY <2>1
    <2>2. CASE RanSnapshot(c)
        BY <2>2 DEF RanSnapshot
    <2>3. CASE RanSaved(c)
        BY <2>3 DEF RanSaved
    <2>4. QED
        BY <1>2, <2>1, <2>2, <2>3
<1>4. View' = View
    BY <1>1, ViewSame
<1>5. PICK m, V : m = main' /\ V = View
    OBVIOUS
<1>6. raised \subseteq Screen /\ \A s \in raised : Contains(listeners, s)
    BY <1>1, SetType
<1>7. ASSUME NEW s \in raised
      PROVE  messages'[s] = IF IsSnapshotFor(main[1], s) THEN Listed(main[1].docs) ELSE messages[s]
    <2>1. s \in Screen
        BY <1>6
    <2>2. CASE UNCHANGED messages /\ main[1].kind # "snapshot"
        BY <2>2 DEF IsSnapshotFor
    <2>3. CASE RanSnapshot(c)
        BY <1>1, <2>1, <2>3 DEF RanSnapshot, IsSnapshotFor
    <2>4. ASSUME NEW t \in Screen, Free(t), messages' = [messages EXCEPT ![t] = <<>>],
                 main[1].kind = "signedIn"
          PROVE  messages'[s] = IF IsSnapshotFor(main[1], s) THEN Listed(main[1].docs)
                                ELSE messages[s]
        <3>1. s # t
            BY <1>6, <2>4 DEF Free
        <3>2. QED
            BY <1>1, <2>1, <2>4, <3>1 DEF IsSnapshotFor
    <2>5. QED
        BY <1>2, <2>2, <2>3, <2>4 DEF RanAuth, RanSignedIn, RanReload, RanSaved, RanClear
<1>8. ASSUME NEW s \in raised PROVE Follows(m, s, messages'[s], Listed(V))
    <2>1. PICK l, k, L : l = messages[s] /\ k = messages'[s] /\ L = Listed(V)
        OBVIOUS
    <2>2. Follows(main, s, l, L)
        BY <1>5, <2>1 DEF LatestInv
    <2>3. IsShift(m, main, c) /\ \A i \in 1..Len(c) : ~IsSnapshotFor(c[i], s)
        BY <1>2, <1>3, <1>5 DEF Ran, IsSnapshotFor
    <2>4. k = IF IsSnapshotFor(main[1], s) THEN Listed(main[1].docs) ELSE l
        BY <1>7, <2>1
    <2>5. Follows(m, s, k, L)
        BY <2>2, <2>3, <2>4, FollowsShifted
    <2>6. QED
        BY <2>1, <2>5
<1>9. Listed(View)' = Listed(V)
    BY <1>4, <1>5 DEF Listed
<1>10. \A s : Follows(m, s, messages'[s], Listed(V)) =>
               Follows(main, s, messages[s], Listed(View))'
    BY <1>5, <1>9 DEF Follows, Listed
<1>11. QED
    BY <1>1, <1>8, <1>10 DEF LatestInv

LEMMA LatestInvStep == TypeInv /\ LatestInv /\ [Next]_vars => LatestInv'
<1> SUFFICES ASSUME TypeInv, LatestInv, [Next]_vars PROVE LatestInv'
    OBVIOUS
<1>1. TypeInv' /\ main \in Seq(Block)
    BY TypeInvStep DEF TypeInv, TypeOK
<1>2. listeners' \in Seq(Screen) /\ View' \subseteq Message
    <2>1. /\ submitted' \in [User -> Seq(Message)] /\ fsUser' \in User
          /\ cache' \in SUBSET Message /\ IsFiniteSet(cache') /\ listeners' \in Seq(Screen)
        BY <1>1 DEF TypeInv, TypeOK, StoreTypes, FiniteDocs
    <2>2. QED
        BY <2>1, NextViewType
<1>3. PICK e \in Seq(Block) : e = <<>>
    BY EmptySeq
<1>4. \A i \in 1..Len(e) : e[i].kind # "snapshot"
    BY <1>3
<1>5. ASSUME raised' \subseteq raised,
             UNCHANGED <<messages, cache, fsUser, submitted, settled>>,
             NEW b, Joined(b), \A i \in 1..Len(b) : b[i].kind # "snapshot"
      PROVE  LatestInv'
    <2>1. View' = View
        BY <1>5, ViewSame
    <2>2. QED
        BY <1>5, <2>1, LatestSame DEF Joined
<1>6. ASSUME raised' \subseteq raised,
             UNCHANGED <<main, messages, cache, fsUser, submitted, settled>>
      PROVE  LatestInv'
    <2>1. PICK b : Joined(b) /\ ToSet(b) = {}
        BY <1>1, <1>6, JoinedNone
    <2>2. \A i \in 1..Len(b) : b[i].kind # "snapshot"
        BY <2>1, Entries DEF Joined
    <2>3. QED
        BY <1>5, <1>6, <2>1, <2>2
<1>7. CASE RunTask
    <2>1. Publish(e) /\ UNCHANGED messages
        BY <1>3, <1>7, RunTaskTypes DEF RunTask, ui
    <2>2. QED
        BY <1>2, <1>4, <2>1, LatestPublish
<1>8. CASE QuietTap
    <2>1. UNCHANGED <<main, messages, cache, fsUser, submitted, settled, raised>>
        BY <1>8 DEF QuietTap, OpenForm, Back, LoginPressed, Type, SendPressed, CellForRow,
              ui, view, writes
    <2>2. QED
        BY <1>6, <2>1
<1>9. CASE Streams
    <2>1. ASSUME NEW m \in Message, NEW result \in {"ok", "error"}, Settle(m, result)
          PROVE  LatestInv'
        <3>1. PICK d : d = Completion(m, result)
            OBVIOUS
        <3>2. d \in Seq(Block) /\ \A i \in 1..Len(d) : d[i].kind # "snapshot"
            <4>1. CASE m \in waiting /\ result = "ok"
                <5>1. sentFrom[m] \in Screen
                    BY <4>1 DEF TypeInv, Origins
                <5>2. PICK x : x = [kind |-> "saved", screen |-> sentFrom[m]]
                    OBVIOUS
                <5>3. x \in Block /\ x.kind = "saved"
                    BY <5>1, <5>2, Blocks
                <5>4. d = <<x>>
                    BY <3>1, <4>1, <5>2 DEF Completion
                <5>5. QED
                    BY <5>3, <5>4
            <4>2. CASE ~(m \in waiting /\ result = "ok")
                <5>1. d = e
                    BY <1>3, <3>1, <4>2 DEF Completion
                <5>2. QED
                    BY <1>4, <5>1
            <4>3. QED
                BY <4>1, <4>2
        <3>3. Publish(d) /\ UNCHANGED messages
            BY <2>1, <3>1 DEF Settle, ui
        <3>4. QED
            BY <1>2, <3>2, <3>3, LatestPublish
    <2>2. ASSUME NEW m \in Message, Commit(m) \/ ForeignWrite(m) PROVE LatestInv'
        <3>1. UNCHANGED <<main, messages, cache, fsUser, submitted, settled, raised>>
            BY <2>2 DEF Commit, Store!Commit, ForeignWrite, ui, view, writes
        <3>2. QED
            BY <1>6, <3>1
    <2>3. ASSUME NEW new \in SUBSET (Server \ cache), ApplyRemoteEvent(new) PROVE LatestInv'
        <3>1. Publish(e) /\ UNCHANGED messages
            BY <1>3, <2>3 DEF ApplyRemoteEvent, ui
        <3>2. QED
            BY <1>2, <1>4, <3>1, LatestPublish
    <2>4. CASE HandleRejectedListen
        <3>1. UNCHANGED <<main, messages, cache, fsUser, submitted, settled>> /\ raised' = {}
            BY <2>4 DEF HandleRejectedListen, ui, writes
        <3>2. QED
            BY <1>6, <3>1
    <2>5. CASE GoOffline
        <3>1. Publish(e) /\ UNCHANGED messages
            BY <1>3, <2>5 DEF GoOffline, ui
        <3>2. QED
            BY <1>2, <1>4, <3>1, LatestPublish
    <2>6. QED
        BY <1>9, <2>1, <2>2, <2>3, <2>4, <2>5 DEF Streams
<1>10. ASSUME NEW i \in 1..MaxRequests, NEW ok \in BOOLEAN, SignInAnswered(i, ok)
       PROVE  LatestInv'
    <2>1. UNCHANGED <<messages, cache, fsUser, submitted, settled, raised>>
        BY <1>10 DEF SignInAnswered, ui, view, writes
    <2>2. CASE UNCHANGED main
        BY <1>6, <2>1, <2>2
    <2>3. ASSUME NEW x \in Block, NEW y \in Block, x.kind = "auth", y.kind = "signedIn",
                 Joined(<<x, y>>)
          PROVE  LatestInv'
        <3>1. PICK b : b = <<x, y>>
            OBVIOUS
        <3>2. Joined(b) /\ \A k \in 1..Len(b) : b[k].kind # "snapshot"
            BY <2>3, <3>1
        <3>3. QED
            BY <1>5, <2>1, <3>2
    <2>4. QED
        BY <1>10, <2>2, <2>3, SignInMain
<1>11. ASSUME NEW s \in Screen, LogOutPressed(s) PROVE LatestInv'
    <2>1. UNCHANGED <<messages, cache, fsUser, submitted, settled, raised>>
        BY <1>11 DEF LogOutPressed, view, writes
    <2>2. PICK b : Joined(b) /\ \A x \in ToSet(b) : x.kind = "auth"
        BY <1>11, LogOutMain
    <2>3. \A i \in 1..Len(b) : b[i].kind # "snapshot"
        BY <2>2, Entries DEF Joined
    <2>4. QED
        BY <1>5, <2>1, <2>2, <2>3
<1>12. CASE Relaunch
    BY <1>12 DEF Relaunch, LatestInv
<1>13. CASE UNCHANGED vars
    <2>1. UNCHANGED <<main, messages, cache, fsUser, submitted, settled, raised>>
        BY <1>13 DEF vars, ui, view, writes
    <2>2. QED
        BY <1>6, <2>1
<1>14. QED
    BY <1>7, <1>8, <1>9, <1>10, <1>11, <1>12, <1>13, LatestRunBlock, Steps

\* The list that the last queued snapshot will leave.
LEMMA LatestList ==
    ASSUME TypeInv, LatestInv, NEW s \in raised
    PROVE  EventualList(s) = Listed(View)
<1>1. main \in Seq(Block) /\ s \in Screen
    BY SetType DEF TypeInv, TypeOK
<1>2. Len(main) \in Nat /\ DOMAIN main = 1..Len(main)
    BY <1>1
<1>3. PICK S : S = Queued("snapshot", s)
    OBVIOUS
<1>4. S = {i \in 1..Len(main) : IsSnapshotFor(main[i], s)}
    BY <1>2, <1>3 DEF Queued, IsSnapshotFor
<1>5. Follows(main, s, messages[s], Listed(View))
    BY DEF LatestInv
<1>6. CASE S = {}
    <2>1. EventualList(s) = messages[s]
        BY <1>3, <1>6 DEF EventualList
    <2>2. QED
        BY <1>4, <1>5, <1>6, <2>1 DEF Follows
<1>7. CASE S # {}
    <2>1. IsFiniteSet(S) /\ S \in SUBSET Nat
        <3>1. S \in SUBSET (1..Len(main)) /\ IsFiniteSet(1..Len(main))
            BY <1>2, <1>4, FS_Interval
        <3>2. IsFiniteSet(S)
            BY <3>1, FS_Subset
        <3>3. S \in SUBSET Nat
            BY <1>2, <3>1
        <3>4. QED
            BY <3>2, <3>3
    <2>2. \E i \in S : \A j \in S : j <= i
        BY <1>7, <2>1, LargestNumber
    <2>3. PICK i : i = CHOOSE k \in S : \A j \in S : j <= k
        OBVIOUS
    <2>4. i \in S /\ \A j \in S : j <= i
        BY <2>2, <2>3
    <2>5. EventualList(s) = Listed(main[i].docs)
        BY <1>3, <1>7, <2>3 DEF EventualList
    <2>6. /\ i \in 1..Len(main) /\ IsSnapshotFor(main[i], s)
          /\ \A j \in 1..Len(main) : j > i => ~IsSnapshotFor(main[j], s)
        BY <1>2, <1>4, <2>4
    <2>7. QED
        BY <1>5, <2>5, <2>6 DEF Follows
<1>8. QED
    BY <1>6, <1>7

LEMMA LatestInvariant == Spec => [](TypeInv /\ LatestInv)
<1>1. Init => LatestInv
    BY DEF Init, LatestInv
<1>2. QED
    BY <1>1, TypeInvariant, LatestInvStep, PTL DEF Spec

\* What a chat shows once its queued snapshots have run is what Firestore knows
\* of the collection, for any number of chats, documents and pending writes:
\* no event is lost, told to the wrong screen, or told out of order.
THEOREM ListsAreViews == Spec => []ListIsView
<1>1. TypeInv /\ LatestInv => ListIsView
    BY LatestList DEF ListIsView
<1>2. QED
    BY <1>1, LatestInvariant, PTL

(***************************************************************************)
(* Whose mutation queue takes a message.                                   *)
(***************************************************************************)

\* The block that tells Firestore of somebody signed in is followed by the
\* caller's, so that a queue without the second has none of the first.
Answered(q) ==
    \A i \in 1..Len(q) : q[i] \in PostsIn =>
        i + 1 \in 1..Len(q) /\ q[i + 1].kind = "signedIn"

\* No task of q between the i-th and the n-th changes the user.
SameUser(q, i, n) == \A k \in 1..Len(q) : i < k /\ k < n => q[k].kind # "user"

\* A worker queue with the tasks of q and the user v has the user u when it
\* comes to its n-th task.
HasUser(q, v, u, n) ==
    \/ v = u /\ SameUser(q, 0, n)
    \/ \E i \in 1..Len(q) : /\ i < n /\ q[i].kind = "user" /\ q[i].user = u
                            /\ SameUser(q, i, n)

Rules(u, n) == HasUser(tasks, fsUser, u, n)

NoAuth(q) == \A k \in 1..Len(q) : q[k].kind # "auth"

\* u is the user that the last auth block of q tells.
LastAuth(q, u) ==
    \E i \in 1..Len(q) :
        /\ q[i].kind = "auth" /\ q[i].user = u
        /\ \A k \in 1..Len(q) : k > i => q[k].kind # "auth"

\* The worker queue will have the account of the main thread.
AccountRules ==
    LastAuth(main, account) \/ (NoAuth(main) /\ Rules(account, Len(tasks) + 1))

\* A message that waits its turn on the worker queue meets its sender there,
\* unless it was sent while a sign-in was underway.
WritesRule ==
    \A j \in 1..Len(tasks) : tasks[j].kind = "write" =>
        Rules(author[tasks[j].doc], j) \/ tasks[j].doc \in early

OwnerInv == Answered(main) /\ AccountRules /\ WritesRule /\ SenderOwnsQueue

LEMMA HasUserExtended ==
    ASSUME NEW q, NEW r, NEW d, IsExtension(r, q, d), NEW v, NEW u
    PROVE  /\ \A n \in 1..(Len(q) + 1) : HasUser(q, v, u, n) => HasUser(r, v, u, n)
           /\ (\A i \in 1..Len(d) : d[i].kind # "user") /\ HasUser(q, v, u, Len(q) + 1)
                 => HasUser(r, v, u, Len(r) + 1)
<1>1. /\ Len(q) \in Nat /\ Len(d) \in Nat /\ Len(r) = Len(q) + Len(d)
      /\ \A i \in 1..Len(q) : r[i] = q[i]
      /\ \A i \in 1..Len(d) : r[Len(q) + i] = d[i]
    BY DEF IsExtension
<1>2. \A k \in 1..Len(q) : k \in 1..Len(r) /\ r[k] = q[k]
    BY <1>1
<1>3. ASSUME NEW i \in Nat, NEW n \in 1..(Len(q) + 1), SameUser(q, i, n)
      PROVE  SameUser(r, i, n)
    <2>1. ASSUME NEW k \in 1..Len(r), i < k, k < n PROVE r[k].kind # "user"
        <3>1. k \in 1..Len(q)
            BY <1>1, <2>1
        <3>2. QED
            BY <1>2, <1>3, <2>1, <3>1 DEF SameUser
    <2>2. QED
        BY <2>1 DEF SameUser
<1>4. ASSUME NEW n \in 1..(Len(q) + 1), HasUser(q, v, u, n) PROVE HasUser(r, v, u, n)
    <2>1. CASE v = u /\ SameUser(q, 0, n)
        BY <1>3, <2>1 DEF HasUser
    <2>2. ASSUME NEW i \in 1..Len(q), i < n, q[i].kind = "user", q[i].user = u, SameUser(q, i, n)
          PROVE  HasUser(r, v, u, n)
        BY <1>2, <1>3, <2>2 DEF HasUser
    <2>3. QED
        BY <1>4, <2>1, <2>2 DEF HasUser
<1>5. ASSUME \A i \in 1..Len(d) : d[i].kind # "user", HasUser(q, v, u, Len(q) + 1)
      PROVE  HasUser(r, v, u, Len(r) + 1)
    <2>1. ASSUME NEW k \in 1..Len(r), k > Len(q) PROVE r[k].kind # "user"
        <3>1. k - Len(q) \in 1..Len(d) /\ Len(q) + (k - Len(q)) = k
            BY <1>1, <2>1
        <3>2. r[k] = d[k - Len(q)]
            BY <1>1, <3>1
        <3>3. QED
            BY <1>5, <3>1, <3>2
    <2>2. ASSUME NEW i \in Nat, SameUser(q, i, Len(q) + 1) PROVE SameUser(r, i, Len(r) + 1)
        <3>1. ASSUME NEW k \in 1..Len(r), i < k, k <= Len(q) PROVE r[k].kind # "user"
            <4>1. k \in 1..Len(q) /\ k < Len(q) + 1
                BY <1>1, <3>1
            <4>2. QED
                BY <1>2, <2>2, <3>1, <4>1 DEF SameUser
        <3>2. QED
            BY <1>1, <2>1, <3>1 DEF SameUser
    <2>3. CASE v = u /\ SameUser(q, 0, Len(q) + 1)
        BY <2>2, <2>3 DEF HasUser
    <2>4. ASSUME NEW i \in 1..Len(q), q[i].kind = "user", q[i].user = u,
                 SameUser(q, i, Len(q) + 1)
          PROVE  HasUser(r, v, u, Len(r) + 1)
        <3>1. i \in 1..Len(r) /\ i < Len(r) + 1 /\ r[i] = q[i]
            BY <1>1, <1>2
        <3>2. QED
            BY <2>2, <2>4, <3>1 DEF HasUser
    <2>5. QED
        BY <1>5, <2>3, <2>4 DEF HasUser
<1>6. QED
    BY <1>4, <1>5

LEMMA HasUserShifted ==
    ASSUME NEW q, NEW r, NEW d, IsShift(r, q, d), Len(d) = 0, NEW v, NEW w, NEW u,
           q[1].kind = "user" => w = q[1].user,
           q[1].kind # "user" => w = v
    PROVE  \A n \in 1..Len(q) : HasUser(q, v, u, n + 1) => HasUser(r, w, u, n)
<1>1. /\ Len(q) \in Nat \ {0} /\ Len(r) = Len(q) - 1
      /\ \A i \in 1..(Len(q) - 1) : r[i] = q[i + 1]
    BY DEF IsShift
<1>2. ASSUME NEW i \in Nat, NEW n \in 1..Len(q), SameUser(q, i + 1, n + 1)
      PROVE  SameUser(r, i, n)
    <2>1. ASSUME NEW k \in 1..Len(r), i < k, k < n PROVE r[k].kind # "user"
        <3>1. k + 1 \in 1..Len(q) /\ i + 1 < k + 1 /\ k + 1 < n + 1 /\ r[k] = q[k + 1]
            BY <1>1, <2>1
        <3>2. QED
            BY <1>2, <3>1 DEF SameUser
    <2>2. QED
        BY <2>1 DEF SameUser
<1>3. ASSUME NEW n \in 1..Len(q), HasUser(q, v, u, n + 1) PROVE HasUser(r, w, u, n)
    <2>1. CASE v = u /\ SameUser(q, 0, n + 1)
        <3>1. q[1].kind # "user"
            BY <1>1, <2>1 DEF SameUser
        <3>2. SameUser(q, 0 + 1, n + 1)
            BY <2>1 DEF SameUser
        <3>3. SameUser(r, 0, n)
            BY <1>2, <3>2
        <3>4. QED
            BY <2>1, <3>1, <3>3 DEF HasUser
    <2>2. ASSUME NEW i \in 1..Len(q), i < n + 1, q[i].kind = "user", q[i].user = u,
                 SameUser(q, i, n + 1)
          PROVE  HasUser(r, w, u, n)
        <3>1. CASE i = 1
            <4>1. SameUser(q, 0 + 1, n + 1) /\ w = u
                BY <2>2, <3>1
            <4>2. SameUser(r, 0, n)
                BY <1>2, <4>1
            <4>3. QED
                BY <4>1, <4>2 DEF HasUser
        <3>2. CASE i # 1
            <4>1. PICK j \in Nat : i = j + 1
                <5>1. i - 1 \in Nat /\ i = (i - 1) + 1
                    BY <1>1
                <5>2. QED
                    BY <5>1
            <4>2. j \in 1..Len(r) /\ j < n /\ r[j] = q[i]
                BY <1>1, <2>2, <3>2, <4>1
            <4>3. SameUser(r, j, n)
                BY <1>2, <2>2, <4>1
            <4>4. QED
                BY <2>2, <4>2, <4>3 DEF HasUser
        <3>3. QED
            BY <3>1, <3>2
    <2>3. QED
        BY <1>3, <2>1, <2>2 DEF HasUser
<1>4. QED
    BY <1>3

LEMMA AnsweredExtended ==
    ASSUME NEW q, NEW r, NEW d, IsExtension(r, q, d), Answered(q), Answered(d)
    PROVE  Answered(r)
<1>1. /\ Len(q) \in Nat /\ Len(d) \in Nat /\ Len(r) = Len(q) + Len(d)
      /\ \A i \in 1..Len(q) : r[i] = q[i]
      /\ \A i \in 1..Len(d) : r[Len(q) + i] = d[i]
    BY DEF IsExtension
<1>2. ASSUME NEW i \in 1..Len(r), r[i] \in PostsIn
      PROVE  i + 1 \in 1..Len(r) /\ r[i + 1].kind = "signedIn"
    <2>1. CASE i <= Len(q)
        <3>1. i \in 1..Len(q) /\ r[i] = q[i]
            BY <1>1, <2>1
        <3>2. i + 1 \in 1..Len(q) /\ q[i + 1].kind = "signedIn"
            BY <1>2, <3>1 DEF Answered
        <3>3. QED
            BY <1>1, <3>2
    <2>2. CASE i > Len(q)
        <3>1. PICK k \in 1..Len(d) : i = Len(q) + k
            <4>1. i - Len(q) \in 1..Len(d) /\ i = Len(q) + (i - Len(q))
                BY <1>1, <2>2
            <4>2. QED
                BY <4>1
        <3>2. r[i] = d[k]
            BY <1>1, <3>1
        <3>3. k + 1 \in 1..Len(d) /\ d[k + 1].kind = "signedIn"
            BY <1>2, <3>2 DEF Answered
        <3>4. r[Len(q) + (k + 1)] = d[k + 1] /\ Len(q) + (k + 1) = i + 1
            BY <1>1, <3>1, <3>3
        <3>5. QED
            BY <1>1, <3>1, <3>3, <3>4
    <2>3. QED
        BY <1>1, <2>1, <2>2
<1>3. QED
    BY <1>2 DEF Answered

LEMMA AnsweredShifted ==
    ASSUME NEW q, NEW r, NEW d, IsShift(r, q, d), Answered(q),
           \A i \in 1..Len(d) : d[i] \notin PostsIn
    PROVE  Answered(r)
<1>1. /\ Len(q) \in Nat \ {0} /\ Len(d) \in Nat /\ Len(r) = Len(q) - 1 + Len(d)
      /\ \A i \in 1..(Len(q) - 1) : r[i] = q[i + 1]
      /\ \A i \in 1..Len(d) : r[Len(q) - 1 + i] = d[i]
    BY DEF IsShift
<1>2. ASSUME NEW i \in 1..Len(r), r[i] \in PostsIn
      PROVE  i + 1 \in 1..Len(r) /\ r[i + 1].kind = "signedIn"
    <2>1. i <= Len(q) - 1
        <3>1. SUFFICES ASSUME i > Len(q) - 1 PROVE FALSE
            BY <1>1
        <3>2. i - (Len(q) - 1) \in 1..Len(d) /\ Len(q) - 1 + (i - (Len(q) - 1)) = i
            BY <1>1, <3>1
        <3>3. r[i] = d[i - (Len(q) - 1)]
            BY <1>1, <3>2
        <3>4. QED
            BY <1>2, <3>2, <3>3
    <2>2. i + 1 \in 1..Len(q) /\ r[i] = q[i + 1]
        BY <1>1, <2>1
    <2>3. (i + 1) + 1 \in 1..Len(q) /\ q[(i + 1) + 1].kind = "signedIn"
        BY <1>2, <2>2 DEF Answered
    <2>4. i + 1 \in 1..(Len(q) - 1)
        BY <1>1, <2>3
    <2>5. r[i + 1] = q[(i + 1) + 1]
        BY <1>1, <2>4
    <2>6. QED
        BY <1>1, <2>3, <2>4, <2>5
<1>3. QED
    BY <1>2 DEF Answered

\* Blocks that sign nobody in join the queue.
LEMMA AnsweredKept ==
    ASSUME Answered(main), NEW b, Joined(b), \A x \in ToSet(b) : x \notin PostsIn
    PROVE  Answered(main)'
<1>1. PICK m : m = main'
    OBVIOUS
<1>2. Answered(b)
    BY Entries DEF Answered, Joined
<1>3. Answered(m)
    BY <1>1, <1>2, AnsweredExtended DEF Joined
<1>4. QED
    BY <1>1, <1>3 DEF Answered, PostsIn

LEMMA AnsweredStep ==
    ASSUME TypeInv, Answered(main), [Next]_vars
    PROVE  Answered(main)'
<1>1. main \in Seq(Block)
    BY DEF TypeInv, TypeOK
<1>2. CASE RunTask \/ QuietTap \/ Streams
    <2>1. PICK b : Joined(b) /\ \A x \in ToSet(b) : FromWorker(x)
        BY <1>2, QuietMain
    <2>2. \A x \in ToSet(b) : x \notin PostsIn
        BY <2>1 DEF FromWorker, PostsIn
    <2>3. QED
        BY <2>1, <2>2, AnsweredKept
<1>3. ASSUME NEW s \in Screen, LogOutPressed(s) PROVE Answered(main)'
    <2>1. PICK b : Joined(b) /\ \A x \in ToSet(b) : x.kind = "auth" /\ x.user = NoUser
        BY <1>3, LogOutMain
    <2>2. \A x \in ToSet(b) : x \notin PostsIn
        BY <2>1 DEF PostsIn
    <2>3. QED
        BY <2>1, <2>2, AnsweredKept
<1>4. ASSUME NEW i \in 1..MaxRequests, NEW ok \in BOOLEAN, SignInAnswered(i, ok)
      PROVE  Answered(main)'
    <2>1. CASE UNCHANGED main
        BY <2>1 DEF Answered, PostsIn
    <2>2. ASSUME NEW x \in Block, NEW y \in Block, y.kind = "signedIn", Joined(<<x, y>>)
          PROVE  Answered(main)'
        <3>1. PICK b, m : b = <<x, y>> /\ m = main'
            OBVIOUS
        <3>2. Len(b) = 2 /\ b[1] = x /\ b[2] = y /\ IsExtension(m, main, b)
            BY <2>2, <3>1 DEF Joined
        <3>3. y \notin PostsIn
            BY <2>2 DEF PostsIn
        <3>4. Answered(b)
            BY <2>2, <3>2, <3>3 DEF Answered
        <3>5. Answered(m)
            BY <3>2, <3>4, AnsweredExtended
        <3>6. QED
            BY <3>1, <3>5 DEF Answered, PostsIn
    <2>3. QED
        BY <1>4, <2>1, <2>2, SignInMain
<1>5. CASE RunBlock
    <2>1. PICK c : /\ Ran(c)
                   /\ \/ c = <<>> /\ RanAuth
                      \/ c = <<>> /\ RanSignedIn
                      \/ RanSnapshot(c)
                      \/ c = <<>> /\ RanReload
                      \/ RanSaved(c)
                      \/ c = <<>> /\ RanClear
        BY <1>5, RunBlockFacts
    <2>2. \A i \in 1..Len(c) : c[i] \notin PostsIn
        <3>1. CASE c = <<>>
            BY <3>1
        <3>2. CASE RanSnapshot(c)
            BY <3>2 DEF RanSnapshot, PostsIn
        <3>3. CASE RanSaved(c)
            BY <3>3 DEF RanSaved, PostsIn
        <3>4. QED
            BY <2>1, <3>1, <3>2, <3>3
    <2>3. PICK m : m = main'
        OBVIOUS
    <2>4. Answered(m)
        BY <2>1, <2>2, <2>3, AnsweredShifted DEF Ran
    <2>5. QED
        BY <2>3, <2>4 DEF Answered, PostsIn
<1>6. CASE Relaunch
    <2>1. PICK m : m = main'
        OBVIOUS
    <2>2. m = <<>>
        BY <1>6, <2>1 DEF Relaunch
    <2>3. QED
        BY <2>1, <2>2 DEF Answered
<1>7. CASE UNCHANGED vars
    BY <1>7 DEF vars, Answered, PostsIn
<1>8. QED
    BY <1>2, <1>3, <1>4, <1>5, <1>6, <1>7, Steps

LEMMA SigningInType ==
    ASSUME TypeInv
    PROVE  /\ SigningIn \in Nat
           /\ SigningIn = 0 => \A i \in 1..Len(main) : main[i].kind # "signedIn"
<1>1. main \in Seq(Block) /\ requests \in Seq([email : Email, form : Form])
    BY DEF TypeInv, TypeOK
<1>2. PICK A : A = {i \in DOMAIN main : main[i].kind = "signedIn"}
    OBVIOUS
<1>3. IsFiniteSet(A) /\ A = {i \in 1..Len(main) : main[i].kind = "signedIn"}
    <2>1. Len(main) \in Nat /\ DOMAIN main = 1..Len(main) /\ IsFiniteSet(1..Len(main))
        BY <1>1, FS_Interval
    <2>2. A \in SUBSET (1..Len(main))
        BY <1>2, <2>1
    <2>3. IsFiniteSet(A)
        BY <2>1, <2>2, FS_Subset
    <2>4. QED
        BY <1>2, <2>1, <2>3
<1>4. Cardinality(A) \in Nat
    BY <1>3, FS_CardinalityType
<1>5. Len(requests) \in Nat /\ SigningIn = Len(requests) + Cardinality(A)
    BY <1>1, <1>2 DEF SigningIn
<1>6. Cardinality(A) = 0 => A = {}
    BY <1>3, FS_EmptySet
<1>7. SigningIn = 0 => Cardinality(A) = 0
    BY <1>4, <1>5
<1>8. QED
    BY <1>3, <1>4, <1>5, <1>6, <1>7

\* With a chat on the screen and no sign-in underway no block of the main queue
\* changes the user.
LEMMA NoAuthQueued ==
    ASSUME TypeInv, ListenInv, Answered(main), Top \in Screen, SigningIn = 0
    PROVE  NoAuth(main)
<1>1. \A i \in 1..Len(main) : main[i] \in Block
    BY Entries DEF TypeInv, TypeOK
<1>2. \A i \in 1..Len(main) : main[i].kind # "signedIn"
    BY SigningInType
<1>3. \A i \in 1..Len(main) : main[i] \notin PostsIn
    BY <1>2 DEF Answered
<1>4. Clean(main, PostsOut, 0)
    BY DEF ListenInv, TopListens, SteadyNow, SteadyTask
<1>5. \A i \in 1..Len(main) : main[i] \notin PostsOut
    <2>1. ASSUME NEW i \in 1..Len(main) PROVE main[i] \notin PostsOut
        <3>1. i > 0
            OBVIOUS
        <3>2. QED
            BY <1>4, <3>1 DEF Clean
    <2>2. QED
        BY <2>1
<1>6. QED
    BY <1>1, <1>3, <1>5 DEF NoAuth, PostsIn, PostsOut

LEMMA AuthExtended ==
    ASSUME NEW q, NEW r, NEW d, IsExtension(r, q, d), NoAuth(d), NEW u
    PROVE  /\ NoAuth(q) => NoAuth(r)
           /\ LastAuth(q, u) => LastAuth(r, u)
<1>1. /\ Len(q) \in Nat /\ Len(d) \in Nat /\ Len(r) = Len(q) + Len(d)
      /\ \A i \in 1..Len(q) : r[i] = q[i]
      /\ \A i \in 1..Len(d) : r[Len(q) + i] = d[i]
    BY DEF IsExtension
<1>2. ASSUME NEW k \in 1..Len(r), r[k].kind = "auth" PROVE k \in 1..Len(q) /\ r[k] = q[k]
    <2>1. k <= Len(q)
        <3>1. SUFFICES ASSUME k > Len(q) PROVE FALSE
            BY <1>1
        <3>2. k - Len(q) \in 1..Len(d) /\ Len(q) + (k - Len(q)) = k
            BY <1>1, <3>1
        <3>3. r[k] = d[k - Len(q)]
            BY <1>1, <3>2
        <3>4. QED
            BY <1>2, <3>2, <3>3 DEF NoAuth
    <2>2. QED
        BY <1>1, <2>1
<1>3. NoAuth(q) => NoAuth(r)
    BY <1>2 DEF NoAuth
<1>4. ASSUME NEW i \in 1..Len(q), q[i].kind = "auth", q[i].user = u,
             \A k \in 1..Len(q) : k > i => q[k].kind # "auth"
      PROVE  LastAuth(r, u)
    <2>1. i \in 1..Len(r) /\ r[i] = q[i]
        BY <1>1
    <2>2. \A k \in 1..Len(r) : k > i => r[k].kind # "auth"
        BY <1>2, <1>4
    <2>3. QED
        BY <1>4, <2>1, <2>2 DEF LastAuth
<1>5. QED
    BY <1>3, <1>4 DEF LastAuth

LEMMA AuthShifted ==
    ASSUME NEW q, NEW r, NEW d, IsShift(r, q, d), NoAuth(d), NEW u
    PROVE  /\ NoAuth(q) => NoAuth(r)
           /\ LastAuth(q, u) => \/ LastAuth(r, u)
                                \/ NoAuth(r) /\ q[1].kind = "auth" /\ q[1].user = u
<1>1. /\ Len(q) \in Nat \ {0} /\ Len(d) \in Nat /\ Len(r) = Len(q) - 1 + Len(d)
      /\ \A i \in 1..(Len(q) - 1) : r[i] = q[i + 1]
      /\ \A i \in 1..Len(d) : r[Len(q) - 1 + i] = d[i]
    BY DEF IsShift
<1>2. ASSUME NEW k \in 1..Len(r), r[k].kind = "auth"
      PROVE  k + 1 \in 1..Len(q) /\ r[k] = q[k + 1]
    <2>1. k <= Len(q) - 1
        <3>1. SUFFICES ASSUME k > Len(q) - 1 PROVE FALSE
            BY <1>1
        <3>2. k - (Len(q) - 1) \in 1..Len(d) /\ Len(q) - 1 + (k - (Len(q) - 1)) = k
            BY <1>1, <3>1
        <3>3. r[k] = d[k - (Len(q) - 1)]
            BY <1>1, <3>2
        <3>4. QED
            BY <1>2, <3>2, <3>3 DEF NoAuth
    <2>2. QED
        BY <1>1, <2>1
<1>3. NoAuth(q) => NoAuth(r)
    BY <1>2 DEF NoAuth
<1>4. ASSUME NEW i \in 1..Len(q), q[i].kind = "auth", q[i].user = u,
             \A k \in 1..Len(q) : k > i => q[k].kind # "auth"
      PROVE  \/ LastAuth(r, u)
             \/ NoAuth(r) /\ q[1].kind = "auth" /\ q[1].user = u
    <2>1. ASSUME NEW k \in 1..Len(r), r[k].kind = "auth" PROVE k + 1 <= i
        <3>1. k + 1 \in 1..Len(q) /\ q[k + 1].kind = "auth"
            BY <1>2, <2>1
        <3>2. ~(k + 1 > i)
            BY <1>4, <3>1
        <3>3. QED
            BY <1>1, <3>1, <3>2
    <2>2. CASE i = 1
        <3>1. NoAuth(r)
            BY <1>1, <2>1, <2>2 DEF NoAuth
        <3>2. QED
            BY <1>4, <2>2, <3>1
    <2>3. CASE i # 1
        <3>1. PICK j \in Nat : i = j + 1
            <4>1. i - 1 \in Nat /\ i = (i - 1) + 1
                BY <1>1
            <4>2. QED
                BY <4>1
        <3>2. j \in 1..Len(r) /\ r[j] = q[i]
            BY <1>1, <2>3, <3>1
        <3>3. \A k \in 1..Len(r) : k > j => r[k].kind # "auth"
            BY <1>1, <2>1, <3>1
        <3>4. QED
            BY <1>4, <3>2, <3>3 DEF LastAuth
    <2>4. QED
        BY <2>2, <2>3
<1>5. QED
    BY <1>3, <1>4 DEF LastAuth

\* Tasks join the worker queue.
LEMMA RulesKept ==
    ASSUME UNCHANGED fsUser, NEW d, IsExtension(tasks', tasks, d), NEW u
    PROVE  /\ \A n \in 1..(Len(tasks) + 1) : Rules(u, n) => HasUser(tasks', fsUser', u, n)
           /\ (\A i \in 1..Len(d) : d[i].kind # "user") /\ Rules(u, Len(tasks) + 1)
                 => HasUser(tasks', fsUser', u, Len(tasks') + 1)
<1>1. PICK q, r, v : q = tasks /\ r = tasks' /\ v = fsUser
    OBVIOUS
<1>2. IsExtension(r, q, d)
    BY <1>1
<1>3. /\ \A n \in 1..(Len(q) + 1) : HasUser(q, v, u, n) => HasUser(r, v, u, n)
      /\ (\A i \in 1..Len(d) : d[i].kind # "user") /\ HasUser(q, v, u, Len(q) + 1)
            => HasUser(r, v, u, Len(r) + 1)
    BY <1>2, HasUserExtended
<1>4. QED
    BY <1>1, <1>3 DEF Rules

\* The first task has run.
LEMMA RulesRunTask ==
    ASSUME TypeInv, RunTask, NEW u
    PROVE  /\ Len(tasks) \in Nat \ {0} /\ Len(tasks') = Len(tasks) - 1
           /\ \A i \in 1..Len(tasks') : tasks'[i] = tasks[i + 1]
           /\ \A n \in 1..Len(tasks) : Rules(u, n + 1) => HasUser(tasks', fsUser', u, n)
<1>1. /\ tasks \in Seq(Task) /\ Len(tasks) \in Nat \ {0}
      /\ Len(tasks') = Len(tasks) - 1
      /\ \A i \in 1..Len(tasks') : tasks'[i] = tasks[i + 1]
      /\ tasks[1].kind = "user" => fsUser' = tasks[1].user
      /\ tasks[1].kind # "user" => fsUser' = fsUser
    BY RunTaskTypes
<1>2. PICK q, r, v, w : q = tasks /\ r = tasks' /\ v = fsUser /\ w = fsUser'
    OBVIOUS
<1>3. PICK d \in Seq(Task) : d = <<>>
    BY EmptySeq
<1>4. Len(d) = 0
    BY <1>3
<1>5. IsShift(r, q, d)
    BY <1>1, <1>2, <1>4 DEF IsShift
<1>6. /\ q[1].kind = "user" => w = q[1].user
      /\ q[1].kind # "user" => w = v
    BY <1>1, <1>2
<1>7. \A n \in 1..Len(q) : HasUser(q, v, u, n + 1) => HasUser(r, w, u, n)
    BY <1>4, <1>5, <1>6, HasUserShifted
<1>8. QED
    BY <1>1, <1>2, <1>7 DEF Rules

\* Neither the user nor the queues' last word on it changes.
LEMMA AccountRulesKept ==
    ASSUME AccountRules, UNCHANGED <<account, fsUser>>,
           NEW b, IsExtension(main', main, b), NoAuth(b),
           NEW d, IsExtension(tasks', tasks, d), \A i \in 1..Len(d) : d[i].kind # "user"
    PROVE  AccountRules'
<1>1. PICK m, n, u : m = main /\ n = main' /\ u = account
    OBVIOUS
<1>2. (NoAuth(m) => NoAuth(n)) /\ (LastAuth(m, u) => LastAuth(n, u))
    BY <1>1, AuthExtended
<1>3. Rules(u, Len(tasks) + 1) => HasUser(tasks', fsUser', u, Len(tasks') + 1)
    BY RulesKept
<1>4. QED
    BY <1>1, <1>2, <1>3 DEF AccountRules, Rules

LEMMA WritesRuleKept ==
    ASSUME WritesRule, UNCHANGED <<author, early, fsUser>>,
           NEW d, IsExtension(tasks', tasks, d), \A i \in 1..Len(d) : d[i].kind # "write"
    PROVE  WritesRule'
<1>1. PICK q : q = tasks'
    OBVIOUS
<1>2. /\ Len(tasks) \in Nat /\ Len(d) \in Nat /\ Len(q) = Len(tasks) + Len(d)
      /\ \A i \in 1..Len(tasks) : q[i] = tasks[i]
      /\ \A i \in 1..Len(d) : q[Len(tasks) + i] = d[i]
    BY <1>1 DEF IsExtension
<1>3. ASSUME NEW j \in 1..Len(q), q[j].kind = "write"
      PROVE  HasUser(q, fsUser', author[q[j].doc], j) \/ q[j].doc \in early
    <2>1. j <= Len(tasks)
        <3>1. SUFFICES ASSUME j > Len(tasks) PROVE FALSE
            BY <1>2
        <3>2. j - Len(tasks) \in 1..Len(d) /\ Len(tasks) + (j - Len(tasks)) = j
            BY <1>2, <3>1
        <3>3. q[j] = d[j - Len(tasks)]
            BY <1>2, <3>2
        <3>4. QED
            BY <1>3, <3>2, <3>3
    <2>2. j \in 1..Len(tasks) /\ q[j] = tasks[j] /\ j \in 1..(Len(tasks) + 1)
        BY <1>2, <2>1
    <2>3. Rules(author[tasks[j].doc], j) \/ tasks[j].doc \in early
        BY <1>3, <2>2 DEF WritesRule
    <2>4. Rules(author[tasks[j].doc], j) => HasUser(tasks', fsUser', author[tasks[j].doc], j)
        BY <2>2, RulesKept
    <2>5. QED
        BY <1>1, <2>2, <2>3, <2>4
<1>4. QED
    BY <1>1, <1>3 DEF WritesRule, Rules

LEMMA OwnerSame ==
    ASSUME SenderOwnsQueue, UNCHANGED <<author, early, submitted>>
    PROVE  SenderOwnsQueue'
BY DEF SenderOwnsQueue

\* What the worker queue does next, it does for the sender.
LEMMA OwnerRunTask ==
    ASSUME TypeInv, AccountRules, WritesRule, SenderOwnsQueue, RunTask
    PROVE  AccountRules' /\ WritesRule' /\ SenderOwnsQueue'
<1>1. /\ UNCHANGED <<account, author, early>>
      /\ submitted \in [User -> Seq(Message)] /\ fsUser \in User
    BY DEF RunTask, auth, history, TypeInv, TypeOK, StoreTypes
<1>2. /\ Len(tasks) \in Nat \ {0} /\ Len(tasks') = Len(tasks) - 1
      /\ \A i \in 1..Len(tasks') : tasks'[i] = tasks[i + 1]
    BY RulesRunTask
<1>3. AccountRules'
    <2>1. PICK b : Joined(b) /\ \A x \in ToSet(b) : FromWorker(x)
        BY QuietMain
    <2>2. NoAuth(b)
        BY <2>1, Entries DEF Joined, FromWorker, NoAuth
    <2>3. PICK m, n, u : m = main /\ n = main' /\ u = account
        OBVIOUS
    <2>4. IsExtension(n, m, b)
        BY <2>1, <2>3 DEF Joined
    <2>5. (NoAuth(m) => NoAuth(n)) /\ (LastAuth(m, u) => LastAuth(n, u))
        BY <2>2, <2>4, AuthExtended
    <2>6. Len(tasks) \in 1..Len(tasks) /\ Len(tasks') + 1 = Len(tasks)
        BY <1>2
    <2>7. Rules(u, Len(tasks) + 1) => HasUser(tasks', fsUser', u, Len(tasks') + 1)
        BY <2>6, RulesRunTask
    <2>8. QED
        BY <1>1, <2>3, <2>5, <2>7 DEF AccountRules, Rules
<1>4. WritesRule'
    <2>1. PICK q : q = tasks'
        OBVIOUS
    <2>2. ASSUME NEW j \in 1..Len(q), q[j].kind = "write"
          PROVE  HasUser(q, fsUser', author[q[j].doc], j) \/ q[j].doc \in early
        <3>1. j \in 1..Len(tasks) /\ j + 1 \in 1..Len(tasks) /\ q[j] = tasks[j + 1]
            BY <1>2, <2>1
        <3>2. Rules(author[tasks[j + 1].doc], j + 1) \/ tasks[j + 1].doc \in early
            BY <2>2, <3>1 DEF WritesRule
        <3>3. Rules(author[tasks[j + 1].doc], j + 1)
                => HasUser(tasks', fsUser', author[tasks[j + 1].doc], j)
            BY <3>1, RulesRunTask
        <3>4. QED
            BY <2>1, <3>1, <3>2, <3>3
    <2>3. QED
        BY <1>1, <2>1, <2>2 DEF WritesRule, Rules
<1>5. SenderOwnsQueue'
    <2>1. CASE tasks[1].kind # "write" /\ UNCHANGED writes
        BY <1>1, <2>1, OwnerSame DEF writes
    <2>2. CASE tasks[1].kind = "write" /\ Store!Submit(fsUser, tasks[1].doc)
        <3>1. PICK m : m = tasks[1].doc
            OBVIOUS
        <3>2. /\ m \in Message
              /\ submitted' = [submitted EXCEPT ![fsUser] = Append(@, m)]
            BY <2>2, <3>1, RunTaskTypes, TaskFields DEF Store!Submit
        <3>3. 1 \in 1..Len(tasks)
            BY <1>2
        <3>4. Rules(author[m], 1) \/ m \in early
            BY <2>2, <3>1, <3>3 DEF WritesRule
        <3>5. author[m] = fsUser \/ m \in early
            BY <1>2, <3>4 DEF Rules, HasUser
        <3>6. ToSet(Append(submitted[fsUser], m)) = ToSet(submitted[fsUser]) \cup {m}
            BY <1>1, <3>2, AppendedSet
        <3>7. ASSUME NEW u \in User, NEW x \in ToSet(submitted'[u]) PROVE author'[x] = u \/ x \in early'
            <4>1. CASE u = fsUser
                BY <1>1, <3>2, <3>5, <3>6, <3>7, <4>1 DEF SenderOwnsQueue
            <4>2. CASE u # fsUser
                BY <1>1, <3>2, <3>7, <4>2 DEF SenderOwnsQueue
            <4>3. QED
                BY <4>1, <4>2
        <3>8. QED
            BY <3>7 DEF SenderOwnsQueue
    <2>3. QED
        BY <2>1, <2>2, RunTaskTypes
<1>6. QED
    BY <1>3, <1>4, <1>5

\* A message is sent when both queues have come to know the sender.
LEMMA OwnerSend ==
    ASSUME TypeInv, ListenInv, Authored, Answered(main), AccountRules, WritesRule, SenderOwnsQueue,
           NEW s \in Screen, NEW m \in Message, SendPressed(s, m)
    PROVE  AccountRules' /\ WritesRule' /\ SenderOwnsQueue'
<1>1. /\ tasks \in Seq(Task) /\ author \in [Message -> User]
      /\ submitted \in [User -> Seq(Message)] /\ main \in Seq(Block)
    BY DEF TypeInv, TypeOK, StoreTypes
<1>2. /\ UNCHANGED <<account, fsUser, main, submitted>> /\ Top \in Screen
      /\ author[m] = NoUser /\ author' = [author EXCEPT ![m] = account]
      /\ early' = IF SigningIn > 0 THEN early \cup {m} ELSE early
    BY DEF SendPressed, auth, view, writes
<1>3. PICK t : t = [kind |-> "write", doc |-> m]
    OBVIOUS
<1>4. t \in Task /\ t.kind = "write" /\ t.doc = m /\ tasks' = Append(tasks, t)
    BY <1>3, Tasks DEF SendPressed
<1>5. PICK d : d = <<t>>
    OBVIOUS
<1>6. /\ IsExtension(tasks', tasks, d) /\ Len(d) = 1 /\ d[1] = t
      /\ Len(tasks) \in Nat /\ Len(tasks') = Len(tasks) + 1
      /\ \A i \in 1..Len(tasks) : tasks'[i] = tasks[i]
      /\ tasks'[Len(tasks) + 1] = t
    BY <1>1, <1>4, <1>5, TaskAdded
<1>7. \A i \in 1..Len(d) : d[i].kind # "user"
    BY <1>4, <1>6
<1>8. AccountRules'
    <2>1. PICK b \in Seq(Block) : b = <<>>
        BY EmptySeq
    <2>2. main' = main \o b /\ NoAuth(b)
        BY <1>1, <1>2, <2>1, ConcatEmptySeq DEF NoAuth
    <2>3. IsExtension(main \o b, main, b)
        BY <1>1, <2>1, Extended
    <2>4. QED
        BY <1>2, <1>6, <1>7, <2>2, <2>3, AccountRulesKept
<1>9. WritesRule'
    <2>1. PICK q : q = tasks'
        OBVIOUS
    <2>2. ASSUME NEW j \in 1..Len(q), q[j].kind = "write"
          PROVE  HasUser(q, fsUser', author'[q[j].doc], j) \/ q[j].doc \in early'
        <3>1. CASE j \in 1..Len(tasks)
            <4>1. q[j] = tasks[j] /\ j \in 1..(Len(tasks) + 1)
                BY <1>6, <2>1, <3>1
            <4>2. tasks[j] \in ToSet(tasks) /\ tasks[j] \in Task
                BY <1>1, <3>1, Entries
            <4>3. PICK x : x = tasks[j].doc
                OBVIOUS
            <4>4. x \in Message /\ author[x] # NoUser
                BY <2>2, <4>1, <4>2, <4>3, TaskFields DEF Authored
            <4>5. author'[x] = author[x]
                BY <1>1, <1>2, <4>4
            <4>6. Rules(author[x], j) \/ x \in early
                BY <2>2, <3>1, <4>1, <4>3 DEF WritesRule
            <4>7. Rules(author[x], j) => HasUser(tasks', fsUser', author[x], j)
                BY <1>2, <1>6, <4>1, RulesKept
            <4>8. QED
                BY <1>2, <2>1, <4>1, <4>3, <4>5, <4>6, <4>7
        <3>2. CASE j = Len(tasks) + 1
            <4>1. q[j].doc = m /\ author'[m] = account
                BY <1>1, <1>2, <1>4, <1>6, <2>1, <3>2
            <4>2. CASE SigningIn > 0
                BY <1>2, <4>1, <4>2
            <4>3. CASE ~(SigningIn > 0)
                <5>1. SigningIn = 0
                    BY <1>1, <4>3, SigningInType
                <5>2. NoAuth(main)
                    BY <1>2, <5>1, NoAuthQueued
                <5>3. Rules(account, Len(tasks) + 1)
                    BY <5>2 DEF AccountRules, LastAuth, NoAuth
                <5>4. j \in 1..(Len(tasks) + 1)
                    BY <1>6, <3>2
                <5>5. HasUser(tasks', fsUser', account, j)
                    BY <1>2, <1>6, <3>2, <5>3, <5>4, RulesKept
                <5>6. QED
                    BY <2>1, <4>1, <5>5
            <4>4. QED
                BY <4>2, <4>3
        <3>3. QED
            BY <1>6, <2>1, <3>1, <3>2
    <2>3. QED
        BY <2>1, <2>2 DEF WritesRule, Rules
<1>10. SenderOwnsQueue'
    <2>1. ASSUME NEW u \in User, NEW x \in ToSet(submitted[u]) PROVE author'[x] = u \/ x \in early'
        <3>1. x \in Message /\ author[x] # NoUser
            BY <1>1, SetType DEF Authored
        <3>2. QED
            BY <1>1, <1>2, <3>1 DEF SenderOwnsQueue
    <2>2. QED
        BY <1>2, <2>1 DEF SenderOwnsQueue
<1>11. QED
    BY <1>8, <1>9, <1>10

\* The block that tells Firestore of the user comes to the worker queue.
LEMMA OwnerRunBlock ==
    ASSUME TypeInv, AccountRules, WritesRule, SenderOwnsQueue, RunBlock
    PROVE  AccountRules' /\ WritesRule' /\ SenderOwnsQueue'
<1>1. UNCHANGED <<account, fsUser, author, early, submitted>>
    BY RunBlockFacts
<1>2. PICK c : /\ Ran(c)
               /\ \/ c = <<>> /\ RanAuth
                  \/ c = <<>> /\ RanSignedIn
                  \/ RanSnapshot(c)
                  \/ c = <<>> /\ RanReload
                  \/ RanSaved(c)
                  \/ c = <<>> /\ RanClear
    BY RunBlockFacts
<1>3. tasks \in Seq(Task) /\ main[1] \in Block
    BY <1>2 DEF TypeInv, TypeOK, Ran
<1>4. NoAuth(c)
    <2>1. CASE c = <<>>
        BY <2>1 DEF NoAuth
    <2>2. CASE RanSnapshot(c)
        BY <2>2 DEF RanSnapshot, NoAuth
    <2>3. CASE RanSaved(c)
        BY <2>3 DEF RanSaved, NoAuth
    <2>4. QED
        BY <1>2, <2>1, <2>2, <2>3
<1>5. PICK m, n, u : m = main /\ n = main' /\ u = account
    OBVIOUS
<1>6. /\ NoAuth(m) => NoAuth(n)
      /\ LastAuth(m, u) => \/ LastAuth(n, u)
                           \/ NoAuth(n) /\ m[1].kind = "auth" /\ m[1].user = u
    BY <1>2, <1>4, <1>5, AuthShifted DEF Ran
<1>7. CASE RanAuth
    <2>1. PICK t : t = [kind |-> "user", user |-> main[1].user]
        OBVIOUS
    <2>2. t \in Task /\ t.kind = "user" /\ t.user = main[1].user /\ tasks' = Append(tasks, t)
        BY <1>3, <1>7, <2>1, BlockFields, Tasks DEF RanAuth
    <2>3. PICK d : d = <<t>>
        OBVIOUS
    <2>4. /\ IsExtension(tasks', tasks, d) /\ Len(d) = 1 /\ d[1] = t
          /\ Len(tasks) \in Nat /\ Len(tasks') = Len(tasks) + 1
          /\ tasks'[Len(tasks) + 1] = t
        BY <1>3, <2>2, <2>3, TaskAdded
    <2>5. \A i \in 1..Len(d) : d[i].kind # "write"
        BY <2>2, <2>4
    <2>6. ~NoAuth(main)
        BY <1>2, <1>7 DEF Ran, RanAuth, NoAuth
    <2>7. ASSUME main[1].user = account
          PROVE  HasUser(tasks', fsUser', account, Len(tasks') + 1)
        <3>1. PICK q, i : q = tasks' /\ i = Len(tasks) + 1
            OBVIOUS
        <3>2. i \in 1..Len(q) /\ i < Len(q) + 1 /\ q[i].kind = "user" /\ q[i].user = account
            BY <2>2, <2>4, <2>7, <3>1
        <3>3. SameUser(q, i, Len(q) + 1)
            BY <2>4, <3>1 DEF SameUser
        <3>4. QED
            BY <3>1, <3>2, <3>3 DEF HasUser
    <2>8. AccountRules'
        BY <1>1, <1>5, <1>6, <2>6, <2>7 DEF AccountRules, Rules
    <2>9. WritesRule'
        BY <1>1, <2>4, <2>5, WritesRuleKept
    <2>10. QED
        BY <1>1, <2>8, <2>9, OwnerSame
<1>8. ASSUME main[1].kind # "auth",
             NEW d, IsExtension(tasks', tasks, d), \A i \in 1..Len(d) : d[i].kind = "listen"
      PROVE  AccountRules' /\ WritesRule' /\ SenderOwnsQueue'
    <2>1. Rules(u, Len(tasks) + 1) => HasUser(tasks', fsUser', u, Len(tasks') + 1)
        BY <1>1, <1>8, RulesKept
    <2>2. AccountRules'
        BY <1>1, <1>5, <1>6, <1>8, <2>1 DEF AccountRules, Rules
    <2>3. WritesRule'
        BY <1>1, <1>8, WritesRuleKept
    <2>4. QED
        BY <1>1, <2>2, <2>3, OwnerSame
<1>9. CASE main[1].kind # "auth" /\ UNCHANGED tasks
    <2>1. PICK d : IsExtension(tasks', tasks, d) /\ Len(d) = 0
        BY <1>3, <1>9, TasksKept
    <2>2. QED
        BY <1>8, <1>9, <2>1
<1>10. ASSUME main[1].kind # "auth",
              NEW s \in Screen, tasks' = Append(tasks, [kind |-> "listen", screen |-> s])
       PROVE  AccountRules' /\ WritesRule' /\ SenderOwnsQueue'
    <2>1. PICK t : t = [kind |-> "listen", screen |-> s]
        OBVIOUS
    <2>2. t \in Task /\ t.kind = "listen" /\ tasks' = Append(tasks, t)
        BY <1>10, <2>1, Tasks
    <2>3. PICK d : d = <<t>>
        OBVIOUS
    <2>4. IsExtension(tasks', tasks, d) /\ Len(d) = 1 /\ d[1] = t
        BY <1>3, <2>2, <2>3, TaskAdded
    <2>5. QED
        BY <1>8, <1>10, <2>2, <2>4
<1>11. QED
    BY <1>2, <1>7, <1>9, <1>10 DEF RanSignedIn, RanSnapshot, RanReload, RanSaved, RanClear

\* Somebody signs in: the auth block is the last word on the user.
LEMMA OwnerSignIn ==
    ASSUME TypeInv, AccountRules, WritesRule, SenderOwnsQueue,
           NEW i \in 1..MaxRequests, NEW ok \in BOOLEAN, SignInAnswered(i, ok)
    PROVE  AccountRules' /\ WritesRule' /\ SenderOwnsQueue'
<1>1. UNCHANGED <<tasks, fsUser, author, early, submitted>> /\ tasks \in Seq(Task)
    BY DEF SignInAnswered, view, writes, history, TypeInv, TypeOK
<1>2. PICK d : IsExtension(tasks', tasks, d) /\ Len(d) = 0
    BY <1>1, TasksKept
<1>3. WritesRule' /\ SenderOwnsQueue'
    BY <1>1, <1>2, WritesRuleKept, OwnerSame
<1>4. CASE UNCHANGED <<main, account>>
    BY <1>1, <1>3, <1>4 DEF AccountRules, Rules
<1>5. ASSUME NEW e \in Email, NEW x \in Block, NEW y \in Block, x.kind = "auth", x.user = e,
             y.kind = "signedIn", Joined(<<x, y>>), account' = e
      PROVE  AccountRules'
    <2>1. PICK b, m : b = <<x, y>> /\ m = main'
        OBVIOUS
    <2>2. Len(b) = 2 /\ b[1] = x /\ b[2] = y /\ IsExtension(m, main, b)
        BY <1>5, <2>1 DEF Joined
    <2>3. /\ Len(main) \in Nat /\ Len(m) = Len(main) + 2
          /\ m[Len(main) + 1] = x /\ m[Len(main) + 2] = y
        BY <2>2 DEF IsExtension
    <2>4. LastAuth(m, e)
        <3>1. PICK n \in Nat : n = Len(main) + 1
            BY <2>3
        <3>2. n \in 1..Len(m) /\ m[n].kind = "auth" /\ m[n].user = e
            BY <1>5, <2>3, <3>1
        <3>3. \A k \in 1..Len(m) : k > n => k = Len(main) + 2
            BY <2>3, <3>1
        <3>4. \A k \in 1..Len(m) : k > n => m[k].kind # "auth"
            BY <1>5, <2>3, <3>3
        <3>5. QED
            BY <3>2, <3>4 DEF LastAuth
    <2>5. QED
        BY <1>5, <2>1, <2>4 DEF AccountRules
<1>6. AccountRules'
    BY <1>4, <1>5, SignInMain
<1>7. QED
    BY <1>3, <1>6

LEMMA OwnerLogOut ==
    ASSUME TypeInv, AccountRules, WritesRule, SenderOwnsQueue, NEW s \in Screen, LogOutPressed(s)
    PROVE  AccountRules' /\ WritesRule' /\ SenderOwnsQueue'
<1>1. /\ UNCHANGED <<tasks, fsUser, author, early, submitted>> /\ tasks \in Seq(Task)
      /\ main \in Seq(Block) /\ account' = NoUser
    BY DEF LogOutPressed, view, writes, history, TypeInv, TypeOK
<1>2. PICK d : IsExtension(tasks', tasks, d) /\ Len(d) = 0
    BY <1>1, TasksKept
<1>3. WritesRule' /\ SenderOwnsQueue'
    BY <1>1, <1>2, WritesRuleKept, OwnerSame
<1>4. CASE account = NoUser
    <2>1. UNCHANGED <<main, account>>
        BY <1>1, <1>4 DEF LogOutPressed
    <2>2. QED
        BY <1>1, <1>3, <2>1 DEF AccountRules, Rules
<1>5. CASE account # NoUser
    <2>1. PICK x : x = [kind |-> "auth", user |-> NoUser]
        OBVIOUS
    <2>2. x \in Block /\ x.kind = "auth" /\ x.user = NoUser /\ main' = Append(main, x)
        BY <1>5, <2>1, Blocks DEF User, LogOutPressed
    <2>3. PICK m : m = main'
        OBVIOUS
    <2>4. Len(main) \in Nat /\ Len(m) = Len(main) + 1 /\ m[Len(main) + 1] = x
        BY <1>1, <2>2, <2>3, AppendProperties
    <2>5. LastAuth(m, NoUser)
        <3>1. PICK n \in Nat : n = Len(main) + 1
            BY <2>4
        <3>2. n \in 1..Len(m) /\ m[n].kind = "auth" /\ m[n].user = NoUser
            BY <2>2, <2>4, <3>1
        <3>3. \A k \in 1..Len(m) : ~(k > n)
            BY <2>4, <3>1
        <3>4. QED
            BY <3>2, <3>3 DEF LastAuth
    <2>6. AccountRules'
        BY <1>1, <2>3, <2>5 DEF AccountRules
    <2>7. QED
        BY <1>3, <2>6
<1>6. QED
    BY <1>4, <1>5

LEMMA OwnerRelaunch ==
    ASSUME SenderOwnsQueue, Relaunch
    PROVE  AccountRules' /\ WritesRule' /\ SenderOwnsQueue'
<1>1. /\ main' = <<>> /\ tasks' = <<>> /\ fsUser' = account /\ account' = account
      /\ UNCHANGED <<author, early, submitted>>
    BY DEF Relaunch, Store!Relaunch
<1>2. PICK q, m : q = tasks' /\ m = main'
    OBVIOUS
<1>3. Len(q) = 0 /\ Len(m) = 0
    BY <1>1, <1>2
<1>4. NoAuth(m) /\ HasUser(q, account, account, Len(q) + 1)
    BY <1>3 DEF NoAuth, HasUser, SameUser
<1>5. AccountRules'
    BY <1>1, <1>2, <1>4 DEF AccountRules, Rules
<1>6. WritesRule'
    BY <1>2, <1>3 DEF WritesRule
<1>7. QED
    BY <1>1, <1>5, <1>6, OwnerSame

LEMMA OwnerStep ==
    ASSUME TypeInv, ListenInv, SavedInv, OwnerInv, [Next]_vars
    PROVE  OwnerInv'
<1>1. /\ tasks \in Seq(Task) /\ main \in Seq(Block)
      /\ Answered(main) /\ AccountRules /\ WritesRule /\ SenderOwnsQueue /\ Authored
    BY DEF TypeInv, TypeOK, OwnerInv, SavedInv
<1>2. ASSUME UNCHANGED <<account, fsUser, author, early, submitted, tasks>>,
             NEW b, Joined(b), \A x \in ToSet(b) : FromWorker(x)
      PROVE  AccountRules' /\ WritesRule' /\ SenderOwnsQueue'
    <2>1. PICK d : IsExtension(tasks', tasks, d) /\ Len(d) = 0
        BY <1>1, <1>2, TasksKept
    <2>2. NoAuth(b) /\ IsExtension(main', main, b)
        BY <1>2, Entries DEF Joined, FromWorker, NoAuth
    <2>3. AccountRules'
        BY <1>1, <1>2, <2>1, <2>2, AccountRulesKept
    <2>4. QED
        BY <1>1, <1>2, <2>1, <2>3, WritesRuleKept, OwnerSame
<1>3. ASSUME QuietTap \/ Streams
      PROVE  AccountRules' /\ WritesRule' /\ SenderOwnsQueue'
    <2>1. PICK b : Joined(b) /\ \A x \in ToSet(b) : FromWorker(x)
        BY <1>3, QuietMain
    <2>2. CASE ~\E s \in Screen, m \in Message : SendPressed(s, m)
        <3>1. UNCHANGED <<account, fsUser, author, early, submitted, tasks>>
            BY <1>3, <2>2 DEF QuietTap, OpenForm, Back, LoginPressed, Type, CellForRow, Streams,
                  Commit, Settle, ForeignWrite, ApplyRemoteEvent, HandleRejectedListen, GoOffline,
                  Store!Commit, Store!Settle, auth, view, writes, history
        <3>2. QED
            BY <1>2, <2>1, <3>1
    <2>3. QED
        BY <1>1, <2>2, OwnerSend
<1>4. ASSUME UNCHANGED vars
      PROVE  AccountRules' /\ WritesRule' /\ SenderOwnsQueue'
    <2>1. UNCHANGED <<account, fsUser, author, early, submitted, tasks, main>>
        BY <1>4 DEF vars, auth, view, writes, history
    <2>2. PICK b : Joined(b) /\ ToSet(b) = {}
        BY <1>1, <2>1, JoinedNone
    <2>3. QED
        BY <1>2, <2>1, <2>2
<1>5. AccountRules' /\ WritesRule' /\ SenderOwnsQueue'
    <2>1. CASE RunTask
        BY <1>1, <2>1, OwnerRunTask
    <2>2. CASE RunBlock
        BY <1>1, <2>2, OwnerRunBlock
    <2>3. CASE \E i \in 1..MaxRequests, ok \in BOOLEAN : SignInAnswered(i, ok)
        BY <1>1, <2>3, OwnerSignIn
    <2>4. CASE \E s \in Screen : LogOutPressed(s)
        BY <1>1, <2>4, OwnerLogOut
    <2>5. CASE Relaunch
        BY <1>1, <2>5, OwnerRelaunch
    <2>6. QED
        BY <1>3, <1>4, <2>1, <2>2, <2>3, <2>4, <2>5, Steps
<1>6. Answered(main)'
    BY <1>1, AnsweredStep
<1>7. QED
    BY <1>5, <1>6 DEF OwnerInv

LEMMA OwnerInvariant == Spec => []OwnerInv
<1>1. Init => OwnerInv
    <2> SUFFICES ASSUME Init PROVE OwnerInv
        OBVIOUS
    <2>1. /\ main = <<>> /\ tasks = <<>> /\ fsUser = account
          /\ submitted = [u \in User |-> <<>>]
        BY DEF Init, Store!Init
    <2>2. Answered(main)
        BY <2>1 DEF Answered
    <2>3. AccountRules
        BY <2>1 DEF AccountRules, NoAuth, Rules, HasUser, SameUser
    <2>4. WritesRule /\ SenderOwnsQueue
        BY <2>1, SmallSets DEF WritesRule, SenderOwnsQueue
    <2>5. QED
        BY <2>2, <2>3, <2>4 DEF OwnerInv
<1>2. TypeInv /\ ListenInv /\ SavedInv /\ OwnerInv /\ [Next]_vars => OwnerInv'
    BY OwnerStep
<1>3. QED
    BY <1>1, <1>2, ListenInvariant, SavedInvariant, PTL DEF Spec

\* A message waits in the queue of the user named as its sender, unless it was
\* sent while a sign-in was underway: the sender is read on the main thread, the
\* queue is chosen on the worker queue, and a second answer that comes behind an
\* open chat is the only way for the two to disagree, however often somebody
\* logs in and out and however late the answers are.
THEOREM SendersOwnTheirQueues == Spec => []SenderOwnsQueue
<1>1. OwnerInv => SenderOwnsQueue
    BY DEF OwnerInv
<1>2. QED
    BY <1>1, OwnerInvariant, PTL

(***************************************************************************)
(* The two exceptions of the table view.                                   *)
(***************************************************************************)

\* The snapshots for s in q hold ever more documents, all of them among those
\* of V, and each lists at least l.
Grows(q, s, l, V) ==
    /\ \A i \in 1..Len(q) :
          IsSnapshotFor(q[i], s) => q[i].docs \subseteq V /\ l <= Len(Listed(q[i].docs))
    /\ \A i, j \in 1..Len(q) :
          i < j /\ IsSnapshotFor(q[i], s) /\ IsSnapshotFor(q[j], s)
          => q[i].docs \subseteq q[j].docs

GrowInv(s) ==
    /\ rows[s] <= Len(messages[s])
    /\ Len(messages[s]) <= Len(Listed(View))
    /\ Grows(main, s, Len(messages[s]), View)

\* While no document has left the view no list gets shorter, neither now nor by
\* the snapshots that are queued.
ListsGrow == ~retracted => \A s \in Screen : GrowInv(s)

\* More documents, no fewer rows.
LEMMA ListedGrows ==
    ASSUME NEW E \in SUBSET Message, IsFiniteSet(E), NEW D \in SUBSET E
    PROVE  /\ Len(Listed(D)) \in Nat /\ Len(Listed(E)) \in Nat
           /\ Len(Listed(D)) <= Len(Listed(E))
           /\ D \ Malformed # {} => Listed(D) # <<>>
<1>1. D \in SUBSET Message /\ IsFiniteSet(D)
    BY FS_Subset
<1>2. /\ IsFiniteSet(D \ Malformed) /\ Len(Listed(D)) = Cardinality(D \ Malformed)
      /\ Len(Listed(D)) \in Nat
    BY <1>1, ListedType
<1>3. /\ IsFiniteSet(E \ Malformed) /\ Len(Listed(E)) = Cardinality(E \ Malformed)
      /\ Len(Listed(E)) \in Nat
    BY ListedType
<1>4. D \ Malformed \in SUBSET (E \ Malformed)
    OBVIOUS
<1>5. Cardinality(D \ Malformed) <= Cardinality(E \ Malformed)
    BY <1>3, <1>4, FS_Subset
<1>6. ASSUME D \ Malformed # {} PROVE Listed(D) # <<>>
    <2>1. Cardinality(D \ Malformed) # 0
        BY <1>2, <1>6, FS_EmptySet
    <2>2. QED
        BY <1>2, <2>1
<1>7. QED
    BY <1>2, <1>3, <1>5, <1>6

LEMMA GrowsExtended ==
    ASSUME NEW q, NEW r, NEW b, IsExtension(r, q, b), NEW s, NEW l \in Nat, NEW V, NEW W,
           V \subseteq W, l <= Len(Listed(W)), Grows(q, s, l, V),
           \A i \in 1..Len(b) : IsSnapshotFor(b[i], s) => b[i].docs = W
    PROVE  Grows(r, s, l, W)
<1>1. /\ Len(q) \in Nat /\ Len(b) \in Nat /\ Len(r) = Len(q) + Len(b)
      /\ \A i \in 1..Len(q) : r[i] = q[i]
      /\ \A i \in 1..Len(b) : r[Len(q) + i] = b[i]
    BY DEF IsExtension
<1>2. ASSUME NEW k \in 1..Len(r), k > Len(q), IsSnapshotFor(r[k], s) PROVE r[k].docs = W
    <2>1. k - Len(q) \in 1..Len(b) /\ Len(q) + (k - Len(q)) = k
        BY <1>1, <1>2
    <2>2. r[k] = b[k - Len(q)]
        BY <1>1, <2>1
    <2>3. QED
        BY <1>2, <2>1, <2>2
<1>3. ASSUME NEW k \in 1..Len(q), IsSnapshotFor(r[k], s)
      PROVE  r[k].docs \subseteq W /\ l <= Len(Listed(r[k].docs))
    BY <1>1, <1>3 DEF Grows
<1>4. ASSUME NEW k \in 1..Len(r), IsSnapshotFor(r[k], s)
      PROVE  r[k].docs \subseteq W /\ l <= Len(Listed(r[k].docs))
    <2>1. CASE k <= Len(q)
        BY <1>1, <1>3, <1>4, <2>1
    <2>2. CASE k > Len(q)
        BY <1>2, <1>4, <2>2
    <2>3. QED
        BY <1>1, <2>1, <2>2
<1>5. ASSUME NEW i \in 1..Len(r), NEW j \in 1..Len(r), i < j,
             IsSnapshotFor(r[i], s), IsSnapshotFor(r[j], s)
      PROVE  r[i].docs \subseteq r[j].docs
    <2>1. CASE j <= Len(q)
        <3>1. i \in 1..Len(q) /\ j \in 1..Len(q) /\ r[i] = q[i] /\ r[j] = q[j]
            BY <1>1, <1>5, <2>1
        <3>2. QED
            BY <1>5, <3>1 DEF Grows
    <2>2. CASE j > Len(q)
        BY <1>2, <1>4, <1>5, <2>2
    <2>3. QED
        BY <1>1, <2>1, <2>2
<1>6. QED
    BY <1>4, <1>5 DEF Grows

LEMMA GrowsShifted ==
    ASSUME NEW q, NEW r, NEW b, IsShift(r, q, b), NEW s, NEW l \in Nat,
           NEW V \in SUBSET Message, IsFiniteSet(V), l <= Len(Listed(V)), Grows(q, s, l, V),
           \A i \in 1..Len(b) : ~IsSnapshotFor(b[i], s),
           NEW k, k = IF IsSnapshotFor(q[1], s) THEN Len(Listed(q[1].docs)) ELSE l
    PROVE  k \in Nat /\ l <= k /\ k <= Len(Listed(V)) /\ Grows(r, s, k, V)
<1>1. /\ Len(q) \in Nat \ {0} /\ Len(b) \in Nat /\ Len(r) = Len(q) - 1 + Len(b)
      /\ \A i \in 1..(Len(q) - 1) : r[i] = q[i + 1]
      /\ \A i \in 1..Len(b) : r[Len(q) - 1 + i] = b[i]
    BY DEF IsShift
<1>2. ASSUME NEW n \in 1..Len(r), IsSnapshotFor(r[n], s)
      PROVE  n + 1 \in 1..Len(q) /\ r[n] = q[n + 1]
    <2>1. ~(n > Len(q) - 1)
        <3>1. SUFFICES ASSUME n > Len(q) - 1 PROVE FALSE
            OBVIOUS
        <3>2. n - (Len(q) - 1) \in 1..Len(b) /\ Len(q) - 1 + (n - (Len(q) - 1)) = n
            BY <1>1, <3>1
        <3>3. r[n] = b[n - (Len(q) - 1)]
            BY <1>1, <3>2
        <3>4. QED
            BY <1>2, <3>2, <3>3
    <2>2. QED
        BY <1>1, <2>1
<1>3. 1 \in 1..Len(q)
    BY <1>1
<1>4. k \in Nat /\ l <= k /\ k <= Len(Listed(V))
    <2>1. CASE IsSnapshotFor(q[1], s)
        <3>1. q[1].docs \in SUBSET V /\ l <= Len(Listed(q[1].docs))
            BY <1>3, <2>1 DEF Grows
        <3>2. /\ Len(Listed(q[1].docs)) \in Nat /\ Len(Listed(V)) \in Nat
              /\ Len(Listed(q[1].docs)) <= Len(Listed(V))
            BY <3>1, ListedGrows
        <3>3. QED
            BY <2>1, <3>1, <3>2
    <2>2. CASE ~IsSnapshotFor(q[1], s)
        BY <2>2
    <2>3. QED
        BY <2>1, <2>2
<1>5. ASSUME NEW n \in 1..Len(r), IsSnapshotFor(r[n], s)
      PROVE  r[n].docs \subseteq V /\ k <= Len(Listed(r[n].docs))
    <2>1. PICK i \in 1..Len(q) : i = n + 1 /\ 1 < i /\ r[n] = q[i]
        BY <1>1, <1>2, <1>5
    <2>2. IsSnapshotFor(q[i], s) /\ q[i].docs \in SUBSET V /\ l <= Len(Listed(q[i].docs))
        BY <1>5, <2>1 DEF Grows
    <2>3. CASE IsSnapshotFor(q[1], s)
        <3>1. q[1].docs \in SUBSET q[i].docs
            BY <1>3, <2>1, <2>2, <2>3 DEF Grows
        <3>2. q[i].docs \in SUBSET Message /\ IsFiniteSet(q[i].docs)
            BY <2>2, FS_Subset
        <3>3. Len(Listed(q[1].docs)) <= Len(Listed(q[i].docs))
            BY <3>1, <3>2, ListedGrows
        <3>4. QED
            BY <2>1, <2>2, <2>3, <3>3
    <2>4. CASE ~IsSnapshotFor(q[1], s)
        BY <2>1, <2>2, <2>4
    <2>5. QED
        BY <2>3, <2>4
<1>6. ASSUME NEW i \in 1..Len(r), NEW j \in 1..Len(r), i < j,
             IsSnapshotFor(r[i], s), IsSnapshotFor(r[j], s)
      PROVE  r[i].docs \subseteq r[j].docs
    <2>1. /\ i + 1 \in 1..Len(q) /\ r[i] = q[i + 1]
          /\ j + 1 \in 1..Len(q) /\ r[j] = q[j + 1]
          /\ i + 1 < j + 1
        <3>1. i \in Nat /\ j \in Nat
            OBVIOUS
        <3>2. i + 1 < j + 1
            BY <1>6, <3>1
        <3>3. QED
            BY <1>2, <1>6, <3>2, Zenon
    <2>2. QED
        BY <1>6, <2>1 DEF Grows
<1>7. QED
    BY <1>4, <1>5, <1>6 DEF Grows

LEMMA GrowsNothing ==
    ASSUME NEW q, NEW s, NEW l, NEW V, \A i \in 1..Len(q) : ~IsSnapshotFor(q[i], s)
    PROVE  Grows(q, s, l, V)
BY DEF Grows

\* A step that publishes remembers whether a document has left the view; the
\* others leave the view alone.
LEMMA ViewGrows ==
    ASSUME RunTask \/ QuietTap \/ Streams, ~retracted'
    PROVE  ~retracted /\ View \subseteq View'
<1>1. ASSUME NEW blocks, Publish(blocks) PROVE ~retracted /\ View \subseteq View'
    BY <1>1 DEF Publish
<1>2. ASSUME UNCHANGED <<retracted, cache, fsUser, submitted, settled>>
      PROVE  ~retracted /\ View \subseteq View'
    BY <1>2, ViewSame
<1>3. CASE RunTask
    BY <1>1, <1>3 DEF RunTask, AddQueryListener, WriteMutations, HandleCredentialChange
<1>4. CASE QuietTap
    BY <1>2, <1>4 DEF QuietTap, OpenForm, Back, LoginPressed, Type, SendPressed, CellForRow,
       view, writes
<1>5. ASSUME NEW m \in Message, NEW result \in {"ok", "error"}, Settle(m, result)
      PROVE  ~retracted /\ View \subseteq View'
    BY <1>1, <1>5 DEF Settle
<1>6. ASSUME NEW new \in SUBSET (Server \ cache), ApplyRemoteEvent(new)
      PROVE  ~retracted /\ View \subseteq View'
    BY <1>1, <1>6 DEF ApplyRemoteEvent
<1>7. GoOffline => ~retracted /\ View \subseteq View'
    BY <1>1 DEF GoOffline
<1>8. ASSUME NEW m \in Message, Commit(m) \/ ForeignWrite(m)
      PROVE  ~retracted /\ View \subseteq View'
    BY <1>2, <1>8 DEF Commit, ForeignWrite, Store!Commit, view, writes
<1>9. HandleRejectedListen => ~retracted /\ View \subseteq View'
    BY <1>2 DEF HandleRejectedListen, writes
<1>10. QED
    BY <1>3, <1>4, <1>5, <1>6, <1>7, <1>8, <1>9 DEF Streams

\* A step that adds blocks and leaves the lists alone.
LEMMA GrowKept ==
    ASSUME TypeInv, TypeInv', NEW s \in Screen, GrowInv(s), UNCHANGED <<messages, rows>>,
           View \subseteq View',
           NEW b, Joined(b), \A x \in ToSet(b) : IsSnapshotFor(x, s) => x.docs = View'
    PROVE  GrowInv(s)'
<1>1. PICK m, l, V, W : m = main' /\ l = Len(messages[s]) /\ V = View /\ W = View'
    OBVIOUS
<1>2. l \in Nat /\ rows[s] <= l
    <2>1. messages[s] \in Seq(Message)
        BY DEF TypeInv, TypeOK
    <2>2. QED
        BY <1>1, <2>1 DEF GrowInv
<1>3. W \in SUBSET Message /\ IsFiniteSet(W)
    <2>1. /\ submitted' \in [User -> Seq(Message)] /\ fsUser' \in User
          /\ cache' \in SUBSET Message /\ IsFiniteSet(cache')
        BY DEF TypeInv, TypeOK, StoreTypes, FiniteDocs
    <2>2. QED
        BY <1>1, <2>1, NextViewType
<1>4. Len(Listed(W)) \in Nat
    BY <1>3, ListedType
<1>5. IsExtension(m, main, b) /\ b \in Seq(Block)
    BY <1>1 DEF Joined
<1>6. \A i \in 1..Len(b) : IsSnapshotFor(b[i], s) => b[i].docs = W
    BY <1>1, <1>5, Entries
<1>7. V \in SUBSET W /\ l <= Len(Listed(V)) /\ Grows(main, s, l, V)
    BY <1>1 DEF GrowInv
<1>8. Len(Listed(V)) \in Nat /\ Len(Listed(V)) <= Len(Listed(W))
    BY <1>3, <1>7, ListedGrows
<1>9. l <= Len(Listed(W))
    BY <1>2, <1>4, <1>7, <1>8
<1>10. Grows(m, s, l, W)
    BY <1>2, <1>5, <1>6, <1>7, <1>9, GrowsExtended
<1>11. QED
    BY <1>1, <1>2, <1>9, <1>10 DEF GrowInv

\* A block has run: a snapshot for s has become its list.
LEMMA GrowShifted ==
    ASSUME TypeInv, NEW s \in Screen, GrowInv(s), NEW c, Ran(c), View' = View,
           \A i \in 1..Len(c) : ~IsSnapshotFor(c[i], s),
           messages'[s] = IF IsSnapshotFor(main[1], s) THEN Listed(main[1].docs)
                                                        ELSE messages[s],
           rows'[s] \in {rows[s], Len(messages[s])}
    PROVE  GrowInv(s)'
<1>1. PICK q, m, l, V : q = main /\ m = main' /\ l = Len(messages[s]) /\ V = View
    OBVIOUS
<1>2. l \in Nat /\ rows[s] \in Nat
    <2>1. messages[s] \in Seq(Message) /\ rows[s] \in Nat
        BY DEF TypeInv, TypeOK
    <2>2. QED
        BY <1>1, <2>1
<1>3. rows[s] <= l /\ l <= Len(Listed(V)) /\ Grows(q, s, l, V) /\ IsShift(m, q, c)
    BY <1>1 DEF GrowInv, Ran
<1>4. V \in SUBSET Message /\ IsFiniteSet(V)
    BY <1>1, ViewType
<1>5. PICK k : k = IF IsSnapshotFor(q[1], s) THEN Len(Listed(q[1].docs)) ELSE l
    OBVIOUS
<1>6. k \in Nat /\ l <= k /\ k <= Len(Listed(V)) /\ Grows(m, s, k, V)
    <2>1. /\ IsShift(m, q, c) /\ Grows(q, s, l, V) /\ l <= Len(Listed(V))
          /\ \A i \in 1..Len(c) : ~IsSnapshotFor(c[i], s)
        BY <1>3
    <2>2. l \in Nat
        BY <1>2
    <2>3. QED
        BY <1>4, <1>5, <2>1, <2>2, GrowsShifted
<1>7. Len(messages'[s]) = k
    BY <1>1, <1>5
<1>8. rows'[s] <= k
    BY <1>1, <1>2, <1>3, <1>6
<1>9. QED
    BY <1>1, <1>6, <1>7, <1>8 DEF GrowInv

\* The chat that an answer pushes has no list and no snapshot.
LEMMA GrowPushed ==
    ASSUME TypeInv, NEW s \in Screen, Free(s), Ran(<<>>), View' = View,
           messages'[s] = <<>>, rows'[s] = 0
    PROVE  GrowInv(s)'
<1>1. main' \in Seq(Block) /\ ToSet(main') \subseteq ToSet(main)
    BY SmallSets DEF Ran
<1>2. PICK m, V : m = main' /\ V = View
    OBVIOUS
<1>3. Len(Listed(V)) \in Nat
    BY <1>2, ViewType, ListedType
<1>4. \A x \in ToSet(m) : ~IsSnapshotFor(x, s)
    BY <1>1, <1>2 DEF Free, IsSnapshotFor
<1>5. Grows(m, s, 0, V)
    BY <1>1, <1>2, <1>4, Entries, GrowsNothing
<1>6. Len(messages'[s]) = 0
    OBVIOUS
<1>7. QED
    BY <1>2, <1>3, <1>5, <1>6 DEF GrowInv

LEMMA GrowRunBlock ==
    ASSUME TypeInv, RunBlock, NEW s \in Screen, GrowInv(s)
    PROVE  GrowInv(s)'
<1>1. PICK c : /\ Ran(c)
               /\ \/ c = <<>> /\ RanAuth
                  \/ c = <<>> /\ RanSignedIn
                  \/ RanSnapshot(c)
                  \/ c = <<>> /\ RanReload
                  \/ RanSaved(c)
                  \/ c = <<>> /\ RanClear
    BY RunBlockFacts
<1>2. View' = View
    BY RunBlockFacts, ViewSame
<1>3. /\ messages \in [Screen -> Seq(Message)] /\ rows \in [Screen -> Nat]
      /\ main[1] \in Block
    BY <1>1 DEF TypeInv, TypeOK, Ran
<1>4. \A i \in 1..Len(c) : ~IsSnapshotFor(c[i], s)
    <2>1. CASE c = <<>>
        BY <2>1
    <2>2. CASE RanSnapshot(c)
        BY <2>2 DEF RanSnapshot, IsSnapshotFor
    <2>3. CASE RanSaved(c)
        BY <2>3 DEF RanSaved, IsSnapshotFor
    <2>4. QED
        BY <1>1, <2>1, <2>2, <2>3
<1>5. CASE ~IsSnapshotFor(main[1], s) /\ messages'[s] = messages[s]
           /\ rows'[s] \in {rows[s], Len(messages[s])}
    BY <1>1, <1>2, <1>4, <1>5, GrowShifted
<1>6. CASE RanSnapshot(c)
    <2>1. PICK t : t = main[1].screen
        OBVIOUS
    <2>2. /\ t \in Screen /\ messages' = [messages EXCEPT ![t] = Listed(main[1].docs)]
          /\ rows' = rows
        BY <1>3, <1>6, <2>1, BlockFields DEF RanSnapshot
    <2>3. IsSnapshotFor(main[1], s) <=> s = t
        BY <1>6, <2>1 DEF RanSnapshot, IsSnapshotFor
    <2>4. messages'[s] = IF IsSnapshotFor(main[1], s) THEN Listed(main[1].docs) ELSE messages[s]
        BY <1>3, <2>2, <2>3
    <2>5. QED
        BY <1>1, <1>2, <1>4, <2>2, <2>4, GrowShifted
<1>7. CASE RanReload
    <2>1. PICK t : t = main[1].screen
        OBVIOUS
    <2>2. /\ t \in Screen /\ rows' = [rows EXCEPT ![t] = Len(messages[t])]
          /\ messages' = messages /\ ~IsSnapshotFor(main[1], s)
        BY <1>3, <1>7, <2>1, BlockFields DEF RanReload, IsSnapshotFor
    <2>3. rows'[s] \in {rows[s], Len(messages[s])}
        BY <1>3, <2>2
    <2>4. QED
        BY <1>5, <2>2, <2>3
<1>8. ASSUME c = <<>>, main[1].kind = "signedIn", NEW t \in Screen, Free(t),
             messages' = [messages EXCEPT ![t] = <<>>], rows' = [rows EXCEPT ![t] = 0]
      PROVE  GrowInv(s)'
    <2>1. CASE s = t
        BY <1>1, <1>2, <1>3, <1>8, <2>1, GrowPushed
    <2>2. CASE s # t
        BY <1>3, <1>5, <1>8, <2>2 DEF IsSnapshotFor
    <2>3. QED
        BY <2>1, <2>2
<1>9. CASE c = <<>> /\ RanSignedIn
    BY <1>5, <1>8, <1>9 DEF RanSignedIn, IsSnapshotFor
<1>10. CASE RanAuth \/ RanSaved(c) \/ RanClear
    BY <1>5, <1>10 DEF RanAuth, RanSaved, RanClear, IsSnapshotFor
<1>11. QED
    BY <1>1, <1>6, <1>7, <1>9, <1>10

LEMMA ListsGrowStep == TypeInv /\ ListsGrow /\ [Next]_vars => ListsGrow'
<1> SUFFICES ASSUME TypeInv, ListsGrow, [Next]_vars, ~retracted', NEW s \in Screen
             PROVE  GrowInv(s)'
    BY DEF ListsGrow
<1>1. TypeInv'
    BY TypeInvStep
<1>2. CASE RunTask \/ QuietTap \/ Streams
    <2>1. PICK b : Joined(b) /\ \A x \in ToSet(b) : FromWorker(x)
        BY <1>2, QuietMain
    <2>2. \A x \in ToSet(b) : IsSnapshotFor(x, s) => x.docs = View'
        BY <2>1 DEF FromWorker, IsSnapshotFor
    <2>3. UNCHANGED <<messages, rows>>
        BY <1>2 DEF RunTask, QuietTap, Streams, OpenForm, Back, LoginPressed, Type, SendPressed,
              CellForRow, Commit, Settle, ForeignWrite, ApplyRemoteEvent, HandleRejectedListen,
              GoOffline, ui
    <2>4. GrowInv(s) /\ View \subseteq View'
        BY <1>2, ViewGrows DEF ListsGrow
    <2>5. QED
        BY <1>1, <2>1, <2>2, <2>3, <2>4, GrowKept
<1>3. ASSUME UNCHANGED <<messages, rows, retracted, cache, fsUser, submitted, settled>>,
             NEW b, Joined(b), \A i \in 1..Len(b) : b[i].kind \in {"auth", "signedIn"}
      PROVE  GrowInv(s)'
    <2>1. View' = View /\ GrowInv(s)
        BY <1>3, ViewSame DEF ListsGrow
    <2>2. \A x \in ToSet(b) : IsSnapshotFor(x, s) => x.docs = View'
        BY <1>3, Entries DEF Joined, IsSnapshotFor
    <2>3. QED
        BY <1>1, <1>3, <2>1, <2>2, GrowKept
<1>4. ASSUME NEW i \in 1..MaxRequests, NEW ok \in BOOLEAN, SignInAnswered(i, ok)
      PROVE  GrowInv(s)'
    <2>1. UNCHANGED <<messages, rows, retracted, cache, fsUser, submitted, settled>>
        BY <1>4 DEF SignInAnswered, ui, view, writes
    <2>2. CASE UNCHANGED main
        <3>1. PICK b : Joined(b) /\ ToSet(b) = {}
            BY <2>2, JoinedNone DEF TypeInv, TypeOK
        <3>2. \A j \in 1..Len(b) : b[j].kind \in {"auth", "signedIn"}
            BY <3>1, Entries DEF Joined
        <3>3. QED
            BY <1>3, <2>1, <3>1, <3>2
    <2>3. ASSUME NEW x \in Block, NEW y \in Block, x.kind = "auth", y.kind = "signedIn",
                 Joined(<<x, y>>)
          PROVE  GrowInv(s)'
        <3>1. PICK b : b = <<x, y>>
            OBVIOUS
        <3>2. Joined(b) /\ \A j \in 1..Len(b) : b[j].kind \in {"auth", "signedIn"}
            BY <2>3, <3>1
        <3>3. QED
            BY <1>3, <2>1, <3>2
    <2>4. QED
        BY <1>4, <2>2, <2>3, SignInMain
<1>5. ASSUME NEW t \in Screen, LogOutPressed(t) PROVE GrowInv(s)'
    <2>1. UNCHANGED <<messages, rows, retracted, cache, fsUser, submitted, settled>>
        BY <1>5 DEF LogOutPressed, view, writes
    <2>2. PICK b : Joined(b) /\ \A x \in ToSet(b) : x.kind = "auth" /\ x.user = NoUser
        BY <1>5, LogOutMain
    <2>3. \A j \in 1..Len(b) : b[j].kind \in {"auth", "signedIn"}
        BY <2>2, Entries DEF Joined
    <2>4. QED
        BY <1>3, <2>1, <2>2, <2>3
<1>6. CASE RunBlock
    BY <1>6, RunBlockFacts, GrowRunBlock DEF ListsGrow
<1>7. CASE Relaunch
    <2>1. messages'[s] = <<>> /\ rows'[s] = 0 /\ main' = <<>>
        BY <1>7 DEF Relaunch
    <2>2. PICK m, V : m = main' /\ V = View'
        OBVIOUS
    <2>3. V \in SUBSET Message /\ IsFiniteSet(V)
        <3>1. /\ submitted' \in [User -> Seq(Message)] /\ fsUser' \in User
              /\ cache' \in SUBSET Message /\ IsFiniteSet(cache')
            BY <1>1 DEF TypeInv, TypeOK, StoreTypes, FiniteDocs
        <3>2. QED
            BY <2>2, <3>1, NextViewType
    <2>4. Len(Listed(V)) \in Nat /\ Len(m) = 0 /\ Len(messages'[s]) = 0
        BY <2>1, <2>2, <2>3, ListedType
    <2>5. Grows(m, s, 0, V)
        BY <2>4, GrowsNothing
    <2>6. QED
        BY <2>1, <2>2, <2>4, <2>5 DEF GrowInv
<1>8. CASE UNCHANGED vars
    <2>1. UNCHANGED <<messages, rows, retracted, cache, fsUser, submitted, settled, main>>
        BY <1>8 DEF vars, ui, view, writes
    <2>2. PICK b : Joined(b) /\ ToSet(b) = {}
        BY <2>1, JoinedNone DEF TypeInv, TypeOK
    <2>3. \A i \in 1..Len(b) : b[i].kind \in {"auth", "signedIn"}
        BY <2>2, Entries DEF Joined
    <2>4. QED
        BY <1>3, <2>1, <2>2, <2>3
<1>9. QED
    BY <1>2, <1>4, <1>5, <1>6, <1>7, <1>8, Steps

LEMMA ListsGrowInvariant == Spec => [](TypeInv /\ ListsGrow)
<1>1. Init => ListsGrow
    <2> SUFFICES ASSUME Init, NEW s \in Screen PROVE GrowInv(s)
        BY DEF ListsGrow
    <2>1. messages[s] = <<>> /\ rows[s] = 0 /\ main = <<>>
        BY DEF Init
    <2>2. PICK m, V : m = main /\ V = View
        OBVIOUS
    <2>3. Len(Listed(V)) \in Nat /\ Len(m) = 0 /\ Len(messages[s]) = 0
        BY <2>1, <2>2, TypeInvInit, ViewType, ListedType
    <2>4. Grows(m, s, 0, V)
        BY <2>3, GrowsNothing
    <2>5. QED
        BY <2>1, <2>2, <2>3, <2>4 DEF GrowInv
<1>2. QED
    BY <1>1, ListsGrowStep, TypeInvariant, PTL DEF Spec

\* The two exceptions: a reload of an empty list, and a row that is not there.
LEMMA CrashStep ==
    ASSUME TypeInv, ListsGrow, [Next]_vars, ~crashed, crashed'
    PROVE  \/ retracted
           \/ /\ main # <<>>
              /\ Head(main).kind = "reload"
              /\ rows[Head(main).screen] = 0
<1> SUFFICES ASSUME ~retracted
             PROVE  /\ main # <<>>
                    /\ Head(main).kind = "reload"
                    /\ rows[Head(main).screen] = 0
    OBVIOUS
<1>1. /\ messages \in [Screen -> Seq(Message)] /\ rows \in [Screen -> Nat]
      /\ \A s \in Screen : rows[s] <= Len(messages[s])
    BY DEF ListsGrow, GrowInv, TypeInv, TypeOK
<1>2. CASE RunBlock
    <2>1. PICK c : Ran(c) /\ (RanAuth \/ RanSignedIn \/ RanSnapshot(c) \/ RanReload
                               \/ RanSaved(c) \/ RanClear)
        BY <1>2, RunBlockFacts
    <2>2. RanReload
        BY <2>1 DEF RanAuth, RanSignedIn, RanSnapshot, RanSaved, RanClear
    <2>3. PICK s : s = main[1].screen
        OBVIOUS
    <2>4. s \in Screen /\ messages[s] = <<>>
        BY <2>1, <2>2, <2>3, BlockFields DEF Ran, RanReload
    <2>5. rows[s] <= 0 /\ rows[s] \in Nat
        BY <1>1, <2>4
    <2>6. rows[s] = 0
        BY <2>5
    <2>7. main # <<>> /\ Head(main) = main[1]
        BY <1>2, <2>1 DEF RunBlock, Ran
    <2>8. QED
        BY <2>2, <2>3, <2>6, <2>7 DEF RanReload
<1>3. ASSUME NEW s \in Screen, CellForRow(s) PROVE FALSE
    <2>1. rows[s] > Len(messages[s]) /\ rows[s] <= Len(messages[s])
        BY <1>1, <1>3 DEF CellForRow
    <2>2. rows[s] \in Nat /\ Len(messages[s]) \in Nat
        BY <1>1
    <2>3. QED
        BY <2>1, <2>2
<1>4. CASE RunTask \/ QuietTap \/ Streams
    BY <1>3, <1>4 DEF RunTask, QuietTap, Streams, OpenForm, Back, LoginPressed, Type,
       SendPressed, Commit, Settle, ForeignWrite, ApplyRemoteEvent, HandleRejectedListen,
       GoOffline, ui
<1>5. CASE \E i \in 1..MaxRequests, ok \in BOOLEAN : SignInAnswered(i, ok)
    BY <1>5 DEF SignInAnswered, ui
<1>6. CASE \E s \in Screen : LogOutPressed(s)
    BY <1>6 DEF LogOutPressed
<1>7. CASE Relaunch
    BY <1>7 DEF Relaunch
<1>8. CASE UNCHANGED vars
    BY <1>8 DEF vars, ui
<1>9. QED
    BY <1>2, <1>4, <1>5, <1>6, <1>7, <1>8, Steps

\* The process ends for two reasons only: a chat that has had no rows scrolls to
\* row -1, or a document has left Firestore's view since the launch.  A list that
\* only gains documents is never shorter than the rows of its table, through
\* however many queued snapshots, refused queries, sign-ins and screens.
THEOREM CrashesHaveCauses == Spec => CrashHasCause
<1>1. TypeInv /\ ListsGrow /\ [Next]_vars =>
          [~crashed /\ crashed' =>
              \/ retracted
              \/ /\ main # <<>>
                 /\ Head(main).kind = "reload"
                 /\ rows[Head(main).screen] = 0]_vars
    BY CrashStep
<1>2. QED
    BY <1>1, ListsGrowInvariant, PTL DEF Spec, CrashHasCause
=============================================================================
