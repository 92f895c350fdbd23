-------------------------- MODULE FlashChatProofs --------------------------
(***************************************************************************)
(* Proofs about the chat app, for any accounts, messages, screens and      *)
(* bounds: the types, the table's rows, who may see a chat, and that the   *)
(* chat on the screen listens.  FlashChatQueueProofs follows what the two  *)
(* queues carry.                                                           *)
(***************************************************************************)
EXTENDS FlashChat, SortingProofs

(***************************************************************************)
(* Facts about the queues' entries.                                        *)
(***************************************************************************)

LEMMA BlockFields ==
    ASSUME NEW b \in Block
    PROVE  /\ b.kind \in {"auth", "signedIn", "snapshot", "reload", "saved", "clear"}
           /\ b.kind = "auth" => b.user \in User
           /\ b.kind = "signedIn" => b.form \in Form
           /\ b.kind \notin {"auth", "signedIn"} => b.screen \in Screen
           /\ b.kind = "snapshot" => b.docs \subseteq Message
BY DEF Block

LEMMA TaskFields ==
    ASSUME NEW t \in Task
    PROVE  /\ t.kind \in {"listen", "write", "user"}
           /\ t.kind = "listen" => t.screen \in Screen
           /\ t.kind = "write" => t.doc \in Message
           /\ t.kind = "user" => t.user \in User
BY DEF Task

LEMMA Blocks ==
    /\ \A u \in User : [kind |-> "auth", user |-> u] \in Block
    /\ \A f \in Form : [kind |-> "signedIn", form |-> f] \in Block
    /\ \A s \in Screen, D \in SUBSET Message :
          [kind |-> "snapshot", screen |-> s, docs |-> D] \in Block
    /\ \A s \in Screen, k \in {"reload", "saved", "clear"} : [kind |-> k, screen |-> s] \in Block
BY DEF Block

LEMMA Tasks ==
    /\ \A s \in Screen : [kind |-> "listen", screen |-> s] \in Task
    /\ \A m \in Message : [kind |-> "write", doc |-> m] \in Task
    /\ \A u \in User : [kind |-> "user", user |-> u] \in Task
BY DEF Task

\* r is the queue q without its first entry, and with those of b at its end.
IsShift(r, q, b) ==
    /\ Len(q) \in Nat \ {0} /\ Len(b) \in Nat
    /\ Len(r) = Len(q) - 1 + Len(b)
    /\ \A i \in 1..(Len(q) - 1) : r[i] = q[i + 1]
    /\ \A i \in 1..Len(b) : r[Len(q) - 1 + i] = b[i]

\* r is the queue q with the entries of b at its end.
IsExtension(r, q, b) ==
    /\ Len(q) \in Nat /\ Len(b) \in Nat
    /\ Len(r) = Len(q) + Len(b)
    /\ \A i \in 1..Len(q) : r[i] = q[i]
    /\ \A i \in 1..Len(b) : r[Len(q) + i] = b[i]

LEMMA Shifted ==
    ASSUME NEW T, NEW q \in Seq(T), q # <<>>, NEW b \in Seq(T)
    PROVE  /\ Tail(q) \o b \in Seq(T)
           /\ Head(q) = q[1] /\ q[1] \in T
           /\ IsShift(Tail(q) \o b, q, b)
<1>1. Len(q) \in Nat \ {0} /\ Len(b) \in Nat
    BY EmptySeq
<1>2. Tail(q) \in Seq(T) /\ Len(Tail(q)) = Len(q) - 1
      /\ \A i \in 1..Len(Tail(q)) : Tail(q)[i] = q[i + 1]
    BY HeadTailProperties
<1>3. PICK r : r = Tail(q) \o b
    OBVIOUS
<1>4. /\ r \in Seq(T) /\ Len(r) = Len(Tail(q)) + Len(b)
      /\ \A i \in 1..(Len(Tail(q)) + Len(b)) :
            r[i] = IF i <= Len(Tail(q)) THEN Tail(q)[i] ELSE b[i - Len(Tail(q))]
    BY <1>2, <1>3, ConcatProperties
<1>5. Head(q) = q[1] /\ q[1] \in T
    BY <1>1, ElementOfSeq
<1>6. \A i \in 1..(Len(q) - 1) : r[i] = q[i + 1]
    BY <1>1, <1>2, <1>4
<1>7. \A i \in 1..Len(b) : r[Len(q) - 1 + i] = b[i]
    BY <1>1, <1>2, <1>4
<1>8. IsShift(r, q, b)
    BY <1>1, <1>2, <1>4, <1>6, <1>7 DEF IsShift
<1>9. QED
    BY <1>3, <1>4, <1>5, <1>8

LEMMA Extended ==
    ASSUME NEW T, NEW q \in Seq(T), NEW b \in Seq(T)
    PROVE  q \o b \in Seq(T) /\ IsExtension(q \o b, q, b)
<1>1. Len(q) \in Nat /\ Len(b) \in Nat
    OBVIOUS
<1>2. PICK r : r = q \o b
    OBVIOUS
<1>3. /\ r \in Seq(T) /\ Len(r) = Len(q) + Len(b)
      /\ \A i \in 1..(Len(q) + Len(b)) : r[i] = IF i <= Len(q) THEN q[i] ELSE b[i - Len(q)]
    BY <1>2, ConcatProperties
<1>4. IsExtension(r, q, b)
    <2>1. \A i \in 1..Len(q) : r[i] = q[i]
        BY <1>1, <1>3
    <2>2. \A i \in 1..Len(b) : r[Len(q) + i] = b[i]
        BY <1>1, <1>3
    <2>3. QED
        BY <1>1, <1>3, <2>1, <2>2 DEF IsExtension
<1>5. QED
    BY <1>2, <1>3, <1>4

\* The entries of a queue, whatever their order.
LEMMA ExtendedSet ==
    ASSUME NEW T, NEW q \in Seq(T), NEW b \in Seq(T)
    PROVE  ToSet(q \o b) = ToSet(q) \cup ToSet(b)
<1>1. PICK r : r = q \o b
    OBVIOUS
<1>2. r \in Seq(T) /\ IsExtension(r, q, b)
    BY <1>1, Extended
<1>3. DOMAIN r = 1..Len(r) /\ DOMAIN q = 1..Len(q) /\ DOMAIN b = 1..Len(b)
    BY <1>2
<1>4. Len(q) \in Nat /\ Len(b) \in Nat /\ Len(r) = Len(q) + Len(b)
    BY <1>2 DEF IsExtension
<1>5. ASSUME NEW i \in 1..Len(r) PROVE r[i] \in ToSet(q) \cup ToSet(b)
    <2>1. CASE i <= Len(q)
        <3>1. i \in 1..Len(q) /\ r[i] = q[i]
            BY <1>2, <2>1 DEF IsExtension
        <3>2. QED
            BY <1>3, <3>1 DEF ToSet
    <2>2. CASE i > Len(q)
        <3>1. PICK k \in 1..Len(b) : i = Len(q) + k
            <4>1. i - Len(q) \in 1..Len(b) /\ i = Len(q) + (i - Len(q))
                BY <1>4, <2>2
            <4>2. QED
                BY <4>1
        <3>2. r[i] = b[k]
            BY <1>2, <3>1 DEF IsExtension
        <3>3. QED
            BY <1>3, <3>2 DEF ToSet
    <2>3. QED
        BY <1>4, <2>1, <2>2
<1>6. ASSUME NEW i \in 1..Len(q) PROVE q[i] \in ToSet(r)
    <2>1. i \in 1..Len(r) /\ r[i] = q[i]
        BY <1>2, <1>4 DEF IsExtension
    <2>2. QED
        BY <1>3, <2>1 DEF ToSet
<1>7. ASSUME NEW i \in 1..Len(b) PROVE b[i] \in ToSet(r)
    <2>1. Len(q) + i \in 1..Len(r) /\ r[Len(q) + i] = b[i]
        BY <1>2, <1>4 DEF IsExtension
    <2>2. QED
        BY <1>3, <2>1 DEF ToSet
<1>8. ToSet(r) \subseteq ToSet(q) \cup ToSet(b)
    BY <1>3, <1>5 DEF ToSet
<1>9. ToSet(q) \subseteq ToSet(r)
    BY <1>3, <1>6 DEF ToSet
<1>10. ToSet(b) \subseteq ToSet(r)
    BY <1>3, <1>7 DEF ToSet
<1>11. QED
    BY <1>1, <1>8, <1>9, <1>10

LEMMA ShiftedSet ==
    ASSUME NEW T, NEW q \in Seq(T), q # <<>>, NEW b \in Seq(T)
    PROVE  /\ ToSet(Tail(q) \o b) \subseteq ToSet(q) \cup ToSet(b)
           /\ ToSet(q) \subseteq ToSet(Tail(q) \o b) \cup {Head(q)}
           /\ ToSet(b) \subseteq ToSet(Tail(q) \o b)
           /\ Head(q) \in ToSet(q)
<1>1. PICK t : t = Tail(q)
    OBVIOUS
<1>2. t \in Seq(T) /\ Len(t) = Len(q) - 1 /\ \A i \in 1..Len(t) : t[i] = q[i + 1]
    BY <1>1, HeadTailProperties
<1>3. Len(q) \in Nat \ {0} /\ DOMAIN q = 1..Len(q) /\ DOMAIN t = 1..Len(t) /\ Head(q) = q[1]
    BY <1>2, EmptySeq
<1>4. ToSet(t) \subseteq ToSet(q)
    <2>1. ASSUME NEW i \in 1..Len(t) PROVE t[i] \in ToSet(q)
        <3>1. i + 1 \in 1..Len(q) /\ t[i] = q[i + 1]
            BY <1>2, <1>3
        <3>2. QED
            BY <1>3, <3>1 DEF ToSet
    <2>2. QED
        BY <1>3, <2>1 DEF ToSet
<1>5. ToSet(q) \subseteq ToSet(t) \cup {Head(q)}
    <2>1. ASSUME NEW i \in 1..Len(q), i # 1 PROVE q[i] \in ToSet(t)
        <3>1. i - 1 \in 1..Len(t) /\ (i - 1) + 1 = i
            BY <1>2, <1>3, <2>1
        <3>2. t[i - 1] = q[i]
            BY <1>2, <3>1
        <3>3. QED
            BY <1>3, <3>1, <3>2 DEF ToSet
    <2>2. QED
        BY <1>3, <2>1 DEF ToSet
<1>6. ToSet(t \o b) = ToSet(t) \cup ToSet(b)
    BY <1>2, ExtendedSet
<1>7. Head(q) \in ToSet(q)
    BY <1>3 DEF ToSet
<1>8. QED
    BY <1>1, <1>4, <1>5, <1>6, <1>7

LEMMA SmallSets ==
    /\ ToSet(<<>>) = {}
    /\ \A x : ToSet(<<x>>) = {x}
BY DEF ToSet

LEMMA AppendedSet ==
    ASSUME NEW T, NEW q \in Seq(T), NEW x \in T
    PROVE  /\ Append(q, x) \in Seq(T)
           /\ ToSet(Append(q, x)) = ToSet(q) \cup {x}
<1>1. PICK r, b : r = Append(q, x) /\ b = <<x>>
    OBVIOUS
<1>2. r = q \o b /\ b \in Seq(T) /\ r \in Seq(T)
    BY <1>1, AppendIsConcat
<1>3. ToSet(r) = ToSet(q) \cup ToSet(b)
    BY <1>2, ExtendedSet
<1>4. ToSet(b) = {x}
    BY <1>1, SmallSets
<1>5. QED
    BY <1>1, <1>2, <1>3, <1>4

LEMMA SetType ==
    ASSUME NEW T, NEW q \in Seq(T)
    PROVE  ToSet(q) \subseteq T /\ \A x : x \in ToSet(q) <=> Contains(q, x)
<1>1. DOMAIN q = 1..Len(q) /\ \A i \in 1..Len(q) : q[i] \in T
    BY ElementOfSeq
<1>2. QED
    BY <1>1 DEF ToSet, Contains

LEMMA Single ==
    ASSUME NEW T, NEW x \in T
    PROVE  <<x>> \in Seq(T) /\ Len(<<x>>) = 1 /\ <<x>>[1] = x
OBVIOUS

\* The messages of a sequence that pass a test are finitely many.
LEMMA FiniteRange ==
    ASSUME NEW T, NEW q \in Seq(T)
    PROVE  IsFiniteSet(ToSet(q)) /\ ToSet(q) \subseteq T
<1>1. Len(q) \in Nat /\ DOMAIN q = 1..Len(q) /\ IsFiniteSet(1..Len(q))
    BY FS_Interval
<1>2. q \in Surjection(1..Len(q), ToSet(q))
    <2>1. q \in [1..Len(q) -> ToSet(q)]
        BY <1>1 DEF ToSet
    <2>2. \A x \in ToSet(q) : \E i \in 1..Len(q) : q[i] = x
        BY <1>1 DEF ToSet
    <2>3. QED
        BY <2>1, <2>2, Fun_IsSurj
<1>3. ToSet(q) \subseteq T
    BY <1>1, ElementOfSeq DEF ToSet
<1>4. QED
    BY <1>1, <1>2, <1>3, FS_Surjection

(***************************************************************************)
(* The view, and what a screen lists of it.                                *)
(***************************************************************************)

LEMMA ViewIsFinite ==
    ASSUME NEW sub \in [User -> Seq(Message)], NEW u \in User, NEW done,
           NEW docs \in SUBSET Message, IsFiniteSet(docs),
           NEW V, V = docs \cup {m \in Message : (\E i \in 1..Len(sub[u]) : sub[u][i] = m)
                                                /\ m \notin done}
    PROVE  V \subseteq Message /\ IsFiniteSet(V)
<1> DEFINE P == {m \in Message : (\E i \in 1..Len(sub[u]) : sub[u][i] = m) /\ m \notin done}
<1>1. sub[u] \in Seq(Message)
    OBVIOUS
<1>2. P \in SUBSET ToSet(sub[u])
    BY <1>1 DEF ToSet
<1>3. IsFiniteSet(P)
    BY <1>1, <1>2, FiniteRange, FS_Subset
<1>4. IsFiniteSet(docs \cup P)
    BY <1>3, FS_Union
<1>5. QED
    BY <1>4

LEMMA ListedType ==
    ASSUME NEW D \in SUBSET Message, IsFiniteSet(D)
    PROVE  /\ Listed(D) \in Seq(Message)
           /\ IsFiniteSet(D \ Malformed)
           /\ Len(Listed(D)) = Cardinality(D \ Malformed)
           /\ Len(Listed(D)) \in Nat
<1>1. D \ Malformed \in SUBSET D /\ D \ Malformed \in SUBSET Nat
    BY FlashChatAssumption
<1>2. IsFiniteSet(D \ Malformed)
    BY <1>1, FS_Subset
<1>3. /\ Ascending(D \ Malformed) \in Seq(D \ Malformed)
      /\ Len(Ascending(D \ Malformed)) = Cardinality(D \ Malformed)
      /\ Cardinality(D \ Malformed) \in Nat
    BY <1>1, <1>2, AscendingSorts
<1>4. Ascending(D \ Malformed) \in Seq(Message)
    BY <1>3, SeqMonotonic
<1>5. QED
    BY <1>2, <1>3, <1>4 DEF Listed

(***************************************************************************)
(* Publish: the blocks, then a snapshot of the new view for each listener  *)
(* that is due one, and for nobody else.                                   *)
(***************************************************************************)

Snapshot(s, docs) == [kind |-> "snapshot", screen |-> s, docs |-> docs]

LEMMA SnapshotFields ==
    ASSUME NEW s, NEW D
    PROVE  /\ Snapshot(s, D).kind = "snapshot"
           /\ Snapshot(s, D).screen = s
           /\ Snapshot(s, D).docs = D
           /\ s \in Screen /\ D \subseteq Message => Snapshot(s, D) \in Block
BY Blocks DEF Snapshot

Snapshots(told, D) ==
    [i \in DOMAIN told |-> [kind |-> "snapshot", screen |-> told[i], docs |-> D]]

AreSnapshots(events, told, D) ==
    /\ events \in Seq(Block)
    /\ Len(events) = Len(told)
    /\ \A k \in 1..Len(told) : events[k] = Snapshot(told[k], D)

LEMMA SnapshotBlocks ==
    ASSUME NEW told \in Seq(Screen), NEW D \in SUBSET Message
    PROVE  AreSnapshots(Snapshots(told, D), told, D)
<1>1. Len(told) \in Nat /\ DOMAIN told = 1..Len(told)
    OBVIOUS
<1>2. \A k \in 1..Len(told) : told[k] \in Screen
    BY ElementOfSeq
<1>3. PICK events : events = Snapshots(told, D)
    OBVIOUS
<1>4. \A k \in 1..Len(told) : events[k] = Snapshot(told[k], D)
    BY <1>1, <1>3 DEF Snapshots, Snapshot
<1>5. \A k \in 1..Len(told) : events[k] \in Block
    BY <1>2, <1>4, SnapshotFields
<1>6. events \in [1..Len(told) -> Block]
    BY <1>1, <1>3, <1>5 DEF Snapshots
<1>7. events \in Seq(Block) /\ Len(events) = Len(told)
    BY <1>1, <1>6
<1>8. AreSnapshots(events, told, D)
    BY <1>4, <1>7 DEF AreSnapshots
<1>9. QED
    BY <1>3, <1>8

\* A listener that the new view is sent to.
Told(s) == s \in Screen /\ Contains(listeners', s) /\ ShouldRaise(s, View, View')

AreEvents(events) ==
    /\ events \in Seq(Block)
    /\ \A k \in 1..Len(events) : \E s : Told(s) /\ events[k] = Snapshot(s, View')
    /\ \A s : Told(s) => \E k \in 1..Len(events) : events[k] = Snapshot(s, View')

LEMMA PublishFacts ==
    ASSUME main \in Seq(Block), listeners' \in Seq(Screen), View' \subseteq Message,
           NEW blocks \in Seq(Block), Publish(blocks)
    PROVE  \E events :
              /\ AreEvents(events)
              /\ main' = main \o (blocks \o events)
              /\ \A s : s \in raised' <=>
                    Told(s) \/ (s \in raised /\ s \in Screen /\ Contains(listeners', s))
<1>1. PICK q, S, D, events : /\ q = listeners'
                             /\ S = {s \in Screen : ShouldRaise(s, View, View')}
                             /\ D = View'
                             /\ events = Events(View)
    OBVIOUS
<1>2. q \in Seq(Screen) /\ D \in SUBSET Message
    BY <1>1
<1>3. PICK told : told = Selected(q, S)
    OBVIOUS
<1>4. \A s : Told(s) <=> s \in S /\ Contains(q, s)
    BY <1>1 DEF Told
<1>5. told \in Seq(Screen) /\ IsSelection(told, q, S)
    BY <1>2, <1>3, SelectedElements
<1>6. AreSnapshots(events, told, D)
    <2>1. events = Snapshots(told, D)
        BY <1>1, <1>3 DEF Events, Snapshots
    <2>2. QED
        BY <1>2, <1>5, <2>1, SnapshotBlocks
<1>7. \A k \in 1..Len(told) : Told(told[k])
    BY <1>4, <1>5 DEF Contains, IsSelection
<1>8. \A s : Told(s) => \E k \in 1..Len(told) : told[k] = s
    BY <1>4, <1>5 DEF Contains, IsSelection
<1>9. AreEvents(events)
    BY <1>1, <1>6, <1>7, <1>8 DEF AreEvents, AreSnapshots
<1>10. events \in Seq(Block) /\ Len(events) = Len(told)
    BY <1>6 DEF AreSnapshots
<1>11. main' = main \o (blocks \o events)
    <2>1. main' = main \o blocks \o events
        BY <1>1 DEF Publish
    <2>2. QED
        BY <2>1, <1>10, ConcatAssociative
<1>12. raised' = (raised \cap ToSet(q)) \cup {events[i].screen : i \in DOMAIN events}
    BY <1>1 DEF Publish
<1>13. \A s : s \in ToSet(q) <=> s \in Screen /\ Contains(q, s)
    BY <1>2, SetType
<1>14. \A s : s \in {events[i].screen : i \in DOMAIN events} <=> Told(s)
    <2>1. DOMAIN events = 1..Len(told)
        BY <1>10
    <2>2. \A k \in 1..Len(told) : events[k].screen = told[k]
        BY <1>6, SnapshotFields DEF AreSnapshots
    <2>3. QED
        BY <1>7, <1>8, <2>1, <2>2
<1>15. \A s : s \in raised' <=>
           Told(s) \/ (s \in raised /\ s \in Screen /\ Contains(listeners', s))
    BY <1>1, <1>12, <1>13, <1>14
<1>16. QED
    BY <1>9, <1>11, <1>15

\* The same, without the order of the blocks.
LEMMA PublishSets ==
    ASSUME main \in Seq(Block), listeners' \in Seq(Screen), View' \subseteq Message,
           NEW blocks \in Seq(Block), Publish(blocks)
    PROVE  /\ main' \in Seq(Block)
           /\ \A b : b \in ToSet(main') <=>
                 \/ b \in ToSet(main)
                 \/ b \in ToSet(blocks)
                 \/ \E s : Told(s) /\ b = Snapshot(s, View')
           /\ raised' \subseteq ToSet(listeners')
<1>1. PICK events : /\ AreEvents(events)
                    /\ main' = main \o (blocks \o events)
                    /\ \A s : s \in raised' <=>
                         Told(s) \/ (s \in raised /\ s \in Screen /\ Contains(listeners', s))
    BY PublishFacts
<1>2. events \in Seq(Block)
    BY <1>1 DEF AreEvents
<1>3. \A b : b \in ToSet(events) <=> \E s : Told(s) /\ b = Snapshot(s, View')
    <2>1. DOMAIN events = 1..Len(events)
        BY <1>2
    <2>2. QED
        BY <1>1, <2>1 DEF AreEvents, ToSet
<1>4. PICK more, queue : more = blocks \o events /\ queue = main'
    OBVIOUS
<1>5. more \in Seq(Block) /\ ToSet(more) = ToSet(blocks) \cup ToSet(events)
    BY <1>2, <1>4, Extended, ExtendedSet
<1>6. queue \in Seq(Block) /\ ToSet(queue) = ToSet(main) \cup ToSet(more)
    <2>1. queue = main \o more
        BY <1>1, <1>4
    <2>2. QED
        BY <1>5, <2>1, Extended, ExtendedSet
<1>7. raised' \subseteq ToSet(listeners')
    BY <1>1, SetType DEF Told
<1>8. QED
    BY <1>3, <1>4, <1>5, <1>6, <1>7

(***************************************************************************)
(* Types: those of TypeOK, of the write path's variables, finitely many    *)
(* documents on the device, and a screen for every message whose           *)
(* completion block is still to come.                                      *)
(***************************************************************************)

StoreTypes ==
    /\ submitted \in [User -> Seq(Message)]
    /\ settled \subseteq Message
    /\ committed \in Seq(Message)
    /\ waiting \subseteq Message

FiniteDocs ==
    /\ IsFiniteSet(cache)
    /\ IsFiniteSet(foreign)
    /\ \A b \in ToSet(main) : b.kind = "snapshot" => IsFiniteSet(b.docs)

Origins ==
    /\ \A m \in waiting : sentFrom[m] \in Screen
    /\ \A t \in ToSet(tasks) : t.kind = "write" => sentFrom[t.doc] \in Screen

TypeInv == TypeOK /\ StoreTypes /\ FiniteDocs /\ Origins

LEMMA ViewType ==
    ASSUME TypeInv
    PROVE  View \subseteq Message /\ IsFiniteSet(View)
<1>1. /\ submitted \in [User -> Seq(Message)] /\ fsUser \in User
      /\ cache \in SUBSET Message /\ IsFiniteSet(cache)
    BY DEF TypeInv, TypeOK, StoreTypes, FiniteDocs
<1>2. View = cache \cup {m \in Message : (\E i \in 1..Len(submitted[fsUser]) :
                                               submitted[fsUser][i] = m) /\ m \notin settled}
    BY DEF View, Pending, Store!SubmittedBy, Store!Contains
<1>3. QED
    BY <1>1, <1>2, ViewIsFinite

LEMMA NextViewType ==
    ASSUME submitted' \in [User -> Seq(Message)], fsUser' \in User,
           cache' \in SUBSET Message, IsFiniteSet(cache')
    PROVE  View' \subseteq Message /\ IsFiniteSet(View')
<1>1. View' = cache' \cup {m \in Message : (\E i \in 1..Len(submitted'[fsUser']) :
                                     submitted'[fsUser'][i] = m) /\ m \notin settled'}
    BY DEF View, Pending, Store!SubmittedBy, Store!Contains
<1>2. QED
    BY <1>1, ViewIsFinite

\* What a step that publishes does to the types.
LEMMA PublishTypes ==
    ASSUME TypeInv, listeners' \in Seq(Screen), fsUser' \in User,
           submitted' \in [User -> Seq(Message)], cache' \subseteq Message, IsFiniteSet(cache'),
           NEW blocks \in Seq(Block), \A b \in ToSet(blocks) : b.kind # "snapshot",
           Publish(blocks)
    PROVE  /\ main' \in Seq(Block)
           /\ raised' \subseteq ToSet(listeners')
           /\ retracted' \in BOOLEAN
           /\ \A b \in ToSet(main') : b.kind = "snapshot" => IsFiniteSet(b.docs)
<1>1. View' \subseteq Message /\ IsFiniteSet(View')
    BY NextViewType
<1>2. main \in Seq(Block)
    BY DEF TypeInv, TypeOK
<1>3. /\ main' \in Seq(Block)
      /\ \A b : b \in ToSet(main') <=>
            \/ b \in ToSet(main)
            \/ b \in ToSet(blocks)
            \/ \E s : Told(s) /\ b = Snapshot(s, View')
      /\ raised' \subseteq ToSet(listeners')
    BY <1>1, <1>2, PublishSets
<1>4. \A s : IsFiniteSet(Snapshot(s, View').docs)
    BY <1>1, SnapshotFields
<1>5. retracted' \in BOOLEAN
    BY DEF Publish
<1>6. QED
    BY <1>3, <1>4, <1>5 DEF TypeInv, FiniteDocs

LEMMA TypeInvInit == Init => TypeInv
<1> SUFFICES ASSUME Init PROVE TypeInv
    OBVIOUS
<1>1. StoreTypes
    BY EmptySeq DEF Init, Store!Init, StoreTypes
<1>2. FiniteDocs
    BY FlashChatAssumption, SmallSets DEF Init, FiniteDocs
<1>3. Origins
    BY SmallSets DEF Init, Store!Init, Origins
<1>4. TypeOK
    BY FlashChatAssumption, EmptySeq, SmallSets DEF Init, TypeOK, User
<1>5. QED
    BY <1>1, <1>2, <1>3, <1>4 DEF TypeInv

LEMMA TypeInvRunTask ==
    ASSUME TypeInv, RunTask
    PROVE  TypeInv'
<1> DEFINE task == Head(tasks)
<1>1. /\ main \in Seq(Block) /\ listeners \in Seq(Screen) /\ fsUser \in User
      /\ tasks \in Seq(Task) /\ tasks # <<>>
      /\ submitted \in [User -> Seq(Message)] /\ cache \subseteq Message /\ IsFiniteSet(cache)
    BY DEF TypeInv, TypeOK, StoreTypes, FiniteDocs, RunTask
<1>2. /\ tasks' \in Seq(Task) /\ ToSet(tasks') \subseteq ToSet(tasks)
      /\ task \in ToSet(tasks) /\ task \in Task
    <2>1. PICK e \in Seq(Task) : e = <<>>
        BY EmptySeq
    <2>2. tasks' = Tail(tasks) /\ Tail(tasks) \in Seq(Task)
        BY <1>1, HeadTailProperties DEF RunTask
    <2>3. tasks' = Tail(tasks) \o e
        BY <2>1, <2>2, ConcatEmptySeq
    <2>4. ToSet(Tail(tasks) \o e) \subseteq ToSet(tasks) \cup ToSet(e) /\ task \in ToSet(tasks)
        BY <1>1, <2>1, ShiftedSet
    <2>5. QED
        BY <1>1, <2>1, <2>2, <2>3, <2>4, SmallSets, SetType
<1>3. PICK e \in Seq(Block) : e = <<>>
    BY EmptySeq
<1>4. \A b \in ToSet(e) : b.kind # "snapshot"
    BY <1>3, SmallSets
<1>5. CASE task.kind = "listen" /\ AddQueryListener(task.screen)
    <2>1. task.screen \in Screen
        BY <1>2, <1>5, TaskFields
    <2>2. /\ listeners' \in Seq(Screen) /\ UNCHANGED <<fsUser, cache, synced, offline, writes>>
          /\ Publish(e)
        BY <1>1, <1>3, <1>5, <2>1, AppendedSet DEF AddQueryListener
    <2>3. UNCHANGED <<submitted, settled, committed, waiting>>
        BY <2>2 DEF writes
    <2>4. /\ main' \in Seq(Block)
          /\ raised' \subseteq ToSet(listeners')
          /\ retracted' \in BOOLEAN
          /\ \A b \in ToSet(main') : b.kind = "snapshot" => IsFiniteSet(b.docs)
        BY <1>1, <1>4, <2>2, <2>3, PublishTypes
    <2>5. TypeOK'
        BY <1>2, <2>2, <2>4 DEF TypeInv, TypeOK, RunTask, auth, ui, history
    <2>6. StoreTypes' /\ FiniteDocs'
        BY <2>2, <2>3, <2>4 DEF TypeInv, StoreTypes, FiniteDocs, RunTask, history
    <2>7. Origins'
        BY <1>2, <2>3 DEF TypeInv, Origins, RunTask, history
    <2>8. QED
        BY <2>5, <2>6, <2>7 DEF TypeInv
<1>6. CASE task.kind = "write" /\ WriteMutations(task.doc)
    <2>1. task.doc \in Message /\ sentFrom[task.doc] \in Screen
        BY <1>2, <1>6, TaskFields DEF TypeInv, Origins
    <2>2. /\ UNCHANGED <<fsUser, listeners, cache, synced, offline>>
          /\ Publish(e)
          /\ Store!Submit(fsUser, task.doc)
        BY <1>3, <1>6 DEF WriteMutations
    <2>3. /\ submitted' = [submitted EXCEPT ![fsUser] = Append(@, task.doc)]
          /\ waiting' = waiting \cup {task.doc}
          /\ UNCHANGED <<settled, committed>>
        BY <2>2 DEF Store!Submit
    <2>4. submitted' \in [User -> Seq(Message)]
        <3>1. Append(submitted[fsUser], task.doc) \in Seq(Message)
            BY <1>1, <2>1, AppendedSet
        <3>2. QED
            BY <1>1, <2>3, <3>1
    <2>5. /\ main' \in Seq(Block)
          /\ raised' \subseteq ToSet(listeners')
          /\ retracted' \in BOOLEAN
          /\ \A b \in ToSet(main') : b.kind = "snapshot" => IsFiniteSet(b.docs)
        BY <1>1, <1>4, <2>2, <2>4, PublishTypes
    <2>6. TypeOK'
        BY <1>2, <2>2, <2>5 DEF TypeInv, TypeOK, RunTask, auth, ui, history
    <2>7. StoreTypes' /\ FiniteDocs'
        BY <2>1, <2>2, <2>3, <2>4, <2>5 DEF TypeInv, StoreTypes, FiniteDocs, RunTask, history
    <2>8. Origins'
        BY <1>2, <2>1, <2>3 DEF TypeInv, Origins, RunTask, history
    <2>9. QED
        BY <2>6, <2>7, <2>8 DEF TypeInv
<1>7. CASE task.kind = "user" /\ HandleCredentialChange(task.user)
    <2>1. task.user \in User
        BY <1>2, <1>7, TaskFields
    <2>2. /\ fsUser' = task.user /\ offline' = FALSE
          /\ UNCHANGED <<listeners, cache, synced, writes>>
          /\ Publish(e)
        BY <1>3, <1>7 DEF HandleCredentialChange
    <2>3. UNCHANGED <<submitted, settled, committed, waiting>>
        BY <2>2 DEF writes
    <2>4. /\ main' \in Seq(Block)
          /\ raised' \subseteq ToSet(listeners')
          /\ retracted' \in BOOLEAN
          /\ \A b \in ToSet(main') : b.kind = "snapshot" => IsFiniteSet(b.docs)
        BY <1>1, <1>4, <2>1, <2>2, <2>3, PublishTypes
    <2>5. TypeOK'
        BY <1>2, <2>1, <2>2, <2>4 DEF TypeInv, TypeOK, RunTask, auth, ui, history
    <2>6. StoreTypes' /\ FiniteDocs'
        BY <2>2, <2>3, <2>4 DEF TypeInv, StoreTypes, FiniteDocs, RunTask, history
    <2>7. Origins'
        BY <1>2, <2>3 DEF TypeInv, Origins, RunTask, history
    <2>8. QED
        BY <2>5, <2>6, <2>7 DEF TypeInv
<1>8. QED
    BY <1>5, <1>6, <1>7 DEF RunTask

\* The streams and the backend.
LEMMA TypeInvWorld ==
    ASSUME TypeInv
    PROVE  /\ \A m \in Message, result \in {"ok", "error"} : Settle(m, result) => TypeInv'
           /\ \A m \in Message : Commit(m) \/ ForeignWrite(m) => TypeInv'
           /\ \A new \in SUBSET (Server \ cache) : ApplyRemoteEvent(new) => TypeInv'
           /\ HandleRejectedListen \/ GoOffline => TypeInv'
<1>1. /\ main \in Seq(Block) /\ listeners \in Seq(Screen) /\ fsUser \in User
      /\ submitted \in [User -> Seq(Message)] /\ cache \subseteq Message /\ IsFiniteSet(cache)
      /\ committed \in Seq(Message) /\ foreign \subseteq Message /\ IsFiniteSet(foreign)
    BY DEF TypeInv, TypeOK, StoreTypes, FiniteDocs
<1>2. PICK e \in Seq(Block) : e = <<>>
    BY EmptySeq
<1>3. \A b \in ToSet(e) : b.kind # "snapshot"
    BY <1>2, SmallSets
<1>4. ASSUME NEW m \in Message, NEW result \in {"ok", "error"}, Settle(m, result)
      PROVE  TypeInv'
    <2>1. /\ cache' = IF result = "ok" THEN cache \cup {m} ELSE cache
          /\ UNCHANGED <<auth, ui, tasks, fsUser, listeners, synced, offline, history>>
          /\ Publish(Completion(m, result))
          /\ Store!Settle(fsUser, m, result)
        BY <1>4 DEF Settle
    <2>2. /\ settled' = settled \cup {m}
          /\ waiting' = waiting \ {m}
          /\ UNCHANGED <<submitted, committed>>
        BY <2>1 DEF Store!Settle
    <2>3. cache' \subseteq Message /\ IsFiniteSet(cache')
        BY <1>1, <2>1, FS_AddElement
    <2>4. /\ Completion(m, result) \in Seq(Block)
          /\ \A b \in ToSet(Completion(m, result)) : b.kind # "snapshot"
        <3>1. CASE m \in waiting /\ result = "ok"
            <4>1. sentFrom[m] \in Screen
                BY <3>1 DEF TypeInv, Origins
            <4>2. PICK b : b = [kind |-> "saved", screen |-> sentFrom[m]]
                OBVIOUS
            <4>3. b \in Block /\ b.kind = "saved"
                BY <4>1, <4>2, Blocks
            <4>4. Completion(m, result) = <<b>>
                BY <3>1, <4>2 DEF Completion
            <4>5. QED
                BY <4>3, <4>4, SmallSets
        <3>2. CASE ~(m \in waiting /\ result = "ok")
            BY <1>2, <1>3, <3>2 DEF Completion
        <3>3. QED
            BY <3>1, <3>2
    <2>5. /\ main' \in Seq(Block)
          /\ raised' \subseteq ToSet(listeners')
          /\ retracted' \in BOOLEAN
          /\ \A b \in ToSet(main') : b.kind = "snapshot" => IsFiniteSet(b.docs)
        BY <1>1, <2>1, <2>2, <2>3, <2>4, PublishTypes
    <2>6. TypeOK'
        BY <2>1, <2>3, <2>5 DEF TypeInv, TypeOK, auth, ui, history
    <2>7. StoreTypes' /\ FiniteDocs'
        BY <2>1, <2>2, <2>3, <2>5 DEF TypeInv, StoreTypes, FiniteDocs, history
    <2>8. Origins'
        BY <2>1, <2>2 DEF TypeInv, Origins, history
    <2>9. QED
        BY <2>6, <2>7, <2>8 DEF TypeInv
<1>5. ASSUME NEW m \in Message, Commit(m) PROVE TypeInv'
    <2>1. /\ committed' = Append(committed, m)
          /\ UNCHANGED <<submitted, settled, waiting>>
          /\ UNCHANGED <<auth, ui, main, tasks, view, history>>
        BY <1>5 DEF Commit, Store!Commit
    <2>2. committed' \in Seq(Message)
        BY <1>1, <2>1, AppendedSet
    <2>3. TypeOK'
        BY <2>1 DEF TypeInv, TypeOK, auth, ui, view, history
    <2>4. StoreTypes' /\ FiniteDocs' /\ Origins'
        BY <2>1, <2>2 DEF TypeInv, StoreTypes, FiniteDocs, Origins, view, history
    <2>5. QED
        BY <2>3, <2>4 DEF TypeInv
<1>6. ASSUME NEW m \in Message, ForeignWrite(m) PROVE TypeInv'
    <2>1. /\ foreign' = foreign \cup {m}
          /\ UNCHANGED <<auth, ui, main, tasks, view, writes, author, sentFrom, early>>
        BY <1>6 DEF ForeignWrite
    <2>2. foreign' \subseteq Message /\ IsFiniteSet(foreign')
        BY <1>1, <2>1, FS_AddElement
    <2>3. TypeOK'
        BY <2>1, <2>2 DEF TypeInv, TypeOK, auth, ui, view
    <2>4. StoreTypes' /\ FiniteDocs' /\ Origins'
        BY <2>1, <2>2 DEF TypeInv, StoreTypes, FiniteDocs, Origins, view, writes
    <2>5. QED
        BY <2>3, <2>4 DEF TypeInv
<1>7. ASSUME NEW new \in SUBSET (Server \ cache), ApplyRemoteEvent(new) PROVE TypeInv'
    <2>1. /\ cache' = cache \cup new /\ synced' = TRUE /\ offline' = FALSE
          /\ UNCHANGED <<auth, ui, tasks, fsUser, listeners, writes, history>>
          /\ Publish(e)
        BY <1>2, <1>7 DEF ApplyRemoteEvent
    <2>2. UNCHANGED <<submitted, settled, committed, waiting>>
        BY <2>1 DEF writes
    <2>3. cache' \subseteq Message /\ IsFiniteSet(cache')
        <3>1. IsFiniteSet(ToSet(committed)) /\ ToSet(committed) \subseteq Message
            BY <1>1, FiniteRange
        <3>2. IsFiniteSet(Server) /\ Server \subseteq Message
            BY <1>1, <3>1, FS_Union DEF Server
        <3>3. new \in SUBSET Server
            OBVIOUS
        <3>4. IsFiniteSet(new)
            BY <3>2, <3>3, FS_Subset
        <3>5. QED
            BY <1>1, <2>1, <3>2, <3>4, FS_Union
    <2>4. /\ main' \in Seq(Block)
          /\ raised' \subseteq ToSet(listeners')
          /\ retracted' \in BOOLEAN
          /\ \A b \in ToSet(main') : b.kind = "snapshot" => IsFiniteSet(b.docs)
        BY <1>1, <1>3, <2>1, <2>2, <2>3, PublishTypes
    <2>5. TypeOK'
        BY <2>1, <2>3, <2>4 DEF TypeInv, TypeOK, auth, ui, history
    <2>6. StoreTypes' /\ FiniteDocs' /\ Origins'
        BY <2>1, <2>2, <2>3, <2>4 DEF TypeInv, StoreTypes, FiniteDocs, Origins, history
    <2>7. QED
        BY <2>5, <2>6 DEF TypeInv
<1>8. ASSUME HandleRejectedListen PROVE TypeInv'
    <2>1. /\ listeners' = <<>> /\ raised' = {} /\ synced' = FALSE
          /\ UNCHANGED <<auth, ui, main, tasks, fsUser, cache, offline, retracted, writes, history>>
        BY <1>8 DEF HandleRejectedListen
    <2>2. listeners' \in Seq(Screen)
        BY <2>1, EmptySeq
    <2>3. TypeOK'
        BY <2>1, <2>2 DEF TypeInv, TypeOK, auth, ui, history
    <2>4. StoreTypes' /\ FiniteDocs' /\ Origins'
        BY <2>1 DEF TypeInv, StoreTypes, FiniteDocs, Origins, history, writes
    <2>5. QED
        BY <2>3, <2>4 DEF TypeInv
<1>9. ASSUME GoOffline PROVE TypeInv'
    <2>1. /\ offline' = TRUE /\ synced' = FALSE
          /\ UNCHANGED <<auth, ui, tasks, fsUser, listeners, cache, writes, history>>
          /\ Publish(e)
        BY <1>2, <1>9 DEF GoOffline
    <2>2. UNCHANGED <<submitted, settled, committed, waiting>>
        BY <2>1 DEF writes
    <2>3. /\ main' \in Seq(Block)
          /\ raised' \subseteq ToSet(listeners')
          /\ retracted' \in BOOLEAN
          /\ \A b \in ToSet(main') : b.kind = "snapshot" => IsFiniteSet(b.docs)
        BY <1>1, <1>3, <2>1, <2>2, PublishTypes
    <2>4. TypeOK'
        BY <2>1, <2>3 DEF TypeInv, TypeOK, auth, ui, history
    <2>5. StoreTypes' /\ FiniteDocs' /\ Origins'
        BY <2>1, <2>2, <2>3 DEF TypeInv, StoreTypes, FiniteDocs, Origins, history
    <2>6. QED
        BY <2>4, <2>5 DEF TypeInv
<1>10. QED
    BY <1>4, <1>5, <1>6, <1>7, <1>8, <1>9

LEMMA RemovedEntry ==
    ASSUME NEW T, NEW q \in Seq(T), NEW i \in 1..Len(q)
    PROVE  /\ RemoveAt(q, i) \in Seq(T)
           /\ Len(RemoveAt(q, i)) = Len(q) - 1
           /\ ToSet(RemoveAt(q, i)) \subseteq ToSet(q)
<1>1. Len(q) \in Nat /\ DOMAIN q = 1..Len(q) /\ \A j \in 1..Len(q) : q[j] \in T
    BY ElementOfSeq
<1>2. PICK a, b : a = SubSeq(q, 1, i - 1) /\ b = SubSeq(q, i + 1, Len(q))
    OBVIOUS
<1>3. /\ a \in Seq(T) /\ Len(a) = i - 1
      /\ \A j \in 1..(i - 1) : a[j] = q[j]
    <2>1. \A j \in 1..(i - 1) : q[j] \in T
        BY <1>1
    <2>2. QED
        BY <1>1, <1>2, <2>1, SubSeqProperties
<1>4. /\ b \in Seq(T) /\ Len(b) = Len(q) - i
      /\ \A j \in 1..(Len(q) - i) : b[j] = q[i + j]
    <2>1. \A j \in (i + 1)..Len(q) : q[j] \in T
        BY <1>1
    <2>2. /\ b \in Seq(T)
          /\ Len(b) = IF i + 1 <= Len(q) THEN Len(q) - (i + 1) + 1 ELSE 0
          /\ \A j \in 1..(Len(q) - (i + 1) + 1) : b[j] = q[(i + 1) + j - 1]
        BY <1>1, <1>2, <2>1, SubSeqProperties
    <2>3. \A j \in 1..(Len(q) - i) : b[j] = q[i + j]
        <3>1. \A j \in 1..(Len(q) - i) : (i + 1) + j - 1 = i + j
            BY <1>1
        <3>2. Len(q) - (i + 1) + 1 = Len(q) - i
            BY <1>1
        <3>3. QED
            BY <2>2, <3>1, <3>2
    <2>4. Len(b) = Len(q) - i
        <3>1. Len(b) = IF i + 1 <= Len(q) THEN Len(q) - (i + 1) + 1 ELSE 0
            BY <2>2, Zenon
        <3>2. CASE i + 1 <= Len(q)
            BY <1>1, <3>1, <3>2
        <3>3. CASE ~(i + 1 <= Len(q))
            <4>1. PICK n \in Nat : n = Len(q)
                BY <1>1
            <4>2. i \in Nat /\ n - i = 0
                BY <3>3, <4>1
            <4>3. Len(b) = 0
                BY <3>1, <3>3, Zenon
            <4>4. QED
                BY <4>1, <4>2, <4>3, Zenon
        <3>4. QED
            BY <3>2, <3>3
    <2>5. QED
        BY <2>2, <2>3, <2>4, Zenon
<1>5. RemoveAt(q, i) = a \o b
    BY <1>2 DEF RemoveAt
<1>6. a \o b \in Seq(T) /\ Len(a \o b) = Len(a) + Len(b)
    BY <1>3, <1>4, Extended DEF IsExtension
<1>7. ToSet(a \o b) = ToSet(a) \cup ToSet(b)
    BY <1>3, <1>4, ExtendedSet
<1>8. ToSet(a) \subseteq ToSet(q)
    BY <1>1, <1>3 DEF ToSet
<1>9. ToSet(b) \subseteq ToSet(q)
    <2>1. ASSUME NEW j \in 1..(Len(q) - i) PROVE b[j] \in ToSet(q)
        <3>1. i + j \in 1..Len(q) /\ b[j] = q[i + j]
            BY <1>1, <1>4
        <3>2. QED
            BY <1>1, <3>1 DEF ToSet
    <2>2. QED
        BY <1>4, <2>1 DEF ToSet
<1>10. QED
    BY <1>1, <1>3, <1>4, <1>5, <1>6, <1>7, <1>8, <1>9

\* FirebaseAuth's answer: the notification, and the caller's block behind it.
LEMMA SignedInFacts ==
    ASSUME NEW e \in Email, NEW f \in Form
    PROVE  \E x, y \in Block :
              /\ x.kind = "auth" /\ x.user = e
              /\ y.kind = "signedIn" /\ y.form = f
              /\ SignedIn(e, f) = <<x, y>>
              /\ SignedIn(e, f) \in Seq(Block)
              /\ ToSet(SignedIn(e, f)) = {x, y}
<1>1. PICK x, y : x = [kind |-> "auth", user |-> e] /\ y = [kind |-> "signedIn", form |-> f]
    OBVIOUS
<1>2. x \in Block /\ y \in Block
    BY <1>1, Blocks DEF User
<1>3. SignedIn(e, f) = <<x, y>>
    BY <1>1 DEF SignedIn
<1>4. <<x, y>> \in Seq(Block) /\ ToSet(<<x, y>>) = {x, y}
    BY <1>2 DEF ToSet
<1>5. x.kind = "auth" /\ x.user = e /\ y.kind = "signedIn" /\ y.form = f
    BY <1>1
<1>6. QED
    BY <1>2, <1>3, <1>4, <1>5

LEMMA TypeInvSignIn ==
    ASSUME TypeInv, NEW i, NEW ok \in BOOLEAN, SignInAnswered(i, ok)
    PROVE  TypeInv'
<1>1. /\ requests \in Seq([email : Email, form : Form]) /\ main \in Seq(Block)
      /\ i \in 1..Len(requests)
    BY DEF TypeInv, TypeOK, SignInAnswered
<1>2. requests[i].email \in Email /\ requests[i].form \in Form
    <2>1. requests[i] \in [email : Email, form : Form]
        BY <1>1, ElementOfSeq
    <2>2. QED
        BY <2>1
<1>3. requests' \in Seq([email : Email, form : Form])
    BY <1>1, RemovedEntry DEF SignInAnswered
<1>4. /\ main' \in Seq(Block) /\ account' \in User
      /\ \A b \in ToSet(main') : b \in ToSet(main) \/ b.kind \in {"auth", "signedIn"}
    <2>1. CASE ok
        <3>1. PICK x : x = SignedIn(requests[i].email, requests[i].form)
            OBVIOUS
        <3>2. x \in Seq(Block) /\ \A b \in ToSet(x) : b.kind \in {"auth", "signedIn"}
            BY <1>2, <3>1, SignedInFacts
        <3>3. main' = main \o x /\ account' \in Email
            BY <1>2, <2>1, <3>1 DEF SignInAnswered
        <3>4. main \o x \in Seq(Block) /\ ToSet(main \o x) = ToSet(main) \cup ToSet(x)
            BY <1>1, <3>2, Extended, ExtendedSet
        <3>5. QED
            BY <3>2, <3>3, <3>4 DEF User
    <2>2. CASE ~ok
        BY <1>1, <2>2 DEF SignInAnswered, TypeInv, TypeOK
    <2>3. QED
        BY <2>1, <2>2
<1>5. UNCHANGED <<ui, tasks, view, writes, history>>
    BY DEF SignInAnswered
<1>6. TypeOK'
    BY <1>3, <1>4, <1>5 DEF TypeInv, TypeOK, ui, view, history
<1>7. StoreTypes' /\ FiniteDocs' /\ Origins'
    BY <1>4, <1>5 DEF TypeInv, StoreTypes, FiniteDocs, Origins, view, writes, history
<1>8. QED
    BY <1>6, <1>7 DEF TypeInv

(***************************************************************************)
(* The navigation stack.                                                   *)
(***************************************************************************)

LEMMA TopFacts ==
    ASSUME stack \in Seq(Form \cup Screen)
    PROVE  /\ stack = <<>> => Top = NoScreen /\ Top \notin Form \cup Screen
           /\ stack # <<>> => Top = stack[Len(stack)] /\ Len(stack) \in Nat \ {0} /\ OnStack(Top)
           /\ Top \in Form \cup Screen => stack # <<>>
           /\ \A f \in Form : f \notin Screen
<1>1. NoScreen \notin Form \cup Screen /\ \A f \in Form : f \notin Screen
    BY FlashChatAssumption
<1>2. stack # <<>> => Len(stack) \in Nat \ {0}
    BY EmptySeq
<1>3. QED
    BY <1>1, <1>2 DEF Top, Last, OnStack, Contains

LEMMA TypeInvTap ==
    ASSUME TypeInv, Tap
    PROVE  TypeInv'
<1>1. /\ requests \in Seq([email : Email, form : Form]) /\ main \in Seq(Block)
      /\ tasks \in Seq(Task) /\ stack \in Seq(Form \cup Screen)
    BY DEF TypeInv, TypeOK
<1>2. ASSUME NEW f \in Form, OpenForm(f) PROVE TypeInv'
    <2>1. /\ stack' = <<f>>
          /\ UNCHANGED <<auth, messages, rows, field, crashed, main, tasks, view, writes, history>>
        BY <1>2 DEF OpenForm
    <2>2. stack' \in Seq(Form \cup Screen)
        BY <2>1
    <2>3. TypeOK'
        BY <2>1, <2>2 DEF TypeInv, TypeOK, auth, view, history
    <2>4. StoreTypes' /\ FiniteDocs' /\ Origins'
        BY <2>1 DEF TypeInv, StoreTypes, FiniteDocs, Origins, view, writes, history
    <2>5. QED
        BY <2>3, <2>4 DEF TypeInv
<1>3. ASSUME Back PROVE TypeInv'
    <2>1. /\ stack' = Front(stack)
          /\ UNCHANGED <<auth, messages, rows, field, crashed, main, tasks, view, writes, history>>
        BY <1>3 DEF Back
    <2>2. stack' \in Seq(Form \cup Screen)
        <3>1. Len(stack) \in Nat /\ \A i \in 1..(Len(stack) - 1) : stack[i] \in Form \cup Screen
            BY <1>1, ElementOfSeq
        <3>2. QED
            BY <2>1, <3>1, SubSeqProperties DEF Front
    <2>3. TypeOK'
        BY <2>1, <2>2 DEF TypeInv, TypeOK, auth, view, history
    <2>4. StoreTypes' /\ FiniteDocs' /\ Origins'
        BY <2>1 DEF TypeInv, StoreTypes, FiniteDocs, Origins, view, writes, history
    <2>5. QED
        BY <2>3, <2>4 DEF TypeInv
<1>4. ASSUME NEW e \in Email, LoginPressed(e) PROVE TypeInv'
    <2>1. /\ requests' = Append(requests, [email |-> e, form |-> Top]) /\ Top \in Form
          /\ UNCHANGED <<account, ui, main, tasks, view, writes, history>>
        BY <1>4 DEF LoginPressed
    <2>2. requests' \in Seq([email : Email, form : Form])
        BY <1>1, <2>1, AppendedSet
    <2>3. TypeOK'
        BY <2>1, <2>2 DEF TypeInv, TypeOK, ui, view, history
    <2>4. StoreTypes' /\ FiniteDocs' /\ Origins'
        BY <2>1 DEF TypeInv, StoreTypes, FiniteDocs, Origins, view, writes, history
    <2>5. QED
        BY <2>3, <2>4 DEF TypeInv
<1>5. ASSUME NEW s \in Screen, Type(s) PROVE TypeInv'
    <2>1. /\ field' = [field EXCEPT ![s] = TRUE]
          /\ UNCHANGED <<auth, stack, messages, rows, crashed, main, tasks, view, writes, history>>
        BY <1>5 DEF Type
    <2>2. TypeOK'
        BY <2>1 DEF TypeInv, TypeOK, auth, view, history
    <2>3. StoreTypes' /\ FiniteDocs' /\ Origins'
        BY <2>1 DEF TypeInv, StoreTypes, FiniteDocs, Origins, view, writes, history
    <2>4. QED
        BY <2>2, <2>3 DEF TypeInv
<1>6. ASSUME NEW s \in Screen, NEW m \in Message, SendPressed(s, m) PROVE TypeInv'
    <2>1. PICK t : t = [kind |-> "write", doc |-> m]
        OBVIOUS
    <2>2. /\ author' = [author EXCEPT ![m] = account]
          /\ sentFrom' = [sentFrom EXCEPT ![m] = s]
          /\ early' = IF SigningIn > 0 THEN early \cup {m} ELSE early
          /\ tasks' = Append(tasks, t)
          /\ UNCHANGED <<auth, ui, main, view, writes, foreign>>
        BY <1>6, <2>1 DEF SendPressed
    <2>3. t \in Task /\ t.doc = m
        BY <2>1, Tasks
    <2>4. tasks' \in Seq(Task) /\ ToSet(tasks') = ToSet(tasks) \cup {t}
        BY <1>1, <2>2, <2>3, AppendedSet
    <2>5. TypeOK'
        BY <2>2, <2>4 DEF TypeInv, TypeOK, auth, ui, view
    <2>6. StoreTypes' /\ FiniteDocs'
        BY <2>2 DEF TypeInv, StoreTypes, FiniteDocs, view, writes
    <2>7. Origins'
        BY <2>2, <2>3, <2>4 DEF TypeInv, TypeOK, Origins, writes
    <2>8. QED
        BY <2>5, <2>6, <2>7 DEF TypeInv
<1>7. ASSUME NEW s \in Screen, LogOutPressed(s) PROVE TypeInv'
    <2>1. PICK b : b = [kind |-> "auth", user |-> NoUser]
        OBVIOUS
    <2>2. b \in Block /\ b.kind = "auth"
        BY <2>1, Blocks DEF User
    <2>3. /\ account' = NoUser /\ stack' = <<>>
          /\ main' = (IF account = NoUser THEN main ELSE Append(main, b))
          /\ UNCHANGED <<requests, messages, rows, field, crashed, tasks, view, writes, history>>
        BY <1>7, <2>1 DEF LogOutPressed, PopToRoot
    <2>4. main' \in Seq(Block) /\ ToSet(main') \subseteq ToSet(main) \cup {b}
        BY <1>1, <2>2, <2>3, AppendedSet
    <2>5. stack' \in Seq(Form \cup Screen)
        BY <2>3, EmptySeq
    <2>6. TypeOK'
        BY <2>3, <2>4, <2>5 DEF TypeInv, TypeOK, view, history, User
    <2>7. StoreTypes' /\ FiniteDocs' /\ Origins'
        BY <2>2, <2>3, <2>4 DEF TypeInv, StoreTypes, FiniteDocs, Origins, view, writes, history
    <2>8. QED
        BY <2>6, <2>7 DEF TypeInv
<1>8. ASSUME NEW s \in Screen, CellForRow(s) PROVE TypeInv'
    <2>1. /\ crashed' = TRUE
          /\ UNCHANGED <<auth, stack, messages, rows, field, main, tasks, view, writes, history>>
        BY <1>8 DEF CellForRow
    <2>2. TypeOK'
        BY <2>1 DEF TypeInv, TypeOK, auth, view, history
    <2>3. StoreTypes' /\ FiniteDocs' /\ Origins'
        BY <2>1 DEF TypeInv, StoreTypes, FiniteDocs, Origins, view, writes, history
    <2>4. QED
        BY <2>2, <2>3 DEF TypeInv
<1>9. QED
    BY <1>2, <1>3, <1>4, <1>5, <1>6, <1>7, <1>8 DEF Tap

(***************************************************************************)
(* The blocks of the main queue.                                           *)
(***************************************************************************)

\* The queue after a block has run and sent others.
LEMMA SendsFacts ==
    ASSUME main \in Seq(Block), main # <<>>, NEW blocks \in Seq(Block), Sends(blocks)
    PROVE  /\ main' \in Seq(Block)
           /\ Head(main) \in Block /\ Head(main) \in ToSet(main) /\ Head(main) = main[1]
           /\ IsShift(main', main, blocks)
           /\ ToSet(main') \subseteq ToSet(main) \cup ToSet(blocks)
           /\ ToSet(main) \subseteq ToSet(main') \cup {Head(main)}
           /\ ToSet(blocks) \subseteq ToSet(main')
<1>1. main' = Tail(main) \o blocks
    BY DEF Sends
<1>2. QED
    BY <1>1, Shifted, ShiftedSet

LEMMA EmptyBlocks == <<>> \in Seq(Block) /\ ToSet(<<>>) = {} /\ Len(<<>>) = 0
BY EmptySeq, SmallSets

LEMMA OneBlock ==
    ASSUME NEW b \in Block
    PROVE  <<b>> \in Seq(Block) /\ ToSet(<<b>>) = {b} /\ Len(<<b>>) = 1 /\ <<b>>[1] = b
BY SmallSets

LEMMA TypeInvRunBlock ==
    ASSUME TypeInv, RunBlock
    PROVE  TypeInv'
<1> DEFINE b == Head(main)
<1>1. /\ main \in Seq(Block) /\ main # <<>> /\ b \in Block /\ b \in ToSet(main)
      /\ tasks \in Seq(Task) /\ stack \in Seq(Form \cup Screen)
      /\ messages \in [Screen -> Seq(Message)]
    <2>1. main \in Seq(Block) /\ main # <<>> /\ tasks \in Seq(Task)
          /\ stack \in Seq(Form \cup Screen) /\ messages \in [Screen -> Seq(Message)]
        BY DEF TypeInv, TypeOK, RunBlock
    <2>2. b \in Block /\ b \in ToSet(main)
        BY <2>1, EmptyBlocks, Shifted, ShiftedSet
    <2>3. QED
        BY <2>1, <2>2
<1>2. UNCHANGED <<auth, view, writes, foreign, author, early>>
    BY DEF RunBlock
<1>3. UNCHANGED <<account, requests, fsUser, listeners, raised, cache, synced, offline,
                  retracted, submitted, settled, committed, waiting, foreign, author, early>>
    BY <1>2 DEF auth, view, writes
<1>4. Head(main) \in Block /\ b.kind \in {"auth", "signedIn", "snapshot", "reload", "saved", "clear"}
    BY <1>1, BlockFields
<1>5. CASE b.kind = "auth" /\ PostAuthStateChange(b.user)
    <2>1. PICK t : t = [kind |-> "user", user |-> b.user]
        OBVIOUS
    <2>2. t \in Task /\ t.kind = "user"
        BY <1>1, <1>5, <2>1, BlockFields, Tasks
    <2>3. Sends(<<>>) /\ tasks' = Append(tasks, t) /\ UNCHANGED <<ui, sentFrom>>
        BY <1>5, <2>1 DEF PostAuthStateChange
    <2>4. main' \in Seq(Block) /\ ToSet(main') \subseteq ToSet(main)
        BY <1>1, <2>3, SendsFacts, EmptyBlocks
    <2>5. tasks' \in Seq(Task) /\ ToSet(tasks') = ToSet(tasks) \cup {t}
        BY <1>1, <2>2, <2>3, AppendedSet
    <2>6. TypeOK'
        BY <1>3, <2>3, <2>4, <2>5 DEF TypeInv, TypeOK, ui
    <2>7. StoreTypes' /\ FiniteDocs' /\ Origins'
        BY <1>3, <2>2, <2>3, <2>4, <2>5 DEF TypeInv, StoreTypes, FiniteDocs, Origins
    <2>8. QED
        BY <2>6, <2>7 DEF TypeInv
<1>6. CASE b.kind = "signedIn" /\ PerformSegue(b.form)
    <2>1. Sends(<<>>) /\ UNCHANGED crashed
        BY <1>6 DEF PerformSegue
    <2>2. main' \in Seq(Block) /\ ToSet(main') \subseteq ToSet(main)
        BY <1>1, <2>1, SendsFacts, EmptyBlocks
    <2>3. CASE UNCHANGED <<stack, messages, rows, field, tasks, sentFrom>>
        <3>1. TypeOK'
            BY <1>3, <2>1, <2>2, <2>3 DEF TypeInv, TypeOK
        <3>2. StoreTypes' /\ FiniteDocs' /\ Origins'
            BY <1>3, <2>2, <2>3 DEF TypeInv, StoreTypes, FiniteDocs, Origins
        <3>3. QED
            BY <3>1, <3>2 DEF TypeInv
    <2>4. ASSUME NEW s \in Screen, Free(s),
                 stack' = Append(stack, s),
                 messages' = [messages EXCEPT ![s] = <<>>],
                 rows' = [rows EXCEPT ![s] = 0],
                 field' = [field EXCEPT ![s] = FALSE],
                 tasks' = Append(tasks, [kind |-> "listen", screen |-> s]),
                 sentFrom' = [m \in Message |-> IF sentFrom[m] = s THEN NoScreen ELSE sentFrom[m]]
          PROVE  TypeInv'
        <3>1. PICK t : t = [kind |-> "listen", screen |-> s]
            OBVIOUS
        <3>2. t \in Task /\ t.kind = "listen"
            BY <3>1, Tasks
        <3>3. tasks' \in Seq(Task) /\ ToSet(tasks') = ToSet(tasks) \cup {t}
            BY <1>1, <2>4, <3>1, <3>2, AppendedSet
        <3>4. stack' \in Seq(Form \cup Screen)
            BY <1>1, <2>4, AppendedSet
        <3>5. messages' \in [Screen -> Seq(Message)]
            BY <1>1, <2>4, EmptySeq
        <3>6. TypeOK'
            BY <1>3, <2>1, <2>2, <2>4, <3>3, <3>4, <3>5 DEF TypeInv, TypeOK
        <3>7. StoreTypes' /\ FiniteDocs'
            BY <1>3, <2>2 DEF TypeInv, StoreTypes, FiniteDocs
        <3>8. \A m \in waiting : sentFrom[m] # s
            BY <2>4 DEF Free
        <3>9. \A u \in ToSet(tasks) : u.kind = "write" => u.doc \in Message /\ sentFrom[u.doc] # s
            <4>1. ToSet(tasks) \subseteq Task
                BY <1>1, SetType
            <4>2. QED
                BY <2>4, <4>1, TaskFields DEF Free
        <3>10. Origins'
            BY <1>3, <2>4, <3>2, <3>3, <3>8, <3>9 DEF TypeInv, StoreTypes, Origins
        <3>11. QED
            BY <3>6, <3>7, <3>10 DEF TypeInv
    <2>5. QED
        BY <1>6, <2>3, <2>4 DEF PerformSegue
<1>7. CASE b.kind = "snapshot" /\ OnSnapshot(b.screen, b.docs)
    <2>1. PICK r : r = [kind |-> "reload", screen |-> b.screen]
        OBVIOUS
    <2>2. /\ b.screen \in Screen /\ b.docs \in SUBSET Message /\ IsFiniteSet(b.docs)
          /\ r \in Block /\ r.kind = "reload"
        BY <1>1, <1>7, <2>1, BlockFields, Blocks DEF TypeInv, FiniteDocs
    <2>3. /\ messages' = [messages EXCEPT ![b.screen] = Listed(b.docs)]
          /\ Sends(<<r>>)
          /\ UNCHANGED <<stack, rows, field, crashed, tasks, sentFrom>>
        BY <1>7, <2>1 DEF OnSnapshot
    <2>4. main' \in Seq(Block) /\ ToSet(main') \subseteq ToSet(main) \cup {r}
        <3>1. <<r>> \in Seq(Block) /\ ToSet(<<r>>) = {r}
            BY <2>2, OneBlock
        <3>2. QED
            BY <1>1, <2>3, <3>1, SendsFacts
    <2>5. Listed(b.docs) \in Seq(Message)
        BY <2>2, ListedType
    <2>6. messages' \in [Screen -> Seq(Message)]
        BY <1>1, <2>3, <2>5
    <2>7. TypeOK'
        BY <1>3, <2>3, <2>4, <2>6 DEF TypeInv, TypeOK
    <2>8. StoreTypes' /\ FiniteDocs' /\ Origins'
        BY <1>3, <2>2, <2>3, <2>4 DEF TypeInv, StoreTypes, FiniteDocs, Origins
    <2>9. QED
        BY <2>7, <2>8 DEF TypeInv
<1>8. CASE b.kind = "reload" /\ ReloadAndScroll(b.screen)
    <2>1. b.screen \in Screen /\ Len(messages[b.screen]) \in Nat
        BY <1>1, <1>8, BlockFields
    <2>2. /\ Sends(<<>>)
          /\ rows' = [rows EXCEPT ![b.screen] = Len(messages[b.screen])]
          /\ crashed' = (messages[b.screen] = <<>>)
          /\ UNCHANGED <<stack, messages, field, tasks, sentFrom>>
        BY <1>8 DEF ReloadAndScroll
    <2>3. main' \in Seq(Block) /\ ToSet(main') \subseteq ToSet(main)
        BY <1>1, <2>2, SendsFacts, EmptyBlocks
    <2>4. crashed' \in BOOLEAN
        BY <2>2
    <2>5. rows' \in [Screen -> Nat]
        BY <2>1, <2>2 DEF TypeInv, TypeOK
    <2>6. TypeOK'
        BY <1>3, <2>2, <2>3, <2>4, <2>5 DEF TypeInv, TypeOK
    <2>7. StoreTypes' /\ FiniteDocs' /\ Origins'
        BY <1>3, <2>2, <2>3 DEF TypeInv, StoreTypes, FiniteDocs, Origins
    <2>8. QED
        BY <2>6, <2>7 DEF TypeInv
<1>9. CASE b.kind = "saved" /\ MessageSaved(b.screen)
    <2>1. PICK r : r = [kind |-> "clear", screen |-> b.screen]
        OBVIOUS
    <2>2. r \in Block /\ r.kind = "clear"
        BY <1>1, <1>9, <2>1, BlockFields, Blocks
    <2>3. Sends(<<r>>) /\ UNCHANGED <<ui, tasks, sentFrom>>
        BY <1>9, <2>1 DEF MessageSaved
    <2>4. main' \in Seq(Block) /\ ToSet(main') \subseteq ToSet(main) \cup {r}
        <3>1. <<r>> \in Seq(Block) /\ ToSet(<<r>>) = {r}
            BY <2>2, OneBlock
        <3>2. QED
            BY <1>1, <2>3, <3>1, SendsFacts
    <2>5. TypeOK'
        BY <1>3, <2>3, <2>4 DEF TypeInv, TypeOK, ui
    <2>6. StoreTypes' /\ FiniteDocs' /\ Origins'
        BY <1>3, <2>2, <2>3, <2>4 DEF TypeInv, StoreTypes, FiniteDocs, Origins
    <2>7. QED
        BY <2>5, <2>6 DEF TypeInv
<1>10. CASE b.kind = "clear" /\ ClearField(b.screen)
    <2>1. b.screen \in Screen
        BY <1>1, <1>10, BlockFields
    <2>2. /\ Sends(<<>>)
          /\ field' = [field EXCEPT ![b.screen] = FALSE]
          /\ UNCHANGED <<stack, messages, rows, crashed, tasks, sentFrom>>
        BY <1>10 DEF ClearField
    <2>3. main' \in Seq(Block) /\ ToSet(main') \subseteq ToSet(main)
        BY <1>1, <2>2, SendsFacts, EmptyBlocks
    <2>4. TypeOK'
        BY <1>3, <2>1, <2>2, <2>3 DEF TypeInv, TypeOK
    <2>5. StoreTypes' /\ FiniteDocs' /\ Origins'
        BY <1>3, <2>2, <2>3 DEF TypeInv, StoreTypes, FiniteDocs, Origins
    <2>6. QED
        BY <2>4, <2>5 DEF TypeInv
<1>11. QED
    BY <1>5, <1>6, <1>7, <1>8, <1>9, <1>10 DEF RunBlock

LEMMA TypeInvStep == TypeInv /\ [Next]_vars => TypeInv'
<1> SUFFICES ASSUME TypeInv, [Next]_vars PROVE TypeInv'
    OBVIOUS
<1>1. CASE World
    BY <1>1, TypeInvWorld, TypeInvSignIn DEF World
<1>2. CASE Relaunch
    <2>1. TypeOK'
        BY <1>2, EmptySeq, SmallSets DEF TypeInv, TypeOK, Relaunch
    <2>2. StoreTypes'
        BY <1>2 DEF TypeInv, StoreTypes, Relaunch, Store!Relaunch
    <2>3. FiniteDocs'
        BY <1>2, SmallSets DEF TypeInv, FiniteDocs, Relaunch
    <2>4. Origins'
        BY <1>2, SmallSets DEF TypeInv, Origins, Relaunch, Store!Relaunch
    <2>5. QED
        BY <2>1, <2>2, <2>3, <2>4 DEF TypeInv
<1>3. CASE UNCHANGED vars
    <2>1. TypeOK'
        BY <1>3 DEF TypeInv, TypeOK, vars, auth, ui, view, writes, history
    <2>2. StoreTypes' /\ FiniteDocs' /\ Origins'
        BY <1>3 DEF TypeInv, StoreTypes, FiniteDocs, Origins, vars, auth, ui, view, writes, history
    <2>3. QED
        BY <2>1, <2>2 DEF TypeInv
<1>4. QED
    BY <1>1, <1>2, <1>3, TypeInvRunBlock, TypeInvRunTask, TypeInvTap DEF Next

LEMMA TypeInvariant == Spec => []TypeInv
<1>1. QED
    BY TypeInvInit, TypeInvStep, PTL DEF Spec

\* Every variable keeps its type: no listing of a snapshot, no queue operation
\* and no reuse of a screen object leads out of it.
THEOREM TypeCorrect == Spec => []TypeOK
<1>1. TypeInv => TypeOK
    BY DEF TypeInv
<1>2. QED
    BY <1>1, TypeInvariant, PTL

(***************************************************************************)
(* What the steps do to the main queue.                                    *)
(***************************************************************************)

\* The blocks of b join the main queue.
Joined(b) ==
    /\ b \in Seq(Block) /\ main' \in Seq(Block)
    /\ IsExtension(main', main, b)
    /\ ToSet(main') = ToSet(main) \cup ToSet(b)

LEMMA JoinedBy ==
    ASSUME main \in Seq(Block), NEW b \in Seq(Block), main' = main \o b
    PROVE  Joined(b)
BY Extended, ExtendedSet DEF Joined

LEMMA JoinedNone ==
    ASSUME main \in Seq(Block), UNCHANGED main
    PROVE  \E b : Joined(b) /\ ToSet(b) = {}
<1>1. PICK b \in Seq(Block) : b = <<>>
    BY EmptySeq
<1>2. main' = main \o b
    BY <1>1, ConcatEmptySeq
<1>3. QED
    BY <1>1, <1>2, JoinedBy, SmallSets

\* A block of a worker step: a snapshot of the new view for a listener, or the
\* completion block of a message that the backend has.
FromWorker(x) ==
    \/ x.kind = "snapshot" /\ x.docs = View' /\ Contains(listeners', x.screen)
    \/ /\ x.kind = "saved"
       /\ \E m \in Message : sentFrom[m] = x.screen /\ Store!Committed(m)

LEMMA JoinedByPublish ==
    ASSUME TypeInv, listeners' \in Seq(Screen), fsUser' \in User,
           submitted' \in [User -> Seq(Message)], cache' \subseteq Message, IsFiniteSet(cache'),
           NEW blocks \in Seq(Block), \A x \in ToSet(blocks) : FromWorker(x),
           Publish(blocks)
    PROVE  \E b : Joined(b) /\ \A x \in ToSet(b) : FromWorker(x)
<1>1. View' \subseteq Message
    BY NextViewType
<1>2. main \in Seq(Block)
    BY DEF TypeInv, TypeOK
<1>3. PICK events : AreEvents(events) /\ main' = main \o (blocks \o events)
    BY <1>1, <1>2, PublishFacts
<1>4. events \in Seq(Block)
    BY <1>3 DEF AreEvents
<1>5. \A x \in ToSet(events) :
          x.kind = "snapshot" /\ x.docs = View' /\ Contains(listeners', x.screen)
    <2>1. DOMAIN events = 1..Len(events)
        BY <1>4
    <2>2. QED
        BY <1>3, <2>1, SnapshotFields DEF AreEvents, Told, ToSet
<1>6. PICK b : b = blocks \o events
    OBVIOUS
<1>7. b \in Seq(Block) /\ ToSet(b) = ToSet(blocks) \cup ToSet(events)
    BY <1>4, <1>6, Extended, ExtendedSet
<1>8. Joined(b)
    BY <1>2, <1>3, <1>6, <1>7, JoinedBy
<1>9. QED
    BY <1>5, <1>7, <1>8 DEF FromWorker

\* The steps that are neither a block of the main queue, nor an answer to a
\* sign-in, nor a logging out.
QuietTap ==
    \/ \E f \in Form : OpenForm(f)
    \/ Back
    \/ \E e \in Email : LoginPressed(e)
    \/ \E s \in Screen :
          \/ Type(s)
          \/ \E m \in Message : SendPressed(s, m)
          \/ CellForRow(s)

Streams ==
    \/ \E m \in Message :
          \/ Commit(m)
          \/ \E result \in {"ok", "error"} : Settle(m, result)
          \/ ForeignWrite(m)
    \/ \E new \in SUBSET (Server \ cache) : ApplyRemoteEvent(new)
    \/ HandleRejectedListen
    \/ GoOffline

LEMMA RunTaskTypes ==
    ASSUME TypeInv, RunTask
    PROVE  /\ tasks \in Seq(Task) /\ Len(tasks) \in Nat \ {0}
           /\ tasks[1] = Head(tasks) /\ tasks[1] \in Task /\ tasks[1] \in ToSet(tasks)
           /\ tasks' \in Seq(Task) /\ Len(tasks') = Len(tasks) - 1
           /\ \A i \in 1..Len(tasks') : tasks'[i] = tasks[i + 1]
           /\ listeners' \in Seq(Screen) /\ fsUser' \in User
           /\ submitted' \in [User -> Seq(Message)]
           /\ cache' = cache
           /\ Publish(<<>>)
           /\ \/ /\ tasks[1].kind = "listen"
                 /\ listeners' = Append(listeners, tasks[1].screen)
                 /\ UNCHANGED <<fsUser, writes>>
              \/ /\ tasks[1].kind = "write"
                 /\ Store!Submit(fsUser, tasks[1].doc)
                 /\ UNCHANGED <<fsUser, listeners>>
              \/ /\ tasks[1].kind = "user"
                 /\ fsUser' = tasks[1].user
                 /\ UNCHANGED <<listeners, writes>>
<1>1. tasks \in Seq(Task) /\ tasks # <<>> /\ tasks' = Tail(tasks)
    BY DEF TypeInv, TypeOK, RunTask
<1>2. /\ Len(tasks) \in Nat \ {0} /\ tasks[1] = Head(tasks)
      /\ tasks' \in Seq(Task) /\ Len(tasks') = Len(tasks) - 1
      /\ \A i \in 1..Len(tasks') : tasks'[i] = tasks[i + 1]
    BY <1>1, EmptySeq, HeadTailProperties
<1>3. tasks[1] \in Task /\ tasks[1] \in ToSet(tasks)
    BY <1>1, <1>2, ElementOfSeq DEF ToSet
<1>4. TypeInv'
    BY TypeInvRunTask
<1>5. listeners' \in Seq(Screen) /\ fsUser' \in User /\ submitted' \in [User -> Seq(Message)]
    BY <1>4 DEF TypeInv, TypeOK, StoreTypes
<1>6. PICK t : t = Head(tasks)
    OBVIOUS
<1>7. \/ t.kind = "listen" /\ AddQueryListener(t.screen)
      \/ t.kind = "write" /\ WriteMutations(t.doc)
      \/ t.kind = "user" /\ HandleCredentialChange(t.user)
    BY <1>6 DEF RunTask
<1>8. cache' = cache /\ Publish(<<>>)
    BY <1>7 DEF AddQueryListener, WriteMutations, HandleCredentialChange
<1>9. \/ /\ t.kind = "listen"
         /\ listeners' = Append(listeners, t.screen)
         /\ UNCHANGED <<fsUser, writes>>
      \/ /\ t.kind = "write"
         /\ Store!Submit(fsUser, t.doc)
         /\ UNCHANGED <<fsUser, listeners>>
      \/ /\ t.kind = "user"
         /\ fsUser' = t.user
         /\ UNCHANGED <<listeners, writes>>
    BY <1>7 DEF AddQueryListener, WriteMutations, HandleCredentialChange
<1>10. t = tasks[1]
    BY <1>2, <1>6
<1>11. QED
    BY <1>1, <1>2, <1>3, <1>5, <1>8, <1>9, <1>10

LEMMA QuietMain ==
    ASSUME TypeInv, RunTask \/ QuietTap \/ Streams
    PROVE  \E b : Joined(b) /\ \A x \in ToSet(b) : FromWorker(x)
<1>1. main \in Seq(Block) /\ cache \subseteq Message /\ IsFiniteSet(cache)
    BY DEF TypeInv, TypeOK, FiniteDocs
<1>2. PICK e \in Seq(Block) : e = <<>>
    BY EmptySeq
<1>3. \A x \in ToSet(e) : FromWorker(x)
    BY <1>2, SmallSets
<1>4. CASE UNCHANGED main
    BY <1>1, <1>4, JoinedNone
<1>5. CASE RunTask
    <2>1. Publish(e)
        BY <1>2, <1>5, RunTaskTypes
    <2>2. QED
        BY <1>1, <1>3, <1>5, <2>1, RunTaskTypes, JoinedByPublish
<1>6. CASE QuietTap
    <2>1. UNCHANGED main
        BY <1>6 DEF QuietTap, OpenForm, Back, LoginPressed, Type, SendPressed, CellForRow
    <2>2. QED
        BY <1>4, <2>1
<1>7. CASE Streams
    <2>1. TypeInv'
        BY <1>7, TypeInvWorld DEF Streams
    <2>2. /\ listeners' \in Seq(Screen) /\ fsUser' \in User
          /\ submitted' \in [User -> Seq(Message)] /\ cache' \subseteq Message
          /\ IsFiniteSet(cache')
        BY <2>1 DEF TypeInv, TypeOK, StoreTypes, FiniteDocs
    <2>3. ASSUME NEW m \in Message, NEW result \in {"ok", "error"}, Settle(m, result)
          PROVE  \E b : Joined(b) /\ \A x \in ToSet(b) : FromWorker(x)
        <3>1. Publish(Completion(m, result)) /\ Store!Settle(fsUser, m, result)
            BY <2>3 DEF Settle
        <3>2. CASE m \in waiting /\ result = "ok"
            <4>1. sentFrom[m] \in Screen /\ Store!Committed(m)
                BY <3>1, <3>2 DEF TypeInv, Origins, Store!Settle
            <4>2. PICK c : c = [kind |-> "saved", screen |-> sentFrom[m]]
                OBVIOUS
            <4>3. c \in Block /\ FromWorker(c)
                BY <4>1, <4>2, Blocks DEF FromWorker
            <4>4. PICK d : d = <<c>>
                OBVIOUS
            <4>5. d \in Seq(Block) /\ ToSet(d) = {c}
                BY <4>3, <4>4, OneBlock
            <4>6. Publish(d)
                BY <3>1, <3>2, <4>2, <4>4 DEF Completion
            <4>7. \A x \in ToSet(d) : FromWorker(x)
                BY <4>3, <4>5
            <4>8. QED
                BY <2>2, <4>5, <4>6, <4>7, JoinedByPublish
        <3>3. CASE ~(m \in waiting /\ result = "ok")
            <4>1. Publish(e)
                BY <1>2, <3>1, <3>3 DEF Completion
            <4>2. QED
                BY <1>3, <2>2, <4>1, JoinedByPublish
        <3>4. QED
            BY <3>2, <3>3
    <2>4. ASSUME NEW new \in SUBSET (Server \ cache), ApplyRemoteEvent(new)
          PROVE  \E b : Joined(b) /\ \A x \in ToSet(b) : FromWorker(x)
        <3>1. Publish(e)
            BY <1>2, <2>4 DEF ApplyRemoteEvent
        <3>2. QED
            BY <1>3, <2>2, <3>1, JoinedByPublish
    <2>5. ASSUME GoOffline
          PROVE  \E b : Joined(b) /\ \A x \in ToSet(b) : FromWorker(x)
        <3>1. Publish(e)
            BY <1>2, <2>5 DEF GoOffline
        <3>2. QED
            BY <1>3, <2>2, <3>1, JoinedByPublish
    <2>6. ASSUME NEW m \in Message, Commit(m) \/ ForeignWrite(m)
          PROVE  UNCHANGED main
        BY <2>6 DEF Commit, ForeignWrite
    <2>7. HandleRejectedListen => UNCHANGED main
        BY DEF HandleRejectedListen
    <2>8. QED
        BY <1>4, <1>7, <2>3, <2>4, <2>5, <2>6, <2>7 DEF Streams
<1>8. QED
    BY <1>5, <1>6, <1>7

LEMMA SignInMain ==
    ASSUME TypeInv, NEW i \in 1..MaxRequests, NEW ok \in BOOLEAN, SignInAnswered(i, ok)
    PROVE  \/ UNCHANGED <<main, account>>
           \/ \E e \in Email, f \in Form, x, y \in Block :
                 /\ x.kind = "auth" /\ x.user = e
                 /\ y.kind = "signedIn" /\ y.form = f
                 /\ Joined(<<x, y>>)
                 /\ account' = e
<1>1. /\ requests \in Seq([email : Email, form : Form]) /\ main \in Seq(Block)
      /\ i \in 1..Len(requests)
    BY DEF TypeInv, TypeOK, SignInAnswered
<1>2. PICK e, f : e = requests[i].email /\ f = requests[i].form
    OBVIOUS
<1>3. e \in Email /\ f \in Form
    <2>1. requests[i] \in [email : Email, form : Form]
        BY <1>1, ElementOfSeq
    <2>2. QED
        BY <1>2, <2>1
<1>4. CASE ok
    <2>1. PICK x, y \in Block : /\ x.kind = "auth" /\ x.user = e
                                /\ y.kind = "signedIn" /\ y.form = f
                                /\ SignedIn(e, f) = <<x, y>>
                                /\ SignedIn(e, f) \in Seq(Block)
        BY <1>3, SignedInFacts
    <2>2. account' = e /\ main' = main \o SignedIn(e, f)
        BY <1>2, <1>4 DEF SignInAnswered
    <2>3. Joined(<<x, y>>)
        BY <1>1, <2>1, <2>2, JoinedBy
    <2>4. QED
        BY <1>3, <2>1, <2>2, <2>3
<1>5. CASE ~ok
    BY <1>5 DEF SignInAnswered
<1>6. QED
    BY <1>4, <1>5

LEMMA LogOutMain ==
    ASSUME TypeInv, NEW s \in Screen, LogOutPressed(s)
    PROVE  \E b : Joined(b) /\ \A x \in ToSet(b) : x.kind = "auth" /\ x.user = NoUser
<1>1. main \in Seq(Block)
    BY DEF TypeInv, TypeOK
<1>2. CASE account = NoUser
    BY <1>1, <1>2, JoinedNone DEF LogOutPressed
<1>3. CASE account # NoUser
    <2>1. PICK x : x = [kind |-> "auth", user |-> NoUser]
        OBVIOUS
    <2>2. x \in Block /\ x.kind = "auth" /\ x.user = NoUser
        BY <2>1, Blocks DEF User
    <2>3. PICK b : b = <<x>>
        OBVIOUS
    <2>4. b \in Seq(Block) /\ ToSet(b) = {x}
        BY <2>2, <2>3, OneBlock
    <2>5. main' = main \o b
        BY <1>1, <1>3, <2>1, <2>2, <2>3, AppendIsConcat DEF LogOutPressed
    <2>6. QED
        BY <1>1, <2>2, <2>4, <2>5, JoinedBy
<1>4. QED
    BY <1>2, <1>3

\* The first block has run, and sent those of c.
Ran(c) ==
    /\ main \in Seq(Block) /\ Len(main) \in Nat \ {0}
    /\ main[1] \in Block /\ main[1] \in ToSet(main)
    /\ c \in Seq(Block) /\ main' \in Seq(Block)
    /\ IsShift(main', main, c)
    /\ ToSet(main') \subseteq ToSet(main) \cup ToSet(c)
    /\ ToSet(main) \subseteq ToSet(main') \cup {main[1]}
    /\ ToSet(c) \subseteq ToSet(main')

\* The cases of RunBlock.
RanAuth ==
    /\ main[1].kind = "auth"
    /\ tasks' = Append(tasks, [kind |-> "user", user |-> main[1].user])
    /\ UNCHANGED <<stack, messages, rows, field, crashed, sentFrom>>

RanSignedIn ==
    /\ main[1].kind = "signedIn"
    /\ UNCHANGED crashed
    /\ \/ /\ ~OnStack(main[1].form)
          /\ UNCHANGED <<stack, messages, rows, field, tasks, sentFrom>>
       \/ /\ OnStack(main[1].form)
          /\ \E s \in Screen :
                /\ Free(s)
                /\ stack' = Append(stack, s)
                /\ messages' = [messages EXCEPT ![s] = <<>>]
                /\ rows' = [rows EXCEPT ![s] = 0]
                /\ field' = [field EXCEPT ![s] = FALSE]
                /\ tasks' = Append(tasks, [kind |-> "listen", screen |-> s])
                /\ sentFrom' = [m \in Message |->
                                  IF sentFrom[m] = s THEN NoScreen ELSE sentFrom[m]]

RanSnapshot(c) ==
    /\ main[1].kind = "snapshot"
    /\ c = <<[kind |-> "reload", screen |-> main[1].screen]>>
    /\ messages' = [messages EXCEPT ![main[1].screen] = Listed(main[1].docs)]
    /\ UNCHANGED <<stack, rows, field, crashed, tasks, sentFrom>>

RanReload ==
    /\ main[1].kind = "reload"
    /\ rows' = [rows EXCEPT ![main[1].screen] = Len(messages[main[1].screen])]
    /\ crashed' = (messages[main[1].screen] = <<>>)
    /\ UNCHANGED <<stack, messages, field, tasks, sentFrom>>

RanSaved(c) ==
    /\ main[1].kind = "saved"
    /\ c = <<[kind |-> "clear", screen |-> main[1].screen]>>
    /\ UNCHANGED <<stack, messages, rows, field, crashed, tasks, sentFrom>>

RanClear ==
    /\ main[1].kind = "clear"
    /\ field' = [field EXCEPT ![main[1].screen] = FALSE]
    /\ UNCHANGED <<stack, messages, rows, crashed, tasks, sentFrom>>

LEMMA RunBlockFacts ==
    ASSUME TypeInv, RunBlock
    PROVE  /\ UNCHANGED <<account, requests, fsUser, listeners, raised, cache, synced, offline, retracted,
                          submitted, settled, committed, waiting, outcome, foreign, author, early>>
           /\ \E c : /\ Ran(c)
                     /\ \/ c = <<>> /\ RanAuth
                        \/ c = <<>> /\ RanSignedIn
                        \/ RanSnapshot(c)
                        \/ c = <<>> /\ RanReload
                        \/ RanSaved(c)
                        \/ c = <<>> /\ RanClear
<1>1. main \in Seq(Block) /\ main # <<>> /\ Len(main) \in Nat \ {0}
    BY EmptySeq DEF TypeInv, TypeOK, RunBlock
<1>2. PICK x : x = main[1]
    OBVIOUS
<1>3. x = Head(main) /\ x \in Block /\ x \in ToSet(main)
    BY <1>1, <1>2, EmptyBlocks, Shifted, ShiftedSet
<1>4. ASSUME NEW c \in Seq(Block), Sends(c) PROVE Ran(c)
    BY <1>1, <1>2, <1>3, <1>4, SendsFacts DEF Ran
<1>5. UNCHANGED <<account, requests, fsUser, listeners, raised, cache, synced, offline, retracted,
                  submitted, settled, committed, waiting, outcome, foreign, author, early>>
    BY DEF RunBlock, auth, view, writes
<1>6. \/ x.kind = "auth" /\ PostAuthStateChange(x.user)
      \/ x.kind = "signedIn" /\ PerformSegue(x.form)
      \/ x.kind = "snapshot" /\ OnSnapshot(x.screen, x.docs)
      \/ x.kind = "reload" /\ ReloadAndScroll(x.screen)
      \/ x.kind = "saved" /\ MessageSaved(x.screen)
      \/ x.kind = "clear" /\ ClearField(x.screen)
    BY <1>3 DEF RunBlock
<1>7. PICK e \in Seq(Block) : e = <<>>
    BY EmptySeq
<1>8. CASE x.kind = "auth" /\ PostAuthStateChange(x.user)
    <2>1. Ran(e) /\ RanAuth
        BY <1>2, <1>4, <1>7, <1>8 DEF PostAuthStateChange, RanAuth, ui
    <2>2. QED
        BY <1>5, <1>7, <2>1
<1>9. CASE x.kind = "signedIn" /\ PerformSegue(x.form)
    <2>1. Ran(e)
        BY <1>4, <1>7, <1>9 DEF PerformSegue
    <2>2. RanSignedIn
        BY <1>2, <1>9 DEF PerformSegue, RanSignedIn
    <2>3. QED
        BY <1>5, <1>7, <2>1, <2>2
<1>10. CASE x.kind = "snapshot" /\ OnSnapshot(x.screen, x.docs)
    <2>1. PICK r : r = [kind |-> "reload", screen |-> x.screen]
        OBVIOUS
    <2>2. r \in Block
        BY <1>3, <1>10, <2>1, BlockFields, Blocks
    <2>3. PICK c : c = <<r>>
        OBVIOUS
    <2>4. c \in Seq(Block)
        BY <2>2, <2>3
    <2>5. Ran(c) /\ RanSnapshot(c)
        BY <1>2, <1>4, <1>10, <2>1, <2>3, <2>4 DEF OnSnapshot, RanSnapshot
    <2>6. QED
        BY <1>5, <2>5
<1>11. CASE x.kind = "reload" /\ ReloadAndScroll(x.screen)
    <2>1. Ran(e) /\ RanReload
        BY <1>2, <1>4, <1>7, <1>11 DEF ReloadAndScroll, RanReload
    <2>2. QED
        BY <1>5, <1>7, <2>1
<1>12. CASE x.kind = "saved" /\ MessageSaved(x.screen)
    <2>1. PICK r : r = [kind |-> "clear", screen |-> x.screen]
        OBVIOUS
    <2>2. r \in Block
        BY <1>3, <1>12, <2>1, BlockFields, Blocks
    <2>3. PICK c : c = <<r>>
        OBVIOUS
    <2>4. c \in Seq(Block)
        BY <2>2, <2>3
    <2>5. Ran(c) /\ RanSaved(c)
        BY <1>2, <1>4, <1>12, <2>1, <2>3, <2>4 DEF MessageSaved, RanSaved, ui
    <2>6. QED
        BY <1>5, <2>5
<1>13. CASE x.kind = "clear" /\ ClearField(x.screen)
    <2>1. Ran(e) /\ RanClear
        BY <1>2, <1>4, <1>7, <1>13 DEF ClearField, RanClear
    <2>2. QED
        BY <1>5, <1>7, <2>1
<1>14. QED
    BY <1>6, <1>8, <1>9, <1>10, <1>11, <1>12, <1>13

\* The kinds of steps.
LEMMA Steps ==
    ASSUME [Next]_vars
    PROVE  \/ RunTask \/ QuietTap \/ Streams
           \/ \E i \in 1..MaxRequests, ok \in BOOLEAN : SignInAnswered(i, ok)
           \/ \E s \in Screen : LogOutPressed(s)
           \/ RunBlock
           \/ Relaunch
           \/ UNCHANGED vars
BY DEF Next, Tap, World, QuietTap, Streams

(***************************************************************************)
(* The table view and the list.                                            *)
(***************************************************************************)

Reloading(s) == \E b \in ToSet(main) : b.kind = "reload" /\ b.screen = s

RowsInv == \A s \in Screen : rows[s] = Len(messages[s]) \/ Reloading(s)

LEMMA QueuedBlocks ==
    ASSUME main \in Seq(Block), NEW k, NEW s
    PROVE  Queued(k, s) # {} <=> \E b \in ToSet(main) : b.kind = k /\ b.screen = s
BY DEF Queued, ToSet

LEMMA RowsInvStep == TypeInv /\ RowsInv /\ [Next]_vars => RowsInv'
<1> SUFFICES ASSUME TypeInv, RowsInv, [Next]_vars PROVE RowsInv'
    OBVIOUS
<1>1. ASSUME UNCHANGED <<messages, rows>>, ToSet(main) \subseteq ToSet(main')
      PROVE  RowsInv'
    BY <1>1 DEF RowsInv, Reloading
<1>2. CASE RunTask \/ QuietTap \/ Streams
    <2>1. UNCHANGED <<messages, rows>>
        BY <1>2 DEF RunTask, QuietTap, Streams, OpenForm, Back, LoginPressed, Type, SendPressed,
              CellForRow, Commit, Settle, ForeignWrite, ApplyRemoteEvent, HandleRejectedListen,
              GoOffline, ui
    <2>2. ToSet(main) \subseteq ToSet(main')
        BY <1>2, QuietMain DEF Joined
    <2>3. QED
        BY <1>1, <2>1, <2>2
<1>3. CASE \E i \in 1..MaxRequests, ok \in BOOLEAN : SignInAnswered(i, ok)
    <2>1. UNCHANGED <<messages, rows>>
        BY <1>3 DEF SignInAnswered, ui
    <2>2. ToSet(main) \subseteq ToSet(main')
        BY <1>3, SignInMain DEF Joined
    <2>3. QED
        BY <1>1, <2>1, <2>2
<1>4. CASE \E s \in Screen : LogOutPressed(s)
    <2>1. UNCHANGED <<messages, rows>>
        BY <1>4 DEF LogOutPressed
    <2>2. ToSet(main) \subseteq ToSet(main')
        BY <1>4, LogOutMain DEF Joined
    <2>3. QED
        BY <1>1, <2>1, <2>2
<1>5. CASE RunBlock
    <2>1. PICK c : /\ Ran(c)
                   /\ \/ c = <<>> /\ RanAuth
                      \/ c = <<>> /\ RanSignedIn
                      \/ RanSnapshot(c)
                      \/ c = <<>> /\ RanReload
                      \/ RanSaved(c)
                      \/ c = <<>> /\ RanClear
        BY <1>5, RunBlockFacts
    <2>2. \A s : Reloading(s) /\ ~(main[1].kind = "reload" /\ main[1].screen = s) => Reloading(s)'
        BY <2>1 DEF Ran, Reloading
    <2>3. CASE RanAuth \/ RanSaved(c) \/ RanClear
        BY <2>2, <2>3 DEF RowsInv, RanAuth, RanSaved, RanClear
    <2>4. CASE RanSignedIn
        <3>1. CASE UNCHANGED <<messages, rows>>
            BY <2>2, <2>4, <3>1 DEF RowsInv, RanSignedIn
        <3>2. ASSUME NEW s \in Screen, messages' = [messages EXCEPT ![s] = <<>>],
                     rows' = [rows EXCEPT ![s] = 0]
              PROVE  RowsInv'
            <4>1. rows'[s] = Len(messages'[s])
                BY <3>2 DEF TypeInv, TypeOK
            <4>2. \A t \in Screen \ {s} : rows'[t] = rows[t] /\ messages'[t] = messages[t]
                BY <3>2 DEF TypeInv, TypeOK
            <4>3. QED
                BY <2>2, <2>4, <4>1, <4>2 DEF RowsInv, RanSignedIn
        <3>3. QED
            BY <2>4, <3>1, <3>2 DEF RanSignedIn
    <2>5. CASE RanSnapshot(c)
        <3>1. PICK r, t : r = [kind |-> "reload", screen |-> t] /\ t = main[1].screen
            OBVIOUS
        <3>2. r.kind = "reload" /\ r.screen = t /\ ToSet(c) = {r}
            BY <2>5, <3>1, SmallSets DEF RanSnapshot
        <3>3. Reloading(t)'
            BY <2>1, <3>2 DEF Ran, Reloading
        <3>4. \A s \in Screen \ {t} : messages'[s] = messages[s] /\ rows' = rows
            BY <2>5, <3>1 DEF RanSnapshot, TypeInv, TypeOK
        <3>5. QED
            BY <2>2, <2>5, <3>3, <3>4 DEF RowsInv, RanSnapshot
    <2>6. CASE RanReload
        <3>1. PICK t : t = main[1].screen
            OBVIOUS
        <3>2. t \in Screen
            BY <2>1, <2>6, <3>1, BlockFields DEF Ran, RanReload
        <3>3. messages' = messages /\ rows'[t] = Len(messages[t])
              /\ \A s \in Screen \ {t} : rows'[s] = rows[s]
            BY <2>6, <3>1, <3>2 DEF RanReload, TypeInv, TypeOK
        <3>4. QED
            BY <2>2, <2>6, <3>1, <3>3 DEF RowsInv, RanReload
    <2>7. QED
        BY <2>1, <2>3, <2>4, <2>5, <2>6
<1>6. CASE Relaunch
    BY <1>6 DEF Relaunch, RowsInv
<1>7. CASE UNCHANGED vars
    BY <1>1, <1>7 DEF vars, ui
<1>8. QED
    BY <1>2, <1>3, <1>4, <1>5, <1>6, <1>7, Steps

\* Outside the window between a snapshot's block and its reload, the table
\* view and the list have the same rows: for every number of screens, and also
\* when a screen object is used again.
THEOREM TableAgrees == Spec => []RowsMatchList
<1>1. Init => RowsInv
    BY DEF Init, RowsInv
<1>2. TypeInv /\ RowsInv => RowsMatchList
    <2>1. TypeInv => main \in Seq(Block)
        BY DEF TypeInv, TypeOK
    <2>2. QED
        BY <2>1, QueuedBlocks DEF RowsInv, RowsMatchList, Reloading
<1>3. QED
    BY <1>1, <1>2, RowsInvStep, TypeInvariant, PTL DEF Spec

(***************************************************************************)
(* Nobody sees a chat without being signed in.                             *)
(***************************************************************************)

\* A form may be at the bottom of the stack, and chats above it.
StackShape ==
    /\ stack # <<>> => stack[1] \in Form
    /\ \A i \in 2..Len(stack) : stack[i] \in Screen

PushMeansSignedIn ==
    \A b \in ToSet(main) : b.kind = "signedIn" /\ OnStack(b.form) => account # NoUser

NavInv == StackShape /\ PushMeansSignedIn /\ ChatMeansSignedIn

LEMMA NavInvSame ==
    ASSUME NavInv, UNCHANGED <<stack, account>>,
           \A b \in ToSet(main') : b.kind = "signedIn" => b \in ToSet(main)
    PROVE  NavInv'
<1>1. StackShape' /\ ChatMeansSignedIn'
    BY DEF NavInv, StackShape, ChatMeansSignedIn, Top
<1>2. PushMeansSignedIn'
    BY DEF NavInv, PushMeansSignedIn, OnStack
<1>3. QED
    BY <1>1, <1>2 DEF NavInv

LEMMA NavInvEmpty ==
    ASSUME stack' = <<>>
    PROVE  NavInv'
<1>1. Len(stack') = 0 /\ 2..Len(stack') = {}
    OBVIOUS
<1>2. NoScreen \notin Screen
    BY FlashChatAssumption
<1>3. StackShape'
    BY <1>1 DEF StackShape
<1>4. ChatMeansSignedIn'
    BY <1>2 DEF ChatMeansSignedIn, Top
<1>5. PushMeansSignedIn'
    BY <1>1 DEF PushMeansSignedIn, OnStack, Contains
<1>6. QED
    BY <1>3, <1>4, <1>5 DEF NavInv

\* Going back from a form leaves nothing above the welcome screen.
LEMMA BackEmpties ==
    ASSUME TypeInv, StackShape, Back
    PROVE  stack' = <<>>
<1>1. stack \in Seq(Form \cup Screen)
    BY DEF TypeInv, TypeOK
<1>2. /\ Top \in Form /\ Top = stack[Len(stack)] /\ Len(stack) \in Nat \ {0}
      /\ Top \notin Screen
    BY <1>1, TopFacts DEF Back
<1>3. Len(stack) = 1
    <2>1. SUFFICES ASSUME Len(stack) # 1 PROVE FALSE
        OBVIOUS
    <2>2. Len(stack) \in 2..Len(stack)
        <3>1. PICK n \in Nat \ {0} : n = Len(stack)
            BY <1>2
        <3>2. n \in 2..n
            BY <2>1, <3>1
        <3>3. QED
            BY <3>1, <3>2
    <2>3. stack[Len(stack)] \in Screen
        BY <2>2 DEF StackShape
    <2>4. QED
        BY <1>2, <2>3
<1>4. PICK r : r = SubSeq(stack, 1, 0)
    OBVIOUS
<1>5. r \in Seq(Form \cup Screen) /\ Len(r) = 0
    BY <1>1, <1>4, SubSeqProperties
<1>6. stack' = r
    BY <1>3, <1>4 DEF Back, Front
<1>7. QED
    BY <1>5, <1>6, EmptySeq

\* A pushed chat.
LEMMA Pushed ==
    ASSUME stack \in Seq(Form \cup Screen), NEW s \in Screen, stack' = Append(stack, s),
           stack # <<>>
    PROVE  /\ Top' = s
           /\ Len(stack) \in Nat \ {0}
           /\ Len(stack') = Len(stack) + 1
           /\ stack'[Len(stack) + 1] = s
           /\ \A i \in 1..Len(stack) : stack'[i] = stack[i]
           /\ \A f : OnStack(f)' <=> OnStack(f) \/ f = s
<1>1. PICK r : r = Append(stack, s)
    OBVIOUS
<1>2. /\ r \in Seq(Form \cup Screen) /\ Len(r) = Len(stack) + 1
      /\ \A i \in 1..Len(stack) : r[i] = stack[i]
      /\ r[Len(stack) + 1] = s
    BY <1>1, AppendProperties
<1>3. Len(stack) \in Nat \ {0} /\ r # <<>>
    BY <1>1, <1>2, EmptySeq
<1>4. Top' = s
    BY <1>1, <1>2, <1>3 DEF Top, Last
<1>5. \A f : (\E i \in 1..Len(r) : r[i] = f) <=> (\E i \in 1..Len(stack) : stack[i] = f) \/ f = s
    BY <1>2, <1>3
<1>6. \A f : OnStack(f)' <=> OnStack(f) \/ f = s
    BY <1>1, <1>5 DEF OnStack, Contains
<1>7. QED
    BY <1>1, <1>2, <1>3, <1>4, <1>6

LEMMA NavInvStep == TypeInv /\ NavInv /\ [Next]_vars => NavInv'
<1> SUFFICES ASSUME TypeInv, NavInv, [Next]_vars PROVE NavInv'
    OBVIOUS
<1>1. CASE RunTask \/ QuietTap \/ Streams
    <2>1. \A b \in ToSet(main') : b.kind = "signedIn" => b \in ToSet(main)
        BY <1>1, QuietMain DEF Joined, FromWorker
    <2>2. CASE UNCHANGED <<stack, account>>
        BY <2>1, <2>2, NavInvSame
    <2>3. CASE RunTask \/ Streams
        <3>1. UNCHANGED <<stack, account>>
            BY <2>3 DEF RunTask, Streams, Commit, Settle, ForeignWrite, ApplyRemoteEvent,
                  HandleRejectedListen, GoOffline, ui, auth
        <3>2. QED
            BY <2>2, <3>1
    <2>4. CASE \E f \in Form : OpenForm(f)
        <3>1. PICK f \in Form : OpenForm(f)
            BY <2>4
        <3>2. /\ stack' = <<f>> /\ f \notin Screen
              /\ \A b \in ToSet(main') : b.kind = "signedIn" => b.form # f
            BY <2>1, <3>1, FlashChatAssumption DEF OpenForm
        <3>3. Len(stack') = 1 /\ stack'[1] = f /\ Top' = f
            BY <3>2 DEF Top, Last
        <3>4. \A g : OnStack(g)' <=> g = f
            BY <3>3 DEF OnStack, Contains
        <3>5. QED
            BY <3>2, <3>3, <3>4 DEF NavInv, StackShape, PushMeansSignedIn, ChatMeansSignedIn
    <2>5. CASE Back
        BY <2>5, BackEmpties, NavInvEmpty DEF NavInv
    <2>6. ASSUME NEW e \in Email, LoginPressed(e) PROVE UNCHANGED <<stack, account>>
        BY <2>6 DEF LoginPressed, ui
    <2>7. ASSUME NEW s \in Screen, NEW m \in Message, Type(s) \/ SendPressed(s, m) \/ CellForRow(s)
          PROVE  UNCHANGED <<stack, account>>
        BY <2>7 DEF Type, SendPressed, CellForRow, ui, auth
    <2>8. ASSUME NEW s \in Screen, Type(s) \/ CellForRow(s)
          PROVE  UNCHANGED <<stack, account>>
        BY <2>8 DEF Type, CellForRow, auth
    <2>9. QED
        BY <1>1, <2>2, <2>3, <2>4, <2>5, <2>6, <2>7, <2>8 DEF QuietTap
<1>2. CASE \E i \in 1..MaxRequests, ok \in BOOLEAN : SignInAnswered(i, ok)
    <2>1. UNCHANGED stack
        BY <1>2 DEF SignInAnswered, ui
    <2>2. CASE UNCHANGED <<main, account>>
        BY <2>1, <2>2, NavInvSame
    <2>3. CASE account' \in Email
        <3>1. account' # NoUser
            BY <2>3, FlashChatAssumption
        <3>2. QED
            BY <2>1, <3>1 DEF NavInv, StackShape, PushMeansSignedIn, ChatMeansSignedIn, Top
    <2>4. QED
        BY <1>2, <2>2, <2>3, SignInMain
<1>3. CASE \E s \in Screen : LogOutPressed(s)
    BY <1>3, NavInvEmpty DEF LogOutPressed, PopToRoot
<1>4. CASE RunBlock
    <2>1. UNCHANGED account
        BY <1>4, RunBlockFacts
    <2>2. PICK c : /\ Ran(c)
                   /\ \/ c = <<>> /\ RanAuth
                      \/ c = <<>> /\ RanSignedIn
                      \/ RanSnapshot(c)
                      \/ c = <<>> /\ RanReload
                      \/ RanSaved(c)
                      \/ c = <<>> /\ RanClear
        BY <1>4, RunBlockFacts
    <2>3. \A b \in ToSet(main') : b.kind = "signedIn" => b \in ToSet(main)
        <3>1. \A b \in ToSet(c) : b.kind # "signedIn"
            BY <2>2, SmallSets DEF RanSnapshot, RanSaved
        <3>2. QED
            BY <2>2, <3>1 DEF Ran
    <2>4. CASE UNCHANGED stack
        BY <2>1, <2>3, <2>4, NavInvSame
    <2>5. ASSUME NEW s \in Screen, main[1].kind = "signedIn", OnStack(main[1].form),
                 stack' = Append(stack, s)
          PROVE  NavInv'
        <3>1. stack \in Seq(Form \cup Screen) /\ stack # <<>>
            BY <2>5 DEF TypeInv, TypeOK, OnStack, Contains
        <3>2. account # NoUser
            BY <2>2, <2>5 DEF NavInv, PushMeansSignedIn, Ran
        <3>3. StackShape'
            BY <2>5, <3>1, Pushed, EmptySeq DEF NavInv, StackShape
        <3>4. QED
            BY <2>1, <3>2, <3>3 DEF NavInv, PushMeansSignedIn, ChatMeansSignedIn
    <2>6. QED
        BY <2>2, <2>4, <2>5 DEF RanAuth, RanSignedIn, RanSnapshot, RanReload, RanSaved, RanClear
<1>5. CASE Relaunch
    BY <1>5, NavInvEmpty DEF Relaunch
<1>6. CASE UNCHANGED vars
    BY <1>6, NavInvSame DEF vars, auth, ui
<1>7. QED
    BY <1>1, <1>2, <1>3, <1>4, <1>5, <1>6, Steps

LEMMA NavInvariant == Spec => [](TypeInv /\ NavInv)
<1>1. Init => NavInv
    <2> SUFFICES ASSUME Init PROVE NavInv
        OBVIOUS
    <2>1. stack = <<>> /\ main = <<>> /\ NoScreen \notin Screen
        BY FlashChatAssumption DEF Init
    <2>2. QED
        BY <2>1, SmallSets DEF NavInv, StackShape, PushMeansSignedIn, ChatMeansSignedIn, Top
<1>2. QED
    BY <1>1, TypeInvariant, NavInvStep, PTL DEF Spec

\* No late answer pushes a chat after a logging out, and none is left behind by
\* it, however many requests are underway.
THEOREM ChatsAreSignedIn == Spec => []ChatMeansSignedIn
<1>1. NavInv => ChatMeansSignedIn
    BY DEF NavInv
<1>2. QED
    BY <1>1, NavInvariant, PTL

(***************************************************************************)
(* The visible chat listens.                                               *)
(***************************************************************************)

\* No entry of a queue after the n-th is in Out.
Clean(q, Out, n) == \A k \in 1..Len(q) : k > n => q[k] \notin Out

\* An entry before the n-th is in In, and none after it is in Out.
Sure(q, In, Out, n) == \E i \in 1..Len(q) : i < n /\ q[i] \in In /\ Clean(q, Out, i)

LEMMA ExtendedClean ==
    ASSUME NEW q, NEW r, NEW b, IsExtension(r, q, b), NEW In, NEW Out,
           \A i \in 1..Len(b) : b[i] \notin Out
    PROVE  /\ \A n \in Nat : Clean(q, Out, n) => Clean(r, Out, n)
           /\ \A n \in Nat : Sure(q, In, Out, n) => Sure(r, In, Out, n)
           /\ \A n \in Nat : n > Len(q) + 1 /\ Len(b) > 0 /\ b[1] \in In => Sure(r, In, Out, n)
<1>1. /\ Len(q) \in Nat /\ Len(b) \in Nat /\ Len(r) = Len(q) + Len(b)
      /\ \A i \in 1..Len(q) : r[i] = q[i]
      /\ \A i \in 1..Len(b) : r[Len(q) + i] = b[i]
    BY DEF IsExtension
<1>2. \A k \in 1..Len(r) : k > Len(q) => r[k] \notin Out
    <2>1. ASSUME NEW k \in 1..Len(r), k > Len(q) PROVE r[k] \notin Out
        <3>1. k - Len(q) \in 1..Len(b) /\ Len(q) + (k - Len(q)) = k
            BY <1>1, <2>1
        <3>2. r[k] = b[k - Len(q)]
            BY <1>1, <3>1
        <3>3. QED
            BY <3>1, <3>2
    <2>2. QED
        BY <2>1
<1>3. ASSUME NEW n \in Nat, Clean(q, Out, n) PROVE Clean(r, Out, n)
    <2>1. \A k \in 1..Len(r) : k <= Len(q) /\ k > n => r[k] \notin Out
        BY <1>1, <1>3 DEF Clean
    <2>2. QED
        BY <1>1, <1>2, <2>1 DEF Clean
<1>4. ASSUME NEW n \in Nat, Sure(q, In, Out, n) PROVE Sure(r, In, Out, n)
    <2>1. PICK i \in 1..Len(q) : i < n /\ q[i] \in In /\ Clean(q, Out, i)
        BY <1>4 DEF Sure
    <2>2. i \in 1..Len(r) /\ r[i] = q[i] /\ Clean(r, Out, i)
        BY <1>1, <1>3, <2>1
    <2>3. QED
        BY <2>1, <2>2 DEF Sure
<1>5. ASSUME NEW n \in Nat, n > Len(q) + 1, Len(b) > 0, b[1] \in In
      PROVE  Sure(r, In, Out, n)
    <2>1. 1 \in 1..Len(b) /\ Len(q) + 1 \in 1..Len(r)
        BY <1>1, <1>5
    <2>2. r[Len(q) + 1] \in In
        BY <1>1, <1>5, <2>1
    <2>3. Clean(r, Out, Len(q) + 1)
        BY <1>1, <1>2 DEF Clean
    <2>4. QED
        BY <1>5, <2>1, <2>2, <2>3 DEF Sure
<1>6. QED
    BY <1>3, <1>4, <1>5

LEMMA ShiftedClean ==
    ASSUME NEW q, NEW r, NEW b, IsShift(r, q, b), NEW In, NEW Out,
           \A i \in 1..Len(b) : b[i] \notin Out
    PROVE  /\ Clean(q, Out, 0) => Clean(r, Out, 0) /\ q[1] \notin Out
           /\ \A n \in Nat : Clean(q, Out, n + 1) => Clean(r, Out, n)
           /\ \A n \in Nat : Sure(q, In, Out, n + 1) =>
                 Sure(r, In, Out, n) \/ (q[1] \in In /\ Clean(r, Out, 0))
<1>1. /\ Len(q) \in Nat \ {0} /\ Len(b) \in Nat /\ Len(r) = Len(q) - 1 + Len(b)
      /\ \A i \in 1..(Len(q) - 1) : r[i] = q[i + 1]
      /\ \A i \in 1..Len(b) : r[Len(q) - 1 + i] = b[i]
    BY DEF IsShift
<1>2. \A k \in 1..Len(r) : k > Len(q) - 1 => r[k] \notin Out
    <2>1. ASSUME NEW k \in 1..Len(r), k > Len(q) - 1 PROVE r[k] \notin Out
        <3>1. k - (Len(q) - 1) \in 1..Len(b) /\ Len(q) - 1 + (k - (Len(q) - 1)) = k
            BY <1>1, <2>1
        <3>2. r[k] = b[k - (Len(q) - 1)]
            BY <1>1, <3>1
        <3>3. QED
            BY <3>1, <3>2
    <2>2. QED
        BY <2>1
<1>3. ASSUME NEW n \in Nat, Clean(q, Out, n + 1) PROVE Clean(r, Out, n)
    <2>1. ASSUME NEW k \in 1..Len(r), k <= Len(q) - 1, k > n PROVE r[k] \notin Out
        <3>1. k \in 1..(Len(q) - 1) /\ k + 1 \in 1..Len(q) /\ k + 1 > n + 1
            BY <1>1, <2>1
        <3>2. QED
            BY <1>1, <1>3, <3>1 DEF Clean
    <2>2. QED
        BY <1>1, <1>2, <2>1 DEF Clean
<1>4. Clean(q, Out, 0) => Clean(r, Out, 0) /\ q[1] \notin Out
    <2>1. Clean(q, Out, 0) => Clean(q, Out, 0 + 1) /\ q[1] \notin Out
        BY <1>1 DEF Clean
    <2>2. QED
        BY <1>3, <2>1
<1>5. ASSUME NEW n \in Nat, Sure(q, In, Out, n + 1)
      PROVE  Sure(r, In, Out, n) \/ (q[1] \in In /\ Clean(r, Out, 0))
    <2>1. PICK i \in 1..Len(q) : i < n + 1 /\ q[i] \in In /\ Clean(q, Out, i)
        BY <1>5 DEF Sure
    <2>2. CASE i = 1
        <3>1. Clean(q, Out, 0 + 1)
            BY <2>1, <2>2
        <3>2. QED
            BY <1>3, <2>1, <2>2, <3>1
    <2>3. CASE i # 1
        <3>1. PICK j \in Nat : i = j + 1
            <4>1. i - 1 \in Nat /\ i = (i - 1) + 1
                BY <1>1
            <4>2. QED
                BY <4>1
        <3>2. j \in 1..(Len(q) - 1) /\ j \in 1..Len(r) /\ j < n
            BY <1>1, <2>1, <2>3, <3>1
        <3>3. r[j] \in In /\ Clean(r, Out, j)
            BY <1>1, <1>3, <2>1, <3>1, <3>2
        <3>4. QED
            BY <3>2, <3>3 DEF Sure
    <2>4. QED
        BY <2>2, <2>3
<1>6. QED
    BY <1>3, <1>4, <1>5

\* The entries of the two queues that sign the worker queue's user in or out.
SwapsIn == {t \in Task : t.kind = "user" /\ t.user # NoUser}
SwapsOut == {t \in Task : t.kind = "user" /\ t.user = NoUser}
PostsIn == {b \in Block : b.kind = "auth" /\ b.user # NoUser}
PostsOut == {b \in Block : b.kind = "auth" /\ b.user = NoUser}

\* Somebody is signed in on the worker queue when it reaches its n-th task,
\* and the tasks queued so far do not change that.
InForce(n) ==
    \/ fsUser # NoUser /\ Clean(tasks, SwapsOut, 0)
    \/ Sure(tasks, SwapsIn, SwapsOut, n)

\* From now on, from the j-th task on, from the p-th block on, somebody is
\* signed in, as far as the queues tell.
SteadyNow == fsUser # NoUser /\ Clean(tasks, SwapsOut, 0) /\ Clean(main, PostsOut, 0)

SteadyTask(j) == InForce(j) /\ Clean(main, PostsOut, 0)

SteadyBlock(p) ==
    \/ Sure(main, PostsIn, PostsOut, p)
    \/ InForce(Len(tasks) + 1) /\ Clean(main, PostsOut, 0)

TopListens ==
    Top \in Screen =>
        \/ Contains(listeners, Top) /\ SteadyNow
        \/ \E j \in 1..Len(tasks) :
              tasks[j] = [kind |-> "listen", screen |-> Top] /\ SteadyTask(j)

PushListens ==
    \A p \in 1..Len(main) :
        main[p].kind = "signedIn" /\ OnStack(main[p].form) => SteadyBlock(p)

ListenInv == TopListens /\ PushListens

\* The entries of a sequence, by their positions.
LEMMA Entries ==
    ASSUME NEW T, NEW q \in Seq(T)
    PROVE  /\ Len(q) \in Nat
           /\ \A i \in 1..Len(q) : q[i] \in T /\ q[i] \in ToSet(q)
           /\ \A x \in ToSet(q) : \E i \in 1..Len(q) : q[i] = x
<1>1. DOMAIN q = 1..Len(q) /\ \A i \in 1..Len(q) : q[i] \in T
    BY ElementOfSeq
<1>2. QED
    BY <1>1 DEF ToSet

LEMMA SureLater ==
    ASSUME NEW q, NEW In, NEW Out, NEW n \in Nat, NEW m \in Nat, n <= m, Sure(q, In, Out, n)
    PROVE  Sure(q, In, Out, m)
BY DEF Sure

LEMMA FromWorkerKinds ==
    ASSUME NEW b \in Seq(Block), \A x \in ToSet(b) : FromWorker(x)
    PROVE  \A i \in 1..Len(b) : /\ b[i] \notin PostsOut
                                /\ b[i].kind # "signedIn"
BY Entries DEF FromWorker, PostsOut

LEMMA ListenInvEmpty ==
    ASSUME stack' = <<>>
    PROVE  ListenInv'
<1>1. Top' \notin Screen /\ \A f : ~OnStack(f)'
    BY FlashChatAssumption DEF Top, OnStack, Contains
<1>2. QED
    BY <1>1 DEF ListenInv, TopListens, PushListens

\* Nothing is lost when nobody is signed out: blocks join the main queue and
\* tasks the worker queue.
LEMMA KeepsSteady ==
    ASSUME UNCHANGED fsUser,
           NEW d, IsExtension(tasks', tasks, d), \A i \in 1..Len(d) : d[i] \notin SwapsOut,
           NEW b, IsExtension(main', main, b), \A i \in 1..Len(b) : b[i] \notin PostsOut
    PROVE  /\ SteadyNow => SteadyNow'
           /\ \A n \in Nat : InForce(n) => InForce(n)'
           /\ \A n \in Nat : SteadyTask(n) => SteadyTask(n)'
           /\ \A n \in Nat : SteadyBlock(n) => SteadyBlock(n)'
<1>1. PICK t, m : t = tasks' /\ m = main'
    OBVIOUS
<1>2. /\ \A n \in Nat : Clean(tasks, SwapsOut, n) => Clean(t, SwapsOut, n)
      /\ \A n \in Nat : Sure(tasks, SwapsIn, SwapsOut, n) => Sure(t, SwapsIn, SwapsOut, n)
    BY <1>1, ExtendedClean
<1>3. /\ \A n \in Nat : Clean(main, PostsOut, n) => Clean(m, PostsOut, n)
      /\ \A n \in Nat : Sure(main, PostsIn, PostsOut, n) => Sure(m, PostsIn, PostsOut, n)
    BY <1>1, ExtendedClean
<1>4. ASSUME NEW n \in Nat, InForce(n) PROVE InForce(n)'
    BY <1>1, <1>2, <1>4 DEF InForce, SwapsIn, SwapsOut
<1>5. Clean(main, PostsOut, 0) => Clean(main, PostsOut, 0)'
    BY <1>1, <1>3
<1>6. SteadyNow => SteadyNow'
    BY <1>1, <1>2, <1>5 DEF SteadyNow
<1>7. InForce(Len(tasks) + 1) => InForce(Len(tasks) + 1)'
    <2>1. Len(tasks) \in Nat /\ Len(t) \in Nat /\ Len(t) >= Len(tasks)
        BY <1>1 DEF IsExtension
    <2>2. ASSUME InForce(Len(tasks) + 1)
          PROVE  \/ fsUser # NoUser /\ Clean(t, SwapsOut, 0)
                 \/ Sure(t, SwapsIn, SwapsOut, Len(t) + 1)
        <3>1. CASE fsUser # NoUser /\ Clean(tasks, SwapsOut, 0)
            BY <1>2, <3>1
        <3>2. CASE Sure(tasks, SwapsIn, SwapsOut, Len(tasks) + 1)
            <4>1. Sure(t, SwapsIn, SwapsOut, Len(tasks) + 1)
                BY <1>2, <2>1, <3>2
            <4>2. QED
                BY <2>1, <4>1, SureLater
        <3>3. QED
            BY <2>2, <3>1, <3>2 DEF InForce
    <2>3. QED
        BY <1>1, <2>2 DEF InForce, SwapsIn, SwapsOut
<1>8. \A n \in Nat : SteadyTask(n) => SteadyTask(n)'
    BY <1>4, <1>5 DEF SteadyTask
<1>9. \A n \in Nat : SteadyBlock(n) => SteadyBlock(n)'
    BY <1>1, <1>3, <1>5, <1>7 DEF SteadyBlock, PostsIn, PostsOut
<1>10. QED
    BY <1>4, <1>6, <1>8, <1>9

\* The same when the first block has run and was no change of the user.
LEMMA ShiftKeepsSteady ==
    ASSUME UNCHANGED fsUser,
           NEW d, IsExtension(tasks', tasks, d), \A i \in 1..Len(d) : d[i] \notin SwapsOut,
           NEW c, IsShift(main', main, c), \A i \in 1..Len(c) : c[i] \notin PostsOut,
           main[1] \notin PostsIn
    PROVE  /\ SteadyNow => SteadyNow'
           /\ \A n \in Nat : InForce(n) => InForce(n)'
           /\ \A n \in Nat : SteadyTask(n) => SteadyTask(n)'
           /\ \A n \in Nat : SteadyBlock(n + 1) => SteadyBlock(n)'
<1>1. PICK t, m : t = tasks' /\ m = main'
    OBVIOUS
<1>2. /\ \A n \in Nat : Clean(tasks, SwapsOut, n) => Clean(t, SwapsOut, n)
      /\ \A n \in Nat : Sure(tasks, SwapsIn, SwapsOut, n) => Sure(t, SwapsIn, SwapsOut, n)
    BY <1>1, ExtendedClean
<1>3. /\ Clean(main, PostsOut, 0) => Clean(m, PostsOut, 0)
      /\ \A n \in Nat : Sure(main, PostsIn, PostsOut, n + 1) => Sure(m, PostsIn, PostsOut, n)
    BY <1>1, ShiftedClean
<1>4. ASSUME NEW n \in Nat, InForce(n) PROVE InForce(n)'
    BY <1>1, <1>2, <1>4 DEF InForce, SwapsIn, SwapsOut
<1>5. Clean(main, PostsOut, 0) => Clean(main, PostsOut, 0)'
    BY <1>1, <1>3
<1>6. SteadyNow => SteadyNow'
    BY <1>1, <1>2, <1>5 DEF SteadyNow
<1>7. InForce(Len(tasks) + 1) => InForce(Len(tasks) + 1)'
    <2>1. Len(tasks) \in Nat /\ Len(t) \in Nat /\ Len(t) >= Len(tasks)
        BY <1>1 DEF IsExtension
    <2>2. ASSUME InForce(Len(tasks) + 1)
          PROVE  \/ fsUser # NoUser /\ Clean(t, SwapsOut, 0)
                 \/ Sure(t, SwapsIn, SwapsOut, Len(t) + 1)
        <3>1. CASE fsUser # NoUser /\ Clean(tasks, SwapsOut, 0)
            BY <1>2, <3>1
        <3>2. CASE Sure(tasks, SwapsIn, SwapsOut, Len(tasks) + 1)
            <4>1. Sure(t, SwapsIn, SwapsOut, Len(tasks) + 1)
                BY <1>2, <2>1, <3>2
            <4>2. QED
                BY <2>1, <4>1, SureLater
        <3>3. QED
            BY <2>2, <3>1, <3>2 DEF InForce
    <2>3. QED
        BY <1>1, <2>2 DEF InForce, SwapsIn, SwapsOut
<1>8. \A n \in Nat : SteadyTask(n) => SteadyTask(n)'
    BY <1>4, <1>5 DEF SteadyTask
<1>9. \A n \in Nat : SteadyBlock(n + 1) => SteadyBlock(n)'
    BY <1>1, <1>3, <1>5, <1>7 DEF SteadyBlock, PostsIn, PostsOut
<1>10. QED
    BY <1>4, <1>6, <1>8, <1>9

\* The worker queue runs its first task.
LEMMA RunTaskKeepsSteady ==
    ASSUME TypeInv, RunTask
    PROVE  /\ SteadyNow => SteadyNow'
           /\ \A n \in Nat : SteadyTask(n + 1) => SteadyTask(n)'
           /\ SteadyTask(1) => SteadyNow'
           /\ \A n \in Nat : SteadyBlock(n) => SteadyBlock(n)'
<1>1. PICK t, m, x : t = tasks' /\ m = main' /\ x = tasks[1]
    OBVIOUS
<1>2. PICK b : Joined(b) /\ \A y \in ToSet(b) : FromWorker(y)
    BY QuietMain
<1>3. \A i \in 1..Len(b) : b[i] \notin PostsOut
    BY <1>2, FromWorkerKinds DEF Joined
<1>4. /\ \A n \in Nat : Clean(main, PostsOut, n) => Clean(m, PostsOut, n)
      /\ \A n \in Nat : Sure(main, PostsIn, PostsOut, n) => Sure(m, PostsIn, PostsOut, n)
    BY <1>1, <1>2, <1>3, ExtendedClean DEF Joined
<1>5. /\ tasks \in Seq(Task) /\ Len(tasks) \in Nat \ {0} /\ x \in Task
      /\ Len(t) = Len(tasks) - 1
      /\ \/ x.kind # "user" /\ UNCHANGED fsUser
         \/ x.kind = "user" /\ fsUser' = x.user
    BY <1>1, RunTaskTypes
<1>6. PICK e : e = <<>>
    OBVIOUS
<1>7. IsShift(t, tasks, e) /\ \A i \in 1..Len(e) : e[i] \notin SwapsOut
    <2>1. e \in Seq(Task) /\ Len(e) = 0
        BY <1>6
    <2>2. \A i \in 1..(Len(tasks) - 1) : t[i] = tasks[i + 1]
        BY <1>1, <1>5, RunTaskTypes
    <2>3. IsShift(t, tasks, e)
        BY <1>5, <2>1, <2>2 DEF IsShift
    <2>4. QED
        BY <2>1, <2>3
<1>8. /\ Clean(tasks, SwapsOut, 0) => Clean(t, SwapsOut, 0) /\ x \notin SwapsOut
      /\ \A n \in Nat : Sure(tasks, SwapsIn, SwapsOut, n + 1) =>
            Sure(t, SwapsIn, SwapsOut, n) \/ (x \in SwapsIn /\ Clean(t, SwapsOut, 0))
    <2>1. PICK q, In, Out : q = tasks /\ In = SwapsIn /\ Out = SwapsOut
        OBVIOUS
    <2>2. IsShift(t, q, e) /\ \A i \in 1..Len(e) : e[i] \notin Out
        BY <1>7, <2>1
    <2>3. /\ Clean(q, Out, 0) => Clean(t, Out, 0) /\ q[1] \notin Out
          /\ \A n \in Nat : Sure(q, In, Out, n + 1) =>
                Sure(t, In, Out, n) \/ (q[1] \in In /\ Clean(t, Out, 0))
        <3>1. Clean(q, Out, 0) => Clean(t, Out, 0) /\ q[1] \notin Out
            BY <2>2, ShiftedClean
        <3>2. ASSUME NEW n \in Nat, Sure(q, In, Out, n + 1)
              PROVE  Sure(t, In, Out, n) \/ (q[1] \in In /\ Clean(t, Out, 0))
            BY <2>2, <3>2, ShiftedClean
        <3>3. QED
            BY <3>1, <3>2
    <2>4. QED
        BY <1>1, <2>1, <2>3
<1>9. ASSUME fsUser # NoUser, Clean(tasks, SwapsOut, 0)
      PROVE  fsUser' # NoUser /\ Clean(t, SwapsOut, 0)
    BY <1>5, <1>8, <1>9 DEF SwapsOut
<1>10. x \in SwapsIn => fsUser' # NoUser
    BY <1>5 DEF SwapsIn
<1>11. ASSUME NEW n \in Nat, InForce(n + 1)
       PROVE  \/ fsUser' # NoUser /\ Clean(t, SwapsOut, 0)
              \/ Sure(t, SwapsIn, SwapsOut, n)
    BY <1>8, <1>9, <1>10, <1>11 DEF InForce
<1>12. SteadyNow => SteadyNow'
    BY <1>1, <1>4, <1>9 DEF SteadyNow
<1>13. \A n \in Nat : InForce(n + 1) => InForce(n)'
    BY <1>1, <1>11 DEF InForce
<1>14. \A n \in Nat : SteadyTask(n + 1) => SteadyTask(n)'
    BY <1>1, <1>4, <1>13 DEF SteadyTask
<1>15. SteadyTask(1) => SteadyNow'
    <2>1. ~Sure(t, SwapsIn, SwapsOut, 0)
        BY DEF Sure
    <2>2. InForce(0 + 1) => fsUser' # NoUser /\ Clean(t, SwapsOut, 0)
        BY <1>11, <2>1
    <2>3. QED
        BY <1>1, <1>4, <2>2 DEF SteadyTask, SteadyNow
<1>16. InForce(Len(tasks) + 1) => InForce(Len(tasks) + 1)'
    <2>1. PICK n \in Nat : n = Len(tasks) /\ Len(t) + 1 = n
        BY <1>5
    <2>2. QED
        BY <1>1, <1>13, <2>1
<1>17. \A n \in Nat : SteadyBlock(n) => SteadyBlock(n)'
    BY <1>1, <1>4, <1>16 DEF SteadyBlock
<1>18. QED
    BY <1>12, <1>14, <1>15, <1>17

\* One more task.
LEMMA TaskAdded ==
    ASSUME tasks \in Seq(Task), NEW t \in Task, tasks' = Append(tasks, t)
    PROVE  /\ IsExtension(tasks', tasks, <<t>>)
           /\ Len(<<t>>) = 1 /\ <<t>>[1] = t
           /\ Len(tasks) \in Nat /\ Len(tasks') = Len(tasks) + 1
           /\ \A i \in 1..Len(tasks) : tasks'[i] = tasks[i]
           /\ tasks'[Len(tasks) + 1] = t
<1>1. PICK d, r : d = <<t>> /\ r = Append(tasks, t)
    OBVIOUS
<1>2. d \in Seq(Task) /\ Len(d) = 1 /\ d[1] = t
    BY <1>1
<1>3. r = tasks \o d
    BY <1>1, AppendIsConcat
<1>4. IsExtension(r, tasks, d)
    BY <1>2, <1>3, Extended
<1>5. /\ Len(tasks) \in Nat /\ Len(r) = Len(tasks) + 1
      /\ \A i \in 1..Len(tasks) : r[i] = tasks[i]
      /\ r[Len(tasks) + 1] = t
    BY <1>1, AppendProperties
<1>6. QED
    BY <1>1, <1>2, <1>4, <1>5

LEMMA TasksKept ==
    ASSUME tasks \in Seq(Task), UNCHANGED tasks
    PROVE  \E d : IsExtension(tasks', tasks, d) /\ Len(d) = 0
<1>1. PICK d \in Seq(Task) : d = <<>>
    BY EmptySeq
<1>2. tasks' = tasks \o d /\ Len(d) = 0
    BY <1>1, ConcatEmptySeq
<1>3. IsExtension(tasks \o d, tasks, d)
    BY Extended
<1>4. QED
    BY <1>2, <1>3

\* What ListenInv needs of a step that keeps the stack and pushes nothing.
LEMMA ListenInvKept ==
    ASSUME TypeInv, ListenInv, UNCHANGED <<stack, fsUser>>,
           \A s : Contains(listeners, s) => Contains(listeners, s)' \/ ~SteadyNow,
           NEW d, IsExtension(tasks', tasks, d), \A i \in 1..Len(d) : d[i] \notin SwapsOut,
           NEW b, IsExtension(main', main, b),
           \A i \in 1..Len(b) : b[i] \notin PostsOut /\ b[i].kind # "signedIn"
    PROVE  ListenInv'
<1>1. /\ SteadyNow => SteadyNow'
      /\ \A n \in Nat : SteadyTask(n) => SteadyTask(n)'
      /\ \A n \in Nat : SteadyBlock(n) => SteadyBlock(n)'
    BY KeepsSteady
<1>2. Top' = Top /\ \A f : OnStack(f)' <=> OnStack(f)
    BY DEF Top, OnStack
<1>3. /\ Len(tasks) \in Nat /\ Len(d) \in Nat /\ Len(tasks') = Len(tasks) + Len(d)
      /\ \A i \in 1..Len(tasks) : i \in 1..Len(tasks') /\ tasks'[i] = tasks[i]
    BY DEF IsExtension
<1>4. TopListens'
    <2>1. SUFFICES ASSUME Top \in Screen
                   PROVE  \/ Contains(listeners, Top)' /\ SteadyNow'
                          \/ \E j \in 1..Len(tasks') :
                                /\ tasks'[j] = [kind |-> "listen", screen |-> Top]
                                /\ SteadyTask(j)'
        BY <1>2 DEF TopListens
    <2>2. CASE Contains(listeners, Top) /\ SteadyNow
        <3>1. Contains(listeners, Top)'
            BY <1>2, <2>2 DEF Contains
        <3>2. QED
            BY <1>1, <2>2, <3>1
    <2>3. ASSUME NEW j \in 1..Len(tasks), tasks[j] = [kind |-> "listen", screen |-> Top],
                 SteadyTask(j)
          PROVE  \E k \in 1..Len(tasks') :
                                /\ tasks'[k] = [kind |-> "listen", screen |-> Top]
                                /\ SteadyTask(k)'
        BY <1>1, <1>3, <2>3
    <2>4. QED
        BY <2>1, <2>2, <2>3 DEF ListenInv, TopListens
<1>5. PushListens'
    <2>1. /\ Len(main) \in Nat /\ Len(b) \in Nat /\ Len(main') = Len(main) + Len(b)
          /\ \A i \in 1..Len(main) : main'[i] = main[i]
          /\ \A i \in 1..Len(b) : main'[Len(main) + i] = b[i]
        BY DEF IsExtension
    <2>2. ASSUME NEW p \in 1..Len(main'), main'[p].kind = "signedIn", OnStack(main'[p].form)
          PROVE  SteadyBlock(p)'
        <3>1. p <= Len(main)
            <4>1. SUFFICES ASSUME p > Len(main) PROVE FALSE
                BY <2>1
            <4>2. p - Len(main) \in 1..Len(b) /\ Len(main) + (p - Len(main)) = p
                BY <2>1, <4>1
            <4>3. main'[p] = b[p - Len(main)]
                BY <2>1, <4>2
            <4>4. QED
                BY <2>2, <4>2, <4>3
        <3>2. p \in 1..Len(main) /\ p \in Nat /\ main'[p] = main[p]
            BY <2>1, <3>1
        <3>3. SteadyBlock(p)
            BY <2>2, <3>2 DEF ListenInv, PushListens
        <3>4. QED
            BY <1>1, <3>2, <3>3
    <2>3. QED
        BY <1>2, <2>2 DEF PushListens
<1>6. QED
    BY <1>4, <1>5 DEF ListenInv

LEMMA ListenInvRunTask ==
    ASSUME TypeInv, ListenInv, RunTask
    PROVE  ListenInv'
<1>1. /\ SteadyNow => SteadyNow'
      /\ \A n \in Nat : SteadyTask(n + 1) => SteadyTask(n)'
      /\ SteadyTask(1) => SteadyNow'
      /\ \A n \in Nat : SteadyBlock(n) => SteadyBlock(n)'
    BY RunTaskKeepsSteady
<1>2. UNCHANGED stack
    BY DEF RunTask, ui
<1>3. Top' = Top /\ \A f : OnStack(f)' <=> OnStack(f)
    BY <1>2 DEF Top, OnStack
<1>4. /\ Len(tasks) \in Nat \ {0} /\ Len(tasks') = Len(tasks) - 1
      /\ \A i \in 1..Len(tasks') : tasks'[i] = tasks[i + 1]
      /\ \/ tasks[1].kind = "listen" /\ listeners' = Append(listeners, tasks[1].screen)
         \/ tasks[1].kind # "listen" /\ UNCHANGED listeners
    BY RunTaskTypes
<1>5. \A s : Contains(listeners, s)' <=>
             Contains(listeners, s) \/ (tasks[1].kind = "listen" /\ s = tasks[1].screen)
    <2>1. CASE tasks[1].kind = "listen" /\ listeners' = Append(listeners, tasks[1].screen)
        <3>1. PICK q, x, r : q = listeners /\ x = tasks[1].screen /\ r = Append(q, x)
            OBVIOUS
        <3>2. q \in Seq(Screen) /\ x \in Screen
            BY <2>1, <3>1, RunTaskTypes, TaskFields DEF TypeInv, TypeOK
        <3>3. /\ Len(q) \in Nat /\ Len(r) = Len(q) + 1
              /\ \A i \in 1..Len(q) : r[i] = q[i]
              /\ r[Len(q) + 1] = x
            BY <3>1, <3>2, AppendProperties
        <3>4. \A s : (\E i \in 1..Len(r) : r[i] = s) <=> (\E i \in 1..Len(q) : q[i] = s) \/ s = x
            BY <3>3
        <3>5. QED
            BY <2>1, <3>1, <3>4 DEF Contains
    <2>2. CASE tasks[1].kind # "listen" /\ UNCHANGED listeners
        BY <2>2 DEF Contains
    <2>3. QED
        BY <1>4, <2>1, <2>2
<1>6. TopListens'
    <2>1. SUFFICES ASSUME Top \in Screen
                   PROVE  \/ Contains(listeners, Top)' /\ SteadyNow'
                          \/ \E j \in 1..Len(tasks') :
                                /\ tasks'[j] = [kind |-> "listen", screen |-> Top]
                                /\ SteadyTask(j)'
        BY <1>3 DEF TopListens
    <2>2. CASE Contains(listeners, Top) /\ SteadyNow
        BY <1>1, <1>3, <1>5, <2>2
    <2>3. ASSUME NEW j \in 1..Len(tasks), tasks[j] = [kind |-> "listen", screen |-> Top],
                 SteadyTask(j)
          PROVE  \/ Contains(listeners, Top)' /\ SteadyNow'
                 \/ \E k \in 1..Len(tasks') :
                                /\ tasks'[k] = [kind |-> "listen", screen |-> Top]
                                /\ SteadyTask(k)'
        <3>1. CASE j = 1
            <4>1. tasks[1].kind = "listen" /\ tasks[1].screen = Top
                BY <2>3, <3>1
            <4>2. Contains(listeners, Top)'
                BY <1>3, <1>5, <4>1
            <4>3. QED
                BY <1>1, <2>3, <3>1, <4>2
        <3>2. CASE j # 1
            <4>1. PICK k \in 1..Len(tasks') : j = k + 1
                <5>1. j - 1 \in 1..Len(tasks') /\ j = (j - 1) + 1
                    BY <1>4, <3>2
                <5>2. QED
                    BY <5>1
            <4>2. k \in Nat
                OBVIOUS
            <4>3. SteadyTask(k)'
                BY <1>1, <2>3, <4>1, <4>2
            <4>4. tasks'[k] = [kind |-> "listen", screen |-> Top]
                BY <1>4, <2>3, <4>1
            <4>5. QED
                BY <4>3, <4>4
        <3>3. QED
            BY <3>1, <3>2
    <2>4. QED
        BY <2>1, <2>2, <2>3 DEF ListenInv, TopListens
<1>7. PushListens'
    <2>1. PICK b : Joined(b) /\ \A y \in ToSet(b) : FromWorker(y)
        BY QuietMain
    <2>2. /\ Len(main) \in Nat /\ Len(b) \in Nat /\ Len(main') = Len(main) + Len(b)
          /\ \A i \in 1..Len(main) : main'[i] = main[i]
          /\ \A i \in 1..Len(b) : main'[Len(main) + i] = b[i]
          /\ \A i \in 1..Len(b) : b[i].kind # "signedIn"
        BY <2>1, FromWorkerKinds DEF Joined, IsExtension
    <2>3. ASSUME NEW p \in 1..Len(main'), main'[p].kind = "signedIn", OnStack(main'[p].form)
          PROVE  SteadyBlock(p)'
        <3>1. p <= Len(main)
            <4>1. SUFFICES ASSUME p > Len(main) PROVE FALSE
                BY <2>2
            <4>2. p - Len(main) \in 1..Len(b) /\ Len(main) + (p - Len(main)) = p
                BY <2>2, <4>1
            <4>3. main'[p] = b[p - Len(main)]
                BY <2>2, <4>2
            <4>4. QED
                BY <2>2, <2>3, <4>2, <4>3
        <3>2. p \in 1..Len(main) /\ p \in Nat /\ main'[p] = main[p]
            BY <2>2, <3>1
        <3>3. SteadyBlock(p)
            BY <2>3, <3>2 DEF ListenInv, PushListens
        <3>4. QED
            BY <1>1, <3>2, <3>3
    <2>4. QED
        BY <1>3, <2>3 DEF PushListens
<1>8. QED
    BY <1>6, <1>7 DEF ListenInv

LEMMA ListenInvRunBlock ==
    ASSUME TypeInv, NavInv, ListenInv, RunBlock
    PROVE  ListenInv'
<1>1. PICK c : /\ Ran(c)
               /\ \/ c = <<>> /\ RanAuth
                  \/ c = <<>> /\ RanSignedIn
                  \/ RanSnapshot(c)
                  \/ c = <<>> /\ RanReload
                  \/ RanSaved(c)
                  \/ c = <<>> /\ RanClear
    BY RunBlockFacts
<1>2. UNCHANGED <<fsUser, listeners>> /\ tasks \in Seq(Task) /\ stack \in Seq(Form \cup Screen)
    BY RunBlockFacts DEF TypeInv, TypeOK
<1>3. /\ Len(main) \in Nat \ {0} /\ main[1] \in Block
      /\ c \in Seq(Block) /\ IsShift(main', main, c)
    BY <1>1 DEF Ran
<1>4. \A i \in 1..Len(c) : c[i].kind \notin {"auth", "signedIn"}
    <2>1. CASE c = <<>>
        BY <2>1
    <2>2. CASE RanSnapshot(c)
        BY <2>2 DEF RanSnapshot
    <2>3. CASE RanSaved(c)
        BY <2>3 DEF RanSaved
    <2>4. QED
        BY <1>1, <2>1, <2>2, <2>3
<1>5. \A i \in 1..Len(c) : c[i] \notin PostsOut
    BY <1>4 DEF PostsOut
\* The blocks that stay.
<1>6. \A p \in 1..Len(main') : main'[p].kind = "signedIn" =>
          p \in Nat /\ p + 1 \in 1..Len(main) /\ main'[p] = main[p + 1]
    <2>1. /\ Len(c) \in Nat /\ Len(main') = Len(main) - 1 + Len(c)
          /\ \A i \in 1..(Len(main) - 1) : main'[i] = main[i + 1]
          /\ \A i \in 1..Len(c) : main'[Len(main) - 1 + i] = c[i]
        BY <1>3 DEF IsShift
    <2>2. ASSUME NEW p \in 1..Len(main'), main'[p].kind = "signedIn"
          PROVE  p \in Nat /\ p + 1 \in 1..Len(main) /\ main'[p] = main[p + 1]
        <3>1. p <= Len(main) - 1
            <4>1. SUFFICES ASSUME p > Len(main) - 1 PROVE FALSE
                BY <1>3, <2>1
            <4>2. p - (Len(main) - 1) \in 1..Len(c) /\ Len(main) - 1 + (p - (Len(main) - 1)) = p
                BY <1>3, <2>1, <4>1
            <4>3. main'[p] = c[p - (Len(main) - 1)]
                BY <2>1, <4>2
            <4>4. QED
                BY <1>4, <2>2, <4>2, <4>3
        <3>2. QED
            BY <1>3, <2>1, <3>1
    <2>3. QED
        BY <2>2
<1>7. CASE main[1].kind # "auth" /\ UNCHANGED <<stack, tasks>>
    <2>1. PICK d : IsExtension(tasks', tasks, d) /\ Len(d) = 0
        BY <1>2, <1>7, TasksKept
    <2>2. main[1] \notin PostsIn /\ \A i \in 1..Len(d) : d[i] \notin SwapsOut
        BY <1>7, <2>1 DEF PostsIn
    <2>3. /\ SteadyNow => SteadyNow'
          /\ \A n \in Nat : SteadyTask(n) => SteadyTask(n)'
          /\ \A n \in Nat : SteadyBlock(n + 1) => SteadyBlock(n)'
        BY <1>2, <1>3, <1>5, <2>1, <2>2, ShiftKeepsSteady
    <2>4. Top' = Top /\ \A f : OnStack(f)' <=> OnStack(f)
        BY <1>7 DEF Top, OnStack
    <2>5. \A j \in 1..Len(tasks) : j \in Nat
        OBVIOUS
    <2>6. TopListens'
        BY <1>2, <1>7, <2>3, <2>4, <2>5 DEF ListenInv, TopListens, Contains
    <2>7. PushListens'
        BY <1>6, <2>3, <2>4 DEF ListenInv, PushListens
    <2>8. QED
        BY <2>6, <2>7 DEF ListenInv
<1>8. CASE RanAuth
    <2>1. PICK u, t : u = main[1].user /\ t = [kind |-> "user", user |-> u]
        OBVIOUS
    <2>2. /\ main[1].kind = "auth" /\ tasks' = Append(tasks, t) /\ UNCHANGED stack
          /\ u \in User /\ t \in Task /\ t.kind = "user" /\ t.user = u
        BY <1>3, <1>8, <2>1, BlockFields, Tasks DEF RanAuth
    <2>3. PICK d : d = <<t>>
        OBVIOUS
    <2>4. /\ IsExtension(tasks', tasks, d) /\ Len(d) = 1 /\ d[1] = t
          /\ Len(tasks) \in Nat /\ Len(tasks') = Len(tasks) + 1
          /\ \A i \in 1..Len(tasks) : tasks'[i] = tasks[i]
        BY <1>2, <2>2, <2>3, TaskAdded
    <2>5. PICK m, q : m = main' /\ q = tasks'
        OBVIOUS
    <2>6. /\ Clean(main, PostsOut, 0) => Clean(m, PostsOut, 0)
          /\ Clean(main, PostsOut, 0) => u # NoUser
          /\ \A n \in Nat : Sure(main, PostsIn, PostsOut, n + 1) =>
                Sure(m, PostsIn, PostsOut, n) \/ (u # NoUser /\ Clean(m, PostsOut, 0))
        <3>1. Clean(main, PostsOut, 0) => Clean(m, PostsOut, 0) /\ main[1] \notin PostsOut
            BY <1>3, <1>5, <2>5, ShiftedClean
        <3>2. ASSUME NEW n \in Nat, Sure(main, PostsIn, PostsOut, n + 1)
              PROVE  Sure(m, PostsIn, PostsOut, n) \/ (main[1] \in PostsIn /\ Clean(m, PostsOut, 0))
            <4>1. PICK q0, In, Out : q0 = main /\ In = PostsIn /\ Out = PostsOut
                OBVIOUS
            <4>2. /\ IsShift(m, q0, c) /\ Sure(q0, In, Out, n + 1)
                  /\ \A i \in 1..Len(c) : c[i] \notin Out
                BY <1>3, <1>5, <2>5, <3>2, <4>1
            <4>3. \A k \in Nat : Sure(q0, In, Out, k + 1) =>
                        Sure(m, In, Out, k) \/ (q0[1] \in In /\ Clean(m, Out, 0))
                BY <4>2, ShiftedClean, ZenonT(60)
            <4>4. QED
                BY <4>1, <4>2, <4>3, Zenon
        <3>3. main[1] \notin PostsOut => u # NoUser
            BY <1>3, <2>1, <2>2 DEF PostsOut
        <3>4. main[1] \in PostsIn => u # NoUser
            BY <2>1 DEF PostsIn
        <3>5. QED
            BY <3>1, <3>2, <3>3, <3>4
    <2>7. ASSUME u # NoUser
          PROVE  /\ Clean(tasks, SwapsOut, 0) => Clean(q, SwapsOut, 0)
                 /\ \A n \in Nat : Sure(tasks, SwapsIn, SwapsOut, n) => Sure(q, SwapsIn, SwapsOut, n)
                 /\ Sure(q, SwapsIn, SwapsOut, Len(q) + 1)
        <3>1. t \in SwapsIn /\ \A i \in 1..Len(d) : d[i] \notin SwapsOut
            BY <2>2, <2>4, <2>7 DEF SwapsIn, SwapsOut
        <3>2. IsExtension(q, tasks, d) /\ Len(d) > 0 /\ d[1] \in SwapsIn
              /\ Len(q) + 1 \in Nat /\ Len(q) + 1 > Len(tasks) + 1
            BY <2>4, <2>5, <3>1
        <3>3. \A n \in Nat : Clean(tasks, SwapsOut, n) => Clean(q, SwapsOut, n)
            BY <3>1, <3>2, ExtendedClean
        <3>4. \A n \in Nat : Sure(tasks, SwapsIn, SwapsOut, n) => Sure(q, SwapsIn, SwapsOut, n)
            BY <3>1, <3>2, ExtendedClean
        <3>5. Sure(q, SwapsIn, SwapsOut, Len(q) + 1)
            BY <3>1, <3>2, ExtendedClean
        <3>6. QED
            BY <3>3, <3>4, <3>5
    <2>8. SteadyNow => SteadyNow'
        BY <1>2, <2>5, <2>6, <2>7 DEF SteadyNow, PostsOut, SwapsOut
    <2>9. ASSUME NEW n \in Nat, SteadyTask(n) PROVE SteadyTask(n)'
        BY <1>2, <2>5, <2>6, <2>7, <2>9 DEF SteadyTask, InForce, PostsOut, SwapsIn, SwapsOut
    <2>10. ASSUME NEW n \in Nat, SteadyBlock(n + 1) PROVE SteadyBlock(n)'
        <3>1. u # NoUser /\ Clean(m, PostsOut, 0) => SteadyBlock(n)'
            BY <2>5, <2>7 DEF SteadyBlock, InForce, SwapsIn, SwapsOut, PostsOut
        <3>2. CASE Sure(main, PostsIn, PostsOut, n + 1)
            BY <2>5, <2>6, <3>1, <3>2 DEF SteadyBlock, PostsIn, PostsOut
        <3>3. CASE InForce(Len(tasks) + 1) /\ Clean(main, PostsOut, 0)
            BY <2>6, <3>1, <3>3
        <3>4. QED
            BY <2>10, <3>2, <3>3 DEF SteadyBlock
    <2>11. Top' = Top /\ \A f : OnStack(f)' <=> OnStack(f)
        BY <2>2 DEF Top, OnStack
    <2>12. \A j \in 1..Len(tasks) : j \in Nat /\ j \in 1..Len(tasks') /\ tasks'[j] = tasks[j]
        BY <2>4
    <2>13. TopListens'
        BY <1>2, <2>8, <2>9, <2>11, <2>12 DEF ListenInv, TopListens, Contains
    <2>14. PushListens'
        BY <1>6, <2>10, <2>11 DEF ListenInv, PushListens
    <2>15. QED
        BY <2>13, <2>14 DEF ListenInv
<1>9. ASSUME NEW s \in Screen, main[1].kind = "signedIn", OnStack(main[1].form),
             stack' = Append(stack, s),
             tasks' = Append(tasks, [kind |-> "listen", screen |-> s])
      PROVE  ListenInv'
    <2>1. PICK t : t = [kind |-> "listen", screen |-> s]
        OBVIOUS
    <2>2. t \in Task /\ t.kind = "listen"
        BY <2>1, Tasks
    <2>3. PICK d : d = <<t>>
        OBVIOUS
    <2>4. /\ IsExtension(tasks', tasks, d) /\ Len(d) = 1 /\ d[1] = t
          /\ Len(tasks) \in Nat /\ Len(tasks') = Len(tasks) + 1
          /\ tasks'[Len(tasks) + 1] = t
        BY <1>2, <1>9, <2>1, <2>2, <2>3, TaskAdded
    <2>5. main[1] \notin PostsIn /\ \A i \in 1..Len(d) : d[i] \notin SwapsOut
        BY <1>9, <2>2, <2>4 DEF PostsIn, SwapsOut
    <2>6. /\ \A n \in Nat : SteadyTask(n) => SteadyTask(n)'
          /\ \A n \in Nat : SteadyBlock(n + 1) => SteadyBlock(n)'
        BY <1>2, <1>3, <1>5, <2>4, <2>5, ShiftKeepsSteady
    <2>7. stack # <<>>
        BY <1>9 DEF OnStack, Contains
    <2>8. Top' = s /\ \A f : OnStack(f)' <=> OnStack(f) \/ f = s
        BY <1>2, <1>9, <2>7, Pushed
    <2>9. SteadyBlock(1)
        BY <1>3, <1>9 DEF ListenInv, PushListens
    <2>10. SteadyTask(Len(tasks) + 1)
        <3>1. ~Sure(main, PostsIn, PostsOut, 1)
            BY DEF Sure
        <3>2. QED
            BY <2>9, <3>1 DEF SteadyBlock, SteadyTask
    <2>11. PICK j \in Nat : j = Len(tasks) + 1
        BY <2>4
    <2>12. SteadyTask(j)' /\ j \in 1..Len(tasks') /\ tasks'[j] = t
        BY <2>4, <2>6, <2>10, <2>11
    <2>13. TopListens'
        BY <2>1, <2>8, <2>12 DEF TopListens
    <2>14. PushListens'
        <3>1. ASSUME NEW p \in 1..Len(main'), main'[p].kind = "signedIn",
                     Contains(stack', main'[p].form)
              PROVE  SteadyBlock(p)'
            <4>1. p \in Nat /\ p + 1 \in 1..Len(main) /\ main'[p] = main[p + 1]
                BY <1>6, <3>1
            <4>2. main[p + 1].form \in Form
                BY <1>1, <3>1, <4>1, Entries, BlockFields DEF Ran
            <4>3. OnStack(main[p + 1].form)
                <5>1. PICK f : f = main[p + 1].form
                    OBVIOUS
                <5>2. OnStack(f)' /\ f # s
                    BY <3>1, <4>1, <4>2, <5>1, FlashChatAssumption DEF OnStack
                <5>3. QED
                    BY <2>8, <5>1, <5>2
            <4>4. SteadyBlock(p + 1)
                BY <3>1, <4>1, <4>3 DEF ListenInv, PushListens
            <4>5. QED
                BY <2>6, <4>1, <4>4
        <3>2. QED
            BY <3>1 DEF PushListens, OnStack
    <2>15. QED
        BY <2>13, <2>14 DEF ListenInv
<1>10. QED
    BY <1>1, <1>7, <1>8, <1>9 DEF RanSignedIn, RanSnapshot, RanReload, RanSaved, RanClear

LEMMA ListenInvStep == TypeInv /\ NavInv /\ ListenInv /\ [Next]_vars => ListenInv'
<1> SUFFICES ASSUME TypeInv, NavInv, ListenInv, [Next]_vars PROVE ListenInv'
    OBVIOUS
<1>1. tasks \in Seq(Task) /\ main \in Seq(Block) /\ stack \in Seq(Form \cup Screen)
    BY DEF TypeInv, TypeOK
<1>2. CASE QuietTap \/ Streams
    <2>1. PICK b : Joined(b) /\ \A y \in ToSet(b) : FromWorker(y)
        BY <1>2, QuietMain
    <2>2. /\ IsExtension(main', main, b)
          /\ \A i \in 1..Len(b) : b[i] \notin PostsOut /\ b[i].kind # "signedIn"
        BY <2>1, FromWorkerKinds DEF Joined
    <2>3. CASE UNCHANGED <<stack, fsUser, tasks>> /\ (UNCHANGED listeners \/ fsUser = NoUser)
        <3>1. PICK d : IsExtension(tasks', tasks, d) /\ Len(d) = 0
            BY <1>1, <2>3, TasksKept
        <3>2. \A i \in 1..Len(d) : d[i] \notin SwapsOut
            BY <3>1
        <3>3. \A s : Contains(listeners, s) => Contains(listeners, s)' \/ ~SteadyNow
            BY <2>3 DEF SteadyNow, Contains
        <3>4. QED
            BY <2>2, <2>3, <3>1, <3>2, <3>3, ListenInvKept
    <2>4. CASE Streams
        <3>1. UNCHANGED <<stack, fsUser, tasks>> /\ (UNCHANGED listeners \/ fsUser = NoUser)
            BY <2>4 DEF Streams, Commit, Settle, ForeignWrite, ApplyRemoteEvent,
                  HandleRejectedListen, GoOffline, ui, view
        <3>2. QED
            BY <2>3, <3>1
    <2>5. ASSUME NEW f \in Form, OpenForm(f) PROVE ListenInv'
        <3>1. stack' = <<f>> /\ UNCHANGED main /\ \A x \in ToSet(main) : x.kind = "signedIn" => x.form # f
            BY <2>5 DEF OpenForm
        <3>2. Top' = f /\ \A g : OnStack(g)' <=> g = f
            BY <3>1 DEF Top, Last, OnStack, Contains
        <3>3. f \notin Screen
            BY FlashChatAssumption
        <3>4. \A p \in 1..Len(main) : main[p].kind = "signedIn" => main[p].form # f
            BY <1>1, <3>1, Entries
        <3>5. QED
            BY <3>1, <3>2, <3>3, <3>4 DEF ListenInv, TopListens, PushListens
    <2>6. CASE Back
        BY <2>6, BackEmpties, ListenInvEmpty DEF NavInv
    <2>7. ASSUME NEW e \in Email, LoginPressed(e)
          PROVE  UNCHANGED <<stack, fsUser, tasks, listeners>>
        BY <2>7 DEF LoginPressed, ui, view
    <2>8. ASSUME NEW s \in Screen, Type(s) \/ CellForRow(s)
          PROVE  UNCHANGED <<stack, fsUser, tasks, listeners>>
        BY <2>8 DEF Type, CellForRow, view
    <2>9. ASSUME NEW s \in Screen, NEW m \in Message, SendPressed(s, m) PROVE ListenInv'
        <3>1. PICK t : t = [kind |-> "write", doc |-> m]
            OBVIOUS
        <3>2. t \in Task /\ t.kind = "write"
            BY <3>1, Tasks
        <3>3. tasks' = Append(tasks, t) /\ UNCHANGED <<stack, fsUser, listeners>>
            BY <2>9, <3>1 DEF SendPressed, ui, view
        <3>4. PICK d : d = <<t>>
            OBVIOUS
        <3>5. IsExtension(tasks', tasks, d) /\ Len(d) = 1 /\ d[1] = t
            BY <1>1, <3>2, <3>3, <3>4, TaskAdded
        <3>6. \A i \in 1..Len(d) : d[i] \notin SwapsOut
            BY <3>2, <3>5 DEF SwapsOut
        <3>7. \A x : Contains(listeners, x) => Contains(listeners, x)' \/ ~SteadyNow
            BY <3>3 DEF Contains
        <3>8. QED
            BY <2>2, <3>3, <3>5, <3>6, <3>7, ListenInvKept
    <2>10. QED
        BY <1>2, <2>3, <2>4, <2>5, <2>6, <2>7, <2>8, <2>9 DEF QuietTap
<1>3. ASSUME NEW i \in 1..MaxRequests, NEW ok \in BOOLEAN, SignInAnswered(i, ok)
      PROVE  ListenInv'
    <2>1. UNCHANGED <<stack, fsUser, tasks, listeners>>
        BY <1>3 DEF SignInAnswered, ui, view
    <2>2. PICK d : IsExtension(tasks', tasks, d) /\ Len(d) = 0
        BY <1>1, <2>1, TasksKept
    <2>3. \A k \in 1..Len(d) : d[k] \notin SwapsOut
        BY <2>2
    <2>4. Top' = Top /\ \A f : OnStack(f)' <=> OnStack(f)
        BY <2>1 DEF Top, OnStack
    <2>5. CASE UNCHANGED main
        BY <2>1, <2>4, <2>5 DEF ListenInv, TopListens, PushListens, SteadyNow, SteadyTask,
              SteadyBlock, InForce, Clean, Sure, SwapsIn, SwapsOut, PostsIn, PostsOut, Contains
    <2>6. ASSUME NEW e \in Email, NEW f \in Form, NEW x \in Block, NEW y \in Block,
                 x.kind = "auth", x.user = e, y.kind = "signedIn", Joined(<<x, y>>)
          PROVE  ListenInv'
        <3>1. PICK b : b = <<x, y>>
            OBVIOUS
        <3>2. /\ IsExtension(main', main, b) /\ Len(b) = 2 /\ b[1] = x /\ b[2] = y
              /\ x \in PostsIn
              /\ \A k \in 1..Len(b) : b[k] \notin PostsOut
            BY <2>6, <3>1, FlashChatAssumption DEF Joined, PostsIn, PostsOut
        <3>3. /\ SteadyNow => SteadyNow'
              /\ \A n \in Nat : SteadyTask(n) => SteadyTask(n)'
              /\ \A n \in Nat : SteadyBlock(n) => SteadyBlock(n)'
            BY <2>1, <2>2, <2>3, <3>2, KeepsSteady
        <3>4. PICK m : m = main'
            OBVIOUS
        <3>5. /\ Len(main) \in Nat /\ Len(m) = Len(main) + 2
              /\ \A k \in 1..Len(main) : m[k] = main[k]
              /\ m[Len(main) + 1] = x /\ m[Len(main) + 2] = y
            BY <3>2, <3>4 DEF IsExtension
        <3>6. Sure(m, PostsIn, PostsOut, Len(main) + 2)
            <4>1. IsExtension(m, main, b) /\ Len(b) > 0 /\ b[1] \in PostsIn
                BY <3>2, <3>4
            <4>2. Len(main) + 2 \in Nat /\ Len(main) + 2 > Len(main) + 1
                BY <3>5
            <4>3. QED
                <5>1. PICK n \in Nat : n = Len(main) + 2
                    BY <4>2
                <5>2. /\ IsExtension(m, main, b) /\ \A k \in 1..Len(b) : b[k] \notin PostsOut
                      /\ n > Len(main) + 1 /\ Len(b) > 0 /\ b[1] \in PostsIn
                    BY <3>2, <4>1, <4>2, <5>1
                <5>3. Sure(m, PostsIn, PostsOut, n)
                    BY <5>2, ExtendedClean, Zenon
                <5>4. QED
                    BY <5>1, <5>3
        <3>7. TopListens'
            BY <2>1, <2>4, <3>3 DEF ListenInv, TopListens, Contains
        <3>8. PushListens'
            <4>1. ASSUME NEW p \in 1..Len(m), m[p].kind = "signedIn", OnStack(m[p].form)
                  PROVE  SteadyBlock(p)'
                <5>1. CASE p = Len(main) + 2
                    BY <3>4, <3>6, <5>1 DEF SteadyBlock, PostsIn, PostsOut
                <5>2. CASE p <= Len(main)
                    <6>1. p \in 1..Len(main) /\ p \in Nat /\ m[p] = main[p]
                        BY <3>5, <5>2
                    <6>2. SteadyBlock(p)
                        BY <4>1, <6>1 DEF ListenInv, PushListens
                    <6>3. QED
                        BY <3>3, <6>1, <6>2
                <5>3. p # Len(main) + 1
                    BY <2>6, <3>5, <4>1
                <5>4. QED
                    BY <3>5, <5>1, <5>2, <5>3
            <4>2. QED
                BY <2>4, <3>4, <4>1 DEF PushListens
        <3>9. QED
            BY <3>7, <3>8 DEF ListenInv
    <2>7. QED
        BY <1>3, <2>5, <2>6, SignInMain
<1>4. CASE \E s \in Screen : LogOutPressed(s)
    BY <1>4, ListenInvEmpty DEF LogOutPressed, PopToRoot
<1>5. CASE Relaunch
    BY <1>5, ListenInvEmpty DEF Relaunch
<1>6. CASE UNCHANGED vars
    <2>1. UNCHANGED <<stack, fsUser, tasks, listeners, main>>
        BY <1>6 DEF vars, ui, view
    <2>2. QED
        BY <2>1 DEF ListenInv, TopListens, PushListens, SteadyNow, SteadyTask, Top, OnStack,
              SteadyBlock, InForce, Clean, Sure, SwapsIn, SwapsOut, PostsIn, PostsOut, Contains
<1>7. QED
    BY <1>2, <1>3, <1>4, <1>5, <1>6, ListenInvRunTask, ListenInvRunBlock, Steps

LEMMA ListenInvariant == Spec => [](TypeInv /\ NavInv /\ ListenInv)
<1>1. Init => ListenInv
    BY FlashChatAssumption DEF Init, ListenInv, TopListens, PushListens, Top
<1>2. QED
    BY <1>1, NavInvariant, ListenInvStep, PTL DEF Spec

\* The chat on the screen is a listener or will be one: a refused query only
\* removes listeners while nobody is signed in on the worker queue, and no order
\* of logging in and out lets that happen to the chat somebody looks at.
THEOREM VisibleChatListens == Spec => []TopChatListens
<1>1. TypeInv /\ ListenInv => TopChatListens
    <2> SUFFICES ASSUME TypeInv, ListenInv, Top \in Screen
                 PROVE  \/ Contains(listeners, Top)
                        \/ Contains(tasks, [kind |-> "listen", screen |-> Top])
        BY DEF TopChatListens
    <2>1. QED
        BY DEF ListenInv, TopListens, Contains
<1>2. QED
    BY <1>1, ListenInvariant, PTL
=============================================================================
