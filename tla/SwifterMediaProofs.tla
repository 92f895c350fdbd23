------------------------- MODULE SwifterMediaProofs -------------------------
(***************************************************************************)
(* Proofs about Swifter's chunked upload, for media and chunks of any      *)
(* size: the segments that appendUpload takes, what the server has when it *)
(* finalizes, and what the caller is told.                                 *)
(***************************************************************************)
EXTENDS SwifterMedia, SortingProofs

(* The segments *)

\* Min of FiniteSetsExt, of two numbers.
LEMMA MinOfTwo ==
    ASSUME NEW a \in Int, NEW b \in Int
    PROVE  Min({a, b}) = IF a <= b THEN a ELSE b
<1>1. \E x \in {a, b} : \A y \in {a, b} : x <= y
    OBVIOUS
<1>2. Min({a, b}) \in {a, b} /\ \A y \in {a, b} : Min({a, b}) <= y
    BY <1>1, Zenon DEF Min
<1>3. QED
    BY <1>2

\* Where segments begin.
LEMMA NextLocation ==
    ASSUME NEW i \in Nat
    PROVE  /\ i * ChunkSize \in Nat
           /\ (i + 1) * ChunkSize = i * ChunkSize + ChunkSize
           /\ (i + 2) * ChunkSize = i * ChunkSize + ChunkSize + ChunkSize
BY SwifterMediaAssumption

\* The length of the segment at a location.
Length(location) ==
    IF count < ChunkSize THEN count
    ELSE IF count - location <= ChunkSize THEN count - location ELSE ChunkSize

\* appendUpload never asks for a byte behind the data, and only a location at
\* the very end gives an empty segment.
LEMMA SubDataFits ==
    ASSUME NEW i \in Nat, count \in Nat, i * ChunkSize <= count
    PROVE  /\ SubData(i) = [n \in 1..Length(i * ChunkSize) |-> i * ChunkSize + n]
           /\ Length(i * ChunkSize) \in Nat
           /\ SubData(i) \in Seq(1..count)
           /\ SubData(i) = <<>> => i * ChunkSize = count
<1> DEFINE location == i * ChunkSize
           length == Length(location)
<1>1. location \in Nat /\ ChunkSize \in Nat /\ ChunkSize > 0
    BY NextLocation, SwifterMediaAssumption
<1>2. count < ChunkSize => location = 0
    <2>1. ASSUME count < ChunkSize, i # 0 PROVE FALSE
        <3>1. PICK j \in Nat : i = j + 1
            <4>1. i - 1 \in Nat /\ i = (i - 1) + 1
                BY <2>1
            <4>2. QED
                BY <4>1
        <3>2. location = j * ChunkSize + ChunkSize /\ j * ChunkSize \in Nat
            BY <3>1, NextLocation
        <3>3. QED
            BY <2>1, <3>2, <1>1
    <2>2. i = 0 => location = 0
        BY <1>1
    <2>3. QED
        BY <2>1, <2>2
<1>3. SubData(i) = [n \in 1..length |-> location + n]
    <2>1. Min({count - location, ChunkSize})
            = IF count - location <= ChunkSize THEN count - location ELSE ChunkSize
        BY <1>1, MinOfTwo
    <2> HIDE DEF location
    <2>2. QED
        BY <2>1 DEF SubData, Length, location
<1> HIDE DEF location
<1>4. length \in Nat /\ location + length <= count
    BY <1>1, <1>2 DEF Length, location
<1>5. length = 0 => location = count
    BY <1>1, <1>2 DEF Length, location
<1> HIDE DEF length
<1>6. SubData(i) \in Seq(1..count)
    <2>1. \A n \in 1..length : location + n \in 1..count
        BY <1>1, <1>4
    <2>2. QED
        BY <1>3, <1>4, <2>1
<1>7. SubData(i) = <<>> => length = 0
    <2>1. Len(SubData(i)) = length
        BY <1>3, <1>4
    <2>2. QED
        BY <2>1, EmptySeq
<1>8. QED
    BY <1>3, <1>4, <1>5, <1>6, <1>7 DEF location, length
-----------------------------------------------------------------------------
(* The inductive invariant *)

Done == {"finalized", "succeeded"}

Before == {"none", "open"}

\* A handler is told once the call is over, the timer runs while there is
\* nothing to wait for, and what an answer says of the media is still true
\* when its block runs.
ProgressInv ==
    /\ told # "nothing" => request = "none"
    /\ timer => request = "STATUS" /\ answer = "none"
    /\ request \in {"INIT", "APPEND"} => media \in Before
    /\ request = "FINALIZE" /\ answer = "none" => media \in Before
    /\ request = "FINALIZE" /\ answer = "ok" => media = "finalized"
    /\ answer = "succeeded" => media = "succeeded"

\* The tweet is the last request, and is posted once.
TweetInv ==
    /\ tweeted > 0 \/ told = "success" \/ request = "tweet" => media \in Done
    /\ tweeted > 0 => request \in {"tweet", "none"}
    /\ request = "tweet" => tweeting
    /\ request = "tweet" /\ answer = "none" => tweeted = 0
    /\ request = "tweet" /\ answer = "ok" => tweeted = 1
    /\ told = "success" /\ tweeting => tweeted = 1

\* All the data has been received.
Received == count < Len(segments) * ChunkSize

\* The server has the segments 0, 1, ..., and none begins beyond the data.
IsCut ==
    \A i \in 1..Len(segments) : segments[i] = SubData(i - 1) /\ (i - 1) * ChunkSize <= count

\* It has them up to the one that is asked for, and past the last of them
\* nothing is left.
SegmentInv ==
    /\ IsCut
    /\ request = "INIT" => segments = <<>>
    /\ request = "APPEND" => index * ChunkSize <= count
    /\ request = "APPEND" /\ answer = "none" => Len(segments) = index
    /\ request = "APPEND" /\ answer = "ok" => Len(segments) = index + 1
    /\ request = "FINALIZE" \/ media \notin Before => Received

IInv == TypeOK /\ ProgressInv /\ TweetInv /\ SegmentInv

-----------------------------------------------------------------------------
(* The initial states and the steps *)

LEMMA InitIInv == Init => IInv
<1> SUFFICES ASSUME Init PROVE IInv
    OBVIOUS
<1>1. <<>> \in Seq(Seq(1..count)) /\ Len(<<>>) = 0
    OBVIOUS
<1>2. TypeOK
    BY <1>1 DEF Init, TypeOK, Command, MediaState, Processing
<1>3. ProgressInv /\ TweetInv
    BY DEF Init, ProgressInv, TweetInv, Before
<1>4. SegmentInv
    BY <1>1 DEF Init, SegmentInv, IsCut, Before
<1>5. QED
    BY <1>2, <1>3, <1>4 DEF IInv

\* The data of a call does not change, nor do its segments.
LEMMA CountConstant ==
    ASSUME [Next]_vars
    PROVE  /\ count' = count /\ tweeting' = tweeting
           /\ \A i \in Nat : SubData(i)' = SubData(i)
<1>1. count' = count /\ tweeting' = tweeting
    BY DEF Next, vars, call, Client, Server, Process, Failed, OnInit, OnAppend,
           OnFinalize, OnStatus, CheckAfterSecs, OnTweet, ServeInit, ServeAppend,
           ServeFinalize, ServeStatus, ServeTweet, Refuse, Answer
<1>2. QED
    BY <1>1 DEF SubData

LEMMA NextTypeOK == IInv /\ [Next]_vars => TypeOK'
<1> SUFFICES ASSUME IInv, [Next]_vars PROVE TypeOK'
    OBVIOUS
<1> USE CountConstant DEF TypeOK, IInv, Command, MediaState, Processing
<1>1. CASE Client
    <2>1. segments' = segments /\ media' = media /\ tweeted' = tweeted
        BY <1>1 DEF Client, Failed, OnInit, OnAppend, OnFinalize, OnStatus, CheckAfterSecs,
                    OnTweet, server
    <2>2. CASE Failed \/ OnInit \/ OnTweet \/ CheckAfterSecs
        <3>1. /\ told' \in {told, "success", "failure"} /\ answer' \in {"none", answer}
              /\ request' \in {"none", "APPEND", request} /\ index' \in {0, index}
              /\ timer' \in BOOLEAN
            BY <2>2 DEF Failed, OnInit, OnTweet, CheckAfterSecs, Send, Tell, call
        <3>2. QED
            BY <2>1, <3>1
    <2>3. CASE OnFinalize
        BY <2>1, <2>3 DEF OnFinalize, StatusCheck, Uploaded, AskLater, Send, Tell
    <2>4. CASE OnStatus
        BY <2>1, <2>4 DEF OnStatus, StatusCheck, Uploaded, AskLater, Send, Tell
    <2>5. CASE OnAppend
        <3>1. /\ index' \in {index, index + 1} /\ request' \in {"FINALIZE", "APPEND"}
              /\ answer' = "none" /\ told' = told /\ timer' = timer
            BY <2>5 DEF OnAppend, Send, call
        <3>2. QED
            BY <2>1, <3>1
    <2>6. QED
        BY <1>1, <2>2, <2>3, <2>4, <2>5 DEF Client
<1>2. CASE ServeAppend
    <2>1. SubData(index) \in Seq(1..count)
        BY <1>2, SubDataFits DEF ServeAppend, SegmentInv
    <2>2. segments' \in Seq(Seq(1..count))
        BY <1>2, <2>1 DEF ServeAppend
    <2>3. QED
        BY <1>2, <2>2 DEF ServeAppend, Answer, call
<1>3. CASE ServeInit \/ ServeFinalize \/ ServeStatus \/ ServeTweet \/ Refuse \/ Process
    BY <1>3 DEF ServeInit, ServeFinalize, ServeStatus, ServeTweet, Refuse, Process, Answer,
                call, client, server
<1>4. CASE UNCHANGED vars
    BY <1>4 DEF vars, call, client, server
<1>5. QED
    BY <1>1, <1>2, <1>3, <1>4 DEF Next, Server

LEMMA NextProgressInv == IInv /\ [Next]_vars => ProgressInv' /\ TweetInv'
<1> SUFFICES ASSUME IInv, [Next]_vars PROVE ProgressInv' /\ TweetInv'
    OBVIOUS
<1> USE CountConstant
    DEF TypeOK, IInv, ProgressInv, TweetInv, Before, Done, Command, MediaState, Processing
<1>1. CASE Failed \/ OnInit \/ OnAppend \/ OnTweet \/ CheckAfterSecs
    BY <1>1 DEF Failed, OnInit, OnAppend, OnTweet, CheckAfterSecs, Send, Tell, call, server
<1>2. CASE OnFinalize
    BY <1>2 DEF OnFinalize, StatusCheck, Uploaded, AskLater, Send, Tell, server
<1>3. CASE OnStatus
    BY <1>3 DEF OnStatus, StatusCheck, Uploaded, AskLater, Send, Tell, server
<1>4. CASE Server
    BY <1>4 DEF Server, ServeInit, ServeAppend, ServeFinalize, ServeStatus, ServeTweet,
                Refuse, Answer, call, server
<1>5. CASE Process
    BY <1>5 DEF Process, call, client
<1>6. CASE UNCHANGED vars
    BY <1>6 DEF vars, call, client, server
<1>7. QED
    BY <1>1, <1>2, <1>3, <1>4, <1>5, <1>6 DEF Next, Client

LEMMA NextSegmentInv == IInv /\ [Next]_vars => SegmentInv'
<1> SUFFICES ASSUME IInv, [Next]_vars PROVE SegmentInv'
    OBVIOUS
<1> USE CountConstant, NextLocation, SwifterMediaAssumption
    DEF TypeOK, IInv, ProgressInv, SegmentInv, Received, Before
<1>1. CASE UNCHANGED segments
    <2>1. IsCut'
        BY <1>1 DEF IsCut
    <2>2. CASE OnInit
        BY <2>1, <2>2, EmptySeq DEF OnInit, Send, call, server
    <2>3. CASE OnAppend
        <3>1. /\ answer' = "none" /\ media' = media /\ Len(segments') = index + 1
              /\ media \in Before /\ request' \in {"APPEND", "FINALIZE"}
            BY <2>3, <1>1 DEF OnAppend, Send, server
        <3>2. CASE IsLast(index)
            <4>1. request' = "FINALIZE" /\ Received'
                BY <2>3, <3>1, <3>2, <1>1 DEF OnAppend, IsLast, Send
            <4>2. QED
                BY <4>1, <3>1, <2>1
        <3>3. CASE ~IsLast(index)
            <4>1. request' = "APPEND" /\ index' = index + 1 /\ index' * ChunkSize <= count
                BY <2>3, <3>3 DEF OnAppend, IsLast, Send
            <4>2. QED
                BY <4>1, <3>1, <2>1
        <3>4. QED
            BY <3>2, <3>3
    <2>4. CASE Failed \/ OnTweet \/ CheckAfterSecs \/ OnFinalize \/ OnStatus
        BY <2>1, <2>4 DEF Failed, OnTweet, CheckAfterSecs, OnFinalize, OnStatus,
                          StatusCheck, Uploaded, AskLater, Send, Tell, call, server
    <2>5. CASE ServeInit \/ ServeFinalize \/ ServeStatus \/ ServeTweet \/ Refuse
        BY <2>1, <2>5 DEF ServeInit, ServeFinalize, ServeStatus, ServeTweet, Refuse, Answer,
                          call, server
    <2>6. CASE Process \/ UNCHANGED vars
        BY <2>1, <2>6 DEF Process, vars, call, client, server
    <2>7. CASE ServeAppend
        BY <1>1, <2>7 DEF ServeAppend
    <2>8. QED
        BY <2>2, <2>3, <2>4, <2>5, <2>6, <2>7 DEF Next, Client, Server
<1>2. CASE ServeAppend
    <2>1. /\ segments' = Append(segments, SubData(index))
          /\ request' = "APPEND" /\ answer' \in {"ok", "error"}
          /\ index' = index /\ Len(segments) = index /\ media \in Before /\ media' = media
        BY <1>2 DEF ServeAppend, Answer, call
    <2>2. SubData(index) \in Seq(1..count)
        BY <1>2, SubDataFits DEF ServeAppend
    <2>3. /\ Len(segments') = index + 1
          /\ segments'[index + 1] = SubData(index)
          /\ \A i \in 1..Len(segments) : segments'[i] = segments[i]
        BY <2>1, <2>2
    <2>4. request # "INIT" /\ index * ChunkSize <= count
        BY <1>2 DEF ServeAppend
    <2>5. ASSUME NEW i \in 1..Len(segments')
          PROVE  segments'[i] = SubData(i - 1) /\ (i - 1) * ChunkSize <= count
        <3>1. CASE i = index + 1
            <4>1. i - 1 = index
                BY <3>1
            <4>2. QED
                BY <3>1, <4>1, <2>3, <2>4
        <3>2. CASE i \in 1..Len(segments)
            BY <3>2, <2>3 DEF IsCut
        <3>3. QED
            BY <3>1, <3>2, <2>1, <2>3
    <2>6. IsCut'
        BY <2>5 DEF IsCut
    <2>7. QED
        BY <2>1, <2>3, <2>4, <2>6
<1>3. QED
    BY <1>1, <1>2 DEF Next, Client, Server, Failed, OnInit, OnAppend, OnFinalize, OnStatus,
       CheckAfterSecs, OnTweet, ServeInit, ServeFinalize, ServeStatus, ServeTweet, Refuse,
       Process, vars, server

LEMMA AlwaysIInv == Spec => []IInv
<1>1. IInv /\ [Next]_vars => IInv'
    BY NextTypeOK, NextProgressInv, NextSegmentInv DEF IInv
<1>2. QED
    BY <1>1, InitIInv, PTL DEF Spec

-----------------------------------------------------------------------------
(* The theorems *)

\* Every variable keeps its type, and no segment that appendUpload sends
\* reaches beyond the data.
THEOREM TypeCorrect == Spec => []TypeOK
<1>1. IInv => TypeOK
    BY DEF IInv
<1>2. QED
    BY <1>1, AlwaysIInv, PTL

\* subdata is only asked for ranges of the data, and an empty segment is sent
\* for empty data or behind a full last one only, whatever the size is modulo
\* the chunk size.
THEOREM SegmentsFit == Spec => []SegmentInRange
<1>1. IInv => SegmentInRange
    <2> SUFFICES ASSUME IInv, request = "APPEND"
                 PROVE  /\ index * ChunkSize <= count
                        /\ SubData(index) = <<>> => index * ChunkSize = count
        BY DEF SegmentInRange
    <2>1. index \in Nat /\ count \in Nat /\ index * ChunkSize <= count
        BY SwifterMediaAssumption DEF IInv, TypeOK, SegmentInv
    <2>2. QED
        BY <2>1, SubDataFits
<1>2. QED
    BY <1>1, AlwaysIInv, PTL

\* The bytes up to the end of the i-th segment.
Bytes(n) == [b \in 1..n |-> b]
End(i) == IF i * ChunkSize <= count THEN i * ChunkSize ELSE count

LEMMA BytesAppended ==
    ASSUME NEW m \in Nat, NEW n \in Nat
    PROVE  Bytes(m) \o [b \in 1..n |-> m + b] = Bytes(m + n)
<1>1. Bytes(m) \in Seq(Nat) /\ Len(Bytes(m)) = m
    BY DEF Bytes
<1>2. PICK t : t = [b \in 1..n |-> m + b]
    OBVIOUS
<1>3. t \in Seq(Nat) /\ Len(t) = n
    BY <1>2
<1>4. PICK u : u = Bytes(m) \o t
    OBVIOUS
<1>5. /\ u \in Seq(Nat) /\ Len(u) = m + n
      /\ \A b \in 1..(m + n) : u[b] = IF b <= m THEN Bytes(m)[b] ELSE t[b - m]
    <2>1. /\ u \in Seq(Nat) /\ Len(u) = Len(Bytes(m)) + Len(t)
          /\ \A b \in 1..(Len(Bytes(m)) + Len(t)) :
                u[b] = IF b <= Len(Bytes(m)) THEN Bytes(m)[b] ELSE t[b - Len(Bytes(m))]
        BY <1>1, <1>3, <1>4, ConcatProperties, Zenon
    <2>2. QED
        BY <2>1, <1>1, <1>3
<1>6. \A b \in 1..(m + n) : u[b] = b
    <2> TAKE b \in 1..(m + n)
    <2>1. CASE b <= m
        BY <2>1, <1>5 DEF Bytes
    <2>2. CASE b > m
        <3>1. b - m \in 1..n /\ m + (b - m) = b /\ u[b] = t[b - m]
            BY <2>2, <1>5
        <3>2. QED
            BY <3>1, <1>2
    <2>3. QED
        BY <2>1, <2>2
<1>7. u = [b \in 1..(m + n) |-> u[b]]
    BY <1>5
<1>8. QED
    BY <1>2, <1>4, <1>6, <1>7 DEF Bytes

\* The i-th segment begins where the one before it ends.
LEMMA SegmentEnds ==
    ASSUME NEW i \in Nat \ {0}, count \in Nat, (i - 1) * ChunkSize <= count
    PROVE  /\ End(i) \in Nat
           /\ i = 1 => SubData(i - 1) = Bytes(End(i))
           /\ i > 1 => /\ End(i - 1) \in Nat
                       /\ Bytes(End(i - 1)) \o SubData(i - 1) = Bytes(End(i))
<1>1. PICK j \in Nat : j = i - 1 /\ i = j + 1
    <2>1. i - 1 \in Nat /\ i = (i - 1) + 1
        OBVIOUS
    <2>2. QED
        BY <2>1
<1>2. PICK location \in Nat : /\ location = j * ChunkSize
                              /\ i * ChunkSize = location + ChunkSize
    BY <1>1, NextLocation
<1>3. ChunkSize \in Nat /\ ChunkSize > 0 /\ location <= count
    BY <1>1, <1>2, SwifterMediaAssumption
<1>4. PICK length \in Nat : /\ length = Length(location)
                            /\ SubData(j) = [n \in 1..length |-> location + n]
    <2>1. j * ChunkSize <= count
        BY <1>2, <1>3
    <2>2. /\ Length(j * ChunkSize) \in Nat
          /\ SubData(j) = [n \in 1..Length(j * ChunkSize) |-> j * ChunkSize + n]
        BY <2>1, SubDataFits
    <2>3. QED
        BY <2>2, <1>2
<1>5. j = 0 => location = 0
    BY <1>2, <1>3
<1>6. j # 0 => location >= ChunkSize
    <2>1. ASSUME j # 0 PROVE location >= ChunkSize
        <3>1. PICK k \in Nat : j = k + 1
            <4>1. j - 1 \in Nat /\ j = (j - 1) + 1
                BY <2>1
            <4>2. QED
                BY <4>1
        <3>2. location = k * ChunkSize + ChunkSize /\ k * ChunkSize \in Nat
            BY <3>1, <1>2, NextLocation
        <3>3. QED
            BY <3>2, <1>3
    <2>2. QED
        BY <2>1
<1>7. End(i) = location + length /\ End(j) = location
    BY <1>2, <1>3, <1>4, <1>5, <1>6 DEF End, Length
<1>8. ASSUME i = 1 PROVE SubData(i - 1) = Bytes(End(i))
    <2>1. location = 0
        BY <1>8, <1>1, <1>5
    <2>2. End(i) = length /\ \A n \in 1..length : location + n = n
        BY <2>1, <1>7
    <2>3. QED
        BY <2>2, <1>1, <1>4 DEF Bytes
<1>9. Bytes(End(i - 1)) \o SubData(i - 1) = Bytes(End(i))
    <2>1. Bytes(location) \o [n \in 1..length |-> location + n] = Bytes(location + length)
        BY BytesAppended
    <2>2. QED
        BY <2>1, <1>1, <1>4, <1>7
<1>10. End(i) \in Nat /\ End(i - 1) \in Nat
    BY <1>1, <1>7
<1>11. QED
    BY <1>8, <1>9, <1>10

\* FlattenSeq is what its recursion says it is: a solution of it is the only
\* one, for there is no smallest number where two differ.
Solves(f, s, n) == f = [i \in 1..n |-> IF i = 1 THEN s[i] ELSE f[i - 1] \o s[i]]

LEMMA Flattened ==
    ASSUME NEW s, NEW n \in Nat \ {0}, Len(s) = n, NEW g, Solves(g, s, n)
    PROVE  FlattenSeq(s) = g[n]
<1>1. PICK f : Solves(f, s, n) /\ FlattenSeq(s) = f[n]
    <2>1. FlattenSeq(s) = (CHOOSE f : Solves(f, s, n))[n]
        BY DEF FlattenSeq, Solves
    <2>2. Solves(CHOOSE f : Solves(f, s, n), s, n)
        BY Zenon
    <2>3. QED
        BY <2>1, <2>2
<1> DEFINE Bad == {i \in 1..n : f[i] # g[i]}
<1>2. SUFFICES ASSUME Bad # {} PROVE FALSE
    <2>1. n \in 1..n
        OBVIOUS
    <2>2. QED
        BY <1>1, <2>1
<1>3. PICK k \in Bad : \A i \in Bad : k <= i
    <2>1. Bad \in SUBSET Nat
        OBVIOUS
    <2>2. QED
        BY <1>2, <2>1, LeastNumber
<1>4. k = 1 => f[k] = g[k]
    BY <1>1 DEF Solves
<1>5. k # 1 => f[k] = g[k]
    <2>1. ASSUME k # 1 PROVE f[k - 1] = g[k - 1] /\ k \in 1..n
        <3>1. k - 1 \in 1..n /\ ~(k <= k - 1)
            BY <2>1
        <3>2. QED
            BY <3>1, <1>3
    <2>2. ASSUME k # 1 PROVE f[k] = f[k - 1] \o s[k] /\ g[k] = g[k - 1] \o s[k]
        BY <1>1, <2>1, <2>2 DEF Solves
    <2>3. QED
        BY <2>1, <2>2
<1>6. QED
    BY <1>4, <1>5

\* What FINALIZE finds is the whole media, every byte once and in order,
\* whatever its size is and whatever was refused, lost or answered late.
THEOREM FinalizedWhole == Spec => []FinalizedIsWhole
<1>1. IInv => FinalizedIsWhole
    <2> SUFFICES ASSUME IInv, media \notin Before
                 PROVE  FlattenSeq(segments) = Bytes(count)
        BY DEF FinalizedIsWhole, Before, Bytes
    <2>1. PICK n \in Nat : n = Len(segments)
        BY DEF IInv, TypeOK
    <2>2. /\ count \in Nat /\ count < n * ChunkSize
          /\ \A i \in 1..n : segments[i] = SubData(i - 1) /\ (i - 1) * ChunkSize <= count
        BY <2>1, SwifterMediaAssumption DEF IInv, TypeOK, SegmentInv, IsCut, Received
    <2>3. n \in Nat \ {0} /\ Len(segments) = n
        BY <2>1, <2>2, SwifterMediaAssumption
    <2> PICK g : g = [i \in 1..n |-> Bytes(End(i))]
        OBVIOUS
    <2>4. ASSUME NEW i \in 1..n
          PROVE  g[i] = IF i = 1 THEN segments[i] ELSE g[i - 1] \o segments[i]
        <3>1. i = 1 => g[i] = segments[i]
            BY <2>2, SegmentEnds
        <3>2. ASSUME i # 1 PROVE g[i] = g[i - 1] \o segments[i]
            <4>1. i - 1 \in 1..n /\ i > 1 /\ i \in Nat \ {0}
                BY <3>2
            <4>2. g[i - 1] = Bytes(End(i - 1)) /\ g[i] = Bytes(End(i))
                BY <4>1
            <4>3. QED
                BY <4>1, <4>2, <2>2, SegmentEnds
        <3>3. QED
            BY <3>1, <3>2
    <2>5. Solves(g, segments, n)
        <3>1. DOMAIN g = 1..n /\ g = [i \in 1..n |-> g[i]]
            OBVIOUS
        <3>2. QED
            BY <2>4, <3>1, Zenon DEF Solves
    <2>6. g[n] = Bytes(End(n)) /\ End(n) = count
        BY <2>2, <2>3, SwifterMediaAssumption DEF End
    <2>7. FlattenSeq(segments) = g[n]
        BY <2>3, <2>5, Flattened, Zenon
    <2>8. QED
        BY <2>6, <2>7
<1>2. QED
    BY <1>1, AlwaysIInv, PTL

\* Success is told, and the tweet is posted, once and only with media that the
\* server is through with, over any number of STATUS requests.
THEOREM SuccessIsTrue == Spec => []SuccessIsProcessed
<1>1. IInv => SuccessIsProcessed
    BY DEF IInv, TweetInv, Done, SuccessIsProcessed
<1>2. QED
    BY <1>1, AlwaysIInv, PTL
=============================================================================
