---------------------------- MODULE SwifterMedia ----------------------------
(***************************************************************************)
(* Swifter's chunked media upload, and the tweet posted with it:           *)
(*                                                                         *)
(*   INIT, APPEND for each segment, FINALIZE, STATUS until the media is    *)
(*   processed, and for postTweetWithGif the tweet.                        *)
(*                                                                         *)
(* Each step sends one HTTP request and goes on in the block that gets its *)
(* answer, on the main queue.  The server may refuse any request, and the  *)
(* request or its answer may be lost.                                      *)
(***************************************************************************)
EXTENDS Integers, Sequences, FiniteSets, FiniteSetsExt, SequencesExt

CONSTANTS
    ChunkSize,   \* bytes in a segment, 2 MiB in the code
    MaxSize      \* bound: the largest media, in bytes

ASSUME SwifterMediaAssumption ==
    /\ ChunkSize \in Nat \ {0}
    /\ MaxSize \in Nat

VARIABLES
    \* The call
    count,     \* data.count
    tweeting,  \* postTweetWithGif, not postMultipartMedia
    told,      \* what the caller's handlers heard: "nothing", ...
    \* The request that the call waits for
    request,   \* its command
    index,     \* segment_index of an APPEND
    answer,    \* the server's answer underway to the client, or "none"
    timer,     \* a STATUS request waits for asyncAfter
    \* The server
    segments,  \* the segments received: sequences of byte positions
    media,     \* the state of the media
    tweeted    \* tweets posted with the media

call == <<count, tweeting, told>>
client == <<request, index, answer, timer>>
server == <<segments, media, tweeted>>
vars == <<call, client, server>>

Command == {"none", "INIT", "APPEND", "FINALIZE", "STATUS", "tweet"}

\* The states that processing_info may have.
Processing == {"pending", "in_progress", "succeeded", "failed"}
MediaState == {"none", "open", "finalized"} \cup Processing

-----------------------------------------------------------------------------
(* The segments *)

\* Faulty: the segment always has the full size.
FullSegment(i) == [n \in 1..ChunkSize |-> i * ChunkSize + n]

\* appendUpload's subdata: the bytes of segment i, numbered from 1.
SubData(i) ==
    LET location == i * ChunkSize
        length == IF count < ChunkSize THEN count ELSE Min({count - location, ChunkSize})
    IN  [n \in 1..length |-> location + n]

\* Faulty: a short last segment is left out.
IsLastFull(i) == count < (i + 2) * ChunkSize

\* Faulty: the index of the segment just sent is compared.
IsLastLate(i) == count < i * ChunkSize

\* Whether appendUpload is through after segment i.
IsLast(i) == count < (i + 1) * ChunkSize

-----------------------------------------------------------------------------
(* Requests and answers *)

Init ==
    /\ count \in 0..MaxSize
    /\ tweeting \in BOOLEAN
    /\ told = "nothing"
    /\ request = "INIT"
    /\ index = 0
    /\ answer = "none"
    /\ timer = FALSE
    /\ segments = <<>>
    /\ media = "none"
    /\ tweeted = 0

Send(command) ==
    /\ request' = command
    /\ answer' = "none"

Tell(what) ==
    /\ told' = what
    /\ Send("none")

\* The server carries out the request and answers.  A request that it never
\* gets, or whose answer is lost, is reported as failed.
Answer(what) ==
    /\ answer = "none"
    /\ answer' \in {what, "error"}
    /\ UNCHANGED <<call, request, index, timer>>

ServeInit ==
    /\ request = "INIT"
    /\ Answer("ok")
    /\ media' = "open"
    /\ UNCHANGED <<segments, tweeted>>

ServeAppend ==
    /\ request = "APPEND"
    /\ Answer("ok")
    /\ segments' = Append(segments, SubData(index))
    /\ UNCHANGED <<media, tweeted>>

\* FINALIZE: an image is ready at once; of a video the answer tells how far the
\* processing in the background is, which may be through already.
ServeFinalize ==
    /\ request = "FINALIZE"
    /\ \/ Answer("ok") /\ media' = "finalized"
       \/ \E state \in Processing : Answer(state) /\ media' = state
    /\ UNCHANGED <<segments, tweeted>>

\* STATUS reports the state the media is in.
ServeStatus ==
    /\ request = "STATUS"
    /\ ~timer
    /\ Answer(media)
    /\ UNCHANGED server

ServeTweet ==
    /\ request = "tweet"
    /\ Answer("ok")
    /\ tweeted' = tweeted + 1
    /\ UNCHANGED <<segments, media>>

\* The server refuses a request, or never gets it.
Refuse ==
    /\ request # "none" /\ ~timer
    /\ answer = "none"
    /\ answer' = "error"
    /\ UNCHANGED <<call, request, index, timer, server>>

Process ==
    /\ \/ media = "pending" /\ media' = "in_progress"
       \/ media = "in_progress" /\ media' \in {"succeeded", "failed"}
    /\ UNCHANGED <<call, client, segments, tweeted>>

-----------------------------------------------------------------------------
(* The blocks that get the answers *)

\* HTTPRequest's didCompleteWithError, and the guards against a bad response:
\* every step hands its failure handler on.
Failed ==
    /\ answer = "error"
    /\ Tell("failure")
    /\ UNCHANGED <<count, tweeting, index, timer, server>>

\* The block of prepareUpload.
OnInit ==
    /\ request = "INIT" /\ answer = "ok"
    /\ Send("APPEND")
    /\ index' = 0
    /\ UNCHANGED <<call, timer, server>>

\* The block of appendUpload.
OnAppend ==
    /\ request = "APPEND" /\ answer = "ok"
    /\ IF IsLast(index)
       THEN Send("FINALIZE") /\ UNCHANGED index
       ELSE Send("APPEND") /\ index' = index + 1
    /\ UNCHANGED <<call, timer, server>>

\* The media is ready: postTweet, or the caller's success handler.
Uploaded ==
    /\ IF tweeting
       THEN Send("tweet") /\ UNCHANGED told
       ELSE Tell("success")
    /\ UNCHANGED timer

\* Faulty: processing is not waited for.
OnFinalizeImpatient ==
    /\ request = "FINALIZE" /\ answer \in {"ok"} \cup Processing
    /\ Uploaded
    /\ UNCHANGED <<count, tweeting, index, server>>

AskLater ==
    /\ Send("STATUS")
    /\ timer' = TRUE
    /\ UNCHANGED told

\* Faulty: only a pending media is asked for again.
StatusCheckOnce ==
    CASE answer = "succeeded"   -> Uploaded
      [] answer = "pending"     -> AskLater
      [] answer = "in_progress" -> Send("none") /\ UNCHANGED <<told, timer>>
      [] OTHER                  -> Tell("failure") /\ UNCHANGED timer

\* statusCheck: asks again later, or is through.
StatusCheck ==
    CASE answer = "succeeded"                  -> Uploaded
      [] answer \in {"pending", "in_progress"} -> AskLater
      [] OTHER                                 -> Tell("failure") /\ UNCHANGED timer

\* The block of finalizeUpload.
OnFinalize ==
    /\ request = "FINALIZE" /\ answer \in {"ok"} \cup Processing
    /\ IF answer = "ok" THEN Uploaded ELSE StatusCheck
    /\ UNCHANGED <<count, tweeting, index, server>>

\* The block of statusUpload.
OnStatus ==
    /\ request = "STATUS" /\ answer \in MediaState \ {"none"}
    /\ StatusCheck
    /\ UNCHANGED <<count, tweeting, index, server>>

CheckAfterSecs ==
    /\ timer
    /\ timer' = FALSE
    /\ UNCHANGED <<call, request, index, answer, server>>

\* The block of postTweet.
OnTweet ==
    /\ request = "tweet" /\ answer = "ok"
    /\ Tell("success")
    /\ UNCHANGED <<count, tweeting, index, timer, server>>

-----------------------------------------------------------------------------

Client ==
    \/ Failed \/ OnInit \/ OnAppend \/ OnFinalize \/ OnStatus \/ CheckAfterSecs \/ OnTweet

Server ==
    \/ ServeInit \/ ServeAppend \/ ServeFinalize \/ ServeStatus \/ ServeTweet \/ Refuse

Next == Client \/ Server \/ Process

Spec == Init /\ [][Next]_vars

\* URLSession answers every request, if only with a timeout, the main queue
\* and asyncAfter go on, and the server finishes what it processes.
Fairness == WF_vars(Client) /\ WF_vars(Server) /\ WF_vars(Process)

FairSpec == Spec /\ Fairness

-----------------------------------------------------------------------------
(* Properties *)

\* Every variable has its type, and no segment reaches beyond the data.
TypeOK ==
    /\ count \in 0..MaxSize
    /\ tweeting \in BOOLEAN
    /\ told \in {"nothing", "success", "failure"}
    /\ request \in Command
    /\ index \in Nat
    /\ answer \in {"none", "ok", "error"} \cup MediaState
    /\ timer \in BOOLEAN
    /\ segments \in Seq(Seq(1..count))
    /\ media \in MediaState
    /\ tweeted \in Nat

\* What is finalized is the whole media: the server has every byte once and in
\* order, whatever its size is modulo the chunk size.
FinalizedIsWhole ==
    media \notin {"none", "open"} => FlattenSeq(segments) = [n \in 1..count |-> n]

\* appendUpload only ever asks subdata for a range of the data (it traps
\* otherwise), and sends an empty segment only for empty data or behind a full
\* last one.
SegmentInRange ==
    request = "APPEND" =>
        /\ index * ChunkSize <= count
        /\ SubData(index) = <<>> => index * ChunkSize = count

\* A caller is told of success, and a tweet is posted, only with media that
\* the server has finished with, and the tweet is posted once.
SuccessIsProcessed ==
    told = "success" \/ tweeted > 0 =>
        /\ media \in {"finalized", "succeeded"}
        /\ told = "success" /\ tweeting => tweeted = 1

\* Every upload ends with one of the caller's handlers, through any number of
\* STATUS requests.
CallerIsTold == <>(told # "nothing")
=============================================================================
