---------------------------- MODULE MessageStore ----------------------------
(***************************************************************************)
(* What the Firestore client promises to the chat app, with no queue,      *)
(* stream, timer or batch id in sight: every user of the device has an     *)
(* outbox of messages in the order the app handed them in, the backend     *)
(* stores each message at most once and in that order, and the completion  *)
(* block of addDocument hears about a message at most once, and hears      *)
(* "saved" only when the backend has stored it.                            *)
(*                                                                         *)
(* FirestoreWrites is the implementation; it is shown to refine this       *)
(* module.                                                                 *)
(***************************************************************************)
EXTENDS Integers, Sequences, SequencesExt

CONSTANTS
    User,     \* the users that sign in on this device, signed out included
    Message   \* message documents; addDocument gives each a fresh id

VARIABLES
    submitted,  \* [User -> Seq(Message)]: every message, in the order written
    settled,    \* the messages the client has finished with
    committed,  \* the backend's message collection, in order of creation
    waiting,    \* messages whose completion block has not been called yet
    outcome     \* [Message -> Outcome]: what the completion block was told

vars == <<submitted, settled, committed, waiting, outcome>>

Outcome == {"none", "ok", "error"}

SubmittedBy(u, m) == Contains(submitted[u], m)

Committed(m) == Contains(committed, m)

\* m is the message of u that the client finishes with next: everything u
\* wrote before it is settled.
OldestPending(u, m) ==
    \E i \in DOMAIN submitted[u] :
        /\ submitted[u][i] = m
        /\ m \notin settled
        /\ \A j \in 1..(i - 1) : submitted[u][j] \in settled

Init ==
    /\ submitted = [u \in User |-> <<>>]
    /\ settled = {}
    /\ committed = <<>>
    /\ waiting = {}
    /\ outcome = [m \in Message |-> "none"]

\* The app hands in a new message of the signed-in user.
Submit(u, m) ==
    /\ \A v \in User : ~SubmittedBy(v, m)
    /\ submitted' = [submitted EXCEPT ![u] = Append(@, m)]
    /\ waiting' = waiting \cup {m}
    /\ UNCHANGED <<settled, committed, outcome>>

\* The backend stores a message, never before an older one of the same user
\* that is still pending.
Commit(u, m) ==
    /\ ~Committed(m)
    /\ \E i \in DOMAIN submitted[u] :
          /\ submitted[u][i] = m
          /\ m \notin settled
          /\ \A j \in 1..(i - 1) :
                submitted[u][j] \in settled \/ Committed(submitted[u][j])
    /\ committed' = Append(committed, m)
    /\ UNCHANGED <<submitted, settled, waiting, outcome>>

Tell(m, result) ==
    outcome' = IF m \in waiting THEN [outcome EXCEPT ![m] = result] ELSE outcome

\* The client is done with a user's oldest pending message.
Settle(u, m, result) ==
    /\ OldestPending(u, m)
    /\ result = "ok" => Committed(m)
    /\ settled' = settled \cup {m}
    /\ Tell(m, result)
    /\ waiting' = waiting \ {m}
    /\ UNCHANGED <<submitted, committed>>

\* The app is killed and launched again: completion blocks are gone, pending
\* messages are not.
Relaunch ==
    /\ waiting' = {}
    /\ UNCHANGED <<submitted, settled, committed, outcome>>

\* The app is killed after the completion block heard "saved" and before the
\* client recorded that it is finished with the message.
RelaunchAfterTelling(u, m) ==
    /\ OldestPending(u, m)
    /\ Committed(m)
    /\ Tell(m, "ok")
    /\ waiting' = {}
    /\ UNCHANGED <<submitted, settled, committed>>

Next ==
    \/ \E u \in User, m \in Message :
          \/ Submit(u, m)
          \/ Commit(u, m)
          \/ \E result \in {"ok", "error"} : Settle(u, m, result)
          \/ RelaunchAfterTelling(u, m)
    \/ Relaunch

Spec == Init /\ [][Next]_vars
=============================================================================
