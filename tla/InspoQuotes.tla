---------------------------- MODULE InspoQuotes ----------------------------
(***************************************************************************)
(* The quote app's in-app purchase: its one table view controller, which   *)
(* is also the observer of StoreKit's payment queue.                       *)
(*                                                                         *)
(* The payment queue outlives the process: StoreKit shows an observer      *)
(* every transaction that has not been finished, again at each launch.     *)
(* Taps and updatedTransactions run on the main thread, one at a time; the *)
(* process may die between any two statements of updatedTransactions.      *)
(***************************************************************************)
EXTENDS Integers, Sequences, FiniteSets

CONSTANTS
    Transaction,    \* bound: the transactions that payments and restores make
    FreeQuotes,     \* how many quotes everybody sees
    PremiumQuotes   \* how many more a purchase shows

ASSUME InspoQuotesAssumption ==
    /\ FreeQuotes \in Nat
    /\ PremiumQuotes \in Nat \ {0}

VARIABLES
    \* StoreKit: survives the process.
    state,        \* [Transaction -> State]
    charged,      \* the account owns the product
    restoring,    \* restoreCompletedTransactions has not been answered yet
    \* UserDefaults: survives the process.
    purchased,
    \* The process.
    running,
    showing,      \* quotesToShow.count
    rows,         \* the rows the table view counts on
    restoreButton,
    shown,        \* the transactions this process has been told of
    batch,        \* those that updatedTransactions still has to go through
    step          \* how far it has got with the first of them

store == <<state, charged, restoring>>
screen == <<showing, rows, restoreButton>>
callback == <<shown, batch, step>>
vars == <<store, purchased, running, screen, callback>>

\* "none": not used yet; a finished transaction is never shown again.
State == {"none", "purchasing", "purchased", "restored", "failed", "finished"}

Step == {"first", "remembered", "displayed"}

Paid(t) == state[t] \in {"purchased", "restored"}

\* Transactions that StoreKit tells a newly added observer about.
Unfinished == {t \in Transaction : Paid(t) \/ state[t] = "failed"}

-----------------------------------------------------------------------------
(* The table *)

\* numberOfRowsInSection: the last row offers the purchase.
NumberOfRows(count, bought) == IF bought THEN count ELSE count + 1

\* reloadData: the table counts again, and isPurchased takes the restore
\* button away as soon as the product is bought.
ReloadData(count) ==
    /\ rows' = NumberOfRows(count, purchased)
    /\ restoreButton' = (restoreButton /\ ~purchased)

\* Faulty: the table is not reloaded.
AppendPremiumQuotes ==
    /\ showing' = showing + PremiumQuotes
    /\ UNCHANGED <<rows, restoreButton>>

\* showPremiumQuotes appends, however often it is called.
ShowPremiumQuotes ==
    /\ showing' = showing + PremiumQuotes
    /\ ReloadData(showing')

-----------------------------------------------------------------------------

\* The product may have been bought on another device.
Init ==
    /\ state = [t \in Transaction |-> "none"]
    /\ charged \in BOOLEAN
    /\ restoring = FALSE
    /\ purchased = FALSE
    /\ running = FALSE
    /\ showing = 0
    /\ rows = 0
    /\ restoreButton = FALSE
    /\ shown = {}
    /\ batch = <<>>
    /\ step = "first"

\* Launch and viewDidLoad: the observer is added, and a purchase made earlier
\* is shown.
ViewDidLoad ==
    /\ ~running
    /\ running' = TRUE
    /\ showing' = IF purchased THEN FreeQuotes + PremiumQuotes ELSE FreeQuotes
    /\ rows' = NumberOfRows(showing', purchased)
    /\ restoreButton' = ~purchased
    /\ UNCHANGED <<store, purchased, callback>>

\* The process dies, wherever it is.
Kill ==
    /\ running
    /\ running' = FALSE
    /\ restoring' = FALSE
    /\ shown' = {}
    /\ batch' = <<>>
    /\ step' = "first"
    /\ UNCHANGED <<state, charged, purchased, screen>>

\* The main thread is free for a tap.
Ready == running /\ batch = <<>>

\* didSelectRowAt and buyPremiumQuotes: a tap on the row behind the quotes.
\* Nothing keeps it from being tapped again before the payment is through.
DidSelectBuyRow(t) ==
    /\ Ready
    /\ showing < rows
    /\ state[t] = "none"
    /\ state' = [state EXCEPT ![t] = "purchasing"]
    /\ UNCHANGED <<charged, restoring, purchased, running, screen, callback>>

RestorePressed ==
    /\ Ready
    /\ restoreButton
    /\ restoring' = TRUE
    /\ UNCHANGED <<state, charged, purchased, running, screen, callback>>

-----------------------------------------------------------------------------
(* StoreKit *)

\* A payment goes through.  Buying what the account owns costs nothing and is
\* reported all the same.
PaymentSucceeds(t) ==
    /\ state[t] = "purchasing"
    /\ state' = [state EXCEPT ![t] = "purchased"]
    /\ charged' = TRUE
    /\ UNCHANGED <<restoring, purchased, running, screen, callback>>

PaymentFails(t) ==
    /\ state[t] = "purchasing"
    /\ state' = [state EXCEPT ![t] = "failed"]
    /\ UNCHANGED <<charged, restoring, purchased, running, screen, callback>>

\* The answer to restoreCompletedTransactions: a transaction for the product
\* if the account owns it.
RestoreAnswered(t) ==
    /\ restoring
    /\ restoring' = FALSE
    /\ IF charged
       THEN /\ state[t] = "none"
            /\ state' = [state EXCEPT ![t] = "restored"]
       ELSE UNCHANGED state
    /\ UNCHANGED <<charged, purchased, running, screen, callback>>

\* updatedTransactions is called with transactions the observer has not been
\* told of.
UpdatedTransactions(news) ==
    /\ Ready
    /\ news # <<>>
    /\ batch' = news
    /\ shown' = shown \cup {news[i] : i \in DOMAIN news}
    /\ UNCHANGED <<store, purchased, running, screen, step>>

-----------------------------------------------------------------------------
(* updatedTransactions, statement by statement, for the first transaction *)

FinishTransaction ==
    /\ state' = [state EXCEPT ![Head(batch)] = "finished"]
    /\ batch' = Tail(batch)
    /\ step' = "first"
    /\ UNCHANGED <<charged, restoring, purchased, running, screen, shown>>

\* Faulty: a payment that failed is remembered as well.
RememberAny ==
    /\ batch # <<>> /\ step = "first"
    /\ purchased' = TRUE
    /\ step' = IF Paid(Head(batch)) THEN "remembered" ELSE step
    /\ UNCHANGED <<store, running, screen, shown, batch>>

\* Faulty: the flag is not written.
RememberNothing ==
    /\ batch # <<>> /\ step = "first"
    /\ Paid(Head(batch))
    /\ step' = "remembered"
    /\ UNCHANGED <<store, purchased, running, screen, shown, batch>>

\* UserDefaults.standard.set(true, forKey: productID)
Remember ==
    /\ batch # <<>> /\ step = "first"
    /\ Paid(Head(batch))
    /\ purchased' = TRUE
    /\ step' = "remembered"
    /\ UNCHANGED <<store, running, screen, shown, batch>>

Display ==
    /\ batch # <<>> /\ step = "remembered"
    /\ ShowPremiumQuotes
    /\ step' = "displayed"
    /\ UNCHANGED <<store, purchased, running, shown, batch>>

\* Faulty: the rest of the callback's transactions is forgotten.
FinishOnlyFirst ==
    /\ batch # <<>> /\ step = "displayed"
    /\ state' = [state EXCEPT ![Head(batch)] = "finished"]
    /\ batch' = <<>>
    /\ step' = "first"
    /\ UNCHANGED <<charged, restoring, purchased, running, screen, shown>>

FinishPurchase ==
    /\ batch # <<>> /\ step = "displayed"
    /\ FinishTransaction

FinishFailed ==
    /\ batch # <<>> /\ state[Head(batch)] = "failed"
    /\ FinishTransaction

-----------------------------------------------------------------------------

\* What StoreKit may tell the observer at once: one or two transactions, in
\* any order.
News ==
    LET untold == Unfinished \ shown
    IN  {<<t>> : t \in untold}
        \cup {<<p[1], p[2]>> : p \in {q \in untold \X untold : q[1] # q[2]}}

Next ==
    \/ ViewDidLoad
    \/ Kill
    \/ RestorePressed
    \/ \E t \in Transaction :
          \/ DidSelectBuyRow(t)
          \/ PaymentSucceeds(t)
          \/ PaymentFails(t)
          \/ RestoreAnswered(t)
    \/ \E news \in News : UpdatedTransactions(news)
    \/ Remember
    \/ Display
    \/ FinishPurchase
    \/ FinishFailed

Spec == Init /\ [][Next]_vars

\* The main thread goes on with what it has begun, and StoreKit tells of all
\* unfinished transactions.  Nobody has to launch the app.
Fairness ==
    /\ WF_vars(Remember)
    /\ WF_vars(Display)
    /\ WF_vars(FinishPurchase)
    /\ WF_vars(FinishFailed)
    /\ WF_vars(\E news \in News : UpdatedTransactions(news))

FairSpec == Spec /\ Fairness

-----------------------------------------------------------------------------
(* Properties *)

\* The table counts on a row for each quote and at most one more.
TypeOK ==
    /\ state \in [Transaction -> State]
    /\ charged \in BOOLEAN
    /\ restoring \in BOOLEAN
    /\ purchased \in BOOLEAN
    /\ running \in BOOLEAN
    /\ showing \in Nat
    /\ rows \in {showing, showing + 1}
    /\ restoreButton \in BOOLEAN
    /\ shown \subseteq Transaction
    /\ batch \in Seq(Transaction)
    /\ step \in Step

\* A payment is never lost: StoreKit goes on telling of a transaction until
\* it is finished, and at whichever statement the process dies a transaction
\* that was paid for or restored is only finished with the flag on disk.
PurchaseNotForgotten ==
    [][\A t \in Transaction :
          Paid(t) /\ state'[t] = "finished" => purchased']_vars

\* Premium quotes are on the screen, and the flag on disk, only for an account
\* that has the product: no failed or pending payment shows them.
PremiumIsPaid == purchased \/ showing > FreeQuotes => charged

\* Between the callbacks the table has a row per quote, and one more exactly
\* as long as the product is for sale: the tap on the row behind the quotes
\* that didSelectRowAt takes for an order is on the offer, and no quote is
\* without a row.
RowsAreQuotesAndOffer ==
    Ready => rows = NumberOfRows(showing, purchased)

\* However often the process dies, once it is left running every payment that
\* went through is finished, remembered and on the screen.
PaidIsSettled ==
    <>[]running =>
        \A t \in Transaction :
            Paid(t) ~> /\ state[t] = "finished"
                       /\ purchased
                       /\ showing >= FreeQuotes + PremiumQuotes
=============================================================================
