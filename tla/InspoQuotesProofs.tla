-------------------------- MODULE InspoQuotesProofs --------------------------
(***************************************************************************)
(* Proofs about the quote app's purchase, for any set of transactions, any *)
(* number of quotes, and the process dying anywhere: an inductive          *)
(* invariant ties the flag on disk, the transaction that                   *)
(* updatedTransactions is at and the table together, statement by          *)
(* statement.                                                              *)
(***************************************************************************)
EXTENDS InspoQuotes, SequenceTheorems, TLAPS

(* The inductive invariant *)

\* A payment that went through, the flag and the premium quotes all stem from
\* an account that owns the product.
OwnedInv ==
    /\ \A t \in Transaction : Paid(t) => charged
    /\ purchased => charged
    /\ showing > FreeQuotes => purchased

\* Past its first statement updatedTransactions is at a transaction that was
\* paid for, with the flag on disk.
StepInv ==
    step # "first" => batch # <<>> /\ Paid(Head(batch)) /\ purchased

\* The table has counted on the flag, but for the one statement in between.
TableInv ==
    running /\ step # "remembered" => rows = NumberOfRows(showing, purchased)

IInv == TypeOK /\ OwnedInv /\ StepInv /\ TableInv

-----------------------------------------------------------------------------
(* The initial states and the steps *)

LEMMA InitIInv == Init => IInv
<1> SUFFICES ASSUME Init PROVE IInv
    OBVIOUS
<1> USE InspoQuotesAssumption
<1>1. TypeOK
    <2>1. <<>> \in Seq(Transaction)
        OBVIOUS
    <2>2. QED
        BY <2>1 DEF Init, TypeOK, State, Step
<1>2. OwnedInv
    BY DEF Init, OwnedInv, Paid
<1>3. StepInv /\ TableInv
    BY DEF Init, StepInv, TableInv
<1>4. QED
    BY <1>1, <1>2, <1>3 DEF IInv

\* The first transaction of the batch is one.
LEMMA HeadType ==
    ASSUME TypeOK, batch # <<>>
    PROVE  Head(batch) \in Transaction /\ Tail(batch) \in Seq(Transaction)
BY DEF TypeOK

LEMMA NextIInv == IInv /\ [Next]_vars => IInv'
<1> SUFFICES ASSUME IInv, [Next]_vars PROVE IInv'
    OBVIOUS
<1> USE InspoQuotesAssumption DEF IInv
<1>1. CASE ViewDidLoad
    <2> USE <1>1 DEF ViewDidLoad, store, callback
    <2>1. TypeOK'
        BY DEF TypeOK, NumberOfRows
    <2>2. OwnedInv' /\ StepInv' /\ TableInv'
        BY DEF TypeOK, OwnedInv, StepInv, TableInv, Paid
    <2>3. QED
        BY <2>1, <2>2
<1>2. CASE Kill
    <2> USE <1>2 DEF Kill, screen
    <2>1. <<>> \in Seq(Transaction)
        OBVIOUS
    <2>2. TypeOK'
        BY <2>1 DEF TypeOK, Step
    <2>3. OwnedInv' /\ StepInv' /\ TableInv'
        BY DEF OwnedInv, StepInv, TableInv, Paid
    <2>4. QED
        BY <2>2, <2>3
<1>3. CASE RestorePressed
    <2> USE <1>3 DEF RestorePressed, screen, callback
    <2>1. TypeOK'
        BY DEF TypeOK
    <2>2. OwnedInv' /\ StepInv' /\ TableInv'
        BY DEF OwnedInv, StepInv, TableInv, Paid
    <2>3. QED
        BY <2>1, <2>2
<1>4. CASE \E t \in Transaction : DidSelectBuyRow(t) \/ PaymentFails(t)
    <2> PICK t \in Transaction : DidSelectBuyRow(t) \/ PaymentFails(t)
        BY <1>4
    <2> USE DEF DidSelectBuyRow, PaymentFails, screen, callback
    <2>1. TypeOK'
        BY DEF TypeOK, State
    <2>2. OwnedInv' /\ TableInv'
        BY DEF TypeOK, OwnedInv, TableInv, Paid
    <2>3. StepInv'
        BY HeadType DEF TypeOK, StepInv, Paid
    <2>4. QED
        BY <2>1, <2>2, <2>3
<1>5. CASE \E t \in Transaction : PaymentSucceeds(t) \/ RestoreAnswered(t)
    <2> PICK t \in Transaction : PaymentSucceeds(t) \/ RestoreAnswered(t)
        BY <1>5
    <2> USE DEF PaymentSucceeds, RestoreAnswered, screen, callback
    <2>1. TypeOK'
        BY DEF TypeOK, State
    <2>2. OwnedInv' /\ TableInv'
        BY DEF TypeOK, OwnedInv, TableInv, Paid
    <2>3. StepInv'
        BY HeadType DEF TypeOK, StepInv, Paid
    <2>4. QED
        BY <2>1, <2>2, <2>3
<1>6. CASE \E news \in News : UpdatedTransactions(news)
    <2> PICK news \in News : UpdatedTransactions(news)
        BY <1>6
    <2> USE DEF UpdatedTransactions, Ready, store, screen
    <2>1. news \in Seq(Transaction)
        <3>1. CASE \E t \in Transaction : news = <<t>>
            BY <3>1
        <3>2. CASE \E t, u \in Transaction : news = <<t, u>>
            BY <3>2
        <3>3. QED
            BY <3>1, <3>2, Zenon DEF News, Unfinished
    <2>2. TypeOK'
        BY <2>1 DEF TypeOK
    <2>3. OwnedInv' /\ StepInv' /\ TableInv'
        BY DEF OwnedInv, StepInv, TableInv, Paid
    <2>4. QED
        BY <2>2, <2>3
<1>7. CASE Remember
    <2> USE <1>7 DEF Remember, store, screen
    <2>1. TypeOK'
        BY DEF TypeOK, Step
    <2>2. OwnedInv'
        BY HeadType DEF OwnedInv, Paid
    <2>3. StepInv' /\ TableInv'
        BY DEF StepInv, TableInv, Paid
    <2>4. QED
        BY <2>1, <2>2, <2>3
<1>8. CASE Display
    <2> USE <1>8 DEF Display, ShowPremiumQuotes, ReloadData, store
    <2>1. TypeOK'
        BY DEF TypeOK, Step, NumberOfRows
    <2>2. OwnedInv' /\ StepInv' /\ TableInv'
        BY DEF OwnedInv, StepInv, TableInv, Paid
    <2>3. QED
        BY <2>1, <2>2
<1>9. CASE FinishPurchase \/ FinishFailed
    <2> USE <1>9 DEF FinishPurchase, FinishFailed, FinishTransaction, screen
    <2>1. batch # <<>> /\ step # "remembered"
        BY DEF StepInv, Paid
    <2>2. TypeOK'
        BY <2>1, HeadType DEF TypeOK, State, Step
    <2>3. OwnedInv'
        BY <2>1, HeadType DEF TypeOK, OwnedInv, Paid
    <2>4. StepInv' /\ TableInv'
        BY <2>1 DEF StepInv, TableInv
    <2>5. QED
        BY <2>2, <2>3, <2>4
<1>10. CASE UNCHANGED vars
    BY <1>10 DEF vars, store, screen, callback, TypeOK, OwnedInv, StepInv, TableInv, Paid
<1>11. QED
    BY <1>1, <1>2, <1>3, <1>4, <1>5, <1>6, <1>7, <1>8, <1>9, <1>10 DEF Next

\* The inductive invariant holds of every behaviour.
LEMMA AlwaysIInv == Spec => []IInv
BY InitIInv, NextIInv, PTL DEF Spec

-----------------------------------------------------------------------------
(* The theorems *)

\* Every variable keeps its type, and the table counts on a row for each
\* quote and at most one more, however often numberOfRowsInSection and
\* showPremiumQuotes are called.
THEOREM TypeCorrect == Spec => []TypeOK
<1>1. IInv => TypeOK
    BY DEF IInv
<1>2. QED
    BY <1>1, AlwaysIInv, PTL

\* updatedTransactions writes the flag and shows the premium quotes only for
\* an account that has the product.
THEOREM OnlyPaid == Spec => []PremiumIsPaid
<1>1. IInv => PremiumIsPaid
    BY DEF IInv, OwnedInv, PremiumIsPaid
<1>2. QED
    BY <1>1, AlwaysIInv, PTL

\* Between the callbacks the row behind the quotes is the offer, as long as
\* there is one.
THEOREM RowsAgree == Spec => []RowsAreQuotesAndOffer
<1>1. IInv => RowsAreQuotesAndOffer
    BY DEF IInv, StepInv, TableInv, Ready, RowsAreQuotesAndOffer
<1>2. QED
    BY <1>1, AlwaysIInv, PTL

\* Wherever the process dies, a payment that went through is finished only
\* with the flag on disk: StepInv says so of the statement that finishes it.
LEMMA StepKeepsPurchase ==
    IInv /\ [Next]_vars =>
        [\A t \in Transaction :
            Paid(t) /\ state'[t] = "finished" => purchased']_vars
<1> SUFFICES ASSUME IInv, Next, NEW t \in Transaction,
                    Paid(t), state'[t] = "finished"
             PROVE  purchased'
    OBVIOUS
<1> USE DEF IInv
<1>1. state'[t] # state[t]
    BY DEF Paid
<1>2. CASE FinishPurchase
    BY <1>2 DEF FinishPurchase, FinishTransaction, StepInv
<1>3. CASE FinishFailed
    <2>1. t # Head(batch)
        BY <1>3 DEF FinishFailed, Paid
    <2>2. QED
        BY <2>1, <1>1, <1>3 DEF FinishFailed, FinishTransaction, TypeOK
<1>4. CASE \E u \in Transaction : DidSelectBuyRow(u) \/ PaymentSucceeds(u)
                                   \/ PaymentFails(u) \/ RestoreAnswered(u)
    BY <1>1, <1>4 DEF DidSelectBuyRow, PaymentSucceeds, PaymentFails, RestoreAnswered, TypeOK
<1>5. CASE \/ ViewDidLoad \/ Kill \/ RestorePressed \/ Remember \/ Display
           \/ \E news \in News : UpdatedTransactions(news)
    BY <1>1, <1>5 DEF ViewDidLoad, Kill, RestorePressed, Remember, Display,
                      UpdatedTransactions, store
<1>6. QED
    BY <1>2, <1>3, <1>4, <1>5 DEF Next

\* A payment is finished only once the flag that remembers it is on disk.
THEOREM NotForgotten == Spec => PurchaseNotForgotten
<1>1. Spec => [][Next]_vars /\ []IInv
    BY AlwaysIInv, PTL DEF Spec
<1>2. QED
    BY <1>1, StepKeepsPurchase, PTL DEF PurchaseNotForgotten
=============================================================================
