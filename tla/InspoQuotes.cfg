SPECIFICATION FairSpec
CONSTANTS
    Transaction = {t1, t2, t3}
    FreeQuotes = 2
    PremiumQuotes = 2
INVARIANTS
    TypeOK
    PremiumIsPaid
    RowsAreQuotesAndOffer
PROPERTIES
    PurchaseNotForgotten
    PaidIsSettled
