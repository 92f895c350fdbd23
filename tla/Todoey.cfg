SPECIFICATION Spec
CONSTANTS
    Category = {home, work}
    Item = {1, 2, 3}
    milk = milk
    bread = bread
    Text = {milk, bread}
    NoText = empty
    Matches <- MCMatches
    NoCategory = none
INVARIANTS
    TypeOK
    RowsAreResults
    EmptySearchShowsAll
PROPERTIES
    CrashOnlyAfterFailedWrite
