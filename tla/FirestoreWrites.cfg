SPECIFICATION Spec
CONSTANTS
    User = {a, b}
    Message = {m1, m2, m3}
    MaxPending = 2
INVARIANTS
    TypeOK
    PipelineIsQueueFront
    WireMatchesPipeline
    IdleOnlyWhenDrained
    NeverStranded
    CallbackForItsWrite
    OkMeansCommitted
    CommitsFollowSubmission
PROPERTIES
    ToldOnce
    StoreSpec
