SPECIFICATION Spec
CONSTANTS
    Catalog <- SomeModels
    Scenes <- TwoScenes
    Calls <- EveryCall
    Followers <- Seconds
    Factory <- Device
    MaxCalls = 2
    MaxDisturbed = 1
INVARIANTS
    WriteLands
    ReadsAreTrue
    ConfirmedOrUnshown
    RetryIsIdempotent
    RealtimeReconciles
CHECK_DEADLOCK FALSE
