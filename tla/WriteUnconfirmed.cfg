SPECIFICATION Spec
CONSTANTS
    Catalog <- SomeModels
    Scenes <- TwoScenes
    Calls <- MetronomeCalls
    Followers = {}
    Factory <- Device
    MaxCalls = 1
    MaxDisturbed = 0
INVARIANT AppliedIsConfirmed
CHECK_DEADLOCK FALSE
