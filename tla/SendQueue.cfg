SPECIFICATION Spec
CONSTANTS
    Items = {a, b}
    Batch = {b}
    Tasks = {1, 2}
    Lapsing = {a, b}
    Null = Null
    MaxAsks = 2
    MaxRestarts = 1
    MaxFailures = 1
    Plans = {{"batch", "fail", "cancel_item", "cancel_batch", "restart"},
             {"batch", "lapse", "cancel_task", "cancel_batch"},
             {"plain", "fail", "resume_task", "cancel_item"},
             {"plain", "lapse", "pause", "restart"},
             {"plain", "batch", "other", "forget", "resend"},
             {"plain", "batch", "cancel_batch"}}
CHECK_DEADLOCK FALSE
INVARIANTS QueueInv
PROPERTIES Promised ReceiptsArrive CompletedWins
