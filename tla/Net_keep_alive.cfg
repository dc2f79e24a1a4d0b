SPECIFICATION MCSpec
CONSTANTS
    Script <- MCScript
    IOs = {io}
    Ops = {"recv", "connect"}
    Sleeps = {sleep}
    Lookups = {dns}
    Plain = {plain}
    Signals = {sig}
    SignalKinds = {"simple", "functional"}
    PollFlags <- MCPollFlags
    Syscalls = {"ok", "again", "error"}
    Memory = 2
    Faults = {"protocol", "cancel", "reset"}
    Total = 6
    Pipe = 3
    View = 3
    Messages <- MCMessages
    Memories = {14, 40}
    MaxRead = 3
    Prefetched = {0, 1, 9}
    HeadKinds = {"request", "response"}
    Sizes = {12, 17, 25, 40}
    Names <- MCNames
    Values <- MCValues
    MaxFields = 2
    Trees <- MCTrees
    Paths <- MCPaths
    RootSize = 1
    ErrorSize = 1
    Requests <- MCRequests
    WaitBuffer = {TRUE, FALSE}
    MaxHops = 2
    DeadPage = {"runs", "aborts"}
INVARIANT InitHasBuffers
CHECK_DEADLOCK FALSE
