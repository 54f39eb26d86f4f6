SPECIFICATION MCSpec
CONSTANTS
    Day = 4
    WindowStart = 1
    WindowEnd = 3
    RetryDelays <- MCRetryDelays
    o1 = o1
    o2 = o2
    d1 = d1
    p1 = p1
    p2 = p2
    Outbox = {o1}
    Device = {d1}
    Process = {p1, p2}
    DeviceOf <- MCDeviceOf
    JenisOf <- MCJenisOf
    PriorityOf <- MCPriorityOf
    TtlOf <- MCTtlOf
    Replying = {}
    Configuration = {{}, {d1}}
    Rate = 1
    RateWindow = 2
    Lease = 2
    SendMax = 1
    MaxNow = 5
    NoRow = NoRow
    NoDevice = NoDevice
INVARIANT SendExclusive
PROPERTIES ImplementsLifecycle Settles
