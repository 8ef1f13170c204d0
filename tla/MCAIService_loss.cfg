\* The aiservice output under Telegraf's flush loop, with the code's
\* retry count.  The agent stops when its first Connect fails, and the
\* explored clock ends at MaxTime, so a final state is not a deadlock.
CONSTANTS
    m1 = m1
    m2 = m2
    hb = hb
    Metrics <- MCMetrics
    NameOf <- MCNameOf
    Heartbeat = hb
    WriteAmountOfBatchData <- MCWriteAmountOfBatchData
    MaxRequestTimes <- MCMaxRequestTimes
    LoginInterval <- MCLoginInterval
    TokenLifetime <- MCTokenLifetime
    MaxTime <- MCMaxTime
    MaxLogins <- MCMaxLogins
SPECIFICATION Spec
INVARIANT NoSilentLoss
CHECK_DEADLOCK FALSE
