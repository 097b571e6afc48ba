SPECIFICATION FairSpec
CONSTANTS
    Consumers = {c1, c2}
    Topics = {credit, cash}
    Events = {ev1, ev2}
    Log <- EveryKind
    MAX_RETRIES = 2
    NoConsumer = NoConsumer
    NoMessage = NoMessage
    credit = credit
    cash = cash
    ev1 = ev1
    ev2 = ev2
INVARIANT NoEventLost
INVARIANT OrderedHandling
PROPERTY NoRewind
PROPERTY EverythingSettled
