SPECIFICATION MCSpec
CONSTANTS
    openplay = openplay
    miracast = miracast
    maclike = maclike
    peer = peer
    addr1 = addr1
    addr2 = addr2
    label = label
    Mdns = {openplay}
    Infra = {miracast, maclike}
    MacLike = {maclike}
    Info <- MCInfo
    P2p = {peer}
    Addr = {addr1, addr2}
    EventCap = 1
    MaxChanges <- MCMaxChanges
INVARIANTS
    ListTrueWhenSettled
PROPERTIES
    ListFollows
CHECK_DEADLOCK FALSE
