SPECIFICATION Spec
CONSTANTS
    Gateways = {g1, g2}
    Headless = {h1}
    MaxConcurrentModals = 1
    WaitDuration = 2
    MaxDials = 1
    NoOne = NoOne
INVARIANT TypeOK
INVARIANT OneImportantModalAtATime
INVARIANT ReloginsDoNotQueue
PROPERTY ModalsAreSpacedApart
PROPERTY ReissueReturns
