SPECIFICATION Spec
CONSTANTS
    Gateways = {g1, g2}
    Headless = {h1}
    MaxConcurrentModals = 1
    WaitDuration = 2
    MaxDials = 2
    NoOne = NoOne
INVARIANT OneImportantModalAtATime
