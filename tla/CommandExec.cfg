SPECIFICATION Spec
CONSTANTS
    Commands = {"ls"}
    Nodes = {n1, n2}
    Labels = {l1}
    Absent = Absent
    Null = Null
    Malformed = Malformed
    None = None
INVARIANT TypeOK
PROPERTY SuggestsWhatCanRun
