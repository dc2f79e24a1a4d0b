CONSTANTS
    Nodes = {n1, n2, n3, n4}
    End = end
    Null = null
    PushEnds = {"back"}
SPECIFICATION Spec
PROPERTY VisitsAll
