SPECIFICATION Spec
CONSTANTS
    Name = {a, b}
    MaxFiles = 3
    MaxBatch = 2
    MaxXhr = 2
    NULL = NULL
INVARIANTS
    PreviewForEveryFile
