SPECIFICATION MCSpec
CONSTANTS
    MaxAppends = 4
    MaxFailures = 2
    MaxEdits = 0
INVARIANTS
    WriterOutputVerifies
