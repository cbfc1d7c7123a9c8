CONSTANT Files <- MCFiles
SPECIFICATION Spec
INVARIANTS ReadsInside ParsesFirstFitting EndsAtChecksum
