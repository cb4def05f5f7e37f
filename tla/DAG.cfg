SPECIFICATION Spec

CONSTANT Node = {1, 2, 3, 4}

INVARIANT TypeOK
INVARIANT Acyclic
INVARIANT ReportedCycle
INVARIANT ValidOrder
PROPERTY SearchEnds
