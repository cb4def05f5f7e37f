SPECIFICATION Spec
CONSTANTS
  OneLetter = FALSE
  Jobs <- MCJobs
INVARIANTS
  RendersTemplate
  
  
  
  StatusIsOverlay
  StatusFits
PROPERTY
  PathsEnd
