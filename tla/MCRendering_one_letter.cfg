SPECIFICATION Spec
CONSTANTS
  OneLetter = TRUE
  Jobs <- MCJobs
PROPERTY
  PathsEnd
