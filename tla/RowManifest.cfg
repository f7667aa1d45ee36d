CONSTANTS
  None = None
  Retries = 1
  FigureRetries = 1
  MaxMedia = 2
  HttpCodes <- Codes
  Articles <- SomeArticles
  RowOptions <- SomeOptions
SPECIFICATION Spec
INVARIANTS
  TypeOK
  PackageSound
  AdmittedSound
  RetryFlagsAgree
  RequestsBounded
CHECK_DEADLOCK FALSE
