\* Two supervisors; two failures, crashes included, and one more start.
SPECIFICATION FairSpec
CONSTANTS
  Connectors = {c1, c2}
  BookConnectors = {c1, c2}
  Installations <- MCInstallations
  RetryNumber = 1
  Nobody = Nobody
  MaxFaults = 2
  MaxStarts = 2
CHECK_DEADLOCK FALSE
INVARIANTS TypeOK EnsuredMeansReady OncePerProcess
PROPERTIES BooksRecord
