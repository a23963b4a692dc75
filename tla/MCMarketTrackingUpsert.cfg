\* Is a resolution stored when an upsert has failed?
SPECIFICATION FairSpec
CONSTANTS
  s1 = s1
  s2 = s2
  m1 = m1
  m2 = m2
  m3 = m3
  AUTO = AUTO
  Subjects <- MCSubjects
  Markets <- Configured
  SubjectOf <- ConfiguredSubjectOf
  Undated = {}
  Faults = {"upsert"}
  MaxSessions = 1
PROPERTY SettledIsStored
