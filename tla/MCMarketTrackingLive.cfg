\* Two markets of one subject and one of AUTO; single queries may fail.
SPECIFICATION FairSpec
CONSTANTS
  s1 = s1
  s2 = s2
  m1 = m1
  m2 = m2
  m3 = m3
  AUTO = AUTO
  Subjects <- OneSubject
  Markets <- MCMarkets
  SubjectOf <- SharedSubjectOf
  Undated <- MCUndated
  Faults = {"gamma"}
  MaxSessions = 1
PROPERTY SettledIsStored
