\* Two configured subjects and AUTO, a market each; everything may fail.
SPECIFICATION Spec
CONSTANTS
  s1 = s1
  s2 = s2
  m1 = m1
  m2 = m2
  m3 = m3
  AUTO = AUTO
  Subjects <- MCSubjects
  Markets <- MCMarkets
  SubjectOf <- MCSubjectOf
  Undated = {}
  Faults = {"gamma", "clob", "upsert", "send", "connector"}
  MaxSessions = 2
SYMMETRY Mirror
INVARIANTS TypeOK RecordedIsTracked
PROPERTY UnsubscribedWithReason
