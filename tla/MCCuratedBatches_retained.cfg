SPECIFICATION Spec
CONSTANTS
  Slots = {1, 2, 3}
  Texts = {1, 2, 3, 4, 5, 6}
  Content <- MCContent
  Lists <- MCLists
  Templates <- MCTemplates
  HandWritten <- MCReissued
  BatchIds = {1}
  Versions = {2}
  Stamps = {0, 1, 2}
  Now = 2
  Outputs <- MCOutputs
  Absent = absent
  Torn = torn
  MaxEdits = 0
  MaxRuns = 1
  Families <- MCFamilies
  Registry <- MCRegistry
  Refused = refused
CHECK_DEADLOCK FALSE
INVARIANT CoverageCountsTheRetained
