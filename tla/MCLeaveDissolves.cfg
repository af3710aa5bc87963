SPECIFICATION Spec
CONSTANTS
  t1 = t1
  t2 = t2
  t3 = t3
  olga = olga
  mia = mia
  xena = xena
  None = None
  User = {olga, mia, xena}
  Task = {t1, t2, t3}
  Requests <- LeaveRequests
  MinMembers = 3
  MaxMembers = 3
PROPERTY LeaveEndsOnlyEmptyGroups
