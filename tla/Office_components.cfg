SPECIFICATION OfficeSpec
CONSTANTS
  Handlers = {h1, h2}
  None = None
  MaxRequests = 3
  DaysLeft = {8, 7, 3, 0}
  Posts = {p1}
  Audiences = {{"x", "facebook"}, {"instagram", "linkedin"}}
  Emails = {m1}
  Reps = {r1, r2}
  MaxSockets = 2
  StaffEmails = {s1}
  Weeks = 2
  FirstYear = 1
  Members = {u1, u2}
  Creator = u1
  Months = 4
  YearMonths = 3
  Bills = {b1}
  Workers = {w1, w2}
  Most = 1
  WindowLength = 2
  DayLength = 2
  MaxTime = 2
  PoolSize = 2
  MaxStops = 2
INVARIANTS PublishedOnce XTokenWorks SessionsCurrent InvitesBounded OneChatEach MembersSeeTheThread RunsExplained FiguresAgree NoticesAccounted ServerHolds
PROPERTIES PresenceSettles
CHECK_DEADLOCK FALSE
