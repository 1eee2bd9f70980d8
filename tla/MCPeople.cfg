CONSTANTS
  SubtaskIds = {t1, t2, t3, t4}
  ExistingTasks <- MCExistingTasks
  TaskCalls = {c1, c2}
  NoTask = NoTask
  MaxSubtaskDepth = 1
  MaxTaskCalls = 3
  TaskPositions = {boss, anna, boris}
  TaskReportsTo <- MCReportsTo
  TaskAssigner = boss
  Nobody = Nobody
  AssignmentCalls = {c1, c2}
  MaxRecords = 3
  MaxAssignmentCalls = 3
  DeadlineCalls = {k1}
  Replicas = {r1}
  Tier3Days = 1
  Tier4Days = 1
  WarningDays = 1
  MaxDay = 3
  MaxRequests = 2
  MaxDeadlineCalls = 2
  MaxJobFailures = 1
  Executors = {e1, e2}
  RoleOf <- MCRoleOf
  ExecutionTasks = {t1, t2}
  ExecutionCalls = {c1, c2}
  NoLink = NoLink
  MaxExecutionCalls = 1
  MaxDeliveries = 2
  TermCalls = {c1, c2}
  Extensions = {g1, g2}
  MaxTerm = 3
  MaxTermCalls = 4
  SessionCalls = {c1, c2}
  MaxFailedAttempts = 2
  LockoutTicks = 1
  MaxTicks = 2
  MaxTokens = 3
  MaxSessionCalls = 5
  MfaCalls = {c1, c2}
  BackupCodes = {b1, b2}
  MaxSecrets = 2
  MaxMfaCalls = 5
  UserCalls = {c1, c2}
  Posts = {p1, p2}
  MaxHeld = 3
  MaxUserCalls = 4
  OrgDepts = {d1}
  OrgPosts = {p1, p2}
  NoOrg = NoOrg
  OrgCalls = {c1, c2}
  Streams = {p1, p2}
  MaxStreamMoves = 4
  MaxMessages = 2
  RoomSockets = {g1, g2}
  NoSocket = NoSocket
  MaxConnects = 4
  MaxThreadMoves = 2
  PortalCalls = {c1, c2}
  MaxPortalTokens = 3
  MaxPortalMoves = 7
  Queries = {u1, u2}
  FirstQuery = u1
  HazardTypes <- MCHazardTypes
  Predictions = {p1}
  Layers = {"flood", "borders"}
  DefaultVisible = {"borders"}
  AddedVisible = {}
  PortalIncidents = {p1}
  NoIncident = NoIncident
  MaxMapMoves = 3
  t1 = t1
  t2 = t2
  t3 = t3
  t4 = t4
  boss = boss
  anna = anna
  boris = boris
  e1 = e1
  e2 = e2
  c1 = c1
  c2 = c2
  g1 = g1
  g2 = g2
  u1 = u1
SPECIFICATION MCSpec
SYMMETRY MCSymmetry
INVARIANTS
  TypeOK
  WorkIsAccounted
  SessionsAreSafe
  AuthorityIsConsistent
  
CHECK_DEADLOCK FALSE
