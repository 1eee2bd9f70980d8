CONSTANTS
  DeadlineCalls = {c1}
  Replicas = {r1}
  Tier3Days = 1
  Tier4Days = 1
  WarningDays = 1
  MaxDay = 3
  MaxRequests = 2
  MaxDeadlineCalls = 1
  MaxJobFailures = 1
  Identities = {ldapIvan, samlIrina, samlOleg}
  EmailOf <- MCEmailOf
  LocalPart <- MCLocalPart
  NoIdentity = NoIdentity
  MaxAccounts = 4
  MaxRegistered = 2
  RoleUsers = {u1, u2}
  Roles = {chief, clerk}
  NoRole = NoRole
  ExistingRoles <- MCRoles
  ExistingGrants <- MCGrants
  Depts = {hq, unit}
  DeptParent <- MCDeptParent
  PostDept <- MCPostDept
  RoleCalls = {c1, c2}
  MaxGrants = 3
  MaxRoleCalls = 3
  Sockets = {s1, s2}
  InstanceOf <- MCInstanceOf
  MaxHandlers = 3
  Links = {l1, l2}
  MaxReconnect = 4
  MaxDelay = 30
  MaxRoomEvents = 3
  MaxOutages = 3
  MaxRecordings = 1
  MaxFaults = 1
  FileCalls = {c1, c2}
  MaxVersions = 2
  MaxCrashes = 1
  IncidentCalls = {c1, c2}
  UpdateStatuses = {"cancelled"}
  MaxIncidentCrashes = 1
  Archivers = {c1, c2}
  MaxEvents = 3
  ArchiveBatch = 2
  MaxAuditCrashes = 1
  ReportReplicas = {r1}
  MaxExecutions = 2
  MaxSlots = 3
  SlotsPerDay = 2
  MaxReportCrashes = 1
  PageDrains = {c1}
  WorkerDrain = c2
  MAX_ATTEMPTS = 2
  MaxOps = 2
  MaxBreaks = 1
  MaxCloses = 1
  EtlRows = {u1, u2, hq}
  BATCH_SIZE = 1
  MaxClock = 2
  MaxEtlWrites = 3
  MaxJobs = 2
  FileOf <- MCFiles
  Wrong = {f1}
  Early = {f2}
  RETRIES = 1
  Units = {hq, unit}
  Shapes = {"good", "bad"}
  BadShapes = {"bad"}
  NoShape = NoShape
  MaxClass = 2
  MaxAnalyses = 2
  f1 = f1
  f2 = f2
  c1 = c1
  c2 = c2
  l1 = l1
  l2 = l2
  s1 = s1
  s2 = s2
  ldapIvan = ldapIvan
  samlIrina = samlIrina
  samlOleg = samlOleg
  u1 = u1
  u2 = u2
  chief = chief
  clerk = clerk
  hq = hq
  unit = unit
SPECIFICATION MCSpec
INVARIANTS
  TypeOK
  SharedStateIsRight
  
  
  SyncForgetsNothing
PROPERTIES
  FactsStay
  
CHECK_DEADLOCK FALSE
