CONSTANTS
  ChatCalls = {c1, c2}
  ChatKeys = {k1}
  NoKey = NoKey
  NoChatCall = NoChatCall
  MaxMessages = 2
  MaxChatCalls = 4
  ChatPositions = {p1, p2, p3}
  Responsible = p1
  Assigning = p2
  MemberCalls = {c1, c2}
  MaxChannels = 2
  MaxRead = 2
  MaxMemberCalls = 3
  NoteRequests = {r1, r2}
  CriticalRequests = {}
  Dispatches = {c1, c2}
  HasPhone = TRUE
  MaxNotes = 2
  MaxNoteSettings = 1
  CallUsers = {u1, u2, u3}
  Initiator = u1
  MaxParticipants = 2
  CallOps = {c1, c2}
  MaxCallOps = 4
  MediaSockets = {s1, s2, s3}
  ParticipantOf <- MCParticipantOf
  NoSocket = NoSocket
  MaxRecordings = 2
  MaxFaults = 0
  FolderCalls = {c1, c2}
  MaxFolders = 3
  MaxFiles = 1
  MAX_FOLDER_DEPTH = 2
  TopClassification = 1
  AccessCalls = {c1, c2}
  Grantees = {anna}
  Cleared = {anna}
  SearchHandlers = {h1, h2}
  ChangePayloads = {p1, p2}
  MaxChanges = 3
  MaxReindexes = 1
  LayerCalls = {c1, c2}
  MaxFeatures = 2
  MaxLayerCrashes = 1
  RegistryCalls = {c1, c2}
  MaxModelVersions = 2
  MaxRegistryCrashes = 1
  Predictions = {q1, q2}
  PredictionCalls = {c1, c2}
  FieldCalls = {c1, c2}
  MaxFieldCalls = 4
  AnalyticReports = {g1, g2}
  Clearances = {0, 1, 2}
  CellValues <- MCCellValues
  MaxRows = 2
  MaxOrdinal = 363
  EdgeReplicas = {r1, r2}
  EdgeSockets = {s1, s2}
  EdgeUserOf <- MCEdgeUserOf
  NoReplica = NoReplica
  MaxEdgeMoves = 2
  s1 = s1
  s2 = s2
  s3 = s3
  c1 = c1
  c2 = c2
  r1 = r1
  r2 = r2
SPECIFICATION MCSpec
SYMMETRY MCSymmetry
INVARIANTS
  TypeOK
  
  
  
  
  OutputWasApproved

  
CHECK_DEADLOCK FALSE
