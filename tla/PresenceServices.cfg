SPECIFICATION ServicesSpec
CONSTANTS
  Eval = {e1}
  Session = {s1}
  FactSets <- MCFactSets
  Signals <- MCSignals
  Given = {"score", "high"}
  Member = {u1, u2}
  Chat = {c1, c2}
  MaxDate = 2
  Minute = 1
  Soon = 0
  MediaSoon = 1
  MessageGap = 0
  ManyJoins = 2
  ManyPeers = 1
  ManyChats = 2
  ManyMessages = 2
  MaxUpdates = 3
  Known <- MCKnown
  Sure <- MCSure
  Token = {"a", "b"}
  EnvToken = "a"
  Slot = {u1, u2}
  MaxUpdate = 2
  MaxChangesToRows = 1
  Worker = {w1, w2}
  Level = {3}
  MaxRequests = 3
  MaxFaults = 1
  Reader = {w1, w2}
  MaxAge = 1
  MaxChanges = 2
  MaxOutages = 1
  Connection = {"a1", "a2", "b"}
  WorkerOf <- MCWorkerOf
  Cooldown = 2
  ModeLife = 1
  LastLife = 2
  TooSoon = 0
  TooLate = 2
  EventCap = 2
  MaxTime = 4
  MaxMessages = 3
  ApiWorker = {w1, w2}
  Tenant = {t1, t2}
  ListLimit = 1
  MaxArtifacts = 2
  Typing <- MCTyping
  Challenge <- MCChallenge
  Pointer <- MCPointer
  Agentic <- MCAgentic
  GraphSession = {"s1", "s2", "s3"}
  Evaluator = {e1, e2}
  Bot = {"s1", "s2"}
  Kind = {"a", "b", "c"}
  Alike <- MCAlike
  MaxAdds = 3
INVARIANTS
  ServicesTypeOK
  MoreFactsNeverLenient
  StepUpHolds
  WindowsAreTrue
  TenantsAreApart
  ClustersHold
  ArtifactsHold
PROPERTIES
  EscalationFits
  ChallengesHold
  CopiesHideNothing
  ScoresHold
CHECK_DEADLOCK FALSE
