SPECIFICATION MCSpec
CONSTANTS
  Null = Null
  Size = 2 Clients <- ThreeClients MaxSessions = 3
  c1 = c1 c2 = c2 c3 = c3
  a1 = a1 a2 = a2
  Tasks = {t1} Events = {e1} Series <- AtTwo Tickers = {k1, k2} MaxTime = 2 MaxFaults = 1
  Threshold = 0 Window = 1 Backlog = 1
  Projects = {"p"} Threads = {"t1", "t2"} Docs = {"d"} Resources = {"r1", "r2"}
  ProjectOf <- TheProject ParentOf <- TheParent Places <- ThePlaces FileOf <- TheFile Cascades = {1}
  Uploaded = {"r"} Days = {"d1"} Actors = {a1, a2} MaxJobs = 5 MaxPatches = 2 MaxTasks = 1
  Ops = {"o1", "o2"} Ids = {"a1"} Texts = {"r", "x"} Reply = "r" Scripts <- TheScripts MaxExports = 1
  Users = {"u1", "u2"} Groups = {"g1", "g2"} Perms <- TwoKinds All = "all" Managing <- ManageAll Admin = "u1"
  Expiry = 2 MaxRequests = 3 MaxRestarts = 1
  MaxCrashes = 1
SYMMETRY Symmetry
CHECK_DEADLOCK FALSE
INVARIANTS
  NobodyWaitsForAFreeWorker
  
  CascadeSettlesFiles
  
  PartialIsProved
  BundleIsClosed
  
  RevocationTakesEffect
