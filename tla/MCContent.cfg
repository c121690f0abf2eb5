SPECIFICATION MCSpec
CONSTANTS
  Null = Null
  Records = {"r1"} Keys = {"f"} Writers <- TwoWriters MaxJobs = 2 MaxEdits = 1
  a1 = a1 a2 = a2
  x = x y = y
  Delivers = {"a", "b"} Versions = {1, 2} Invalid <- BadRecord Syncs <- TwoWriters
  MaxDatasets = 1 MaxChanges = 3 MaxFaults = 1
  Resources = {"r1", "r2"} Words = {"a", "b"} Scopes = {"document"} Typed = {"a", "b"}
  UnderReview <- EachWord Extraction <- AsTheyCome English <- SameWord Languages <- TwoLanguages
  MaxPending = 4 MaxEntities = 2 MaxMerges = 1
  Names = {"n", "d/n"} Contents = {x, y} Base <- Last Textual = {} Actors <- TwoWriters
  MaxStamp = 3 MaxRows = 2 MaxClears = 1 MaxCrashes = 1
SYMMETRY Symmetry
CHECK_DEADLOCK FALSE
INVARIANTS
  EditsWinOverExtraction
  
  
  
  ConfirmedStaysLinked
  
  
