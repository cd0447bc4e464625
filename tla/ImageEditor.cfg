SPECIFICATION EditorSpec
CONSTANTS
  Canvas = {"v", "w", "u"}
  MaxHistory = 3
  HistOps = {}
  Pics = {"photo", "canvas"}
  Photos = {"photo"}
  NoPic = NoPic
  Drafts = {1, 2, 3}
  NoDraft = 0
  MaxEdits = 1
  DraftOps = {}
INVARIANTS
  EditorTypeOK
  HistoryBounded
  OwnDraft
  
  

  
