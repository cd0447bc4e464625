SPECIFICATION DocSpec
CONSTANTS
  Docs = {"saved", "streamed"}
  Chats = {"A", "B"}
  NoDoc = NoDoc
  Temp = "streamed"
  ChatOf <- PairChatOf
  Absent = Absent
  MaxRev = 1
  MaxPuts = 1
  DocOps = {"open", "chats", "minimized", "create", "animate", "stream", "delete"}
INVARIANTS
  DocTypeOK
  
  
