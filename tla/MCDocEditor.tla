---------------------------- MODULE MCDocEditor ----------------------------
(* Instances of DocEditor for TLC. *)
EXTENDS DocEditor

\* A document streamed into chat A and a saved one of chat B.
PairChatOf == [d \in Docs |-> IF d = Temp THEN "A" ELSE "B"]

\* Saved documents a of chat A and b of chat B, and one streamed into A.
TrioChatOf == [d \in Docs |-> IF d = "b" THEN "B" ELSE "A"]
=============================================================================
