----------------------------- MODULE MCChatSync -----------------------------
(* Instances of ChatSync: devices, and chats, are interchangeable. *)
EXTENDS ChatSync, TLC

Symmetry == Permutations(Device) \cup Permutations(Chat) \cup Permutations(Source)
=============================================================================
