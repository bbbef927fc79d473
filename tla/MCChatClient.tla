---------------------------- MODULE MCChatClient ----------------------------
(***************************************************************************)
(* Small instances of ChatClient: a session that is new, and one that      *)
(* already holds a reply the backend has stored, with or without a block.  *)
(***************************************************************************)
EXTENDS ChatClient

StoredReply == [Reply(0, TRUE) EXCEPT !.stored = TRUE]

NewOrPlayed == {<<>>, <<StoredReply>>}

Played == {<<[StoredReply EXCEPT !.blocks = <<<<0, 1>>>>]>>}
=============================================================================
