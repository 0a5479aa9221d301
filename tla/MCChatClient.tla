---------------------------- MODULE MCChatClient ----------------------------
(***************************************************************************)
(* Two texts, two flows at once, one other change of the thread, two       *)
(* failed requests.                                                        *)
(***************************************************************************)
EXTENDS ChatClient
=============================================================================
