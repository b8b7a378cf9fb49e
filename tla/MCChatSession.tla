---------------------------- MODULE MCChatSession ----------------------------
(* ChatSession for TLC.                                                    *)
EXTENDS ChatSession
=============================================================================
