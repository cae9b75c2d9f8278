----------------------------- MODULE MCChatClient -----------------------------
(* TLC instance of ChatClient: two connections, one after the other, two      *)
(* commands, one push and one group.                                          *)
EXTENDS ChatClient
==============================================================================
