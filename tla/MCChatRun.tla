----------------------------- MODULE MCChatRun -----------------------------
EXTENDS ChatRun, TLC

CONSTANT s1
=============================================================================
