--------------------------- MODULE MCToolPipeline ---------------------------
EXTENDS ToolPipeline, TLC

CONSTANTS t1, t2

NoOverride == [t \in {} |-> "ask"]
FirstAsks == (t1 :> "ask")
\* auto_review: every tool asks.
AllAsk == {[t \in Tools |-> "ask"]}
\* auto_review and full_access.
AskOrAllow == {[t \in Tools |-> "ask"], [t \in Tools |-> "allow"]}
=============================================================================
