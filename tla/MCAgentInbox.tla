---------------------------- MODULE MCAgentInbox ----------------------------
(* Instances of AgentInbox for TLC. *)
EXTENDS AgentInbox

CONSTANTS c1, c2, a1, s1

\* The second transaction of the client is a malformed capability install.
SecondIsPoison == {<<c1, 2>>}
=============================================================================
