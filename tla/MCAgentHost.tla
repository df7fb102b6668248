---------------------------- MODULE MCAgentHost ----------------------------
EXTENDS AgentHost, TLC

CONSTANTS a1, a2, a3, c1, c2, c3

StopRestartPause ==
    {<<"stop", "restart">>, <<"restart", "stop">>, <<"pause", "resume">>, <<"pause", "restart">>}

OneStop == {<<"stop">>}

\* Agents and calls are interchangeable.
Symmetry == Permutations(Agents) \cup Permutations(Calls)
=============================================================================
