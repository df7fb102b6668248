---------------------------- MODULE MCProcesses -----------------------------
EXTENDS Processes, TLC

\* Two triggers that race; a trigger that meets an update or a delete; edits alone.
MCScenarios ==
    ({2, 3} :> 0) @@ ({3, update} :> 1) @@ ({3, delete} :> 1) @@ ({3} :> 2)
    @@ ({create, update, delete} :> 1)
=============================================================================
