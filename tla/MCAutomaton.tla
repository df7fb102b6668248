---------------------------- MODULE MCAutomaton -----------------------------
EXTENDS Automaton

CONSTANTS d1, d2, r1, pauser, stopper, browser, t1, t2

MCOrder == <<t1, t2>>

Case(who, ready) == [who |-> who, done |-> {t1, t2} \ ready]

\* Two starts that race over a finished project; a loop paused and stopped; a watched
\* loop; a watched task run; a loop beside a task run.
MCScenarios ==
    {Case({d1, d2, pauser, stopper}, {}), Case({d1, pauser, stopper}, {t1, t2}),
     Case({d1, stopper, browser}, {t1}), Case({r1, stopper, browser}, {t1, t2}),
     Case({d1, r1, stopper}, {t1, t2})}
=============================================================================
