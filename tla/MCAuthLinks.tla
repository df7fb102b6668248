---------------------------- MODULE MCAuthLinks -----------------------------
EXTENDS AuthLinks, TLC

CONSTANTS r1, r2, r3, p, q

\* Two requests for one provider, and a third request and the sign-in or unlink that
\* meet them.
MCWants == (r1 :> p) @@ (r2 :> p) @@ (r3 :> q) @@ (signin :> p) @@ (unlink :> p)

MCScenarios ==
    {{r1, r2, r3}, {r1, r2, signin}, {r1, r2, unlink}, {r1, r2, identity},
     {r1, signin, identity}, {r1, signin, unlink}}
=============================================================================
