----------------------------- MODULE MCRouting -----------------------------
(***************************************************************************)
(* Routing for TLC: a server and one router to mount.                      *)
(***************************************************************************)
EXTENDS Routing

\* A plain path, two that differ in a name only, one with a rest and what
\* follows it; in the other router the path it is mounted at, and any below.
MCPatterns ==
    [r \in Routers |->
        IF r = Root THEN {<<"a">>, <<":x">>, <<":y">>, <<":x", "*r", "a">>}
                    ELSE {<<>>, <<"*">>}]

MCTargets == {<<"a">>, <<"a", "b", "c">>}
=============================================================================
