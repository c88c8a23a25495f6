---------------------------- MODULE MCPublication ----------------------------
(* Small instances of Publication for TLC: who owns which run.             *)
EXTENDS Publication, TLC

CONSTANTS s1, s2, r1, r2, u1, u2, u3, final, views

\* Two sessions of one workspace, and two runs of one session.
TwoSessions == (r1 :> s1) @@ (r2 :> s2)
OneSession == (r1 :> s1) @@ (r2 :> s1)
SingleRun == (r1 :> s1)
TwoFindings == {{u2}, {u2, u3}}
OneFinding == {{u2}}
ApartFindings == {{u2}, {u3}}

\* The sessions with their runs, the two pages found and the two views are
\* interchangeable; safety runs only.
SwapSessions == (s1 :> s2) @@ (s2 :> s1) @@ (r1 :> r2) @@ (r2 :> r1)
SwapPages == (u2 :> u3) @@ (u3 :> u2)
SwapViews == (final :> views) @@ (views :> final)
Interchangeable == {a @@ b @@ c : a \in {SwapSessions, [x \in {} |-> x]},
                                  b \in {SwapPages, [x \in {} |-> x]},
                                  c \in {SwapViews, [x \in {} |-> x]}}
=============================================================================
