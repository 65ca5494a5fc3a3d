------------------------------- MODULE MCHttp -------------------------------
(* Http on a small instance: two hosts, one of them with two origins.      *)
EXTENDS Http, TLC

CONSTANTS home, port, other, local, h1, h2, o1, o2, o3

MCHostOf == (home :> h1) @@ (port :> h1) @@ (other :> h2) @@ (local :> None)
MCOriginOf == (home :> o1) @@ (port :> o2) @@ (other :> o3) @@ (local :> None)

Ask(url, referrer, policy, payload, origin, nested) ==
    [url |-> url, referrer |-> referrer, policy |-> policy,
     payload |-> payload, origin |-> origin, nested |-> nested]

\* The address bar, a form a local document posts, a cross-origin asynchronous
\* POST of another page's script, and a local document.
MCRequests == {
    Ask(home, None, "", FALSE, FALSE, FALSE),
    Ask(home, local, "", TRUE, FALSE, FALSE),
    Ask(port, home, "same-origin", TRUE, TRUE, TRUE),
    Ask(local, None, "", FALSE, FALSE, FALSE)}

MCSetCookies == {
    [httpOnly |-> TRUE, lax |-> FALSE, life |-> 1],
    [httpOnly |-> FALSE, lax |-> TRUE, life |-> Forever],
    [httpOnly |-> FALSE, lax |-> FALSE, life |-> 0]}

Symmetry == Permutations(Slots)
=============================================================================
