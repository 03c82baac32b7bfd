----------------------------- MODULE MCHttpApi -----------------------------
(* HttpApi for TLC: every route, with identities that are stored, that are  *)
(* not, and with what may precede and follow them in a path.                *)
EXTENDS HttpApi

CONSTANTS l1, l2, r1, r2, a1, a2

Identified(collection, ids) ==
    UNION {{<<collection, i>>, <<collection, i, "">>, <<collection, i, "extra">>} : i \in ids}
    \cup {<<collection, "">>, <<collection, "unknown">>}

ActedUpon(collection, ids, word) ==
    {<<collection, i, word>> : i \in ids} \cup {<<collection, word>>, <<collection, "active", word>>}

AllPaths ==
    DOMAIN ExactRoutes
    \cup Identified("logs", {l1, l2})
    \cup Identified("rules", {r1, r2})
    \cup Identified("alerts", {a1, a2})
    \cup {<<"alerts", a1, a2>>, <<"rules", r1, r2>>, <<"logs", l1, l2>>}
    \cup ActedUpon("rules", {r1, r2}, "status")
    \cup ActedUpon("alerts", {a1, a2}, "acknowledge")
    \cup ActedUpon("alerts", {a1, a2}, "resolve")
=============================================================================
