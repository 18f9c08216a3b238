------------------------------ MODULE MCServer ------------------------------
(* The server's connections, role store, JWKS cache and key manager, which *)
(* share no state: a behaviour runs one of them.  There is one connection   *)
(* for what a connection keeps to itself, and two where clients meet: in    *)
(* the rows a cursor shows, and in NOTIFY.                                  *)
EXTENDS Connection, RoleStore, JWKSCache, KeyManager, TLC

CONSTANTS c1, c2, r1, r2, p1

VARIABLE part

MCScripts ==
    {(c1 :> {"begin", "commit", "rollback", "savepoint", "query", "extended", "copy", "set"}) @@
     (c2 :> {}),
     (c1 :> {"begin", "rollback", "query", "cursor"}) @@ (c2 :> {"query"}),
     (c1 :> {"listen"}) @@ (c2 :> {"listen"})}

MCCounts == {-1, 1, 2}

MCBootstrap == <<r1, p1>>

vars == <<connVars, roleVars, jwksVars, kmVars, part>>

Init ==
    /\ ConnInit /\ RoleInit /\ JWKSInit /\ KMInit
    /\ part \in {"connections", "roles", "jwks", "keys"}
    /\ part # "connections" => script = CHOOSE s \in Scripts : TRUE
    /\ part # "keys" => master = 0

Next ==
    \/ part = "connections" /\ ConnNext /\ UNCHANGED <<roleVars, jwksVars, kmVars, part>>
    \/ part = "roles" /\ RoleNext /\ UNCHANGED <<connVars, jwksVars, kmVars, part>>
    \/ part = "jwks" /\ JWKSNext /\ UNCHANGED <<connVars, roleVars, kmVars, part>>
    \/ part = "keys" /\ KMNext /\ UNCHANGED <<connVars, roleVars, jwksVars, part>>

Spec ==
    /\ Init /\ [][Next]_vars
    /\ part = "connections" => ConnFairness
    /\ part = "jwks" => JWKSFairness
=============================================================================
