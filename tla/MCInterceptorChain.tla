-------------------------- MODULE MCInterceptorChain --------------------------
(* InterceptorChain on small instances: requests of a kind are             *)
(* interchangeable.                                                        *)
EXTENDS InterceptorChain, TLC

CONSTANT Late \* requests that come when the others have

Early == Request \ Late
Symmetry ==
    {[r \in Request |-> IF r \in Early THEN p[r] ELSE q[r]] :
        p \in Permutations(Early), q \in Permutations(Late)}

-----------------------------------------------------------------------------
(* The early requests take their steps in any order.  The limiter takes    *)
(* more to be put to the test, as many requests as it can never admit: so  *)
(* late ones come, if all are for public procedures whose handlers answer. *)
(* They meet the others at the limiter in every order, and one request at  *)
(* a time moves through the rest of the chain: while each of the others    *)
(* has not arrived, is over, or stands at the limiter on its way down.  No *)
(* other interceptor, and no handler, reads or writes the bucket.          *)
Few == \A r \in Late : req[r].dir = "idle"
Crowded == \A r \in Request :
    r \in Early \/ req[r].dir # "idle" =>
        req[r].procedure \in Public /\ req[r].handled \in {None, "response"}
Resting(r) == req[r].dir \in {"idle", "done"} \/ At(r, "rateLimit", "down")
Moves(r) == Step(r) /\ \A q \in Request \ {r} : Resting(q)

CrowdNext ==
    \/ \E r \in Early : Few /\ Step(r)
    \/ \E r \in Request : Moves(r) /\ Crowded'
    \/ Tick
    \/ Quiescent

CrowdSpec == Init /\ [][CrowdNext]_vars
=============================================================================
