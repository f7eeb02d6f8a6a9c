------------------------------ MODULE MCRequests -------------------------------
(* What meets a request: limits and rights, a login, ranges of a file,     *)
(* pages of a list.  They share no state; a behaviour is one of the        *)
(* component that focus names, while the others rest.                      *)
EXTENDS Gateway, Login, ByteRanges, Listings, DesktopClient, TLC

\* Requests and jobs are interchangeable.
MCSymmetry == Permutations(Requests) \cup Permutations(Jobs)

VARIABLE focus

MCInit ==
    /\ GatewayInit /\ LoginInit /\ RangesInit /\ ListInit /\ ClientInit
    /\ focus \in {"gateway", "login", "ranges", "listings", "client"}
    /\ focus # "gateway" => holds = Rights
    /\ focus # "ranges" => size = 0
    /\ focus # "listings" => table = "audit" /\ rows = << >>

MCNext ==
    /\ \/ focus = "gateway" /\ GatewayNext /\ UNCHANGED <<loginVars, rangeVars, listVars, clientVars>>
       \/ focus = "login" /\ LoginNext /\ UNCHANGED <<gatewayVars, rangeVars, listVars, clientVars>>
       \/ focus = "ranges" /\ RangesNext /\ UNCHANGED <<gatewayVars, loginVars, listVars, clientVars>>
       \/ focus = "listings" /\ ListNext /\ UNCHANGED <<gatewayVars, loginVars, rangeVars, clientVars>>
       \/ focus = "client" /\ ClientNext /\ UNCHANGED <<gatewayVars, loginVars, rangeVars, listVars>>
    /\ UNCHANGED focus

MCSpec == MCInit /\ [][MCNext]_<<gatewayVars, loginVars, rangeVars, listVars, clientVars, focus>>

=============================================================================
