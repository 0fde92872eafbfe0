---------------------------- MODULE MC_FsmServer ----------------------------
(* Request lines for TLC: the two the server serves, a wrong method on    *)
(* each path, and an unknown path.                                        *)
EXTENDS FsmServer

MCRequests ==
    {[method |-> "GET", path |-> "/state"], [method |-> "POST", path |-> "/next"],
     [method |-> "GET", path |-> "/next"], [method |-> "POST", path |-> "/state"],
     [method |-> "GET", path |-> "/"]}

=============================================================================
