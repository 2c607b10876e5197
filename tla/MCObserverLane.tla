---------------------------- MODULE MCObserverLane ----------------------------
(* The collective monitor on two ranks.                                    *)
EXTENDS ObserverLane
=============================================================================
