---------------------------- MODULE MCObserverQueue ----------------------------
(* Two queues on one worker: the first holds one frame and tries twice,    *)
(* the second holds two and tries once.                                    *)
EXTENDS ObserverQueue

TwoCapacities == <<1, 2>>
TwoAttempts == <<2, 1>>
=============================================================================
