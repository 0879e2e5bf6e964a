------------------------ MODULE MCCompositeProgress ------------------------
(* Instances of CompositeProgress for TLC. *)
EXTENDS CompositeProgress, FiniteSetsExt, TLC

CONSTANTS t1, t2

MCSubtasks == {t1, t2}

(* Each can be hidden by the other in a sum. *)
MCOneItem == t1 :> 1 @@ t2 :> 1

(* Sum adds. *)
ASSUME SumAdds == \A ts \in SUBSET MCSubtasks : \A f \in [ts -> 0..4] :
         Sum(f) = MapThenSumSet(LAMBDA t : f[t], ts)

MCWithRegisterFailed == {"successful", "failed"}
=============================================================================
