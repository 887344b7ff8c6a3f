------------------------------ MODULE MCRetention ------------------------------
(***************************************************************************)
(* Instances of Retention for TLC: two clean-ups at once; two full         *)
(* archives of different sizes, two custom ones and one of no known type;  *)
(* windows and a cap small enough that each pass deletes.                  *)
(***************************************************************************)
EXTENDS Retention, TLC

CONSTANTS j1, j2, f1, f2, g1, g2, x1

TwoJobs      == {j1, j2}
FiveArchives == {f1, f2, g1, g2, x1}
Types ==
    [f \in Archives |->
        CASE f \in {g1, g2} -> "custom" [] f = x1 -> "unknown" [] OTHER -> "full"]
Sizes   == [f \in Archives |-> IF f = f1 THEN 2 ELSE 1]
Windows == "full" :> 2 @@ "custom" :> 1

\* Jobs, and the custom archives, are interchangeable.
Interchangeable == Permutations(TwoJobs) \cup Permutations({g1, g2})
=============================================================================
