----------------------------- MODULE MCTrolleys -----------------------------
(* Instances of Trolleys for TLC.  Passengers are interchangeable (their    *)
(* number is only printed), so the safety run uses them as a symmetry set;  *)
(* the liveness runs do not.                                                *)
EXTENDS Trolleys, TLC

CONSTANTS p1, p2, p3, p4, p5, p6

ThreePassengers == {p1, p2, p3}
FourPassengers == {p1, p2, p3, p4}
SixPassengers == {p1, p2, p3, p4, p5, p6}

PassengerSymmetry == Permutations(Passengers)
=============================================================================
