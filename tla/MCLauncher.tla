----------------------------- MODULE MCLauncher -----------------------------
(* Instances of Launcher for TLC: one operator and two or three pids. *)
EXTENDS Launcher

CONSTANTS s1, p1, p2, p3, noPid

OneShell == {s1}
TwoPids == {p1, p2}
ThreePids == {p1, p2, p3}

=============================================================================
