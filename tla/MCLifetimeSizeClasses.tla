----------------------- MODULE MCLifetimeSizeClasses ------------------------
(* LifetimeSizeClasses for TLC: every type, up to MaxObjects objects.      *)
EXTENDS LifetimeSizeClasses
=============================================================================
