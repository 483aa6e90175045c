--------------------------- MODULE MCLockfileSync ---------------------------
(* Instances of LockfileSync for TLC.                                       *)
EXTENDS LockfileSync
=============================================================================
