--------------------------- MODULE MCCallControl ---------------------------
(***************************************************************************)
(* Instances of CallControl for TLC: the sets of faults of each run.  Two  *)
(* calls are enough for events of one call to be taken for the other's;    *)
(* two places in the FIFO are enough for an unread event of the old call   *)
(* to wait behind one of the new.                                          *)
(***************************************************************************)
EXTENDS CallControl

NoFaults      == {}
AllFaults     == FaultSites
RefusedFaults == {"register_refused"}
=============================================================================
