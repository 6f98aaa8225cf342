----------------------------- MODULE MCIpcQueue -----------------------------
(***************************************************************************)
(* Two payloads and up to four sends: enough for the buffer to grow, for   *)
(* its index to wrap and for slots to be used again.                       *)
(***************************************************************************)
EXTENDS IpcQueue

MCMessages == {"m1", "m2"}

=============================================================================
