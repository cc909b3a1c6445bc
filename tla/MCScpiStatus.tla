---------------------------- MODULE MCScpiStatus ----------------------------
(* ScpiStatus with a queue of two, one condition bit, and parameters that
   reach beyond 16 bits. *)
EXTENDS ScpiStatus

MCAppCodes == {0 - 310, 7}

MCEnableValues == {{}, {0}, {5, 16}}

(* nothing, the error queue and SRQ itself, everything but the queue *)
MCSreValues == {{}, {2, 6}, {3, 4, 5, 7}}

MCCondValues == {{}, {0}}

(* The outputs of the last call do not influence the next one. *)
StateView == <<ctx.reg, ctx.queue>>
=============================================================================
