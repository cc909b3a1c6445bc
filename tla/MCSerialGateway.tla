--------------------------- MODULE MCSerialGateway --------------------------
(***************************************************************************)
(* The gateway with two requests in a round and two clients.               *)
(***************************************************************************)
EXTENDS SerialGateway

MCRequests == <<":MEAS:VOLT?:CH 0", ":GET:STATUS?">>
=============================================================================
