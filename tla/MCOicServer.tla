----------------------------- MODULE MCOicServer -----------------------------
(***************************************************************************)
(* The environment server with the messages of scpi_client.cpp, in          *)
(* syllables, and what env_scpiparser.cpp promises for each.                *)
(***************************************************************************)
EXTENDS OicServer

M(s) == <<":", "MEAS", ":">> \o s
Channel(number) == M(<<"TEMP", "?", ":", "CH", " ">> \o number)

(* The temperature of channel min (x, 2), x being the whole part of a number *)
MCPromise ==
  <<"*", "IDN?">>                              :> "EnvServ V1.1" @@
  <<"*", "ST", "OP">>                          :> "STOP done" @@
  Channel(<<"1", ".", "2", "e", "1", "d", "V">>) :> "1.1" @@
  Channel(<<"M", "A", "X">>)                   :> "2.1" @@
  M(<<"TEMP", "1", "?">>)                      :> "1.1" @@
  M(<<"TEMP", "?", " ", "CH", "2">>)           :> "2.1" @@
  <<":", "ONZIN">>                             :> "wrong SCPI cmd" @@
  <<":", "MEAS", "URE", ":", "LUMI", "NOSITY", "?">> :> "2323"

MCMessages == DOMAIN MCPromise

(* What the tree and the callbacks do with one message, executed first *)
ASSUME TreeAssumption == Determined /\ KeepsPromise /\ OnlyStopStops
==============================================================================
