---- MODULE MCGatewayClient ----
(* Two processes at a time, the preferred port and one other, one restart in a row, a   *)
(* sidecar that is asked to close once, a chat of one word.                             *)
EXTENDS GatewayClient
====
