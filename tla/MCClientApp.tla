---------------------------- MODULE MCClientApp ----------------------------
(***************************************************************************)
(* ClientApp for TLC.                                                      *)
(***************************************************************************)
EXTENDS ClientApp

\* Two volumes, one of which is rounded; two hosts and two ports.
MCVolumes == {0, 503}
MCHosts   == {"127.0.0.1", "example.org"}
MCPorts   == {0, 5001}
=============================================================================
