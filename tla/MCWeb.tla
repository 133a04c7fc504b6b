-------------------------------- MODULE MCWeb ---------------------------------
(* Constants of WebServer for TLC are given in the configurations.          *)
EXTENDS WebServer
=============================================================================
