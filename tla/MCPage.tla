-------------------------------- MODULE MCPage --------------------------------
(* The bound of SmartPage is given in page.cfg.                             *)
EXTENDS SmartPage
=============================================================================
