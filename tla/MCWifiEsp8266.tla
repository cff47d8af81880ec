--------------------------- MODULE MCWifiEsp8266 ---------------------------
(***************************************************************************)
(* Small instances of WifiEsp8266 for TLC.                                 *)
(***************************************************************************)
EXTENDS WifiEsp8266
=============================================================================
