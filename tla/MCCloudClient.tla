--------------------------- MODULE MCCloudClient ---------------------------
(***************************************************************************)
(* The cloud client with up to two name queries under way and a reconnect  *)
(* count that wraps at 8, past the 5 the code looks for.                   *)
(***************************************************************************)
EXTENDS CloudClient
=============================================================================
