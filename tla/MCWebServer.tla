---------------------------- MODULE MCWebServer ----------------------------
(***************************************************************************)
(* Two clients; bodies and images of up to 3 units in every division into  *)
(* fragments, of which bodies of 3 are too long for save_data; heads that  *)
(* come whole or in parts; stray units beyond two bodies; and room in one  *)
(* count for an upload, a head of 1 unit and a part of another upload.     *)
(***************************************************************************)
EXTENDS WebServer
=============================================================================
