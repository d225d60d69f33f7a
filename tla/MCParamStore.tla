---------------------------- MODULE MCParamStore ----------------------------
(***************************************************************************)
(* The parameter store with a token to post and four values of a byte: the *)
(* two the code writes, the erased one, and one partly programmed or a     *)
(* character.                                                              *)
(***************************************************************************)
EXTENDS ParamStore

MCFlagByte == {0, 1, 128, 255}
=============================================================================
