---------------------------- MODULE MCIapUpdate ----------------------------
(***************************************************************************)
(* Images for TLC: of one page and a half, and of two pages; they begin    *)
(* alike, as two versions of one program do.                               *)
(***************************************************************************)
EXTENDS IapUpdate

MCImages == {<<1, 2, 1>>, <<1, 2, 2, 1>>}

=============================================================================
