------------------------------ MODULE NdnNames ------------------------------
(***************************************************************************)
(* NDN names as the forwarder uses them.  A name is a sequence of          *)
(* components; the only questions the tables ask of a name are its length  *)
(* and whether it is a prefix of another one.                              *)
(***************************************************************************)
EXTENDS Naturals, Sequences

Name == Seq(STRING)

IsPrefixOf(p, n) == Len(p) <= Len(n) /\ SubSeq(n, 1, Len(p)) = p

LOCALHOST_NAME == <<"localhost">>

LOCALHOP_NAME == <<"localhop">>

=============================================================================
