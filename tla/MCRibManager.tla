---------------------------- MODULE MCRibManager -----------------------------
(***************************************************************************)
(* Instances of RibManager: three nested names, two faces that are there   *)
(* from the start and one that is created.                                 *)
(***************************************************************************)
EXTENDS RibManager

CONSTANTS f, g, h

a   == <<"a">>
ab  == <<"a", "b">>
abc == <<"a", "b", "c">>

Reg(n, face, cost, inherit, capture, expires) ==
  [name |-> n, face |-> face, cost |-> cost, inherit |-> inherit, capture |-> capture,
   expires |-> expires]

MCFace == {f, g, h}
MCInitFaces == {f, g}

\* /a passes its routes on; /a/b captures, and for good; a route of /a/b/c expires.
MCRegistrations ==
  {Reg(a, f, 1, TRUE, FALSE, FALSE), Reg(a, f, 2, TRUE, FALSE, FALSE),
   Reg(ab, g, 1, FALSE, TRUE, FALSE), Reg(abc, g, 1, TRUE, FALSE, TRUE),
   Reg(abc, f, 1, TRUE, FALSE, FALSE), Reg(a, h, 1, TRUE, FALSE, FALSE)}
MCUnregistrations == {<<a, f>>, <<abc, g>>}

\* Two faces and two names are enough for a late answer to meet the next update.
LateRegistrations ==
  {Reg(a, f, 1, TRUE, FALSE, FALSE), Reg(a, f, 2, TRUE, FALSE, FALSE),
   Reg(abc, g, 1, TRUE, FALSE, FALSE)}
LateUnregistrations == {<<abc, g>>}

\* Routes whose flags change.
FlagRegistrations ==
  {Reg(n, face, 1, inherit, capture, FALSE) :
     n \in {a, ab, abc}, face \in {f, g}, inherit \in BOOLEAN, capture \in BOOLEAN}
FlagUnregistrations == {<<n, face>> : n \in {a, ab, abc}, face \in {f, g}}
=============================================================================
