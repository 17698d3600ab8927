------------------------ MODULE MCAutoPrefixPropagator -----------------------
(***************************************************************************)
(* An instance in which /a/x/1 is under both identities and /a/y under one *)
(* of them, so that taking /a away moves a RIB entry to another prefix and *)
(* leaves the other one without.                                           *)
(***************************************************************************)
EXTENDS AutoPrefixPropagator

MCRibPrefix == {<<"a", "x", "1">>, <<"a", "y">>}

MCKeyChainOrder == <<<<"a", "x">>, <<"a", "nrd">>>>

MCInitIdentities == {<<"a", "nrd">>}

=============================================================================
