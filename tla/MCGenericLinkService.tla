------------------------ MODULE MCGenericLinkService -------------------------
(***************************************************************************)
(* Two senders; a Nack that is cut in two or three, a Data that needs      *)
(* three fragments or more than are allowed and is over the smaller MTU    *)
(* whole, and an Interest with a local field that goes whole.              *)
(***************************************************************************)
EXTENDS GenericLinkService

MCNetPacket ==
  {[type |-> "Interest", headers |-> {"Nack"}, size |-> 43, headerSize |-> 4],
   [type |-> "Data", headers |-> {}, size |-> 70, headerSize |-> 0],
   [type |-> "Interest", headers |-> {"NextHopFaceId"}, size |-> 20, headerSize |-> 5]}

MCMtu == {66, 75}

=============================================================================
