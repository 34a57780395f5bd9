---------------------------- MODULE MCTRexSuite ----------------------------
(***************************************************************************)
(* TLC instances of TRexSuite: sets that a .cfg cannot write.              *)
(***************************************************************************)
EXTENDS TRexSuite

CONSTANTS anson, beatrice

\* anson may let beatrice spend for him.
MCApprovals == {<<anson, beatrice>>}

NoApprovals == {}

NoHandovers == {}

MCHandovers ==
  {<<"IdentityRegistry", ZeroAddress>>, <<"IdentityRegistryStorage", ZeroAddress>>}
=============================================================================
