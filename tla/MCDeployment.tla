---------------------------- MODULE MCDeployment ----------------------------
(***************************************************************************)
(* TLC instances of Deployment: the address files a start may find.        *)
(***************************************************************************)
EXTENDS Deployment

AddressFile(ir, token) == [is |-> "addresses", ir |-> ir, token |-> token, chain |-> -1]

\* No file; or that of a second deployment on an earlier chain, which names
\* nothing on a new one.  The file of a first deployment, whose addresses come
\* back, is what a teardown within the run leaves behind.
MCEarlierFile == {Without("absent"), AddressFile(17, 21)}
=============================================================================
