----------------------------- MODULE MCPublish ------------------------------
(* Publish with two triggers that ask for the same clip name.              *)
EXTENDS PublishInv

MCBaseOf == [h \in Handlers |-> CHOOSE b \in Bases : TRUE]
=============================================================================
