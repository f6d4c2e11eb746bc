-------------------------- MODULE MCAuthorityCheck --------------------------
(* The authority check for TLC: the instances are in the configurations.    *)
EXTENDS AuthorityCheck
=============================================================================
