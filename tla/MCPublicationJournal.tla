------------------------ MODULE MCPublicationJournal ------------------------
(* The journal for TLC: the instance is in the configuration.               *)
EXTENDS PublicationJournal
=============================================================================
