------------------------------ MODULE MCCommunity ------------------------------
(***************************************************************************)
(* Three requests of two members about a problem.                          *)
(***************************************************************************)
EXTENDS Community

Spec == CommunityInit /\ [][CommunityNext]_communityVars

=============================================================================
