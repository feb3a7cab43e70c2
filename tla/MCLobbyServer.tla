--------------------------- MODULE MCLobbyServer ----------------------------
(***************************************************************************)
(* Instances of LobbyServer for TLC.  Users and lobby ids are only ever    *)
(* compared, so both are symmetry sets; symmetry is used for safety only.  *)
(***************************************************************************)
EXTENDS LobbyServer, TLC

Symmetry == Permutations(Users) \cup Permutations(Lobbies)
=============================================================================
