--------------------------- MODULE MCRefreshTokens ---------------------------
(* Small instances of RefreshTokens for TLC. *)
EXTENDS RefreshTokens, TLC

(* Tokens, clients and request slots are interchangeable; used only by runs  *)
(* without liveness properties.                                            *)
Symmetry == Permutations(Tokens) \cup Permutations(Clients)
              \cup Permutations(Workers)
=============================================================================
