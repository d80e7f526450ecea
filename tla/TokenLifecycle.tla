--------------------------- MODULE TokenLifecycle ---------------------------
(***************************************************************************)
(* What the token service of webapi promises about refresh tokens, whoever *)
(* asks and however the requests interleave: a token is issued once, it    *)
(* goes from active to revoked and never back, and a successor is derived  *)
(* only from a token that is already revoked, for the same client, and at  *)
(* most MaxSuccessors times.                                               *)
(*                                                                         *)
(* RefreshTokens implements this with MaxSuccessors equal to the number of *)
(* requests the server handles at the same time: MaxSuccessors = 1 is the  *)
(* single use of a refresh token.                                          *)
(***************************************************************************)
EXTENDS Integers, FiniteSets

CONSTANTS Tokens,         \* the refresh tokens that can ever be drawn
          Clients,        \* the registered applications
          None,           \* "no token", "no client"
          MaxSuccessors   \* how often one token may be exchanged

VARIABLES status,   \* status[t] : "absent", "active" or "revoked"
          owner,    \* owner[t]  : the client the token was issued to
          parent    \* parent[t] : the token t was exchanged for, or None

vars == <<status, owner, parent>>

Successors(p) == {t \in Tokens : status[t] # "absent" /\ parent[t] = p}

Init == /\ status = [t \in Tokens |-> "absent"]
        /\ owner = [t \in Tokens |-> None]
        /\ parent = [t \in Tokens |-> None]

(* A client that proves its credentials gets a token of its own. *)
Issue(t, c) == /\ status[t] = "absent"
               /\ status' = [status EXCEPT ![t] = "active"]
               /\ owner' = [owner EXCEPT ![t] = c]
               /\ parent' = [parent EXCEPT ![t] = None]

(* A token stops being usable, by a revocation or by an exchange. *)
Revoke(t) == /\ status[t] = "active"
             /\ status' = [status EXCEPT ![t] = "revoked"]
             /\ UNCHANGED <<owner, parent>>

(* The second half of an exchange: t replaces the revoked p. *)
Derive(p, t) == /\ status[p] = "revoked"
                /\ status[t] = "absent"
                /\ Cardinality(Successors(p)) < MaxSuccessors
                /\ status' = [status EXCEPT ![t] = "active"]
                /\ owner' = [owner EXCEPT ![t] = owner[p]]
                /\ parent' = [parent EXCEPT ![t] = p]

Next == \/ \E t \in Tokens, c \in Clients : Issue(t, c)
        \/ \E t \in Tokens : Revoke(t)
        \/ \E p, t \in Tokens : Derive(p, t)

Spec == Init /\ [][Next]_vars
=============================================================================
