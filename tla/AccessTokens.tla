------------------------------ MODULE AccessTokens ------------------------------
(* Tokens bound to sessions (handlers/tokens.rs, db/tokens.rs) and the lookup  *)
(* of every request that carries one (middleware/jwt.rs). Every statement runs *)
(* on its own, without a transaction; deleting a session removes its bindings  *)
(* by foreign key. Signatures, expiry and tokens without a jti are left out.   *)
EXTENDS Naturals

CONSTANTS
    Tokens, Sessions,
    Requests, Revokes,  \* requests with a token; requests to revoke one
    MaxLives            \* bound: how often a session id is created

VARIABLES
    row, bound,     \* the tables tokens and token_sessions
    mint,           \* the request that mints each token
    check,          \* each request that carries a token
    revoke,         \* what each request to revoke was answered
    life, lives     \* which creation of the id exists, 0 for none; how many there were

vars == <<row, bound, mint, check, revoke, life, lives>>

Idle    == [pc |-> "new", t |-> "none", s |-> "none", revoked |-> FALSE, late |-> FALSE]
Minted  == {t \in Tokens : mint[t].pc = "minted"}
Answered(t) == \E u \in Revokes : revoke[u] = <<"revoked", t>>
MintStep(t, from, to, left) ==
    /\ mint[t].pc = from
    /\ mint' = [mint EXCEPT ![t] = [pc |-> to, want |-> mint[t].want, left |-> left]]

-----------------------------------------------------------------------------
(* mint_token *)

mint_token(t) ==
    /\ mint[t].pc = "new"
    /\ \E S \in (SUBSET Sessions) \ {{}} :
         mint' = [mint EXCEPT ![t] = [pc |-> "check", want |-> S, left |-> S]]
    /\ UNCHANGED <<row, bound, check, revoke, life, lives>>

get_session(t) ==
    /\ \E s \in mint[t].left :
         IF life[s] = 0 THEN MintStep(t, "check", "failed", {})
         ELSE IF mint[t].left = {s} THEN MintStep(t, "check", "row", mint[t].want)
         ELSE MintStep(t, "check", "check", mint[t].left \ {s})
    /\ UNCHANGED <<row, bound, check, revoke, life, lives>>

insert_token(t) ==
    /\ MintStep(t, "row", "bind", mint[t].left) /\ row' = [row EXCEPT ![t] = "live"]
    /\ UNCHANGED <<bound, check, revoke, life, lives>>

\* The foreign key refuses a session that is gone; the caller then gets no token.
insert_token_session(t) ==
    /\ \E s \in mint[t].left :
         \/ life[s] = 0 /\ MintStep(t, "bind", "failed", {}) /\ UNCHANGED bound
         \/ /\ life[s] > 0 /\ bound' = bound \cup {<<t, s, life[s]>>}
            /\ MintStep(t, "bind", IF mint[t].left = {s} THEN "minted" ELSE "bind",
                        mint[t].left \ {s})
    /\ UNCHANGED <<row, check, revoke, life, lives>>

\* A statement fails; those before it stay.
mint_fails(t) ==
    /\ mint[t].pc \in {"check", "row", "bind"} /\ MintStep(t, mint[t].pc, "failed", {})
    /\ UNCHANGED <<row, bound, check, revoke, life, lives>>

-----------------------------------------------------------------------------
(* jwt_auth_middleware, with TokenStore::status *)

jwt_auth_middleware(c) ==
    /\ check[c].pc = "new"
    /\ \E t \in Minted, s \in Sessions :
         check' = [check EXCEPT ![c] =
                     [pc |-> "row", t |-> t, s |-> s, revoked |-> FALSE, late |-> Answered(t)]]
    /\ UNCHANGED <<row, bound, mint, revoke, life, lives>>

Refuse(c) == check' = [check EXCEPT ![c].pc = "refused"]

select_revoked(c) ==
    /\ check[c].pc = "row"
    /\ check' = [check EXCEPT ![c].pc = "sessions", ![c].revoked = row[check[c].t] = "revoked"]
    /\ UNCHANGED <<row, bound, mint, revoke, life, lives>>

Admits(c) == \E n \in 1..MaxLives : <<check[c].t, check[c].s, n>> \in bound

select_sessions(c) ==
    /\ check[c].pc = "sessions"
    /\ IF ~check[c].revoked /\ Admits(c)
       THEN check' = [check EXCEPT ![c].pc = "admitted"] ELSE Refuse(c)
    /\ UNCHANGED <<row, bound, mint, revoke, life, lives>>

\* A lookup that fails refuses the request.
lookup_fails(c) ==
    /\ check[c].pc \in {"row", "sessions"} /\ Refuse(c)
    /\ UNCHANGED <<row, bound, mint, revoke, life, lives>>

-----------------------------------------------------------------------------
(* revoke_token; the sessions *)

revoke_token(u) ==
    /\ revoke[u] = <<>>
    /\ \E t \in Tokens :
         IF row[t] = "live"
         THEN row' = [row EXCEPT ![t] = "revoked"] /\ revoke' = [revoke EXCEPT ![u] = <<"revoked", t>>]
         ELSE UNCHANGED row /\ revoke' = [revoke EXCEPT ![u] = <<"not_found", t>>]
    /\ UNCHANGED <<bound, mint, check, life, lives>>

create_session(s) ==
    /\ life[s] = 0 /\ lives[s] < MaxLives /\ lives' = [lives EXCEPT ![s] = @ + 1]
    /\ life' = [life EXCEPT ![s] = lives'[s]]
    /\ UNCHANGED <<row, bound, mint, check, revoke>>

\* Mutant: foreign keys are not enforced, as is SQLite's default.
delete_session_only(s) ==
    /\ life[s] > 0 /\ life' = [life EXCEPT ![s] = 0]
    /\ UNCHANGED <<row, bound, mint, check, revoke, lives>>

delete_session(s) ==
    /\ life[s] > 0 /\ life' = [life EXCEPT ![s] = 0]
    /\ bound' = {b \in bound : b[2] /= s}
    /\ UNCHANGED <<row, mint, check, revoke, lives>>

-----------------------------------------------------------------------------

Init ==
    /\ row = [t \in Tokens |-> "none"] /\ bound = {}
    /\ mint = [t \in Tokens |-> [pc |-> "new", want |-> {}, left |-> {}]]
    /\ check = [c \in Requests |-> Idle] /\ revoke = [u \in Revokes |-> <<>>]
    /\ life = [s \in Sessions |-> 1] /\ lives = [s \in Sessions |-> 1]

Next ==
    \/ \E t \in Tokens : \/ mint_token(t) \/ get_session(t) \/ insert_token(t)
                         \/ insert_token_session(t) \/ mint_fails(t)
    \/ \E c \in Requests : \/ jwt_auth_middleware(c) \/ select_revoked(c)
                           \/ select_sessions(c) \/ lookup_fails(c)
    \/ \E u \in Revokes : revoke_token(u)
    \/ \E s \in Sessions : create_session(s) \/ delete_session(s)

Spec == Init /\ [][Next]_vars

-----------------------------------------------------------------------------

TypeOK ==
    /\ row \in [Tokens -> {"none", "live", "revoked"}]
    /\ bound \subseteq Tokens \X Sessions \X (1..MaxLives)
    /\ mint \in [Tokens -> [pc : {"new", "check", "row", "bind", "minted", "failed"},
                            want : SUBSET Sessions, left : SUBSET Sessions]]
    /\ \A c \in Requests : check[c].pc \in {"new", "row", "sessions", "admitted", "refused"}
    /\ life \in [Sessions -> 0..MaxLives] /\ lives \in [Sessions -> 1..MaxLives]

\* db/tokens.rs:267-268: of several requests to revoke a token one is told that
\* it did.
RevokedOnce == \A u, v \in Revokes : revoke[u] = revoke[v] /\ revoke[u] /= <<>>
                                       /\ revoke[u][1] = "revoked" => u = v

\* CHANGELOG.md:363: a request that comes in after a revocation was answered is
\* not let through, however the lookups and the revocation interleave.
RevocationIsImmediate == \A c \in Requests : check[c].pc = "admitted" => ~check[c].late

\* A token that was handed out reaches every session it was minted for, those
\* deleted since excepted.
HandedOutIsWhole ==
    \A t \in Minted : \A s \in mint[t].want :
        (lives[s] = 1 /\ life[s] = 1) => <<t, s, 1>> \in bound

\* A request is let through only to the very session its token was minted for,
\* not to another one that took the id over.
ScopeHolds ==
    [][\A c \in Requests : check'[c].pc = "admitted" /\ check[c].pc /= "admitted" =>
         LET t == check[c].t  s == check[c].s IN
         s \in mint[t].want /\ <<t, s, life[s]>> \in bound]_vars

\* A token reaches the sessions it was minted for and no other, until one request
\* revokes it for all that follow.
TokensHold ==
    /\ [](TypeOK /\ RevokedOnce /\ RevocationIsImmediate /\ HandedOutIsWhole)
    /\ ScopeHolds
=============================================================================
