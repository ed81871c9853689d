------------------------------ MODULE AppTokens ------------------------------
(***************************************************************************)
(* The installation tokens of the GitHub App (GithubAppAuthFactory).  The  *)
(* cache is read and written under a lock, but between the two a request   *)
(* to GitHub is awaited: callers that find no token each ask for one, and  *)
(* the last to store wins.  One installation: the cache is keyed by its    *)
(* id.                                                                     *)
(***************************************************************************)
EXTENDS Naturals, FiniteSets

CONSTANTS Callers,     \* coroutines that need tokens
          MaxTokens    \* tokens that are told apart at a time

ASSUME TokenAssumption ==
  IsFiniteSet(Callers) /\ MaxTokens \in Nat /\ MaxTokens > Cardinality(Callers)

Tokens == 1..MaxTokens
NoToken == 0

VARIABLES
  token,   \* GitHub: the state of every token the server still has
  cache,   \* __token_cache for the installation
  asked,   \* the token on its way to a caller from GitHub
  hand,    \* the token get_auth or get_token has returned
  died     \* history: the caller's token ended after it was given out

tokenVars == <<token, cache, asked, hand, died>>

InUse == {cache} \cup {asked[c] : c \in Callers} \cup {hand[c] : c \in Callers}

\* The names of tokens that nobody has any more are used again.
Forget == token' = [t \in Tokens |-> IF t \in InUse' THEN token[t] ELSE "none"]

TokenTypeOK ==
  /\ token \in [Tokens -> {"none", "live", "expired", "revoked"}]
  /\ cache \in {NoToken} \cup Tokens
  /\ asked \in [Callers -> {NoToken} \cup Tokens]
  /\ hand \in [Callers -> {NoToken} \cup Tokens]
  /\ died \in [Callers -> BOOLEAN]
  /\ \A t \in Tokens : t \in InUse <=> token[t] # "none"

TokenInit ==
  /\ token = [t \in Tokens |-> "none"] /\ cache = NoToken
  /\ asked = [c \in Callers |-> NoToken] /\ hand = [c \in Callers |-> NoToken]
  /\ died = [c \in Callers |-> FALSE]

\* Tokens last an hour, the server's clock tells; one that is revoked shows
\* only when it is used.
TokenDies(t, end) ==
  /\ token[t] = "live"
  /\ token' = [token EXCEPT ![t] = end]
  /\ died' = [c \in Callers |-> died[c] \/ t \in {asked[c], hand[c]}]
  /\ UNCHANGED <<cache, asked, hand>>

\* A faulty variant of Cached: the expiry is not looked at.
Cached_AnyAge == cache

\* What the cache has for a caller: an expired token is none.
Cached == IF cache # NoToken /\ token[cache] # "expired" THEN cache ELSE NoToken

Wants(c) == asked[c] = NoToken /\ hand[c] = NoToken

TakeCached(c, force) ==
  /\ Wants(c) /\ Cached # NoToken /\ ~ force
  /\ hand' = [hand EXCEPT ![c] = Cached]
  /\ died' = [died EXCEPT ![c] = FALSE]
  /\ UNCHANGED <<token, cache, asked>>

\* POST access_tokens.
AskToken(c, force) ==
  /\ Wants(c) /\ (Cached = NoToken \/ force)
  /\ LET t == CHOOSE x \in Tokens : token[x] = "none" IN
       /\ token' = [token EXCEPT ![t] = "live"]
       /\ asked' = [asked EXCEPT ![c] = t]
  /\ died' = [died EXCEPT ![c] = FALSE]
  /\ UNCHANGED <<cache, hand>>

StoreToken(c) ==
  /\ asked[c] # NoToken
  /\ cache' = asked[c]
  /\ hand' = [hand EXCEPT ![c] = asked[c]]
  /\ asked' = [asked EXCEPT ![c] = NoToken]
  /\ Forget
  /\ UNCHANGED died

\* The request the token was for is over.
Release(c) ==
  /\ hand' = [hand EXCEPT ![c] = NoToken]
  /\ died' = [died EXCEPT ![c] = FALSE]
  /\ UNCHANGED <<cache, asked>>
  /\ Forget

Accepted(c) == hand[c] # NoToken /\ token[hand[c]] = "live"
Denied(c) == hand[c] # NoToken /\ token[hand[c]] # "live"
=============================================================================
