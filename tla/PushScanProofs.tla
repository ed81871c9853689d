--------------------------- MODULE PushScanProofs ---------------------------
(***************************************************************************)
(* Proofs about PushScan and AppTokens, for any SCMs, branches, protected  *)
(* branches, retries, events, commits and tokens: their types, that a push *)
(* is scanned at its own commit, and why a request is ever denied.         *)
(***************************************************************************)
EXTENDS PushScan, FiniteSetTheorems, WellFoundedInduction, TLAPS

-----------------------------------------------------------------------------
(***************************************************************************)
(* The tokens.  A caller waits for a token or has one, never both; what it *)
(* waits for or holds was good when it was given out.                      *)
(***************************************************************************)
TokenFresh ==
  \A c \in Callers :
    /\ asked[c] = NoToken \/ hand[c] = NoToken
    /\ asked[c] # NoToken /\ ~ died[c] => token[asked[c]] = "live"
    /\ hand[c] # NoToken /\ ~ died[c] => token[hand[c]] # "expired"

TokenInv == TokenTypeOK /\ TokenFresh

\* A caller that has no token finds a name for a new one: every other caller
\* has at most one token, and the cache one more.
LEMMA TokenLeft ==
  ASSUME TokenInv, NEW c \in Callers, Wants(c)
  PROVE  \E t \in Tokens : token[t] = "none"
<1>. SUFFICES ASSUME \A t \in Tokens : token[t] # "none"
              PROVE  FALSE
  OBVIOUS
<1>. DEFINE holder(t) == CHOOSE d \in Callers : t \in {asked[d], hand[d]}
            f == [t \in Tokens |-> IF t = cache THEN c ELSE holder(t)]
<1>1. \A t \in Tokens : t # cache => holder(t) \in Callers /\ t \in {asked[holder(t)], hand[holder(t)]}
  BY DEF TokenInv, TokenTypeOK, InUse
<1>2. f \in [Tokens -> Callers]
  BY <1>1
<1>3. IsFiniteSet(Tokens) /\ Cardinality(Tokens) = MaxTokens
  <2>1. Cardinality(Callers) \in Nat
    BY TokenAssumption, FS_CardinalityType
  <2>2. MaxTokens \in Int /\ 1 \in Int /\ ~ (1 > MaxTokens)
    BY <2>1, TokenAssumption
  <2>3. IsFiniteSet(1..MaxTokens) /\ Cardinality(1..MaxTokens) = MaxTokens - 1 + 1
    BY <2>2, FS_Interval
  <2>. QED
    BY <2>2, <2>3 DEF Tokens
<1>4. PICK x, y \in Tokens : x # y /\ f[x] = f[y]
  <2>. HIDE DEF f
  <2>1. IsFiniteSet(Callers) /\ Cardinality(Callers) < Cardinality(Tokens)
    BY <1>3, TokenAssumption, FS_CardinalityType
  <2>. QED
    BY <1>2, <1>3, <2>1, FS_PigeonHole
<1>5. x # NoToken /\ y # NoToken
  BY TokenAssumption DEF Tokens, NoToken
<1>6. \A t \in {x, y} : IF t = cache THEN f[t] = c ELSE f[t] = holder(t) /\ f[t] # c
  BY <1>1, <1>5 DEF Wants
<1>. QED
  BY <1>1, <1>4, <1>5, <1>6 DEF TokenInv, TokenFresh

\* Giving out the cached token, asking for one and storing it.
LEMMA GetTokenTokens ==
  ASSUME TokenInv, NEW c \in Callers, NEW force,
         TakeCached(c, force) \/ AskToken(c, force) \/ StoreToken(c)
  PROVE  TokenInv'
<1>. USE DEF TokenInv, TokenTypeOK, TokenFresh, InUse
<1>0. NoToken \notin Tokens
  BY TokenAssumption DEF Tokens, NoToken
<1>1. CASE TakeCached(c, force)
  BY <1>0, <1>1 DEF TakeCached, Wants, Cached
<1>2. CASE AskToken(c, force)
  <2>. DEFINE t == CHOOSE x \in Tokens : token[x] = "none"
  <2>1. t \in Tokens /\ token[t] = "none"
    BY <1>2, TokenLeft DEF AskToken
  <2>2. /\ token' = [token EXCEPT ![t] = "live"] /\ asked' = [asked EXCEPT ![c] = t]
        /\ died' = [died EXCEPT ![c] = FALSE] /\ cache' = cache /\ hand' = hand
        /\ asked[c] = NoToken /\ hand[c] = NoToken
    BY <1>2 DEF AskToken, Wants
  <2>. HIDE DEF t
  <2>3. TokenTypeOK'
    BY <1>0, <2>1, <2>2
  <2>4. TokenFresh'
    BY <1>0, <2>1, <2>2
  <2>. QED
    BY <2>3, <2>4
<1>3. CASE StoreToken(c)
  <2>1. TokenTypeOK'
    BY <1>0, <1>3 DEF StoreToken, Forget
  <2>2. TokenFresh'
    BY <1>0, <1>3 DEF StoreToken, Forget
  <2>. QED
    BY <2>1, <2>2
<1>. HIDE DEF TokenInv
<1>. QED
  BY <1>1, <1>2, <1>3

\* The end of a request, by a caller that is not waiting for a token.
LEMMA ReleaseTokens ==
  ASSUME TokenInv, NEW c \in Callers, Release(c), asked[c] = NoToken
  PROVE  TokenInv'
<1>. USE DEF TokenInv, TokenTypeOK, TokenFresh, InUse, Release, Forget
<1>0. NoToken \notin Tokens
  BY TokenAssumption DEF Tokens, NoToken
<1>1. TokenTypeOK'
  BY <1>0
<1>2. TokenFresh'
  BY <1>0
<1>. QED
  BY <1>1, <1>2

\* A token ends at GitHub, and its holders are told apart from then on.
LEMMA TokenDiesTokens ==
  ASSUME TokenInv, NEW t \in Tokens, NEW end \in {"expired", "revoked"}, TokenDies(t, end)
  PROVE  TokenInv'
<1>. USE DEF TokenInv, TokenTypeOK, TokenFresh, InUse, TokenDies
<1>0. NoToken \notin Tokens
  BY TokenAssumption DEF Tokens, NoToken
<1>1. TokenTypeOK'
  BY <1>0
<1>2. TokenFresh'
  BY <1>0
<1>. QED
  BY <1>1, <1>2

\* Steps that leave the tokens alone.
LEMMA TokensUnchanged ==
  ASSUME TokenInv, UNCHANGED tokenVars
  PROVE  TokenInv'
BY DEF TokenInv, TokenTypeOK, TokenFresh, InUse, tokenVars
-----------------------------------------------------------------------------
(***************************************************************************)
(* The events and their scans.                                             *)
(***************************************************************************)

\* Events name changes, and a deleted branch has no hash.
EventInv ==
  \A e \in Sent : /\ event[e] # <<>>
                  /\ \A i \in DOMAIN event[e] : event[e][i].type = "DELETE" => event[e][i].hash = NoCommit

\* What a task at each step knows of its target: from the clone on it is of
\* a protected branch, from the reset on it is what the working tree is at.
TaskInv ==
  \A e \in Sent :
    /\ NoCommit \notin cloned[e]
    /\ pc[e] \in {"clone", "reset", "submit", "submitted"} => Target(e).branch \in protected \cup {Default}
    /\ pc[e] \in {"submit", "submitted"} => code[e] = Target(e).hash /\ Target(e).hash # NoCommit
    /\ pc[e] = "submitted" => scan[e] # NoScan

\* Only a request to GitHub is waiting for a token, and from the second try
\* on the token is one that was asked for then.
CallInv ==
  \A e \in Events :
    /\ asked[e] # NoToken => scm = "gh" /\ Calling(e)
    /\ tries[e] > 0 /\ ~ died[e] /\ hand[e] # NoToken => token[hand[e]] = "live"

\* Every event has a scan's and a cause's place.
ShapeOK == DOMAIN scan = Events /\ DOMAIN cause = Events

\* Nothing has happened to an event before it is sent.
UnsentInv ==
  \A e \in Events \ Sent : cloned[e] = {} /\ scan[e] = NoScan /\ cause[e].at = "none"

IInv ==
  /\ TypeOK /\ ShapeOK /\ UnsentInv /\ TokenInv /\ CallInv /\ EventInv /\ TaskInv
  /\ ScanIsOfPush /\ DenialExplained

\* A bounded set of numbers has a greatest member: the tip of a branch.
LEMMA GreatestExists ==
  ASSUME NEW n \in Nat, NEW S \in SUBSET (0..n), S # {}
  PROVE  \E c \in S : \A d \in S : d <= c
<1>. DEFINE R == OpToRel(<, Nat)
            T == {n - c : c \in S}
<1>1. IsWellFoundedOn(R, Nat)
  BY NatLessThanWellFounded
<1>2. T \subseteq Nat /\ T # {}
  <2>1. \A c \in S : c \in Nat /\ n - c \in Nat
    OBVIOUS
  <2>2. PICK c0 \in S : TRUE
    OBVIOUS
  <2>3. n - c0 \in T
    BY <2>2
  <2>. QED
    BY <2>1, <2>3
<1>3. \A x, y \in Nat : <<x, y>> \in R <=> x < y
  BY DEF OpToRel
<1>. HIDE DEF R, T
<1>4. PICK x \in T : \A y \in T : <<y, x>> \notin R
  BY <1>1, <1>2, WFMin
<1>. USE DEF T
<1>5. PICK c \in S : x = n - c
  OBVIOUS
<1>6. \A d \in S : ~ (n - d < x)
  BY <1>2, <1>3, <1>4
<1>. QED
  BY <1>5, <1>6

\* The default branch has a tip.
LEMMA TipFacts ==
  ASSUME TypeOK
  PROVE  Tip(Default) \in Commits
<1>1. on[Default] \in SUBSET (0..commits) /\ commits \in Nat /\ on[Default] # {}
  BY PushAssumption DEF TypeOK
<1>2. Tip(Default) \in on[Default]
  BY <1>1, GreatestExists DEF Tip
<1>. QED
  BY <1>2, PushAssumption DEF TypeOK, Commits, NoCommit

\* An event is sent under the next number, and the others stay as they are.
LEMMA SendFacts ==
  ASSUME TypeOK, NEW ch \in Seq(Changes), Send(ch)
  PROVE  /\ Len(event) + 1 \in Events /\ Len(event) + 1 \notin Sent
         /\ event' \in Seq(Seq(Changes)) /\ Len(event') <= MaxEvents
         /\ Sent' = Sent \cup {Len(event) + 1}
         /\ \A e \in Sent : event'[e] = event[e]
         /\ event'[Len(event) + 1] = ch
<1>1. Len(event) \in Nat /\ event \in Seq(Seq(Changes)) /\ Len(event) + 1 <= MaxEvents
  BY PushAssumption DEF TypeOK, Send
<1>2. event' = Append(event, ch)
  BY DEF Send
<1>. QED
  BY <1>1, <1>2, PushAssumption DEF Sent, Events

\* What users do: the branches stay branches of known commits, and the event
\* that is sent is a proper one.
Proper(ch) ==
  /\ ch \in Seq(Changes) /\ ch # <<>>
  /\ \A i \in DOMAIN ch : ch[i].type = "DELETE" => ch[i].hash = NoCommit

UserEffect ==
  /\ on' \in [Branches -> SUBSET (1..commits')] /\ on'[Default] # {}
  /\ commits' \in 1..MaxCommit
  /\ \E ch \in Seq(Changes) : Proper(ch) /\ Send(ch)

\* One change or two make a proper event.
LEMMA ProperFacts ==
  ASSUME NEW c \in Changes, NEW d \in Changes,
         c.type = "DELETE" => c.hash = NoCommit, d.type = "DELETE" => d.hash = NoCommit
  PROVE  Proper(<<c>>) /\ Proper(<<c, d>>)
<1>1. Proper(<<c>>)
  <2>1. <<c>> \in Seq(Changes) /\ <<c>> # <<>> /\ \A i \in DOMAIN <<c>> : <<c>>[i] = c
    OBVIOUS
  <2>. QED
    BY <2>1 DEF Proper
<1>2. Proper(<<c, d>>)
  <2>1. <<c, d>> \in Seq(Changes) /\ <<c, d>> # <<>>
    OBVIOUS
  <2>2. \A i \in DOMAIN <<c, d>> : <<c, d>>[i] \in {c, d}
    OBVIOUS
  <2>. QED
    BY <2>1, <2>2 DEF Proper
<1>. QED
  BY <1>1, <1>2

\* The user's actions have that effect.
LEMMA UserFacts ==
  ASSUME TypeOK, User
  PROVE  UserEffect
<1>. USE PushAssumption
<1>0. commits \in Nat /\ commits \in 1..MaxCommit /\ on \in [Branches -> SUBSET (1..commits)]
      /\ on[Default] # {} /\ NoCommit \in Commits /\ Commits = 0..MaxCommit
  BY DEF TypeOK, Commits, NoCommit
<1>1. ASSUME NEW b \in Branches, NEW type \in {"ADD", "UPDATE", "DELETE"}, NEW h \in Commits
      PROVE  Change(b, type, h) \in Changes
  BY DEF Change, Changes
<1>2. ASSUME NEW b \in Branches, NEW forced \in BOOLEAN, UserPushes(b, forced)
      PROVE  UserEffect
  <2>1. commits' = commits + 1 /\ commits' \in 1..MaxCommit /\ commits' \in Commits
    BY <1>0, <1>2 DEF UserPushes
  <2>2. on' \in [Branches -> SUBSET (1..commits')] /\ on'[Default] # {}
    BY <1>0, <1>2, <2>1 DEF UserPushes
  <2>. DEFINE c == Change(b, IF on[b] = {} THEN "ADD" ELSE "UPDATE", commits')
  <2>3. c \in Changes /\ c.type # "DELETE" /\ Send(<<c>>)
    BY <1>1, <1>2, <2>1 DEF UserPushes, Change
  <2>. HIDE DEF c
  <2>. QED
    BY <2>1, <2>2, <2>3, ProperFacts DEF UserEffect, Proper
<1>3. ASSUME NEW b \in Branches, UserDeletes(b)
      PROVE  UserEffect
  <2>1. on' \in [Branches -> SUBSET (1..commits')] /\ on'[Default] # {} /\ commits' \in 1..MaxCommit
    BY <1>0, <1>3 DEF UserDeletes
  <2>. DEFINE c == Change(b, "DELETE", NoCommit)
  <2>2. c \in Changes /\ c.hash = NoCommit /\ Send(<<c>>)
    BY <1>0, <1>1, <1>3 DEF UserDeletes, Change
  <2>. HIDE DEF c
  <2>. QED
    BY <2>1, <2>2, ProperFacts DEF UserEffect, Proper
<1>4. ASSUME NEW a \in Branches, NEW b \in Branches, UserPushesTwo(a, b)
      PROVE  UserEffect
  <2>1. commits' = commits + 1 /\ commits' \in 1..MaxCommit /\ commits' \in Commits
    BY <1>0, <1>4 DEF UserPushesTwo
  <2>2. PICK deleted \in {FALSE, a # Default} :
          LET first == IF deleted THEN Change(a, "DELETE", NoCommit) ELSE Change(a, "UPDATE", commits')
          IN /\ on' = [on EXCEPT ![a] = IF deleted THEN {} ELSE @ \cup {commits'},
                                 ![b] = @ \cup {commits'}]
             /\ \/ Send(<<first, Change(b, "UPDATE", commits')>>)
                \/ Send(<<Change(b, "UPDATE", commits'), first>>)
    BY <1>4 DEF UserPushesTwo
  <2>. DEFINE c == IF deleted THEN Change(a, "DELETE", NoCommit) ELSE Change(a, "UPDATE", commits')
              d == Change(b, "UPDATE", commits')
  <2>3. on' \in [Branches -> SUBSET (1..commits')]
    BY <1>0, <2>1, <2>2
  <2>4. on'[Default] # {}
    <3>1. deleted => a # Default
      BY <2>2
    <3>2. a # b /\ on'[b] = on[b] \cup {commits'} /\ on'[a] = IF deleted THEN {} ELSE on[a] \cup {commits'}
      BY <1>0, <1>4, <2>2 DEF UserPushesTwo
    <3>3. Default \notin {a, b} => on'[Default] = on[Default]
      BY <1>0, <2>2
    <3>. QED
      BY <1>0, <3>1, <3>2, <3>3
  <2>5. c \in Changes /\ d \in Changes /\ (c.type = "DELETE" => c.hash = NoCommit) /\ d.type # "DELETE"
    BY <1>0, <1>1, <2>1 DEF Change
  <2>6. Send(<<c, d>>) \/ Send(<<d, c>>)
    BY <2>2
  <2>. HIDE DEF c, d
  <2>7. CASE Send(<<c, d>>)
    BY <2>1, <2>3, <2>4, <2>5, <2>7, ProperFacts DEF UserEffect, Proper
  <2>8. CASE Send(<<d, c>>)
    BY <2>1, <2>3, <2>4, <2>5, <2>8, ProperFacts DEF UserEffect, Proper
  <2>. QED
    BY <2>6, <2>7, <2>8
<1>. QED
  BY <1>2, <1>3, <1>4 DEF User
-----------------------------------------------------------------------------
(***************************************************************************)
(* Every step preserves the invariant.                                    *)
(***************************************************************************)

\* Tasks are callers.
LEMMA SentFacts ==
  ASSUME TypeOK, NEW e \in Sent
  PROVE  e \in Events /\ e \in Callers /\ Events = Callers
<1>1. e \in 1..Len(event) /\ Len(event) \in Nat /\ Len(event) <= MaxEvents
  BY DEF TypeOK, Sent
<1>. QED
  BY <1>1, PushAssumption DEF Events

\* The target of an event is a function of the event and the SCM.
LEMMA TargetKept ==
  ASSUME scm' = scm, NEW e, event'[e] = event[e]
  PROVE  Target(e)' = Target(e)
BY DEF Target, Scannable

\* A branch that is taken for protected is, or is the default one.
LEMMA ProtectedFacts ==
  ProtectedBranches \subseteq protected \cup {Default}
BY DEF ProtectedBranches, GithubProtected

\* Releasing its token, a task leaves those of the others alone.
LEMMA ReleaseCalls ==
  ASSUME TokenInv, CallInv, NEW e \in Callers, Release(e), asked[e] = NoToken,
         Events = Callers, scm' = scm,
         \A d \in Events \ {e} : pc'[d] = pc[d] /\ tries'[d] = tries[d]
  PROVE  CallInv'
BY DEF TokenInv, TokenTypeOK, InUse, CallInv, Calling, Release, Forget, NoToken

\* A task's step: it lets go of a token only when it has one.
LEMMA TokenStep ==
  ASSUME TypeOK, TokenInv, CallInv,
         NEW e \in Sent, Step(e)
  PROVE  TokenInv' /\ CallInv'
<1>0. e \in Events /\ e \in Callers /\ Events = Callers
  BY SentFacts
<1>1. CASE Receive(e)
  <2>1. UNCHANGED tokenVars /\ scm' = scm /\ asked[e] = NoToken
    BY <1>1, <1>0 DEF Receive, scmVars, tokenVars, CallInv, Calling
  <2>2. CallInv'
    BY <1>1, <2>1, <1>0 DEF Receive, CallInv, Calling, TypeOK, Goto, tokenVars
  <2>. QED
    BY <2>1, <2>2, TokensUnchanged
<1>2. CASE GetToken(e)
  <2>1. TokenInv'
    BY <1>2, <1>0, GetTokenTokens DEF GetToken
  <2>2. scm' = scm /\ pc' = pc /\ tries' = tries /\ scm = "gh" /\ Calling(e)
    BY <1>2 DEF GetToken, scmVars
  <2>3. CASE TakeCached(e, ForceReauth(e))
    <3>1. ~ (tries[e] > 0) /\ \A d \in Callers \ {e} : hand'[d] = hand[d] /\ died'[d] = died[d]
      BY <1>0, <2>3 DEF TakeCached, ForceReauth, TokenInv, TokenTypeOK
    <3>. QED
      BY <1>0, <2>1, <2>2, <2>3, <3>1 DEF TakeCached, CallInv, Calling
  <2>4. CASE AskToken(e, ForceReauth(e))
    <3>. DEFINE t == CHOOSE x \in Tokens : token[x] = "none"
    <3>1. t \in Tokens /\ token[t] = "none"
      BY <1>0, <2>4, TokenLeft DEF AskToken
    <3>2. /\ token' = [token EXCEPT ![t] = "live"] /\ asked' = [asked EXCEPT ![e] = t]
          /\ died' = [died EXCEPT ![e] = FALSE] /\ hand' = hand /\ hand[e] = NoToken
      BY <2>4 DEF AskToken, Wants
    <3>. HIDE DEF t
    <3>3. \A d \in Events : hand[d] # NoToken => hand[d] \in Tokens /\ hand[d] # t
      BY <1>0, <3>1 DEF TokenInv, TokenTypeOK, InUse
    <3>. QED
      BY <1>0, <2>1, <2>2, <3>1, <3>2, <3>3 DEF CallInv, Calling, TokenInv, TokenTypeOK, NoToken
  <2>5. CASE StoreToken(e)
    BY <1>0, <2>2, <2>5 DEF StoreToken, Forget, InUse, CallInv, Calling, TokenInv, TokenTypeOK, TokenFresh, NoToken
  <2>. QED
    BY <1>2, <2>1, <2>3, <2>4, <2>5 DEF GetToken
<1>3. CASE TokenRefused(e)
  <2>1. Release(e) /\ asked[e] = NoToken /\ scm' = scm
    BY <1>3, <1>0 DEF TokenRefused, Ends, Wants, scmVars, CallInv, Calling, TokenInv, TokenFresh
  <2>2. \A d \in Events \ {e} : pc'[d] = pc[d] /\ tries'[d] = tries[d]
    BY <1>3 DEF TokenRefused, Ends, Wants, TypeOK, Goto
  <2>. QED
    BY <1>0, <2>1, <2>2, ReleaseTokens, ReleaseCalls
<1>4. CASE ApiAnswers(e)
  <2>1. Release(e) /\ asked[e] = NoToken /\ scm' = scm
    BY <1>4, <1>0 DEF ApiAnswers, Ready, Accepted, scmVars, CallInv, Calling, TokenInv, TokenFresh
  <2>2. \A d \in Events \ {e} : pc'[d] = pc[d] /\ tries'[d] = tries[d]
    BY <1>4 DEF ApiAnswers, Ready, Accepted, TypeOK, Goto
  <2>. QED
    BY <1>0, <2>1, <2>2, ReleaseTokens, ReleaseCalls
<1>5. CASE ApiDenied(e)
  <2>1. Release(e) /\ asked[e] = NoToken /\ scm' = scm
    BY <1>5, <1>0 DEF ApiDenied, Ends, Refused, Denied, scmVars, CallInv, Calling, TokenInv, TokenFresh
  <2>2. \A d \in Events \ {e} : pc'[d] = pc[d] /\ tries'[d] = tries[d]
    BY <1>5 DEF ApiDenied, Ends, Refused, Denied, TypeOK, Goto
  <2>. QED
    BY <1>0, <2>1, <2>2, ReleaseTokens, ReleaseCalls
<1>6. CASE ApiFails(e)
  <2>1. Release(e) /\ asked[e] = NoToken /\ scm' = scm
    BY <1>6, <1>0 DEF ApiFails, Ends, scmVars, CallInv, Calling, TokenInv, TokenFresh
  <2>2. \A d \in Events \ {e} : pc'[d] = pc[d] /\ tries'[d] = tries[d]
    BY <1>6 DEF ApiFails, Ends, TypeOK, Goto
  <2>. QED
    BY <1>0, <2>1, <2>2, ReleaseTokens, ReleaseCalls
<1>7. CASE Clone(e)
  <2>1. Release(e) /\ asked[e] = NoToken /\ scm' = scm
    BY <1>7, <1>0 DEF Clone, Ready, Accepted, scmVars, CallInv, Calling, TokenInv, TokenFresh
  <2>2. \A d \in Events \ {e} : pc'[d] = pc[d] /\ tries'[d] = tries[d]
    BY <1>7 DEF Clone, Ready, Accepted, TypeOK, Goto
  <2>. QED
    BY <1>0, <2>1, <2>2, ReleaseTokens, ReleaseCalls
<1>8. CASE CloneDenied(e)
  <2>1. Release(e) /\ asked[e] = NoToken /\ scm' = scm
    BY <1>8, <1>0 DEF CloneDenied, Ends, Refused, Denied, scmVars, CallInv, Calling, TokenInv, TokenFresh
  <2>2. \A d \in Events \ {e} : pc'[d] = pc[d] /\ tries'[d] = tries[d]
    BY <1>8 DEF CloneDenied, Ends, Refused, Denied, TypeOK, Goto
  <2>. QED
    BY <1>0, <2>1, <2>2, ReleaseTokens, ReleaseCalls
<1>9. CASE ResetHead(e)
  <2>0. asked[e] = NoToken /\ scm' = scm
    BY <1>9, <1>0 DEF ResetHead, scmVars, CallInv, Calling
  <2>1. CASE UNCHANGED tokenVars
    <3>1. tries' = tries \/ Release(e)
      BY <1>9 DEF ResetHead, Ends
    <3>2. CASE Release(e)
      BY <1>0, <1>9, <2>0, <3>2, ReleaseTokens, ReleaseCalls DEF ResetHead, Ends, TypeOK, Goto
    <3>3. CASE tries' = tries
      BY <1>0, <1>9, <2>0, <2>1, <3>3, TokensUnchanged DEF ResetHead, Ends, CallInv, Calling, TypeOK, Goto, tokenVars
    <3>. QED
      BY <3>1, <3>2, <3>3
  <2>2. CASE Ends(e, "gone")
    <3>1. \A d \in Events \ {e} : pc'[d] = pc[d] /\ tries'[d] = tries[d]
      BY <2>2 DEF Ends, TypeOK, Goto
    <3>. QED
      BY <1>0, <2>0, <2>2, <3>1, ReleaseTokens, ReleaseCalls DEF Ends
  <2>. QED
    BY <1>9, <2>1, <2>2 DEF ResetHead
<1>10. CASE SubmitScan(e)
  <2>1. UNCHANGED tokenVars /\ scm' = scm /\ asked[e] = NoToken
    BY <1>10, <1>0 DEF SubmitScan, scmVars, tokenVars, CallInv, Calling
  <2>2. CallInv'
    BY <1>10, <2>1, <1>0 DEF SubmitScan, CallInv, Calling, TypeOK, Goto, tokenVars
  <2>. QED
    BY <2>1, <2>2, TokensUnchanged
<1>11. CASE StartFeedback(e)
  <2>1. Release(e) /\ asked[e] = NoToken /\ scm' = scm
    BY <1>11, <1>0 DEF StartFeedback, Ends, scmVars, CallInv, Calling, TokenInv, TokenFresh
  <2>2. \A d \in Events \ {e} : pc'[d] = pc[d] /\ tries'[d] = tries[d]
    BY <1>11 DEF StartFeedback, Ends, TypeOK, Goto
  <2>. QED
    BY <1>0, <2>1, <2>2, ReleaseTokens, ReleaseCalls
<1>12. CASE ScanFails(e)
  <2>1. Release(e) /\ asked[e] = NoToken /\ scm' = scm
    BY <1>12, <1>0 DEF ScanFails, Ends, Ready, Accepted, scmVars, CallInv, Calling, TokenInv, TokenFresh
  <2>2. \A d \in Events \ {e} : pc'[d] = pc[d] /\ tries'[d] = tries[d]
    BY <1>12 DEF ScanFails, Ends, Ready, Accepted, TypeOK, Goto
  <2>. QED
    BY <1>0, <2>1, <2>2, ReleaseTokens, ReleaseCalls
<1>13. CASE ApiGivesUp(e)
  <2>1. Release(e) /\ asked[e] = NoToken /\ scm' = scm
    BY <1>13, <1>0 DEF ApiGivesUp, Ends, Ready, Accepted, scmVars, CallInv, Calling, TokenInv, TokenFresh
  <2>2. \A d \in Events \ {e} : pc'[d] = pc[d] /\ tries'[d] = tries[d]
    BY <1>13 DEF ApiGivesUp, Ends, TypeOK, Goto
  <2>. QED
    BY <1>0, <2>1, <2>2, ReleaseTokens, ReleaseCalls
<1>14. CASE CloneForbidden(e)
  <2>1. Release(e) /\ asked[e] = NoToken /\ scm' = scm
    BY <1>14, <1>0 DEF CloneForbidden, Ends, Ready, Accepted, scmVars, CallInv, Calling, TokenInv, TokenFresh
  <2>2. \A d \in Events \ {e} : pc'[d] = pc[d] /\ tries'[d] = tries[d]
    BY <1>14 DEF CloneForbidden, Ends, TypeOK, Goto
  <2>. QED
    BY <1>0, <2>1, <2>2, ReleaseTokens, ReleaseCalls
<1>15. CASE FeedbackRefused(e)
  <2>1. Release(e) /\ asked[e] = NoToken /\ scm' = scm
    BY <1>15, <1>0 DEF FeedbackRefused, Ends, Ready, Accepted, scmVars, CallInv, Calling, TokenInv, TokenFresh
  <2>2. \A d \in Events \ {e} : pc'[d] = pc[d] /\ tries'[d] = tries[d]
    BY <1>15 DEF FeedbackRefused, Ends, TypeOK, Goto
  <2>. QED
    BY <1>0, <2>1, <2>2, ReleaseTokens, ReleaseCalls
<1>. QED
  BY <1>1, <1>2, <1>3, <1>4, <1>5, <1>6, <1>7, <1>8, <1>9, <1>10, <1>11, <1>12, <1>13, <1>14, <1>15 DEF Step

\* The tries of a task at a step.
TriesOK(step, n) == n > 0 => IF step = "api" THEN n < Retries ELSE step = "clone" /\ n = 1

Steps == {"unsent", "received", "api", "clone", "reset", "submit", "submitted", "done", "failed"}

\* A step of one task keeps the types if what it leaves behind is of them.
LEMMA OneTaskType ==
  ASSUME TypeOK, TokenTypeOK', NEW e \in Sent, UNCHANGED scmVars,
         pc' \in [Events -> Steps], tries' \in [Events -> 0..Retries],
         cloned' \in [Events -> SUBSET Commits], code' \in [Events -> Commits],
         \A d \in Events \ {e} : pc'[d] = pc[d] /\ tries'[d] = tries[d],
         pc'[e] # "unsent", TriesOK(pc'[e], tries'[e]),
         faults' \in 0..MaxFaults, feedback' \subseteq {d \in Events : scan'[d] # NoScan}
  PROVE  TypeOK'
<1>1. e \in Events
  BY SentFacts
<1>2. \A d \in Events : TriesOK(pc[d], tries[d])
  BY DEF TypeOK, TriesOK
<1>3. \A d \in Events : TriesOK(pc'[d], tries'[d])
  BY <1>1, <1>2
<1>4. Sent' = Sent /\ \A d \in Events : pc'[d] = "unsent" <=> d \notin Sent'
  BY <1>1 DEF TypeOK, scmVars, Sent
<1>. QED
  BY <1>3, <1>4 DEF TypeOK, scmVars, TriesOK, Steps

\* The end of a task keeps the types.
LEMMA EndsType ==
  ASSUME TypeOK, TokenTypeOK', NEW e \in Sent, NEW why, Ends(e, why), UNCHANGED scmVars,
         faults' \in 0..MaxFaults, feedback' \subseteq {d \in Events : scan'[d] # NoScan}
  PROVE  TypeOK'
<1>1. e \in Events /\ 0 \in 0..Retries /\ NoCommit \in Commits
  BY SentFacts, PushAssumption DEF NoCommit, Commits
<1>2. /\ pc' \in [Events -> Steps] /\ tries' \in [Events -> 0..Retries] /\ tries'[e] = 0
      /\ cloned' \in [Events -> SUBSET Commits] /\ code' \in [Events -> Commits]
      /\ pc'[e] # "unsent" /\ \A d \in Events \ {e} : pc'[d] = pc[d] /\ tries'[d] = tries[d]
  BY <1>1 DEF TypeOK, Ends, Goto, Steps
<1>3. TriesOK(pc'[e], tries'[e])
  BY <1>2 DEF TriesOK
<1>. QED
  BY <1>2, <1>3, OneTaskType

\* A task's step keeps the types: in particular the count of tries.
LEMMA TypeStep ==
  ASSUME TypeOK, ShapeOK, TokenTypeOK', TaskInv,
         NEW e \in Sent, Step(e)
  PROVE  TypeOK'
<1>0. e \in Events /\ e \in Callers /\ Events = Callers
  BY SentFacts
<1>t. pc[e] # "unsent" /\ TriesOK(pc[e], tries[e])
  BY <1>0 DEF TypeOK, TriesOK
<1>1. CASE Receive(e)
  <2>1. pc' \in [Events -> Steps] /\ tries' \in [Events -> 0..Retries]
    BY <1>0, <1>1, PushAssumption DEF TypeOK, Steps, Receive, Goto
  <2>2. cloned' \in [Events -> SUBSET Commits] /\ code' \in [Events -> Commits]
    BY <1>0, <1>1, PushAssumption DEF TypeOK, Commits, NoCommit, Receive, Goto
  <2>3. \A d \in Events \ {e} : pc'[d] = pc[d] /\ tries'[d] = tries[d]
    BY <1>0, <1>1 DEF TypeOK, Receive, Goto
  <2>4. pc'[e] # "unsent" /\ TriesOK(pc'[e], tries'[e]) /\ UNCHANGED scmVars
    BY <1>0, <1>t, <1>1, PushAssumption DEF TypeOK, TriesOK, Receive, Goto
  <2>5. faults' \in 0..MaxFaults /\ feedback' \subseteq {d \in Events : scan'[d] # NoScan}
    BY <1>0, <1>1, PushAssumption DEF TypeOK, Receive, Goto
  <2>. QED
    BY <2>1, <2>2, <2>3, <2>4, <2>5, OneTaskType
<1>2. CASE GetToken(e)
  <2>1. pc' \in [Events -> Steps] /\ tries' \in [Events -> 0..Retries]
    BY <1>0, <1>2, PushAssumption DEF TypeOK, Steps, GetToken, Goto
  <2>2. cloned' \in [Events -> SUBSET Commits] /\ code' \in [Events -> Commits]
    BY <1>0, <1>2, PushAssumption DEF TypeOK, Commits, NoCommit, GetToken, Goto
  <2>3. \A d \in Events \ {e} : pc'[d] = pc[d] /\ tries'[d] = tries[d]
    BY <1>0, <1>2 DEF TypeOK, GetToken, Goto
  <2>4. pc'[e] # "unsent" /\ TriesOK(pc'[e], tries'[e]) /\ UNCHANGED scmVars
    BY <1>0, <1>t, <1>2, PushAssumption DEF TypeOK, TriesOK, GetToken, Goto
  <2>5. faults' \in 0..MaxFaults /\ feedback' \subseteq {d \in Events : scan'[d] # NoScan}
    BY <1>0, <1>2, PushAssumption DEF TypeOK, GetToken, Goto
  <2>. QED
    BY <2>1, <2>2, <2>3, <2>4, <2>5, OneTaskType
<1>3. CASE TokenRefused(e)
  <2>1. Ends(e, "fault") /\ UNCHANGED scmVars
    BY <1>3 DEF TokenRefused
  <2>2. faults' \in 0..MaxFaults /\ feedback' \subseteq {d \in Events : scan'[d] # NoScan}
    BY <1>0, <1>3, PushAssumption DEF TokenRefused, TypeOK, TaskInv
  <2>. QED
    BY <2>1, <2>2, EndsType
<1>4. CASE ApiAnswers(e)
  <2>1. pc' \in [Events -> Steps] /\ tries' \in [Events -> 0..Retries]
    BY <1>0, <1>4, PushAssumption DEF TypeOK, Steps, ApiAnswers, Goto
  <2>2. cloned' \in [Events -> SUBSET Commits] /\ code' \in [Events -> Commits]
    BY <1>0, <1>4, PushAssumption DEF TypeOK, Commits, NoCommit, ApiAnswers, Goto
  <2>3. \A d \in Events \ {e} : pc'[d] = pc[d] /\ tries'[d] = tries[d]
    BY <1>0, <1>4 DEF TypeOK, ApiAnswers, Goto
  <2>4. pc'[e] # "unsent" /\ TriesOK(pc'[e], tries'[e]) /\ UNCHANGED scmVars
    BY <1>0, <1>t, <1>4, PushAssumption DEF TypeOK, TriesOK, ApiAnswers, Goto
  <2>5. faults' \in 0..MaxFaults /\ feedback' \subseteq {d \in Events : scan'[d] # NoScan}
    BY <1>0, <1>4, PushAssumption DEF TypeOK, ApiAnswers, Goto
  <2>. QED
    BY <2>1, <2>2, <2>3, <2>4, <2>5, OneTaskType
<1>5. CASE ApiDenied(e)
  <2>1. Ends(e, Blame(e)) /\ UNCHANGED scmVars
    BY <1>5 DEF ApiDenied
  <2>2. faults' \in 0..MaxFaults /\ feedback' \subseteq {d \in Events : scan'[d] # NoScan}
    BY <1>0, <1>5, PushAssumption DEF ApiDenied, TypeOK, TaskInv
  <2>. QED
    BY <2>1, <2>2, EndsType
<1>6. CASE ApiFails(e)
  <2>1. CASE TriesLeft(e)
    <3>0. pc' = pc /\ tries' = [tries EXCEPT ![e] = tries[e] + 1] /\ tries[e] + 1 \in 0..Retries
      BY <1>0, <1>6, <2>1, PushAssumption DEF TypeOK, ApiFails, TriesLeft
    <3>1. pc' \in [Events -> Steps] /\ tries' \in [Events -> 0..Retries]
      BY <1>0, <3>0 DEF TypeOK, Steps
    <3>2. cloned' \in [Events -> SUBSET Commits] /\ code' \in [Events -> Commits]
      BY <1>0, <1>6, <2>1, PushAssumption DEF TypeOK, Commits, NoCommit, ApiFails, Goto, TriesLeft
    <3>3. \A d \in Events \ {e} : pc'[d] = pc[d] /\ tries'[d] = tries[d]
      BY <1>0, <1>6, <2>1 DEF TypeOK, ApiFails, Goto, TriesLeft
    <3>4. pc'[e] # "unsent" /\ TriesOK(pc'[e], tries'[e]) /\ UNCHANGED scmVars
      BY <1>0, <1>t, <1>6, <2>1, PushAssumption DEF TypeOK, TriesOK, ApiFails, Goto, TriesLeft
    <3>5. faults' \in 0..MaxFaults /\ feedback' \subseteq {d \in Events : scan'[d] # NoScan}
      BY <1>0, <1>6, <2>1, PushAssumption DEF TypeOK, ApiFails, Goto, TriesLeft
    <3>. QED
      BY <3>1, <3>2, <3>3, <3>4, <3>5, OneTaskType
  <2>2. CASE ~ (TriesLeft(e))
    <3>1. Ends(e, "fault") /\ UNCHANGED scmVars
      BY <1>6, <2>2 DEF ApiFails
    <3>2. faults' \in 0..MaxFaults /\ feedback' \subseteq {d \in Events : scan'[d] # NoScan}
      BY <1>6, PushAssumption DEF ApiFails, TypeOK
    <3>. QED
      BY <3>1, <3>2, EndsType
  <2>. QED
    BY <2>1, <2>2
<1>7. CASE Clone(e)
  <2>0. Tip(Default) \in Commits /\ Reachable \in SUBSET Commits
    BY TipFacts, PushAssumption DEF TypeOK, Reachable, Commits, NoCommit
  <2>1. pc' \in [Events -> Steps] /\ tries' \in [Events -> 0..Retries]
    BY <1>0, <1>7, <2>0, PushAssumption DEF TypeOK, Steps, Clone, Goto
  <2>2. cloned' \in [Events -> SUBSET Commits] /\ code' \in [Events -> Commits]
    BY <1>0, <1>7, <2>0, PushAssumption DEF TypeOK, Commits, NoCommit, Clone, Goto
  <2>3. \A d \in Events \ {e} : pc'[d] = pc[d] /\ tries'[d] = tries[d]
    BY <1>0, <1>7, <2>0 DEF TypeOK, Clone, Goto
  <2>4. pc'[e] # "unsent" /\ TriesOK(pc'[e], tries'[e]) /\ UNCHANGED scmVars
    BY <1>0, <1>t, <1>7, <2>0, PushAssumption DEF TypeOK, TriesOK, Clone, Goto
  <2>5. faults' \in 0..MaxFaults /\ feedback' \subseteq {d \in Events : scan'[d] # NoScan}
    BY <1>0, <1>7, <2>0, PushAssumption DEF TypeOK, Clone, Goto
  <2>. QED
    BY <2>1, <2>2, <2>3, <2>4, <2>5, OneTaskType
<1>8. CASE CloneDenied(e)
  <2>1. CASE tries[e] = 0
    <3>0. pc' = pc /\ tries' = [tries EXCEPT ![e] = 1] /\ 1 \in 0..Retries
      BY <1>0, <1>8, <2>1, PushAssumption DEF TypeOK, CloneDenied
    <3>1. pc' \in [Events -> Steps] /\ tries' \in [Events -> 0..Retries]
      BY <1>0, <3>0 DEF TypeOK, Steps
    <3>2. cloned' \in [Events -> SUBSET Commits] /\ code' \in [Events -> Commits]
      BY <1>0, <1>8, <2>1, PushAssumption DEF TypeOK, Commits, NoCommit, CloneDenied, Goto
    <3>3. \A d \in Events \ {e} : pc'[d] = pc[d] /\ tries'[d] = tries[d]
      BY <1>0, <1>8, <2>1 DEF TypeOK, CloneDenied, Goto
    <3>4. pc'[e] # "unsent" /\ TriesOK(pc'[e], tries'[e]) /\ UNCHANGED scmVars
      BY <1>0, <1>t, <1>8, <2>1, PushAssumption DEF TypeOK, TriesOK, CloneDenied, Goto
    <3>5. faults' \in 0..MaxFaults /\ feedback' \subseteq {d \in Events : scan'[d] # NoScan}
      BY <1>0, <1>8, <2>1, PushAssumption DEF TypeOK, CloneDenied, Goto
    <3>. QED
      BY <3>1, <3>2, <3>3, <3>4, <3>5, OneTaskType
  <2>2. CASE ~ (tries[e] = 0)
    <3>1. Ends(e, Blame(e)) /\ UNCHANGED scmVars
      BY <1>8, <2>2 DEF CloneDenied
    <3>2. faults' \in 0..MaxFaults /\ feedback' \subseteq {d \in Events : scan'[d] # NoScan}
      BY <1>8, PushAssumption DEF CloneDenied, TypeOK
    <3>. QED
      BY <3>1, <3>2, EndsType
  <2>. QED
    BY <2>1, <2>2
<1>9. CASE ResetHead(e)
  <2>1. CASE Target(e).hash \in cloned[e]
    <3>1. pc' \in [Events -> Steps] /\ tries' \in [Events -> 0..Retries]
      BY <1>0, <1>9, <2>1, PushAssumption DEF TypeOK, Steps, ResetHead, Goto, tokenVars
    <3>2. cloned' \in [Events -> SUBSET Commits] /\ code' \in [Events -> Commits]
      BY <1>0, <1>9, <2>1, PushAssumption DEF TypeOK, Commits, NoCommit, ResetHead, Goto, tokenVars
    <3>3. \A d \in Events \ {e} : pc'[d] = pc[d] /\ tries'[d] = tries[d]
      BY <1>0, <1>9, <2>1 DEF TypeOK, ResetHead, Goto, tokenVars
    <3>4. pc'[e] # "unsent" /\ TriesOK(pc'[e], tries'[e]) /\ UNCHANGED scmVars
      BY <1>0, <1>t, <1>9, <2>1, PushAssumption DEF TypeOK, TriesOK, ResetHead, Goto, tokenVars
    <3>5. faults' \in 0..MaxFaults /\ feedback' \subseteq {d \in Events : scan'[d] # NoScan}
      BY <1>0, <1>9, <2>1, PushAssumption DEF TypeOK, ResetHead, Goto, tokenVars
    <3>. QED
      BY <3>1, <3>2, <3>3, <3>4, <3>5, OneTaskType
  <2>2. CASE ~ (Target(e).hash \in cloned[e])
    <3>1. Ends(e, "gone") /\ UNCHANGED scmVars
      BY <1>9, <2>2 DEF ResetHead
    <3>2. faults' \in 0..MaxFaults /\ feedback' \subseteq {d \in Events : scan'[d] # NoScan}
      BY <1>9, PushAssumption DEF ResetHead, TypeOK
    <3>. QED
      BY <3>1, <3>2, EndsType
  <2>. QED
    BY <2>1, <2>2
<1>10. CASE SubmitScan(e)
  <2>0. Target(e).hash # NoCommit
    BY <1>10 DEF SubmitScan, TaskInv
  <2>s. scan'[e] # NoScan /\ \A d \in Events \ {e} : scan'[d] = scan[d]
    BY <1>0, <1>10, <2>0 DEF SubmitScan, ShapeOK, NoScan
  <2>1. pc' \in [Events -> Steps] /\ tries' \in [Events -> 0..Retries]
    BY <1>0, <1>10, <2>s, PushAssumption DEF TypeOK, Steps, SubmitScan, Goto
  <2>2. cloned' \in [Events -> SUBSET Commits] /\ code' \in [Events -> Commits]
    BY <1>0, <1>10, <2>s, PushAssumption DEF TypeOK, Commits, NoCommit, SubmitScan, Goto
  <2>3. \A d \in Events \ {e} : pc'[d] = pc[d] /\ tries'[d] = tries[d]
    BY <1>0, <1>10, <2>s DEF TypeOK, SubmitScan, Goto
  <2>4. pc'[e] # "unsent" /\ TriesOK(pc'[e], tries'[e]) /\ UNCHANGED scmVars
    BY <1>0, <1>t, <1>10, <2>s, PushAssumption DEF TypeOK, TriesOK, SubmitScan, Goto
  <2>5. faults' \in 0..MaxFaults /\ feedback' \subseteq {d \in Events : scan'[d] # NoScan}
    BY <1>0, <1>10, <2>s, PushAssumption DEF TypeOK, SubmitScan, Goto
  <2>. QED
    BY <2>1, <2>2, <2>3, <2>4, <2>5, OneTaskType
<1>11. CASE StartFeedback(e)
  <2>1. Ends(e, "none") /\ UNCHANGED scmVars
    BY <1>11 DEF StartFeedback
  <2>2. faults' \in 0..MaxFaults /\ feedback' \subseteq {d \in Events : scan'[d] # NoScan}
    BY <1>0, <1>11, PushAssumption DEF StartFeedback, TypeOK, TaskInv
  <2>. QED
    BY <2>1, <2>2, EndsType
<1>12. CASE ScanFails(e)
  <2>1. Ends(e, "fault") /\ UNCHANGED scmVars
    BY <1>12 DEF ScanFails
  <2>2. faults' \in 0..MaxFaults /\ feedback' \subseteq {d \in Events : scan'[d] # NoScan}
    BY <1>0, <1>12, PushAssumption DEF ScanFails, TypeOK, TaskInv
  <2>. QED
    BY <2>1, <2>2, EndsType
<1>13. CASE ApiGivesUp(e)
  <2>1. PICK why \in {"raised", "forbidden"} : Ends(e, why)
    BY <1>13 DEF ApiGivesUp
  <2>2. faults' \in 0..MaxFaults /\ feedback' \subseteq {d \in Events : scan'[d] # NoScan} /\ UNCHANGED scmVars
    BY <1>0, <1>13, PushAssumption DEF ApiGivesUp, TypeOK
  <2>. QED
    BY <2>1, <2>2, EndsType
<1>14. CASE CloneForbidden(e)
  <2>1. CASE tries[e] = 0
    <3>0. pc' = pc /\ tries' = [tries EXCEPT ![e] = 1] /\ 1 \in 0..Retries
      BY <1>0, <1>14, <2>1, PushAssumption DEF TypeOK, CloneForbidden
    <3>1. pc' \in [Events -> Steps] /\ tries' \in [Events -> 0..Retries]
      BY <1>0, <3>0 DEF TypeOK, Steps
    <3>2. cloned' \in [Events -> SUBSET Commits] /\ code' \in [Events -> Commits]
      BY <1>0, <1>14, <2>1, PushAssumption DEF TypeOK, Commits, NoCommit, CloneForbidden, Goto
    <3>3. \A d \in Events \ {e} : pc'[d] = pc[d] /\ tries'[d] = tries[d]
      BY <1>0, <1>14, <2>1 DEF TypeOK, CloneForbidden, Goto
    <3>4. pc'[e] # "unsent" /\ TriesOK(pc'[e], tries'[e]) /\ UNCHANGED scmVars
      BY <1>0, <1>t, <1>14, <2>1, PushAssumption DEF TypeOK, TriesOK, CloneForbidden, Goto
    <3>5. faults' \in 0..MaxFaults /\ feedback' \subseteq {d \in Events : scan'[d] # NoScan}
      BY <1>0, <1>14, <2>1, PushAssumption DEF TypeOK, CloneForbidden, Goto
    <3>. QED
      BY <3>1, <3>2, <3>3, <3>4, <3>5, OneTaskType
  <2>2. CASE ~ (tries[e] = 0)
    <3>1. Ends(e, "forbidden") /\ UNCHANGED scmVars
      BY <1>14, <2>2 DEF CloneForbidden
    <3>2. faults' \in 0..MaxFaults /\ feedback' \subseteq {d \in Events : scan'[d] # NoScan}
      BY <1>14, PushAssumption DEF CloneForbidden, TypeOK
    <3>. QED
      BY <3>1, <3>2, EndsType
  <2>. QED
    BY <2>1, <2>2
<1>15. CASE FeedbackRefused(e)
  <2>1. Ends(e, "unpublished") /\ UNCHANGED scmVars
    BY <1>15 DEF FeedbackRefused
  <2>2. faults' \in 0..MaxFaults /\ feedback' \subseteq {d \in Events : scan'[d] # NoScan}
    BY <1>0, <1>15, PushAssumption DEF FeedbackRefused, TypeOK
  <2>. QED
    BY <2>1, <2>2, EndsType
<1>. QED
  BY <1>1, <1>2, <1>3, <1>4, <1>5, <1>6, <1>7, <1>8, <1>9, <1>10, <1>11, <1>12, <1>13, <1>14, <1>15 DEF Step

\* Scans and causes are of events.
LEMMA ShapeStep ==
  ASSUME ShapeOK, NEW e \in Sent, Step(e)
  PROVE  ShapeOK'
BY DEF Step, Receive, GetToken, TokenRefused, ApiAnswers, ApiDenied, ApiGivesUp, ApiFails, Clone, CloneDenied, CloneForbidden,
       ResetHead, SubmitScan, StartFeedback, FeedbackRefused, ScanFails, Ends, ShapeOK

\* A task's step changes neither the SCM nor the events.
LEMMA StepFrame ==
  ASSUME NEW e \in Sent, Step(e)
  PROVE  /\ scm' = scm /\ event' = event /\ protected' = protected /\ Sent' = Sent
         /\ \A d \in Sent : Target(d)' = Target(d)
<1>1. scm' = scm /\ event' = event /\ protected' = protected
  BY DEF Step, Receive, GetToken, TokenRefused, ApiAnswers, ApiDenied, ApiGivesUp, ApiFails, Clone, CloneDenied, CloneForbidden,
         ResetHead, SubmitScan, StartFeedback, FeedbackRefused, ScanFails, scmVars
<1>. QED
  BY <1>1, TargetKept DEF Sent

\* A task's step keeps what is known of its target.
LEMMA TaskStep ==
  ASSUME TypeOK, ShapeOK, TaskInv,
         NEW e \in Sent, Step(e)
  PROVE  TaskInv'
<1>0. e \in Events /\ e \in Callers /\ Events = Callers
  BY SentFacts
<1>t. protected' = protected /\ Sent' = Sent /\ \A d \in Sent : Target(d)' = Target(d)
  BY StepFrame
<1>u. \A d \in Sent : d \in Events
  BY SentFacts
<1>. USE <1>0, <1>t, <1>u DEF TypeOK, TaskInv
<1>1. CASE Receive(e)
  <2>1. \A d \in Sent \ {e} : /\ pc'[d] = pc[d] /\ cloned'[d] = cloned[d]
                              /\ code'[d] = code[d] /\ scan'[d] = scan[d]
    BY <1>1 DEF Receive, Goto, Ends, ShapeOK
  <2>. QED
    BY <1>1, <2>1, ProtectedFacts DEF Receive, Goto, Ends
<1>2. CASE GetToken(e)
  <2>1. \A d \in Sent \ {e} : /\ pc'[d] = pc[d] /\ cloned'[d] = cloned[d]
                              /\ code'[d] = code[d] /\ scan'[d] = scan[d]
    BY <1>2 DEF GetToken, Goto, Ends, ShapeOK
  <2>. QED
    BY <1>2, <2>1 DEF GetToken, Goto, Ends
<1>3. CASE TokenRefused(e)
  <2>1. \A d \in Sent \ {e} : /\ pc'[d] = pc[d] /\ cloned'[d] = cloned[d]
                              /\ code'[d] = code[d] /\ scan'[d] = scan[d]
    BY <1>3 DEF TokenRefused, Goto, Ends, ShapeOK
  <2>. QED
    BY <1>3, <2>1 DEF TokenRefused, Goto, Ends
<1>4. CASE ApiAnswers(e)
  <2>1. \A d \in Sent \ {e} : /\ pc'[d] = pc[d] /\ cloned'[d] = cloned[d]
                              /\ code'[d] = code[d] /\ scan'[d] = scan[d]
    BY <1>4 DEF ApiAnswers, Goto, Ends, ShapeOK
  <2>. QED
    BY <1>4, <2>1, ProtectedFacts DEF ApiAnswers, Goto, Ends
<1>5. CASE ApiDenied(e)
  <2>1. \A d \in Sent \ {e} : /\ pc'[d] = pc[d] /\ cloned'[d] = cloned[d]
                              /\ code'[d] = code[d] /\ scan'[d] = scan[d]
    BY <1>5 DEF ApiDenied, Goto, Ends, ShapeOK
  <2>. QED
    BY <1>5, <2>1 DEF ApiDenied, Goto, Ends
<1>6. CASE ApiFails(e)
  <2>1. \A d \in Sent \ {e} : /\ pc'[d] = pc[d] /\ cloned'[d] = cloned[d]
                              /\ code'[d] = code[d] /\ scan'[d] = scan[d]
    BY <1>6 DEF ApiFails, Goto, Ends, ShapeOK
  <2>. QED
    BY <1>6, <2>1 DEF ApiFails, Goto, Ends
<1>7. CASE Clone(e)
  <2>1. \A d \in Sent \ {e} : /\ pc'[d] = pc[d] /\ cloned'[d] = cloned[d]
                              /\ code'[d] = code[d] /\ scan'[d] = scan[d]
    BY <1>7 DEF Clone, Goto
  <2>2. cloned'[e] = Reachable /\ pc'[e] = "reset" /\ pc[e] = "clone"
    BY <1>7 DEF Clone, Goto
  <2>3. NoCommit \notin Reachable
    BY PushAssumption DEF Reachable, NoCommit
  <2>. QED
    BY <2>1, <2>2, <2>3
<1>8. CASE CloneDenied(e)
  <2>1. \A d \in Sent \ {e} : /\ pc'[d] = pc[d] /\ cloned'[d] = cloned[d]
                              /\ code'[d] = code[d] /\ scan'[d] = scan[d]
    BY <1>8 DEF CloneDenied, Goto, Ends, ShapeOK
  <2>. QED
    BY <1>8, <2>1 DEF CloneDenied, Goto, Ends
<1>9. CASE ResetHead(e)
  <2>1. \A d \in Sent \ {e} : /\ pc'[d] = pc[d] /\ cloned'[d] = cloned[d]
                              /\ code'[d] = code[d] /\ scan'[d] = scan[d]
    BY <1>9 DEF ResetHead, Goto, Ends, ShapeOK
  <2>. QED
    BY <1>9, <2>1 DEF ResetHead, Goto, Ends
<1>10. CASE SubmitScan(e)
  <2>1. \A d \in Sent \ {e} : /\ pc'[d] = pc[d] /\ cloned'[d] = cloned[d]
                              /\ code'[d] = code[d] /\ scan'[d] = scan[d]
    BY <1>10 DEF SubmitScan, Goto, Ends, ShapeOK
  <2>. QED
    BY <1>10, <2>1 DEF SubmitScan, Goto, Ends, ShapeOK, NoScan
<1>11. CASE StartFeedback(e)
  <2>1. \A d \in Sent \ {e} : /\ pc'[d] = pc[d] /\ cloned'[d] = cloned[d]
                              /\ code'[d] = code[d] /\ scan'[d] = scan[d]
    BY <1>11 DEF StartFeedback, Goto, Ends, ShapeOK
  <2>. QED
    BY <1>11, <2>1 DEF StartFeedback, Goto, Ends
<1>12. CASE ScanFails(e)
  <2>1. \A d \in Sent \ {e} : /\ pc'[d] = pc[d] /\ cloned'[d] = cloned[d]
                              /\ code'[d] = code[d] /\ scan'[d] = scan[d]
    BY <1>12 DEF ScanFails, Goto, Ends, ShapeOK
  <2>. QED
    BY <1>12, <2>1 DEF ScanFails, Goto, Ends
<1>13. CASE ApiGivesUp(e)
  <2>1. \A d \in Sent \ {e} : /\ pc'[d] = pc[d] /\ cloned'[d] = cloned[d]
                              /\ code'[d] = code[d] /\ scan'[d] = scan[d]
    BY <1>13 DEF ApiGivesUp, Goto, Ends, ShapeOK
  <2>. QED
    BY <1>13, <2>1 DEF ApiGivesUp, Goto, Ends
<1>14. CASE CloneForbidden(e)
  <2>1. \A d \in Sent \ {e} : /\ pc'[d] = pc[d] /\ cloned'[d] = cloned[d]
                              /\ code'[d] = code[d] /\ scan'[d] = scan[d]
    BY <1>14 DEF CloneForbidden, Goto, Ends, ShapeOK
  <2>. QED
    BY <1>14, <2>1 DEF CloneForbidden, Goto, Ends
<1>15. CASE FeedbackRefused(e)
  <2>1. \A d \in Sent \ {e} : /\ pc'[d] = pc[d] /\ cloned'[d] = cloned[d]
                              /\ code'[d] = code[d] /\ scan'[d] = scan[d]
    BY <1>15 DEF FeedbackRefused, Goto, Ends, ShapeOK
  <2>. QED
    BY <1>15, <2>1 DEF FeedbackRefused, Goto, Ends
<1>. QED
  BY <1>1, <1>2, <1>3, <1>4, <1>5, <1>6, <1>7, <1>8, <1>9, <1>10, <1>11, <1>12, <1>13, <1>14, <1>15 DEF Step

\* What a task submits is the commit it was told of, of a protected branch.
LEMMA ScanStep ==
  ASSUME TypeOK, ShapeOK, EventInv, TaskInv, ScanIsOfPush, NEW e \in Sent, Step(e)
  PROVE  ScanIsOfPush'
<1>0. e \in Events
  BY SentFacts
<1>1. protected' = protected /\ event' = event /\ Sent' = Sent
  BY StepFrame
<1>2. CASE SubmitScan(e)
  <2>1. /\ scan'[e] = [branch |-> Target(e).branch, hash |-> Target(e).hash, code |-> code[e]]
        /\ \A d \in Sent \ {e} : scan'[d] = scan[d]
    BY <1>0, <1>2 DEF SubmitScan, ShapeOK
  <2>2. /\ code[e] = Target(e).hash /\ Target(e).hash # NoCommit
        /\ Target(e).branch \in protected \cup {Default}
    BY <1>2 DEF SubmitScan, TaskInv
  <2>3. 1 \in DOMAIN event[e] /\ Target(e) = event[e][1] /\ event[e][1].type # "DELETE"
    <3>1. event[e] \in Seq(Changes) /\ event[e] # <<>>
      BY DEF TypeOK, EventInv, Sent
    <3>2. 1 \in DOMAIN event[e]
      BY <3>1
    <3>3. Target(e) = event[e][1]
      BY <2>2 DEF Target, Change
    <3>. QED
      BY <2>2, <3>2, <3>3 DEF EventInv
  <2>. QED
    BY <1>1, <2>1, <2>2, <2>3 DEF ScanIsOfPush
<1>3. CASE ~ SubmitScan(e)
  <2>1. scan' = scan
    BY <1>3 DEF Step, Receive, GetToken, TokenRefused, ApiAnswers, ApiDenied, ApiGivesUp, ApiFails, Clone, CloneDenied, CloneForbidden,
                ResetHead, StartFeedback, FeedbackRefused, ScanFails
  <2>. QED
    BY <1>1, <2>1 DEF ScanIsOfPush
<1>. QED
  BY <1>2, <1>3

\* A task's step: denials have the causes stated.
LEMMA DenialStep ==
  ASSUME TypeOK, ShapeOK, TokenInv, CallInv, DenialExplained,
         NEW e \in Sent, Step(e)
  PROVE  DenialExplained'
<1>0. e \in Events /\ e \in Callers /\ Events = Callers
  BY SentFacts
<1>t. Sent' = Sent /\ \A d \in Sent : d \in Events
  BY StepFrame, SentFacts
<1>. USE <1>0, <1>t DEF ShapeOK, DenialExplained, Elsewhere
<1>1. CASE Receive(e)
  BY <1>1 DEF Receive
<1>2. CASE GetToken(e)
  BY <1>2 DEF GetToken
<1>3. CASE TokenRefused(e)
  BY <1>3 DEF TokenRefused, Ends
<1>4. CASE ApiAnswers(e)
  BY <1>4 DEF ApiAnswers
<1>5. CASE ApiDenied(e)
  <2>1. CASE TRUE
    <3>1. hand[e] # NoToken /\ token[hand[e]] \notin {"live", "none"}
      BY <1>5 DEF ApiDenied, Refused, Denied, TokenInv, TokenTypeOK, InUse
    <3>2. died[e] \in BOOLEAN /\ token[hand[e]] \in {"expired", "revoked"}
      BY <3>1 DEF TokenInv, TokenTypeOK
    <3>3. Blame(e) \in {"died", "revoked"}
      BY <1>5, <3>1, <3>2 DEF ApiDenied, Blame, TokenInv, TokenFresh, CallInv, TypeOK
    <3>4. cause' = [cause EXCEPT ![e] = [at |-> "api", why |-> Blame(e)]]
      BY <1>5, <2>1 DEF ApiDenied, Ends
    <3>. HIDE DEF Blame
    <3>. QED
      BY <3>3, <3>4
  <2>. QED
    BY <2>1
<1>6. CASE ApiFails(e)
  BY <1>6 DEF ApiFails, Ends
<1>7. CASE Clone(e)
  BY <1>7 DEF Clone
<1>8. CASE CloneDenied(e)
  <2>1. CASE tries[e] # 0
    <3>1. hand[e] # NoToken /\ token[hand[e]] \notin {"live", "none"}
      BY <1>8 DEF CloneDenied, Refused, Denied, TokenInv, TokenTypeOK, InUse
    <3>2. died[e] \in BOOLEAN /\ token[hand[e]] \in {"expired", "revoked"}
      BY <3>1 DEF TokenInv, TokenTypeOK
    <3>3. Blame(e) \in {"died"}
      BY <1>8, <3>1, <3>2, <2>1 DEF CloneDenied, Blame, TokenInv, TokenFresh, CallInv, TypeOK
    <3>4. cause' = [cause EXCEPT ![e] = [at |-> "clone", why |-> Blame(e)]]
      BY <1>8, <2>1 DEF CloneDenied, Ends
    <3>. HIDE DEF Blame
    <3>. QED
      BY <3>3, <3>4
  <2>2. CASE tries[e] = 0
    BY <1>8, <2>2 DEF CloneDenied
  <2>. QED
    BY <2>1, <2>2
<1>9. CASE ResetHead(e)
  BY <1>9 DEF ResetHead, Ends
<1>10. CASE SubmitScan(e)
  BY <1>10 DEF SubmitScan
<1>11. CASE StartFeedback(e)
  BY <1>11 DEF StartFeedback, Ends
<1>12. CASE ScanFails(e)
  BY <1>12 DEF ScanFails, Ends
<1>13. CASE ApiGivesUp(e)
  BY <1>13 DEF ApiGivesUp, Ends
<1>14. CASE CloneForbidden(e)
  BY <1>14 DEF CloneForbidden, Ends
<1>15. CASE FeedbackRefused(e)
  BY <1>15 DEF FeedbackRefused, Ends
<1>. QED
  BY <1>1, <1>2, <1>3, <1>4, <1>5, <1>6, <1>7, <1>8, <1>9, <1>10, <1>11, <1>12, <1>13, <1>14, <1>15 DEF Step

\* A task's step leaves the events alone that are not sent.
LEMMA UnsentStep ==
  ASSUME TypeOK, ShapeOK, UnsentInv,
         NEW e \in Sent, Step(e)
  PROVE  UnsentInv'
<1>0. e \in Events /\ e \in Callers /\ Events = Callers
  BY SentFacts
<1>t. Sent' = Sent
  BY StepFrame
<1>. USE <1>0, <1>t DEF ShapeOK, UnsentInv, TypeOK
<1>1. CASE Receive(e)
  BY <1>1 DEF Receive
<1>2. CASE GetToken(e)
  BY <1>2 DEF GetToken
<1>3. CASE TokenRefused(e)
  BY <1>3 DEF TokenRefused, Ends, Goto
<1>4. CASE ApiAnswers(e)
  BY <1>4 DEF ApiAnswers
<1>5. CASE ApiDenied(e)
  BY <1>5 DEF ApiDenied, Ends, Goto
<1>6. CASE ApiFails(e)
  BY <1>6 DEF ApiFails, Ends, Goto
<1>7. CASE Clone(e)
  BY <1>7 DEF Clone
<1>8. CASE CloneDenied(e)
  BY <1>8 DEF CloneDenied, Ends, Goto
<1>9. CASE ResetHead(e)
  BY <1>9 DEF ResetHead, Ends, Goto
<1>10. CASE SubmitScan(e)
  BY <1>10 DEF SubmitScan
<1>11. CASE StartFeedback(e)
  BY <1>11 DEF StartFeedback, Ends, Goto
<1>12. CASE ScanFails(e)
  BY <1>12 DEF ScanFails, Ends, Goto
<1>13. CASE ApiGivesUp(e)
  BY <1>13 DEF ApiGivesUp, Ends, Goto
<1>14. CASE CloneForbidden(e)
  BY <1>14 DEF CloneForbidden, Ends, Goto
<1>15. CASE FeedbackRefused(e)
  BY <1>15 DEF FeedbackRefused, Ends, Goto
<1>. QED
  BY <1>1, <1>2, <1>3, <1>4, <1>5, <1>6, <1>7, <1>8, <1>9, <1>10, <1>11, <1>12, <1>13, <1>14, <1>15 DEF Step

-----------------------------------------------------------------------------
(***************************************************************************)
(* The SCM's steps, and the theorems.                                      *)
(***************************************************************************)

\* A user's action sends a new event and touches no task.
LEMMA UserStep ==
  ASSUME IInv, User
  PROVE  IInv'
<1>. DEFINE n == Len(event) + 1
<1>1. PICK ch \in Seq(Changes) : Proper(ch) /\ Send(ch)
  BY UserFacts DEF IInv, UserEffect
<1>2. /\ n \in Events /\ n \notin Sent /\ event' \in Seq(Seq(Changes)) /\ Len(event') <= MaxEvents
      /\ Sent' = Sent \cup {n} /\ event'[n] = ch /\ \A e \in Sent : event'[e] = event[e]
  BY <1>1, SendFacts DEF IInv
<1>. HIDE DEF n
<1>3. /\ pc' = [pc EXCEPT ![n] = "received"]
      /\ scm' = scm /\ protected' = protected /\ tries' = tries /\ cloned' = cloned /\ code' = code
      /\ scan' = scan /\ feedback' = feedback /\ faults' = faults /\ cause' = cause
      /\ UNCHANGED tokenVars
  BY <1>1 DEF Send, n
<1>4. \A e \in Sent : Target(e)' = Target(e) /\ pc'[e] = pc[e]
  BY <1>2, <1>3, TargetKept DEF IInv, TypeOK
<1>5. TokenInv'
  BY <1>3, TokensUnchanged DEF IInv
<1>6. TypeOK'
  <2>1. on' \in [Branches -> SUBSET (1..commits')] /\ on'[Default] # {} /\ commits' \in 1..MaxCommit
    BY UserFacts DEF IInv, UserEffect
  <2>2. pc[n] = "unsent" /\ \A e \in Events : TriesOK(pc[e], tries[e])
    BY <1>2 DEF IInv, TypeOK, TriesOK
  <2>3. ~ (tries[n] > 0)
    BY <1>2, <2>2 DEF TriesOK
  <2>4. /\ pc' \in [Events -> Steps] /\ pc'[n] = "received"
        /\ \A e \in Events \ {n} : pc'[e] = pc[e]
    BY <1>2, <1>3 DEF IInv, TypeOK, Steps
  <2>5. \A e \in Events : TriesOK(pc'[e], tries'[e])
    <3>1. TriesOK(pc'[n], tries'[n])
      BY <1>3, <2>3 DEF TriesOK
    <3>2. \A e \in Events \ {n} : TriesOK(pc'[e], tries'[e])
      BY <1>3, <2>2, <2>4
    <3>. QED
      BY <3>1, <3>2
  <2>6. \A e \in Events : pc'[e] = "unsent" <=> e \notin Sent'
    BY <1>2, <2>4 DEF IInv, TypeOK
  <2>. QED
    BY <1>2, <1>3, <1>5, <2>1, <2>4, <2>5, <2>6 DEF IInv, TypeOK, TokenInv, TriesOK, Steps
<1>7. CallInv'
  <2>1. asked[n] = NoToken
    BY <1>2 DEF IInv, TypeOK, CallInv, Calling
  <2>. QED
    BY <1>2, <1>3, <2>1 DEF IInv, TypeOK, CallInv, Calling, tokenVars
<1>8. EventInv'
  <2>1. \A e \in Sent : event'[e] = event[e]
    BY <1>2
  <2>2. ASSUME NEW e \in Sent'
        PROVE  /\ event'[e] # <<>>
               /\ \A i \in DOMAIN event'[e] : event'[e][i].type = "DELETE" => event'[e][i].hash = NoCommit
    <3>1. CASE e = n
      BY <1>1, <1>2, <3>1 DEF Proper
    <3>2. CASE e \in Sent
      BY <2>1, <3>2 DEF IInv, EventInv
    <3>. QED
      BY <1>2, <2>2, <3>1, <3>2
  <2>. QED
    BY <2>2 DEF EventInv
<1>9. TaskInv'
  <2>1. NoCommit \notin cloned[n]
    BY <1>2 DEF IInv, UnsentInv
  <2>. QED
    BY <1>2, <1>3, <1>4, <2>1 DEF IInv, TypeOK, TaskInv
<1>10. ScanIsOfPush' /\ DenialExplained' /\ ShapeOK' /\ UnsentInv'
  <2>1. scan[n] = NoScan /\ cause[n].at = "none"
    BY <1>2 DEF IInv, UnsentInv
  <2>2. ScanIsOfPush'
    <3>1. ASSUME NEW e \in Sent', scan'[e] # NoScan
          PROVE  e \in Sent /\ event'[e] = event[e] /\ scan'[e] = scan[e]
      BY <1>2, <1>3, <2>1, <3>1
    <3>. QED
      BY <1>3, <3>1 DEF IInv, ScanIsOfPush
  <2>3. DenialExplained'
    BY <1>2, <1>3, <2>1 DEF IInv, DenialExplained
  <2>4. ShapeOK' /\ UnsentInv'
    BY <1>2, <1>3 DEF IInv, ShapeOK, UnsentInv
  <2>. QED
    BY <2>2, <2>3, <2>4
<1>. QED
  BY <1>5, <1>6, <1>7, <1>8, <1>9, <1>10 DEF IInv

\* A token ends at GitHub.
LEMMA GithubStep ==
  ASSUME IInv, Github
  PROVE  IInv'
<1>1. PICK t \in Tokens, end \in {"expired", "revoked"} :
        /\ TokenDies(t, end)
        /\ faults < MaxFaults /\ faults' = faults + 1
        /\ UNCHANGED <<scmVars, pc, tries, cloned, code, scan, feedback, cause>>
  BY DEF Github
<1>2. TokenInv'
  BY <1>1, TokenDiesTokens DEF IInv
<1>3. TypeOK'
  <2>1. faults' \in 0..MaxFaults
    BY <1>1, PushAssumption DEF IInv, TypeOK
  <2>. QED
    BY <1>1, <1>2, <2>1 DEF IInv, TypeOK, TokenInv, scmVars, Sent
<1>4. CallInv'
  <2>1. \A c \in Callers : ~ died'[c] => ~ died[c] /\ t # hand[c]
    BY <1>1 DEF TokenDies, IInv, TokenInv, TokenTypeOK
  <2>2. Events = Callers
    BY PushAssumption
  <2>. QED
    BY <1>1, <2>1, <2>2 DEF TokenDies, IInv, CallInv, Calling, TokenInv, TokenTypeOK, scmVars
<1>5. \A e : Target(e)' = Target(e)
  BY <1>1, TargetKept DEF scmVars
<1>6. EventInv' /\ TaskInv' /\ ScanIsOfPush' /\ DenialExplained' /\ ShapeOK' /\ UnsentInv'
  BY <1>1, <1>5 DEF IInv, EventInv, TaskInv, ScanIsOfPush, DenialExplained, ShapeOK, UnsentInv, scmVars, Sent
<1>. QED
  BY <1>2, <1>3, <1>4, <1>6 DEF IInv

\* The invariant holds before the first event.
LEMMA InitIInv == Init => IInv
<1>. SUFFICES ASSUME Init
              PROVE  IInv
  OBVIOUS
<1>1. event = <<>> /\ Sent = {}
  BY DEF Init, Sent
<1>2. TokenInv
  BY TokenAssumption DEF Init, TokenInit, TokenInv, TokenTypeOK, TokenFresh, InUse, NoToken, Tokens
<1>3. TypeOK
  <2>1. event \in Seq(Seq(Changes)) /\ Len(event) <= MaxEvents
    BY <1>1, PushAssumption
  <2>. QED
    BY <1>1, <1>2, <2>1, PushAssumption DEF Init, TypeOK, TokenInv, NoCommit, Commits
<1>4. CallInv
  BY PushAssumption DEF Init, TokenInit, CallInv
<1>5. EventInv /\ TaskInv /\ ScanIsOfPush /\ DenialExplained
  BY <1>1 DEF EventInv, TaskInv, ScanIsOfPush, DenialExplained
<1>6. ShapeOK /\ UnsentInv
  BY DEF Init, ShapeOK, UnsentInv
<1>. QED
  BY <1>2, <1>3, <1>4, <1>5, <1>6 DEF IInv

\* The inductive invariant of pushes and tokens.
THEOREM PushInvariant == Spec => []IInv
<1>1. IInv /\ [Next]_vars => IInv'
  <2>. SUFFICES ASSUME IInv, [Next]_vars
                PROVE  IInv'
    OBVIOUS
  <2>1. CASE User \/ Github
    BY <2>1, UserStep, GithubStep
  <2>2. ASSUME NEW e \in Sent, Step(e)
        PROVE  IInv'
    <3>1. TokenInv' /\ CallInv'
      BY <2>2, TokenStep DEF IInv
    <3>2. TypeOK'
      BY <2>2, <3>1, TypeStep DEF IInv, TokenInv
    <3>3. EventInv'
      BY <2>2, StepFrame DEF IInv, EventInv
    <3>4. TaskInv' /\ ScanIsOfPush' /\ DenialExplained' /\ ShapeOK' /\ UnsentInv'
      BY <2>2, TaskStep, ScanStep, DenialStep, ShapeStep, UnsentStep DEF IInv
    <3>. QED
      BY <3>1, <3>2, <3>3, <3>4 DEF IInv
  <2>3. CASE UNCHANGED vars
    <3>1. TokenInv' /\ scm' = scm /\ event' = event /\ protected' = protected
      BY <2>3, TokensUnchanged DEF vars, scmVars, IInv
    <3>2. \A e : Target(e)' = Target(e)
      BY <3>1, TargetKept
    <3>3. TypeOK'
      BY <2>3, <3>1 DEF vars, scmVars, IInv, TypeOK, TokenInv, Sent
    <3>4. CallInv' /\ EventInv' /\ TaskInv'
      BY <2>3, <3>2 DEF vars, scmVars, tokenVars, IInv, CallInv, Calling, EventInv, TaskInv, Sent
    <3>5. ScanIsOfPush' /\ DenialExplained' /\ ShapeOK' /\ UnsentInv'
      BY <2>3 DEF vars, scmVars, IInv, ScanIsOfPush, DenialExplained, ShapeOK, UnsentInv, Sent
    <3>. QED
      BY <3>1, <3>3, <3>4, <3>5 DEF IInv
  <2>. QED
    BY <2>1, <2>2, <2>3 DEF Next
<1>. QED
  BY InitIInv, <1>1, PTL DEF Spec

\* The types of tasks and tokens, for every value of the constants: requests
\* are tried at most Retries times, clones twice, and there is a name for
\* every token however callers interleave.
THEOREM PushTypes == Spec => []TypeOK
<1>1. IInv => TypeOK
  BY DEF IInv
<1>. QED
  BY <1>1, PushInvariant, PTL

\* What is scanned for a push is the commit that it names, of a protected
\* branch, however the branches move while the task is on its way.
THEOREM PushedCommitScanned == Spec => []ScanIsOfPush
<1>1. IInv => ScanIsOfPush
  BY DEF IInv
<1>. QED
  BY <1>1, PushInvariant, PTL

\* A cached token costs no event: denials are of tokens that were revoked or
\* ended in hand, and of a clone only when the new token ended as well.
THEOREM DenialsExplained == Spec => []DenialExplained
<1>1. IInv => DenialExplained
  BY DEF IInv
<1>. QED
  BY <1>1, PushInvariant, PTL
=============================================================================
