---------------------------- MODULE AiCredential ----------------------------
(***************************************************************************)
(* One account's AI credential: an API key, or a ChatGPT plan sign-in whose *)
(* refresh token OpenAI rotates on every use (app/chatgpt_oauth.py), saved  *)
(* by hand, or delivered by the sign-in helper through a pairing            *)
(* (app/main.py).  Every request loads the account's row, talks to a        *)
(* provider for a while, and then writes the columns it changed.            *)
(***************************************************************************)
EXTENDS Integers, FiniteSets

CONSTANTS
  Requests,      \* requests of this account that may be in progress at once
  None,
  Keys,          \* API keys the user has, each of one provider
  MaxGrants,     \* bound: ChatGPT sign-ins completed with the helper
  MaxRotations,  \* bound: rotations of one sign-in's refresh token
  MaxPairings    \* bound: pairings started

ASSUME CredentialAssumption ==
  /\ IsFiniteSet(Requests)
  /\ MaxGrants \in Nat \ {0} /\ MaxRotations \in Nat /\ MaxPairings \in Nat
  /\ None \notin Nat

VARIABLES
  row,      \* the account's columns
  request,  \* the requests in progress, with the columns they loaded
  live,     \* OpenAI: the generation of each sign-in's one valid refresh token
  expired,  \* bundles whose access token has run out
  pairings, \* pairings started so far
  uses,     \* history: how many deliveries each pairing has let through
  lost,     \* history: sign-ins with a refresh that got no proper answer
  overtaken \* history: whether a credential replaced meanwhile was written over

vars == <<row, request, live, expired, pairings, uses, lost, overtaken>>
-----------------------------------------------------------------------------
Maybe(S) == S \union {None}
Providers == {"anthropic", "openai"}

\* What chatgpt_oauth stores: whose sign-in, and after how many rotations.
Bundle == [grant : 1 .. MaxGrants, generation : 0 .. MaxRotations]
Pairing == [token : 1 .. MaxPairings, expired : BOOLEAN]

ASSUME KeyAssumption == Keys \subseteq [provider : Providers, serial : Nat]

ASSUME NoneAssumption == None \notin Bundle \union Keys

Row == [provider : Maybe(Providers), apiKey : Maybe(Keys),
        oauth : Maybe(Bundle), pairing : Maybe(Pairing)]

Request == [at : {"idle", "verifying", "refreshing", "renewed", "denied"},
            mine : Maybe(Row), new : Maybe(Row), token : Maybe(1 .. MaxPairings)]

TypeOK ==
  /\ row \in Row
  /\ request \in [Requests -> Request]
  /\ live \in [1 .. MaxGrants -> Maybe(0 .. MaxRotations)]
  /\ expired \subseteq Bundle
  /\ pairings \in 0 .. MaxPairings
  /\ uses \in [1 .. MaxPairings -> Nat]
  /\ lost \subseteq 1 .. MaxGrants
  /\ overtaken \in BOOLEAN

Idle == [at |-> "idle", mine |-> None, new |-> None, token |-> None]

Init ==
  /\ row = [provider |-> None, apiKey |-> None, oauth |-> None, pairing |-> None]
  /\ request = [r \in Requests |-> Idle]
  /\ live = [g \in 1 .. MaxGrants |-> None]
  /\ expired = {}
  /\ pairings = 0
  /\ uses = [t \in 1 .. MaxPairings |-> 0]
  /\ lost = {}
  /\ overtaken = FALSE

\* The commit of a session that loaded `mine` and assigned the columns of
\* `new`: SQLAlchemy writes only the columns the two differ in.
Committed(mine, new) ==
  [c \in DOMAIN row |-> IF new[c] = mine[c] THEN row[c] ELSE new[c]]

Credential(r) == <<r.provider, r.apiKey, r.oauth>>
Disconnected == <<None, None, None>>

\* A commit over a credential that another request has put there since this one
\* loaded the account.
Overtakes(r) == Credential(row) \notin {Credential(request[r].mine), Disconnected}

\* auth_mode: an OpenAI account with a sign-in uses it, whatever its api_key.
OnPlan(r) == r.provider = "openai" /\ r.oauth # None

InFlight(r) == request[r].at # "idle"
-----------------------------------------------------------------------------
\* OpenAI's side of a completed sign-in: a new chain of refresh tokens.
Granted(g) ==
  /\ live[g] = None /\ \A b \in expired : b.grant # g
  /\ \A h \in 1 .. MaxGrants : h < g => live[h] # None \/ \E b \in expired : b.grant = h
  /\ live' = [live EXCEPT ![g] = 0]

Verify(r, new, token) ==
  /\ request[r].at = "idle"
  /\ request' = [request EXCEPT ![r] =
       [at |-> "verifying", mine |-> row, new |-> new, token |-> token]]

\* Mutant: the key is stored without the provider it was checked with.
WithKeyOnly(key) ==
  [row EXCEPT !.provider = IF @ = None THEN key.provider ELSE @, !.apiKey = key, !.oauth = None]

WithKey(key) == [row EXCEPT !.provider = key.provider, !.apiKey = key, !.oauth = None]

\* Mutant: the sign-in does not displace the key.
WithPlanBesideKey(b) == [row EXCEPT !.provider = "openai", !.oauth = b]

WithPlan(b) == [row EXCEPT !.provider = "openai", !.apiKey = None, !.oauth = b]

NewSignIn(g) == [grant |-> g, generation |-> 0]

\* set_ai_credentials with an API key: one real call before anything is stored.
SaveKey(r, key) ==
  /\ Verify(r, WithKey(key), None)
  /\ UNCHANGED <<row, live, expired, pairings, uses, lost, overtaken>>

\* set_ai_credentials with no key pasted, for the provider that has one stored.
KeepKey(r) ==
  /\ row.apiKey # None /\ row.apiKey.provider = row.provider
  /\ SaveKey(r, row.apiKey)

\* set_ai_credentials with a line the helper printed.
SavePlan(r, g) ==
  /\ Granted(g)
  /\ Verify(r, WithPlan(NewSignIn(g)), None)
  /\ UNCHANGED <<row, expired, pairings, uses, lost, overtaken>>

\* set_ai_credentials with no line pasted, for instance to change the model.
KeepPlan(r) ==
  /\ row.oauth # None /\ row.oauth \notin expired
  /\ Verify(r, WithPlan(row.oauth), None)
  /\ UNCHANGED <<row, live, expired, pairings, uses, lost, overtaken>>

\* Mutant: the pairing is left in place.
LeftPending(account) == account

\* clear_pairing.
Burned(account) == [account EXCEPT !.pairing = None]

\* claim_ai_pairing: the helper delivers its sign-in with a pending pairing.
ClaimPairing(r, g) ==
  /\ row.pairing # None /\ ~row.pairing.expired
  /\ Granted(g)
  /\ Verify(r, Burned(WithPlan(NewSignIn(g))), row.pairing.token)
  /\ UNCHANGED <<row, expired, pairings, uses, lost, overtaken>>

\* A claim that finds its pairing expired, or its account no longer premium.
RefuseClaim ==
  /\ row.pairing # None
  /\ row' = Burned(row)
  /\ UNCHANGED <<request, live, expired, pairings, uses, lost, overtaken>>

\* The verification went through; a claim burns its pairing with the same commit.
Store(r) ==
  /\ request[r].at = "verifying"
  /\ row' = Committed(request[r].mine, request[r].new)
  /\ uses' = IF request[r].token = None THEN uses
             ELSE [uses EXCEPT ![request[r].token] = @ + 1]
  /\ overtaken' = (overtaken \/ Overtakes(r))
  /\ request' = [request EXCEPT ![r] = Idle]
  /\ UNCHANGED <<live, expired, pairings, lost>>

Disconnect ==
  /\ row' = [row EXCEPT !.provider = None, !.apiKey = None, !.oauth = None]
  /\ UNCHANGED <<request, live, expired, pairings, uses, lost, overtaken>>

NewPairing == [token |-> pairings + 1, expired |-> FALSE]

\* start_ai_pairing: one pair of columns, so a new pairing replaces the last.
StartPairing ==
  /\ pairings < MaxPairings
  /\ pairings' = pairings + 1
  /\ row' = [row EXCEPT !.pairing = NewPairing]
  /\ UNCHANGED <<request, live, expired, uses, lost, overtaken>>

PairingExpires ==
  /\ row.pairing # None /\ ~row.pairing.expired
  /\ row' = [row EXCEPT !.pairing.expired = TRUE]
  /\ UNCHANGED <<request, live, expired, pairings, uses, lost, overtaken>>
-----------------------------------------------------------------------------
\* generate_analysis on a plan whose access token has run out: _refresh posts
\* the refresh token it loaded.
StartRefresh(r) ==
  /\ request[r].at = "idle"
  /\ OnPlan(row)
  /\ row.oauth \in expired
  /\ request' = [request EXCEPT ![r] =
       [at |-> "refreshing", mine |-> row, new |-> None, token |-> None]]
  /\ UNCHANGED <<row, live, expired, pairings, uses, lost, overtaken>>

\* OpenAI accepts only the newest refresh token, and replaces it.
Rotate(r) ==
  /\ request[r].at = "refreshing"
  /\ LET b == request[r].mine.oauth
         next == [b EXCEPT !.generation = @ + 1]
     IN  IF live[b.grant] = b.generation
         THEN /\ b.generation < MaxRotations
              /\ live' = [live EXCEPT ![b.grant] = next.generation]
              /\ request' = [request EXCEPT
                   ![r].at = "renewed",
                   ![r].new = [request[r].mine EXCEPT !.oauth = next]]
         ELSE /\ request' = [request EXCEPT
                   ![r].at = "denied",
                   ![r].new = [request[r].mine EXCEPT !.oauth = None]]
              /\ UNCHANGED live
  /\ UNCHANGED <<row, expired, pairings, uses, lost, overtaken>>

\* Any answer but 200 counts as a refusal, a passing server error too.
ServerError(r) ==
  /\ request[r].at = "refreshing"
  /\ request' = [request EXCEPT
       ![r].at = "denied", ![r].new = [request[r].mine EXCEPT !.oauth = None]]
  /\ lost' = lost \union {request[r].mine.oauth.grant}
  /\ UNCHANGED <<row, live, expired, pairings, uses, overtaken>>

\* Mutants: the new pair is used but not persisted; it is cleared like a refusal.
FinishUnsaved(r) ==
  /\ request[r].at \in {"renewed", "denied"}
  /\ request' = [request EXCEPT ![r] = Idle]
  /\ UNCHANGED <<row, live, expired, pairings, uses, lost, overtaken>>

FinishClearing(r) ==
  /\ request[r].at \in {"renewed", "denied"}
  /\ row' = [row EXCEPT !.oauth = None]
  /\ request' = [request EXCEPT ![r] = Idle]
  /\ UNCHANGED <<live, expired, pairings, uses, lost, overtaken>>

\* A new pair is persisted before it is used; a refusal clears the column.
FinishRefresh(r) ==
  /\ request[r].at \in {"renewed", "denied"}
  /\ row' = Committed(request[r].mine, request[r].new)
  /\ overtaken' = (overtaken \/ Overtakes(r))
  /\ request' = [request EXCEPT ![r] = Idle]
  /\ UNCHANGED <<live, expired, pairings, uses, lost>>

\* A verification that fails, or a refresh that never reached OpenAI, leaves
\* what is stored alone; so does a refresh whose answer gets lost.
Abandon(r) ==
  /\ InFlight(r)
  /\ request' = [request EXCEPT ![r] = Idle]
  /\ lost' = IF request[r].at \in {"renewed", "denied"}
             THEN lost \union {request[r].mine.oauth.grant} ELSE lost
  /\ UNCHANGED <<row, live, expired, pairings, uses, overtaken>>

AccessTokenExpires(g) ==
  /\ live[g] # None
  /\ expired' = expired \union {[grant |-> g, generation |-> live[g]]}
  /\ UNCHANGED <<row, request, live, pairings, uses, lost, overtaken>>

\* The user revokes the sign-in at OpenAI, or it goes unused for 30 days.
Revoke(g) ==
  /\ live[g] # None
  /\ live' = [live EXCEPT ![g] = None]
  /\ expired' = expired \union {[grant |-> g, generation |-> live[g]]}
  /\ UNCHANGED <<row, request, pairings, uses, lost, overtaken>>
-----------------------------------------------------------------------------
Next ==
  \/ \E r \in Requests :
       \/ \E k \in Keys : SaveKey(r, k)
       \/ KeepKey(r)
       \/ \E g \in 1 .. MaxGrants : SavePlan(r, g) \/ ClaimPairing(r, g)
       \/ KeepPlan(r) \/ Store(r)
       \/ StartRefresh(r) \/ Rotate(r) \/ ServerError(r) \/ FinishRefresh(r) \/ Abandon(r)
  \/ RefuseClaim \/ Disconnect \/ StartPairing \/ PairingExpires
  \/ \E g \in 1 .. MaxGrants : AccessTokenExpires(g) \/ Revoke(g)

Spec == Init /\ [][Next]_vars
-----------------------------------------------------------------------------
\* main.py and models.py: the API key and the ChatGPT sign-in are mutually
\* exclusive, so which one the account uses is never a guess.  Requests may
\* overlap; but the columns are written one by one, so a commit over what another
\* request has put there since can leave its key beside the other's sign-in.
CredentialsExclusive == overtaken \/ row.apiKey = None \/ row.oauth = None

\* set_ai_credentials: the credential is verified with one real call before it
\* is stored.  A key in use is a key of the provider it is used with, until a
\* commit that was overtaken leaves its key with the other's provider.
KeyWasVerified ==
  row.provider # None /\ ~OnPlan(row) /\ row.apiKey # None
    => overtaken \/ row.apiKey.provider = row.provider

\* _refresh: what it clears will never work again, because the sign-in was
\* revoked or went unused for too long, as far as OpenAI's answers arrive.
OnlyDeadSignInsAreCleared ==
  [][\A r \in Requests :
       request[r].at \in {"renewed", "denied"} /\ ~InFlight(r)'
         /\ row.oauth # None /\ row'.oauth = None /\ row.oauth.grant \notin lost
         => live[row.oauth.grant] = None]_vars

\* A refresh has this sign-in's new pair in hand.
Renewing(r, g) == request[r].at = "renewed" /\ request[r].mine.oauth.grant = g

\* _refresh: a refusal clears the stored sign-in.  However many requests overlap,
\* when the sign-in is still the one that was refused, either it is dead or
\* another request is about to store its renewal: only a refusal that comes after
\* a renewal was stored destroys what OpenAI accepts.
RefusalsClearTheDead ==
  [][\A r \in Requests :
       request[r].at \in {"renewed", "denied"} /\ ~InFlight(r)' /\ row.oauth # None
         /\ row.oauth = request[r].mine.oauth /\ row'.oauth = None /\ row.oauth.grant \notin lost
         => \/ live[row.oauth.grant] = None
            \/ \E q \in Requests : q # r /\ Renewing(q, row.oauth.grant)]_vars

\* _refresh: the new pair reaches the database before anything else can fail.
\* A stored sign-in not revoked at OpenAI, none of whose refreshes lost its
\* answer and none of which is about to commit, has the refresh token OpenAI
\* accepts, whatever requests overlap: no stale commit brings back a spent one.
StoredSignInIsUsable ==
  row.oauth # None /\ (\A r \in Requests : ~Renewing(r, row.oauth.grant))
      /\ row.oauth.grant \notin lost /\ live[row.oauth.grant] # None
    => live[row.oauth.grant] = row.oauth.generation

\* chatgpt_oauth.py: a pairing token is single-use.  Once a delivery got through
\* no other begins: a second comes only from claims that overlap the first.
PairingIsBurnedOnUse ==
  /\ row.pairing # None => uses[row.pairing.token] = 0
  /\ \A t \in 1 .. MaxPairings : uses[t] <= Cardinality(Requests)
=============================================================================
