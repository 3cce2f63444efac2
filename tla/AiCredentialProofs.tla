------------------------- MODULE AiCredentialProofs -------------------------
(***************************************************************************)
(* For any number of requests that overlap, sign-ins, rotations and          *)
(* pairings, with disconnection, expiry, revocation and lost answers at      *)
(* every point: what is stored is what OpenAI accepts, a refusal clears what  *)
(* is dead or about to be replaced, a pairing is burned on use, and a key and *)
(* a sign-in exclude each other until one commit overtakes another.           *)
(***************************************************************************)
EXTENDS AiCredential, FiniteSetTheorems, TLAPS

USE CredentialAssumption, KeyAssumption, NoneAssumption DEF Maybe

\* What a request that verifies will store: a key with its provider or a sign-in
\* in place of a key, and with a claim the end of the pairing it came with.
Verified(q) ==
  /\ q.new \in Row
  /\ \/ q.new.oauth = None /\ q.new.apiKey # None /\ q.new.provider = q.new.apiKey.provider
     \/ q.new.oauth # None /\ q.new.apiKey = None
  /\ IF q.token = None THEN q.new.pairing = q.mine.pairing
     ELSE /\ q.mine.pairing # None /\ q.mine.pairing.token = q.token
          /\ q.new.pairing = None

\* What a refresh has in hand.
Refreshed(q) ==
  /\ q.mine.oauth \in Bundle
  /\ q.token = None
  /\ q.at = "renewed" =>
       /\ q.mine.oauth.generation < MaxRotations
       /\ q.new = [q.mine EXCEPT !.oauth = [grant |-> q.mine.oauth.grant,
                                            generation |-> q.mine.oauth.generation + 1]]
  /\ q.at = "denied" => q.new = [q.mine EXCEPT !.oauth = None]

Shape(q) ==
  /\ q.at = "idle" => q.token = None
  /\ q.at # "idle" => q.mine \in Row
  /\ q.at = "verifying" => Verified(q)
  /\ q.at \in {"refreshing", "renewed", "denied"} => Refreshed(q)

ShapeInv == \A r \in Requests : Shape(request[r])

TypeInv == TypeOK /\ ShapeInv
-----------------------------------------------------------------------------
\* A key and a sign-in exclude each other, and a key is its provider's unless
\* the provider was cleared.
Sound(a) ==
  /\ a.apiKey = None \/ a.oauth = None
  /\ a.apiKey # None => a.provider \in {None, a.apiKey.provider}

\* Before a commit overtakes another, so is everything that was loaded.
CredentialInv ==
  ~overtaken => Sound(row) /\ \A r \in Requests : InFlight(r) => Sound(request[r].mine)

\* The claims in progress with a pairing.
Claims(t) == {r \in Requests : request[r].token = t}

\* A pairing to come has no claims; no request lets two deliveries through.
ClaimsInv(t) ==
  /\ t > pairings => uses[t] = 0 /\ Claims(t) = {}
  /\ uses[t] + Cardinality(Claims(t)) <= Cardinality(Requests)

\* A pairing in place is unused.
PairingInv ==
  /\ row.pairing # None => row.pairing.token <= pairings /\ uses[row.pairing.token] = 0
  /\ \A t \in 1 .. MaxPairings : ClaimsInv(t)

\* OpenAI has heard of the sign-in; it still accepts a refresh token of it, and
\* every one it gave out has arrived.
Known(b) == live[b.grant] # None \/ \E e \in expired : e.grant = b.grant
Alive(g) == live[g] # None /\ g \notin lost

\* What a request has of a sign-in: the one it loaded, one it brings.
Loaded(q) == q.at # "idle" /\ q.mine.oauth # None
Fresh(q) == q.at = "verifying" /\ q.new.oauth # None /\ q.new.oauth # q.mine.oauth

\* The stored refresh token is the accepted one, or a request has that in hand.
RowInv ==
  row.oauth # None =>
    LET g == row.oauth.grant
    IN  /\ Known(row.oauth)
        /\ Alive(g) => /\ row.oauth.generation <= live[g]
                       /\ row.oauth.generation = live[g] \/ \E r \in Requests : Renewing(r, g)

\* Nobody has a newer token than OpenAI gave out; one refused is spent.
LoadedOk(r) ==
  LET q == request[r]
      b == q.mine.oauth
  IN  Loaded(q) =>
        /\ Known(b)
        /\ Alive(b.grant) => /\ b.generation <= live[b.grant]
                             /\ q.at = "denied" => b.generation < live[b.grant]

\* The renewal in hand is the accepted token, and nobody else has it or another.
RenewedOk(r) ==
  LET b == request[r].mine.oauth
  IN  request[r].at = "renewed" /\ Alive(b.grant) =>
        /\ b.generation + 1 = live[b.grant]
        /\ row.oauth # None /\ row.oauth.grant = b.grant => row.oauth.generation <= b.generation
        /\ \A p \in Requests \ {r} :
             Loaded(request[p]) /\ request[p].mine.oauth.grant = b.grant =>
               request[p].mine.oauth.generation <= b.generation /\ request[p].at # "renewed"

\* A sign-in that is being verified is its request's alone.
FreshOk(r) ==
  LET b == request[r].new.oauth
  IN  Fresh(request[r]) =>
        /\ Known(b)
        /\ Alive(b.grant) =>
             /\ b.generation = live[b.grant]
             /\ row.oauth # None => row.oauth.grant # b.grant
             /\ \A p \in Requests : Loaded(request[p]) => request[p].mine.oauth.grant # b.grant
             /\ \A p \in Requests \ {r} : Fresh(request[p]) => request[p].new.oauth.grant # b.grant

SignInInv == RowInv /\ \A r \in Requests : LoadedOk(r) /\ RenewedOk(r) /\ FreshOk(r)
-----------------------------------------------------------------------------
LEMMA TypeInit == Init => TypeInv
<1> SUFFICES ASSUME Init PROVE TypeInv
  OBVIOUS
<1>1. row \in Row /\ expired \subseteq Bundle /\ lost \subseteq 1 .. MaxGrants /\ overtaken \in BOOLEAN
  BY DEF Init, Row
<1>2. pairings \in 0 .. MaxPairings /\ live \in [1 .. MaxGrants -> Maybe(0 .. MaxRotations)]
  BY DEF Init
<1>3. uses \in [1 .. MaxPairings -> Nat]
  BY DEF Init
<1>4. request \in [Requests -> Request] /\ \A r \in Requests : Shape(request[r])
  BY DEF Init, Idle, Request, Shape
<1>5. QED
  BY <1>1, <1>2, <1>3, <1>4 DEF TypeInv, TypeOK, ShapeInv

\* The columns a commit leaves behind.
LEMMA CommittedRow ==
  ASSUME row \in Row, NEW mine \in Row, NEW new \in Row
  PROVE  /\ Committed(mine, new) \in Row
         /\ Committed(mine, new).provider = IF new.provider = mine.provider THEN row.provider ELSE new.provider
         /\ Committed(mine, new).apiKey = IF new.apiKey = mine.apiKey THEN row.apiKey ELSE new.apiKey
         /\ Committed(mine, new).oauth = IF new.oauth = mine.oauth THEN row.oauth ELSE new.oauth
         /\ Committed(mine, new).pairing = IF new.pairing = mine.pairing THEN row.pairing ELSE new.pairing
  BY DEF Row, Committed

\* What a request that is about to write has in hand.
LEMMA InHand ==
  ASSUME TypeInv, NEW r \in Requests, request[r].at \in {"verifying", "renewed", "denied"}
  PROVE  LET q == request[r]
         IN  /\ q.mine \in Row /\ q.new \in Row
             /\ q.at # "verifying" =>
                  /\ q.mine.oauth \in Bundle
                  /\ q.new.provider = q.mine.provider /\ q.new.apiKey = q.mine.apiKey
                  /\ q.new.pairing = q.mine.pairing
             /\ q.at = "renewed" =>
                  /\ q.new.oauth \in Bundle
                  /\ q.new.oauth.grant = q.mine.oauth.grant /\ q.new.oauth # q.mine.oauth
             /\ q.at = "denied" => q.new.oauth = None
<1> DEFINE mine == request[r].mine
           new == request[r].new
           next == [grant |-> mine.oauth.grant, generation |-> mine.oauth.generation + 1]
<1>1. mine \in Row /\ Shape(request[r])
  BY DEF TypeInv, ShapeInv, Shape
<1>2. CASE request[r].at = "verifying"
  BY <1>1, <1>2 DEF Shape, Verified
<1>3. CASE request[r].at = "denied"
  BY <1>1, <1>3 DEF Shape, Refreshed, Row
<1>4. CASE request[r].at = "renewed"
  <2>1. mine.oauth \in Bundle /\ next \in Bundle /\ next.generation # mine.oauth.generation
    BY <1>1, <1>4 DEF Shape, Refreshed, Bundle
  <2>2. new = [mine EXCEPT !.oauth = next]
    BY <1>1, <1>4 DEF Shape, Refreshed
  <2>3. next.grant = mine.oauth.grant /\ next # mine.oauth
    BY <2>1
  <2> HIDE DEF next, mine, new
  <2>4. /\ new \in Row /\ new.oauth = next /\ new.provider = mine.provider
        /\ new.apiKey = mine.apiKey /\ new.pairing = mine.pairing
    BY <1>1, <2>1, <2>2 DEF Row
  <2>5. QED
    BY <1>1, <1>4, <2>1, <2>3, <2>4 DEF mine, new
<1>5. QED
  BY <1>2, <1>3, <1>4

\* What a save or a claim asks to be stored.
LEMMA WithRow ==
  ASSUME row \in Row
  PROVE  /\ \A k \in Keys :
              /\ WithKey(k) \in Row
              /\ WithKey(k).provider = k.provider /\ WithKey(k).apiKey = k /\ WithKey(k).oauth = None
              /\ WithKey(k).pairing = row.pairing
         /\ \A b \in Bundle :
              /\ WithPlan(b) \in Row
              /\ WithPlan(b).apiKey = None /\ WithPlan(b).oauth = b /\ WithPlan(b).provider = "openai"
              /\ WithPlan(b).pairing = row.pairing
         /\ \A a \in Row :
              /\ Burned(a) \in Row
              /\ Burned(a).provider = a.provider /\ Burned(a).apiKey = a.apiKey
              /\ Burned(a).oauth = a.oauth /\ Burned(a).pairing = None
  BY DEF Row, WithKey, WithPlan, Burned, Providers

LEMMA NewSignInType == \A g \in 1 .. MaxGrants :
  NewSignIn(g) \in Bundle /\ NewSignIn(g).grant = g /\ NewSignIn(g).generation = 0
  BY DEF NewSignIn, Bundle

\* A step of one request replaces its record by one of the right shape.
LEMMA PutKeepsType ==
  ASSUME TypeInv, NEW r \in Requests, NEW q \in Request, Shape(q),
         request' = [request EXCEPT ![r] = q]
  PROVE  request' \in [Requests -> Request] /\ ShapeInv'
  BY DEF TypeInv, TypeOK, ShapeInv

LEMMA IdleShape == Idle \in Request /\ Shape(Idle)
  BY DEF Idle, Request, Shape

\* What a save may ask to be stored: one kind of credential, and the pairing it
\* claims gone.
Storable(new, token) ==
  /\ new \in Row /\ token \in Maybe(1 .. MaxPairings)
  /\ \/ new.oauth = None /\ new.apiKey # None /\ new.provider = new.apiKey.provider
     \/ new.oauth # None /\ new.apiKey = None
  /\ IF token = None THEN new.pairing = row.pairing
     ELSE row.pairing # None /\ row.pairing.token = token /\ new.pairing = None

LEMMA VerifyKeepsType ==
  ASSUME TypeInv, NEW r \in Requests, NEW new, NEW token,
         Verify(r, new, token), Storable(new, token)
  PROVE  request' \in [Requests -> Request] /\ ShapeInv'
<1> DEFINE q == [at |-> "verifying", mine |-> row, new |-> new, token |-> token]
<1>1. row \in Row
  BY DEF TypeInv, TypeOK
<1>2. q \in Request /\ Shape(q)
  BY <1>1 DEF Request, Shape, Verified, Storable
<1>3. QED
  BY <1>2, PutKeepsType DEF Verify

\* The saves and claims, with what they ask to be stored.
Saves(r) ==
  \/ \E k \in Keys : SaveKey(r, k)
  \/ \E g \in 1 .. MaxGrants : SavePlan(r, g) \/ ClaimPairing(r, g)
  \/ KeepPlan(r)

LEMMA SaveSteps ==
  ASSUME TypeInv, NEW r \in Requests, Saves(r)
  PROVE  /\ request' \in [Requests -> Request] /\ ShapeInv'
         /\ request[r].at = "idle" /\ UNCHANGED <<row, expired, pairings, uses, lost, overtaken>>
         /\ \E new \in Row, token \in Maybe(1 .. MaxPairings) :
              /\ request' = [request EXCEPT ![r] = [at |-> "verifying", mine |-> row,
                                                   new |-> new, token |-> token]]
              /\ token # None => row.pairing # None /\ row.pairing.token = token
              /\ \/ new.oauth \in {None, row.oauth} /\ UNCHANGED live
                 \/ \E g \in 1 .. MaxGrants : Granted(g) /\ new.oauth = NewSignIn(g)
<1>0. row \in Row
  BY DEF TypeInv, TypeOK
<1>1. CASE \E k \in Keys : SaveKey(r, k)
  <2> PICK k \in Keys : SaveKey(r, k)
    BY <1>1
  <2> DEFINE new == WithKey(k)
  <2>1. /\ new \in Row /\ new.oauth = None /\ new.apiKey # None /\ new.provider = new.apiKey.provider
        /\ new.pairing = row.pairing
    BY <1>0, WithRow
  <2> HIDE DEF new
  <2>2. Verify(r, new, None)
    BY DEF SaveKey, new
  <2>3. Storable(new, None)
    BY <2>1 DEF Storable
  <2>4. request' \in [Requests -> Request] /\ ShapeInv'
    BY <2>2, <2>3, VerifyKeepsType
  <2>5. QED
    BY <2>1, <2>2, <2>4 DEF SaveKey, Verify
<1>2. CASE \E g \in 1 .. MaxGrants : SavePlan(r, g)
  <2> PICK g \in 1 .. MaxGrants : SavePlan(r, g)
    BY <1>2
  <2> DEFINE new == WithPlan(NewSignIn(g))
  <2>1. new \in Row /\ new.oauth = NewSignIn(g) /\ new.oauth # None /\ new.apiKey = None
        /\ new.pairing = row.pairing
    BY <1>0, WithRow, NewSignInType
  <2> HIDE DEF new
  <2>2. Verify(r, new, None)
    BY DEF SavePlan, new
  <2>3. Storable(new, None)
    BY <2>1 DEF Storable
  <2>4. request' \in [Requests -> Request] /\ ShapeInv'
    BY <2>2, <2>3, VerifyKeepsType
  <2>5. QED
    BY <2>1, <2>2, <2>4 DEF SavePlan, Verify
<1>3. CASE \E g \in 1 .. MaxGrants : ClaimPairing(r, g)
  <2> PICK g \in 1 .. MaxGrants : ClaimPairing(r, g)
    BY <1>3
  <2> DEFINE new == Burned(WithPlan(NewSignIn(g)))
  <2>1. row.pairing \in Pairing /\ row.pairing.token \in 1 .. MaxPairings
    BY <1>0 DEF ClaimPairing, Row, Pairing
  <2>2. new \in Row /\ new.oauth = NewSignIn(g) /\ new.oauth # None /\ new.apiKey = None /\ new.pairing = None
    BY <1>0, WithRow, NewSignInType
  <2> HIDE DEF new
  <2>3. Verify(r, new, row.pairing.token)
    BY DEF ClaimPairing, new
  <2>4. Storable(new, row.pairing.token)
    <3>1. row.pairing # None /\ row.pairing.token # None
      BY <2>1 DEF ClaimPairing
    <3>2. QED
      BY <2>1, <2>2, <3>1 DEF Storable
  <2>5. request' \in [Requests -> Request] /\ ShapeInv'
    BY <2>3, <2>4, VerifyKeepsType
  <2>6. UNCHANGED <<row, expired, pairings, uses, lost, overtaken>>
    BY DEF ClaimPairing
  <2>7. /\ request[r].at = "idle"
        /\ request' = [request EXCEPT ![r] = [at |-> "verifying", mine |-> row, new |-> new,
                                              token |-> row.pairing.token]]
    BY <2>3 DEF Verify
  <2>8. row.pairing # None /\ row.pairing.token \in Maybe(1 .. MaxPairings) /\ Granted(g)
    BY <2>1 DEF ClaimPairing
  <2>9. QED
    BY <2>1, <2>2, <2>5, <2>6, <2>7, <2>8
<1>4. CASE KeepPlan(r)
  <2> DEFINE new == WithPlan(row.oauth)
  <2>1. row.oauth \in Bundle /\ row.oauth # None
    BY <1>0, <1>4 DEF KeepPlan, Row
  <2>2. new \in Row /\ new.oauth = row.oauth /\ new.apiKey = None /\ new.pairing = row.pairing
    BY <1>0, <2>1, WithRow
  <2> HIDE DEF new
  <2>3. Verify(r, new, None) /\ UNCHANGED <<row, live, expired, pairings, uses, lost, overtaken>>
    BY <1>4 DEF KeepPlan, new
  <2>4. Storable(new, None)
    BY <2>1, <2>2 DEF Storable
  <2>5. request' \in [Requests -> Request] /\ ShapeInv'
    BY <2>3, <2>4, VerifyKeepsType
  <2>6. QED
    BY <2>2, <2>3, <2>5 DEF Verify
<1>5. QED
  BY <1>1, <1>2, <1>3, <1>4 DEF Saves

LEMMA EditedRequest ==
  ASSUME NEW q \in Request, NEW at, NEW new, NEW x, x = [q EXCEPT !.at = at, !.new = new]
  PROVE  x = [at |-> at, mine |-> q.mine, new |-> new, token |-> q.token]
  BY DEF Request

\* OpenAI's answer to a refresh: a new pair, or what counts as a refusal.
Renews(r) ==
  LET b == request[r].mine.oauth
  IN  /\ live[b.grant] = b.generation /\ b.generation < MaxRotations
      /\ live' = [live EXCEPT ![b.grant] = b.generation + 1]
      /\ request'[r].at = "renewed"
      /\ request'[r].new.oauth = [grant |-> b.grant, generation |-> b.generation + 1]
      /\ UNCHANGED lost

Denies(r) ==
  LET b == request[r].mine.oauth
  IN  /\ request'[r].at = "denied" /\ request'[r].new.oauth = None
      /\ UNCHANGED live
      /\ \/ live[b.grant] # b.generation /\ UNCHANGED lost
         \/ lost' = lost \union {b.grant}

LEMMA AnswerSteps ==
  ASSUME TypeInv, NEW r \in Requests, Rotate(r) \/ ServerError(r)
  PROVE  /\ request' \in [Requests -> Request] /\ ShapeInv'
         /\ request[r].at = "refreshing" /\ request[r].mine.oauth \in Bundle
         /\ request'[r].mine = request[r].mine /\ request'[r].token = None
         /\ \A q \in Requests \ {r} : request'[q] = request[q]
         /\ Renews(r) \/ Denies(r)
<1> DEFINE mine == request[r].mine
           b == mine.oauth
           next == [grant |-> b.grant, generation |-> b.generation + 1]
           renewed == [at |-> "renewed", mine |-> mine, new |-> [mine EXCEPT !.oauth = next], token |-> None]
           denied == [at |-> "denied", mine |-> mine, new |-> [mine EXCEPT !.oauth = None], token |-> None]
<1>1. /\ request[r] \in Request /\ request[r].at = "refreshing"
      /\ mine \in Row /\ b \in Bundle /\ request[r].token = None
  BY DEF TypeInv, TypeOK, ShapeInv, Shape, Refreshed, Rotate, ServerError
<1>2. denied \in Request /\ Shape(denied) /\ denied.new.oauth = None
  BY <1>1 DEF Request, Shape, Refreshed, Row
<1>3. CASE live[b.grant] = b.generation /\ Rotate(r)
  <2>1. next = [b EXCEPT !.generation = @ + 1]
    BY <1>1 DEF Bundle
  <2>2. b.generation < MaxRotations /\ live' = [live EXCEPT ![b.grant] = b.generation + 1]
    BY <1>3, <2>1 DEF Rotate
  <2>3. request' = [request EXCEPT ![r].at = "renewed", ![r].new = [mine EXCEPT !.oauth = next]]
    BY <1>3, <2>1 DEF Rotate
  <2>31. request' = [request EXCEPT ![r] = renewed]
    <3> DEFINE new == [mine EXCEPT !.oauth = next]
    <3> HIDE DEF new
    <3>1. [request[r] EXCEPT !.at = "renewed", !.new = new]
            = [at |-> "renewed", mine |-> mine, new |-> new, token |-> None]
      BY <1>1, EditedRequest
    <3>2. request' = [request EXCEPT ![r] = [request[r] EXCEPT !.at = "renewed", !.new = new]]
      BY <2>3, Zenon DEF new
    <3>3. QED
      BY <3>1, <3>2 DEF new
  <2>4. next \in Bundle
    BY <1>1, <2>2 DEF Bundle
  <2>5. renewed \in Request /\ Shape(renewed) /\ renewed.new.oauth = next
    BY <1>1, <2>2, <2>4 DEF Request, Shape, Refreshed, Row
  <2>6. request' \in [Requests -> Request] /\ ShapeInv'
    BY <2>31, <2>5, PutKeepsType
  <2>7. UNCHANGED lost
    BY <1>3 DEF Rotate
  <2>8. request'[r] = renewed /\ \A q \in Requests \ {r} : request'[q] = request[q]
    BY <2>31 DEF TypeInv, TypeOK
  <2>9. renewed.mine = mine /\ renewed.token = None /\ renewed.at = "renewed"
    OBVIOUS
  <2>10. Renews(r)
    BY <1>3, <2>2, <2>5, <2>7, <2>8, <2>9 DEF Renews
  <2> HIDE DEF renewed
  <2>11. QED
    BY <1>1, <2>6, <2>8, <2>9, <2>10
<1>4. CASE ~(live[b.grant] = b.generation /\ Rotate(r))
  <2>1. request' = [request EXCEPT ![r] = denied]
    BY <1>1, <1>4 DEF Rotate, ServerError, Request, TypeInv, TypeOK
  <2>2. request' \in [Requests -> Request] /\ ShapeInv'
    BY <1>2, <2>1, PutKeepsType
  <2>3. /\ UNCHANGED live
        /\ \/ live[b.grant] # b.generation /\ UNCHANGED lost
           \/ lost' = lost \union {b.grant}
    BY <1>4 DEF Rotate, ServerError
  <2>4. request'[r] = denied /\ \A q \in Requests \ {r} : request'[q] = request[q]
    BY <2>1 DEF TypeInv, TypeOK
  <2>5. denied.mine = mine /\ denied.token = None /\ denied.at = "denied"
    OBVIOUS
  <2> HIDE DEF denied
  <2>51. request'[r].at = "denied" /\ request'[r].new.oauth = None
    BY <1>2, <2>4, <2>5
  <2>6. Denies(r)
    BY <2>3, <2>51 DEF Denies
  <2>7. QED
    BY <1>1, <2>2, <2>4, <2>5, <2>6
<1>5. QED
  BY <1>3, <1>4

\* A step that ends a request or begins a refresh.
LEMMA RefreshKeepsType ==
  ASSUME TypeInv, NEW r \in Requests,
         Store(r) \/ StartRefresh(r) \/ FinishRefresh(r) \/ Abandon(r)
  PROVE  request' \in [Requests -> Request] /\ ShapeInv'
<1>1. CASE StartRefresh(r)
  <2> DEFINE q == [at |-> "refreshing", mine |-> row, new |-> None, token |-> None]
  <2>1. row \in Row /\ row.oauth \in Bundle
    BY <1>1 DEF TypeInv, TypeOK, StartRefresh
  <2>2. q \in Request /\ Shape(q)
    BY <2>1 DEF Request, Shape, Refreshed
  <2>3. QED
    BY <1>1, <2>2, PutKeepsType DEF StartRefresh
<1>2. CASE Store(r) \/ FinishRefresh(r) \/ Abandon(r)
  BY <1>2, IdleShape, PutKeepsType DEF Store, FinishRefresh, Abandon
<1>3. QED
  BY <1>1, <1>2

\* What the steps of nobody's request change.
World ==
  \/ RefuseClaim \/ Disconnect \/ StartPairing \/ PairingExpires
  \/ \E g \in 1 .. MaxGrants : AccessTokenExpires(g) \/ Revoke(g)

LEMMA WorldSteps ==
  ASSUME TypeInv, World
  PROVE  /\ row' \in Row /\ UNCHANGED <<request, uses, lost, overtaken>>
         /\ Credential(row') \in {Credential(row), Disconnected}
         /\ pairings' \in pairings .. MaxPairings
         /\ row'.pairing # None =>
              \/ row'.pairing.token = pairings' /\ pairings' = pairings + 1
              \/ row.pairing # None /\ row'.pairing.token = row.pairing.token
<1> USE DEF TypeInv, TypeOK
<1>1. CASE RefuseClaim \/ Disconnect
  <2>1. row' \in Row /\ row'.pairing \in {None, row.pairing}
    BY <1>1 DEF RefuseClaim, Burned, Disconnect, Row
  <2>2. \/ row'.provider = row.provider /\ row'.apiKey = row.apiKey /\ row'.oauth = row.oauth
        \/ row'.provider = None /\ row'.apiKey = None /\ row'.oauth = None
    BY <1>1 DEF RefuseClaim, Burned, Disconnect, Row
  <2>3. QED
    BY <1>1, <2>1, <2>2 DEF RefuseClaim, Disconnect, Credential, Disconnected
<1>2. CASE StartPairing
  <2>1. NewPairing \in Pairing /\ NewPairing.token = pairings + 1
    BY <1>2 DEF StartPairing, NewPairing, Pairing
  <2>2. /\ row' \in Row /\ row'.pairing = NewPairing
        /\ row'.provider = row.provider /\ row'.apiKey = row.apiKey /\ row'.oauth = row.oauth
    BY <1>2, <2>1 DEF StartPairing, Row
  <2>3. QED
    BY <1>2, <2>1, <2>2 DEF StartPairing, Credential
<1>3. CASE PairingExpires
  <2> DEFINE p == [token |-> row.pairing.token, expired |-> TRUE]
  <2>1. row.pairing \in Pairing
    BY <1>3 DEF PairingExpires, Row
  <2>2. p \in Pairing /\ \A x : x = [row.pairing EXCEPT !.expired = TRUE] => x = p
    BY <2>1 DEF Pairing
  <2>3. row' = [row EXCEPT !.pairing = p]
    BY <1>3, <2>2 DEF PairingExpires
  <2>4. /\ row' \in Row /\ row'.pairing = p
        /\ row'.provider = row.provider /\ row'.apiKey = row.apiKey /\ row'.oauth = row.oauth
    BY <2>2, <2>3 DEF Row
  <2>5. row'.pairing.token = row.pairing.token
    BY <2>4
  <2> HIDE DEF p
  <2>6. QED
    BY <1>3, <2>4, <2>5 DEF PairingExpires, Credential
<1>4. CASE \E g \in 1 .. MaxGrants : AccessTokenExpires(g) \/ Revoke(g)
  BY <1>4 DEF AccessTokenExpires, Revoke
<1>5. QED
  BY <1>1, <1>2, <1>3, <1>4 DEF World

LEMMA KeepKeySaves ==
  ASSUME TypeInv, NEW r \in Requests, KeepKey(r)
  PROVE  \E k \in Keys : SaveKey(r, k)
  BY DEF KeepKey, TypeInv, TypeOK, Row

\* Every step is one of these.
LEMMA Steps ==
  ASSUME TypeInv, [Next]_vars
  PROVE  \/ \E r \in Requests :
              \/ Saves(r) \/ Store(r) \/ StartRefresh(r) \/ Rotate(r) \/ ServerError(r)
              \/ FinishRefresh(r) \/ Abandon(r)
         \/ World
         \/ UNCHANGED vars
  BY KeepKeySaves DEF Next, Saves, World

LEMMA TypeNext == TypeInv /\ [Next]_vars => TypeInv'
<1> SUFFICES ASSUME TypeInv, [Next]_vars PROVE TypeInv'
  OBVIOUS
<1> USE DEF TypeInv
<1>1. ASSUME NEW r \in Requests, Saves(r) PROVE TypeInv'
  <2>1. request' \in [Requests -> Request] /\ ShapeInv' /\ UNCHANGED <<row, expired, pairings, uses, lost, overtaken>>
    BY <1>1, SaveSteps
  <2>2. live' = live \/ \E g \in 1 .. MaxGrants : live' = [live EXCEPT ![g] = 0]
    BY <1>1 DEF Saves, SaveKey, SavePlan, ClaimPairing, KeepPlan, Granted
  <2>3. 0 \in 0 .. MaxRotations
    OBVIOUS
  <2>4. live' \in [1 .. MaxGrants -> Maybe(0 .. MaxRotations)]
    BY <2>2, <2>3 DEF TypeOK
  <2> HIDE DEF Maybe
  <2>5. QED
    BY <2>1, <2>4 DEF TypeOK
<1>2. ASSUME NEW r \in Requests, Store(r) PROVE TypeInv'
  <2>1. request[r].mine \in Row /\ request[r].new \in Row /\ request[r].token \in Maybe(1 .. MaxPairings)
    BY <1>2 DEF TypeOK, Request, ShapeInv, Shape, Verified, Store
  <2>2. row' \in Row /\ uses' \in [1 .. MaxPairings -> Nat] /\ overtaken' \in BOOLEAN
    BY <1>2, <2>1, CommittedRow DEF TypeOK, Store
  <2>3. QED
    BY <1>2, <2>2, RefreshKeepsType DEF TypeOK, Store
<1>3. ASSUME NEW r \in Requests, StartRefresh(r) PROVE TypeInv'
  BY <1>3, RefreshKeepsType DEF TypeOK, StartRefresh
<1>4. ASSUME NEW r \in Requests, Rotate(r) \/ ServerError(r) PROVE TypeInv'
  <2> DEFINE b == request[r].mine.oauth
  <2>1. b.grant \in 1 .. MaxGrants /\ b.generation \in 0 .. MaxRotations
    BY <1>4, AnswerSteps DEF Bundle
  <2>2. request' \in [Requests -> Request] /\ ShapeInv' /\ (Renews(r) \/ Denies(r))
    BY <1>4, AnswerSteps
  <2>4. UNCHANGED <<row, expired, pairings, uses, overtaken>>
    BY <1>4 DEF Rotate, ServerError
  <2>3. CASE Renews(r)
    <3>1. /\ live' = [live EXCEPT ![b.grant] = b.generation + 1] /\ UNCHANGED lost
          /\ b.generation < MaxRotations
      BY <2>3 DEF Renews
    <3>2. b.generation + 1 \in 0 .. MaxRotations
      BY <2>1, <3>1, CredentialAssumption
    <3> HIDE DEF b
    <3>3. live' \in [1 .. MaxGrants -> Maybe(0 .. MaxRotations)]
      BY <3>1, <3>2 DEF TypeOK
    <3>4. QED
      BY <2>2, <2>4, <3>1, <3>3 DEF TypeOK
  <2>5. CASE Denies(r)
    BY <2>1, <2>2, <2>5, <2>4 DEF TypeOK, Denies
  <2>6. QED
    BY <2>2, <2>3, <2>5
<1>5. ASSUME NEW r \in Requests, FinishRefresh(r) PROVE TypeInv'
  <2>1. request[r].mine \in Row /\ request[r].new \in Row
    BY <1>5, InHand DEF FinishRefresh
  <2>2. row' \in Row /\ overtaken' \in BOOLEAN
    BY <1>5, <2>1, CommittedRow DEF TypeOK, FinishRefresh
  <2>3. QED
    BY <1>5, <2>2, RefreshKeepsType DEF TypeOK, FinishRefresh
<1>6. ASSUME NEW r \in Requests, Abandon(r) PROVE TypeInv'
  <2>1. request[r].at \in {"renewed", "denied"} => request[r].mine.oauth.grant \in 1 .. MaxGrants
    BY DEF ShapeInv, Shape, Refreshed, Bundle
  <2>2. QED
    BY <1>6, <2>1, RefreshKeepsType DEF TypeOK, Abandon
<1>7. CASE World
  <2>1. row' \in Row /\ UNCHANGED <<request, uses, lost, overtaken>> /\ pairings' \in 0 .. MaxPairings
    BY <1>7, WorldSteps DEF TypeOK
  <2>2. /\ live' \in [1 .. MaxGrants -> Maybe(0 .. MaxRotations)]
        /\ expired' \subseteq Bundle
    BY <1>7 DEF World, TypeOK, RefuseClaim, Disconnect, StartPairing, PairingExpires,
                AccessTokenExpires, Revoke, Bundle
  <2>3. QED
    BY <2>1, <2>2 DEF TypeOK, ShapeInv
<1>8. CASE UNCHANGED vars
  BY <1>8 DEF vars, TypeOK, ShapeInv
<1>9. QED
  BY <1>1, <1>2, <1>3, <1>4, <1>5, <1>6, <1>7, <1>8, Steps

\* Every variable keeps its type, however many requests there are at once.
THEOREM TypeCorrect == Spec => []TypeOK
<1>1. TypeInv => TypeOK
  BY DEF TypeInv
<1>2. QED
  BY <1>1, TypeInit, TypeNext, PTL DEF Spec
-----------------------------------------------------------------------------
LEMMA CredentialNext == TypeInv /\ CredentialInv /\ [Next]_vars => CredentialInv'
<1> SUFFICES ASSUME TypeInv, CredentialInv, [Next]_vars PROVE CredentialInv'
  OBVIOUS
<1> USE DEF CredentialInv, InFlight
<1>0. row \in Row /\ request \in [Requests -> Request]
  BY DEF TypeInv, TypeOK
<1>1. ASSUME NEW r \in Requests, Saves(r) PROVE CredentialInv'
  <2>1. UNCHANGED <<row, overtaken>> /\ request'[r].mine = row
        /\ \A q \in Requests \ {r} : request'[q] = request[q]
    BY <1>0, <1>1, SaveSteps
  <2>2. QED
    BY <2>1 DEF Sound
<1>2. ASSUME NEW r \in Requests, StartRefresh(r) PROVE CredentialInv'
  <2>1. UNCHANGED <<row, overtaken>> /\ request'[r].mine = row
        /\ \A q \in Requests \ {r} : request'[q] = request[q]
    BY <1>0, <1>2 DEF StartRefresh
  <2>2. QED
    BY <2>1 DEF Sound
<1>3. ASSUME NEW r \in Requests, Rotate(r) \/ ServerError(r) PROVE CredentialInv'
  <2>1. request[r].at # "idle" /\ request'[r].mine = request[r].mine
        /\ \A q \in Requests \ {r} : request'[q] = request[q]
    BY <1>3, AnswerSteps
  <2>2. UNCHANGED <<row, overtaken>>
    BY <1>3 DEF Rotate, ServerError
  <2>3. QED
    BY <2>1, <2>2 DEF Sound
<1>4. ASSUME NEW r \in Requests, Store(r) \/ FinishRefresh(r), ~overtaken' PROVE CredentialInv'
  <2> DEFINE mine == request[r].mine
             new == request[r].new
  <2>1. /\ mine \in Row /\ new \in Row /\ request[r].at # "idle" /\ request'[r].at = "idle"
        /\ \A q \in Requests \ {r} : request'[q] = request[q]
    BY <1>0, <1>4, InHand DEF Store, FinishRefresh, Idle
  <2>2. ~overtaken /\ Sound(mine) /\ Credential(row) \in {Credential(mine), Disconnected}
    BY <1>4, <2>1 DEF Store, FinishRefresh, Overtakes
  <2>3. \/ new.oauth = None /\ new.apiKey # None /\ new.provider = new.apiKey.provider
        \/ new.oauth # None /\ new.apiKey = None
        \/ mine.oauth # None /\ new.apiKey = mine.apiKey /\ new.provider = mine.provider
    BY <1>4, InHand DEF TypeInv, ShapeInv, Shape, Verified, Store, FinishRefresh
  <2>4. row' = Committed(mine, new)
    BY <1>4 DEF Store, FinishRefresh
  <2> HIDE DEF mine, new
  <2>5. \/ row.provider = mine.provider /\ row.apiKey = mine.apiKey /\ row.oauth = mine.oauth
        \/ row.provider = None /\ row.apiKey = None /\ row.oauth = None
    BY <2>2 DEF Credential, Disconnected
  <2>6. /\ row'.provider = IF new.provider = mine.provider THEN row.provider ELSE new.provider
        /\ row'.apiKey = IF new.apiKey = mine.apiKey THEN row.apiKey ELSE new.apiKey
        /\ row'.oauth = IF new.oauth = mine.oauth THEN row.oauth ELSE new.oauth
    BY <1>0, <2>1, <2>4, CommittedRow
  <2>7. Sound(row')
    BY ONLY <2>2, <2>3, <2>5, <2>6 DEF Sound
  <2>8. \A q \in Requests \ {r} : request[q].at # "idle" => Sound(request'[q].mine)
    BY <2>1, <2>2
  <2>9. QED
    BY <2>1, <2>7, <2>8 DEF Sound
<1>5. ASSUME NEW r \in Requests, Abandon(r) PROVE CredentialInv'
  <2>1. UNCHANGED <<row, overtaken>> /\ request'[r].at = "idle"
        /\ \A q \in Requests \ {r} : request'[q] = request[q]
    BY <1>0, <1>5 DEF Abandon, Idle
  <2>2. QED
    BY <2>1 DEF Sound
<1>6. CASE World
  <2>1. UNCHANGED <<request, overtaken>> /\ Credential(row') \in {Credential(row), Disconnected}
    BY <1>6, WorldSteps
  <2>2. \/ row'.provider = row.provider /\ row'.apiKey = row.apiKey /\ row'.oauth = row.oauth
        \/ row'.provider = None /\ row'.apiKey = None /\ row'.oauth = None
    BY <2>1 DEF Credential, Disconnected
  <2>3. QED
    BY <2>1, <2>2 DEF Sound
<1>7. CASE UNCHANGED vars
  BY <1>7 DEF vars, Sound
<1>8. QED
  BY <1>1, <1>2, <1>3, <1>4, <1>5, <1>6, <1>7, Steps
-----------------------------------------------------------------------------
LEMMA ClaimsAreFinite ==
  ASSUME NEW t
  PROVE  IsFiniteSet(Claims(t)) /\ Cardinality(Claims(t)) \in Nat
         /\ Cardinality(Claims(t)) <= Cardinality(Requests) /\ Cardinality(Requests) \in Nat
<1>1. Claims(t) \subseteq Requests
  BY DEF Claims
<1>2. QED
  BY <1>1, FS_Subset, FS_CardinalityType, CredentialAssumption

\* A request that is over, or claims nothing, is out of the claims.
LEMMA ClaimEnds ==
  ASSUME NEW r \in Requests, NEW t,
         \A q \in Requests \ {r} : request'[q] = request[q], request'[r].token # t
  PROVE  /\ Claims(t)' = Claims(t) \ {r}
         /\ IF request[r].token = t THEN Cardinality(Claims(t)') = Cardinality(Claims(t)) - 1
            ELSE Claims(t)' = Claims(t)
<1>1. Claims(t)' = Claims(t) \ {r}
  BY DEF Claims
<1>2. r \in Claims(t) <=> request[r].token = t
  BY DEF Claims
<1>3. CASE request[r].token = t
  BY <1>1, <1>2, <1>3, ClaimsAreFinite, FS_RemoveElement
<1>4. CASE request[r].token # t
  BY <1>1, <1>2, <1>4
<1>5. QED
  BY <1>1, <1>3, <1>4

LEMMA PairingNext == TypeInv /\ PairingInv /\ [Next]_vars => PairingInv'
<1> SUFFICES ASSUME TypeInv, PairingInv, [Next]_vars PROVE PairingInv'
  OBVIOUS
<1>0. /\ row \in Row /\ pairings \in 0 .. MaxPairings /\ uses \in [1 .. MaxPairings -> Nat]
      /\ request \in [Requests -> Request]
      /\ \A r \in Requests : request[r].token \in Maybe(1 .. MaxPairings)
      /\ None \notin 1 .. MaxPairings
  BY DEF TypeInv, TypeOK, Request
<1>00. /\ row.pairing # None => row.pairing.token \in 1 .. MaxPairings
       /\ row'.pairing # None /\ row' \in Row => row'.pairing.token \in 1 .. MaxPairings
  BY <1>0 DEF Row, Pairing
<1>1. ASSUME NEW r \in Requests,
             \A q \in Requests \ {r} : request'[q] = request[q],
             request'[r].token = None, UNCHANGED <<pairings, uses>>,
             row'.pairing \in {None, row.pairing}
      PROVE  PairingInv'
  <2>1. ASSUME NEW t \in 1 .. MaxPairings
        PROVE  ClaimsInv(t)'
    <3>1. Claims(t)' = Claims(t) \ {r} /\ Cardinality(Claims(t)') <= Cardinality(Claims(t))
      BY <1>0, <1>1, ClaimEnds, ClaimsAreFinite
    <3>2. Cardinality(Claims(t)') \in Nat
      <4>1. IsFiniteSet(Claims(t) \ {r})
        BY ClaimsAreFinite, FS_Subset
      <4>2. QED
        BY <3>1, <4>1, FS_CardinalityType
    <3>3. QED
      BY <1>0, <1>1, <3>1, <3>2, ClaimsAreFinite DEF PairingInv, ClaimsInv
  <2>2. QED
    BY <1>1, <2>1 DEF PairingInv
<1>2. ASSUME NEW r \in Requests, Saves(r) PROVE PairingInv'
  <2>1. UNCHANGED <<row, pairings, uses>> /\ request[r].at = "idle" /\ request[r].token = None
        /\ \A q \in Requests \ {r} : request'[q] = request[q]
    BY <1>0, <1>2, SaveSteps DEF TypeInv, ShapeInv, Shape
  <2>2. request'[r].token # None => row.pairing # None /\ request'[r].token = row.pairing.token
    BY <1>0, <1>2, SaveSteps
  <2>3. CASE request'[r].token = None
    BY <1>1, <2>1, <2>3
  <2>4. CASE request'[r].token # None
    <3> PICK claimed : claimed = row.pairing.token
      OBVIOUS
    <3>1. request'[r].token = claimed /\ claimed \in 1 .. MaxPairings /\ claimed <= pairings /\ uses[claimed] = 0
      BY <1>00, <2>2, <2>4 DEF PairingInv
    <3>2. \A t \in 1 .. MaxPairings : t # claimed => Claims(t)' = Claims(t)
      <4>1. ASSUME NEW t \in 1 .. MaxPairings, t # claimed PROVE Claims(t)' = Claims(t)
        BY <1>0, <2>1, <3>1, <4>1, ClaimEnds
      <4>2. QED
        BY <4>1
    <3>3. Cardinality(Claims(claimed)') <= Cardinality(Requests) /\ Cardinality(Claims(claimed)') \in Nat
      <4>1. Claims(claimed)' \subseteq Requests
        BY DEF Claims
      <4>2. QED
        BY <4>1, FS_Subset, FS_CardinalityType, CredentialAssumption
    <3>4. ASSUME NEW t \in 1 .. MaxPairings
          PROVE  ClaimsInv(t)'
      <4>1. CASE t = claimed
        BY <1>0, <2>1, <3>1, <3>3, <4>1 DEF ClaimsInv
      <4>2. CASE t # claimed
        <5>1. ClaimsInv(t) /\ Claims(t)' = Claims(t)
          BY <3>2, <4>2 DEF PairingInv
        <5>2. QED
          BY <2>1, <5>1 DEF ClaimsInv
      <4>3. QED
        BY <4>1, <4>2
    <3>5. QED
      BY <2>1, <3>4 DEF PairingInv
  <2>5. QED
    BY <2>3, <2>4
<1>3. ASSUME NEW r \in Requests, Store(r) PROVE PairingInv'
  <2> DEFINE q == request[r]
  <2>1. q.mine \in Row /\ q.new \in Row /\ Verified(q)
    BY <1>3, InHand DEF TypeInv, ShapeInv, Shape, Store
  <2>2. row' = Committed(q.mine, q.new) /\ request'[r].token = None /\ UNCHANGED pairings
        /\ \A p \in Requests \ {r} : request'[p] = request[p]
    BY <1>0, <1>3 DEF Store, Idle
  <2>3. CASE q.token = None
    <3>1. row'.pairing = row.pairing /\ UNCHANGED uses
      BY <1>0, <1>3, <2>1, <2>2, <2>3, CommittedRow DEF Verified, Store
    <3>2. QED
      BY <1>1, <2>2, <3>1
  <2>4. CASE q.token # None
    <3> PICK claimed : claimed = q.token
      OBVIOUS
    <3>1. row'.pairing = None
      BY <1>0, <2>1, <2>2, <2>4, CommittedRow DEF Verified
    <3>2. uses' = [uses EXCEPT ![claimed] = @ + 1] /\ claimed \in 1 .. MaxPairings
      BY <1>0, <1>3, <2>4 DEF Store
    <3>3. \A t \in 1 .. MaxPairings : t # claimed => Claims(t)' = Claims(t)
      <4>1. ASSUME NEW t \in 1 .. MaxPairings, t # claimed PROVE Claims(t)' = Claims(t)
        BY <1>0, <2>2, <4>1, ClaimEnds
      <4>2. QED
        BY <4>1
    <3>4. Cardinality(Claims(claimed)') = Cardinality(Claims(claimed)) - 1 /\ claimed <= pairings
      <4>1. r \in Claims(claimed) /\ request'[r].token # claimed
        BY <1>0, <2>2, <3>2 DEF Claims
      <4>2. claimed <= pairings
        BY <1>0, <3>2, <4>1 DEF PairingInv, ClaimsInv
      <4>3. Cardinality(Claims(claimed)') = Cardinality(Claims(claimed)) - 1
        BY <2>2, <4>1, ClaimEnds
      <4>4. QED
        BY <4>2, <4>3
    <3>5. ASSUME NEW t \in 1 .. MaxPairings
          PROVE  ClaimsInv(t)'
      <4>1. CASE t = claimed
        <5>1. ClaimsInv(t) /\ Cardinality(Claims(t)) \in Nat
          BY ClaimsAreFinite DEF PairingInv
        <5>2. uses'[t] = uses[t] + 1 /\ uses[t] \in Nat
          BY <1>0, <3>2, <4>1
        <5>3. Cardinality(Claims(t)') = Cardinality(Claims(t)) - 1 /\ t <= pairings
          BY <3>4, <4>1
        <5>4. QED
          BY <1>0, <2>2, <5>1, <5>2, <5>3 DEF ClaimsInv
      <4>2. CASE t # claimed
        <5>1. ClaimsInv(t) /\ Claims(t)' = Claims(t) /\ uses'[t] = uses[t]
          BY <1>0, <3>2, <3>3, <4>2 DEF PairingInv
        <5>2. QED
          BY <2>2, <5>1 DEF ClaimsInv
      <4>3. QED
        BY <4>1, <4>2
    <3>6. QED
      BY <3>1, <3>5 DEF PairingInv
  <2>5. QED
    BY <2>3, <2>4
<1>4. ASSUME NEW r \in Requests, FinishRefresh(r) PROVE PairingInv'
  <2>1. row'.pairing = row.pairing
    BY <1>0, <1>4, InHand, CommittedRow DEF FinishRefresh
  <2>2. UNCHANGED <<pairings, uses>> /\ request'[r].token = None
        /\ \A q \in Requests \ {r} : request'[q] = request[q]
    BY <1>0, <1>4 DEF FinishRefresh, Idle
  <2>3. QED
    BY <1>1, <2>1, <2>2
<1>5. ASSUME NEW r \in Requests, Rotate(r) \/ ServerError(r) PROVE PairingInv'
  <2>1. UNCHANGED <<row, pairings, uses>> /\ request'[r].token = None
        /\ \A q \in Requests \ {r} : request'[q] = request[q]
    BY <1>5, AnswerSteps DEF Rotate, ServerError
  <2>2. QED
    BY <1>1, <2>1
<1>6. ASSUME NEW r \in Requests, StartRefresh(r) \/ Abandon(r) PROVE PairingInv'
  <2>1. UNCHANGED <<row, pairings, uses>> /\ request'[r].token = None
        /\ \A q \in Requests \ {r} : request'[q] = request[q]
    BY <1>0, <1>6 DEF StartRefresh, Abandon, Idle
  <2>2. QED
    BY <1>1, <2>1
<1>7. CASE World
  <2>1. /\ UNCHANGED <<request, uses>> /\ row' \in Row /\ pairings' \in pairings .. MaxPairings
        /\ row'.pairing # None =>
              \/ row'.pairing.token = pairings' /\ pairings' = pairings + 1
              \/ row.pairing # None /\ row'.pairing.token = row.pairing.token
    BY <1>7, WorldSteps
  <2>2. ASSUME NEW t \in 1 .. MaxPairings PROVE ClaimsInv(t)'
    <3>1. ClaimsInv(t) /\ Claims(t)' = Claims(t)
      BY <2>1 DEF PairingInv, Claims
    <3>2. QED
      BY <1>0, <2>1, <3>1 DEF ClaimsInv
  <2>3. ASSUME row'.pairing # None PROVE row'.pairing.token <= pairings' /\ uses[row'.pairing.token] = 0
    <3>1. row'.pairing.token \in 1 .. MaxPairings
      BY <1>00, <2>1, <2>3
    <3>2. CASE row'.pairing.token = pairings' /\ pairings' = pairings + 1
      BY <1>0, <3>1, <3>2 DEF PairingInv, ClaimsInv
    <3>3. CASE row.pairing # None /\ row'.pairing.token = row.pairing.token
      BY <1>0, <1>00, <2>1, <3>3 DEF PairingInv
    <3>4. QED
      BY <2>1, <2>3, <3>2, <3>3
  <2>4. QED
    BY <2>1, <2>2, <2>3 DEF PairingInv
<1>8. CASE UNCHANGED vars
  BY <1>8 DEF vars, PairingInv, ClaimsInv, Claims
<1>9. QED
  BY <1>2, <1>3, <1>4, <1>5, <1>6, <1>7, <1>8, Steps
-----------------------------------------------------------------------------
KnownAfter(b) == live'[b.grant] # None \/ \E e \in expired' : e.grant = b.grant
AliveAfter(g) == live'[g] # None /\ g \notin lost'

\* A sign-in OpenAI has heard of is never given out anew, none that was dead
\* comes back, and its accepted token stays while no refresh is answered.
Lasts == \A b \in Bundle : Known(b) =>
  /\ KnownAfter(b)
  /\ AliveAfter(b.grant) => Alive(b.grant) /\ live'[b.grant] = live[b.grant]

LEMMA SignIns ==
  ASSUME TypeInv
  PROVE  /\ row.oauth # None => row.oauth \in Bundle
         /\ request \in [Requests -> Request]
         /\ \A q \in Requests :
              /\ Loaded(request[q]) => request[q].mine.oauth \in Bundle
              /\ Fresh(request[q]) => request[q].new.oauth \in Bundle
              /\ request[q].at \in {"refreshing", "renewed", "denied"} =>
                   Loaded(request[q]) /\ request[q].mine.oauth \in Bundle
         /\ \A b \in Bundle : b.grant \in 1 .. MaxGrants /\ b.generation \in Nat /\ b # None
         /\ live \in [1 .. MaxGrants -> Maybe(0 .. MaxRotations)]
<1>1. row \in Row /\ request \in [Requests -> Request] /\ live \in [1 .. MaxGrants -> Maybe(0 .. MaxRotations)]
  BY DEF TypeInv, TypeOK
<1>2. \A b \in Bundle : b.grant \in 1 .. MaxGrants /\ b.generation \in Nat /\ b # None
  BY DEF Bundle
<1>3. ASSUME NEW q \in Requests
      PROVE  /\ Loaded(request[q]) => request[q].mine.oauth \in Bundle
             /\ Fresh(request[q]) => request[q].new.oauth \in Bundle
             /\ request[q].at \in {"refreshing", "renewed", "denied"} =>
                  Loaded(request[q]) /\ request[q].mine.oauth \in Bundle
  <2>1. Shape(request[q])
    BY DEF TypeInv, ShapeInv
  <2>2. request[q].at # "idle" => request[q].mine \in Row
    BY <2>1 DEF Shape
  <2>3. request[q].at = "verifying" => request[q].new \in Row
    BY <2>1 DEF Shape, Verified
  <2>4. request[q].at \in {"refreshing", "renewed", "denied"} => request[q].mine.oauth \in Bundle
    BY <2>1 DEF Shape, Refreshed
  <2>5. QED
    BY <1>2, <2>2, <2>3, <2>4 DEF Loaded, Fresh, Row
<1>4. QED
  BY <1>1, <1>2, <1>3 DEF Row

LEMMA Lasting ==
  ASSUME TypeInv,
         \/ \E r \in Requests :
              \/ Saves(r) \/ Store(r) \/ StartRefresh(r) \/ ServerError(r)
              \/ FinishRefresh(r) \/ Abandon(r)
         \/ World \/ UNCHANGED vars
  PROVE  Lasts
<1> SUFFICES ASSUME NEW b \in Bundle, Known(b)
             PROVE  /\ KnownAfter(b)
                    /\ AliveAfter(b.grant) => Alive(b.grant) /\ live'[b.grant] = live[b.grant]
  BY DEF Lasts
<1> USE DEF Known, KnownAfter, Alive, AliveAfter
<1>0. b.grant \in 1 .. MaxGrants /\ live \in [1 .. MaxGrants -> Maybe(0 .. MaxRotations)]
  BY SignIns
<1>1. CASE UNCHANGED live /\ expired \subseteq expired' /\ lost \subseteq lost'
  BY <1>1
<1>2. ASSUME NEW g \in 1 .. MaxGrants, Granted(g), UNCHANGED <<expired, lost>>
      PROVE  KnownAfter(b) /\ (AliveAfter(b.grant) => Alive(b.grant) /\ live'[b.grant] = live[b.grant])
  BY <1>0, <1>2 DEF Granted
<1>3. ASSUME NEW g \in 1 .. MaxGrants, Revoke(g)
      PROVE  KnownAfter(b) /\ (AliveAfter(b.grant) => Alive(b.grant) /\ live'[b.grant] = live[b.grant])
  <2>1. [grant |-> g, generation |-> live[g]] \in expired' /\ expired \subseteq expired'
    BY <1>3 DEF Revoke
  <2>2. live' = [live EXCEPT ![g] = None] /\ UNCHANGED lost
    BY <1>3 DEF Revoke
  <2>3. QED
    BY <1>0, <2>1, <2>2
<1>4. ASSUME NEW r \in Requests, Saves(r)
      PROVE  KnownAfter(b) /\ (AliveAfter(b.grant) => Alive(b.grant) /\ live'[b.grant] = live[b.grant])
  BY <1>1, <1>2, <1>4, SaveSteps
<1>5. ASSUME NEW r \in Requests,
             Store(r) \/ StartRefresh(r) \/ ServerError(r) \/ FinishRefresh(r) \/ Abandon(r)
      PROVE  UNCHANGED live /\ expired \subseteq expired' /\ lost \subseteq lost'
  BY <1>5 DEF Store, StartRefresh, ServerError, FinishRefresh, Abandon
<1>6. CASE World
  <2>1. CASE \E g \in 1 .. MaxGrants : Revoke(g)
    BY <1>3, <2>1
  <2>2. CASE ~\E g \in 1 .. MaxGrants : Revoke(g)
    <3>1. UNCHANGED live /\ expired \subseteq expired' /\ lost \subseteq lost'
      BY <1>6, <2>2 DEF World, RefuseClaim, Disconnect, StartPairing, PairingExpires, AccessTokenExpires
    <3>2. QED
      BY <1>1, <3>1
  <2>3. QED
    BY <2>1, <2>2
<1>7. CASE UNCHANGED vars
  BY <1>1, <1>7 DEF vars
<1>8. QED
  BY <1>1, <1>4, <1>5, <1>6, <1>7
-----------------------------------------------------------------------------
\* A save or a refresh begins with what is stored.
LEMMA LoadingKeeps ==
  ASSUME TypeInv, SignInInv, NEW r \in Requests, Saves(r) \/ StartRefresh(r)
  PROVE  SignInInv'
<1>0. Lasts
  BY Lasting
<1>1. /\ request[r].at = "idle" /\ UNCHANGED <<row, lost>>
      /\ request'[r].at \in {"verifying", "refreshing"} /\ request'[r].mine = row
      /\ \A q \in Requests \ {r} : request'[q] = request[q]
  BY SaveSteps, SignIns DEF StartRefresh
<1>2. Fresh(request'[r]) =>
        \E g \in 1 .. MaxGrants : Granted(g) /\ request'[r].new.oauth = NewSignIn(g)
  <2>1. CASE Saves(r)
    BY <2>1, SaveSteps, SignIns DEF Fresh
  <2>2. CASE StartRefresh(r)
    BY <2>2, SignIns DEF StartRefresh, Fresh
  <2>3. QED
    BY <2>1, <2>2
<1>3. RowInv'
  BY <1>0, <1>1, SignIns DEF Lasts, SignInInv, RowInv, Renewing, KnownAfter, AliveAfter, Known, Alive
<1>4. ASSUME NEW p \in Requests PROVE LoadedOk(p)'
  <2>1. CASE p = r
    BY <1>0, <1>1, <2>1, SignIns
    DEF Lasts, SignInInv, RowInv, LoadedOk, Loaded, KnownAfter, AliveAfter, Known, Alive
  <2>2. CASE p # r
    BY <1>0, <1>1, <2>2, SignIns DEF Lasts, SignInInv, LoadedOk, Loaded, KnownAfter, AliveAfter, Known, Alive
  <2>3. QED
    BY <2>1, <2>2
<1>5. ASSUME NEW p \in Requests PROVE RenewedOk(p)'
  BY <1>0, <1>1, SignIns
  DEF Lasts, SignInInv, LoadedOk, RenewedOk, Loaded, KnownAfter, AliveAfter, Known, Alive
<1>6. ASSUME NEW p \in Requests PROVE FreshOk(p)'
  <2> SUFFICES ASSUME Fresh(request'[p]) PROVE FreshOk(p)'
    BY DEF FreshOk
  <2>1. CASE p = r
    <3>1. PICK g \in 1 .. MaxGrants : Granted(g) /\ request'[r].new.oauth = NewSignIn(g)
      BY <1>2, <2>1
    <3>2. NewSignIn(g).grant = g /\ NewSignIn(g).generation = 0 /\ live'[g] = 0 /\ 0 # None
          /\ \A b \in Bundle : Known(b) => b.grant # g
      BY <3>1, NewSignInType, SignIns DEF Granted, Known
    <3>3. \A q \in Requests : Loaded(request[q]) => request[q].mine.oauth.grant # g
      BY <3>2, SignIns DEF SignInInv, LoadedOk
    <3>4. \A q \in Requests : Fresh(request[q]) => request[q].new.oauth.grant # g
      BY <3>2, SignIns DEF SignInInv, FreshOk
    <3>5. row.oauth # None => row.oauth.grant # g
      BY <3>2, SignIns DEF SignInInv, RowInv
    <3>6. QED
      BY <1>1, <2>1, <3>1, <3>2, <3>3, <3>4, <3>5 DEF FreshOk, Loaded, Known
  <2>2. CASE p # r
    <3> DEFINE b == request[p].new.oauth
    <3>1. Fresh(request[p]) /\ request'[p] = request[p] /\ b \in Bundle /\ FreshOk(p)
      BY <1>1, <2>2, SignIns DEF SignInInv
    <3>2. Known(b) /\ KnownAfter(b) /\ (AliveAfter(b.grant) => Alive(b.grant) /\ live'[b.grant] = live[b.grant])
      BY <1>0, <3>1 DEF FreshOk, Lasts
    <3>3. Fresh(request'[r]) => request'[r].new.oauth.grant # b.grant
      BY <1>2, <3>1, <3>2, NewSignInType DEF Granted, Known
    <3>4. QED
      BY <1>1, <3>1, <3>2, <3>3 DEF FreshOk, Loaded, KnownAfter, AliveAfter, Known, Alive
  <2>3. QED
    BY <2>1, <2>2
<1>7. QED
  BY <1>3, <1>4, <1>5, <1>6 DEF SignInInv

\* OpenAI renews a sign-in: until it is stored, this request alone has the token.
LEMMA RenewalKeeps ==
  ASSUME TypeInv, SignInInv, NEW r \in Requests, Rotate(r), Renews(r)
  PROVE  SignInInv'
<1> DEFINE b == request[r].mine.oauth
<1>1. /\ request[r].at = "refreshing" /\ request'[r].at = "renewed" /\ request'[r].mine = request[r].mine
      /\ \A q \in Requests \ {r} : request'[q] = request[q]
      /\ UNCHANGED <<row, expired, lost>>
  BY AnswerSteps DEF Renews, Rotate
<1>2. /\ b \in Bundle /\ Loaded(request[r]) /\ b.generation \in Nat
      /\ live[b.grant] = b.generation /\ live' = [live EXCEPT ![b.grant] = b.generation + 1]
      /\ b.generation + 1 # None
  BY <1>1, SignIns DEF Renews
<1>3. \A g \in 1 .. MaxGrants : live'[g] = IF g = b.grant THEN b.generation + 1 ELSE live[g]
  BY <1>2, SignIns
<1>4. \A c \in Bundle : Known(c) =>
        /\ KnownAfter(c)
        /\ AliveAfter(c.grant) => Alive(c.grant) /\ live[c.grant] <= live'[c.grant]
                                  /\ (live'[c.grant] = live[c.grant] <=> c.grant # b.grant)
  <2> SUFFICES ASSUME NEW c \in Bundle, Known(c)
               PROVE  /\ KnownAfter(c)
                      /\ AliveAfter(c.grant) => Alive(c.grant) /\ live[c.grant] <= live'[c.grant]
                                                /\ (live'[c.grant] = live[c.grant] <=> c.grant # b.grant)
    OBVIOUS
  <2>1. c.grant \in 1 .. MaxGrants
    BY SignIns
  <2>2. AliveAfter(c.grant) /\ c.grant # b.grant => live[c.grant] \in Nat
    BY <1>3, <2>1, SignIns DEF AliveAfter
  <2>3. QED
    BY <1>1, <1>2, <1>3, <2>1, <2>2 DEF KnownAfter, AliveAfter, Known, Alive
<1>5. RowInv'
  BY <1>1, <1>2, <1>4, SignIns DEF SignInInv, RowInv, Renewing, KnownAfter, AliveAfter, Known, Alive
<1>6. ASSUME NEW p \in Requests PROVE LoadedOk(p)'
  <2> SUFFICES ASSUME Loaded(request'[p]) PROVE LoadedOk(p)'
    BY DEF LoadedOk
  <2> DEFINE c == request[p].mine.oauth
  <2>1. request'[p].mine = request[p].mine /\ Loaded(request[p]) /\ (p # r => request'[p] = request[p])
    BY <1>1, <1>2 DEF Loaded
  <2>2. c \in Bundle /\ Known(c) /\ (Alive(c.grant) => c.generation <= live[c.grant])
    BY <2>1, SignIns DEF SignInInv, LoadedOk
  <2>3. KnownAfter(c) /\ (AliveAfter(c.grant) => /\ c.generation <= live'[c.grant]
                                                 /\ request'[p].at = "denied" => c.generation < live'[c.grant])
    <3>1. KnownAfter(c)
      BY <1>4, <2>2
    <3>2. ASSUME AliveAfter(c.grant), c.grant = b.grant
          PROVE  c.generation < live'[c.grant]
      BY <1>2, <1>3, <1>4, <2>2, <3>2, SignIns
    <3>3. ASSUME AliveAfter(c.grant), c.grant # b.grant
          PROVE  /\ c.generation <= live'[c.grant]
                 /\ request'[p].at = "denied" => c.generation < live'[c.grant]
      <4>1. Alive(c.grant) /\ live'[c.grant] = live[c.grant] /\ p # r
        BY <1>4, <2>2, <3>3
      <4>2. QED
        BY <2>1, <2>2, <4>1 DEF SignInInv, LoadedOk
    <3>4. c.grant \in 1 .. MaxGrants /\ c.generation \in Nat
      BY <2>2, SignIns
    <3>5. QED
      BY <1>2, <1>3, <3>1, <3>2, <3>3, <3>4
  <2>4. request'[p].mine.oauth = c
    BY <2>1
  <2> HIDE DEF c
  <2>5. QED
    BY <2>3, <2>4 DEF LoadedOk, Known, Alive, KnownAfter, AliveAfter
\* No other request has a renewal of this sign-in in hand.
<1>7. ASSUME NEW p \in Requests \ {r}, Alive(b.grant), Loaded(request[p]), request[p].mine.oauth.grant = b.grant
      PROVE  request[p].mine.oauth.generation <= b.generation /\ request[p].at # "renewed"
  <2>1. request[p].mine.oauth \in Bundle /\ request[p].mine.oauth.generation <= b.generation
    BY <1>2, <1>7, SignIns DEF SignInInv, LoadedOk
  <2>2. SUFFICES ASSUME request[p].at = "renewed" PROVE FALSE
    BY <2>1
  <2>3. RenewedOk(p)
    BY DEF SignInInv
  <2>4. request[p].mine.oauth.generation + 1 = b.generation
    BY <1>2, <1>7, <2>2, <2>3 DEF RenewedOk
  <2>5. b.generation <= request[p].mine.oauth.generation
    BY <1>2, <1>7, <2>2, <2>3 DEF RenewedOk
  <2>6. QED
    BY <1>2, <2>1, <2>4, <2>5, SignIns
<1>8. AliveAfter(b.grant) => Alive(b.grant)
  BY <1>2, <1>4, SignIns DEF SignInInv, LoadedOk
<1>9. ASSUME NEW p \in Requests PROVE RenewedOk(p)'
  <2>1. CASE p = r
    <3>1. Alive(b.grant) /\ row.oauth # None /\ row.oauth.grant = b.grant => row.oauth.generation <= b.generation
      BY <1>2 DEF SignInInv, RowInv
    <3>2. b.generation + 1 = live'[b.grant]
      BY <1>2, <1>3, SignIns
    <3> HIDE DEF b
    <3>3. request'[p].mine.oauth = b
      BY <1>1, <2>1 DEF b
    <3>4. QED
      BY <1>1, <1>7, <1>8, <2>1, <3>1, <3>2, <3>3 DEF RenewedOk, Loaded, Alive, AliveAfter
  <2>2. CASE p # r
    <3> SUFFICES ASSUME request[p].at = "renewed", AliveAfter(request[p].mine.oauth.grant)
                 PROVE  RenewedOk(p)'
      BY <1>1, <2>2 DEF RenewedOk, Alive, AliveAfter
    <3> DEFINE c == request[p].mine.oauth
    <3>1. c \in Bundle /\ Known(c) /\ Loaded(request[p]) /\ RenewedOk(p)
      BY SignIns DEF SignInInv, LoadedOk
    <3>2. Alive(c.grant) /\ c.grant # b.grant
      BY <1>4, <1>7, <1>8, <2>2, <3>1
    <3>3. live'[c.grant] = live[c.grant]
      BY <1>4, <3>1, <3>2
    <3>4. request'[p] = request[p]
      BY <1>1, <2>2
    <3>5. QED
      BY <1>1, <3>1, <3>2, <3>3, <3>4 DEF RenewedOk, Loaded
  <2>3. QED
    BY <2>1, <2>2
<1>10. ASSUME NEW p \in Requests PROVE FreshOk(p)'
  <2> SUFFICES ASSUME Fresh(request'[p]) PROVE FreshOk(p)'
    BY DEF FreshOk
  <2> DEFINE c == request[p].new.oauth
  <2>1. /\ p # r /\ request'[p] = request[p] /\ Fresh(request[p]) /\ c \in Bundle /\ FreshOk(p)
        /\ ~Fresh(request'[r])
    BY <1>1, SignIns DEF SignInInv, Fresh
  <2>2. Known(c) /\ KnownAfter(c)
    BY <1>4, <2>1 DEF FreshOk
  <2>3. AliveAfter(c.grant) => Alive(c.grant) /\ c.grant # b.grant /\ live'[c.grant] = live[c.grant]
    BY <1>2, <1>4, <2>1, <2>2 DEF FreshOk
  <2>4. QED
    BY <1>1, <1>2, <2>1, <2>2, <2>3 DEF FreshOk, Loaded, KnownAfter, AliveAfter, Known, Alive
<1>11. QED
  BY <1>5, <1>6, <1>9, <1>10 DEF SignInInv
\* What a request that goes on or ends does not disturb.
LEMMA OthersKeep ==
  ASSUME TypeInv, SignInInv, Lasts, NEW r \in Requests,
         \A q \in Requests \ {r} : request'[q] = request[q],
         \/ request'[r].at = "idle"
         \/ request'[r].at = "denied" /\ Loaded(request[r]) /\ request'[r].mine = request[r].mine
  PROVE  /\ \A p \in Requests \ {r} : LoadedOk(p)'
         /\ (row'.oauth \in {None, row.oauth}) =>
              \A p \in Requests : RenewedOk(p)' /\ FreshOk(p)'
<1>1. ASSUME NEW p \in Requests \ {r} PROVE LoadedOk(p)'
  BY <1>1, SignIns DEF Lasts, SignInInv, LoadedOk, Loaded, KnownAfter, AliveAfter, Known, Alive
<1>2. \A q \in Requests : Loaded(request'[q]) =>
        Loaded(request[q]) /\ request'[q].mine = request[q].mine
        /\ (request'[q].at = "renewed" => request[q].at = "renewed")
  BY DEF Loaded
<1>3. ASSUME row'.oauth \in {None, row.oauth}, NEW p \in Requests PROVE RenewedOk(p)'
  <2> SUFFICES ASSUME request'[p].at = "renewed", AliveAfter(request'[p].mine.oauth.grant)
               PROVE  RenewedOk(p)'
    BY DEF RenewedOk, Alive, AliveAfter
  <2> DEFINE b == request[p].mine.oauth
  <2>1. p # r /\ request'[p] = request[p]
    OBVIOUS
  <2>2. b \in Bundle /\ Known(b) /\ RenewedOk(p)
    BY <2>1, SignIns DEF SignInInv, LoadedOk
  <2>3. Alive(b.grant) /\ live'[b.grant] = live[b.grant]
    BY <2>1, <2>2 DEF Lasts
  <2>4. QED
    BY <1>2, <1>3, <2>1, <2>2, <2>3 DEF RenewedOk
<1>4. ASSUME row'.oauth \in {None, row.oauth}, NEW p \in Requests PROVE FreshOk(p)'
  <2> SUFFICES ASSUME Fresh(request'[p]) PROVE FreshOk(p)'
    BY DEF FreshOk
  <2> DEFINE b == request[p].new.oauth
  <2>1. p # r /\ request'[p] = request[p] /\ ~Fresh(request'[r])
    BY DEF Fresh
  <2>2. b \in Bundle /\ Known(b) /\ FreshOk(p)
    BY <2>1, SignIns DEF SignInInv, FreshOk
  <2>3. KnownAfter(b) /\ (AliveAfter(b.grant) => Alive(b.grant) /\ live'[b.grant] = live[b.grant])
    BY <2>2 DEF Lasts
  <2>4. QED
    BY <1>2, <1>4, <2>1, <2>2, <2>3 DEF FreshOk, Known, Alive, KnownAfter, AliveAfter
<1>5. QED
  BY <1>1, <1>3, <1>4

\* A refusal: what was refused is spent, or the sign-in is lost.
LEMMA DenialKeeps ==
  ASSUME TypeInv, SignInInv, NEW r \in Requests, Rotate(r) \/ ServerError(r), Denies(r)
  PROVE  SignInInv'
<1> DEFINE b == request[r].mine.oauth
<1>1. /\ request[r].at = "refreshing" /\ request'[r].at = "denied" /\ request'[r].mine = request[r].mine
      /\ \A q \in Requests \ {r} : request'[q] = request[q]
      /\ UNCHANGED <<row, live, expired>> /\ lost \subseteq lost'
      /\ live[b.grant] # b.generation \/ b.grant \in lost'
  BY AnswerSteps DEF Denies, Rotate, ServerError
<1>2. b \in Bundle /\ Loaded(request[r]) /\ b.generation \in Nat
  BY <1>1, SignIns
<1>3. Lasts
  BY <1>1 DEF Lasts, KnownAfter, AliveAfter, Known, Alive
<1>4. RowInv'
  BY <1>1, SignIns DEF SignInInv, RowInv, Renewing, Known, Alive
<1>5. LoadedOk(r)'
  <2>1. Known(b) /\ (Alive(b.grant) => b.generation <= live[b.grant])
    BY <1>2 DEF SignInInv, LoadedOk
  <2>2. AliveAfter(b.grant) => b.generation < live[b.grant]
    <3>1. AliveAfter(b.grant) => b.generation <= live[b.grant] /\ b.generation # live[b.grant] /\ live[b.grant] \in Nat
      BY <1>1, <1>2, <2>1, SignIns DEF AliveAfter, Alive
    <3>2. QED
      BY <1>2, <3>1
  <2>3. request'[r].mine.oauth = b
    BY <1>1
  <2> HIDE DEF b
  <2>4. QED
    BY <1>1, <1>2, <2>1, <2>2, <2>3 DEF LoadedOk, Known, Alive, AliveAfter
<1>6. QED
  BY <1>1, <1>2, <1>3, <1>4, <1>5, OthersKeep DEF SignInInv

\* A verified sign-in is stored: nobody else has one of its tokens.
LEMMA StoringKeeps ==
  ASSUME TypeInv, SignInInv, NEW r \in Requests, Store(r)
  PROVE  SignInInv'
<1> DEFINE mine == request[r].mine
           new == request[r].new
<1>1. /\ request[r].at = "verifying" /\ request'[r].at = "idle" /\ UNCHANGED <<live, expired, lost>>
      /\ \A q \in Requests \ {r} : request'[q] = request[q]
      /\ row'.oauth = IF new.oauth = mine.oauth THEN row.oauth ELSE new.oauth
  BY SignIns, InHand, CommittedRow DEF Store, Idle, TypeInv, TypeOK
<1>2. Lasts
  BY Lasting
<1>3. LoadedOk(r)'
  BY <1>1 DEF LoadedOk, Loaded
<1>4. CASE row'.oauth \in {None, row.oauth}
  <2>1. RowInv'
    BY <1>1, <1>4 DEF SignInInv, RowInv, Renewing, Known, Alive
  <2>2. QED
    BY <1>1, <1>2, <1>3, <1>4, <2>1, OthersKeep DEF SignInInv
<1>5. CASE row'.oauth \notin {None, row.oauth}
  <2>1. Fresh(request[r]) /\ row'.oauth = new.oauth /\ new.oauth \in Bundle
    BY <1>1, <1>5, SignIns DEF Fresh
  <2>2. FreshOk(r)
    BY DEF SignInInv
  <2>3. RowInv'
    BY <1>1, <2>1, <2>2 DEF RowInv, FreshOk, Known, Alive, Bundle
  <2>4. ASSUME NEW p \in Requests PROVE RenewedOk(p)'
    <3>1. p # r /\ request[p].at = "renewed" => Loaded(request[p])
      BY SignIns
    <3>2. QED
      BY <1>1, <2>1, <2>2, <3>1 DEF SignInInv, RenewedOk, FreshOk, Loaded, Alive
  <2>5. ASSUME NEW p \in Requests PROVE FreshOk(p)'
    BY <1>1, <2>1, <2>2 DEF SignInInv, FreshOk, Fresh, Loaded, Known, Alive
  <2>6. QED
    BY <1>1, <1>2, <1>3, <2>3, <2>4, <2>5, OthersKeep DEF SignInInv
<1>6. QED
  BY <1>4, <1>5

\* A refresh ends: its new pair is stored, or the column cleared.
LEMMA FinishingKeeps ==
  ASSUME TypeInv, SignInInv, NEW r \in Requests, FinishRefresh(r)
  PROVE  SignInInv'
<1> DEFINE mine == request[r].mine
           new == request[r].new
<1>1. /\ request[r].at \in {"renewed", "denied"} /\ request'[r].at = "idle" /\ UNCHANGED <<live, expired, lost>>
      /\ \A q \in Requests \ {r} : request'[q] = request[q]
      /\ row'.oauth = IF new.oauth = mine.oauth THEN row.oauth ELSE new.oauth
  BY SignIns, InHand, CommittedRow DEF FinishRefresh, Idle, TypeInv, TypeOK
<1>2. Lasts
  BY Lasting
<1>3. LoadedOk(r)'
  BY <1>1 DEF LoadedOk, Loaded
<1>4. CASE request[r].at = "denied"
  <2>1. row'.oauth = None
    BY <1>1, <1>4, InHand, SignIns
  <2>2. RowInv'
    BY <2>1 DEF RowInv
  <2>3. QED
    BY <1>1, <1>2, <1>3, <2>1, <2>2, OthersKeep DEF SignInInv
<1>5. CASE request[r].at = "renewed"
  <2> DEFINE b == mine.oauth
  <2>1. /\ row'.oauth = new.oauth /\ new.oauth.grant = b.grant /\ new.oauth.generation = b.generation + 1
        /\ b \in Bundle /\ Loaded(request[r]) /\ b.generation \in Nat
    <3>1. Refreshed(request[r]) /\ mine \in Row
      BY <1>5 DEF TypeInv, ShapeInv, Shape
    <3>2. new.oauth = [grant |-> b.grant, generation |-> b.generation + 1]
      BY <1>5, <3>1 DEF Refreshed, Row
    <3>3. QED
      BY <1>1, <1>5, <3>2, InHand, SignIns
  <2>2. RenewedOk(r) /\ Known(b)
    BY <2>1 DEF SignInInv, LoadedOk
  <2>3. RowInv'
    BY <1>1, <1>5, <2>1, <2>2 DEF RowInv, RenewedOk, Known, Alive
  <2>4. \A q \in Requests : Loaded(request'[q]) => q # r /\ request'[q] = request[q]
    BY <1>1 DEF Loaded
  <2>5. ASSUME NEW p \in Requests PROVE RenewedOk(p)'
    <3> SUFFICES ASSUME request'[p].at = "renewed", Alive(request'[p].mine.oauth.grant)
                 PROVE  RenewedOk(p)'
      BY <1>1 DEF RenewedOk, Alive
    <3>1. p # r /\ request'[p] = request[p] /\ Loaded(request[p])
      BY <1>1, SignIns
    <3>2. request[p].mine.oauth.grant # b.grant
      BY <1>5, <2>2, <3>1 DEF RenewedOk, Loaded
    <3>3. RenewedOk(p)
      BY DEF SignInInv
    <3>4. QED
      BY <1>1, <2>1, <2>4, <3>1, <3>2, <3>3 DEF RenewedOk, Alive
  <2>6. ASSUME NEW p \in Requests PROVE FreshOk(p)'
    <3> SUFFICES ASSUME Fresh(request'[p]) PROVE FreshOk(p)'
      BY DEF FreshOk
    <3>1. p # r /\ request'[p] = request[p] /\ ~Fresh(request'[r]) /\ FreshOk(p)
      BY <1>1 DEF Fresh, SignInInv
    <3>2. Alive(request[p].new.oauth.grant) => request[p].new.oauth.grant # b.grant
      BY <2>1, <3>1 DEF FreshOk
    <3>3. QED
      BY <1>1, <2>1, <2>4, <3>1, <3>2 DEF FreshOk, Known, Alive
  <2>7. QED
    BY <1>1, <1>2, <1>3, <2>3, <2>5, <2>6, OthersKeep DEF SignInInv
<1>6. QED
  BY <1>1, <1>4, <1>5

\* A request is given up: a renewal it had in hand is lost.
LEMMA AbandonKeeps ==
  ASSUME TypeInv, SignInInv, NEW r \in Requests, Abandon(r)
  PROVE  SignInInv'
<1>1. /\ request'[r].at = "idle" /\ UNCHANGED <<row, live, expired>> /\ lost \subseteq lost'
      /\ \A q \in Requests \ {r} : request'[q] = request[q]
      /\ request[r].at = "renewed" => request[r].mine.oauth.grant \in lost'
  BY SignIns DEF Abandon, Idle
<1>2. Lasts
  BY Lasting
<1>3. LoadedOk(r)'
  BY <1>1 DEF LoadedOk, Loaded
<1>4. RowInv'
  BY <1>1 DEF SignInInv, RowInv, Renewing, Known, Alive
<1>5. QED
  BY <1>1, <1>2, <1>3, <1>4, OthersKeep DEF SignInInv

LEMMA WorldKeeps ==
  ASSUME TypeInv, SignInInv, World
  PROVE  SignInInv'
<1>1. UNCHANGED <<request, lost>> /\ row'.oauth \in {None, row.oauth}
  BY WorldSteps DEF Credential, Disconnected
<1>2. Lasts
  BY Lasting
<1>3. RowInv'
  BY <1>1, <1>2, SignIns DEF Lasts, SignInInv, RowInv, Renewing, KnownAfter, AliveAfter, Known, Alive
<1>4. ASSUME NEW p \in Requests PROVE LoadedOk(p)'
  BY <1>1, <1>2, SignIns DEF Lasts, SignInInv, LoadedOk, Loaded, KnownAfter, AliveAfter, Known, Alive
<1>5. ASSUME NEW p \in Requests PROVE RenewedOk(p)'
  BY <1>1, <1>2, SignIns
  DEF Lasts, SignInInv, LoadedOk, RenewedOk, Loaded, KnownAfter, AliveAfter, Known, Alive
<1>6. ASSUME NEW p \in Requests PROVE FreshOk(p)'
  BY <1>1, <1>2, SignIns
  DEF Lasts, SignInInv, FreshOk, Fresh, Loaded, KnownAfter, AliveAfter, Known, Alive
<1>7. QED
  BY <1>3, <1>4, <1>5, <1>6 DEF SignInInv

LEMMA SignInNext == TypeInv /\ SignInInv /\ [Next]_vars => SignInInv'
<1> SUFFICES ASSUME TypeInv, SignInInv, [Next]_vars PROVE SignInInv'
  OBVIOUS
<1>1. ASSUME NEW r \in Requests, Rotate(r) \/ ServerError(r) PROVE SignInInv'
  <2>1. Renews(r) => Rotate(r)
    BY <1>1, SignIns DEF Renews, ServerError
  <2>2. QED
    BY <1>1, <2>1, AnswerSteps, RenewalKeeps, DenialKeeps
<1>2. CASE UNCHANGED vars
  BY <1>2 DEF vars, SignInInv, RowInv, LoadedOk, RenewedOk, FreshOk, Renewing, Known, Alive
<1>3. QED
  BY <1>1, <1>2, Steps, LoadingKeeps, StoringKeeps, FinishingKeeps, AbandonKeeps, WorldKeeps
-----------------------------------------------------------------------------
CredentialsInv == TypeInv /\ CredentialInv /\ PairingInv /\ SignInInv

LEMMA InitialInvariant == Init => CredentialsInv
<1> SUFFICES ASSUME Init PROVE CredentialsInv
  OBVIOUS
<1>1. \A r \in Requests : request[r] = Idle
  BY DEF Init
<1>2. row.apiKey = None /\ row.oauth = None /\ row.pairing = None /\ row.provider = None
  BY DEF Init
<1>3. CredentialInv
  BY <1>1, <1>2 DEF CredentialInv, Sound, InFlight, Idle
<1>4. SignInInv
  BY <1>1, <1>2 DEF SignInInv, RowInv, LoadedOk, RenewedOk, FreshOk, Loaded, Fresh, Idle
<1>5. PairingInv
  <2>1. ASSUME NEW t \in 1 .. MaxPairings PROVE ClaimsInv(t)
    <3>1. Claims(t) = {}
      BY <1>1 DEF Claims, Idle
    <3>2. uses[t] = 0 /\ Cardinality({}) = 0 /\ Cardinality(Requests) \in Nat
      BY FS_EmptySet, FS_CardinalityType, CredentialAssumption DEF Init
    <3>3. QED
      BY <3>1, <3>2 DEF ClaimsInv
  <2>2. QED
    BY <1>2, <2>1 DEF PairingInv
<1>6. QED
  BY <1>3, <1>4, <1>5, TypeInit DEF CredentialsInv

LEMMA CredentialsInvariant == Spec => []CredentialsInv
<1>1. CredentialsInv /\ [Next]_vars => CredentialsInv'
  BY TypeNext, CredentialNext, PairingNext, SignInNext DEF CredentialsInv
<1>2. QED
  BY <1>1, InitialInvariant, PTL DEF Spec

\* However many requests overlap, a key and a sign-in are stored together only
\* once a commit has written over what another request put there meanwhile.
THEOREM Exclusive == Spec => []CredentialsExclusive
<1>1. CredentialsInv => CredentialsExclusive
  BY DEF CredentialsInv, CredentialInv, Sound, CredentialsExclusive
<1>2. QED
  BY <1>1, CredentialsInvariant, PTL

\* Until then, a key that is in use was verified with the provider it is used with.
THEOREM Verification == Spec => []KeyWasVerified
<1>1. CredentialsInv => KeyWasVerified
  BY DEF CredentialsInv, CredentialInv, Sound, KeyWasVerified
<1>2. QED
  BY <1>1, CredentialsInvariant, PTL

\* A pairing on which one delivery got through is burned, whatever other
\* deliveries overlap it; and no request lets two through.
THEOREM BurnedOnUse == Spec => []PairingIsBurnedOnUse
<1>1. CredentialsInv => PairingIsBurnedOnUse
  <2> SUFFICES ASSUME CredentialsInv PROVE PairingIsBurnedOnUse
    OBVIOUS
  <2>1. row.pairing # None => uses[row.pairing.token] = 0
    BY DEF CredentialsInv, PairingInv
  <2>2. ASSUME NEW t \in 1 .. MaxPairings PROVE uses[t] <= Cardinality(Requests)
    <3>1. uses[t] \in Nat /\ Cardinality(Claims(t)) \in Nat /\ Cardinality(Requests) \in Nat
      BY ClaimsAreFinite DEF CredentialsInv, TypeInv, TypeOK
    <3>2. uses[t] + Cardinality(Claims(t)) <= Cardinality(Requests)
      BY DEF CredentialsInv, PairingInv, ClaimsInv
    <3>3. QED
      BY <3>1, <3>2
  <2>3. QED
    BY <2>1, <2>2 DEF PairingIsBurnedOnUse
<1>2. QED
  BY <1>1, CredentialsInvariant, PTL

\* However many refreshes, saves and claims overlap, what is stored is the refresh
\* token OpenAI accepts, unless a refresh is about to store that one, the sign-in
\* was revoked, or an answer of OpenAI never arrived.
THEOREM Usability == Spec => []StoredSignInIsUsable
<1>1. CredentialsInv => StoredSignInIsUsable
  BY DEF CredentialsInv, SignInInv, RowInv, Alive, StoredSignInIsUsable
<1>2. QED
  BY <1>1, CredentialsInvariant, PTL

\* However many refreshes overlap, one that clears the sign-in it was refused for
\* clears what is dead, or what another is about to replace.
THEOREM Clearing == Spec => RefusalsClearTheDead
<1> DEFINE Cleared ==
      \A r \in Requests :
        request[r].at \in {"renewed", "denied"} /\ ~InFlight(r)' /\ row.oauth # None
          /\ row.oauth = request[r].mine.oauth /\ row'.oauth = None /\ row.oauth.grant \notin lost
          => \/ live[row.oauth.grant] = None
             \/ \E q \in Requests : q # r /\ Renewing(q, row.oauth.grant)
<1>1. ASSUME CredentialsInv, [Next]_vars PROVE Cleared
  <2> SUFFICES ASSUME NEW r \in Requests, request[r].at \in {"renewed", "denied"}, request'[r].at = "idle",
                      row.oauth # None, row.oauth = request[r].mine.oauth, row'.oauth = None,
                      row.oauth.grant \notin lost, live[row.oauth.grant] # None
               PROVE  \E q \in Requests : q # r /\ Renewing(q, row.oauth.grant)
    BY DEF InFlight
  <2>0. TypeInv /\ SignInInv /\ request \in [Requests -> Request]
    BY <1>1 DEF CredentialsInv, TypeInv, TypeOK
  <2>1. FinishRefresh(r)
    <3>1. ASSUME NEW q \in Requests \ {r},
                 \/ Saves(q) \/ Store(q) \/ StartRefresh(q) \/ Rotate(q) \/ ServerError(q)
                 \/ FinishRefresh(q) \/ Abandon(q)
          PROVE  request'[r] = request[r]
      <4>1. CASE Saves(q)
        BY <2>0, <4>1, SaveSteps
      <4>2. CASE Rotate(q) \/ ServerError(q)
        BY <2>0, <4>2, AnswerSteps
      <4>3. CASE Store(q) \/ StartRefresh(q) \/ FinishRefresh(q) \/ Abandon(q)
        BY <2>0, <4>3 DEF Store, StartRefresh, FinishRefresh, Abandon
      <4>4. QED
        BY <3>1, <4>1, <4>2, <4>3
    <3>2. ~Saves(r) /\ ~Store(r) /\ ~StartRefresh(r) /\ ~Rotate(r) /\ ~ServerError(r)
      BY <2>0, SaveSteps DEF Store, StartRefresh, Rotate, ServerError
    <3>3. ~Abandon(r) /\ ~World /\ ~UNCHANGED vars
      BY <2>0, WorldSteps DEF Abandon, vars
    <3>4. QED
      BY <1>1, <2>0, <3>1, <3>2, <3>3, Steps
  <2>2. request[r].at = "denied"
    <3>1. request[r].mine \in Row /\ request[r].new \in Row /\ row' = Committed(request[r].mine, request[r].new)
      BY <2>0, <2>1, InHand DEF FinishRefresh
    <3>2. row'.oauth = IF request[r].new.oauth = request[r].mine.oauth THEN row.oauth ELSE request[r].new.oauth
      BY <2>0, <3>1, CommittedRow DEF TypeInv, TypeOK
    <3>3. request[r].at = "renewed" => request[r].new.oauth \in Bundle
      BY <2>0, InHand
    <3>4. QED
      BY <2>0, <3>2, <3>3, SignIns
  <2>3. row.oauth \in Bundle /\ row.oauth.generation < live[row.oauth.grant]
    BY <2>0, <2>2, SignIns DEF SignInInv, LoadedOk, Loaded, Alive
  <2>4. row.oauth.generation # live[row.oauth.grant]
    <3>1. row.oauth.generation \in Nat
      BY <2>0, <2>3, SignIns
    <3>2. ASSUME NEW n \in Nat PROVE ~(n < n)
      OBVIOUS
    <3>3. QED
      BY <2>3, <3>1, <3>2
  <2>5. PICK q \in Requests : Renewing(q, row.oauth.grant)
    BY <2>0, <2>4 DEF SignInInv, RowInv, Alive
  <2>6. QED
    BY <2>2, <2>5 DEF Renewing
<1> HIDE DEF Cleared
<1>2. Spec => [][Cleared]_vars
  BY <1>1, CredentialsInvariant, PTL DEF Spec
<1>3. QED
  BY <1>2 DEF Cleared, RefusalsClearTheDead
-----------------------------------------------------------------------------
=============================================================================
