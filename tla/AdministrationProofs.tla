------------------------ MODULE AdministrationProofs ------------------------
(***************************************************************************)
(* What an administrator may do, to the accounts and to the deployment.     *)
(* For any number of accounts, addresses and overlapping requests: the      *)
(* rules of Accounts keep an administrator, and keep everybody else out     *)
(* until an administrator lets them in.  For any number of workers, commits *)
(* and overlapping updates: none leaves a broken deployment unreported.     *)
(***************************************************************************)
EXTENDS Accounts, SelfUpdate, WellFoundedInduction, TLAPS

\* Who makes a request is an administrator for as long as it takes, and only
\* makes changes that leave them one.
AdminInv ==
  \A r \in Requests :
    request[r].at # "idle" =>
      /\ crossed \/ Administers(user[request[r].admin])
      /\ request[r].at = "loaded" =>
           \/ request[r].target # request[r].admin
           \/ request[r].operation = "is_premium"

\* The row a request has read is the row it is going to write.
SameRowInv ==
  recycled \/ \A r \in Requests :
    request[r].at = "loaded" /\ Exists(request[r].target) =>
      user[request[r].target].email = request[r].email

Inv == AccountsTypeOK /\ AdminInv /\ SameRowInv /\ SomebodyAdministers /\ OnlyTheVouchedGetIn

USE AccountAssumption DEF Ids, Flags, Operations

-----------------------------------------------------------------------------
LEMMA InitInv == AccountsInit => Inv
<1> SUFFICES ASSUME AccountsInit PROVE Inv
  OBVIOUS
<1>1. PICK e \in Emails : user = [i \in Ids |-> IF i = 1 THEN Bootstrapped(e) ELSE Null]
  BY DEF AccountsInit
<1>2. Bootstrapped(e) \in Row /\ Bootstrapped(e) # Null
  <2>1. Bootstrapped(e) \in Row
    BY DEF Bootstrapped, Row
  <2>2. QED
    BY <2>1, NullAssumption
<1>3. AccountsTypeOK
  BY <1>1, <1>2 DEF AccountsInit, AccountsTypeOK, Request, NoRequest
<1>4. AdminInv /\ SameRowInv
  BY DEF AccountsInit, NoRequest, AdminInv, SameRowInv
<1>5. 1 \in Ids /\ user[1] = Bootstrapped(e)
  BY <1>1
<1>6. SomebodyAdministers
  BY <1>2, <1>5 DEF SomebodyAdministers, Exists, IsAdmin, Bootstrapped
<1>7. OnlyTheVouchedGetIn
  BY <1>1, <1>2 DEF OnlyTheVouchedGetIn, Exists, Bootstrapped
<1>8. QED
  BY <1>3, <1>4, <1>6, <1>7 DEF Inv

\* A new row, of somebody who may be vouched for or has to wait.
LEMMA InsertInv ==
  ASSUME Inv, NEW row \in Row, Insert(row),
         IsApproved(row) => row.vouched,
         \/ request' = request
         \/ \E r \in Requests : request' = [request EXCEPT ![r] = NoRequest]
  PROVE  Inv'
<1>1. PICK i \in Ids :
        /\ IsNewId(i)
        /\ user' = [user EXCEPT ![i] = row]
        /\ recycled' = (recycled \/ \E r \in Requests : About(r, i))
        /\ crossed' = crossed
  BY DEF Insert
<1>2. /\ ~Exists(i) /\ row # Null
      /\ user' \in [Ids -> Row \union {Null}]
      /\ user'[i] = row /\ \A j \in Ids : j # i => user'[j] = user[j]
  BY <1>1, NullAssumption DEF IsNewId, Inv, AccountsTypeOK
<1>3. \A r \in Requests : request'[r] = request[r] \/ request'[r] = NoRequest
  BY DEF Inv, AccountsTypeOK
<1>4. AccountsTypeOK'
  BY <1>1, <1>2, <1>3 DEF Inv, AccountsTypeOK, Request, NoRequest
<1>5. AdminInv'
  <2>1. ASSUME NEW r \in Requests, request'[r].at # "idle"
        PROVE  /\ request'[r] = request[r] /\ request[r].admin \in Ids
    BY <1>3, <2>1 DEF NoRequest, Inv, AccountsTypeOK, Request
  <2>2. \A j \in Ids : Administers(user[j]) => Administers(user'[j])
    BY <1>2 DEF Administers, Exists
  <2>3. QED
    BY <1>1, <2>1, <2>2 DEF Inv, AdminInv
<1>6. SameRowInv'
  <2> SUFFICES ASSUME ~recycled', NEW r \in Requests, request'[r].at = "loaded",
                      user'[request'[r].target] # Null
               PROVE  user'[request'[r].target].email = request'[r].email
    BY DEF SameRowInv, Exists
  <2>1. request'[r] = request[r] /\ request[r].target \in Ids /\ ~recycled
    BY <1>1, <1>3 DEF NoRequest, Inv, AccountsTypeOK, Request
  <2>2. request[r].target # i
    BY <1>1, <2>1 DEF About
  <2>3. QED
    BY <1>2, <2>1, <2>2 DEF Inv, SameRowInv, Exists
<1>7. SomebodyAdministers'
  BY <1>1, <1>2 DEF Inv, SomebodyAdministers, Exists
<1>8. OnlyTheVouchedGetIn'
  BY <1>1, <1>2 DEF Inv, OnlyTheVouchedGetIn, Exists
<1>9. QED
  BY <1>4, <1>5, <1>6, <1>7, <1>8 DEF Inv

\* Requests that come, read and go.
LEMMA RequestInv ==
  ASSUME Inv, NEW r \in Requests,
         \/ \E a \in Ids : Authorise(r, a)
         \/ \E o \in Operations, i \in Ids, value \in BOOLEAN : Load(r, o, i, value)
         \/ Leave(r)
  PROVE  Inv'
<1>1. UNCHANGED <<user, crossed, recycled>>
  BY DEF Authorise, Load, Leave
<1>2. /\ request' \in [Requests -> Request]
      /\ AdminInv' /\ SameRowInv'
  <2>1. CASE \E a \in Ids : Authorise(r, a)
    <3>1. PICK a \in Ids : Authorise(r, a)
      BY <2>1
    <3>2. user[a] \in Row
      BY <3>1 DEF Authorise, Exists, Inv, AccountsTypeOK
    <3>3. user[a].is_premium \in BOOLEAN
      BY <3>2 DEF Row
    <3>4. QED
      BY <1>1, <3>1, <3>2, <3>3 DEF Authorise, Inv, AccountsTypeOK, Request, AdminInv, SameRowInv,
        Administers, Exists
  <2>2. CASE \E o \in Operations, i \in Ids, value \in BOOLEAN : Load(r, o, i, value)
    <3>1. PICK o \in Operations, i \in Ids, value \in BOOLEAN : Load(r, o, i, value)
      BY <2>2
    <3>2. request[r] \in [at : {"admitted"}, admin : Ids, premium : BOOLEAN]
      BY <3>1 DEF Load, Inv, AccountsTypeOK, Request
    <3>3. user[i] \in Row
      BY <3>1 DEF Load, Exists, Inv, AccountsTypeOK
    <3>4. user[i].email \in Emails /\ Loaded(r, o, i) \in BOOLEAN
      BY <3>2, <3>3 DEF Row, Loaded
    <3>5. request'[r] \in Request
      BY <3>1, <3>2, <3>4 DEF Load, Request, Inv, AccountsTypeOK
    <3>6. /\ request'[r].at = "loaded" /\ request'[r].target = i /\ request'[r].email = user[i].email
          /\ request'[r].admin = request[r].admin /\ request'[r].operation = o
      BY <3>1 DEF Load, Inv, AccountsTypeOK
    <3>7. o = "is_premium" \/ i # request[r].admin
      BY <3>1 DEF Load, Allowed
    <3>8. \A q \in Requests : q # r => request'[q] = request[q]
      BY <3>1 DEF Load, Inv, AccountsTypeOK
    <3>9. request' \in [Requests -> Request]
      BY <3>1, <3>5 DEF Load, Inv, AccountsTypeOK
    <3>10. AdminInv'
      BY <1>1, <3>2, <3>6, <3>7, <3>8 DEF Inv, AdminInv, Administers
    <3>11. SameRowInv'
      BY <1>1, <3>6, <3>8 DEF Inv, SameRowInv, Exists
    <3>12. QED
      BY <3>9, <3>10, <3>11
  <2>3. CASE Leave(r)
    BY <1>1, <2>3 DEF Leave, NoRequest, Inv, AccountsTypeOK, Request, AdminInv, SameRowInv, Administers, Exists
  <2>4. QED
    BY <2>1, <2>2, <2>3
<1>3. SomebodyAdministers' /\ OnlyTheVouchedGetIn'
  BY <1>1 DEF Inv, SomebodyAdministers, OnlyTheVouchedGetIn, Exists
<1>4. QED
  BY <1>1, <1>2, <1>3 DEF Inv, AccountsTypeOK

LEMMA CommitInv ==
  ASSUME Inv, NEW r \in Requests, Commit(r)
  PROVE  Inv'
<1> DEFINE q == request[r]
           t == q.target
<1>1. /\ q \in [at : {"loaded"}, admin : Ids, target : Ids, operation : Operations,
               value : BOOLEAN, was : BOOLEAN, email : Emails]
      /\ user' = [user EXCEPT ![t] = After(q)]
      /\ request' = [request EXCEPT ![r] = NoRequest]
      /\ recycled' = recycled
  BY DEF Commit, Inv, AccountsTypeOK, Request
<1>2. /\ t \in Ids /\ q.admin \in Ids
      /\ user'[t] = After(q) /\ \A j \in Ids : j # t => user'[j] = user[j]
      /\ request'[r] = NoRequest /\ \A o \in Requests : o # r => request'[o] = request[o]
  BY <1>1 DEF Inv, AccountsTypeOK
\* What a commit does to a row that is still there.
<1>3. \/ After(q) = user[t]
      \/ After(q) = Null /\ q.operation = "delete"
      \/ /\ q.operation \in Flags /\ user[t] \in Row
         /\ After(q) \in Row
         /\ After(q) = Changed(q, user[t])
  <2>1. CASE q.operation = "delete" \/ user[t] = Null \/ q.was = q.value
    BY <2>1 DEF After
  <2>2. CASE q.operation # "delete" /\ user[t] # Null /\ q.was # q.value
    <3>1. q.operation \in Flags /\ user[t] \in Row /\ After(q) = Changed(q, user[t])
      BY <1>1, <1>2, <2>2 DEF After, Inv, AccountsTypeOK
    <3>2. Changed(q, user[t]) \in Row
      BY <1>1, <3>1 DEF Changed, Row
    <3>3. QED
      BY <3>1, <3>2
  <2>3. QED
    BY <2>1, <2>2
<1>4. After(q) # Null => After(q).email = user[t].email /\ user[t] # Null
  BY <1>1, <1>3, NullAssumption DEF Changed, Row
<1>5. AccountsTypeOK'
  <2>1. user' \in [Ids -> Row \union {Null}]
    BY <1>1, <1>2, <1>3 DEF Inv, AccountsTypeOK
  <2>2. request' \in [Requests -> Request]
    BY <1>1 DEF Inv, AccountsTypeOK, Request, NoRequest
  <2>3. crossed' \in BOOLEAN
    BY DEF Commit, Inv, AccountsTypeOK
  <2>4. QED
    BY <1>1, <2>1, <2>2, <2>3 DEF Inv, AccountsTypeOK
\* Whoever makes another request still administers, or was crossed.
<1>6. ASSUME NEW o \in Requests, o # r, request[o].at # "idle"
      PROVE  crossed' \/ Administers(user'[request[o].admin])
  <2>1. request[o].admin \in Ids
    BY <1>6 DEF Inv, AccountsTypeOK, Request
  <2>2. crossed \/ Administers(user[request[o].admin])
    BY <1>6 DEF Inv, AdminInv
  <2>3. QED
    BY <1>2, <1>6, <2>1, <2>2 DEF Commit
<1>7. AdminInv'
  <2>1. ASSUME NEW o \in Requests, request'[o].at # "idle"
        PROVE  /\ crossed' \/ Administers(user'[request'[o].admin])
               /\ request'[o].at = "loaded" =>
                    request'[o].target # request'[o].admin \/ request'[o].operation = "is_premium"
    <3>1. o # r /\ request'[o] = request[o]
      BY <1>2, <2>1 DEF NoRequest
    <3>2. QED
      BY <1>6, <2>1, <3>1 DEF Inv, AdminInv
  <2>2. QED
    BY <2>1 DEF AdminInv, Administers
<1>8. SameRowInv'
  <2> SUFFICES ASSUME ~recycled, NEW o \in Requests, request'[o].at = "loaded",
                      user'[request'[o].target] # Null
               PROVE  user'[request'[o].target].email = request'[o].email
    BY <1>1 DEF SameRowInv, Exists
  <2>1. o # r /\ request'[o] = request[o] /\ request[o].target \in Ids
    BY <1>2 DEF NoRequest, Inv, AccountsTypeOK, Request
  <2>2. user[request[o].target] # Null
        /\ user'[request[o].target].email = user[request[o].target].email
    BY <1>2, <1>4, <2>1
  <2>3. QED
    BY <2>1, <2>2 DEF Inv, SameRowInv, Exists
\* The maker of this request is who remains, if nobody else does.
<1>9. SomebodyAdministers'
  <2>1. CASE crossed'
    BY <2>1 DEF SomebodyAdministers
  <2>2. CASE ~crossed'
    <3>1. Administers(user[q.admin])
      BY <2>2, <1>1 DEF Commit, Inv, AdminInv
    <3>2. CASE t # q.admin
      BY <1>2, <3>1, <3>2 DEF SomebodyAdministers, Administers, Exists
    <3>3. CASE t = q.admin
      <4>1. q.operation = "is_premium"
        BY <1>1, <3>3 DEF Inv, AdminInv
      <4>2. Administers(After(q))
        <5>1. CASE After(q) = user[t]
          BY <3>1, <3>3, <5>1
        <5>2. CASE After(q) = Changed(q, user[t]) /\ After(q) \in Row /\ user[t] \in Row
          BY <3>1, <3>3, <4>1, <5>2, NullAssumption
            DEF Changed, Administers, IsAdmin, IsListed, Row
        <5>3. QED
          BY <1>3, <4>1, <5>1, <5>2
      <4>3. QED
        BY <1>2, <4>2 DEF SomebodyAdministers, Administers, Exists
    <3>4. QED
      BY <3>2, <3>3
  <2>3. QED
    BY <2>1, <2>2
<1>10. OnlyTheVouchedGetIn'
  <2> SUFFICES ASSUME ~recycled, NEW i \in Ids, user'[i] # Null, IsApproved(user'[i])
               PROVE  user'[i].vouched
    BY <1>1 DEF OnlyTheVouchedGetIn, Exists
  <2>1. CASE user'[i] = user[i]
    BY <2>1 DEF Inv, OnlyTheVouchedGetIn, Exists
  <2>2. CASE user'[i] # user[i]
    <3>1. /\ i = t /\ user[t] \in Row /\ q.operation \in Flags
          /\ user'[i] = Changed(q, user[t])
      BY <1>2, <1>3, <2>2
    <3>2. user[t] # Null /\ q.email = user[t].email
      BY <1>1, <3>1, NullAssumption DEF Inv, SameRowInv, Exists
    <3>3. user[t].vouched \in BOOLEAN /\ (IsApproved(user[t]) => user[t].vouched)
      BY <1>2, <3>1, <3>2 DEF Inv, OnlyTheVouchedGetIn, Exists, Row
    <3>4. CASE q.value /\ q.operation # "is_premium"
      BY <3>1, <3>2, <3>4 DEF Changed, Row
    <3>5. CASE ~(q.value /\ q.operation # "is_premium")
      <4>1. IsApproved(Changed(q, user[t])) => IsApproved(user[t])
        BY <1>1, <3>1, <3>5 DEF Changed, IsApproved, IsAdmin, IsListed, Row
      <4>2. Changed(q, user[t]).vouched = user[t].vouched
        BY <3>1, <3>3, <3>5 DEF Changed, Row
      <4>3. QED
        BY <3>1, <3>3, <4>1, <4>2
    <3>6. QED
      BY <3>4, <3>5
  <2>3. QED
    BY <2>1, <2>2
<1>11. QED
  BY <1>5, <1>7, <1>8, <1>9, <1>10 DEF Inv

LEMMA InvHolds == AccountsSpec => []Inv
<1>1. AccountsInit => Inv
  BY InitInv
<1>2. Inv /\ [AccountsNext]_accountVars => Inv'
  <2> SUFFICES ASSUME Inv, [AccountsNext]_accountVars PROVE Inv'
    OBVIOUS
  <2>1. CASE \E e \in Emails : Register(e)
    <3>1. PICK e \in Emails : Register(e)
      BY <2>1
    <3>2. Pending(e) \in Row /\ ~IsApproved(Pending(e))
      BY <3>1 DEF Register, Pending, Row, IsApproved, IsAdmin, IsListed
    <3>3. QED
      BY <3>1, <3>2, InsertInv DEF Register
  <2>2. CASE \E e \in Emails : Bootstrap(e)
    <3>1. PICK e \in Emails : Bootstrap(e)
      BY <2>2
    <3>2. Bootstrapped(e) \in Row /\ Bootstrapped(e).vouched
      BY DEF Bootstrapped, Row
    <3>3. QED
      BY <3>1, <3>2, InsertInv DEF Bootstrap
  <2>3. CASE \E r \in Requests, e \in Emails : CreateUser(r, e)
    <3>1. PICK r \in Requests, e \in Emails : CreateUser(r, e)
      BY <2>3
    <3>2. [Pending(e) EXCEPT !.approved = TRUE, !.vouched = TRUE] \in Row
      BY DEF Pending, Row
    <3>3. [Pending(e) EXCEPT !.approved = TRUE, !.vouched = TRUE].vouched
      BY DEF Pending
    <3>4. QED
      BY <3>1, <3>2, <3>3, InsertInv DEF CreateUser
  <2>4. ASSUME NEW r \in Requests,
               \/ \E a \in Ids : Authorise(r, a)
               \/ \E o \in Operations, i \in Ids, value \in BOOLEAN : Load(r, o, i, value)
               \/ Leave(r)
        PROVE  Inv'
    BY <2>4, RequestInv
  <2>5. ASSUME NEW r \in Requests, Commit(r) PROVE Inv'
    BY <2>5, CommitInv
  <2>6. CASE UNCHANGED accountVars
    BY <2>6 DEF accountVars, Inv, AccountsTypeOK, AdminInv, SameRowInv, SomebodyAdministers, OnlyTheVouchedGetIn,
      Exists, Administers
  <2>7. QED
    BY <2>1, <2>2, <2>3, <2>4, <2>5, <2>6 DEF AccountsNext
<1>3. QED
  BY <1>1, <1>2, PTL DEF AccountsSpec

-----------------------------------------------------------------------------
\* The table and the requests stay within their types for any number of accounts.
THEOREM TypeCorrect == AccountsSpec => []AccountsTypeOK
<1>1. Inv => AccountsTypeOK
  BY DEF Inv
<1>2. QED
  BY <1>1, InvHolds, PTL

\* For any number of accounts and of administrators at work at once: somebody
\* administers, unless an administrator was demoted during a request of theirs.
THEOREM Administered == AccountsSpec => []SomebodyAdministers
<1>1. Inv => SomebodyAdministers
  BY DEF Inv
<1>2. QED
  BY <1>1, InvHolds, PTL

\* For any number of accounts and requests: who gets in was let in, unless a row id
\* changed hands in the middle of a request.
THEOREM Admission == AccountsSpec => []OnlyTheVouchedGetIn
<1>1. Inv => OnlyTheVouchedGetIn
  BY DEF Inv
<1>2. QED
  BY <1>1, InvHolds, PTL
-----------------------------------------------------------------------------
USE UpdateAssumption

\* What a step of an update works with.
Equipped(q) ==
  /\ q.at = "pip" => q.wanted \in Commits
  /\ q.at = "pulling" => q.before \in Commits /\ q.before <= checkout

\* An update beside which nothing else ran has the frontend of its own build.
AloneInv ==
  ~overlapped =>
    /\ \A p, q \in Updates : InProgress(p) /\ InProgress(q) => p = q
    /\ \A p \in Updates : update[p].at = "preflight" => dist = checkout

\* Whatever was pulled since is imported, and built, before anybody is told.
CheckedInv == mishap \/ (\E p \in Updates : Unchecked(p)) \/ Starts
BuiltInv ==
  mishap \/ (\E p \in Updates : update[p].at \in {"pulled", "pip", "build"}) \/ dist = checkout

AppInv ==
  /\ TypeOK
  /\ checkout <= upstream
  /\ \A p \in Updates : Equipped(update[p])
  /\ AloneInv /\ CheckedInv /\ BuiltInv

\* The least of some natural numbers, and so the greatest below a bound.
LEMMA LeastNumber ==
  ASSUME NEW T, T \subseteq Nat, T # {}
  PROVE  \E m \in T : \A n \in T : m <= n
<1>1. IsWellFoundedOn(OpToRel(<, Nat), Nat)
  BY NatLessThanWellFounded
<1>2. PICK m \in T : \A n \in T : ~(<<n, m>> \in OpToRel(<, Nat))
  BY <1>1, WFMin
<1>3. \A n \in T : ~(n < m)
  BY <1>2 DEF OpToRel
<1>4. QED
  BY <1>3

LEMMA NewestRequirements ==
  ASSUME NEW c \in Commits
  PROVE  Requirements(c) \in Commits
<1> DEFINE S == {d \in NewDeps : d <= c} \union {0}
           T == {c - d : d \in S}
<1>1. c \in Nat /\ c <= MaxCommit /\ \A d \in S : d \in Nat /\ d <= c
  BY DEF Commits
<1>2. T \subseteq Nat /\ c - 0 \in T
  BY <1>1
<1> HIDE DEF T
<1>3. PICK m \in T : \A n \in T : m <= n
  BY <1>2, LeastNumber
<1> USE DEF T
<1> HIDE DEF S
<1>4. PICK d \in S : m = c - d
  OBVIOUS
<1>5. \A e \in S : e <= d
  <2>1. ASSUME NEW e \in S PROVE e <= d
    <3>1. c - d <= c - e
      BY <1>3, <1>4
    <3>2. QED
      BY <1>1, <3>1
  <2>2. QED
    BY <2>1
<1>6. Requirements(c) = CHOOSE x \in S : \A e \in S : e <= x
  BY DEF Requirements, S
<1>7. Requirements(c) \in S
  BY <1>5, <1>6
<1>8. QED
  BY <1>1, <1>7 DEF Commits

LEMMA AppTypes ==
  ASSUME AppInv
  PROVE  /\ upstream \in Nat /\ checkout \in Nat /\ upstream \in Commits /\ checkout \in Commits
         /\ checkout <= upstream
         /\ venv \in Commits \union {Torn} /\ dist \in Commits \union {Torn}
         /\ update \in [Updates -> Update] /\ crashes \in 0 .. MaxCrashes
         /\ running \in [Workers -> Commits \union {Down}]
         /\ overlapped \in BOOLEAN /\ mishap \in BOOLEAN
         /\ Idle \in Update
  BY DEF AppInv, TypeOK, Commits, Idle, Update, Maybe

\* A step of an update in progress: its record becomes q.
LEMMA StepInv ==
  ASSUME AppInv, NEW p \in Updates, NEW q \in Update, InProgress(p),
         update' = [update EXCEPT ![p] = q],
         q.at = "pip" => q.wanted \in Commits, q.at # "pulling",
         checkout' \in {checkout, upstream}, venv' \in Commits \union {Torn},
         dist' \in Commits \union {Torn}, mishap' \in BOOLEAN,
         q.at = "preflight" => dist' = checkout',
         CheckedInv', BuiltInv', UNCHANGED <<upstream, running, crashes, overlapped>>
  PROVE  AppInv'
<1>0. /\ update' \in [Updates -> Update] /\ update'[p] = q
      /\ \A o \in Updates \ {p} : update'[o] = update[o]
  BY AppTypes
<1>1. TypeOK' /\ checkout' <= upstream'
  BY <1>0, AppTypes DEF TypeOK, Commits, Update, Maybe
<1>2. ASSUME NEW o \in Updates PROVE Equipped(update[o])'
  <2>1. CASE o = p
    BY <1>0, <2>1 DEF Equipped, Commits
  <2>2. CASE o # p
    <3>1. Equipped(update[o]) /\ update'[o] = update[o] /\ checkout <= checkout' /\ checkout' \in Nat
      BY <1>0, <2>2, AppTypes DEF AppInv
    <3>2. update[o].at = "pulling" => update[o].before \in Nat
      BY <3>1 DEF Equipped, Commits
    <3>3. QED
      BY <3>1, <3>2, AppTypes DEF Equipped, Commits
  <2>3. QED
    BY <2>1, <2>2
<1>3. AloneInv'
  <2> SUFFICES ASSUME ~overlapped PROVE AloneInv'
    BY DEF AloneInv
  <2>1. \A o \in Updates \ {p} : ~InProgress(o) /\ update'[o].at = "idle"
    BY <1>0 DEF AppInv, AloneInv, InProgress
  <2>2. QED
    BY <1>0, <2>1 DEF AloneInv, InProgress
<1>4. QED
  BY <1>1, <1>2, <1>3 DEF AppInv

\* What the end of a process may leave, with the updates it served.
LEMMA EndsInv ==
  ASSUME AppInv, NEW w, Ends(w), crashes' \in 0 .. MaxCrashes
  PROVE  AppInv'
<1> DEFINE served == {p \in Updates : update[p].worker = w /\ InProgress(p) /\ update[p].at # "exiting"}
<1>0. \A p \in Updates : update'[p] = IF update[p].worker = w THEN Idle ELSE update[p]
  BY DEF Ends
<1>1. /\ running' \in [Workers -> Commits \union {Down}] /\ upstream' = upstream
      /\ venv' \in Commits \union {Torn} /\ dist' \in Commits \union {Torn}
      /\ checkout' \in {checkout, upstream} /\ overlapped' = overlapped
  <2>1. \A p \in Updates : update[p].at = "pip" => update[p].wanted \in Commits
    BY DEF AppInv, Equipped
  <2>2. \A p \in Updates : update[p].at = "pip" =>
          {update[p].wanted} \union PipDamage(update[p].wanted) \subseteq Commits \union {Torn}
    BY <2>1, AppTypes DEF PipDamage
  <2>3. venv' \in {venv} \union UNION {{update[p].wanted} \union PipDamage(update[p].wanted) :
                                 p \in {o \in Updates : update[o].worker = w /\ update[o].at = "pip"}}
    BY DEF Ends
  <2>4. venv' \in Commits \union {Torn}
    BY <2>2, <2>3, AppTypes
  <2>5. dist' \in {dist, checkout, Torn} /\ checkout' \in {checkout, upstream}
        /\ upstream' = upstream /\ overlapped' = overlapped /\ running' = [running EXCEPT ![w] = Down]
    BY DEF Ends
  <2>6. running' \in [Workers -> Commits \union {Down}]
    BY <2>5, AppTypes
  <2>7. QED
    BY <2>4, <2>5, <2>6, AppTypes
<1>2. update' \in [Updates -> Update]
  <2>1. update' = [p \in Updates |-> update'[p]]
    BY DEF Ends
  <2>2. \A p \in Updates : update'[p] \in Update
    BY <1>0, AppTypes
  <2>3. QED
    BY <2>1, <2>2
<1>3. TypeOK' /\ checkout' <= upstream'
  <2>1. mishap' \in BOOLEAN
    BY AppTypes DEF Ends
  <2>2. QED
    BY <1>1, <1>2, <2>1, AppTypes DEF TypeOK, Commits, Update, Maybe
<1>4. ASSUME NEW p \in Updates PROVE Equipped(update[p])'
  <2>1. Equipped(update[p]) /\ checkout <= checkout' /\ checkout' \in Nat
    BY <1>1, AppTypes DEF AppInv
  <2>2. update[p].at = "pulling" => update[p].before \in Nat
    BY <2>1 DEF Equipped, Commits
  <2>3. update'[p] \in {Idle, update[p]} /\ Idle.at = "idle"
    BY <1>0 DEF Idle
  <2>4. QED
    BY <2>1, <2>2, <2>3, AppTypes DEF Equipped, Commits
<1>5. CASE served # {}
  <2>1. mishap'
    BY <1>5 DEF Ends, InProgress
  <2>2. AloneInv'
    <3> SUFFICES ASSUME ~overlapped PROVE AloneInv'
      BY <1>1 DEF AloneInv
    <3>1. \A p \in Updates : update'[p].at = "idle"
      BY <1>0, <1>5 DEF AppInv, AloneInv, InProgress, Idle
    <3>2. QED
      BY <3>1 DEF AloneInv, InProgress
  <2>3. QED
    BY <1>3, <1>4, <2>1, <2>2 DEF AppInv, CheckedInv, BuiltInv
<1>6. CASE served = {}
  <2>1. \A p \in Updates : update[p].worker = w => update[p].at \in {"idle", "exiting"}
    BY <1>6 DEF InProgress
  <2>2. venv' = venv /\ dist' = dist /\ checkout' = checkout
    BY <2>1 DEF Ends
  <2>3. \A p \in Updates : Unchecked(p) => update'[p] = update[p]
    BY <1>0, <2>1 DEF Unchecked
  <2>4. mishap' = mishap
    BY <1>6, AppTypes DEF Ends, InProgress
  <2>5. CheckedInv'
    BY <2>2, <2>3, <2>4 DEF AppInv, CheckedInv, Unchecked, Starts, Requirements
  <2>6. BuiltInv'
    BY <2>2, <2>3, <2>4 DEF AppInv, BuiltInv, Unchecked
  <2>7. AloneInv'
    BY <1>0, <1>1, <2>2 DEF AppInv, AloneInv, InProgress, Idle
  <2>8. QED
    BY <1>3, <1>4, <2>5, <2>6, <2>7 DEF AppInv
<1>7. QED
  BY <1>5, <1>6

\* The commands of an update, and what each leaves to be checked.
LEMMA ProgressInv ==
  ASSUME AppInv, NEW p \in Updates, Progress(p)
  PROVE  AppInv'
<1> USE DEF InProgress
<1>0. /\ Idle.at = "idle" /\ update[p] \in Update
      /\ \A o \in Updates : Equipped(update[o])
  BY AppTypes DEF AppInv, Idle
<1>1. CASE PullFails(p)
  <2>1. \A o \in Updates : Unchecked(o) => update'[o] = update[o]
    BY <1>1, AppTypes DEF PullFails, Unchecked
  <2>2. CheckedInv' /\ BuiltInv'
    BY <1>1, <2>1 DEF AppInv, PullFails, CheckedInv, BuiltInv, Unchecked, Starts, Requirements
  <2>3. QED
    BY <1>0, <1>1, <2>2, AppTypes, StepInv DEF PullFails
<1>2. CASE PullUnnoticed(p)
  <2>1. CheckedInv' /\ BuiltInv'
    BY <1>2 DEF PullUnnoticed, CheckedInv, BuiltInv
  <2>2. QED
    BY <1>0, <1>2, <2>1, AppTypes, StepInv DEF PullUnnoticed
<1>3. CASE Pull(p) /\ update[p].before = upstream
  <2>1. checkout' = checkout /\ update' = [update EXCEPT ![p] = Idle]
    BY <1>0, <1>3, AppTypes DEF Pull, Equipped
  <2>2. \A o \in Updates : Unchecked(o) => update'[o] = update[o]
    BY <1>3, <2>1, AppTypes DEF Pull, Unchecked
  <2>3. CheckedInv' /\ BuiltInv'
    BY <1>3, <2>1, <2>2 DEF AppInv, Pull, CheckedInv, BuiltInv, Unchecked, Starts, Requirements
  <2>4. QED
    BY <1>0, <1>3, <2>1, <2>3, AppTypes, StepInv DEF Pull
<1>4. CASE Pull(p) /\ update[p].before # upstream
  <2> DEFINE q == [update[p] EXCEPT !.at = "pulled", !.after = upstream]
  <2>1. q \in Update /\ q.at = "pulled" /\ update' = [update EXCEPT ![p] = q]
    BY <1>0, <1>4, AppTypes DEF Pull, Update, Maybe
  <2> HIDE DEF q
  <2>2. CheckedInv' /\ BuiltInv'
    BY <2>1, AppTypes DEF CheckedInv, BuiltInv, Unchecked
  <2>3. QED
    BY <1>4, <2>1, <2>2, AppTypes, StepInv DEF Pull
<1>5. CASE StartPip(p)
  <2> DEFINE q == [update[p] EXCEPT !.at = "pip", !.wanted = Requirements(checkout)]
  <2>1. q \in Update /\ q.at = "pip" /\ q.wanted \in Commits /\ update' = [update EXCEPT ![p] = q]
    BY <1>0, <1>5, AppTypes, NewestRequirements DEF StartPip, Update, Maybe
  <2> HIDE DEF q
  <2>2. CheckedInv' /\ BuiltInv'
    BY <2>1, AppTypes DEF CheckedInv, BuiltInv, Unchecked
  <2>3. QED
    BY <1>5, <2>1, <2>2, AppTypes, StepInv DEF StartPip
<1>6. CASE EndPip(p)
  <2>1. update[p].wanted \in Commits
    BY <1>0, <1>6 DEF EndPip, Equipped
  <2>2. CASE /\ venv' = update[p].wanted /\ UNCHANGED mishap
             /\ update' = [update EXCEPT ![p].at = "build"]
    <3> DEFINE q == [update[p] EXCEPT !.at = "build"]
    <3>1. q \in Update /\ q.at = "build" /\ update' = [update EXCEPT ![p] = q]
      BY <1>0, <2>2, AppTypes DEF Update
    <3> HIDE DEF q
    <3>2. CheckedInv' /\ BuiltInv'
      BY <3>1, AppTypes DEF CheckedInv, BuiltInv, Unchecked
    <3>3. QED
      BY <1>6, <2>1, <2>2, <3>1, <3>2, AppTypes, StepInv DEF EndPip
  <2>3. CASE /\ venv' \in PipDamage(update[p].wanted) /\ mishap'
             /\ update' = [update EXCEPT ![p] = Idle]
    <3>1. venv' \in Commits \union {Torn}
      BY <2>3, AppTypes DEF PipDamage
    <3>2. CheckedInv' /\ BuiltInv'
      BY <2>3 DEF CheckedInv, BuiltInv
    <3>3. QED
      BY <1>0, <1>6, <2>3, <3>1, <3>2, AppTypes, StepInv DEF EndPip
  <2>4. QED
    BY <1>6, <2>2, <2>3 DEF EndPip
<1>7. CASE BuildFrontend(p)
  <2>1. CASE /\ dist' = checkout /\ UNCHANGED mishap
             /\ update' = [update EXCEPT ![p].at = "preflight"]
    <3> DEFINE q == [update[p] EXCEPT !.at = "preflight"]
    <3>1. q \in Update /\ q.at = "preflight" /\ update' = [update EXCEPT ![p] = q]
      BY <1>0, <2>1, AppTypes DEF Update
    <3> HIDE DEF q
    <3>2. CheckedInv' /\ BuiltInv'
      BY <1>7, <2>1, <3>1, AppTypes DEF BuildFrontend, CheckedInv, BuiltInv, Unchecked
    <3>3. QED
      BY <1>7, <2>1, <3>1, <3>2, AppTypes, StepInv DEF BuildFrontend
  <2>2. CASE /\ dist' \in {dist, Torn} /\ mishap'
             /\ update' = [update EXCEPT ![p] = Idle]
    <3>1. CheckedInv' /\ BuiltInv'
      BY <2>2 DEF CheckedInv, BuiltInv
    <3>2. QED
      BY <1>0, <1>7, <2>2, <3>1, AppTypes, StepInv DEF BuildFrontend
  <2>3. QED
    BY <1>7, <2>1, <2>2 DEF BuildFrontend
<1>8. CASE Preflight(p)
  <2>1. CASE /\ Starts /\ mishap' = (mishap /\ overlapped)
             /\ update' = [update EXCEPT ![p].at = "exiting"]
    <3> DEFINE q == [update[p] EXCEPT !.at = "exiting"]
    <3>1. q \in Update /\ q.at = "exiting" /\ update' = [update EXCEPT ![p] = q]
      BY <1>0, <2>1, AppTypes DEF Update
    <3> HIDE DEF q
    <3>2. CheckedInv'
      BY <1>8, <2>1 DEF Preflight, CheckedInv, Starts, Requirements
    <3>3. BuiltInv'
      <4>1. CASE overlapped
        <5>1. \A o \in Updates : update[o].at \in {"pulled", "pip", "build"} => update'[o] = update[o]
          BY <1>8, <3>1, AppTypes DEF Preflight
        <5>2. mishap' = mishap
          BY <2>1, <4>1, AppTypes
        <5>3. QED
          BY <1>8, <5>1, <5>2 DEF Preflight, AppInv, BuiltInv
      <4>2. CASE ~overlapped
        BY <1>8, <4>2 DEF Preflight, AppInv, AloneInv, BuiltInv
      <4>3. QED
        BY <4>1, <4>2
    <3>4. QED
      BY <1>8, <2>1, <3>1, <3>2, <3>3, AppTypes, StepInv DEF Preflight
  <2>2. CASE update' = [update EXCEPT ![p] = Idle] /\ mishap'
    <3>1. CheckedInv' /\ BuiltInv'
      BY <2>2 DEF CheckedInv, BuiltInv
    <3>2. QED
      BY <1>0, <1>8, <2>2, <3>1, AppTypes, StepInv DEF Preflight
  <2>3. QED
    BY <1>8, <2>1, <2>2 DEF Preflight
<1>9. CASE Exit(p)
  BY <1>9, AppTypes, EndsInv DEF Exit
<1>10. QED
  BY <1>1, <1>2, <1>3, <1>4, <1>5, <1>6, <1>7, <1>8, <1>9 DEF Progress

\* What is no step of an update, nor the end of a process.
LEMMA WorldInv ==
  ASSUME AppInv,
         \/ PushCommit \/ Install
         \/ \E p \in Updates, w \in Workers : PressUpdate(p, w)
         \/ \E w \in Workers : Respawn(w)
  PROVE  AppInv'
<1> USE DEF InProgress
<1>1. CASE PushCommit
  <2>1. upstream' \in Commits /\ checkout <= upstream'
    BY <1>1, AppTypes DEF PushCommit, Commits
  <2>2. TypeOK'
    BY <1>1, <2>1, AppTypes DEF PushCommit, TypeOK, Commits, Update, Maybe
  <2>3. QED
    BY <1>1, <2>1, <2>2 DEF PushCommit, AppInv, Equipped, Commits, AloneInv, CheckedInv, BuiltInv,
      Unchecked, Starts, Requirements
<1>2. CASE \E w \in Workers : Respawn(w)
  <2>1. PICK w \in Workers : Respawn(w)
    BY <1>2
  <2>2. TypeOK'
    BY <2>1, AppTypes DEF Respawn, TypeOK, Commits, Update, Maybe
  <2>3. QED
    BY <2>1, <2>2 DEF Respawn, AppInv, Equipped, Commits, AloneInv, CheckedInv, BuiltInv,
      Unchecked, Starts, Requirements
<1>3. CASE \E p \in Updates, w \in Workers : PressUpdate(p, w)
  <2>1. PICK p \in Updates, w \in Workers : PressUpdate(p, w)
    BY <1>3
  <2> DEFINE q == [Idle EXCEPT !.at = "pulling", !.worker = w, !.before = checkout]
  <2>2. q \in Update /\ q.at = "pulling" /\ q.before = checkout /\ update' = [update EXCEPT ![p] = q]
    BY <2>1, AppTypes DEF PressUpdate, Idle, Update, Maybe
  <2> HIDE DEF q
  <2>3. /\ update' \in [Updates -> Update] /\ update'[p] = q /\ update[p].at = "idle"
        /\ \A o \in Updates \ {p} : update'[o] = update[o]
        /\ UNCHANGED <<upstream, checkout, venv, dist, running, crashes, mishap>>
        /\ overlapped' = \E v \in Updates : update[v].at # "idle"
    BY <2>1, <2>2, AppTypes DEF PressUpdate
  <2>4. TypeOK'
    BY <2>3, AppTypes DEF TypeOK, Commits, Update, Maybe
  <2>5. ASSUME NEW o \in Updates PROVE Equipped(update[o])'
    BY <2>2, <2>3, AppTypes DEF AppInv, Equipped, Commits
  <2>6. AloneInv'
    BY <2>2, <2>3 DEF AloneInv
  <2>7. CheckedInv' /\ BuiltInv'
    BY <2>3 DEF AppInv, CheckedInv, BuiltInv, Unchecked, Starts, Requirements
  <2>8. QED
    BY <2>3, <2>4, <2>5, <2>6, <2>7, AppTypes DEF AppInv
<1>4. CASE Install
  <2>1. Requirements(upstream) \in Commits
    BY AppTypes, NewestRequirements
  <2>2. /\ venv' \in Commits \union {Torn} /\ dist' \in Commits \union {Torn}
        /\ running' \in [Workers -> Commits \union {Down}]
        /\ checkout' = upstream /\ upstream' = upstream /\ mishap' /\ crashes' = crashes
        /\ overlapped' = (overlapped \/ \E o \in Updates : update[o].at # "idle")
    BY <1>4, <2>1, AppTypes DEF Install, PipDamage
  <2>3. update' = update \/ update' = [o \in Updates |-> Idle]
    BY <1>4 DEF Install
  <2>4. TypeOK'
    BY <2>2, <2>3, AppTypes DEF TypeOK, Commits, Update, Maybe
  <2>5. ASSUME NEW o \in Updates PROVE Equipped(update[o])'
    <3>1. Equipped(update[o]) /\ update'[o] \in {Idle, update[o]} /\ Idle.at = "idle"
      BY <2>3 DEF AppInv, Idle
    <3>2. update[o].at = "pulling" => update[o].before \in Nat
      BY <3>1 DEF Equipped, Commits
    <3>3. QED
      BY <2>2, <3>1, <3>2, AppTypes DEF Equipped, Commits
  <2>6. AloneInv'
    <3> SUFFICES ASSUME ~overlapped' PROVE AloneInv'
      BY DEF AloneInv
    <3>1. \A o \in Updates : update[o].at = "idle"
      BY <2>2
    <3>2. \A o \in Updates : update'[o].at = "idle"
      BY <2>3, <3>1 DEF Idle
    <3>3. QED
      BY <3>2 DEF AloneInv
  <2>7. QED
    BY <2>2, <2>4, <2>5, <2>6, AppTypes DEF AppInv, CheckedInv, BuiltInv
<1>5. QED
  BY <1>1, <1>2, <1>3, <1>4

LEMMA AppInvHolds == Spec => []AppInv
<1>1. Init => AppInv
  <2> SUFFICES ASSUME Init PROVE AppInv
    OBVIOUS
  <2>1. TypeOK /\ checkout <= upstream
    <3>1. 0 \in Commits /\ 0 \in 0 .. MaxCrashes /\ 0 <= 0
      BY DEF Commits
    <3>2. Idle \in Update
      BY DEF Update, Maybe, Idle
    <3>3. QED
      BY <3>1, <3>2 DEF Init, TypeOK
  <2>2. \A p \in Updates : Equipped(update[p])
    BY DEF Init, Equipped, Idle
  <2>3. AloneInv /\ BuiltInv
    BY DEF Init, AloneInv, BuiltInv, InProgress, Idle
  <2>4. Starts
    <3>1. Requirements(0) = 0
      <4> DEFINE S == {c \in NewDeps : c <= 0} \union {0}
      <4>1. S = {0}
        <5>1. \A c \in NewDeps : ~(c <= 0)
          OBVIOUS
        <5>2. QED
          BY <5>1
      <4>2. Requirements(0) = CHOOSE c \in S : \A d \in S : d <= c
        BY DEF Requirements
      <4>3. QED
        BY <4>1, <4>2
    <3>2. 0 \notin Broken
      OBVIOUS
    <3>3. QED
      BY <3>1, <3>2 DEF Init, Starts
  <2>5. QED
    BY <2>1, <2>2, <2>3, <2>4 DEF AppInv, CheckedInv
<1>2. AppInv /\ [Next]_vars => AppInv'
  <2> SUFFICES ASSUME AppInv, [Next]_vars PROVE AppInv'
    OBVIOUS
  <2>1. ASSUME NEW w \in Workers, Crash(w) PROVE AppInv'
    <3>1. crashes' \in 0 .. MaxCrashes /\ Ends(w)
      BY <2>1, AppTypes DEF Crash
    <3>2. QED
      BY <3>1, EndsInv
  <2>2. CASE UNCHANGED vars
    BY <2>2 DEF vars, AppInv, TypeOK, Commits, Update, Maybe, Equipped, AloneInv, CheckedInv, BuiltInv,
      InProgress, Unchecked, Starts, Requirements
  <2>3. QED
    BY <2>1, <2>2, ProgressInv, WorldInv DEF Next
<1>3. QED
  BY <1>1, <1>2, PTL DEF Spec

\* For any number of workers, commits, crashes and overlapping updates: what is on
\* disk can start, with the frontend built from it, unless an update has yet to
\* check it, or a step failed or was cut off since one went through alone.
THEOREM Whole == Spec => []DeploymentIsWhole
<1>1. AppInv => DeploymentIsWhole
  BY DEF AppInv, CheckedInv, BuiltInv, Unchecked, DeploymentIsWhole
<1>2. QED
  BY <1>1, AppInvHolds, PTL

=============================================================================
