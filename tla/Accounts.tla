------------------------------ MODULE Accounts ------------------------------
(***************************************************************************)
(* The accounts of an instance: registration (app/main.py), the bootstrap   *)
(* account (app/bootstrap_admin.py), and the requests by which an           *)
(* administrator adds, removes and changes accounts, with the rules of      *)
(* app/auth.py about who administers and who may use the application.       *)
(***************************************************************************)
EXTENDS Integers

CONSTANTS
  MaxId,     \* bound: row ids of the users table
  Emails,    \* addresses, in lower case as they are stored
  Listed,    \* the addresses in ADMIN_EMAILS
  Requests,  \* threads that serve an administrator's request
  Null       \* no row; in a column, nothing

ASSUME AccountAssumption == MaxId \in Nat \ {0} /\ Listed \subseteq Emails

VARIABLES
  user,      \* the users table
  request,   \* each thread's request
  crossed,   \* history: somebody stopped being an administrator during a request of theirs
  recycled   \* history: a row id was given away again during a request about it

accountVars == <<user, request, crossed, recycled>>
-----------------------------------------------------------------------------
Ids == 1 .. MaxId
Flags == {"admin_granted", "approved", "is_premium"}
Operations == Flags \union {"delete"}

\* vouched is a history variable: an administrator or the host let this account in.
Row == [email : Emails, admin_granted : BOOLEAN, approved : BOOLEAN, is_premium : BOOLEAN,
        vouched : BOOLEAN]

ASSUME NullAssumption == Null \notin Row

Request ==
  [at : {"idle"}]
    \union [at : {"admitted"}, admin : Ids, premium : BOOLEAN]
    \union [at : {"loaded"}, admin : Ids, target : Ids, operation : Operations,
            value : BOOLEAN, was : BOOLEAN, email : Emails]

AccountsTypeOK ==
  /\ user \in [Ids -> Row \union {Null}]
  /\ request \in [Requests -> Request]
  /\ crossed \in BOOLEAN /\ recycled \in BOOLEAN

NoRequest == [at |-> "idle"]

Exists(i) == user[i] # Null

IsListed(row) == row.email \in Listed
IsAdmin(row) == IsListed(row) \/ row.admin_granted
IsApproved(row) == IsAdmin(row) \/ row.approved

\* What install.sh leaves: the account bootstrap_admin made.
Bootstrapped(e) ==
  [email |-> e, admin_granted |-> TRUE, approved |-> TRUE, is_premium |-> FALSE, vouched |-> TRUE]

AccountsInit ==
  /\ \E e \in Emails : user = [i \in Ids |-> IF i = 1 THEN Bootstrapped(e) ELSE Null]
  /\ request = [r \in Requests |-> NoRequest]
  /\ crossed = FALSE /\ recycled = FALSE
-----------------------------------------------------------------------------
\* The id SQLite gives a new row: one above the largest in use.
IsNewId(i) ==
  /\ \A j \in Ids : j >= i => ~Exists(j)
  /\ i # 1 => Exists(i - 1)

About(r, i) == request[r].at = "loaded" /\ request[r].target = i

\* The unique index on the address refuses a second account.
Insert(row) ==
  /\ \A i \in Ids : Exists(i) => user[i].email # row.email
  /\ \E i \in Ids :
       /\ IsNewId(i)
       /\ user' = [user EXCEPT ![i] = row]
       /\ recycled' = (recycled \/ \E r \in Requests : About(r, i))
  /\ UNCHANGED crossed

\* Mutant: a column without a default.
PendingNoDefault(e) ==
  [email |-> e, admin_granted |-> FALSE, approved |-> FALSE, is_premium |-> Null, vouched |-> FALSE]

Pending(e) ==
  [email |-> e, admin_granted |-> FALSE, approved |-> FALSE, is_premium |-> FALSE, vouched |-> FALSE]

\* Mutant: an address in ADMIN_EMAILS can be registered.
RegisterAny(e) == Insert(Pending(e)) /\ UNCHANGED request

\* Anyone, but not with an address that would make an administrator.
Register(e) ==
  /\ e \notin Listed
  /\ Insert(Pending(e))
  /\ UNCHANGED request

\* bootstrap_admin, run again on the host.
Bootstrap(e) == Insert(Bootstrapped(e)) /\ UNCHANGED request
-----------------------------------------------------------------------------
\* get_current_user and require_admin.
Authorise(r, a) ==
  /\ request[r].at = "idle"
  /\ Exists(a) /\ IsApproved(user[a]) /\ IsAdmin(user[a])
  /\ request' = [request EXCEPT ![r] = [at |-> "admitted", admin |-> a, premium |-> user[a].is_premium]]
  /\ UNCHANGED <<user, crossed, recycled>>

\* An account an administrator creates is approved.
CreateUser(r, e) ==
  /\ request[r].at = "admitted"
  /\ Insert([Pending(e) EXCEPT !.approved = TRUE, !.vouched = TRUE])
  /\ request' = [request EXCEPT ![r] = NoRequest]

\* Mutant: nobody is refused.
AllowedAlways(r, operation, i) == TRUE

\* Premium is the one flag of their own that administrators may change, and
\* admin access that ADMIN_EMAILS gives the one that nobody may.
Allowed(r, operation, i) ==
  /\ operation # "is_premium" => i # request[r].admin
  /\ operation = "admin_granted" => ~IsListed(user[i])

\* The value of the column that the handler has read.  Its own row it has read
\* when it was admitted.
Loaded(r, operation, i) ==
  IF operation = "delete" THEN FALSE
  ELSE IF i = request[r].admin THEN request[r].premium
  ELSE user[i][operation]

Load(r, operation, i, value) ==
  /\ request[r].at = "admitted"
  /\ Exists(i)
  /\ Allowed(r, operation, i)
  /\ operation = "delete" => value = FALSE
  /\ request' = [request EXCEPT ![r] =
       [at |-> "loaded", admin |-> request[r].admin, target |-> i, operation |-> operation,
        value |-> value, was |-> Loaded(r, operation, i), email |-> user[i].email]]
  /\ UNCHANGED <<user, crossed, recycled>>

\* The column set; an administrator who lets the account in that was read.
Changed(q, row) ==
  [row EXCEPT ![q.operation] = q.value,
              !.vouched = @ \/ (q.value /\ q.operation # "is_premium" /\ q.email = row.email)]

\* The row after the commit.  A column that has the value already is not
\* written, a row that is gone fails the update.
After(q) ==
  IF q.operation = "delete" THEN Null
  ELSE IF user[q.target] = Null \/ q.was = q.value THEN user[q.target]
  ELSE Changed(q, user[q.target])

Administers(row) == row # Null /\ IsAdmin(row)

Commit(r) ==
  /\ request[r].at = "loaded"
  /\ LET q == request[r]
     IN  /\ user' = [user EXCEPT ![q.target] = After(q)]
         /\ crossed' =
              \/ crossed
              \/ /\ Administers(user[q.target]) /\ ~Administers(After(q))
                 /\ \E o \in Requests \ {r} : request[o].at # "idle" /\ request[o].admin = q.target
  /\ request' = [request EXCEPT ![r] = NoRequest]
  /\ UNCHANGED recycled

\* Not found, refused, timed out or crashed.
Leave(r) ==
  /\ request[r].at # "idle"
  /\ request' = [request EXCEPT ![r] = NoRequest]
  /\ UNCHANGED <<user, crossed, recycled>>
-----------------------------------------------------------------------------
AccountsNext ==
  \/ \E e \in Emails : Register(e) \/ Bootstrap(e)
  \/ \E r \in Requests :
       \/ \E a \in Ids : Authorise(r, a)
       \/ \E e \in Emails : CreateUser(r, e)
       \/ \E o \in Operations, i \in Ids, value \in BOOLEAN : Load(r, o, i, value)
       \/ Commit(r) \/ Leave(r)

AccountsSpec == AccountsInit /\ [][AccountsNext]_accountVars
-----------------------------------------------------------------------------
\* User.approved: a gate that can lock out the only person able to lift it is a
\* trap.  However requests overlap, somebody administers, for nobody may remove
\* or demote themselves, unless an administrator was demoted or removed in the
\* middle of a request of theirs.
SomebodyAdministers == crossed \/ \E i \in Ids : Exists(i) /\ IsAdmin(user[i])

\* register: the account exists but cannot be used yet.  Nobody gets in whom no
\* administrator (and not the host) let in, by approval, promotion or creation,
\* unless a row id changes hands in the middle of a request.
OnlyTheVouchedGetIn ==
  recycled \/ \A i \in Ids : Exists(i) /\ IsApproved(user[i]) => user[i].vouched
=============================================================================
