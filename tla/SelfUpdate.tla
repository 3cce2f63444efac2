----------------------------- MODULE SelfUpdate -----------------------------
(***************************************************************************)
(* The Update App button: run_update of app/deploy_service.py pulls,       *)
(* installs, builds, imports the result in a subprocess, and then ends the *)
(* worker process that served the request, so that its supervisor starts a *)
(* new one from what is on disk.  deploy/install.sh does the same by hand  *)
(* and restarts the whole unit.                                            *)
(***************************************************************************)
EXTENDS Integers

CONSTANTS
  Workers,     \* uvicorn worker processes (the systemd unit asks for 2)
  Updates,     \* update requests that may be in progress at once
  None,
  Torn,        \* a virtualenv or a frontend build left half written
  Down,        \* a worker process that is not running
  MaxCommit,   \* bound: commits pushed upstream
  NewDeps,     \* the commits that change requirements.txt
  Broken,      \* the commits whose app.main cannot be imported
  MaxCrashes   \* bound: worker processes killed

ASSUME UpdateAssumption ==
  /\ MaxCommit \in Nat /\ MaxCrashes \in Nat
  /\ NewDeps \subseteq 1 .. MaxCommit
  /\ Broken \subseteq 1 .. MaxCommit
  /\ {None, Torn, Down} \intersect Nat = {}

VARIABLES
  upstream,  \* the newest commit at the remote
  checkout,  \* HEAD of the deployed checkout
  venv,      \* the commit whose requirements are installed
  dist,      \* the commit the frontend that nginx serves was built from
  running,   \* the commit each worker has imported
  update,    \* the update requests
  crashes,
  overlapped, \* history: another update or install.sh ran beside the last update
  mishap     \* history: a step failed or was cut off, or install.sh ran, since
             \* an update last went through alone

vars == <<upstream, checkout, venv, dist, running, update, crashes, overlapped, mishap>>
-----------------------------------------------------------------------------
Commits == 0 .. MaxCommit
Maybe(S) == S \union {None}

Update == [at : {"idle", "pulling", "pulled", "pip", "build", "preflight", "exiting"},
           worker : Maybe(Workers), before : Maybe(Commits), after : Maybe(Commits),
           wanted : Maybe(Commits)]

TypeOK ==
  /\ upstream \in Commits /\ checkout \in Commits
  /\ venv \in Commits \union {Torn}
  /\ dist \in Commits \union {Torn}
  /\ running \in [Workers -> Commits \union {Down}]
  /\ update \in [Updates -> Update]
  /\ crashes \in 0 .. MaxCrashes
  /\ overlapped \in BOOLEAN /\ mishap \in BOOLEAN

\* The commit that last changed requirements.txt.
Requirements(commit) ==
  LET changing == {c \in NewDeps : c <= commit} \union {0}
  IN  CHOOSE c \in changing : \A d \in changing : d <= c

\* `import app.main`, by the preflight check or by a new worker.
Starts == checkout \notin Broken /\ venv = Requirements(checkout)

\* No update, or one that has been answered.
Idle == [at |-> "idle", worker |-> None, before |-> None, after |-> None, wanted |-> None]

InProgress(u) == update[u].at # "idle"

Init ==
  /\ upstream = 0 /\ checkout = 0 /\ venv = 0 /\ dist = 0
  /\ running = [w \in Workers |-> 0]
  /\ update = [u \in Updates |-> Idle]
  /\ crashes = 0
  /\ overlapped = FALSE /\ mishap = FALSE
-----------------------------------------------------------------------------
PushCommit ==
  /\ upstream < MaxCommit
  /\ upstream' = upstream + 1
  /\ UNCHANGED <<checkout, venv, dist, running, update, crashes, overlapped, mishap>>

\* admin_update runs in a thread of the worker that got the request.
PressUpdate(u, w) ==
  /\ ~InProgress(u)
  /\ running[w] # Down
  /\ update' = [update EXCEPT ![u] =
       [Idle EXCEPT !.at = "pulling", !.worker = w, !.before = checkout]]
  /\ overlapped' = \E v \in Updates : InProgress(v)
  /\ UNCHANGED <<upstream, checkout, venv, dist, running, crashes, mishap>>

Pull(u) ==
  /\ update[u].at = "pulling"
  /\ checkout' = upstream
  /\ update' = [update EXCEPT
       ![u] = IF @.before = upstream THEN Idle
              ELSE [@ EXCEPT !.at = "pulled", !.after = upstream]]
  /\ UNCHANGED <<upstream, venv, dist, running, crashes, overlapped, mishap>>

\* git rev-parse fails before the pull, or git pull does.
PullFails(u) ==
  /\ update[u].at = "pulling"
  /\ update' = [update EXCEPT ![u] = Idle]
  /\ UNCHANGED <<upstream, checkout, venv, dist, running, crashes, overlapped, mishap>>

\* git rev-parse fails after the pull, which is answered as if there had been nothing
\* new, or git pull moves HEAD and is then stopped at its time limit.
PullUnnoticed(u) ==
  /\ update[u].at = "pulling"
  /\ checkout' = upstream
  /\ update' = [update EXCEPT ![u] = Idle]
  /\ mishap' = TRUE
  /\ UNCHANGED <<upstream, venv, dist, running, crashes, overlapped>>

\* What pip may leave when it fails: it has nothing to do if all is installed.
PipDamage(wanted) == IF venv = wanted THEN {venv} ELSE {venv, Torn}

StartPip(u) ==
  /\ update[u].at = "pulled"
  /\ update' = [update EXCEPT ![u].at = "pip", ![u].wanted = Requirements(checkout)]
  /\ UNCHANGED <<upstream, checkout, venv, dist, running, crashes, overlapped, mishap>>

EndPip(u) ==
  /\ update[u].at = "pip"
  /\ \/ /\ venv' = update[u].wanted
        /\ update' = [update EXCEPT ![u].at = "build"]
        /\ UNCHANGED mishap
     \/ /\ venv' \in PipDamage(update[u].wanted)
        /\ update' = [update EXCEPT ![u] = Idle]
        /\ mishap' = TRUE
  /\ UNCHANGED <<upstream, checkout, dist, running, crashes, overlapped>>

\* npm install, then npm run build, which empties the directory it writes to.
BuildFrontend(u) ==
  /\ update[u].at = "build"
  /\ \/ /\ dist' = checkout
        /\ update' = [update EXCEPT ![u].at = "preflight"]
        /\ UNCHANGED mishap
     \/ /\ dist' \in {dist, Torn}
        /\ update' = [update EXCEPT ![u] = Idle]
        /\ mishap' = TRUE
  /\ UNCHANGED <<upstream, checkout, venv, running, crashes, overlapped>>

\* Mutant: no preflight.
PreflightSkipped(u) ==
  /\ update[u].at = "preflight"
  /\ update' = [update EXCEPT ![u].at = "exiting"]
  /\ mishap' = (mishap /\ overlapped)
  /\ UNCHANGED <<upstream, checkout, venv, dist, running, crashes, overlapped>>

\* The import may also take longer than the step is allowed.
Preflight(u) ==
  /\ update[u].at = "preflight"
  /\ \/ /\ Starts
        /\ update' = [update EXCEPT ![u].at = "exiting"]
        /\ mishap' = (mishap /\ overlapped)
     \/ /\ update' = [update EXCEPT ![u] = Idle]
        /\ mishap' = TRUE
  /\ UNCHANGED <<upstream, checkout, venv, dist, running, crashes, overlapped>>

\* A process ends: its other updates are lost, and a command one of them was
\* running completes, stops half way, or has done nothing yet.
Ends(w) ==
  LET doing(step) == {u \in Updates : update[u].worker = w /\ update[u].at = step}
  IN  /\ running' = [running EXCEPT ![w] = Down]
      /\ venv' \in {venv} \union UNION {{update[u].wanted} \union PipDamage(update[u].wanted) :
                                          u \in doing("pip")}
      /\ dist' \in {dist} \union (IF doing("build") = {} THEN {} ELSE {checkout, Torn})
      /\ checkout' \in {checkout} \union (IF doing("pulling") = {} THEN {} ELSE {upstream})
      /\ mishap' = (mishap \/ \E u \in Updates : update[u].worker = w /\ InProgress(u)
                                               /\ update[u].at # "exiting")
      /\ update' = [u \in Updates |-> IF update[u].worker = w THEN Idle ELSE update[u]]
      /\ UNCHANGED <<upstream, overlapped>>

\* The thread _schedule_restart started.
Exit(u) ==
  /\ update[u].at = "exiting"
  /\ Ends(update[u].worker)
  /\ UNCHANGED crashes

Crash(w) ==
  /\ crashes < MaxCrashes
  /\ running[w] # Down
  /\ Ends(w)
  /\ crashes' = crashes + 1

\* uvicorn's supervisor keeps starting its missing workers.
Respawn(w) ==
  /\ running[w] = Down
  /\ Starts
  /\ running' = [running EXCEPT ![w] = checkout]
  /\ UNCHANGED <<upstream, checkout, venv, dist, update, crashes, overlapped, mishap>>

\* deploy/install.sh, which stops at its first error.  Nothing keeps it from being
\* run during an update; the restart at its end stops what updates are running.
Install ==
  /\ checkout' = upstream
  /\ LET wanted == Requirements(upstream)
         stopped(step) == IF \E u \in Updates : update[u].at = step THEN {Torn} ELSE {}
     IN  \/ venv' \in PipDamage(wanted) /\ UNCHANGED <<dist, running, update>>
         \/ venv' = wanted /\ dist' \in {dist, Torn} /\ UNCHANGED <<running, update>>
         \/ /\ venv' \in {wanted} \union stopped("pip")
            /\ dist' \in {upstream} \union stopped("build")
            /\ running' = [w \in Workers |-> Down]
            /\ update' = [u \in Updates |-> Idle]
  /\ mishap' = TRUE
  /\ overlapped' = (overlapped \/ \E u \in Updates : InProgress(u))
  /\ UNCHANGED <<upstream, crashes>>
-----------------------------------------------------------------------------
Progress(u) ==
  \/ Pull(u) \/ PullFails(u) \/ PullUnnoticed(u)
  \/ StartPip(u) \/ EndPip(u) \/ BuildFrontend(u) \/ Preflight(u) \/ Exit(u)

Next ==
  \/ PushCommit
  \/ \E u \in Updates : Progress(u) \/ \E w \in Workers : PressUpdate(u, w)
  \/ \E w \in Workers : Crash(w) \/ Respawn(w)
  \/ Install

Spec == Init /\ [][Next]_vars

\* Every command has a time limit, and the supervisor never gives up.
FairSpec ==
  /\ Spec
  /\ \A u \in Updates : WF_vars(Progress(u))
  /\ \A w \in Workers : WF_vars(Respawn(w))
-----------------------------------------------------------------------------
\* An update that has pulled, and has yet to import the result.
Unchecked(u) == update[u].at \in {"pulled", "pip", "build", "preflight"}

\* run_update: never restart into a build that can't start.  Updates overlap in
\* one checkout and one virtualenv, and a slow pip may put back older
\* requirements; but whichever update comes last checks what all have left.  So
\* what is on disk can start, with the frontend built from it, unless an update
\* has yet to check it, or a step failed or was cut off since one last went
\* through alone: no overlap leaves a broken deployment that nobody is told of.
DeploymentIsWhole ==
  mishap \/ (\E u \in Updates : Unchecked(u)) \/ (Starts /\ dist = checkout)

\* An update that answered "restarting" does bring a worker up on the commit it
\* announced, unless a newer one is pulled before that, or updates overlapped.
RestartIsDelivered ==
  \A w \in Workers, c \in 1 .. MaxCommit :
    (\E u \in Updates : update[u].at = "exiting" /\ update[u].worker = w /\ update[u].after = c)
      ~> (running[w] # Down /\ running[w] >= c) \/ checkout > c \/ overlapped
=============================================================================
