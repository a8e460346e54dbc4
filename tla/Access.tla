------------------------------- MODULE Access -------------------------------
(***************************************************************************)
(* Sign-in, installation and repository access: services/auth.py,          *)
(* services/repositories.py and their routes.  A request is one database   *)
(* transaction from the flow it consumes to its commit, with calls to      *)
(* GitHub in between; the database is PostgreSQL at READ COMMITTED, so a   *)
(* statement sees what others have committed, and waits for the rows that  *)
(* others have changed.  Whatever fails rolls the transaction back.        *)
(***************************************************************************)
EXTENDS Naturals, Sequences, FiniteSets

CONSTANTS
  Accounts,       \* GitHub accounts; a stored user is known by its account
  Installations,  \* installations of the GitHub App
  Repositories,
  Requests,       \* requests that are handled side by side
  Nobody,         \* a flow without user_id, a request without an account
  Nowhere,        \* a flow without installation_id, a repository that is not stored
  MaxFlows,       \* bound on the rows of oauth_flows
  MaxExpiries,    \* bound on the flows that have expired
  MaxChanges      \* bound on the changes at GitHub

ASSUME AccessAssumption ==
  /\ Nobody \notin Accounts /\ Nowhere \notin Installations
  /\ MaxFlows \in Nat /\ MaxExpiries \in Nat /\ MaxChanges \in Nat

VARIABLES
  home,      \* GitHub: home[r] is the installation that has repository r
  sees,      \* GitHub: which account may see which repository
  changes,   \* GitHub: how often either has changed
  disclosed,     \* history: what GitHub has listed to an account
  flows,     \* rows of oauth_flows in the order of their creation
  users,     \* rows of users
  sessions,  \* sessions[a]: valid sessions of user a
  members,   \* rows of user_installations
  location,  \* location[r]: installation_id of the row of repository r
  access,    \* rows of user_repositories
  contested, \* history: repositories of a sync that another one has overtaken
  work       \* work[q]: what request q has read, and written without a commit

accessVars == <<home, sees, changes, disclosed, flows, users, sessions, members, location,
                access, contested, work>>

Flow == [purpose: {"login", "install_start", "install_verify"},
         user: Accounts \union {Nobody}, installation: Installations \union {Nowhere},
         state: {"usable", "expired", "gone"}]

SyncSteps == {"syncing", "seen", "evicting", "evicted", "leaving"}

\* A request: the route and its step, the flow it consumes, the account it acts for,
\* GitHub's list and what is left of it, the repository at hand with the installation it
\* was seen in, the rows a DELETE is to remove; then its uncommitted writes.
Work == [route: {"callback", "setup"},
         step: {"idle", "found", "taken", "identified", "listed"} \union SyncSteps,
         flow: 0 .. MaxFlows, account: Accounts \union {Nobody},
         listing: SUBSET Repositories, todo: SUBSET Repositories,
         repo: Repositories \union {Nowhere}, seen: Installations \union {Nowhere},
         evict: SUBSET (Accounts \X Repositories),
         moved: SUBSET Repositories, gained: SUBSET Repositories,
         lost: SUBSET (Accounts \X Repositories), leaving: SUBSET Repositories,
         overtaken: BOOLEAN]

Idle == [route |-> "callback", step |-> "idle", flow |-> 0, account |-> Nobody,
         listing |-> {}, todo |-> {}, repo |-> Nowhere, seen |-> Nowhere, evict |-> {},
         moved |-> {}, gained |-> {}, lost |-> {}, leaving |-> {}, overtaken |-> FALSE]

AccessTypeOK ==
  /\ home \in [Repositories -> Installations]
  /\ sees \subseteq Accounts \X Repositories /\ disclosed \subseteq Accounts \X Repositories
  /\ changes \in 0 .. MaxChanges
  /\ flows \in Seq(Flow) /\ Len(flows) <= MaxFlows
  /\ users \subseteq Accounts
  /\ sessions \in [Accounts -> Nat]
  /\ members \subseteq Accounts \X Installations
  /\ location \in [Repositories -> Installations \union {Nowhere}]
  /\ access \subseteq Accounts \X Repositories
  /\ contested \subseteq Repositories
  /\ work \in [Requests -> Work]

Row(purpose, a, i) == [purpose |-> purpose, user |-> a, installation |-> i, state |-> "usable"]

\* Some have signed in before and may have a session; some have been to GitHub to install,
\* and are to be verified.  The flows of that are gone, and no repository is stored yet.
AccessInit ==
  /\ home \in [Repositories -> Installations]
  /\ sees \in SUBSET (Accounts \X Repositories)
  /\ changes = 0 /\ disclosed = {}
  /\ users \in SUBSET Accounts
  /\ \E n \in 0 .. MaxFlows :
       flows \in [1 .. n -> {Row("install_verify", a, i) : a \in users, i \in Installations}]
  /\ \E signedIn \in SUBSET users :
       sessions = [a \in Accounts |-> IF a \in signedIn THEN 1 ELSE 0]
  /\ members = {} /\ access = {} /\ contested = {}
  /\ location = [r \in Repositories |-> Nowhere]
  /\ work = [q \in Requests |-> Idle]

-----------------------------------------------------------------------------
(* What a request's transaction is about, and what it sees                   *)

Active(q) == work[q].step # "idle"
Syncing(q) == work[q].step \in SyncSteps
Held(q) == flows[work[q].flow]
User(q) == Held(q).user
Target(q) == Held(q).installation

\* Rows of user_repositories, and the place of a repository, as q's statements see them.
AccessSeen(q) == (access \ work[q].lost) \union ({User(q)} \X work[q].gained)
LocationSeen(q, r) == IF r \in work[q].moved THEN Target(q) ELSE location[r]

\* list_user_repositories, get_user_repository: the repositories that user a may use.
Readable(a) == {r \in Repositories : <<a, r>> \in access}

\* find_user_for_session: user a has a session that has not expired.
Current(a) == sessions[a] > 0

Others(q) == Requests \ {q}

\* The rows of flows once q's deletion is committed.
Consumed(q) == [flows EXCEPT ![work[q].flow].state = "gone"]

\* Request q goes on as w, and nothing is committed.
GoesOn(q, w) ==
  /\ work' = [work EXCEPT ![q] = w]
  /\ UNCHANGED <<home, sees, changes, disclosed, flows, users, sessions, members, location,
                 access, contested>>

Finished(q) == work' = [work EXCEPT ![q] = Idle]

-----------------------------------------------------------------------------
(* GitHub and time                                                           *)

GitHubChanges ==
  /\ changes < MaxChanges /\ changes' = changes + 1
  /\ \E r \in Repositories :
       \/ \E i \in Installations : home' = [home EXCEPT ![r] = i] /\ UNCHANGED sees
       \/ \E a \in Accounts :
            /\ sees' = IF <<a, r>> \in sees THEN sees \ {<<a, r>>} ELSE sees \union {<<a, r>>}
            /\ UNCHANGED home
  /\ UNCHANGED <<disclosed, flows, users, sessions, members, location, access, contested, work>>

\* All flows live equally long.
FlowExpires(f) ==
  /\ flows[f].state = "usable" /\ \A g \in 1 .. f - 1 : flows[g].state # "usable"
  /\ Cardinality({g \in 1 .. Len(flows) : flows[g].state = "expired"}) < MaxExpiries
  /\ flows' = [flows EXCEPT ![f].state = "expired"]
  /\ UNCHANGED <<home, sees, changes, disclosed, users, sessions, members, location, access,
                 contested, work>>

\* logout, or the session has come to its end.
SessionEnds(a) ==
  /\ Current(a)
  /\ sessions' = [sessions EXCEPT ![a] = @ - 1]
  /\ UNCHANGED <<home, sees, changes, disclosed, flows, users, members, location, access,
                 contested, work>>

-----------------------------------------------------------------------------
(* Flows                                                                     *)

\* github_auth_start
StartLogin ==
  /\ Len(flows) < MaxFlows
  /\ flows' = Append(flows, Row("login", Nobody, Nowhere))
  /\ UNCHANGED <<home, sees, changes, disclosed, users, sessions, members, location, access,
                 contested, work>>

\* github_install_start, by a user with a session.
StartInstall(a) ==
  /\ Current(a) /\ Len(flows) < MaxFlows
  /\ flows' = Append(flows, Row("install_start", a, Nowhere))
  /\ UNCHANGED <<home, sees, changes, disclosed, users, sessions, members, location, access,
                 contested, work>>

\* The SELECT of consume_oauth_flow; the setup route has looked up its user before.
FindFlow(q, f) ==
  /\ ~Active(q) /\ flows[f].state = "usable"
  /\ \/ GoesOn(q, [Idle EXCEPT !.step = "found", !.flow = f])
     \/ \E a \in Accounts :
          /\ Current(a)
          /\ GoesOn(q, [Idle EXCEPT !.route = "setup", !.step = "found", !.flow = f,
                                    !.account = a])

\* Mutant of TakeFlow: consume_oauth_flow commits the deletion.
TakeFlowForGood(q) ==
  /\ work[q].step = "found"
  /\ \A p \in Others(q) : work[p].flow = work[q].flow => work[p].step \in {"idle", "found"}
  /\ flows' = Consumed(q)
  /\ work' = [work EXCEPT ![q].step = "taken"]
  /\ UNCHANGED <<home, sees, changes, disclosed, users, sessions, members, location, access,
                 contested>>

\* Its DELETE, flushed: it waits for another request that deletes the row, and goes on
\* when that one has committed, since SQLAlchemy only warns of a row that is gone.
TakeFlow(q) ==
  /\ work[q].step = "found"
  /\ \A p \in Others(q) : work[p].flow = work[q].flow => work[p].step \in {"idle", "found"}
  /\ GoesOn(q, [work[q] EXCEPT !.step = "taken"])

\* github_install_setup: the new flow and the deletion of the old one are one commit.
Setup(q, i) ==
  /\ work[q].step = "taken" /\ work[q].route = "setup"
  /\ Held(q).purpose = "install_start" /\ User(q) = work[q].account
  /\ Len(flows) < MaxFlows
  /\ flows' = Append(Consumed(q), Row("install_verify", User(q), i))
  /\ Finished(q)
  /\ UNCHANGED <<home, sees, changes, disclosed, users, sessions, members, location, access,
                 contested>>

\* exchange_code and get_user in github_auth_callback; whose browser it is at GitHub
\* need not be the user that started.
Identify(q, a) ==
  /\ work[q].step = "taken" /\ work[q].route = "callback"
  /\ Held(q).purpose = "install_verify" => a = User(q) /\ a \in users
  /\ GoesOn(q, [work[q] EXCEPT !.step = "identified", !.account = a])

\* upsert_user, create_session and the commit, for every purpose but one.
SignIn(q) ==
  /\ work[q].step = "identified" /\ Held(q).purpose # "install_verify"
  /\ users' = users \union {work[q].account}
  /\ sessions' = [sessions EXCEPT ![work[q].account] = @ + 1]
  /\ flows' = Consumed(q)
  /\ Finished(q)
  /\ UNCHANGED <<home, sees, changes, disclosed, members, location, access, contested>>

-----------------------------------------------------------------------------
(* Synchronisation of an installation                                        *)

\* get_user_installation and list_user_repositories, with the token of the account.
ListRepositories(q) ==
  LET listed == {r \in Repositories : home[r] = Target(q) /\ <<work[q].account, r>> \in sees} IN
  /\ work[q].step = "identified" /\ Held(q).purpose = "install_verify"
  /\ disclosed' = disclosed \union ({work[q].account} \X listed)
  /\ work' = [work EXCEPT ![q] = [@ EXCEPT !.step = "listed", !.listing = listed]]
  /\ UNCHANGED <<home, sees, changes, flows, users, sessions, members, location, access,
                 contested>>

\* The rows of the installation and of its member; a member's row that another request
\* inserts is waited for.
Join(q) ==
  /\ work[q].step = "listed"
  /\ \/ <<User(q), Target(q)>> \in members
     \/ \A p \in Others(q) : Syncing(p) => User(p) # User(q) \/ Target(p) # Target(q)
  /\ GoesOn(q, [work[q] EXCEPT !.step = "syncing", !.todo = work[q].listing])

\* The next repository of the list is looked up.
LookUp(q, r) ==
  /\ work[q].step = "syncing" /\ r \in work[q].todo
  /\ GoesOn(q, [work[q] EXCEPT !.step = "seen", !.repo = r, !.seen = location[r]])

\* Mutant of Evict: a repository keeps its users when it moves.
EvictNobody(q) ==
  /\ work[q].step = "seen" /\ work[q].seen \notin {Nowhere, Target(q)}
  /\ GoesOn(q, [work[q] EXCEPT !.step = "evicting"])

\* It was seen in another installation: all access to it is to be deleted, that is, the
\* rows committed when the DELETE starts...
Evict(q) ==
  /\ work[q].step = "seen" /\ work[q].seen \notin {Nowhere, Target(q)}
  /\ GoesOn(q, [work[q] EXCEPT !.step = "evicting",
                               !.evict = {p \in access : p[2] = work[q].repo}])

\* ... as soon as nobody else has them locked.
Evicted(q) ==
  /\ work[q].step = "evicting"
  /\ \A p \in Others(q) : work[p].lost \intersect work[q].evict = {}
  /\ GoesOn(q, [work[q] EXCEPT !.step = "evicted", !.evict = {},
                               !.lost = work[q].lost \union work[q].evict])

\* Its row is inserted, or updated when it was seen elsewhere, and the user's access is
\* inserted when there is none; rows that others have changed are waited for.
StoreRepository(q) ==
  LET w == work[q]
      writes == w.seen # Target(q)
      inserts == <<User(q), w.repo>> \notin AccessSeen(q)
  IN
  /\ w.step = "evicted" \/ (w.step = "seen" /\ w.seen \in {Nowhere, Target(q)})
  /\ w.seen = Nowhere => location[w.repo] = Nowhere
  /\ writes => \A p \in Others(q) : w.repo \notin work[p].moved
  /\ inserts => \A p \in Others(q) : w.repo \in work[p].gained => User(p) # User(q)
  /\ GoesOn(q, [w EXCEPT
       !.step = "syncing", !.todo = w.todo \ {w.repo}, !.repo = Nowhere, !.seen = Nowhere,
       !.moved = IF writes THEN w.moved \union {w.repo} ELSE w.moved,
       !.gained = IF inserts THEN w.gained \union {w.repo} ELSE w.gained])

\* Mutant of ReadAccess: access to what is no longer listed stays.
ReadNothing(q) ==
  /\ work[q].step = "syncing" /\ work[q].todo = {}
  /\ GoesOn(q, [work[q] EXCEPT !.step = "leaving"])

\* The user's access within the installation that the list no longer has.
ReadAccess(q) ==
  /\ work[q].step = "syncing" /\ work[q].todo = {}
  /\ GoesOn(q, [work[q] EXCEPT !.step = "leaving",
       !.leaving = {r \in Repositories \ work[q].listing :
                      <<User(q), r>> \in AccessSeen(q) /\ LocationSeen(q, r) = Target(q)}])

\* The rows of user_repositories that q deletes.
Removed(q) == work[q].lost \union ({User(q)} \X work[q].leaving)

\* That access is deleted, once nobody else has it locked, and all is committed.
CommitSync(q) ==
  /\ work[q].step = "leaving"
  /\ \A p \in Others(q) : work[p].lost \intersect ({User(q)} \X work[q].leaving) = {}
  /\ access' = (access \ Removed(q)) \union ({User(q)} \X work[q].gained)
  /\ location' = [r \in Repositories |-> LocationSeen(q, r)]
  /\ members' = members \union {<<User(q), Target(q)>>}
  /\ flows' = Consumed(q)
  /\ contested' = IF work[q].overtaken THEN contested \union work[q].listing ELSE contested
  /\ work' = [p \in Requests |->
       IF p = q THEN Idle
       ELSE IF Syncing(p) THEN [work[p] EXCEPT !.overtaken = TRUE, !.evict = @ \ Removed(q)]
       ELSE work[p]]
  /\ UNCHANGED <<home, sees, changes, disclosed, users, sessions>>

\* An error of GitHub, a refusal, an error of the database (a deadlock, a duplicate key)
\* or a client that is gone: the transaction is rolled back.
RequestFails(q) ==
  /\ Active(q)
  /\ GoesOn(q, Idle)

-----------------------------------------------------------------------------
SyncStep(q) ==
  \/ ListRepositories(q) \/ Join(q) \/ (\E r \in Repositories : LookUp(q, r))
  \/ Evict(q) \/ Evicted(q) \/ StoreRepository(q) \/ ReadAccess(q) \/ CommitSync(q)

RequestStep(q) ==
  \/ \E f \in 1 .. Len(flows) : FindFlow(q, f)
  \/ TakeFlow(q) \/ (\E i \in Installations : Setup(q, i))
  \/ (\E a \in Accounts : Identify(q, a)) \/ SignIn(q)
  \/ SyncStep(q) \/ RequestFails(q)

AccessNext ==
  \/ GitHubChanges \/ StartLogin
  \/ \E f \in 1 .. Len(flows) : FlowExpires(f)
  \/ \E a \in Accounts : SessionEnds(a) \/ StartInstall(a)
  \/ \E q \in Requests : RequestStep(q)

AccessSpec == AccessInit /\ [][AccessNext]_accessVars

-----------------------------------------------------------------------------
\* A callback that fails leaves its flow to be used again: the flow of an installation is
\* gone exactly when the user has become a member, in one commit.
VerifiedMembers ==
  \A a \in Accounts, i \in Installations :
    <<a, i>> \in members <=>
      \E f \in 1 .. Len(flows) : flows[f].purpose = "install_verify" /\ flows[f].state = "gone"
                                 /\ flows[f].user = a /\ flows[f].installation = i

\* A user may use only repositories that GitHub has listed to the user's own account,
\* whoever was signed in to GitHub when the installation came back.
AccessShown == \A a \in Accounts : \A r \in Readable(a) : <<a, r>> \in disclosed

\* Access goes with the installation: who may use a repository is a member of the
\* installation it is stored under, unless two syncs were at it side by side.
AccessInside ==
  \A a \in Accounts : \A r \in Readable(a) : r \in contested \/ <<a, location[r]>> \in members

\* What the rows grant a user was listed to the user, and is of the user's installations.
AccessGranted == AccessShown /\ AccessInside

\* A sync that no other one has overtaken leaves the user, within the installation, with
\* exactly the repositories that GitHub has listed, and takes access from another user
\* only with a repository that it moves.
SyncExact ==
  [][\A q \in Requests : CommitSync(q) /\ ~work[q].overtaken =>
       /\ {r \in Repositories : <<User(q), r>> \in access' /\ location'[r] = Target(q)}
            = work[q].listing
       /\ \A p \in access \ access' : p[1] = User(q) \/ location'[p[2]] # location[p[2]]
    ]_accessVars
=============================================================================
