--------------------------- MODULE MigrationRunner ---------------------------
(***************************************************************************)
(* The migration runner (lambda_migrate.py): invocations that upgrade the  *)
(* schema, create or re-password the two login roles, grant privileges and *)
(* write each role's URL to its secret, under one session-level advisory   *)
(* lock; and the API processes that read the secret once, at cold start    *)
(* (secrets_bootstrap.py, lambda_api.py).                                  *)
(*                                                                         *)
(* Passwords are numbered in the order they are generated; a URL is its    *)
(* password.  Table names stand for the classes the grants tell apart.     *)
(***************************************************************************)
EXTENDS Integers, FiniteSets, Sequences

CONSTANTS Runners,       \* invocations of the runner
          Processes,     \* API processes
          Releases,      \* sequence: the tables each packaged head has
          Mutable,       \* MUTABLE_TABLES
          ParserGrants,  \* PARSER_TABLE_GRANTS: table |-> privileges
          MaxPasswords,  \* bound: passwords generated
          MaxRunnerFaults      \* bound: failed calls, killed runners, lost sessions

\* No packaged migration drops or renames a table on upgrade, so a later head
\* has the tables of an earlier one.
ASSUME MigrateAssumption ==
    /\ Releases # << >>
    /\ DOMAIN Releases = 1..Len(Releases)
    /\ \A m, n \in DOMAIN Releases : m <= n => Releases[m] \subseteq Releases[n]

Kinds == {"app", "parser"}
NoTable == [t \in {} |-> {}]

VARIABLES
    revision,   \* index in Releases, 0 before the first migration
    head,       \* the head packaged in the deployed image
    password,   \* of each role, 0 when it does not exist
    secret,     \* what each role's secret holds, 0 when nothing
    grants,     \* role |-> table |-> privileges
    defaults,   \* the app role has default privileges on future tables
    lock,       \* runners whose session holds the advisory lock
    run,        \* what each runner does, and what it read
    api,        \* URL each API process loaded, 0 when not started
    generated,  \* passwords generated
    unsettled,  \* history: roles whose last writing run did not succeed
    ungranted,  \* history: tables created since the app grants were applied
    lost,       \* history: a session was lost with its lock
    runnerFaults

migrateVars == <<revision, head, password, secret, grants, defaults, lock, run, api,
          generated, unsettled, ungranted, lost, runnerFaults>>

IdleRunner == [pc |-> "idle"]

MigrateInit ==
    /\ revision = 0
    /\ head = 1
    /\ password = [k \in Kinds |-> 0]
    /\ secret = [k \in Kinds |-> 0]
    /\ grants = [k \in Kinds |-> NoTable]
    /\ defaults = FALSE
    /\ lock = {}
    /\ run = [r \in Runners |-> IdleRunner]
    /\ api = [p \in Processes |-> 0]
    /\ generated = 0
    /\ unsettled = {}
    /\ ungranted = {}
    /\ lost = FALSE
    /\ runnerFaults = 0

Tables == IF revision = 0 THEN {} ELSE Releases[revision]

RunnerFault == runnerFaults < MaxRunnerFaults /\ runnerFaults' = runnerFaults + 1

-----------------------------------------------------------------------------
(* The advisory lock and the checks made under it.                         *)

LockFree_Always == TRUE

\* try_lock: an invocation that finds the lock held fails at once.
LockFree == lock = {}

\* _migrate up to the upgrade, by the image deployed now.
StartMigrate(r) ==
    /\ run[r] = IdleRunner
    /\ LockFree
    /\ lock' = lock \cup {r}
    /\ run' = [run EXCEPT ![r] = [pc |-> "upgrade", head |-> head]]
    /\ UNCHANGED <<revision, head, password, secret, grants, defaults, api, generated,
                   unsettled, ungranted, lost, runnerFaults>>

\* _apply_grants up to its transaction.
StartGrants(r) ==
    /\ run[r] = IdleRunner
    /\ LockFree
    /\ password["app"] # 0
    /\ lock' = lock \cup {r}
    /\ run' = [run EXCEPT ![r] = [pc |-> "grant", tables |-> Tables]]
    /\ UNCHANGED <<revision, head, password, secret, grants, defaults, api, generated,
                   unsettled, ungranted, lost, runnerFaults>>

\* _create_login_role up to its transaction, for _create_app_user and
\* _create_parser_user.
StartRole(r, kind, rotate) ==
    /\ run[r] = IdleRunner
    /\ LockFree
    /\ revision # 0
    /\ rotate = (password[kind] # 0)
    /\ kind = "parser" => DOMAIN ParserGrants \subseteq Tables
    /\ generated < MaxPasswords
    /\ generated' = generated + 1
    /\ lock' = lock \cup {r}
    /\ run' = [run EXCEPT ![r] = [pc |-> "role", kind |-> kind, tables |-> Tables,
                                  password |-> generated']]
    /\ UNCHANGED <<revision, head, password, secret, grants, defaults, api, unsettled,
                   ungranted, lost, runnerFaults>>

\* _release_lock and close: a failing unlock is only logged.
EndRun(r) ==
    /\ lock' = lock \ {r}
    /\ run' = [run EXCEPT ![r] = IdleRunner]

-----------------------------------------------------------------------------
(* The transactions.                                                       *)

\* alembic_upgrade_to_head, in its own session: all or nothing, to the head
\* packaged with the runner's image.  An image that does not have the database's
\* revision among its scripts cannot upgrade.  New tables take the default
\* privileges of the app role.
Upgrade(r) ==
    /\ run[r].pc = "upgrade"
    /\ \/ /\ revision <= run[r].head
          /\ revision' = run[r].head
          /\ LET new == Releases[run[r].head] \ Tables
             IN /\ grants' = [grants EXCEPT !["app"] =
                                [t \in DOMAIN @ \cup (IF defaults THEN new ELSE {}) |->
                                   IF t \in DOMAIN @ THEN @[t] ELSE {"select", "insert"}]]
                /\ ungranted' = ungranted \cup new
          /\ UNCHANGED runnerFaults
       \/ /\ IF revision <= run[r].head THEN RunnerFault ELSE UNCHANGED runnerFaults
          /\ UNCHANGED <<revision, grants, ungranted>>
    /\ EndRun(r)
    /\ UNCHANGED <<head, password, secret, defaults, api, generated, unsettled, lost>>

\* What the app role may do with a table: MUTABLE_TABLES and the rest.
Contract(t) == {"select", "insert"} \cup IF t \in Mutable THEN {"update"} ELSE {}

GrantApp_NoDefaults(tables) ==
    /\ grants' = [grants EXCEPT !["app"] =
                    [t \in DOMAIN @ \cup tables |-> IF t \in tables THEN Contract(t) ELSE @[t]]]
    /\ ungranted' = Tables \ tables
    /\ UNCHANGED defaults

\* grant_statements
GrantApp(tables) ==
    /\ grants' = [grants EXCEPT !["app"] =
                    [t \in DOMAIN @ \cup tables |-> IF t \in tables THEN Contract(t) ELSE @[t]]]
    /\ defaults' = TRUE
    /\ ungranted' = Tables \ tables

\* parser_user_statements: everything revoked, then the exact grants.
GrantParser ==
    /\ grants' = [grants EXCEPT !["parser"] = ParserGrants]
    /\ UNCHANGED <<defaults, ungranted>>

\* The transaction of _apply_grants; it needs the session that took the lock.
ApplyGrants(r) ==
    /\ run[r].pc = "grant"
    /\ \/ /\ r \in lock
          /\ GrantApp(run[r].tables)
          /\ UNCHANGED runnerFaults
       \/ /\ IF r \in lock THEN RunnerFault ELSE UNCHANGED runnerFaults
          /\ UNCHANGED <<grants, defaults, ungranted>>
    /\ EndRun(r)
    /\ UNCHANGED <<revision, head, password, secret, api, generated, unsettled, lost>>

\* The transaction of _create_login_role: the role's password and its grants.
CommitRole(r) ==
    /\ run[r].pc = "role"
    /\ r \in lock
    /\ password' = [password EXCEPT ![run[r].kind] = run[r].password]
    /\ IF run[r].kind = "app" THEN GrantApp(run[r].tables) ELSE GrantParser
    /\ unsettled' = unsettled \ {run[r].kind}
    /\ run' = [run EXCEPT ![r].pc = "secret"]
    /\ UNCHANGED <<revision, head, secret, lock, api, generated, lost, runnerFaults>>

\* The transaction fails, or its commit is not acknowledged; the run reports
\* the failure and the secret is not written.
RoleFails(r) ==
    /\ run[r].pc = "role"
    /\ \/ /\ r \notin lock
          /\ UNCHANGED <<password, grants, defaults, ungranted, unsettled, runnerFaults>>
       \/ /\ RunnerFault
          /\ \/ UNCHANGED <<password, grants, defaults, ungranted, unsettled>>
             \/ /\ r \in lock
                /\ password' = [password EXCEPT ![run[r].kind] = run[r].password]
                /\ IF run[r].kind = "app" THEN GrantApp(run[r].tables) ELSE GrantParser
                /\ unsettled' = unsettled \cup {run[r].kind}
    /\ EndRun(r)
    /\ UNCHANGED <<revision, head, secret, api, generated, lost>>

\* write_secret_url, after the commit: it succeeds, or raises without or after
\* its effect, which is reported with the advice to rotate again.
WriteSecretUrl(r) ==
    /\ run[r].pc = "secret"
    /\ \/ secret' = [secret EXCEPT ![run[r].kind] = run[r].password] /\ UNCHANGED <<unsettled, runnerFaults>>
       \/ /\ RunnerFault
          /\ secret' \in {secret, [secret EXCEPT ![run[r].kind] = run[r].password]}
          /\ unsettled' = unsettled \cup {run[r].kind}
    /\ EndRun(r)
    /\ UNCHANGED <<revision, head, password, grants, defaults, api, generated, ungranted, lost>>

-----------------------------------------------------------------------------
(* Faults and the processes around the runner.                             *)

\* The runner times out or is killed; its session and its lock end with it.
Kill(r) ==
    /\ run[r] # IdleRunner
    /\ RunnerFault
    /\ unsettled' = unsettled \cup IF run[r].pc = "secret" THEN {run[r].kind} ELSE {}
    /\ EndRun(r)
    /\ UNCHANGED <<revision, head, password, secret, grants, defaults, api, generated,
                   ungranted, lost>>

\* The database drops the session, and with it the lock, of a live runner.
LoseSession(r) ==
    /\ r \in lock
    /\ RunnerFault
    /\ lock' = lock \ {r}
    /\ lost' = TRUE
    /\ UNCHANGED <<revision, head, password, secret, grants, defaults, run, api, generated,
                   unsettled, ungranted>>

\* A new image brings the next packaged head.
DeployImage ==
    /\ head + 1 \in DOMAIN Releases
    /\ head' = head + 1
    /\ UNCHANGED <<revision, password, secret, grants, defaults, lock, run, api, generated,
                   unsettled, ungranted, lost, runnerFaults>>

\* _ensure_started: ColdStartSecrets loads the secrets, all or none, and the
\* lifespan starts with them.
ColdStart(p) ==
    /\ api[p] = 0
    /\ secret["app"] # 0
    /\ api' = [api EXCEPT ![p] = secret["app"]]
    /\ UNCHANGED <<revision, head, password, secret, grants, defaults, lock, run, generated,
                   unsettled, ungranted, lost, runnerFaults>>

\* The process is recycled; a warm one never reads the secret again.
Recycle(p) ==
    /\ api[p] # 0
    /\ api' = [api EXCEPT ![p] = 0]
    /\ UNCHANGED <<revision, head, password, secret, grants, defaults, lock, run, generated,
                   unsettled, ungranted, lost, runnerFaults>>

MigrateNext ==
    \/ \E r \in Runners :
          \/ StartMigrate(r)
          \/ StartGrants(r)
          \/ \E k \in Kinds, rotate \in BOOLEAN : StartRole(r, k, rotate)
          \/ Upgrade(r)
          \/ ApplyGrants(r)
          \/ CommitRole(r)
          \/ RoleFails(r)
          \/ WriteSecretUrl(r)
          \/ Kill(r)
          \/ LoseSession(r)
    \/ DeployImage
    \/ \E p \in Processes : ColdStart(p) \/ Recycle(p)

MigrateSpec == MigrateInit /\ [][MigrateNext]_migrateVars

-----------------------------------------------------------------------------
(* Properties.                                                             *)

\* While no session is lost under a live runner, a role and its secret disagree
\* only during a run for the role or after one that did not report success; and
\* even then no process starts with a URL the role never had
\* (_create_login_role, ColdStartSecrets).
CredentialsAgree ==
    /\ \A k \in Kinds :
          \/ lost
          \/ secret[k] = password[k]
          \/ k \in unsettled
          \/ \E r \in Runners : run[r].pc = "secret" /\ run[r].kind = k
    /\ \A k \in Kinds : secret[k] <= password[k]
    /\ \A p \in Processes : api[p] <= password["app"]

\* However migrations, grants and role runs interleave and fail, the app role
\* may use every table that was there when its grants were last applied exactly
\* as contracted, and every later one only to read and append, never not at all
\* (grant_statements, _apply_grants, _create_login_role).
GrantsFollowContract ==
    password["app"] # 0 =>
        \A t \in Tables : LET may == IF t \in DOMAIN grants["app"] THEN grants["app"][t] ELSE {}
                          IN IF t \in ungranted THEN lost \/ may = {"select", "insert"}
                             ELSE may = Contract(t)

=============================================================================
