------------------------ MODULE DeploymentTools_proofs ------------------------
(***************************************************************************)
(* Proofs about the tools that put the product in front of its users: the  *)
(* migration runner (MigrationRunner) and the publication of the guest     *)
(* demo (GuestDemoPublish).                                                *)
(***************************************************************************)
EXTENDS GuestDemoPublish, MigrationRunner, WellFoundedInduction, TLAPS

-----------------------------------------------------------------------------
(* The migration runner: its inductive invariant.                          *)

AllTables == UNION {Releases[n] : n \in DOMAIN Releases}

\* What a runner may be doing, with the values it read.
RoleRuns == [pc: {"role", "secret"}, kind: Kinds, tables: SUBSET AllTables, password: Nat]
Runs == {IdleRunner} \cup [pc: {"upgrade"}, head: DOMAIN Releases]
           \cup [pc: {"grant"}, tables: SUBSET AllTables] \cup RoleRuns

MigrateTypeOK ==
    /\ revision \in {0} \cup DOMAIN Releases /\ head \in DOMAIN Releases
    /\ password \in [Kinds -> Nat] /\ secret \in [Kinds -> Nat]
    /\ DOMAIN grants = Kinds
    /\ defaults \in BOOLEAN
    /\ lock \subseteq Runners
    /\ run \in [Runners -> Runs]
    /\ api \in [Processes -> Nat]
    /\ generated \in Nat
    /\ unsettled \subseteq Kinds
    /\ lost \in BOOLEAN

\* At most one session holds the lock; a runner outside it has lost one.
LockInv ==
    /\ \A r, s \in lock : r = s
    /\ \A r \in Runners : run[r].pc # "idle" => lost \/ r \in lock

\* Under the lock the password about to be set is newer than every password of
\* a role, and between commit and secret it is the role's own; a runner without
\* the lock is at most late.
PasswordInv ==
    /\ \A k \in Kinds : password[k] <= generated
    /\ \A r \in Runners :
          /\ run[r].pc \in {"role", "secret"} => run[r].password \in 1..generated
          /\ run[r].pc = "role" /\ r \in lock => \A k \in Kinds : password[k] < run[r].password
          /\ run[r].pc = "secret" => run[r].password <= password[run[r].kind]
          /\ run[r].pc = "secret" /\ r \in lock => run[r].password = password[run[r].kind]

\* The app role's grants name tables that exist, its default privileges came
\* with its password, and the tables a runner read under the lock are current.
GrantInv ==
    /\ DOMAIN grants["app"] \subseteq Tables
    /\ password["app"] # 0 => defaults
    /\ \A r \in Runners : run[r].pc \in {"grant", "role"} =>
          /\ run[r].tables \subseteq Tables
          /\ lost \/ run[r].tables = Tables

MigrateInv ==
    /\ MigrateTypeOK
    /\ LockInv
    /\ PasswordInv
    /\ CredentialsAgree
    /\ GrantInv
    /\ GrantsFollowContract

-----------------------------------------------------------------------------
(* The migration runner: operators and types.                              *)

\* The steps of one runner, for the case distinctions below.
RunnerStep(r) ==
    \/ StartMigrate(r)
    \/ StartGrants(r)
    \/ \E k \in Kinds, rotate \in BOOLEAN : StartRole(r, k, rotate)
    \/ Upgrade(r)
    \/ ApplyGrants(r)
    \/ CommitRole(r)
    \/ RoleFails(r)
    \/ WriteSecretUrl(r)
    \/ Kill(r)
    \/ LoseSession(r)

\* The tables of the current revision are tables, and are among a later one's.
LEMMA TablesKnown ==
    ASSUME MigrateTypeOK
    PROVE  /\ Tables \subseteq AllTables
           /\ \A n \in DOMAIN Releases : revision <= n => Tables \subseteq Releases[n]
<1>1. CASE revision = 0
    BY <1>1 DEF Tables
<1>2. CASE revision # 0
    <2>1. revision \in DOMAIN Releases
        BY <1>2 DEF MigrateTypeOK
    <2>2. \A n \in DOMAIN Releases : revision <= n => Releases[revision] \subseteq Releases[n]
        BY <2>1, MigrateAssumption
    <2> QED
        BY <1>2, <2>1, <2>2 DEF Tables, AllTables
<1> QED
    BY <1>1, <1>2

\* A runner's program counter tells the shape of what it keeps.
LEMMA RunShapes ==
    ASSUME NEW x \in Runs
    PROVE  /\ x.pc \in {"idle", "upgrade", "grant", "role", "secret"}
           /\ x.pc = "idle" <=> x = IdleRunner
           /\ x.pc = "upgrade" => x.head \in DOMAIN Releases
           /\ x.pc = "grant" => x.tables \subseteq AllTables
           /\ x.pc \in {"role", "secret"} => x \in RoleRuns
<1>1. CASE x = IdleRunner
    BY <1>1 DEF IdleRunner
<1>2. CASE x \in [pc: {"upgrade"}, head: DOMAIN Releases]
    BY <1>2 DEF IdleRunner
<1>3. CASE x \in [pc: {"grant"}, tables: SUBSET AllTables]
    BY <1>3 DEF IdleRunner
<1>4. CASE x \in RoleRuns
    BY <1>4 DEF IdleRunner, RoleRuns
<1> QED
    BY <1>1, <1>2, <1>3, <1>4 DEF Runs

\* Ending a run leaves the runner idle and outside the lock, and every other
\* runner as it was.
LEMMA EndRunEffect ==
    ASSUME MigrateTypeOK, NEW r \in Runners, EndRun(r)
    PROVE  /\ run' \in [Runners -> Runs]
           /\ lock' = lock \ {r}
           /\ run'[r] = IdleRunner
           /\ run'[r].pc = "idle"
           /\ \A s \in Runners : s # r => run'[s] = run[s]
<1>1. IdleRunner \in Runs /\ IdleRunner.pc = "idle"
    BY DEF Runs, IdleRunner
<1> QED
    BY <1>1 DEF MigrateTypeOK, EndRun

\* Starting a run gives the runner the lock and its values.
LEMMA StartEffect ==
    ASSUME MigrateTypeOK, NEW r \in Runners, NEW x \in Runs,
           run' = [run EXCEPT ![r] = x]
    PROVE  /\ run' \in [Runners -> Runs]
           /\ run'[r] = x
           /\ \A s \in Runners : s # r => run'[s] = run[s]
BY DEF MigrateTypeOK

\* What the grants of the app role become.
LEMMA GrantAppEffect ==
    ASSUME MigrateTypeOK, NEW tables, GrantApp(tables)
    PROVE  /\ DOMAIN grants' = Kinds
           /\ DOMAIN grants'["app"] = DOMAIN grants["app"] \cup tables
           /\ \A t \in tables : grants'["app"][t] = Contract(t)
           /\ defaults' = TRUE
           /\ ungranted' = Tables \ tables
<1>1. "app" \in DOMAIN grants
    BY DEF MigrateTypeOK, Kinds
<1> QED
    BY <1>1 DEF MigrateTypeOK, GrantApp

\* The grants of the parser role leave those of the app role alone.
LEMMA GrantParserEffect ==
    ASSUME MigrateTypeOK, GrantParser
    PROVE  /\ DOMAIN grants' = Kinds
           /\ grants'["app"] = grants["app"]
           /\ defaults' = defaults
           /\ ungranted' = ungranted
BY DEF MigrateTypeOK, GrantParser, Kinds

\* Every step of a runner keeps the types.
LEMMA RunnerTypes ==
    ASSUME MigrateTypeOK, NEW r \in Runners, RunnerStep(r)
    PROVE  MigrateTypeOK'
<1>1. Tables \subseteq AllTables
    BY TablesKnown
<1>2. run[r] \in Runs
    BY DEF MigrateTypeOK
<1>3. CASE StartMigrate(r)
    <2>1. [pc |-> "upgrade", head |-> head] \in Runs
        BY DEF Runs, MigrateTypeOK
    <2>2. run' \in [Runners -> Runs]
        BY <1>3, <2>1, StartEffect DEF StartMigrate
    <2> QED
        BY <1>3, <2>2 DEF StartMigrate, MigrateTypeOK
<1>4. CASE StartGrants(r)
    <2>1. [pc |-> "grant", tables |-> Tables] \in Runs
        BY <1>1 DEF Runs
    <2>2. run' \in [Runners -> Runs]
        BY <1>4, <2>1, StartEffect DEF StartGrants
    <2> QED
        BY <1>4, <2>2 DEF StartGrants, MigrateTypeOK
<1>5. ASSUME NEW k \in Kinds, NEW rotate \in BOOLEAN, StartRole(r, k, rotate)
      PROVE  MigrateTypeOK'
    <2>1. generated' \in Nat
        BY <1>5 DEF StartRole, MigrateTypeOK
    <2>2. [pc |-> "role", kind |-> k, tables |-> Tables, password |-> generated'] \in Runs
        BY <1>1, <2>1 DEF Runs, RoleRuns
    <2>3. run' \in [Runners -> Runs]
        BY <1>5, <2>2, StartEffect DEF StartRole
    <2> QED
        BY <1>5, <2>1, <2>3 DEF StartRole, MigrateTypeOK
<1>6. CASE Upgrade(r)
    <2>1. run' \in [Runners -> Runs] /\ lock' \subseteq lock
        BY <1>6, EndRunEffect DEF Upgrade
    <2>2. revision' \in {0} \cup DOMAIN Releases /\ head' = head
        BY <1>2, <1>6, RunShapes DEF Upgrade, MigrateTypeOK
    <2>3. DOMAIN grants' = Kinds
        BY <1>6 DEF Upgrade, MigrateTypeOK
    <2> QED
        BY <1>6, <2>1, <2>2, <2>3 DEF Upgrade, MigrateTypeOK
<1>7. CASE ApplyGrants(r)
    <2>1. run' \in [Runners -> Runs] /\ lock' \subseteq lock
        BY <1>7, EndRunEffect DEF ApplyGrants
    <2>2. DOMAIN grants' = Kinds /\ defaults' \in BOOLEAN
        BY <1>7, GrantAppEffect DEF ApplyGrants, MigrateTypeOK
    <2> QED
        BY <1>7, <2>1, <2>2 DEF ApplyGrants, MigrateTypeOK
<1>8. CASE CommitRole(r)
    <2>1. run[r] \in RoleRuns
        BY <1>2, <1>8, RunShapes DEF CommitRole
    <2>2. [run[r] EXCEPT !.pc = "secret"] \in RoleRuns
        BY <2>1 DEF RoleRuns
    <2>3. run' = [run EXCEPT ![r] = [run[r] EXCEPT !.pc = "secret"]]
        BY <1>8 DEF CommitRole, MigrateTypeOK
    <2>4. run' \in [Runners -> Runs]
        BY <2>2, <2>3, StartEffect DEF Runs
    <2>5. DOMAIN grants' = Kinds /\ defaults' \in BOOLEAN
        BY <1>8, GrantAppEffect, GrantParserEffect DEF CommitRole, MigrateTypeOK
    <2>6. password' \in [Kinds -> Nat]
        BY <1>8, <2>1 DEF CommitRole, RoleRuns, MigrateTypeOK
    <2> QED
        BY <1>8, <2>4, <2>5, <2>6 DEF CommitRole, MigrateTypeOK
<1>9. CASE RoleFails(r)
    <2>1. run' \in [Runners -> Runs] /\ lock' \subseteq lock
        BY <1>9, EndRunEffect DEF RoleFails
    <2>2. run[r] \in RoleRuns
        BY <1>2, <1>9, RunShapes DEF RoleFails
    <2>3. DOMAIN grants' = Kinds /\ defaults' \in BOOLEAN
        BY <1>9, GrantAppEffect, GrantParserEffect DEF RoleFails, MigrateTypeOK
    <2>4. password' \in [Kinds -> Nat] /\ unsettled' \subseteq Kinds
        BY <1>9, <2>2 DEF RoleFails, RoleRuns, MigrateTypeOK
    <2> QED
        BY <1>9, <2>1, <2>3, <2>4 DEF RoleFails, MigrateTypeOK
<1>10. CASE WriteSecretUrl(r)
    <2>1. run' \in [Runners -> Runs] /\ lock' \subseteq lock
        BY <1>10, EndRunEffect DEF WriteSecretUrl
    <2>2. run[r] \in RoleRuns
        BY <1>2, <1>10, RunShapes DEF WriteSecretUrl
    <2>3. secret' \in [Kinds -> Nat] /\ unsettled' \subseteq Kinds
        BY <1>10, <2>2 DEF WriteSecretUrl, RoleRuns, MigrateTypeOK
    <2> QED
        BY <1>10, <2>1, <2>3 DEF WriteSecretUrl, MigrateTypeOK
<1>11. CASE Kill(r)
    <2>1. run' \in [Runners -> Runs] /\ lock' \subseteq lock
        BY <1>11, EndRunEffect DEF Kill
    <2>2. unsettled' \subseteq Kinds
        BY <1>2, <1>11, RunShapes DEF Kill, RoleRuns, MigrateTypeOK
    <2> QED
        BY <1>11, <2>1, <2>2 DEF Kill, MigrateTypeOK
<1>12. CASE LoseSession(r)
    BY <1>12 DEF LoseSession, MigrateTypeOK
<1> QED
    BY <1>3, <1>4, <1>5, <1>6, <1>7, <1>8, <1>9, <1>10, <1>11, <1>12 DEF RunnerStep

-----------------------------------------------------------------------------
(* The migration runner: the lock and the passwords.                       *)

\* A step of a runner leaves the other runners, and their hold of the lock, as
\* they were; a lost session stays remembered.
LEMMA RunnerMoves ==
    ASSUME MigrateTypeOK, NEW r \in Runners, RunnerStep(r)
    PROVE  /\ \A s \in Runners : s # r => run'[s] = run[s] /\ (s \in lock' <=> s \in lock)
           /\ lost => lost'
           /\ head' = head
<1>1. CASE StartMigrate(r) \/ StartGrants(r) \/ \E k \in Kinds, rotate \in BOOLEAN : StartRole(r, k, rotate)
    BY <1>1 DEF MigrateTypeOK, StartMigrate, StartGrants, StartRole
<1>2. CASE EndRun(r) /\ UNCHANGED <<lost, head>>
    BY <1>2, EndRunEffect
<1>3. CASE CommitRole(r)
    BY <1>3 DEF MigrateTypeOK, CommitRole
<1>4. CASE LoseSession(r)
    BY <1>4 DEF LoseSession, MigrateTypeOK
<1> QED
    BY <1>1, <1>2, <1>3, <1>4
       DEF RunnerStep, Upgrade, ApplyGrants, RoleFails, WriteSecretUrl, Kill

\* Every step of a runner keeps the lock exclusive.
LEMMA RunnerLock ==
    ASSUME MigrateTypeOK, LockInv, NEW r \in Runners, RunnerStep(r)
    PROVE  LockInv'
<1>1. MigrateTypeOK'
    BY RunnerTypes
<1>2. /\ \A s \in Runners : s # r => run'[s] = run[s] /\ (s \in lock' <=> s \in lock)
      /\ lost => lost'
    BY RunnerMoves
<1>3. CASE StartMigrate(r) \/ StartGrants(r) \/ \E k \in Kinds, rotate \in BOOLEAN : StartRole(r, k, rotate)
    <2>1. lock = {} /\ lock' = lock \cup {r}
        BY <1>3 DEF StartMigrate, StartGrants, StartRole, LockFree
    <2> QED
        BY <1>2, <2>1 DEF LockInv
<1>4. CASE EndRun(r)
    <2>1. lock' = lock \ {r} /\ run'[r].pc = "idle"
        BY <1>4, EndRunEffect
    <2> QED
        BY <1>2, <2>1 DEF LockInv
<1>5. CASE CommitRole(r)
    <2>1. lock' = lock /\ r \in lock
        BY <1>5 DEF CommitRole
    <2> QED
        BY <1>2, <2>1 DEF LockInv
<1>6. CASE LoseSession(r)
    <2>1. lock' \subseteq lock /\ lost' = TRUE
        BY <1>6 DEF LoseSession
    <2> QED
        BY <2>1 DEF LockInv
<1> QED
    BY <1>3, <1>4, <1>5, <1>6
       DEF RunnerStep, Upgrade, ApplyGrants, RoleFails, WriteSecretUrl, Kill

\* A step that sets no password and leaves the runner without one keeps what is
\* known of the passwords.
LEMMA PasswordsKept ==
    ASSUME MigrateTypeOK, MigrateTypeOK', PasswordInv, NEW r \in Runners,
           \A s \in Runners : s # r => run'[s] = run[s] /\ (s \in lock' <=> s \in lock),
           generated <= generated',
           password' = password,
           run'[r].pc \notin {"role", "secret"}
    PROVE  PasswordInv'
<1>1. \A k \in Kinds : password'[k] <= generated'
    BY DEF MigrateTypeOK, PasswordInv
<1>2. ASSUME NEW s \in Runners, run'[s].pc \in {"role", "secret"}
      PROVE  /\ run'[s] = run[s] /\ (s \in lock' <=> s \in lock)
             /\ run'[s].password \in 1..generated'
    <2>1. run'[s] = run[s] /\ (s \in lock' <=> s \in lock)
        BY <1>2
    <2>2. run[s].password \in 1..generated
        BY <1>2, <2>1 DEF PasswordInv
    <2> QED
        BY <2>1, <2>2 DEF MigrateTypeOK
<1> QED
    BY <1>1, <1>2 DEF PasswordInv

\* A committed password is newer than every password so far, so runners that
\* lost the lock are only later still.
LEMMA PasswordCommitted ==
    ASSUME MigrateTypeOK, LockInv, PasswordInv, NEW r \in lock,
           run[r].pc = "role",
           password' = [password EXCEPT ![run[r].kind] = run[r].password]
    PROVE  /\ password' \in [Kinds -> Nat]
           /\ run[r].kind \in Kinds
           /\ password'[run[r].kind] = run[r].password
           /\ \A k \in Kinds : password[k] <= password'[k] /\ password'[k] <= generated
<1>1. r \in Runners /\ run[r] \in Runs
    BY DEF MigrateTypeOK
<1>2. run[r] \in RoleRuns
    BY <1>1, RunShapes
<1>3. run[r].kind \in Kinds /\ run[r].password \in Nat
    BY <1>2 DEF RoleRuns
<1>4. \A k \in Kinds : password[k] < run[r].password
    BY <1>1 DEF PasswordInv
<1>5. run[r].password <= generated
    BY <1>1, <1>3 DEF PasswordInv, MigrateTypeOK
<1>6. \A k \in Kinds : password[k] \in Nat /\ password[k] <= generated
    BY DEF PasswordInv, MigrateTypeOK
<1>7. \A k \in Kinds : password'[k] = IF k = run[r].kind THEN run[r].password ELSE password[k]
    BY DEF MigrateTypeOK
<1> QED
    BY <1>3, <1>4, <1>5, <1>6, <1>7 DEF MigrateTypeOK

\* Every step of a runner keeps what is known of the passwords.
LEMMA RunnerPasswords ==
    ASSUME MigrateTypeOK, LockInv, PasswordInv, NEW r \in Runners, RunnerStep(r)
    PROVE  PasswordInv'
<1>1. MigrateTypeOK' /\ LockInv'
    BY RunnerTypes, RunnerLock
<1>2. \A s \in Runners : s # r => run'[s] = run[s] /\ (s \in lock' <=> s \in lock)
    BY RunnerMoves
<1>3. run[r] \in Runs /\ generated \in Nat
    BY DEF MigrateTypeOK
<1>4. CASE StartMigrate(r) \/ StartGrants(r)
    <2>1. run'[r].pc \notin {"role", "secret"}
        BY <1>4 DEF StartMigrate, StartGrants, MigrateTypeOK
    <2>2. password' = password /\ generated' = generated
        BY <1>4 DEF StartMigrate, StartGrants
    <2> QED
        BY <1>1, <1>2, <1>3, <2>1, <2>2, PasswordsKept
<1>5. ASSUME NEW k \in Kinds, NEW rotate \in BOOLEAN, StartRole(r, k, rotate)
      PROVE  PasswordInv'
    <2>1. /\ generated' = generated + 1 /\ password' = password
          /\ run'[r].pc = "role" /\ run'[r].password = generated'
        BY <1>5 DEF StartRole, MigrateTypeOK
    <2>2. \A j \in Kinds : password'[j] < generated'
        BY <1>3, <2>1 DEF PasswordInv, MigrateTypeOK
    <2>3. ASSUME NEW s \in Runners, s # r, run[s].pc \in {"role", "secret"}
          PROVE  run[s].password \in 1..generated'
        BY <1>3, <2>1, <2>3 DEF PasswordInv
    <2>4. run'[r].password \in 1..generated'
        BY <1>3, <2>1
    <2>5. \A j \in Kinds : password'[j] <= generated'
        BY <1>1, <2>2 DEF MigrateTypeOK
    <2> QED
        BY <1>2, <2>1, <2>2, <2>3, <2>4, <2>5 DEF PasswordInv
<1>6. CASE EndRun(r) /\ password' = password /\ generated' = generated
    <2>1. run'[r].pc \notin {"role", "secret"}
        BY <1>6, EndRunEffect
    <2> QED
        BY <1>1, <1>2, <1>3, <1>6, <2>1, PasswordsKept
<1>7. ASSUME r \in lock, run[r].pc = "role", generated' = generated,
             password' = [password EXCEPT ![run[r].kind] = run[r].password]
      PROVE  /\ \A k \in Kinds : password'[k] <= generated'
             /\ password'[run[r].kind] = run[r].password
             /\ \A s \in Runners : s # r =>
                  /\ run'[s].pc \in {"role", "secret"} => run'[s].password \in 1..generated'
                  /\ s \notin lock'
                  /\ run'[s].pc = "secret" => run'[s].password <= password'[run'[s].kind]
    <2>1. /\ password'[run[r].kind] = run[r].password
          /\ \A k \in Kinds : password[k] <= password'[k] /\ password'[k] <= generated
        BY <1>7, PasswordCommitted
    <2>2. ASSUME NEW s \in Runners, s # r
          PROVE  /\ run'[s].pc \in {"role", "secret"} => run'[s].password \in 1..generated'
                 /\ s \notin lock'
                 /\ run'[s].pc = "secret" => run'[s].password <= password'[run'[s].kind]
        <3>1. run'[s] = run[s] /\ s \notin lock'
            BY <1>2, <1>7, <2>2 DEF LockInv
        <3>2. run[s].pc \in {"role", "secret"} => run[s].password \in 1..generated
            BY DEF PasswordInv
        <3>3. ASSUME run[s].pc = "secret"
              PROVE  run[s].password <= password'[run[s].kind]
            <4>1. run[s] \in RoleRuns
                BY <3>3, RunShapes DEF MigrateTypeOK
            <4>2. run[s].kind \in Kinds /\ run[s].password \in Nat
                BY <4>1 DEF RoleRuns
            <4>3. run[s].password <= password[run[s].kind]
                BY <3>3 DEF PasswordInv
            <4>4. password[run[s].kind] \in Nat /\ password'[run[s].kind] \in Nat
                BY <1>1, <4>2 DEF MigrateTypeOK
            <4> QED
                BY <2>1, <4>2, <4>3, <4>4
        <3> QED
            BY <1>7, <3>1, <3>2, <3>3
    <2> QED
        BY <1>7, <2>1, <2>2
<1>8. CASE CommitRole(r)
    <2>1. /\ r \in lock /\ run[r].pc = "role" /\ generated' = generated
          /\ password' = [password EXCEPT ![run[r].kind] = run[r].password]
        BY <1>8 DEF CommitRole
    <2>2. run[r] \in RoleRuns
        BY <1>3, <2>1, RunShapes
    <2>3. run'[r].pc = "secret" /\ run'[r].kind = run[r].kind /\ run'[r].password = run[r].password
        BY <1>8, <2>2 DEF CommitRole, MigrateTypeOK, RoleRuns
    <2>4. run[r].password \in 1..generated /\ run[r].password \in Nat
        BY <2>1, <2>2 DEF PasswordInv, RoleRuns
    <2>5. run'[r].password <= password'[run'[r].kind] /\ run'[r].password = password'[run'[r].kind]
        BY <1>7, <2>1, <2>3, <2>4
    <2> QED
        BY <1>7, <2>1, <2>3, <2>4, <2>5 DEF PasswordInv
<1>9. CASE RoleFails(r)
    <2>1. CASE password' = password
        BY <1>6, <1>9, <2>1 DEF RoleFails
    <2>2. CASE password' # password
        <3>1. /\ r \in lock /\ run[r].pc = "role" /\ generated' = generated
              /\ password' = [password EXCEPT ![run[r].kind] = run[r].password]
            BY <1>9, <2>2 DEF RoleFails
        <3>2. run'[r].pc = "idle"
            BY <1>9, EndRunEffect DEF RoleFails
        <3> QED
            BY <1>7, <3>1, <3>2 DEF PasswordInv
    <2> QED
        BY <2>1, <2>2
<1>10. CASE LoseSession(r)
    BY <1>10 DEF LoseSession, PasswordInv
<1> QED
    BY <1>4, <1>5, <1>6, <1>8, <1>9, <1>10
       DEF RunnerStep, Upgrade, ApplyGrants, WriteSecretUrl, Kill

-----------------------------------------------------------------------------
(* The migration runner: credentials.                                      *)

\* The first part of CredentialsAgree, for one role.
Accounted(k) ==
    \/ lost
    \/ secret[k] = password[k]
    \/ k \in unsettled
    \/ \E r \in Runners : run[r].pc = "secret" /\ run[r].kind = k

\* No step of a runner gives a role an older password.
LEMMA PasswordsGrow ==
    ASSUME MigrateTypeOK, LockInv, PasswordInv, NEW r \in Runners, RunnerStep(r)
    PROVE  \A k \in Kinds : password[k] <= password'[k]
<1>1. CASE password' = password
    BY <1>1 DEF MigrateTypeOK
<1>2. CASE password' # password
    <2>1. /\ r \in lock /\ run[r].pc = "role"
          /\ password' = [password EXCEPT ![run[r].kind] = run[r].password]
        BY <1>2 DEF RunnerStep, StartMigrate, StartGrants, StartRole, Upgrade, ApplyGrants,
                    CommitRole, RoleFails, WriteSecretUrl, Kill, LoseSession
    <2> QED
        BY <2>1, PasswordCommitted
<1> QED
    BY <1>1, <1>2

\* A role stays accounted for when a runner that owes it no secret moves.
LEMMA AccountedKept ==
    ASSUME MigrateTypeOK, NEW k \in Kinds, Accounted(k),
           NEW r \in Runners, RunnerStep(r),
           run[r].pc # "secret" \/ run[r].kind # k,
           password'[k] = password[k],
           secret'[k] = secret[k],
           k \in unsettled => k \in unsettled'
    PROVE  Accounted(k)'
<1>1. /\ \A s \in Runners : s # r => run'[s] = run[s]
      /\ lost => lost'
    BY RunnerMoves
<1> QED
    BY <1>1 DEF Accounted

\* Every step of a runner keeps both roles accounted for.
LEMMA RunnerAccounted ==
    ASSUME MigrateTypeOK, LockInv, PasswordInv, NEW k \in Kinds, Accounted(k),
           NEW r \in Runners, RunnerStep(r)
    PROVE  Accounted(k)'
<1>1. run[r] \in Runs
    BY DEF MigrateTypeOK
<1>2. CASE StartMigrate(r) \/ StartGrants(r) \/ \E j \in Kinds, rotate \in BOOLEAN : StartRole(r, j, rotate)
    <2>1. run[r].pc # "secret"
        BY <1>1, <1>2, RunShapes DEF StartMigrate, StartGrants, StartRole
    <2>2. password' = password /\ secret' = secret /\ unsettled' = unsettled
        BY <1>2 DEF StartMigrate, StartGrants, StartRole
    <2> QED
        BY <2>1, <2>2, AccountedKept
<1>3. CASE Upgrade(r) \/ ApplyGrants(r)
    <2>1. run[r].pc # "secret"
        BY <1>3 DEF Upgrade, ApplyGrants
    <2>2. password' = password /\ secret' = secret /\ unsettled' = unsettled
        BY <1>3 DEF Upgrade, ApplyGrants
    <2> QED
        BY <2>1, <2>2, AccountedKept
<1>4. CASE CommitRole(r)
    <2>1. run[r] \in RoleRuns
        BY <1>1, <1>4, RunShapes DEF CommitRole
    <2>2. run'[r].pc = "secret" /\ run'[r].kind = run[r].kind
        BY <1>4, <2>1 DEF CommitRole, MigrateTypeOK, RoleRuns
    <2>3. CASE run[r].kind = k
        BY <2>2, <2>3 DEF Accounted
    <2>4. CASE run[r].kind # k
        <3>1. password'[k] = password[k] /\ secret' = secret /\ run[r].pc # "secret"
            BY <1>4, <2>4 DEF CommitRole, MigrateTypeOK
        <3>2. k \in unsettled => k \in unsettled'
            BY <1>4, <2>4 DEF CommitRole
        <3> QED
            BY <3>1, <3>2, AccountedKept
    <2> QED
        BY <2>3, <2>4
<1>5. CASE RoleFails(r)
    <2>1. run[r].pc # "secret" /\ secret' = secret
        BY <1>5 DEF RoleFails
    <2>2. CASE password' = password /\ unsettled' = unsettled
        BY <2>1, <2>2, AccountedKept
    <2>3. CASE /\ password' = [password EXCEPT ![run[r].kind] = run[r].password]
               /\ unsettled' = unsettled \cup {run[r].kind}
        <3>1. CASE run[r].kind = k
            BY <2>3, <3>1 DEF Accounted
        <3>2. CASE run[r].kind # k
            <4>1. password'[k] = password[k]
                BY <2>3, <3>2 DEF MigrateTypeOK
            <4> QED
                BY <2>1, <2>3, <4>1, AccountedKept
        <3> QED
            BY <3>1, <3>2
    <2> QED
        BY <1>5, <2>2, <2>3 DEF RoleFails
<1>6. CASE WriteSecretUrl(r)
    <2>1. password' = password /\ lost' = lost
        BY <1>6 DEF WriteSecretUrl
    <2>2. CASE run[r].kind # k
        <3>1. secret'[k] = secret[k] /\ unsettled \subseteq unsettled'
            BY <1>6, <2>2 DEF WriteSecretUrl, MigrateTypeOK
        <3> QED
            BY <2>1, <2>2, <3>1, AccountedKept
    <2>3. CASE run[r].kind = k
        <3>1. CASE lost \/ k \in unsettled'
            BY <2>1, <3>1 DEF Accounted
        <3>2. CASE ~lost /\ k \notin unsettled'
            <4>1. secret'[k] = run[r].password /\ run[r].pc = "secret"
                BY <1>6, <2>3, <3>2 DEF WriteSecretUrl, MigrateTypeOK
            <4>2. r \in lock
                BY <3>2, <4>1 DEF LockInv
            <4>3. run[r].password = password[k]
                BY <2>3, <4>1, <4>2 DEF PasswordInv
            <4> QED
                BY <2>1, <4>1, <4>3 DEF Accounted
        <3> QED
            BY <3>1, <3>2
    <2> QED
        BY <2>2, <2>3
<1>7. CASE Kill(r)
    <2>1. password' = password /\ secret' = secret /\ unsettled \subseteq unsettled'
        BY <1>7 DEF Kill
    <2>2. CASE run[r].pc # "secret" \/ run[r].kind # k
        BY <2>1, <2>2, AccountedKept
    <2>3. CASE run[r].pc = "secret" /\ run[r].kind = k
        BY <1>7, <2>3 DEF Kill, Accounted
    <2> QED
        BY <2>2, <2>3
<1>8. CASE LoseSession(r)
    BY <1>8 DEF LoseSession, Accounted
<1> QED
    BY <1>2, <1>3, <1>4, <1>5, <1>6, <1>7, <1>8 DEF RunnerStep

\* Every step of a runner keeps the credentials in agreement.
LEMMA RunnerCredentials ==
    ASSUME MigrateTypeOK, LockInv, PasswordInv, CredentialsAgree,
           NEW r \in Runners, RunnerStep(r)
    PROVE  CredentialsAgree'
<1>1. MigrateTypeOK'
    BY RunnerTypes
<1>2. \A k \in Kinds : password[k] <= password'[k]
    BY PasswordsGrow
<1>3. \A k \in Kinds : Accounted(k)'
    <2>1. \A k \in Kinds : Accounted(k)
        BY DEF CredentialsAgree, Accounted
    <2> QED
        BY <2>1, RunnerAccounted
<1>4. ASSUME NEW k \in Kinds
      PROVE  secret'[k] <= password'[k]
    <2>1. secret[k] <= password[k]
        BY DEF CredentialsAgree
    <2>2. secret[k] \in Nat /\ password[k] \in Nat /\ password'[k] \in Nat
        BY <1>1 DEF MigrateTypeOK
    <2>3. CASE secret'[k] = secret[k]
        BY <1>2, <2>1, <2>2, <2>3
    <2>4. CASE secret'[k] # secret[k]
        <3>1. /\ run[r].pc = "secret" /\ run[r].kind = k
              /\ secret'[k] = run[r].password /\ password' = password
            BY <2>4 DEF RunnerStep, StartMigrate, StartGrants, StartRole, Upgrade, ApplyGrants,
                        CommitRole, RoleFails, WriteSecretUrl, Kill, LoseSession, MigrateTypeOK
        <3> QED
            BY <3>1 DEF PasswordInv
    <2> QED
        BY <2>3, <2>4
<1>5. ASSUME NEW p \in Processes
      PROVE  api'[p] <= password'["app"]
    <2>1. api' = api
        BY DEF RunnerStep, StartMigrate, StartGrants, StartRole, Upgrade, ApplyGrants,
               CommitRole, RoleFails, WriteSecretUrl, Kill, LoseSession
    <2>2. "app" \in Kinds
        BY DEF Kinds
    <2>3. api[p] \in Nat /\ password["app"] \in Nat /\ password'["app"] \in Nat
        BY <1>1, <2>2 DEF MigrateTypeOK
    <2>4. api[p] <= password["app"]
        BY DEF CredentialsAgree
    <2> QED
        BY <1>2, <2>1, <2>2, <2>3, <2>4
<1> QED
    BY <1>3, <1>4, <1>5 DEF CredentialsAgree, Accounted

-----------------------------------------------------------------------------
(* The migration runner: grants.                                           *)

\* A step that neither migrates nor touches the app role's grants keeps what is
\* known of them.
LEMMA GrantsKept ==
    ASSUME MigrateTypeOK, GrantInv, GrantsFollowContract,
           NEW r \in Runners, RunnerStep(r),
           revision' = revision, grants'["app"] = grants["app"],
           defaults' = defaults, ungranted' = ungranted,
           password'["app"] = password["app"],
           run'[r].pc \in {"grant", "role"} => run'[r] = run[r] \/ run'[r].tables = Tables
    PROVE  GrantInv' /\ GrantsFollowContract'
<1>1. /\ \A s \in Runners : s # r => run'[s] = run[s]
      /\ lost => lost'
    BY RunnerMoves
<1>2. Tables' = Tables
    BY DEF Tables
<1>3. ASSUME NEW s \in Runners, run'[s].pc \in {"grant", "role"}
      PROVE  run'[s].tables \subseteq Tables /\ (lost' \/ run'[s].tables = Tables)
    <2>1. CASE run'[s] = run[s]
        BY <1>1, <1>3, <2>1 DEF GrantInv
    <2>2. CASE run'[s] # run[s]
        BY <1>1, <1>3, <2>2
    <2> QED
        BY <2>1, <2>2
<1>4. GrantInv'
    BY <1>2, <1>3 DEF GrantInv
<1>5. GrantsFollowContract'
    BY <1>1, <1>2 DEF GrantsFollowContract, Contract
<1> QED
    BY <1>4, <1>5

\* Granting the tables a runner read under the lock contracts all of them,
\* unless a session was lost in between.
LEMMA GrantsApplied ==
    ASSUME MigrateTypeOK, GrantInv, GrantsFollowContract,
           NEW r \in Runners, RunnerStep(r),
           run[r].pc \in {"grant", "role"}, GrantApp(run[r].tables),
           revision' = revision, lost' = lost,
           run'[r].pc \notin {"grant", "role"}
    PROVE  GrantInv' /\ GrantsFollowContract'
<1>1. \A s \in Runners : s # r => run'[s] = run[s]
    BY RunnerMoves
<1>2. Tables' = Tables
    BY DEF Tables
<1>3. run[r].tables \subseteq Tables /\ (lost \/ run[r].tables = Tables)
    BY DEF GrantInv
<1>4. /\ DOMAIN grants'["app"] = DOMAIN grants["app"] \cup run[r].tables
      /\ \A t \in run[r].tables : grants'["app"][t] = Contract(t)
      /\ defaults' = TRUE
      /\ ungranted' = Tables \ run[r].tables
    BY GrantAppEffect
<1>5. GrantInv'
    BY <1>1, <1>2, <1>3, <1>4 DEF GrantInv
<1>6. ASSUME NEW t \in Tables'
      PROVE  LET may == IF t \in DOMAIN grants'["app"] THEN grants'["app"][t] ELSE {}
             IN IF t \in ungranted' THEN lost' \/ may = {"select", "insert"}
                ELSE may = Contract(t)
    <2>1. CASE t \in run[r].tables
        BY <1>4, <2>1
    <2>2. CASE t \notin run[r].tables
        BY <1>2, <1>3, <1>4, <1>6, <2>2
    <2> QED
        BY <2>1, <2>2
<1>7. GrantsFollowContract'
    BY <1>6 DEF GrantsFollowContract, Contract
<1> QED
    BY <1>5, <1>7

\* A migration gives the app role the default privileges on what it creates.
LEMMA GrantsUpgraded ==
    ASSUME MigrateTypeOK, LockInv, GrantInv, GrantsFollowContract,
           NEW r \in Runners, Upgrade(r),
           NEW to \in DOMAIN Releases, revision <= to, revision' = to,
           grants' = [grants EXCEPT !["app"] =
                        [t \in DOMAIN @ \cup (IF defaults THEN Releases[to] \ Tables ELSE {}) |->
                           IF t \in DOMAIN @ THEN @[t] ELSE {"select", "insert"}]],
           ungranted' = ungranted \cup (Releases[to] \ Tables)
    PROVE  GrantInv' /\ GrantsFollowContract'
<1> DEFINE new == Releases[to] \ Tables
           more == IF defaults THEN new ELSE {}
<1>1. /\ \A s \in Runners : s # r => run'[s] = run[s] /\ (s \in lock' <=> s \in lock)
      /\ run'[r].pc = "idle" /\ run[r].pc = "upgrade"
      /\ lost' = lost /\ defaults' = defaults /\ password' = password
    BY EndRunEffect DEF Upgrade
<1>2. Tables' = Releases[to]
    BY MigrateAssumption DEF Tables
<1>3. Tables \subseteq Releases[to]
    BY TablesKnown
<1>4. "app" \in DOMAIN grants
    BY DEF MigrateTypeOK, Kinds
<1>5. grants'["app"] = [t \in DOMAIN grants["app"] \cup more |->
                          IF t \in DOMAIN grants["app"] THEN grants["app"][t]
                          ELSE {"select", "insert"}]
    BY <1>4
<1>6. /\ DOMAIN grants'["app"] = DOMAIN grants["app"] \cup more
      /\ \A t \in DOMAIN grants["app"] : grants'["app"][t] = grants["app"][t]
      /\ \A t \in more : t \notin DOMAIN grants["app"] =>
            grants'["app"][t] = {"select", "insert"}
    BY <1>5
<1>7. DOMAIN grants["app"] \subseteq Tables
    BY DEF GrantInv
<1>8. ASSUME NEW s \in Runners, run'[s].pc \in {"grant", "role"}
      PROVE  run'[s].tables \subseteq Tables' /\ (lost' \/ run'[s].tables = Tables')
    <2>1. s # r /\ run'[s] = run[s]
        BY <1>1, <1>8
    <2>2. run[s].tables \subseteq Tables
        BY <1>8, <2>1 DEF GrantInv
    <2>3. lost
        BY <1>1, <1>8, <2>1 DEF LockInv
    <2> QED
        BY <1>1, <1>2, <1>3, <2>1, <2>2, <2>3
<1>9. GrantInv'
    BY <1>1, <1>2, <1>3, <1>6, <1>7, <1>8 DEF GrantInv
<1>10. ASSUME password["app"] # 0, NEW t \in Releases[to]
       PROVE  LET may == IF t \in DOMAIN grants'["app"] THEN grants'["app"][t] ELSE {}
              IN IF t \in ungranted' THEN lost \/ may = {"select", "insert"}
                 ELSE may = Contract(t)
    <2>1. more = new
        BY <1>10 DEF GrantInv
    <2>2. CASE t \in Tables
        <3>1. t \notin new
            BY <2>2
        <3>2. t \in ungranted' <=> t \in ungranted
            BY <3>1
        <3>3. t \in DOMAIN grants'["app"] <=> t \in DOMAIN grants["app"]
            BY <1>6, <2>1, <3>1
        <3>4. LET may == IF t \in DOMAIN grants["app"] THEN grants["app"][t] ELSE {}
              IN IF t \in ungranted THEN lost \/ may = {"select", "insert"}
                 ELSE may = Contract(t)
            BY <1>10, <2>2 DEF GrantsFollowContract
        <3> QED
            BY <1>6, <3>2, <3>3, <3>4
    <2>3. CASE t \notin Tables
        BY <1>6, <1>7, <1>10, <2>1, <2>3
    <2> QED
        BY <2>2, <2>3
<1>11. GrantsFollowContract'
    BY <1>1, <1>2, <1>10 DEF GrantsFollowContract, Contract
<1> QED
    BY <1>9, <1>11

\* Every step of a runner keeps the app role's grants as contracted.
LEMMA RunnerGrants ==
    ASSUME MigrateTypeOK, LockInv, PasswordInv, GrantInv, GrantsFollowContract,
           NEW r \in Runners, RunnerStep(r)
    PROVE  GrantInv' /\ GrantsFollowContract'
<1>1. run[r] \in Runs /\ "app" \in Kinds
    BY DEF MigrateTypeOK, Kinds
<1>2. CASE StartMigrate(r) \/ StartGrants(r) \/ \E k \in Kinds, rotate \in BOOLEAN : StartRole(r, k, rotate)
    <2>1. /\ revision' = revision /\ grants' = grants /\ defaults' = defaults
          /\ ungranted' = ungranted /\ password' = password
        BY <1>2 DEF StartMigrate, StartGrants, StartRole
    <2>2. run'[r].pc \in {"grant", "role"} => run'[r].tables = Tables
        BY <1>2 DEF StartMigrate, StartGrants, StartRole, MigrateTypeOK
    <2> QED
        BY <2>1, <2>2, GrantsKept
<1>3. ASSUME EndRun(r), revision' = revision, grants' = grants, defaults' = defaults,
             ungranted' = ungranted, password' = password
      PROVE  GrantInv' /\ GrantsFollowContract'
    <2>1. run'[r].pc = "idle"
        BY <1>3, EndRunEffect
    <2> QED
        BY <1>3, <2>1, GrantsKept
<1>4. CASE Upgrade(r)
    <2>1. CASE revision' = revision /\ grants' = grants /\ ungranted' = ungranted
        BY <1>3, <1>4, <2>1 DEF Upgrade
    <2>2. PICK to \in DOMAIN Releases : to = run[r].head
        BY <1>1, <1>4, RunShapes DEF Upgrade
    <2>3. CASE /\ revision <= to /\ revision' = to
               /\ grants' = [grants EXCEPT !["app"] =
                        [t \in DOMAIN @ \cup (IF defaults THEN Releases[to] \ Tables ELSE {}) |->
                           IF t \in DOMAIN @ THEN @[t] ELSE {"select", "insert"}]]
               /\ ungranted' = ungranted \cup (Releases[to] \ Tables)
        BY <1>4, <2>3, GrantsUpgraded
    <2> QED
        BY <1>4, <2>1, <2>2, <2>3 DEF Upgrade
<1>5. CASE ApplyGrants(r)
    <2>1. EndRun(r) /\ run[r].pc = "grant" /\ revision' = revision /\ lost' = lost
                    /\ password' = password
        BY <1>5 DEF ApplyGrants
    <2>2. CASE GrantApp(run[r].tables)
        <3>1. run'[r].pc = "idle"
            BY <2>1, EndRunEffect
        <3> QED
            BY <2>1, <2>2, <3>1, GrantsApplied
    <2>3. CASE UNCHANGED <<grants, defaults, ungranted>>
        BY <1>3, <2>1, <2>3
    <2> QED
        BY <1>5, <2>2, <2>3 DEF ApplyGrants
<1>6. ASSUME run[r].pc = "role", revision' = revision, lost' = lost,
             run'[r].pc \notin {"grant", "role"},
             password' = [password EXCEPT ![run[r].kind] = run[r].password],
             IF run[r].kind = "app" THEN GrantApp(run[r].tables) ELSE GrantParser
      PROVE  GrantInv' /\ GrantsFollowContract'
    <2>1. CASE run[r].kind = "app"
        BY <1>6, <2>1, GrantsApplied
    <2>2. CASE run[r].kind # "app"
        <3>1. password'["app"] = password["app"]
            BY <1>1, <1>6, <2>2 DEF MigrateTypeOK
        <3>2. /\ grants'["app"] = grants["app"] /\ defaults' = defaults
              /\ ungranted' = ungranted
            BY <1>6, <2>2, GrantParserEffect
        <3> QED
            BY <1>6, <3>1, <3>2, GrantsKept
    <2> QED
        BY <2>1, <2>2
<1>7. CASE CommitRole(r)
    <2>1. run[r] \in RoleRuns
        BY <1>1, <1>7, RunShapes DEF CommitRole
    <2>2. run'[r].pc = "secret"
        BY <1>7, <2>1 DEF CommitRole, MigrateTypeOK, RoleRuns
    <2> QED
        BY <1>6, <1>7, <2>2 DEF CommitRole
<1>8. CASE RoleFails(r)
    <2>1. EndRun(r) /\ run[r].pc = "role" /\ revision' = revision /\ lost' = lost
        BY <1>8 DEF RoleFails
    <2>2. run'[r].pc = "idle"
        BY <2>1, EndRunEffect
    <2>3. CASE UNCHANGED <<password, grants, defaults, ungranted>>
        BY <1>3, <2>1, <2>3
    <2>4. CASE /\ password' = [password EXCEPT ![run[r].kind] = run[r].password]
               /\ IF run[r].kind = "app" THEN GrantApp(run[r].tables) ELSE GrantParser
        BY <1>6, <2>1, <2>2, <2>4
    <2> QED
        BY <1>8, <2>3, <2>4 DEF RoleFails
<1>9. CASE WriteSecretUrl(r) \/ Kill(r)
    BY <1>3, <1>9 DEF WriteSecretUrl, Kill
<1>10. CASE LoseSession(r)
    BY <1>10, GrantsKept DEF LoseSession
<1> QED
    BY <1>2, <1>4, <1>5, <1>7, <1>8, <1>9, <1>10 DEF RunnerStep

-----------------------------------------------------------------------------
(* The migration runner: the theorems.                                     *)

\* The invariant holds initially.
LEMMA MigrateInitInv ==
    ASSUME MigrateInit
    PROVE  MigrateInv
<1>1. 1 \in DOMAIN Releases
    BY MigrateAssumption
<1>2. IdleRunner \in Runs /\ IdleRunner.pc = "idle"
    BY DEF Runs, IdleRunner
<1>3. MigrateTypeOK
    <2>1. revision \in {0} \cup DOMAIN Releases /\ head \in DOMAIN Releases
        BY <1>1 DEF MigrateInit
    <2>2. password \in [Kinds -> Nat] /\ secret \in [Kinds -> Nat] /\ api \in [Processes -> Nat]
        BY DEF MigrateInit
    <2>3. run \in [Runners -> Runs]
        BY <1>2 DEF MigrateInit
    <2> QED
        BY <2>1, <2>2, <2>3 DEF MigrateInit, MigrateTypeOK
<1>4. \A r \in Runners : run[r].pc = "idle"
    BY <1>2 DEF MigrateInit
<1>5. LockInv /\ PasswordInv
    BY <1>4 DEF MigrateInit, LockInv, PasswordInv
<1>6. CredentialsAgree
    BY DEF MigrateInit, CredentialsAgree, Kinds
<1>7. DOMAIN grants["app"] = {} /\ password["app"] = 0 /\ Tables = {}
    BY DEF MigrateInit, Kinds, NoTable, Tables
<1>8. GrantInv /\ GrantsFollowContract
    BY <1>4, <1>7 DEF GrantInv, GrantsFollowContract
<1> QED
    BY <1>3, <1>5, <1>6, <1>8 DEF MigrateInv

\* Every step keeps the invariant.
LEMMA MigrateStepInv ==
    ASSUME MigrateInv, [MigrateNext]_migrateVars
    PROVE  MigrateInv'
<1> USE DEF MigrateInv
<1>1. ASSUME NEW r \in Runners, RunnerStep(r)
      PROVE  MigrateInv'
    BY <1>1, RunnerTypes, RunnerLock, RunnerPasswords, RunnerCredentials, RunnerGrants
<1>2. ASSUME UNCHANGED <<revision, password, secret, grants, defaults, lock, run, api,
                         generated, unsettled, ungranted, lost>>,
             head' \in DOMAIN Releases
      PROVE  MigrateInv'
    <2>1. MigrateTypeOK'
        BY <1>2 DEF MigrateTypeOK
    <2>2. LockInv' /\ PasswordInv' /\ CredentialsAgree'
        BY <1>2 DEF LockInv, PasswordInv, CredentialsAgree
    <2>3. Tables' = Tables
        BY <1>2 DEF Tables
    <2>4. GrantInv' /\ GrantsFollowContract'
        BY <1>2, <2>3 DEF GrantInv, GrantsFollowContract, Contract
    <2> QED
        BY <2>1, <2>2, <2>4
<1>3. CASE DeployImage
    BY <1>2, <1>3 DEF DeployImage
<1>4. ASSUME NEW p \in Processes, ColdStart(p) \/ Recycle(p)
      PROVE  MigrateInv'
    <2>1. UNCHANGED <<revision, head, password, secret, grants, defaults, lock, run,
                      generated, unsettled, ungranted, lost>>
        BY <1>4 DEF ColdStart, Recycle
    <2>2. "app" \in Kinds
        BY DEF Kinds
    <2>3. api' \in [Processes -> Nat]
        BY <1>4, <2>2 DEF ColdStart, Recycle, MigrateTypeOK
    <2>4. \A q \in Processes : api'[q] \in {api[q], 0, secret["app"]}
        BY <1>4 DEF ColdStart, Recycle, MigrateTypeOK
    <2>5. MigrateTypeOK'
        BY <2>1, <2>3 DEF MigrateTypeOK
    <2>6. password["app"] \in Nat /\ secret["app"] <= password["app"]
        BY <2>2 DEF MigrateTypeOK, CredentialsAgree
    <2>7. \A q \in Processes : api'[q] <= password'["app"]
        BY <2>1, <2>4, <2>6 DEF CredentialsAgree
    <2>8. LockInv' /\ PasswordInv' /\ CredentialsAgree'
        BY <2>1, <2>7 DEF LockInv, PasswordInv, CredentialsAgree
    <2>9. Tables' = Tables
        BY <2>1 DEF Tables
    <2>10. GrantInv' /\ GrantsFollowContract'
        BY <2>1, <2>9 DEF GrantInv, GrantsFollowContract, Contract
    <2> QED
        BY <2>5, <2>8, <2>10
<1>5. CASE UNCHANGED migrateVars
    <2>1. head' \in DOMAIN Releases
        BY <1>5 DEF migrateVars, MigrateTypeOK
    <2> QED
        BY <1>2, <1>5, <2>1 DEF migrateVars
<1> QED
    BY <1>1, <1>3, <1>4, <1>5 DEF MigrateNext, RunnerStep

\* The inductive invariant of the migration runner holds in every reachable
\* state, for any sets of runners and processes and any cumulative releases
\* (lambda_migrate.py).
THEOREM MigrateInvariance == MigrateSpec => []MigrateInv
<1>1. MigrateInit => MigrateInv
    BY MigrateInitInv
<1>2. MigrateInv /\ [MigrateNext]_migrateVars => MigrateInv'
    BY MigrateStepInv
<1> QED
    BY <1>1, <1>2, PTL DEF MigrateSpec

\* A role and its secret disagree only while a run is on its way or after one
\* that did not report success, and no process starts with a URL that its role
\* never had (_create_login_role, ColdStartSecrets).
THEOREM CredentialsInAgreement == MigrateSpec => []CredentialsAgree
<1>1. MigrateInv => CredentialsAgree
    BY DEF MigrateInv
<1> QED
    BY <1>1, MigrateInvariance, PTL

\* The app role uses every table as contracted, or only reads and appends until
\* the grants are applied again (grant_statements, _apply_grants,
\* _create_login_role).
THEOREM GrantsContracted == MigrateSpec => []GrantsFollowContract
<1>1. MigrateInv => GrantsFollowContract
    BY DEF MigrateInv
<1> QED
    BY <1>1, MigrateInvariance, PTL

-----------------------------------------------------------------------------
(* Publishing the guest demo: its inductive invariant.                     *)

Publications == [viewer: Viewers, complete: BOOLEAN]

Plans == [hash: Hashes, previous: Hashes \cup {None}, served: SUBSET Hashes,
          withdrawn: SUBSET (Hashes \cup {None}), history: Seq(Entries), new: BOOLEAN]

Sites == [hash: Hashes \cup {None}, previous: Hashes \cup {None}, served: SUBSET Hashes,
          withdrawn: SUBSET (Hashes \cup {None}), history: Seq(Entries)]

PublishTypeOK ==
    /\ source \in Sources
    /\ DOMAIN archive \subseteq Hashes
    /\ \A h \in DOMAIN archive : archive[h] \in Publications
    /\ history \in Seq(Entries)
    /\ torn \in BOOLEAN
    /\ step \in {"idle", "site", "directory", "files", "line", "written"}
    /\ deployed \in Sites

\* The history t continues s.
Continues(t, s) == Len(s) <= Len(t) /\ \A i \in 1..Len(s) : t[i] = s[i]

\* A publication whose directory is whole.
Whole(h) == h \in DOMAIN archive /\ archive[h].complete

\* What a plan, or the site deployed from it, shows follows from its history.
SiteOK(site) ==
    /\ site.withdrawn = Withdrawn(site.history)
    /\ site.served \cap site.withdrawn = {}
    /\ site.hash # None => site.hash \in site.served
    /\ site.previous # None => site.previous \in site.served

\* The publication of the plan is not in the archive yet, or in part.
Pending == plan.new /\ step \in {"site", "directory", "files"}

\* A plan continues the recorded history, and every publication it will record
\* is whole before the line is written.
PlanOK ==
    /\ plan \in Plans
    /\ SiteOK(plan)
    /\ Continues(plan.history, history)
    /\ step = "written" => history = plan.history
    /\ step \in {"directory", "files"} => plan.new
    /\ step = "files" => plan.hash \in DOMAIN archive
    /\ Pending => \A i \in DOMAIN history : history[i].hash # plan.hash
    /\ \A i \in DOMAIN plan.history :
          Whole(plan.history[i].hash) \/ (Pending /\ plan.history[i].hash = plan.hash)

PublishInv ==
    /\ PublishTypeOK
    /\ \A i \in DOMAIN history : Whole(history[i].hash)
    /\ SiteOK(deployed)
    /\ Continues(history, deployed.history)
    /\ step # "idle" => PlanOK

-----------------------------------------------------------------------------
(* Publishing the guest demo: histories.                                   *)

\* A set of numbers that is not empty has a least one.
LEMMA LeastNumber ==
    ASSUME NEW S \in SUBSET Nat, S # {}
    PROVE  \E n \in S : \A m \in S : n <= m
<1>1. IsWellFoundedOn(OpToRel(<, Nat), Nat)
    BY NatLessThanWellFounded
<1>2. PICK n \in S : \A m \in S : ~ (<<m, n>> \in OpToRel(<, Nat))
    BY <1>1, WFMin
<1>3. \A m \in S : ~ (m < n)
    BY <1>2 DEF OpToRel
<1> QED
    BY <1>3

\* What a history continues is a prefix of it.
LEMMA ContinuesPrefix ==
    ASSUME NEW s \in Seq(Entries), NEW t \in Seq(Entries), Continues(t, s)
    PROVE  IsPrefix(s, t)
<1>1. /\ Len(s) \in Nat /\ Len(t) \in Nat /\ Len(s) <= Len(t)
      /\ \A i \in 1..Len(s) : t[i] = s[i]
    BY DEF Continues
<1>2. SubSeq(s, 1, Len(s)) = SubSeq(t, 1, Len(s))
    BY <1>1
<1> QED
    BY <1>1, <1>2 DEF IsPrefix

\* A continued history keeps what it withdrew.
LEMMA WithdrawnGrows ==
    ASSUME NEW s \in Seq(Entries), NEW t \in Seq(Entries), Continues(t, s)
    PROVE  Withdrawn(s) \subseteq Withdrawn(t)
<1>1. \A i \in DOMAIN s : i \in DOMAIN t /\ t[i] = s[i]
    BY DEF Continues
<1> QED
    BY <1>1 DEF Withdrawn

\* What replay_history checks at one line, in terms of the lines before it.
LEMMA ConsistentLine ==
    ASSUME NEW s \in Seq(Entries), Consistent(s), NEW i \in DOMAIN s
    PROVE  /\ \A j \in 1..(i - 1) : s[j].action = "rollback" => s[j].withdrawn # s[i].hash
           /\ i > 1 => s[i].hash # s[i - 1].hash
           /\ s[i].action = "publish" =>
                 s[i].previous = IF i = 1 THEN None ELSE s[i - 1].hash
           /\ s[i].action = "rollback" =>
                 /\ i > 1 /\ s[i].withdrawn = s[i - 1].hash
                 /\ \E j \in 1..(i - 1) : s[j].action = "publish" /\ s[j].hash = s[i].hash
<1> DEFINE before == SubSeq(s, 1, i - 1)
<1>1. i \in 1..Len(s) /\ i \in Nat /\ Len(s) \in Nat /\ s[i] \in Entries
    OBVIOUS
<1>2. /\ Len(before) = i - 1 /\ DOMAIN before = 1..(i - 1)
      /\ \A j \in 1..(i - 1) : before[j] = s[j]
    BY <1>1
<1>3. CurrentHash(before) = IF i = 1 THEN None ELSE s[i - 1].hash
    <2>1. CASE i = 1
        BY <1>1, <2>1 DEF CurrentHash
    <2>2. CASE i # 1
        <3>1. Len(before) # 0 /\ before # << >>
            BY <1>1, <1>2, <2>2
        <3>2. Last(before) = s[i - 1]
            BY <1>1, <1>2, <2>2 DEF Last
        <3> QED
            BY <2>2, <3>1, <3>2 DEF CurrentHash
    <2> QED
        BY <2>1, <2>2
<1> HIDE DEF before
<1>4. /\ s[i].hash \notin Withdrawn(before)
      /\ s[i].hash # CurrentHash(before)
      /\ IF s[i].action = "publish" THEN s[i].previous = CurrentHash(before)
         ELSE /\ CurrentHash(before) # None
              /\ s[i].withdrawn = CurrentHash(before)
              /\ \E j \in DOMAIN before : /\ before[j].action = "publish"
                                          /\ before[j].hash = s[i].hash
    BY DEF Consistent, before
<1>5. \A j \in 1..(i - 1) : s[j].action = "rollback" => s[j].withdrawn # s[i].hash
    BY <1>2, <1>4 DEF Withdrawn
<1>6. i > 1 => s[i].hash # s[i - 1].hash
    BY <1>1, <1>3, <1>4
<1>7. s[i].action = "publish" => s[i].previous = IF i = 1 THEN None ELSE s[i - 1].hash
    BY <1>3, <1>4
<1>8. ASSUME s[i].action = "rollback"
      PROVE  /\ i > 1 /\ s[i].withdrawn = s[i - 1].hash
             /\ \E j \in 1..(i - 1) : s[j].action = "publish" /\ s[j].hash = s[i].hash
    <2>1. CurrentHash(before) # None /\ s[i].withdrawn = CurrentHash(before)
        BY <1>4, <1>8
    <2>2. i # 1
        BY <1>3, <2>1
    <2>3. PICK j \in DOMAIN before : before[j].action = "publish" /\ before[j].hash = s[i].hash
        BY <1>4, <1>8
    <2> QED
        BY <1>1, <1>2, <1>3, <2>1, <2>2, <2>3
<1> QED
    BY <1>5, <1>6, <1>7, <1>8

\* The current publication of a history is its last line's, and it is not among
\* the withdrawn ones.
LEMMA CurrentPublic ==
    ASSUME NEW s \in Seq(Entries), Consistent(s), s # << >>
    PROVE  /\ Len(s) \in DOMAIN s
           /\ CurrentHash(s) = s[Len(s)].hash
           /\ CurrentHash(s) \in Hashes
           /\ CurrentHash(s) \notin Withdrawn(s)
<1> DEFINE n == Len(s)
<1>1. n \in Nat /\ n # 0 /\ n \in DOMAIN s
    OBVIOUS
<1>2. CurrentHash(s) = s[n].hash
    BY DEF CurrentHash, Last
<1>3. s[n] \in Entries
    BY <1>1
<1>4. ASSUME NEW j \in DOMAIN s, s[j].action = "rollback", s[j].withdrawn = s[n].hash
      PROVE  FALSE
    <2>1. CASE j = n
        <3>1. n > 1 /\ s[n].withdrawn = s[n - 1].hash /\ s[n].hash # s[n - 1].hash
            BY <1>1, <1>4, <2>1, ConsistentLine
        <3> QED
            BY <1>4, <2>1, <3>1
    <2>2. CASE j # n
        <3>1. j \in 1..(n - 1)
            BY <1>1, <2>2
        <3> QED
            BY <1>1, <1>4, <3>1, ConsistentLine
    <2> QED
        BY <2>1, <2>2
<1>5. s[n].hash \notin Withdrawn(s)
    BY <1>4 DEF Withdrawn
<1> QED
    BY <1>1, <1>2, <1>3, <1>5 DEF Entries

\* The previous pointer leads nowhere, or to a publication of an earlier line
\* that is not withdrawn.
LEMMA PreviousPublic ==
    ASSUME NEW s \in Seq(Entries), Consistent(s), s # << >>, PreviousOf(s) # None
    PROVE  /\ PreviousOf(s) \notin Withdrawn(s)
           /\ \E i \in 1..(Len(s) - 1) : PreviousOf(s) = s[i].hash
<1> DEFINE Published(i) == s[i].action = "publish" /\ s[i].hash = CurrentHash(s)
           S == {i \in DOMAIN s : Published(i)}
           First(i) == Published(i) /\ \A j \in 1..(i - 1) : ~Published(j)
           first == CHOOSE i \in DOMAIN s : First(i)
<1>1. Len(s) \in DOMAIN s /\ CurrentHash(s) = s[Len(s)].hash
    BY CurrentPublic
<1>2. S # {}
    <2>1. s[Len(s)] \in Entries
        BY <1>1
    <2>2. CASE s[Len(s)].action = "publish"
        BY <1>1, <2>2
    <2>3. CASE s[Len(s)].action = "rollback"
        <3>1. PICK j \in 1..(Len(s) - 1) : s[j].action = "publish" /\ s[j].hash = s[Len(s)].hash
            BY <1>1, <2>3, ConsistentLine
        <3>2. j \in DOMAIN s
            BY <3>1
        <3> QED
            BY <1>1, <3>1, <3>2
    <2> QED
        BY <2>1, <2>2, <2>3 DEF Entries
<1>3. S \subseteq Nat /\ \A i \in S : i \in 1..Len(s)
    OBVIOUS
<1>4. PICK n \in S : \A m \in S : n <= m
    <2> HIDE DEF S
    <2> QED
        BY <1>2, <1>3, LeastNumber
<1>5. n \in DOMAIN s /\ First(n)
    <2>1. ASSUME NEW j \in 1..(n - 1), Published(j)
          PROVE  FALSE
        <3>1. j \in DOMAIN s /\ ~(n <= j)
            BY <1>3, <1>4
        <3> QED
            BY <1>4, <2>1, <3>1
    <2> QED
        BY <1>4, <2>1
<1>6. first \in DOMAIN s /\ First(first)
    <2> HIDE DEF First
    <2> QED
        BY <1>5
<1>7. PreviousOf(s) = IF s[first].previous \in Withdrawn(s) THEN None ELSE s[first].previous
    BY DEF PreviousOf
<1> HIDE DEF first
<1>8. s[first].action = "publish"
    BY <1>6
<1>9. s[first].previous = IF first = 1 THEN None ELSE s[first - 1].hash
    BY <1>6, <1>8, ConsistentLine
<1>10. PreviousOf(s) = s[first].previous /\ s[first].previous \notin Withdrawn(s)
    BY <1>7
<1>11. first # 1 /\ first \in 1..Len(s)
    BY <1>6, <1>9, <1>10
<1>12. first - 1 \in 1..(Len(s) - 1)
    BY <1>11
<1> QED
    BY <1>9, <1>10, <1>11, <1>12

-----------------------------------------------------------------------------
(* Publishing the guest demo: the steps of a run.                          *)

\* Of the first m + n numbers, with n at most 1, only the last may exceed m.
LEMMA OneMore ==
    ASSUME NEW m \in Nat, NEW n \in Nat, n <= 1, NEW i \in 1..(m + n)
    PROVE  /\ i < m + n => i \in 1..m
           /\ i \notin 1..m => n = 1 /\ i = m + 1
OBVIOUS

\* A plan made from a loaded archive with at most one new line shows what its
\* history says.
LEMMA PlannedSite ==
    ASSUME PublishTypeOK, Loaded, NEW entry \in Seq(Entries), Len(entry) <= 1,
           NEW new \in BOOLEAN, PlanSite(entry, new), history \o entry # << >>
    PROVE  /\ plan'.history = history \o entry
           /\ plan'.hash = CurrentHash(history \o entry)
           /\ plan'.new = new
           /\ step' = "site"
           /\ plan' \in Plans
           /\ SiteOK(plan')
           /\ Continues(plan'.history, history)
           /\ DOMAIN plan'.history = 1..(Len(history) + Len(entry))
<1> DEFINE entries == history \o entry
           served == (DOMAIN archive \cup {CurrentHash(entries)}) \ Withdrawn(entries)
<1>1. history \in Seq(Entries) /\ Len(history) \in Nat
    BY DEF PublishTypeOK
<1>2. /\ entries \in Seq(Entries)
      /\ Len(entries) = Len(history) + Len(entry)
      /\ \A i \in 1..Len(history) : entries[i] = history[i]
    BY <1>1
<1>3. /\ Consistent(entries)
      /\ plan' = [hash |-> CurrentHash(entries), previous |-> PreviousOf(entries),
                  served |-> served, withdrawn |-> Withdrawn(entries),
                  history |-> entries, new |-> new]
      /\ step' = "site"
    BY DEF PlanSite
<1>4. entries # << >>
    OBVIOUS
<1>5. \A i \in DOMAIN history : history[i].hash \in DOMAIN archive
    BY DEF Loaded
<1>6. DOMAIN archive \subseteq Hashes
    BY DEF PublishTypeOK
<1> HIDE DEF entries
<1>7. CurrentHash(entries) \in Hashes /\ CurrentHash(entries) \notin Withdrawn(entries)
    BY <1>2, <1>3, <1>4, CurrentPublic
<1>8. CurrentHash(entries) \in served /\ served \subseteq Hashes
      /\ served \cap Withdrawn(entries) = {}
    BY <1>6, <1>7
<1>9. ASSUME PreviousOf(entries) # None
      PROVE  PreviousOf(entries) \in served
    <2>1. PreviousOf(entries) \notin Withdrawn(entries)
        BY <1>2, <1>3, <1>4, <1>9, PreviousPublic
    <2>2. PICK i \in 1..(Len(entries) - 1) : PreviousOf(entries) = entries[i].hash
        BY <1>2, <1>3, <1>4, <1>9, PreviousPublic
    <2>3. i \in 1..Len(history)
        <3>1. Len(entry) \in Nat /\ i \in 1..(Len(history) + Len(entry)) /\ i < Len(history) + Len(entry)
            BY <1>1, <1>2
        <3> QED
            BY <1>1, <3>1, OneMore
    <2>4. entries[i].hash \in DOMAIN archive
        BY <1>1, <1>2, <1>5, <2>3
    <2> QED
        BY <2>1, <2>2, <2>4
<1>10. Withdrawn(entries) \subseteq Hashes \cup {None}
    <2>1. \A i \in DOMAIN entries : entries[i].withdrawn \in Hashes \cup {None}
        <3>1. \A i \in DOMAIN entries : entries[i] \in Entries
            BY <1>2
        <3> QED
            BY <3>1 DEF Entries
    <2> QED
        BY <2>1 DEF Withdrawn
<1>11. PreviousOf(entries) \in Hashes \cup {None}
    BY <1>8, <1>9
<1> HIDE DEF served
<1>12. plan' \in Plans
    BY <1>2, <1>3, <1>7, <1>8, <1>10, <1>11 DEF Plans
<1>13. SiteOK(plan')
    BY <1>3, <1>8, <1>9 DEF SiteOK
<1>14. Continues(entries, history)
    BY <1>1, <1>2 DEF Continues
<1>15. DOMAIN entries = 1..(Len(history) + Len(entry))
    BY <1>2
<1> QED
    BY <1>3, <1>12, <1>13, <1>14, <1>15 DEF entries

\* In a loaded archive every directory is whole and recorded.
LEMMA LoadedWhole ==
    ASSUME Loaded
    PROVE  /\ \A h \in DOMAIN archive : Whole(h)
           /\ \A i \in DOMAIN history : history[i].hash \in DOMAIN archive
BY DEF Loaded, Verified, Whole

\* A plan made from a loaded archive is a good one when its last line names a
\* whole publication, or the one that the run will write.
LEMMA PlanMade ==
    ASSUME PublishInv, Loaded, NEW entry \in Seq(Entries), Len(entry) <= 1,
           NEW new \in BOOLEAN, PlanSite(entry, new), history \o entry # << >>,
           Len(entry) = 1 => entry[1].hash = CurrentHash(history \o entry),
           IF new THEN CurrentHash(history \o entry) \notin DOMAIN archive
           ELSE CurrentHash(history \o entry) \in DOMAIN archive
    PROVE  PublishInv'
<1> DEFINE hash == CurrentHash(history \o entry)
<1>1. UNCHANGED <<source, archive, history, torn, deployed>>
    BY DEF PlanSite
<1>2. PublishTypeOK
    BY DEF PublishInv
<1>3. /\ plan'.history = history \o entry /\ plan'.hash = hash /\ plan'.new = new
      /\ step' = "site" /\ plan' \in Plans /\ SiteOK(plan') /\ Continues(plan'.history, history)
      /\ DOMAIN plan'.history = 1..(Len(history) + Len(entry))
    BY <1>2, PlannedSite
<1>4. /\ \A h \in DOMAIN archive : Whole(h)
      /\ \A i \in DOMAIN history : history[i].hash \in DOMAIN archive
    BY LoadedWhole
<1>5. \A h : Whole(h)' <=> Whole(h)
    BY <1>1 DEF Whole
<1>6. history \in Seq(Entries)
    BY <1>2 DEF PublishTypeOK
<1>7. Pending' <=> new
    BY <1>3 DEF Pending
<1>8. ASSUME NEW i \in DOMAIN plan'.history
      PROVE  Whole(plan'.history[i].hash) \/ (new /\ plan'.history[i].hash = hash)
    <2>1. CASE i \in 1..Len(history)
        <3>1. plan'.history[i] = history[i]
            BY <1>3, <1>6, <2>1
        <3> QED
            BY <1>4, <1>6, <2>1, <3>1
    <2>2. CASE i \notin 1..Len(history)
        <3>1. Len(entry) = 1 /\ i = Len(history) + 1
            <4>1. Len(entry) \in Nat /\ Len(history) \in Nat /\ i \in 1..(Len(history) + Len(entry))
                BY <1>3, <1>6
            <4> QED
                BY <2>2, <4>1, OneMore
        <3>2. plan'.history[i] = entry[1]
            BY <1>3, <1>6, <3>1
        <3> QED
            BY <1>4, <3>1, <3>2
    <2> QED
        BY <2>1, <2>2
<1>9. new => \A i \in DOMAIN history : history[i].hash # hash
    BY <1>4
<1>10. PlanOK'
    BY <1>1, <1>3, <1>5, <1>7, <1>8, <1>9 DEF PlanOK, Continues
<1>11. PublishTypeOK'
    BY <1>1, <1>2, <1>3 DEF PublishTypeOK
<1>12. Continues(history, deployed.history)' /\ SiteOK(deployed)'
    BY <1>1 DEF PublishInv, Continues, SiteOK
<1>13. (\A i \in DOMAIN history : Whole(history[i].hash))'
    BY <1>1, <1>5 DEF PublishInv, Whole
<1> QED
    BY <1>10, <1>11, <1>12, <1>13 DEF PublishInv

\* The last line of a history that gains one is the new one.
LEMMA CurrentOfExtended ==
    ASSUME NEW s \in Seq(Entries), NEW e \in Entries
    PROVE  /\ s \o <<e>> # << >>
           /\ CurrentHash(s \o <<e>>) = e.hash
<1>1. Len(s \o <<e>>) = Len(s) + 1 /\ (s \o <<e>>)[Len(s) + 1] = e
    OBVIOUS
<1>2. s \o <<e>> # << >>
    BY <1>1
<1> QED
    BY <1>1, <1>2 DEF CurrentHash, Last

\* plan_publish makes a good plan.
LEMMA PublishPlanned ==
    ASSUME PublishInv, NEW reviewed \in BOOLEAN, PlanPublish(reviewed)
    PROVE  PublishInv'
<1>1. history \in Seq(Entries) /\ source.hash \in Hashes
    BY DEF PublishInv, PublishTypeOK, Sources
<1>2. CASE CurrentHash(history) = source.hash
    <2> DEFINE none == << >>
    <2>1. PlanSite(none, source.hash \notin DOMAIN archive) /\ Loaded
        BY <1>2 DEF PlanPublish
    <2>2. history # << >>
        BY <1>1, <1>2, PublishAssumption DEF CurrentHash
    <2>3. none \in Seq(Entries) /\ Len(none) # 1 /\ Len(none) <= 1
        OBVIOUS
    <2>4. CurrentHash(history \o none) = source.hash /\ history \o none # << >>
        BY <1>1, <1>2, <2>2
    <2> HIDE DEF none
    <2> QED
        BY <2>1, <2>3, <2>4, PlanMade
<1>3. CASE CurrentHash(history) # source.hash
    <2> DEFINE e == [action |-> "publish", hash |-> source.hash,
                     previous |-> CurrentHash(history), withdrawn |-> None]
    <2>1. PlanSite(<<e>>, source.hash \notin DOMAIN archive) /\ Loaded
        BY <1>3 DEF PlanPublish
    <2>2. CurrentHash(history) \in Hashes \cup {None}
        <3>1. CASE history = << >>
            BY <3>1 DEF CurrentHash
        <3>2. CASE history # << >>
            <4>1. history[Len(history)] \in Entries
                BY <1>1, <3>2
            <4> QED
                BY <3>2, <4>1 DEF CurrentHash, Last, Entries
        <3> QED
            BY <3>1, <3>2
    <2>3. e \in Entries
        BY <1>1, <2>2 DEF Entries
    <2>4. e.hash = source.hash
        OBVIOUS
    <2> HIDE DEF e
    <2>5. <<e>> \in Seq(Entries) /\ Len(<<e>>) = 1 /\ Len(<<e>>) <= 1 /\ <<e>>[1] = e
        BY <2>3
    <2>6. history \o <<e>> # << >> /\ CurrentHash(history \o <<e>>) = source.hash
        BY <1>1, <2>3, <2>4, CurrentOfExtended
    <2> QED
        BY <2>1, <2>4, <2>5, <2>6, PlanMade
<1> QED
    BY <1>2, <1>3

\* plan_rollback makes a good plan.
LEMMA RollbackPlanned ==
    ASSUME PublishInv, NEW target \in Hashes, PlanRollback(target)
    PROVE  PublishInv'
<1> DEFINE e == [action |-> "rollback", hash |-> target, previous |-> None,
                 withdrawn |-> CurrentHash(history)]
<1>1. history \in Seq(Entries)
    BY DEF PublishInv, PublishTypeOK
<1>2. PlanSite(<<e>>, FALSE) /\ Loaded /\ target \in DOMAIN archive /\ CurrentHash(history) # None
    BY DEF PlanRollback, KnownGood
<1>3. CurrentHash(history) \in Hashes
    <2>1. history # << >>
        BY <1>2 DEF CurrentHash
    <2>2. history[Len(history)] \in Entries
        BY <1>1, <2>1
    <2> QED
        BY <2>1, <2>2 DEF CurrentHash, Last, Entries
<1>4. e \in Entries /\ e.hash = target
    BY <1>3 DEF Entries
<1> HIDE DEF e
<1>5. <<e>> \in Seq(Entries) /\ Len(<<e>>) = 1 /\ Len(<<e>>) <= 1 /\ <<e>>[1] = e
    BY <1>4
<1>6. history \o <<e>> # << >> /\ CurrentHash(history \o <<e>>) = target
    BY <1>1, <1>4, CurrentOfExtended
<1> QED
    BY <1>2, <1>4, <1>5, <1>6, PlanMade

\* A step that keeps the history, the site and the recorded publications keeps
\* what is known of them.
LEMMA RecordedKept ==
    ASSUME PublishInv, history' = history, deployed' = deployed, PublishTypeOK',
           \A i \in DOMAIN history : Whole(history[i].hash)'
    PROVE  /\ (\A i \in DOMAIN history : Whole(history[i].hash))'
           /\ SiteOK(deployed)'
           /\ Continues(history, deployed.history)'
<1>1. (\A i \in DOMAIN history : Whole(history[i].hash))'
    BY DEF Whole
<1>2. SiteOK(deployed)' /\ Continues(history, deployed.history)'
    BY DEF PublishInv, SiteOK, Continues
<1> QED
    BY <1>1, <1>2

\* write_plan keeps the plan good while it makes the publication whole.
LEMMA WritesKeep ==
    ASSUME PublishInv, WriteSite \/ MakeDirectory \/ WriteFiles
    PROVE  PublishInv'
<1>1. /\ PublishTypeOK /\ PlanOK /\ step # "idle"
      /\ \A i \in DOMAIN history : Whole(history[i].hash)
    BY DEF PublishInv, WriteSite, MakeDirectory, WriteFiles
<1>2. /\ UNCHANGED <<source, history, torn, plan, deployed>>
      /\ step' \in {"directory", "files", "line"}
    BY DEF WriteSite, MakeDirectory, WriteFiles
<1>3. plan.hash \in Hashes /\ plan.new \in BOOLEAN /\ source.viewer \in Viewers
    BY <1>1 DEF PlanOK, Plans, PublishTypeOK, Sources
<1>4. /\ DOMAIN archive' \subseteq Hashes
      /\ \A h \in DOMAIN archive' : archive'[h] \in Publications
      /\ \A h \in DOMAIN archive : h # plan.hash /\ Whole(h) => Whole(h)'
      /\ step' = "files" => plan.hash \in DOMAIN archive'
      /\ step' \in {"directory", "files"} => plan.new
      /\ step' = "line" /\ Pending => Whole(plan.hash)'
      /\ ~Pending => archive' = archive
    <2>1. CASE WriteSite
        BY <1>1, <2>1 DEF WriteSite, PublishTypeOK, Whole, Pending
    <2>2. CASE MakeDirectory
        <3>1. [viewer |-> source.viewer, complete |-> FALSE] \in Publications
            BY <1>3 DEF Publications
        <3>2. /\ archive' = [h \in DOMAIN archive \cup {plan.hash} |->
                               IF h = plan.hash THEN [viewer |-> source.viewer, complete |-> FALSE]
                               ELSE archive[h]]
              /\ step' = "files" /\ step = "directory"
            BY <2>2 DEF MakeDirectory
        <3>3. plan.new /\ Pending
            BY <1>1, <3>2 DEF PlanOK, Pending
        <3>4. /\ DOMAIN archive' = DOMAIN archive \cup {plan.hash}
              /\ archive'[plan.hash] \in Publications
              /\ \A h \in DOMAIN archive : h # plan.hash => archive'[h] = archive[h]
            BY <3>1, <3>2
        <3>5. \A h \in DOMAIN archive' : archive'[h] \in Publications
            BY <1>1, <3>4 DEF PublishTypeOK
        <3>6. \A h \in DOMAIN archive : h # plan.hash /\ Whole(h) => Whole(h)'
            BY <3>4 DEF Whole
        <3>7. DOMAIN archive' \subseteq Hashes
            BY <1>1, <1>3, <3>4 DEF PublishTypeOK
        <3> QED
            BY <3>2, <3>3, <3>4, <3>5, <3>6, <3>7
    <2>3. CASE WriteFiles
        <3>1. /\ archive' = [archive EXCEPT ![plan.hash].complete = TRUE]
              /\ step' = "line" /\ step = "files"
            BY <2>3 DEF WriteFiles
        <3>2. plan.hash \in DOMAIN archive /\ plan.new /\ Pending
            BY <1>1, <3>1 DEF PlanOK, Pending
        <3>3. archive[plan.hash] \in Publications
            BY <1>1, <3>2 DEF PublishTypeOK
        <3>4. /\ [archive[plan.hash] EXCEPT !.complete = TRUE] \in Publications
              /\ [archive[plan.hash] EXCEPT !.complete = TRUE].complete = TRUE
            BY <3>3 DEF Publications
        <3>5. archive' = [archive EXCEPT ![plan.hash] = [archive[plan.hash] EXCEPT !.complete = TRUE]]
            BY <3>1
        <3>6. /\ DOMAIN archive' = DOMAIN archive
              /\ archive'[plan.hash] = [archive[plan.hash] EXCEPT !.complete = TRUE]
              /\ \A h \in DOMAIN archive : h # plan.hash => archive'[h] = archive[h]
            BY <3>2, <3>5
        <3>7. \A h \in DOMAIN archive' : archive'[h] \in Publications
            BY <1>1, <3>4, <3>6 DEF PublishTypeOK
        <3>8. \A h \in DOMAIN archive : h # plan.hash /\ Whole(h) => Whole(h)'
            BY <3>6 DEF Whole
        <3>9. Whole(plan.hash)'
            BY <1>2, <3>2, <3>4, <3>6 DEF Whole
        <3>10. DOMAIN archive' \subseteq Hashes
            BY <1>1, <3>6 DEF PublishTypeOK
        <3> QED
            BY <3>1, <3>2, <3>7, <3>8, <3>9, <3>10
    <2> QED
        BY <2>1, <2>2, <2>3
<1>5. PublishTypeOK'
    BY <1>1, <1>2, <1>4 DEF PublishTypeOK
<1>6. ASSUME NEW i \in DOMAIN history
      PROVE  Whole(history[i].hash)'
    <2>1. Whole(history[i].hash)
        BY <1>1
    <2>2. CASE Pending
        <3>1. history[i].hash # plan.hash
            BY <1>1, <2>2 DEF PlanOK
        <3> QED
            BY <1>2, <1>4, <2>1, <3>1 DEF Whole
    <2>3. CASE ~Pending
        BY <1>2, <1>4, <2>1, <2>3 DEF Whole
    <2> QED
        BY <2>2, <2>3
<1>7. Pending' => Pending
    BY <1>2 DEF Pending, WriteSite, MakeDirectory, WriteFiles
<1>8. Pending => Pending' \/ step' = "line"
    BY <1>2 DEF Pending
<1>9. ASSUME NEW i \in DOMAIN plan.history
      PROVE  Whole(plan.history[i].hash)' \/ (Pending' /\ plan.history[i].hash = plan.hash)
    <2> DEFINE h == plan.history[i].hash
    <2>1. Whole(h) \/ (Pending /\ h = plan.hash)
        BY <1>1 DEF PlanOK
    <2>2. CASE ~Pending
        BY <1>2, <1>4, <2>1, <2>2 DEF Whole
    <2>3. CASE Pending /\ h = plan.hash
        BY <1>2, <1>4, <1>8, <2>3 DEF Whole
    <2>4. CASE Pending /\ h # plan.hash
        BY <1>2, <1>4, <2>1, <2>4 DEF Whole
    <2> QED
        BY <2>2, <2>3, <2>4
<1>10. /\ plan \in Plans /\ SiteOK(plan) /\ Continues(plan.history, history)
       /\ Pending => \A i \in DOMAIN history : history[i].hash # plan.hash
    BY <1>1 DEF PlanOK
<1>11. SiteOK(plan)' /\ Continues(plan.history, history)'
    BY <1>2, <1>10 DEF SiteOK, Continues
<1>12. (\A i \in DOMAIN plan.history :
          Whole(plan.history[i].hash) \/ (Pending /\ plan.history[i].hash = plan.hash))'
    BY <1>2, <1>9 DEF Whole, Pending
<1>13. PlanOK'
    BY <1>2, <1>4, <1>7, <1>10, <1>11, <1>12 DEF PlanOK
<1> QED
    BY <1>2, <1>5, <1>6, <1>13, RecordedKept DEF PublishInv

\* The appended line records publications that are whole already.
LEMMA LineKeeps ==
    ASSUME PublishInv, AppendHistoryLine
    PROVE  PublishInv'
<1>1. PublishTypeOK /\ PlanOK /\ step = "line"
    BY DEF PublishInv, AppendHistoryLine
<1>2. /\ history' = plan.history /\ step' = "written"
      /\ UNCHANGED <<source, archive, torn, plan, deployed>>
    BY DEF AppendHistoryLine
<1>3. plan \in Plans /\ plan.history \in Seq(Entries) /\ ~Pending /\ ~Pending'
    BY <1>1, <1>2 DEF PlanOK, Plans, Pending
<1>4. PublishTypeOK'
    BY <1>1, <1>2, <1>3 DEF PublishTypeOK
<1>5. \A i \in DOMAIN plan.history : Whole(plan.history[i].hash)
    BY <1>1, <1>3 DEF PlanOK
<1>6. (\A i \in DOMAIN history : Whole(history[i].hash))'
    BY <1>2, <1>5 DEF Whole
<1>7. Continues(history, deployed.history)'
    <2>1. /\ Len(history) <= Len(plan.history)
          /\ \A i \in 1..Len(history) : plan.history[i] = history[i]
        BY <1>1 DEF PlanOK, Continues
    <2>2. /\ Len(deployed.history) <= Len(history)
          /\ \A i \in 1..Len(deployed.history) : history[i] = deployed.history[i]
        BY DEF PublishInv, Continues
    <2>3. /\ Len(history) \in Nat /\ Len(plan.history) \in Nat
          /\ Len(deployed.history) \in Nat
        BY <1>1, <1>3 DEF PublishTypeOK, Sites
    <2>4. Len(deployed.history) <= Len(plan.history)
        BY <2>1, <2>2, <2>3
    <2>5. \A i \in 1..Len(deployed.history) : plan.history[i] = deployed.history[i]
        BY <2>1, <2>2, <2>3
    <2> QED
        BY <1>2, <2>4, <2>5 DEF Continues
<1>8. SiteOK(deployed)' /\ SiteOK(plan)'
    BY <1>1, <1>2 DEF PublishInv, PlanOK, SiteOK
<1>9. Len(plan.history) \in Nat
    BY <1>3
<1>10. Continues(plan.history, history)'
    BY <1>2, <1>9 DEF Continues
<1>11. (\A i \in DOMAIN plan.history :
          Whole(plan.history[i].hash) \/ (Pending /\ plan.history[i].hash = plan.hash))'
    BY <1>2, <1>5 DEF Whole
<1>12. PlanOK'
    BY <1>2, <1>3, <1>8, <1>10, <1>11 DEF PlanOK
<1> QED
    BY <1>4, <1>6, <1>7, <1>8, <1>12 DEF PublishInv

\* What is deployed is a plan whose history is recorded.
LEMMA DeployKeeps ==
    ASSUME PublishInv, NEW taken \in BOOLEAN, Deploy(taken)
    PROVE  /\ PublishInv'
           /\ deployed' # deployed =>
                 /\ deployed.withdrawn \subseteq deployed'.withdrawn
                 /\ deployed'.served \cap deployed.withdrawn = {}
<1>1. PublishTypeOK /\ PlanOK /\ step = "written" /\ history = plan.history
    BY DEF PublishInv, PlanOK, Deploy
<1>2. /\ UNCHANGED <<source, archive, history, torn>> /\ step' = "idle"
      /\ deployed' = IF taken THEN [f \in DOMAIN NoSite |-> plan[f]] ELSE deployed
    BY DEF Deploy, EndPublishRun
<1>3. (\A i \in DOMAIN history : Whole(history[i].hash))'
    BY <1>2 DEF PublishInv, Whole
<1>4. CASE ~taken
    <2>1. deployed' = deployed
        BY <1>2, <1>4
    <2>2. PublishTypeOK' /\ SiteOK(deployed)' /\ Continues(history, deployed.history)'
        BY <1>1, <1>2, <2>1 DEF PublishInv, PublishTypeOK, SiteOK, Continues
    <2> QED
        BY <1>2, <1>3, <2>1, <2>2 DEF PublishInv
<1>5. CASE taken
    <2>1. DOMAIN NoSite = {"hash", "previous", "served", "withdrawn", "history"}
        BY DEF NoSite
    <2>2. deployed' = [hash |-> plan.hash, previous |-> plan.previous, served |-> plan.served,
                       withdrawn |-> plan.withdrawn, history |-> plan.history]
        BY <1>2, <1>5, <2>1
    <2>3. plan \in Plans /\ SiteOK(plan)
        BY <1>1 DEF PlanOK
    <2>4. deployed' \in Sites
        BY <2>2, <2>3 DEF Plans, Sites
    <2>5. PublishTypeOK'
        BY <1>1, <1>2, <2>4 DEF PublishTypeOK
    <2>6. /\ deployed'.hash = plan.hash /\ deployed'.previous = plan.previous
          /\ deployed'.served = plan.served /\ deployed'.withdrawn = plan.withdrawn
          /\ deployed'.history = plan.history
        BY <2>2
    <2>7. SiteOK(deployed)'
        BY <2>3, <2>6 DEF SiteOK
    <2>8. Len(history) \in Nat
        BY <1>1 DEF PublishTypeOK
    <2>9. Continues(history, deployed.history)'
        BY <1>1, <1>2, <2>6, <2>8 DEF Continues
    <2>10. Withdrawn(deployed.history) \subseteq Withdrawn(history)
        <3>1. deployed.history \in Seq(Entries) /\ history \in Seq(Entries)
            BY <1>1 DEF PublishTypeOK, Sites
        <3> QED
            BY <3>1, WithdrawnGrows DEF PublishInv
    <2>11. /\ deployed.withdrawn \subseteq deployed'.withdrawn
           /\ deployed'.served \cap deployed.withdrawn = {}
        BY <1>1, <2>3, <2>6, <2>10 DEF PublishInv, SiteOK
    <2> QED
        BY <1>2, <1>3, <2>5, <2>7, <2>9, <2>11 DEF PublishInv
<1> QED
    BY <1>4, <1>5

\* A killed run, an edit of the sources and a repair of the archive keep what is
\* recorded.
LEMMA OwnerKeeps ==
    ASSUME PublishInv, KillRun \/ ChangeSource \/ Repair
    PROVE  PublishInv'
<1>1. PublishTypeOK /\ \A i \in DOMAIN history : Whole(history[i].hash)
    BY DEF PublishInv
<1>2. step' = "idle" /\ history' = history /\ deployed' = deployed
    BY DEF KillRun, EndPublishRun, ChangeSource, Repair
<1>3. CASE KillRun \/ ChangeSource
    <2>1. archive' = archive /\ torn' \in BOOLEAN /\ source' \in Sources
        BY <1>1, <1>3 DEF KillRun, ChangeSource, PublishTypeOK
    <2>2. PublishTypeOK'
        BY <1>1, <1>2, <2>1 DEF PublishTypeOK
    <2>3. \A i \in DOMAIN history : Whole(history[i].hash)'
        BY <1>1, <1>2, <2>1 DEF Whole
    <2> QED
        BY <1>2, <2>2, <2>3, RecordedKept DEF PublishInv
<1>4. CASE Repair
    <2> DEFINE recorded == {history[i].hash : i \in DOMAIN history}
    <2>1. archive' = [h \in recorded |-> archive[h]] /\ torn' = FALSE /\ source' = source
        BY <1>4 DEF Repair
    <2>2. recorded \subseteq DOMAIN archive
        BY <1>1 DEF Whole
    <2>3. PublishTypeOK'
        BY <1>1, <1>2, <2>1, <2>2 DEF PublishTypeOK
    <2>4. \A i \in DOMAIN history : history[i].hash \in recorded
        OBVIOUS
    <2>5. \A h \in recorded : archive'[h] = archive[h] /\ h \in DOMAIN archive'
        BY <2>1
    <2> HIDE DEF recorded
    <2>6. \A i \in DOMAIN history : Whole(history[i].hash)'
        BY <1>1, <1>2, <2>4, <2>5 DEF Whole
    <2> QED
        BY <1>2, <2>3, <2>6, RecordedKept DEF PublishInv
<1> QED
    BY <1>3, <1>4

-----------------------------------------------------------------------------
(* Publishing the guest demo: the theorems.                                *)

\* The invariant holds initially.
LEMMA PublishInitInv ==
    ASSUME PublishInit
    PROVE  PublishInv
<1>1. DOMAIN archive = {} /\ history = << >> /\ deployed = NoSite /\ step = "idle"
    BY DEF PublishInit
<1>2. source \in Sources
    BY DEF PublishInit, Sources
<1>3. << >> \in Seq(Entries) /\ Len(<< >>) = 0 /\ DOMAIN << >> = {}
    OBVIOUS
<1>4. NoSite \in Sites
    BY <1>3 DEF NoSite, Sites
<1>5. PublishTypeOK
    BY <1>1, <1>2, <1>3, <1>4 DEF PublishInit, PublishTypeOK
<1>6. /\ NoSite.history = << >> /\ NoSite.withdrawn = {} /\ NoSite.served = {}
      /\ NoSite.hash = None /\ NoSite.previous = None
    BY DEF NoSite
<1>7. Withdrawn(<< >>) = {}
    BY <1>3 DEF Withdrawn
<1>8. SiteOK(deployed)
    BY <1>1, <1>6, <1>7 DEF SiteOK
<1>9. Continues(history, deployed.history)
    BY <1>1, <1>3, <1>6 DEF Continues
<1>10. \A i \in DOMAIN history : Whole(history[i].hash)
    BY <1>1, <1>3
<1> QED
    BY <1>1, <1>5, <1>8, <1>9, <1>10 DEF PublishInv

\* A step that changes nothing keeps the invariant.
LEMMA PublishStutter ==
    ASSUME PublishInv, UNCHANGED publishVars
    PROVE  PublishInv'
<1>1. UNCHANGED <<source, archive, history, torn, step, plan, deployed>>
    BY DEF publishVars
<1>2. PublishTypeOK'
    BY <1>1 DEF PublishInv, PublishTypeOK
<1>3. SiteOK(deployed)' /\ Continues(history, deployed.history)'
    BY <1>1 DEF PublishInv, SiteOK, Continues
<1>4. (\A i \in DOMAIN history : Whole(history[i].hash))'
    BY <1>1 DEF PublishInv, Whole
<1>5. PlanOK => PlanOK'
    BY <1>1 DEF PlanOK, SiteOK, Continues, Pending, Whole
<1> QED
    BY <1>1, <1>2, <1>3, <1>4, <1>5 DEF PublishInv

\* Every step keeps the invariant.
LEMMA PublishStepInv ==
    ASSUME PublishInv, [PublishNext]_publishVars
    PROVE  PublishInv'
BY PublishPlanned, RollbackPlanned, WritesKeep, LineKeeps, DeployKeeps, OwnerKeeps,
   PublishStutter DEF PublishNext

\* The inductive invariant of publishing holds in every reachable state, for any
\* sets of hashes and viewers and any number of lines and killed runs
\* (guest_demo_publish.py).
THEOREM PublishInvariance == PublishSpec => []PublishInv
<1>1. PublishInit => PublishInv
    BY PublishInitInv
<1>2. PublishInv /\ [PublishNext]_publishVars => PublishInv'
    BY PublishStepInv
<1> QED
    BY <1>1, <1>2, PTL DEF PublishSpec

\* The deployed site was planned from a prefix of the recorded history, every
\* recorded publication is whole, and the site's pointers lead to publications
\* it serves (write_plan, _plan_site, render_current).
THEOREM DeployedIsRecorded == PublishSpec => []DeployedRecorded
<1>1. PublishInv => DeployedRecorded
    <2> SUFFICES ASSUME PublishInv PROVE DeployedRecorded
        OBVIOUS
    <2>1. deployed.history \in Seq(Entries) /\ history \in Seq(Entries)
        BY DEF PublishInv, PublishTypeOK, Sites
    <2>2. IsPrefix(deployed.history, history)
        BY <2>1, ContinuesPrefix DEF PublishInv
    <2> QED
        BY <2>2 DEF PublishInv, SiteOK, Whole, DeployedRecorded
<1> QED
    BY <1>1, PublishInvariance, PTL

\* A publication withdrawn from the public site never comes back (plan_publish,
\* plan_rollback, withdrawn_hashes).
THEOREM WithdrawnStaysWithdrawn == PublishSpec => WithdrawnForGood
<1>1. ASSUME PublishInv, [PublishNext]_publishVars
      PROVE  [/\ deployed.withdrawn \subseteq deployed'.withdrawn
              /\ deployed'.served \cap deployed.withdrawn = {}]_deployed
    <2>1. CASE \E taken \in BOOLEAN : Deploy(taken)
        BY <1>1, <2>1, DeployKeeps
    <2>2. CASE ~\E taken \in BOOLEAN : Deploy(taken)
        BY <1>1, <2>2 DEF PublishNext, publishVars, PlanPublish, PlanRollback, PlanSite,
                          WriteSite, MakeDirectory, WriteFiles, AppendHistoryLine, KillRun,
                          ChangeSource, Repair
    <2> QED
        BY <2>1, <2>2
<1> QED
    BY <1>1, PublishInvariance, PTL DEF PublishSpec, WithdrawnForGood

=============================================================================
