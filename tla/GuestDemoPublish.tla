-------------------------- MODULE GuestDemoPublish --------------------------
(***************************************************************************)
(* Publishing and rolling back the guest demo (guest_demo_publish.py): one *)
(* owner runs scripts/publish_demo_site.py, which verifies the archive,    *)
(* plans the site in memory, writes the site folder, then the archive      *)
(* directory, then the history line, and prints the deploy command.  A run *)
(* may be killed between any two writes.  Every run gets a new site        *)
(* folder, so only the folder of a finished run is deployed.               *)
(*                                                                         *)
(* A publication is named by its content hash; beside it only its viewer   *)
(* release matters, because the hash does not depend on it.                *)
(***************************************************************************)
EXTENDS Integers, FiniteSets, Sequences, SequencesExt

CONSTANTS Hashes,      \* content hashes of the builds
          Viewers,     \* viewer releases
          MaxRules,    \* MAX_HEADER_RULES
          MaxHistory,  \* bound: history lines
          MaxCrashes   \* bound: killed runs

None == "none"

ASSUME PublishAssumption ==
    /\ None \notin Hashes
    /\ MaxRules \in Nat /\ MaxHistory \in Nat /\ MaxCrashes \in Nat

\* HistoryEntry
Entries == [action: {"publish", "rollback"}, hash: Hashes,
            previous: Hashes \cup {None}, withdrawn: Hashes \cup {None}]

VARIABLES
    source,     \* what the repository builds: hash, viewer, scanners pass
    archive,    \* hash |-> viewer and completeness of its directory
    history,    \* the whole lines of publish-history.jsonl
    torn,       \* the history ends in part of a line
    step, plan, \* the run under way and its SitePlan
    deployed,   \* the site the public sees
    crashes

publishVars == <<source, archive, history, torn, step, plan, deployed, crashes>>

Sources == [hash: Hashes, viewer: Viewers, clean: BOOLEAN]
NoPlan == [hash |-> None]
NoSite == [hash |-> None, previous |-> None, served |-> {}, withdrawn |-> {}, history |-> << >>]

PublishInit ==
    /\ source \in [hash: Hashes, viewer: Viewers, clean: {TRUE}]
    /\ archive = [h \in {} |-> NoPlan]
    /\ history = << >>
    /\ torn = FALSE
    /\ step = "idle"
    /\ plan = NoPlan
    /\ deployed = NoSite
    /\ crashes = 0

-----------------------------------------------------------------------------
(* The archive and its history.                                            *)

CurrentHash(entries) == IF entries = << >> THEN None ELSE Last(entries).hash

Withdrawn_Last(entries) ==
    IF entries = << >> \/ Last(entries).action = "publish" THEN {} ELSE {Last(entries).withdrawn}

\* withdrawn_hashes
Withdrawn(entries) == {entries[i].withdrawn : i \in
                        {j \in DOMAIN entries : entries[j].action = "rollback"}}

\* replay_history: every line follows from the ones before it.
Consistent(entries) ==
    \A i \in DOMAIN entries :
        LET e       == entries[i]
            before  == SubSeq(entries, 1, i - 1)
            current == CurrentHash(before)
        IN /\ e.hash \notin Withdrawn(before)
           /\ e.hash # current
           /\ IF e.action = "publish" THEN e.previous = current
              ELSE /\ current # None
                   /\ e.withdrawn = current
                   /\ \E j \in DOMAIN before : /\ before[j].action = "publish"
                                               /\ before[j].hash = e.hash

\* verify_publication and scan_published_file, on what the archive holds or the
\* build made: all files, the current viewer release, nothing to hide.
Verified(publication, clean) ==
    publication.complete /\ publication.viewer = source.viewer /\ clean

\* load_archive, parse_history: a torn line, a directory that does not verify,
\* or directories other than the recorded ones refuse every run.
Loaded ==
    /\ ~torn
    /\ \A h \in DOMAIN archive : Verified(archive[h], TRUE)
    /\ Consistent(history)
    /\ {history[i].hash : i \in DOMAIN history} = DOMAIN archive

-----------------------------------------------------------------------------
(* Planning.                                                               *)

\* render_current: the previous hash of the first publication, unless withdrawn.
PreviousOf(entries) ==
    LET first == CHOOSE i \in DOMAIN entries :
                    /\ entries[i].action = "publish" /\ entries[i].hash = CurrentHash(entries)
                    /\ \A j \in 1..(i - 1) : ~(/\ entries[j].action = "publish"
                                               /\ entries[j].hash = CurrentHash(entries))
    IN IF entries[first].previous \in Withdrawn(entries) THEN None ELSE entries[first].previous

\* _plan_site, render_headers, render_redirects
PlanSite(entry, new) ==
    LET entries == history \o entry
        served  == (DOMAIN archive \cup {CurrentHash(entries)}) \ Withdrawn(entries)
    IN /\ Consistent(entries)
       /\ Cardinality(served) + 2 < MaxRules
       /\ plan' = [hash      |-> CurrentHash(entries),
                   previous  |-> PreviousOf(entries),
                   served    |-> served,
                   withdrawn |-> Withdrawn(entries),
                   history   |-> entries,
                   new       |-> new]
       /\ step' = "site"
       /\ UNCHANGED <<source, archive, history, torn, deployed, crashes>>

\* run and plan_publish: publishing what is current already adds no line.
PlanPublish(ownerReviewed) ==
    /\ step = "idle"
    /\ Loaded
    /\ ownerReviewed
    /\ Verified([viewer |-> source.viewer, complete |-> TRUE], source.clean)
    /\ source.hash \notin Withdrawn(history)
    /\ source.hash \in DOMAIN archive => archive[source.hash].viewer = source.viewer
    /\ LET entry == IF CurrentHash(history) = source.hash THEN << >>
                    ELSE <<[action |-> "publish", hash |-> source.hash,
                            previous |-> CurrentHash(history), withdrawn |-> None]>>
       IN /\ Len(history \o entry) <= MaxHistory
          /\ PlanSite(entry, source.hash \notin DOMAIN archive)

\* plan_rollback: the publications that may be pointed to.
KnownGood == (DOMAIN archive \ Withdrawn(history)) \ {CurrentHash(history)}

\* run and plan_rollback
PlanRollback(target) ==
    /\ step = "idle"
    /\ Loaded
    /\ CurrentHash(history) # None
    /\ target \in KnownGood
    /\ Len(history) < MaxHistory
    /\ PlanSite(<<[action |-> "rollback", hash |-> target, previous |-> None,
                   withdrawn |-> CurrentHash(history)]>>, FALSE)

-----------------------------------------------------------------------------
(* write_plan, one write after the other.                                  *)

WriteSite ==
    /\ step = "site"
    /\ step' = IF plan.new THEN "directory" ELSE "line"
    /\ UNCHANGED <<source, archive, history, torn, plan, deployed, crashes>>

\* publication_dir.mkdir, before its files.
MakeDirectory ==
    /\ step = "directory"
    /\ archive' = [h \in DOMAIN archive \cup {plan.hash} |->
                     IF h = plan.hash THEN [viewer |-> source.viewer, complete |-> FALSE]
                     ELSE archive[h]]
    /\ step' = "files"
    /\ UNCHANGED <<source, history, torn, plan, deployed, crashes>>

WriteFiles ==
    /\ step = "files"
    /\ archive' = [archive EXCEPT ![plan.hash].complete = TRUE]
    /\ step' = "line"
    /\ UNCHANGED <<source, history, torn, plan, deployed, crashes>>

AppendHistoryLine_Skipped ==
    /\ step = "line"
    /\ history' = IF plan.new THEN plan.history ELSE history
    /\ step' = "written"
    /\ UNCHANGED <<source, archive, torn, plan, deployed, crashes>>

\* The history line, when the plan has one.
AppendHistoryLine ==
    /\ step = "line"
    /\ history' = plan.history
    /\ step' = "written"
    /\ UNCHANGED <<source, archive, torn, plan, deployed, crashes>>

EndPublishRun ==
    /\ step' = "idle"
    /\ plan' = NoPlan

\* main prints the deploy command, and the owner runs it, before the next run, or
\* never.  Each run writes a site folder of its own: deploying the folder of an
\* earlier run later is outside the tool and brings back what it served.
Deploy(taken) ==
    /\ step = "written"
    /\ deployed' = IF taken THEN [f \in DOMAIN NoSite |-> plan[f]] ELSE deployed
    /\ EndPublishRun
    /\ UNCHANGED <<source, archive, history, torn, crashes>>

\* The run is killed; a line being appended may be left in part.
KillRun ==
    /\ step # "idle"
    /\ crashes < MaxCrashes
    /\ crashes' = crashes + 1
    /\ torn' \in {torn, step = "line" /\ plan.history # history}
    /\ EndPublishRun
    /\ UNCHANGED <<source, archive, history, deployed>>

-----------------------------------------------------------------------------
\* The owner edits the demo fixture or the viewer release.
ChangeSource ==
    /\ step = "idle"
    /\ source' \in Sources \ {source}
    /\ UNCHANGED <<archive, history, torn, step, plan, deployed, crashes>>

\* The owner removes what an interrupted run left, as its backup shows it.
Repair ==
    /\ step = "idle"
    /\ LET recorded == {history[i].hash : i \in DOMAIN history} IN
       /\ torn \/ DOMAIN archive # recorded
       /\ torn' = FALSE
       /\ archive' = [h \in recorded |-> archive[h]]
    /\ UNCHANGED <<source, history, step, plan, deployed, crashes>>

PublishNext ==
    \/ \E reviewed \in BOOLEAN : PlanPublish(reviewed)
    \/ \E target \in Hashes : PlanRollback(target)
    \/ WriteSite
    \/ MakeDirectory
    \/ WriteFiles
    \/ AppendHistoryLine
    \/ \E taken \in BOOLEAN : Deploy(taken)
    \/ KillRun
    \/ ChangeSource
    \/ Repair

PublishSpec == PublishInit /\ [][PublishNext]_publishVars

-----------------------------------------------------------------------------
(* Properties.                                                             *)

\* What the public sees is what the archive records: whatever was interrupted,
\* the history the deployed site was planned from is a prefix of the recorded
\* one, every recorded publication is whole in the archive, and the site's
\* pointers lead to publications it serves (write_plan, _plan_site,
\* render_current).
DeployedRecorded ==
    /\ \A i \in DOMAIN history : /\ history[i].hash \in DOMAIN archive
                                 /\ archive[history[i].hash].complete
    /\ IsPrefix(deployed.history, history)
    /\ deployed.hash # None => deployed.hash \in deployed.served
    /\ deployed.previous # None => deployed.previous \in deployed.served
    /\ deployed.served \cap deployed.withdrawn = {}

\* A publication withdrawn from the public site never comes back, through
\* interrupted runs, re-publications and later rollbacks (plan_publish,
\* plan_rollback, withdrawn_hashes).
WithdrawnForGood ==
    [][/\ deployed.withdrawn \subseteq deployed'.withdrawn
       /\ deployed'.served \cap deployed.withdrawn = {}]_deployed

=============================================================================
