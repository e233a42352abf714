----------------------------- MODULE Retention -----------------------------
(***************************************************************************)
(* The purge of expenses deleted long ago (internal/service/               *)
(* purge_service.go), which every instance tries every other hour          *)
(* (runPeriodicPurge in cmd/api/main.go) and which a row of job_runs lets  *)
(* one of them do at a time (job_run_repository.go), beside the calls of   *)
(* Contents.  The instances and the database are taken to agree on time.   *)
(***************************************************************************)
EXTENDS Contents

CONSTANTS
  Instances,
  purgeJobMinInterval,
  ExpenseRetention,     \* ExpenseRetentionDays, in the same unit
  MaxTime,              \* the clock of a behaviour stops here (a bound)
  Never                 \* last_run_at of a job that has no row

ASSUME RetentionAssumption ==
  /\ purgeJobMinInterval \in Nat /\ ExpenseRetention \in Nat /\ MaxTime \in Nat
  /\ Never \notin Nat

VARIABLES
  last_run_at,          \* job_runs
  jpc,                  \* the next step of each instance's purge
  cutoff,               \* the cutoff it has computed
  doomed                \* the image paths it has yet to delete

jobVars == <<last_run_at, jpc, cutoff, doomed>>
vars == <<contentsVars, jobVars>>

JobGoto(j, step) == jpc' = [jpc EXCEPT ![j] = step]

Old(j) ==
  {e \in Entries : entry[e].status = "deleted" /\ entry[e].kind = "expense"
                     /\ entry[e].deletedAt < cutoff[j]}

Due(j) == last_run_at # Never => last_run_at < cutoff[j]

JobDone(j) ==
  /\ JobGoto(j, "idle")
  /\ cutoff' = [cutoff EXCEPT ![j] = 0]
  /\ doomed' = [doomed EXCEPT ![j] = {}]

-----------------------------------------------------------------------------
RetentionInit ==
  /\ ContentsInit
  /\ last_run_at = Never
  /\ jpc = [j \in Instances |-> "idle"]
  /\ cutoff = [j \in Instances |-> 0]
  /\ doomed = [j \in Instances |-> {}]

Tick ==
  /\ mix.purges > 0
  /\ now < MaxTime
  /\ now' = now + 1
  /\ UNCHANGED <<groupVars, entry, comment, image, paths, base, erasing, audit, jobVars>>

\* The tick of an instance, at which it computes the time to compare with.
Wake(j) ==
  /\ jpc[j] = "idle"
  /\ Cardinality({i \in Instances : jpc[i] # "idle"}) < mix.purges
  /\ cutoff' = [cutoff EXCEPT ![j] = now - purgeJobMinInterval]
  /\ JobGoto(j, "claim")
  /\ UNCHANGED <<contentsVars, last_run_at, doomed>>

\* A slip, not the code's: the row is written whatever it says.
ClaimAlways(j) ==
  /\ jpc[j] = "claim"
  /\ last_run_at' = now
  /\ cutoff' = [cutoff EXCEPT ![j] = now - ExpenseRetention]
  /\ JobGoto(j, "read_paths")
  /\ UNCHANGED <<contentsVars, doomed>>

\* One statement: INSERT, or UPDATE if the last run is older than the cutoff.
\* The instance that wins computes the cutoff of the purge.
TryClaim(j) ==
  /\ jpc[j] = "claim"
  /\ \/ /\ Due(j)
        /\ last_run_at' = now
        /\ cutoff' = [cutoff EXCEPT ![j] = now - ExpenseRetention]
        /\ JobGoto(j, "read_paths")
        /\ UNCHANGED doomed
     \/ /\ ~Due(j)
        /\ JobDone(j)
        /\ UNCHANGED last_run_at
  /\ UNCHANGED contentsVars

GetOldPaths(j) ==
  /\ jpc[j] = "read_paths"
  /\ doomed' = [doomed EXCEPT ![j] = {i \in Images : \E e \in Old(j) : entry[e].image = i}]
  /\ JobGoto(j, "purge")
  /\ UNCHANGED <<contentsVars, last_run_at, cutoff>>

\* One transaction, which waits for rows a deletion has locked; a comment
\* written meanwhile on one of the expenses makes it fail (EndJob).
PurgeOldSoftDeleted(j) ==
  /\ jpc[j] = "purge"
  /\ \A e \in Old(j) : ~Locked(e)
  /\ entry' = Erased(Old(j))
  /\ comment' = WithoutCommentsOn(Old(j))
  /\ JobGoto(j, "clean")
  /\ UNCHANGED <<groupVars, image, now, paths, base, erasing, audit, last_run_at, cutoff, doomed>>

CleanOldImage(j) ==
  /\ jpc[j] = "clean"
  /\ \E i \in doomed[j] :
       /\ doomed' = [doomed EXCEPT ![j] = @ \ {i}]
       /\ image' \in {image, [image EXCEPT ![i] = "removed"]}
  /\ UNCHANGED <<groupVars, entry, comment, now, paths, base, erasing, audit, last_run_at, jpc, cutoff>>

\* All is done, a query has failed, or the instance has died.
EndJob(j) ==
  /\ jpc[j] # "idle"
  /\ JobDone(j)
  /\ UNCHANGED <<contentsVars, last_run_at>>

Purge(j) ==
  \/ Wake(j) \/ TryClaim(j) \/ GetOldPaths(j) \/ PurgeOldSoftDeleted(j)
  \/ CleanOldImage(j) \/ EndJob(j)

RetentionNext ==
  \/ ContentsNext /\ UNCHANGED jobVars
  \/ Tick
  \/ \E j \in Instances : Purge(j)

RetentionSpec == RetentionInit /\ [][RetentionNext]_vars

-----------------------------------------------------------------------------
(* Properties *)

JobsOK ==
  /\ last_run_at \in Nat \cup {Never}
  /\ last_run_at # Never => last_run_at <= now
  /\ DOMAIN jpc = Instances
  /\ cutoff \in [Instances -> Int]
  /\ doomed \in [Instances -> SUBSET Images]
  /\ \A j \in Instances :
       /\ jpc[j] \in {"idle", "claim", "read_paths", "purge", "clean"}
       /\ jpc[j] = "claim" => cutoff[j] + purgeJobMinInterval <= now
       /\ jpc[j] \in {"read_paths", "purge"} => cutoff[j] + ExpenseRetention <= now
       /\ doomed[j] # {} => jpc[j] \in {"purge", "clean"}

RetentionTypeOK == ContentsTypeOK /\ JobsOK

\* Two runs of the purge are claimed more than the interval apart, however
\* many instances try at once, and an expense whose group stays goes for good
\* only when it was deleted longer ago than expenses are kept (TryClaim,
\* PurgeOldExpenses).
PurgeIsPatient ==
  [][/\ last_run_at' # last_run_at /\ last_run_at # Never =>
          last_run_at' - last_run_at > purgeJobMinInterval
     /\ \A e \in Entries :
          Stored(e) /\ entry'[e].status = "gone" /\ entry[e].group \in LiveGroups' =>
            entry[e].status = "deleted" /\ now - entry[e].deletedAt > ExpenseRetention]_vars

=============================================================================
