------------------------------- MODULE Backup -------------------------------
(***************************************************************************)
(* Scheduled database backups (backup.py, backup_worker.py and the         *)
(* Maintenance page).                                                      *)
(*                                                                         *)
(* The file lock of backup.py serialises the jobs of one process.  There   *)
(* are two: the server, whose worker makes a backup every interval, and    *)
(* the updater, which makes one while the server is still running.  A job  *)
(* works with the settings it read when it began, and can fail or be cut   *)
(* off at any step.                                                        *)
(*                                                                         *)
(* Abstractions.  A copy holds the database as of the commit number at     *)
(* which it was begun, and is sound or not, which verify_sqlite_backup     *)
(* finds out.  Its modification time orders the files of a folder; copy2   *)
(* keeps it.  Temporary files are never listed and are left out, as are    *)
(* downloads, which change nothing.                                        *)
(***************************************************************************)
EXTENDS Naturals, FiniteSets, FiniteSetsExt

CONSTANTS
    Dir,          \* folders
    NoDir,        \* no off-machine folder
    Retention,    \* retention counts the form is given (1 to 365 are allowed)
    MaxCommits,   \* bound: commits to the database
    MaxCopies,    \* bound: copies made
    MaxSaves      \* bound: changes of the settings

Proc == {"server", "updater"}

ASSUME BackupConstants ==
    /\ NoDir \notin Dir
    /\ Retention \subseteq 1..365

VARIABLES
    files,     \* per folder: the backups that are listed
    settings,  \* the .env values
    job,       \* per process: the running job
    commits,   \* commits to the database
    copies,    \* copies made: the clock of modification times
    reported,  \* history: per folder, the latest commit a finished job covered
    saves,     \* changes of the settings
    least      \* history: the smallest number of copies a job kept

vars == <<files, settings, job, commits, copies, reported, saves, least>>

Settings == [enabled : BOOLEAN, dir : Dir, off : Dir \cup {NoDir}, keep : Retention]

\* update_backup_settings refuses a copy folder equal to the backup folder.
Valid(s) == s.off # s.dir

Idle == [at |-> "idle"]

Init ==
    /\ files = [d \in Dir |-> {}]
    /\ settings \in {s \in Settings : Valid(s) /\ s.enabled}
    /\ job = [p \in Proc |-> Idle]
    /\ commits = 1
    /\ copies = 0
    /\ reported = [d \in Dir |-> 0]
    /\ saves = 0
    /\ least = 365

Commit ==
    /\ commits < MaxCommits
    /\ commits' = commits + 1
    /\ UNCHANGED <<files, settings, job, copies, reported, saves, least>>

\* The Maintenance page; a job that is running keeps what it read.
UpdateBackupSettings(s) ==
    /\ Valid(s)
    /\ saves < MaxSaves
    /\ saves' = saves + 1
    /\ settings' = s
    /\ UNCHANGED <<files, job, commits, copies, reported, least>>

-----------------------------------------------------------------------------
(* create_scheduled_backup.                                                *)

\* The worker asks whether backups are enabled; the updater does not.
BeginCopy(p) ==
    /\ job[p] = Idle
    /\ p = "server" => settings.enabled
    /\ job' = [job EXCEPT ![p] = [at |-> "copy", use |-> settings, content |-> commits]]
    /\ UNCHANGED <<files, settings, commits, copies, reported, saves, least>>

\* The copy is written; it may be damaged.
EndCopy(p, good) ==
    /\ job[p].at = "copy"
    /\ copies < MaxCopies
    /\ copies' = copies + 1
    /\ job' = [job EXCEPT ![p] =
                [at |-> "place", use |-> job[p].use,
                 file |-> [time |-> copies + 1, content |-> job[p].content, good |-> good]]]
    /\ UNCHANGED <<files, settings, commits, reported, saves, least>>

\* Mutant: any copy passes.
VerifyNothing(f) == TRUE

VerifySqliteBackup(f) == f.good

\* Verified, the copy gets its name.
Place(p) ==
    /\ job[p].at = "place"
    /\ VerifySqliteBackup(job[p].file)
    /\ files' = [files EXCEPT ![job[p].use.dir] = @ \cup {job[p].file}]
    /\ job' = [job EXCEPT ![p].at = "offsite"]
    /\ UNCHANGED <<settings, commits, copies, reported, saves, least>>

\* _copy_to_offsite: the new file is copied, verified and named.
CopyToOffsite(p, good) ==
    /\ job[p].at = "offsite"
    /\ job[p].use.off # NoDir
    /\ job[p].file \in files[job[p].use.dir]
    /\ LET f == [job[p].file EXCEPT !.good = @ /\ good] IN
       /\ VerifySqliteBackup(f)
       /\ files' = [files EXCEPT ![job[p].use.off] = @ \cup {f}]
    /\ job' = [job EXCEPT ![p].at = "prune"]
    /\ UNCHANGED <<settings, commits, copies, reported, saves, least>>

NoOffsite(p) ==
    /\ job[p].at = "offsite"
    /\ job[p].use.off = NoDir
    /\ job' = [job EXCEPT ![p].at = "prune"]
    /\ UNCHANGED <<files, settings, commits, copies, reported, saves, least>>

\* Mutant: one copy too many is deleted.
NewestFewer(fs, keep) == {f \in fs : Cardinality({g \in fs : g.time > f.time}) < keep - 1}

Newest(fs, keep) == {f \in fs : Cardinality({g \in fs : g.time > f.time}) < keep}

\* _prune_backups in the backup folder, then in the copy folder.
Prune(p) ==
    LET use == job[p].use IN
    /\ job[p].at = "prune"
    /\ files' = [files EXCEPT ![use.dir] = Newest(@, use.keep)]
    /\ job' = [job EXCEPT ![p].at = "pruneOff"]
    /\ least' = Min({least, use.keep})
    /\ UNCHANGED <<settings, commits, copies, saves, reported>>

PruneOffsite(p) ==
    LET use == job[p].use IN
    /\ job[p].at = "pruneOff"
    /\ files' = [d \in Dir |-> IF d = use.off THEN Newest(files[d], use.keep) ELSE files[d]]
    /\ job' = [job EXCEPT ![p].at = "report"]
    /\ UNCHANGED <<settings, commits, copies, reported, saves, least>>

\* The job succeeds if its file is still there.
Report(p) ==
    LET use == job[p].use IN
    /\ job[p].at = "report"
    /\ job[p].file \in files[use.dir]
    /\ reported' = [d \in Dir |-> IF d \in {use.dir, use.off}
                                  THEN Max({reported[d], job[p].file.content}) ELSE reported[d]]
    /\ job' = [job EXCEPT ![p] = Idle]
    /\ UNCHANGED <<files, settings, commits, copies, saves, least>>

\* An exception at any step, the end of the process, or a power cut.
JobFails(p) ==
    /\ job[p] # Idle
    /\ job' = [job EXCEPT ![p] = Idle]
    /\ UNCHANGED <<files, settings, commits, copies, reported, saves, least>>

Next ==
    \/ Commit
    \/ \E s \in Settings : UpdateBackupSettings(s)
    \/ \E p \in Proc :
          \/ BeginCopy(p) \/ Place(p) \/ NoOffsite(p) \/ Prune(p) \/ PruneOffsite(p)
          \/ Report(p) \/ JobFails(p)
          \/ \E good \in BOOLEAN : EndCopy(p, good) \/ CopyToOffsite(p, good)

Spec == Init /\ [][Next]_vars

-----------------------------------------------------------------------------
(* Properties.                                                             *)

\* Every file an operator finds in a folder is a verified copy, whichever job
\* was cut off and wherever.
OnlyVerified == \A d \in Dir : \A f \in files[d] : f.good

\* What a finished job covered stays covered: with at least two copies kept,
\* no later job, failed job or job of the other process, which may have begun
\* before and ended after it, deletes the last copy that new.
LastBackupKept ==
    least >= 2 => \A d \in Dir : reported[d] > 0 => \E f \in files[d] : f.content >= reported[d]

-----------------------------------------------------------------------------
(* The inductive invariant of the proofs in OperationsProofs.              *)

File   == [time : Nat, content : Nat, good : BOOLEAN]
Placed == {"offsite", "prune", "pruneOff", "report"}
Job    == [at : {"copy"}, use : Settings, content : Nat]
             \cup [at : {"place"} \cup Placed, use : Settings, file : File]

TypeOK ==
    /\ files \in [Dir -> SUBSET File]
    /\ \A d \in Dir : IsFiniteSet(files[d])
    /\ settings \in Settings
    /\ job \in [Proc -> {Idle} \cup Job]
    /\ commits \in Nat /\ copies \in Nat /\ saves \in Nat /\ least \in Nat
    /\ reported \in [Dir -> Nat]

HasFile(p) == job[p].at \in {"place"} \cup Placed

\* All copies: those that are listed and those a job still holds.
Copies == (UNION {files[d] : d \in Dir}) \cup {job[p].file : p \in {q \in Proc : HasFile(q)}}

\* A job holds a copy that it has verified, with settings that are valid.
JobsVerified ==
    /\ Valid(settings)
    /\ \A p \in Proc :
          /\ job[p].at \in Placed => job[p].file.good
          /\ job[p] # Idle => Valid(job[p].use)

\* No copy is newer than the database or the clock.
CopiesPast ==
    /\ \A f \in Copies : f.content <= commits /\ f.time <= copies
    /\ \A p \in Proc : job[p].at = "copy" => job[p].content <= commits

\* Copies that were begun before f and ended after it, and the jobs that can
\* still make one.
Late(f)   == {g \in Copies : g.time > f.time /\ g.content < f.content}
LateBy(f) == {p \in Proc : job[p].at = "copy" /\ job[p].content < f.content}

\* Two processes overtake each other at most once: a copy is newer than at
\* most one that holds less than it does.
OvertakenOnce == \A f \in Copies :
    /\ \A g, h \in Late(f) : g = h
    /\ \A p, q \in LateBy(f) : p = q
    /\ LateBy(f) # {} => Late(f) = {}

\* What is listed in folder d covers commit k.
Covers(d, k) == \E f \in files[d] : f.content >= k

\* The copy folder of a job that is about to report holds what it made.
OffsiteCovered == \A p \in Proc :
    /\ job[p].at = "pruneOff" => least <= job[p].use.keep
    /\ least >= 2 /\ job[p].at \in {"prune", "pruneOff", "report"} /\ job[p].use.off # NoDir =>
          Covers(job[p].use.off, job[p].file.content)

BackupInv ==
    /\ TypeOK
    /\ OnlyVerified
    /\ JobsVerified
    /\ CopiesPast
    /\ OvertakenOnce
    /\ OffsiteCovered
    /\ LastBackupKept
=============================================================================
