-------------------------- MODULE OperationsProofs --------------------------
(***************************************************************************)
(* Proofs about the two modules of Master's operation.                     *)
(*                                                                         *)
(* Backup: only verified copies are listed, and what a finished job        *)
(* covered stays covered, for any folders, retention counts and numbers of *)
(* commits, copies and changes of the settings.                            *)
(*                                                                         *)
(* Deployment: a stopped Master stays stopped, a command that succeeds     *)
(* serves the port it has saved, and a moved route is still known, for any *)
(* number of ports and any other applications.                             *)
(***************************************************************************)
EXTENDS Backup, Deployment, FiniteSetTheorems, SequenceTheorems, WellFoundedInduction, TLAPS

-----------------------------------------------------------------------------
(* Numbers and finite sets.                                                *)

LEMMA MaxOfTwo ==
    ASSUME NEW a \in Nat, NEW b \in Nat
    PROVE  Max({a, b}) = IF a >= b THEN a ELSE b
<1> DEFINE m == IF a >= b THEN a ELSE b
<1>1. m \in {a, b} /\ \A y \in {a, b} : m >= y
  OBVIOUS
<1>2. \A x \in {a, b} : (\A y \in {a, b} : x >= y) => x = m
  OBVIOUS
<1>3. Max({a, b}) = CHOOSE x \in {a, b} : \A y \in {a, b} : x >= y
  BY DEF Max
<1> HIDE DEF m
<1>4. Max({a, b}) = m
  BY <1>1, <1>2, <1>3
<1>. QED  BY <1>4 DEF m

LEMMA MinOfTwo ==
    ASSUME NEW a \in Nat, NEW b \in Nat
    PROVE  Min({a, b}) = IF a <= b THEN a ELSE b
<1> DEFINE m == IF a <= b THEN a ELSE b
<1>1. m \in {a, b} /\ \A y \in {a, b} : m =< y
  OBVIOUS
<1>2. \A x \in {a, b} : (\A y \in {a, b} : x =< y) => x = m
  OBVIOUS
<1>3. Min({a, b}) = CHOOSE x \in {a, b} : \A y \in {a, b} : x =< y
  BY DEF Min
<1> HIDE DEF m
<1>4. Min({a, b}) = m
  BY <1>1, <1>2, <1>3
<1>. QED  BY <1>4 DEF m

\* A set whose elements are all the same has at most one.
LEMMA AtMostOne ==
    ASSUME NEW S, \A x, y \in S : x = y
    PROVE  IsFiniteSet(S) /\ Cardinality(S) <= 1
<1>1. CASE S = {}
  BY <1>1, FS_EmptySet
<1>2. CASE S # {}
  <2>1. PICK x \in S : TRUE
    BY <1>2
  <2>2. S = {x}
    BY <2>1
  <2>3. IsFiniteSet({x}) /\ Cardinality({x}) = 1
    BY FS_Singleton
  <2>. QED  BY <2>2, <2>3
<1>. QED  BY <1>1, <1>2

\* Files whose times are bounded: one of them is the newest.
LEMMA NewestExists ==
    ASSUME NEW fs \in SUBSET File, fs # {}, NEW n \in Nat, \A f \in fs : f.time <= n
    PROVE  \E f \in fs : \A g \in fs : g.time <= f.time
<1> DEFINE age(f) == n - f.time
           ages == {age(f) : f \in fs}
<1>1. \A f \in fs : f.time \in Nat /\ age(f) \in Nat
  BY DEF File
<1>2. ages \subseteq Nat /\ ages # {}
  BY <1>1
<1>3. \E x \in ages : \A y \in ages : ~(<<y, x>> \in OpToRel(<, Nat))
  <2> HIDE DEF ages
  <2>. QED  BY <1>2, NatLessThanWellFounded, WFMin
<1>4. PICK x \in ages : \A y \in ages : ~(y < x)
  BY <1>2, <1>3 DEF OpToRel
<1>5. PICK f \in fs : x = age(f)
  BY <1>4
<1>6. ASSUME NEW g \in fs PROVE g.time <= f.time
  <2>1. age(g) \in ages
    OBVIOUS
  <2>2. ~(age(g) < age(f))
    BY <1>4, <1>5, <2>1
  <2>. QED  BY <1>1, <2>2
<1>. QED  BY <1>6

-----------------------------------------------------------------------------
(* What pruning keeps.                                                     *)

\* The newest of the copies that cover commit k is preceded, in the order of
\* _prune_backups, only by copies that were overtaken by it: by one at most.
LEMMA PruneCovers ==
    ASSUME NEW fs \in SUBSET File, IsFiniteSet(fs), NEW keep \in Nat, keep >= 2,
           NEW n \in Nat, \A f \in fs : f.time <= n,
           \A f \in fs : \A g, h \in fs :
              g.time > f.time /\ g.content < f.content
              /\ h.time > f.time /\ h.content < f.content => g = h,
           NEW k \in Nat, \E f \in fs : f.content >= k
    PROVE  \E f \in Newest(fs, keep) : f.content >= k
<1> DEFINE cover == {f \in fs : f.content >= k}
<1>1. PICK f \in cover : \A g \in cover : g.time <= f.time
  <2>1. cover \in SUBSET File /\ cover # {} /\ \A f \in cover : f.time <= n
    OBVIOUS
  <2> HIDE DEF cover
  <2>. QED  BY <2>1, NewestExists
<1> DEFINE newer == {g \in fs : g.time > f.time}
<1>2. \A g \in fs : g.time \in Nat /\ g.content \in Nat
  BY DEF File
<1>3. \A g \in newer : g.content < f.content
  <2> SUFFICES ASSUME NEW g \in newer PROVE g.content < f.content
    OBVIOUS
  <2>1. g \notin cover
    BY <1>1, <1>2
  <2>2. ~(g.content >= k) /\ f.content >= k
    BY <2>1
  <2>. QED  BY <1>2, <2>2
<1>4. \A g, h \in newer : g = h
  BY <1>3
<1>5. IsFiniteSet(newer) /\ Cardinality(newer) <= 1 /\ Cardinality(newer) \in Nat
  <2>1. IsFiniteSet(newer) /\ Cardinality(newer) <= 1
    <3> HIDE DEF newer
    <3>. QED  BY <1>4, AtMostOne
  <2>. QED  BY <2>1, FS_CardinalityType
<1>6. Cardinality(newer) < keep
  BY <1>5
<1>7. f \in Newest(fs, keep)
  BY <1>6 DEF Newest
<1>. QED  BY <1>7
-----------------------------------------------------------------------------
(* Jobs.                                                                   *)

WithFile == [at : {"place"} \cup Placed, use : Settings, file : File]

LEMMA SettingsParts ==
    ASSUME NEW s \in Settings
    PROVE  s.dir \in Dir /\ s.off \in Dir \cup {NoDir} /\ s.keep \in Nat /\ s.keep >= 1
<1>1. s.dir \in Dir /\ s.off \in Dir \cup {NoDir} /\ s.keep \in 1..365
  BY BackupConstants DEF Settings
<1>. QED  BY <1>1

LEMMA JobParts ==
    ASSUME TypeOK, NEW p \in Proc
    PROVE  /\ job[p].at = "idle" <=> job[p] = Idle
           /\ job[p].at = "copy" => job[p].use \in Settings /\ job[p].content \in Nat
           /\ HasFile(p) => /\ job[p] \in WithFile
                            /\ job[p].use \in Settings /\ job[p].file \in File
           /\ ~HasFile(p) => job[p].at \in {"idle", "copy"}
<1>1. job[p] = Idle \/ job[p] \in [at : {"copy"}, use : Settings, content : Nat]
         \/ job[p] \in WithFile
  BY DEF TypeOK, Job, WithFile
<1>2. Idle.at = "idle"
  BY DEF Idle
<1>3. CASE job[p] = Idle
  BY <1>2, <1>3 DEF HasFile, Placed
<1>4. CASE job[p] \in [at : {"copy"}, use : Settings, content : Nat]
  BY <1>2, <1>4 DEF HasFile, Placed
<1>5. CASE job[p] \in WithFile
  <2>1. /\ job[p].at \in {"place"} \cup Placed
        /\ job[p].use \in Settings /\ job[p].file \in File
    BY <1>5 DEF WithFile
  <2>. QED  BY <1>2, <1>5, <2>1 DEF HasFile, Placed
<1>. QED  BY <1>1, <1>3, <1>4, <1>5

\* A job goes on to its next step.
LEMMA Advance ==
    ASSUME TypeOK, NEW p \in Proc, HasFile(p), NEW step \in Placed,
           job' = [job EXCEPT ![p].at = step]
    PROVE  /\ job' \in [Proc -> {Idle} \cup Job]
           /\ job'[p].at = step /\ job'[p].use = job[p].use /\ job'[p].file = job[p].file
           /\ \A q \in Proc \ {p} : job'[q] = job[q]
<1> DEFINE new == [job[p] EXCEPT !.at = step]
<1>1. job[p] \in WithFile /\ job \in [Proc -> {Idle} \cup Job]
  BY JobParts DEF TypeOK
<1>2. /\ new \in WithFile /\ new.at = step
      /\ new.use = job[p].use /\ new.file = job[p].file
  BY <1>1 DEF WithFile
<1>3. job' = [job EXCEPT ![p] = new]
  BY <1>1
<1> HIDE DEF new
<1>4. new \in Job
  BY <1>2 DEF WithFile, Job
<1>. QED  BY <1>1, <1>2, <1>3, <1>4

LEMMA JobEnds ==
    ASSUME TypeOK, NEW p \in Proc, job' = [job EXCEPT ![p] = Idle]
    PROVE  /\ job' \in [Proc -> {Idle} \cup Job]
           /\ job'[p] = Idle /\ \A q \in Proc \ {p} : job'[q] = job[q]
  BY DEF TypeOK

-----------------------------------------------------------------------------
(* Copies that come from where they were.                                  *)

\* Every step but the end of a copy: what is listed was listed or is what a
\* job holds, and a job that begins copies the database of now.
Moves(q) ==
    \/ job'[q] = job[q]
    \/ job'[q] = Idle
    \/ /\ HasFile(q) /\ HasFile(q)'
       /\ job'[q].use = job[q].use /\ job'[q].file = job[q].file
       /\ job'[q].at \in Placed => job[q].file.good
    \/ job'[q].at = "copy" /\ job'[q].content = commits /\ Valid(job'[q].use)

LEMMA InvMove ==
    ASSUME BackupInv, TypeOK',
           \A d \in Dir : \A f \in files'[d] :
              f \in files[d] \/ \E q \in Proc : HasFile(q) /\ f = job[q].file /\ f.good,
           \A q \in Proc : Moves(q),
           commits' >= commits, copies' >= copies, Valid(settings')
    PROVE  OnlyVerified' /\ JobsVerified' /\ CopiesPast' /\ OvertakenOnce'
<1>2. OnlyVerified'
  BY DEF BackupInv, OnlyVerified
<1>3. ASSUME NEW q \in Proc
      PROVE  /\ HasFile(q)' => HasFile(q) /\ job'[q].file = job[q].file
             /\ job'[q].at = "copy" =>
                   \/ job[q].at = "copy" /\ job'[q].content = job[q].content
                   \/ job'[q].content = commits
             /\ job'[q].at \in Placed => job'[q].file.good
             /\ job'[q] # Idle => Valid(job'[q].use)
  <2>1. CASE job'[q] = job[q]
    BY <2>1 DEF HasFile, BackupInv, JobsVerified
  <2>2. CASE job'[q] = Idle
    BY <2>2 DEF HasFile, Idle, Placed
  <2>3. CASE /\ HasFile(q) /\ HasFile(q)'
             /\ job'[q].use = job[q].use /\ job'[q].file = job[q].file
             /\ job'[q].at \in Placed => job[q].file.good
    <3>1. job[q] # Idle
      BY <2>3 DEF HasFile, Idle, Placed
    <3>. QED  BY <2>3, <3>1 DEF HasFile, BackupInv, JobsVerified, Placed
  <2>4. CASE job'[q].at = "copy" /\ job'[q].content = commits /\ Valid(job'[q].use)
    BY <2>4 DEF HasFile, Placed
  <2>. QED  BY <2>1, <2>2, <2>3, <2>4 DEF Moves
<1>4. JobsVerified'
  BY <1>3 DEF JobsVerified
<1>5. \A f \in Copies' : f \in Copies
  BY <1>3 DEF Copies
<1>6. ASSUME NEW f \in Copies
      PROVE  /\ f \in File /\ f.content \in Nat /\ f.time \in Nat
             /\ f.content <= commits /\ f.time <= copies
  <2>1. f \in File
    BY JobParts DEF Copies, BackupInv, TypeOK
  <2>. QED  BY <2>1 DEF File, BackupInv, CopiesPast
<1>7. commits \in Nat /\ copies \in Nat /\ commits' \in Nat /\ copies' \in Nat
  BY DEF BackupInv, TypeOK
<1>8. CopiesPast'
  <2>1. \A f \in Copies' : f.content <= commits' /\ f.time <= copies'
    BY <1>5, <1>6, <1>7
  <2>2. ASSUME NEW q \in Proc, job'[q].at = "copy" PROVE job'[q].content <= commits'
    <3>1. job[q].at = "copy" => job[q].content \in Nat /\ job[q].content <= commits
      BY JobParts DEF BackupInv, CopiesPast
    <3>. QED  BY <1>3, <1>7, <2>2, <3>1
  <2>. QED  BY <2>1, <2>2 DEF CopiesPast
<1>9. \A f \in Copies' : Late(f)' \subseteq Late(f) /\ LateBy(f)' \subseteq LateBy(f)
  <2> SUFFICES ASSUME NEW f \in Copies' PROVE Late(f)' \subseteq Late(f) /\ LateBy(f)' \subseteq LateBy(f)
    OBVIOUS
  <2>1. Late(f)' \subseteq Late(f)
    BY <1>5 DEF Late
  <2>2. f.content \in Nat /\ f.content <= commits
    BY <1>5, <1>6
  <2>3. LateBy(f)' \subseteq LateBy(f)
    BY <1>3, <1>7, <2>2 DEF LateBy
  <2>. QED  BY <2>1, <2>3
<1>10. OvertakenOnce'
  <2> SUFFICES ASSUME NEW f \in Copies'
               PROVE  /\ \A g, h \in Late(f)' : g = h
                      /\ \A p, q \in LateBy(f)' : p = q
                      /\ LateBy(f)' # {} => Late(f)' = {}
    BY DEF OvertakenOnce
  <2>1. /\ \A g, h \in Late(f) : g = h
        /\ \A p, q \in LateBy(f) : p = q
        /\ LateBy(f) # {} => Late(f) = {}
    BY <1>5 DEF BackupInv, OvertakenOnce
  <2>. QED  BY <1>9, <2>1
<1>. QED  BY <1>2, <1>4, <1>8, <1>10

\* Folders that cover what they covered: the reports stay true.
LEMMA CoverMove ==
    ASSUME BackupInv, TypeOK', least' <= least,
           least' >= 2 => \A d \in Dir, k \in Nat : Covers(d, k) => Covers(d, k)',
           \A q \in Proc :
              \/ job'[q] = job[q]
              \/ job'[q].at \notin {"prune", "pruneOff", "report"}
              \/ /\ job'[q].at = "pruneOff" => least' <= job'[q].use.keep
                 /\ least' >= 2 /\ job'[q].use.off # NoDir =>
                       Covers(job[q].use.off, job[q].file.content)',
           \A d \in Dir :
              reported'[d] = reported[d] \/ (least' >= 2 => Covers(d, reported[d])')
    PROVE  OffsiteCovered' /\ LastBackupKept'
<1>1. least \in Nat /\ least' \in Nat /\ (least' >= 2 => least >= 2)
  BY DEF BackupInv, TypeOK
<1>2. ASSUME NEW q \in Proc
      PROVE  /\ job'[q].at = "pruneOff" => least' <= job'[q].use.keep
             /\ least' >= 2 /\ job'[q].at \in {"prune", "pruneOff", "report"}
                   /\ job'[q].use.off # NoDir =>
                   Covers(job[q].use.off, job[q].file.content)'
  <2>1. CASE job'[q] = job[q]
    <3>1. /\ job[q].at = "pruneOff" => least <= job[q].use.keep
          /\ least >= 2 /\ job[q].at \in {"prune", "pruneOff", "report"}
                /\ job[q].use.off # NoDir =>
                Covers(job[q].use.off, job[q].file.content)
      BY DEF BackupInv, OffsiteCovered
    <3>2. CASE job[q].at \in {"prune", "pruneOff", "report"}
      <4>1. job[q].use \in Settings /\ job[q].file \in File
        BY <3>2, JobParts DEF HasFile, Placed, BackupInv
      <4>2. job[q].use.off \in Dir \cup {NoDir} /\ job[q].use.keep \in Nat
        BY <4>1, SettingsParts
      <4>3. job[q].file.content \in Nat
        BY <4>1 DEF File
      <4>4. least' >= 2 /\ job[q].use.off # NoDir => Covers(job[q].use.off, job[q].file.content)'
        <5>1. SUFFICES ASSUME least' >= 2, job[q].use.off # NoDir
                       PROVE  Covers(job[q].use.off, job[q].file.content)'
          OBVIOUS
        <5>2. Covers(job[q].use.off, job[q].file.content)
          BY <1>1, <3>1, <3>2, <5>1
        <5> DEFINE d == job[q].use.off
                   k == job[q].file.content
        <5>3. d \in Dir /\ k \in Nat
          BY <4>2, <4>3, <5>1
        <5>4. \E f \in files[d] : f.content >= k
          BY <5>2 DEF Covers
        <5>5. \E f \in files'[d] : f.content >= k
          <6> HIDE DEF d, k
          <6>. QED  BY <5>1, <5>3, <5>4 DEF Covers
        <5>. QED  BY <2>1, <5>5 DEF Covers
      <4>5. job[q].at = "pruneOff" => least' <= job[q].use.keep
        BY <1>1, <3>1, <4>2
      <4>. QED  BY <2>1, <4>4, <4>5
    <3>3. CASE job[q].at \notin {"prune", "pruneOff", "report"}
      BY <2>1, <3>3
    <3>. QED  BY <3>2, <3>3
  <2>2. CASE job'[q].at \notin {"prune", "pruneOff", "report"}
    BY <2>2
  <2>. QED  BY <2>1, <2>2
<1>3. OffsiteCovered'
  BY <1>2 DEF OffsiteCovered
<1>4. LastBackupKept'
  <2> SUFFICES ASSUME least' >= 2, NEW d \in Dir, reported'[d] > 0
               PROVE  Covers(d, reported[d])'
    BY DEF LastBackupKept, Covers
  <2>1. CASE reported'[d] = reported[d]
    <3>1. reported[d] \in Nat /\ Covers(d, reported[d])
      BY <1>1, <2>1 DEF BackupInv, TypeOK, LastBackupKept, Covers
    <3>2. \E f \in files'[d] : f.content >= reported[d]
      BY <3>1 DEF Covers
    <3>. QED  BY <2>1, <3>2 DEF Covers
  <2>2. CASE reported'[d] # reported[d]
    BY <2>2
  <2>. QED  BY <2>1, <2>2
<1>. QED  BY <1>3, <1>4
-----------------------------------------------------------------------------
(* Folders.                                                                *)

\* A copy is added to a folder.
LEMMA Added ==
    ASSUME TypeOK, NEW d \in Dir, NEW f \in File, files' = [files EXCEPT ![d] = @ \cup {f}]
    PROVE  /\ files' \in [Dir -> SUBSET File] /\ \A e \in Dir : IsFiniteSet(files'[e])
           /\ files'[d] = files[d] \cup {f} /\ \A e \in Dir \ {d} : files'[e] = files[e]
           /\ \A e \in Dir, k \in Nat : Covers(e, k) => Covers(e, k)'
<1>1. files \in [Dir -> SUBSET File] /\ \A e \in Dir : IsFiniteSet(files[e])
  BY DEF TypeOK
<1>2. files'[d] = files[d] \cup {f} /\ \A e \in Dir \ {d} : files'[e] = files[e]
  BY <1>1
<1>3. files' \in [Dir -> SUBSET File]
  BY <1>1
<1>4. IsFiniteSet(files[d] \cup {f})
  BY <1>1, FS_AddElement
<1>5. \A e \in Dir : IsFiniteSet(files'[e])
  BY <1>1, <1>2, <1>4
<1>6. \A e \in Dir, k \in Nat : Covers(e, k) => Covers(e, k)'
  BY <1>2 DEF Covers
<1>. QED  BY <1>2, <1>3, <1>5, <1>6

\* Folders are pruned: with two copies kept, they cover what they covered.
LEMMA Pruned ==
    ASSUME BackupInv, NEW S \in SUBSET Dir, NEW keep \in Nat,
           files' = [d \in Dir |-> IF d \in S THEN Newest(files[d], keep) ELSE files[d]]
    PROVE  /\ files' \in [Dir -> SUBSET File] /\ \A d \in Dir : IsFiniteSet(files'[d])
           /\ \A d \in Dir : files'[d] \subseteq files[d]
           /\ keep >= 2 => \A d \in Dir, k \in Nat : Covers(d, k) => Covers(d, k)'
<1>1. files \in [Dir -> SUBSET File] /\ copies \in Nat /\ \A d \in Dir : IsFiniteSet(files[d])
  BY DEF BackupInv, TypeOK
<1>2. \A d \in Dir : files'[d] = IF d \in S THEN Newest(files[d], keep) ELSE files[d]
  OBVIOUS
<1>3. \A d \in Dir : files'[d] \subseteq files[d]
  BY <1>2 DEF Newest
<1>4. files' \in [Dir -> SUBSET File]
  <2>1. \A d \in Dir : files'[d] \in SUBSET File
    BY <1>1, <1>3
  <2>. QED  BY <2>1
<1>5. \A d \in Dir : IsFiniteSet(files'[d])
  BY <1>1, <1>3, FS_Subset
<1>6. ASSUME keep >= 2, NEW d \in Dir, NEW k \in Nat, Covers(d, k) PROVE Covers(d, k)'
  <2>1. CASE d \notin S
    BY <1>2, <1>6, <2>1 DEF Covers
  <2>2. CASE d \in S
    <3> DEFINE fs == files[d]
    <3>1. fs \in SUBSET File /\ IsFiniteSet(fs)
      BY <1>1
    <3>2. \A f \in fs : f \in Copies
      BY DEF Copies
    <3>3. \A f \in fs : f.time <= copies
      BY <3>2 DEF BackupInv, CopiesPast
    <3>4. \A f \in fs : \A g, h \in fs :
             g.time > f.time /\ g.content < f.content
             /\ h.time > f.time /\ h.content < f.content => g = h
      <4> SUFFICES ASSUME NEW f \in fs, NEW g \in fs, NEW h \in fs,
                          g.time > f.time /\ g.content < f.content,
                          h.time > f.time /\ h.content < f.content
                   PROVE  g = h
        OBVIOUS
      <4>1. g \in Late(f) /\ h \in Late(f) /\ f \in Copies
        BY <3>2 DEF Late
      <4>. QED  BY <4>1 DEF BackupInv, OvertakenOnce
    <3>5. \E f \in fs : f.content >= k
      BY <1>6 DEF Covers
    <3> HIDE DEF fs
    <3>6. \E f \in Newest(fs, keep) : f.content >= k
      BY <1>1, <1>6, <3>1, <3>3, <3>4, <3>5, PruneCovers
    <3>. QED  BY <1>2, <2>2, <3>6 DEF fs, Covers
  <2>. QED  BY <2>1, <2>2
<1>. QED  BY <1>3, <1>4, <1>5, <1>6

-----------------------------------------------------------------------------
(* Steps that leave the folders alone.                                     *)

LEMMA InitInv == Init => BackupInv
<1> SUFFICES ASSUME Init PROVE BackupInv
  OBVIOUS
<1>1. \A p \in Proc : job[p] = Idle /\ job[p].at = "idle" /\ ~HasFile(p)
  BY DEF Init, Idle, HasFile, Placed
<1>2. \A d \in Dir : files[d] = {} /\ reported[d] = 0
  BY DEF Init
<1>3. TypeOK
  <2>1. files \in [Dir -> SUBSET File] /\ reported \in [Dir -> Nat]
    BY DEF Init
  <2>2. \A d \in Dir : IsFiniteSet(files[d])
    BY <1>2, FS_EmptySet
  <2>3. job \in [Proc -> {Idle} \cup Job]
    BY DEF Init
  <2>. QED  BY <2>1, <2>2, <2>3 DEF Init, TypeOK
<1>4. Copies = {}
  BY <1>1, <1>2 DEF Copies
<1>5. OnlyVerified /\ LastBackupKept
  BY <1>2 DEF OnlyVerified, LastBackupKept
<1>6. JobsVerified
  BY <1>1 DEF JobsVerified, Placed, Init
<1>7. CopiesPast /\ OvertakenOnce
  BY <1>1, <1>4 DEF CopiesPast, OvertakenOnce
<1>8. OffsiteCovered
  BY <1>1 DEF OffsiteCovered
<1>. QED  BY <1>3, <1>5, <1>6, <1>7, <1>8 DEF BackupInv

\* The folders and the reports stay; the jobs move on outside pruning.
LEMMA Quiet ==
    ASSUME BackupInv, TypeOK',
           UNCHANGED <<files, reported, least, copies>>, commits' >= commits,
           \A q \in Proc : Moves(q), Valid(settings'),
           \A q \in Proc : job'[q] = job[q] \/ job'[q].at \notin {"prune", "pruneOff", "report"}
    PROVE  BackupInv'
<1>1. least' <= least /\ copies' >= copies
  BY DEF BackupInv, TypeOK
<1>2. \A d \in Dir, k \in Nat : Covers(d, k) => Covers(d, k)'
  BY DEF Covers
<1>3. OffsiteCovered' /\ LastBackupKept'
  BY <1>1, <1>2, CoverMove
<1>4. OnlyVerified' /\ JobsVerified' /\ CopiesPast' /\ OvertakenOnce'
  BY <1>1, InvMove
<1>. QED  BY <1>3, <1>4 DEF BackupInv

LEMMA CommitInv == ASSUME BackupInv, Commit PROVE BackupInv'
<1>1. TypeOK' /\ commits' >= commits
  BY DEF BackupInv, TypeOK, Commit
<1>2. \A q \in Proc : job'[q] = job[q]
  BY DEF Commit
<1>3. Valid(settings')
  BY DEF BackupInv, JobsVerified, Commit
<1>. QED  BY <1>1, <1>2, <1>3, Quiet DEF Commit, Moves

LEMMA SettingsInv ==
    ASSUME BackupInv, NEW s \in Settings, UpdateBackupSettings(s) PROVE BackupInv'
<1>1. TypeOK' /\ commits' >= commits
  BY DEF BackupInv, TypeOK, UpdateBackupSettings
<1>2. \A q \in Proc : job'[q] = job[q]
  BY DEF UpdateBackupSettings
<1>. QED  BY <1>1, <1>2, Quiet DEF UpdateBackupSettings, Moves

LEMMA JobFailsInv == ASSUME BackupInv, NEW p \in Proc, JobFails(p) PROVE BackupInv'
<1>1. /\ job' \in [Proc -> {Idle} \cup Job]
      /\ job'[p] = Idle /\ \A q \in Proc \ {p} : job'[q] = job[q]
  BY JobEnds DEF BackupInv, JobFails
<1>2. TypeOK' /\ commits' >= commits
  BY <1>1 DEF BackupInv, TypeOK, JobFails
<1>3. \A q \in Proc : job'[q] = job[q] \/ job'[q].at \notin {"prune", "pruneOff", "report"}
  BY <1>1 DEF Idle
<1>4. Valid(settings')
  BY DEF BackupInv, JobsVerified, JobFails
<1>. QED  BY <1>1, <1>2, <1>3, <1>4, Quiet DEF JobFails, Moves
LEMMA BeginCopyInv == ASSUME BackupInv, NEW p \in Proc, BeginCopy(p) PROVE BackupInv'
<1> DEFINE new == [at |-> "copy", use |-> settings, content |-> commits]
<1>1. job \in [Proc -> {Idle} \cup Job] /\ settings \in Settings /\ commits \in Nat
  BY DEF BackupInv, TypeOK
<1>2. new \in Job /\ new.at = "copy" /\ new.content = commits /\ new.use = settings
  BY <1>1 DEF Job
<1>3. job' = [job EXCEPT ![p] = new]
  BY DEF BeginCopy
<1> HIDE DEF new
<1>4. /\ job' \in [Proc -> {Idle} \cup Job]
      /\ job'[p] = new /\ \A q \in Proc \ {p} : job'[q] = job[q]
  BY <1>1, <1>2, <1>3
<1>5. TypeOK' /\ commits' >= commits
  BY <1>4 DEF BackupInv, TypeOK, BeginCopy
<1>6. Valid(settings) /\ Valid(settings')
  BY DEF BackupInv, JobsVerified, BeginCopy
<1>7. \A q \in Proc : job'[q] = job[q] \/ job'[q].at \notin {"prune", "pruneOff", "report"}
  BY <1>2, <1>4
<1>8. \A q \in Proc : Moves(q)
  BY <1>2, <1>4, <1>6 DEF Moves
<1>. QED  BY <1>5, <1>6, <1>7, <1>8, Quiet DEF BeginCopy

-----------------------------------------------------------------------------
(* The end of a copy.                                                      *)

\* The new copy is the newest.  A copy that holds more than it does was
\* overtaken by it, and by no other; no listed or held copy is newer than it,
\* and only the other process can still overtake it.
LEMMA EndCopyInv ==
    ASSUME BackupInv, NEW p \in Proc, NEW good \in BOOLEAN, EndCopy(p, good) PROVE BackupInv'
<1> DEFINE file == [time |-> copies + 1, content |-> job[p].content, good |-> good]
           new == [at |-> "place", use |-> job[p].use, file |-> file]
<1>1. /\ job \in [Proc -> {Idle} \cup Job] /\ copies \in Nat /\ commits \in Nat
      /\ files \in [Dir -> SUBSET File]
  BY DEF BackupInv, TypeOK
<1>2. /\ job[p].at = "copy" /\ job[p].use \in Settings /\ job[p].content \in Nat
      /\ job[p].content <= commits /\ Valid(job[p].use) /\ ~HasFile(p)
  <2>1. job[p].at = "copy"
    BY DEF EndCopy
  <2>2. job[p] # Idle /\ ~HasFile(p)
    BY <2>1 DEF Idle, HasFile, Placed
  <2>. QED  BY <2>1, <2>2, JobParts DEF BackupInv, CopiesPast, JobsVerified
<1>3. /\ file \in File /\ file.time = copies + 1 /\ file.content = job[p].content
  BY <1>1, <1>2 DEF File
<1>4. job' = [job EXCEPT ![p] = new] /\ copies' = copies + 1
  BY DEF EndCopy
<1> HIDE DEF file
<1>5. new \in Job /\ new.at = "place" /\ new.use = job[p].use /\ new.file = file
  BY <1>2, <1>3 DEF Job
<1> HIDE DEF new
<1>6. /\ job' \in [Proc -> {Idle} \cup Job]
      /\ job'[p] = new /\ \A q \in Proc \ {p} : job'[q] = job[q]
  BY <1>1, <1>4, <1>5
<1>7. TypeOK'
  BY <1>4, <1>6 DEF BackupInv, TypeOK, EndCopy
<1>8. files' = files /\ commits' = commits /\ settings' = settings
  BY DEF EndCopy
<1>9. OnlyVerified'
  BY <1>8 DEF BackupInv, OnlyVerified
<1>10. JobsVerified'
  BY <1>2, <1>5, <1>6, <1>8 DEF BackupInv, JobsVerified, Placed
<1>11. /\ HasFile(p)' /\ job'[p].file = file
       /\ \A q \in Proc \ {p} : HasFile(q)' <=> HasFile(q)
  BY <1>5, <1>6 DEF HasFile
<1>12. Copies' = Copies \cup {file}
  <2>1. ASSUME NEW f PROVE f \in Copies' <=> f \in Copies \cup {file}
    <3>1. f \in Copies' <=> \/ \E d \in Dir : f \in files'[d]
                            \/ \E q \in Proc : HasFile(q)' /\ f = job'[q].file
      BY DEF Copies
    <3>2. f \in Copies <=> \/ \E d \in Dir : f \in files[d]
                           \/ \E q \in Proc : HasFile(q) /\ f = job[q].file
      BY DEF Copies
    <3>3. (\E q \in Proc : HasFile(q)' /\ f = job'[q].file)
             <=> f = file \/ \E q \in Proc : HasFile(q) /\ f = job[q].file
      BY <1>2, <1>6, <1>11
    <3>. QED  BY <1>8, <3>1, <3>2, <3>3
  <2>. QED  BY <2>1
<1>13. \A f \in Copies :
          /\ f.content \in Nat /\ f.time \in Nat /\ f.content <= commits /\ f.time <= copies
  <2> SUFFICES ASSUME NEW f \in Copies
               PROVE  /\ f.content \in Nat /\ f.time \in Nat
                      /\ f.content <= commits /\ f.time <= copies
    OBVIOUS
  <2>1. f \in File
    BY <1>1, JobParts DEF Copies, BackupInv
  <2>. QED  BY <2>1 DEF File, BackupInv, CopiesPast
<1>14. CopiesPast'
  <2>1. \A f \in Copies' : f.content <= commits' /\ f.time <= copies'
    BY <1>1, <1>2, <1>3, <1>4, <1>8, <1>12, <1>13
  <2>2. \A q \in Proc : job'[q].at = "copy" => job'[q].content <= commits'
    BY <1>5, <1>6, <1>8 DEF BackupInv, CopiesPast
  <2>. QED  BY <2>1, <2>2 DEF CopiesPast
<1>15. ASSUME NEW f \in Copies'
       PROVE  /\ \A g, h \in Late(f)' : g = h
              /\ \A q, r \in LateBy(f)' : q = r
              /\ LateBy(f)' # {} => Late(f)' = {}
  <2>1. LateBy(f)' = LateBy(f) \ {p}
    BY <1>5, <1>6 DEF LateBy
  <2>2. CASE f \in Copies
    <3>1. /\ \A g, h \in Late(f) : g = h
          /\ \A q, r \in LateBy(f) : q = r
          /\ LateBy(f) # {} => Late(f) = {}
      BY <2>2 DEF BackupInv, OvertakenOnce
    <3>2. CASE file.content < f.content
      <4>1. p \in LateBy(f)
        BY <1>2, <1>3, <3>2 DEF LateBy
      <4>2. Late(f)' \subseteq {file}
        BY <1>12, <3>1, <4>1 DEF Late
      <4>3. LateBy(f)' = {}
        BY <2>1, <3>1, <4>1
      <4>. QED  BY <4>2, <4>3
    <3>3. CASE ~(file.content < f.content)
      <4>1. Late(f)' = Late(f)
        BY <1>12, <3>3 DEF Late
      <4>. QED  BY <2>1, <3>1, <4>1
    <3>. QED  BY <3>2, <3>3
  <2>3. CASE f = file
    <3>1. Late(f)' = {}
      BY <1>1, <1>3, <1>12, <1>13, <2>3 DEF Late
    <3>2. \A q, r \in Proc \ {p} : q = r
      BY DEF Proc
    <3>. QED  BY <2>1, <3>1, <3>2 DEF LateBy
  <2>. QED  BY <1>12, <2>2, <2>3
<1>16. OvertakenOnce'
  BY <1>15 DEF OvertakenOnce
<1>17. OffsiteCovered' /\ LastBackupKept'
  <2>1. least' = least /\ reported' = reported /\ least' <= least
    BY DEF EndCopy, BackupInv, TypeOK
  <2>2. \A d \in Dir, k \in Nat : Covers(d, k) => Covers(d, k)'
    BY <1>8 DEF Covers
  <2>3. \A q \in Proc : job'[q] = job[q] \/ job'[q].at \notin {"prune", "pruneOff", "report"}
    BY <1>5, <1>6
  <2>. QED  BY <1>7, <2>1, <2>2, <2>3, CoverMove
<1>. QED  BY <1>7, <1>9, <1>10, <1>14, <1>16, <1>17 DEF BackupInv
-----------------------------------------------------------------------------
(* A verified copy is named, copied and reported.                          *)

\* What a job that goes on holds.
LEMMA Goes ==
    ASSUME BackupInv, NEW p \in Proc, NEW step \in Placed,
           HasFile(p), job[p].at \in Placed \/ job[p].file.good,
           job' = [job EXCEPT ![p].at = step]
    PROVE  /\ job' \in [Proc -> {Idle} \cup Job]
           /\ job'[p].at = step /\ job'[p].use = job[p].use /\ job'[p].file = job[p].file
           /\ \A q \in Proc \ {p} : job'[q] = job[q]
           /\ \A q \in Proc : Moves(q)
           /\ job[p].file \in File /\ job[p].file.good /\ job[p].file.content \in Nat
           /\ job[p].use.dir \in Dir /\ job[p].use.off \in Dir \cup {NoDir}
           /\ job[p].use.keep \in Nat /\ job[p].use.dir # job[p].use.off
<1>1. /\ job' \in [Proc -> {Idle} \cup Job]
      /\ job'[p].at = step /\ job'[p].use = job[p].use /\ job'[p].file = job[p].file
      /\ \A q \in Proc \ {p} : job'[q] = job[q]
  BY Advance DEF BackupInv
<1>2. job[p].use \in Settings /\ job[p].file \in File
  BY JobParts DEF BackupInv
<1>3. job[p].file.good
  BY DEF BackupInv, JobsVerified
<1>4. HasFile(p)'
  BY <1>1 DEF HasFile
<1>5. \A q \in Proc : Moves(q)
  BY <1>1, <1>3, <1>4 DEF Moves
<1>6. job[p] # Idle
  BY DEF HasFile, Idle, Placed
<1>7. job[p].use.dir # job[p].use.off
  BY <1>6 DEF BackupInv, JobsVerified, Valid
<1>8. job[p].file.content \in Nat
  BY <1>2 DEF File
<1>9. /\ job[p].use.dir \in Dir /\ job[p].use.off \in Dir \cup {NoDir}
      /\ job[p].use.keep \in Nat
  BY <1>2, SettingsParts
<1>. QED  BY <1>1, <1>2, <1>3, <1>5, <1>7, <1>8, <1>9

LEMMA PlaceInv == ASSUME BackupInv, NEW p \in Proc, Place(p) PROVE BackupInv'
<1> DEFINE f == job[p].file
           d == job[p].use.dir
<1>1. HasFile(p) /\ f.good /\ job' = [job EXCEPT ![p].at = "offsite"]
  BY DEF Place, HasFile, VerifySqliteBackup
<1>2. /\ job' \in [Proc -> {Idle} \cup Job] /\ job'[p].at = "offsite"
      /\ \A q \in Proc \ {p} : job'[q] = job[q]
      /\ \A q \in Proc : Moves(q)
      /\ f \in File /\ d \in Dir
  BY <1>1, Goes DEF Placed
<1>3. files' = [files EXCEPT ![d] = @ \cup {f}] /\ TypeOK
  BY DEF Place, BackupInv
<1>4. /\ files' \in [Dir -> SUBSET File] /\ \A e \in Dir : IsFiniteSet(files'[e])
      /\ files'[d] = files[d] \cup {f} /\ \A e \in Dir \ {d} : files'[e] = files[e]
      /\ \A e \in Dir, k \in Nat : Covers(e, k) => Covers(e, k)'
  <2> HIDE DEF f, d
  <2>. QED  BY <1>2, <1>3, Added
<1>5. TypeOK'
  BY <1>2, <1>4 DEF BackupInv, TypeOK, Place
<1>6. /\ commits' >= commits /\ copies' >= copies /\ least' <= least /\ reported' = reported
      /\ Valid(settings')
  BY DEF BackupInv, TypeOK, Place, JobsVerified
<1>7. \A e \in Dir : \A g \in files'[e] :
         g \in files[e] \/ \E q \in Proc : HasFile(q) /\ g = job[q].file /\ g.good
  BY <1>1, <1>4
<1>8. OnlyVerified' /\ JobsVerified' /\ CopiesPast' /\ OvertakenOnce'
  BY <1>2, <1>5, <1>6, <1>7, InvMove
<1>9. \A q \in Proc : job'[q] = job[q] \/ job'[q].at \notin {"prune", "pruneOff", "report"}
  BY <1>2
<1>10. OffsiteCovered' /\ LastBackupKept'
  BY <1>4, <1>5, <1>6, <1>9, CoverMove
<1>. QED  BY <1>5, <1>8, <1>10 DEF BackupInv

LEMMA CopyToOffsiteInv ==
    ASSUME BackupInv, NEW p \in Proc, NEW good \in BOOLEAN, CopyToOffsite(p, good)
    PROVE  BackupInv'
<1> DEFINE f == job[p].file
           d == job[p].use.off
<1>1. HasFile(p) /\ job[p].at \in Placed /\ job' = [job EXCEPT ![p].at = "prune"]
  BY DEF CopyToOffsite, HasFile, Placed
<1>2. /\ job' \in [Proc -> {Idle} \cup Job]
      /\ job'[p].at = "prune" /\ job'[p].use = job[p].use /\ job'[p].file = job[p].file
      /\ \A q \in Proc \ {p} : job'[q] = job[q]
      /\ \A q \in Proc : Moves(q)
      /\ f \in File /\ f.good /\ f.content \in Nat /\ d \in Dir \cup {NoDir}
  BY <1>1, Goes DEF Placed
<1>3. d \in Dir
  BY <1>2 DEF CopyToOffsite
<1>4. files' = [files EXCEPT ![d] = @ \cup {f}] /\ TypeOK
  <2> DEFINE g == [f EXCEPT !.good = @ /\ good]
  <2>1. g.good /\ files' = [files EXCEPT ![d] = @ \cup {g}]
    BY DEF CopyToOffsite, VerifySqliteBackup
  <2>2. g = f
    <3>1. g \in File /\ f \in File /\ g.time = f.time /\ g.content = f.content
      BY <1>2 DEF File
    <3>2. f.good = TRUE /\ g.good = TRUE
      <4>1. g.good = (f.good /\ good)
        BY <1>2 DEF File
      <4>2. f.good \in BOOLEAN
        BY <1>2 DEF File
      <4>. QED  BY <1>2, <2>1, <4>1, <4>2
    <3> HIDE DEF f, g
    <3>. QED  BY <3>1, <3>2 DEF File
  <2>. QED  BY <2>1, <2>2 DEF BackupInv
<1>5. /\ files' \in [Dir -> SUBSET File] /\ \A e \in Dir : IsFiniteSet(files'[e])
      /\ files'[d] = files[d] \cup {f} /\ \A e \in Dir \ {d} : files'[e] = files[e]
      /\ \A e \in Dir, k \in Nat : Covers(e, k) => Covers(e, k)'
  <2> HIDE DEF f, d
  <2>. QED  BY <1>2, <1>3, <1>4, Added
<1>6. TypeOK'
  BY <1>2, <1>5 DEF BackupInv, TypeOK, CopyToOffsite
<1>7. /\ commits' >= commits /\ copies' >= copies /\ least' <= least /\ reported' = reported
      /\ Valid(settings')
  BY DEF BackupInv, TypeOK, CopyToOffsite, JobsVerified
<1>8. \A e \in Dir : \A g \in files'[e] :
         g \in files[e] \/ \E q \in Proc : HasFile(q) /\ g = job[q].file /\ g.good
  BY <1>1, <1>2, <1>5
<1>9. OnlyVerified' /\ JobsVerified' /\ CopiesPast' /\ OvertakenOnce'
  BY <1>2, <1>6, <1>7, <1>8, InvMove
<1>10. Covers(job[p].use.off, job[p].file.content)'
  BY <1>2, <1>5 DEF Covers
<1>11. OffsiteCovered' /\ LastBackupKept'
  BY <1>2, <1>5, <1>6, <1>7, <1>10, CoverMove
<1>. QED  BY <1>6, <1>9, <1>11 DEF BackupInv

LEMMA NoOffsiteInv == ASSUME BackupInv, NEW p \in Proc, NoOffsite(p) PROVE BackupInv'
<1>1. HasFile(p) /\ job[p].at \in Placed /\ job' = [job EXCEPT ![p].at = "prune"]
  BY DEF NoOffsite, HasFile, Placed
<1>2. /\ job' \in [Proc -> {Idle} \cup Job]
      /\ job'[p].at = "prune" /\ job'[p].use = job[p].use
      /\ \A q \in Proc \ {p} : job'[q] = job[q]
      /\ \A q \in Proc : Moves(q)
  BY <1>1, Goes DEF Placed
<1>3. job'[p].use.off = NoDir
  BY <1>2 DEF NoOffsite
<1>4. TypeOK'
  BY <1>2 DEF BackupInv, TypeOK, NoOffsite
<1>5. /\ commits' >= commits /\ copies' >= copies /\ least' <= least /\ reported' = reported
      /\ files' = files /\ Valid(settings')
  BY DEF BackupInv, TypeOK, NoOffsite, JobsVerified
<1>6. OnlyVerified' /\ JobsVerified' /\ CopiesPast' /\ OvertakenOnce'
  BY <1>2, <1>4, <1>5, InvMove
<1>7. \A e \in Dir, k \in Nat : Covers(e, k) => Covers(e, k)'
  BY <1>5 DEF Covers
<1>8. OffsiteCovered' /\ LastBackupKept'
  BY <1>2, <1>3, <1>4, <1>5, <1>7, CoverMove
<1>. QED  BY <1>4, <1>6, <1>8 DEF BackupInv

LEMMA ReportInv == ASSUME BackupInv, NEW p \in Proc, Report(p) PROVE BackupInv'
<1> DEFINE f == job[p].file
           use == job[p].use
<1>1. HasFile(p) /\ job[p].at = "report"
  BY DEF Report, HasFile, Placed
<1>2. use \in Settings /\ f \in File /\ f.content \in Nat
  BY <1>1, JobParts DEF BackupInv, File
<1>3. /\ job' \in [Proc -> {Idle} \cup Job]
      /\ job'[p] = Idle /\ \A q \in Proc \ {p} : job'[q] = job[q]
  BY JobEnds DEF BackupInv, Report
<1>4. reported \in [Dir -> Nat] /\ TypeOK
  BY DEF BackupInv, TypeOK
<1>5. \A d \in Dir : reported'[d] = IF d \in {use.dir, use.off}
                        THEN Max({reported[d], f.content}) ELSE reported[d]
  BY DEF Report
<1>6. \A d \in Dir : \/ reported'[d] = reported[d]
                     \/ d \in {use.dir, use.off} /\ reported'[d] = f.content
  <2> SUFFICES ASSUME NEW d \in Dir
               PROVE  \/ reported'[d] = reported[d]
                      \/ d \in {use.dir, use.off} /\ reported'[d] = f.content
    OBVIOUS
  <2>1. reported[d] \in Nat
    BY <1>4
  <2> HIDE DEF f, use
  <2>2. Max({reported[d], f.content}) = IF reported[d] >= f.content THEN reported[d] ELSE f.content
    BY <1>2, <2>1, MaxOfTwo
  <2>. QED  BY <1>5, <2>2
<1>7. reported' \in [Dir -> Nat]
  <2>1. \A d \in Dir : reported'[d] \in Nat
    BY <1>2, <1>4, <1>6
  <2>2. reported' = [d \in Dir |-> reported'[d]]
    BY DEF Report
  <2>. QED  BY <2>1, <2>2
<1>8. TypeOK'
  BY <1>3, <1>7 DEF BackupInv, TypeOK, Report
<1>9. /\ commits' >= commits /\ copies' >= copies /\ least' = least /\ least' <= least
      /\ files' = files /\ Valid(settings')
  BY DEF BackupInv, TypeOK, Report, JobsVerified
<1>10. OnlyVerified' /\ JobsVerified' /\ CopiesPast' /\ OvertakenOnce'
  BY <1>3, <1>8, <1>9, InvMove DEF Moves
<1>11. \A e \in Dir, k \in Nat : Covers(e, k) => Covers(e, k)'
  BY <1>9 DEF Covers
<1>12. \A q \in Proc : job'[q] = job[q] \/ job'[q].at \notin {"prune", "pruneOff", "report"}
  BY <1>3 DEF Idle
<1>13. ASSUME NEW d \in Dir, least' >= 2, reported'[d] # reported[d]
       PROVE  Covers(d, reported[d])'
  <2>1. d \in {use.dir, use.off} /\ reported'[d] = f.content
    BY <1>6, <1>13
  <2>2. CASE d = use.dir
    <3>1. f \in files[d]
      BY <2>2 DEF Report
    <3>. QED  BY <1>2, <1>9, <2>1, <3>1 DEF Covers
  <2>3. CASE d = use.off
    <3>1. use.off # NoDir
      BY <2>3, BackupConstants
    <3>2. Covers(use.off, f.content)
      BY <1>1, <1>9, <1>13, <3>1 DEF BackupInv, OffsiteCovered
    <3>. QED  BY <1>9, <2>1, <2>3, <3>2 DEF Covers
  <2>. QED  BY <2>1, <2>2, <2>3
<1>14. \A d \in Dir : reported'[d] = reported[d] \/ (least' >= 2 => Covers(d, reported[d])')
  BY <1>13
<1>15. OffsiteCovered' /\ LastBackupKept'
  BY <1>8, <1>9, <1>11, <1>12, <1>14, CoverMove
<1>. QED  BY <1>8, <1>10, <1>15 DEF BackupInv

-----------------------------------------------------------------------------
(* Pruning.                                                                *)

LEMMA PruneInv == ASSUME BackupInv, NEW p \in Proc, Prune(p) PROVE BackupInv'
<1> DEFINE use == job[p].use
<1>1. HasFile(p) /\ job[p].at = "prune" /\ job' = [job EXCEPT ![p].at = "pruneOff"]
  BY DEF Prune, HasFile, Placed
<1>2. /\ job' \in [Proc -> {Idle} \cup Job]
      /\ job'[p].at = "pruneOff" /\ job'[p].use = use /\ job'[p].file = job[p].file
      /\ \A q \in Proc \ {p} : job'[q] = job[q]
      /\ \A q \in Proc : Moves(q)
      /\ use.dir \in Dir /\ use.off \in Dir \cup {NoDir} /\ use.keep \in Nat
      /\ job[p].file.content \in Nat
  BY <1>1, Goes DEF Placed
<1>3. files' = [d \in Dir |-> IF d \in {use.dir} THEN Newest(files[d], use.keep) ELSE files[d]]
  <2>1. files' = [files EXCEPT ![use.dir] = Newest(@, use.keep)]
    BY DEF Prune
  <2>2. files \in [Dir -> SUBSET File]
    BY DEF BackupInv, TypeOK
  <2> HIDE DEF use
  <2>. QED  BY <2>1, <2>2
<1>4. /\ files' \in [Dir -> SUBSET File] /\ \A d \in Dir : IsFiniteSet(files'[d])
      /\ \A d \in Dir : files'[d] \subseteq files[d]
      /\ use.keep >= 2 => \A d \in Dir, k \in Nat : Covers(d, k) => Covers(d, k)'
  <2>1. {use.dir} \in SUBSET Dir
    BY <1>2
  <2> HIDE DEF use
  <2>. QED  BY <1>2, <1>3, <2>1, Pruned
<1>5. least' \in Nat /\ least' <= least /\ least' <= use.keep
  <2>1. least \in Nat /\ least' = Min({least, use.keep})
    BY DEF BackupInv, TypeOK, Prune
  <2>2. Min({least, use.keep}) = IF least <= use.keep THEN least ELSE use.keep
    BY <1>2, <2>1, MinOfTwo
  <2>. QED  BY <1>2, <2>1, <2>2
<1>6. TypeOK'
  BY <1>2, <1>4, <1>5 DEF BackupInv, TypeOK, Prune
<1>7. commits' >= commits /\ copies' >= copies /\ reported' = reported /\ Valid(settings')
  BY DEF BackupInv, TypeOK, Prune, JobsVerified
<1>8. OnlyVerified' /\ JobsVerified' /\ CopiesPast' /\ OvertakenOnce'
  BY <1>2, <1>4, <1>6, <1>7, InvMove
<1>9. least' >= 2 => \A d \in Dir, k \in Nat : Covers(d, k) => Covers(d, k)'
  BY <1>2, <1>4, <1>5
<1>10. ASSUME least' >= 2, use.off # NoDir
       PROVE  Covers(job[p].use.off, job[p].file.content)'
  <2>1. least >= 2
    BY <1>5, <1>10 DEF BackupInv, TypeOK
  <2>2. Covers(use.off, job[p].file.content)
    BY <1>1, <1>10, <2>1 DEF BackupInv, OffsiteCovered
  <2> DEFINE d == use.off
             k == job[p].file.content
  <2>3. d \in Dir /\ k \in Nat /\ \E f \in files[d] : f.content >= k
    BY <1>2, <1>10, <2>2 DEF Covers
  <2>4. \E f \in files'[d] : f.content >= k
    <3> HIDE DEF d, k
    <3>. QED  BY <1>9, <1>10, <2>3 DEF Covers
  <2>. QED  BY <1>2, <2>4 DEF Covers
<1>11. OffsiteCovered' /\ LastBackupKept'
  BY <1>2, <1>5, <1>6, <1>7, <1>9, <1>10, CoverMove
<1>. QED  BY <1>6, <1>8, <1>11 DEF BackupInv

LEMMA PruneOffsiteInv == ASSUME BackupInv, NEW p \in Proc, PruneOffsite(p) PROVE BackupInv'
<1> DEFINE use == job[p].use
           S == {d \in Dir : d = use.off}
<1>1. HasFile(p) /\ job[p].at = "pruneOff" /\ job' = [job EXCEPT ![p].at = "report"]
  BY DEF PruneOffsite, HasFile, Placed
<1>2. /\ job' \in [Proc -> {Idle} \cup Job]
      /\ job'[p].at = "report" /\ job'[p].use = use /\ job'[p].file = job[p].file
      /\ \A q \in Proc \ {p} : job'[q] = job[q]
      /\ \A q \in Proc : Moves(q)
      /\ use.off \in Dir \cup {NoDir} /\ use.keep \in Nat
      /\ job[p].file.content \in Nat
  BY <1>1, Goes DEF Placed
<1>3. files' = [d \in Dir |-> IF d \in S THEN Newest(files[d], use.keep) ELSE files[d]]
  BY DEF PruneOffsite
<1>4. /\ files' \in [Dir -> SUBSET File] /\ \A d \in Dir : IsFiniteSet(files'[d])
      /\ \A d \in Dir : files'[d] \subseteq files[d]
      /\ use.keep >= 2 => \A d \in Dir, k \in Nat : Covers(d, k) => Covers(d, k)'
  <2>1. S \in SUBSET Dir
    OBVIOUS
  <2> HIDE DEF use, S
  <2>. QED  BY <1>2, <1>3, <2>1, Pruned
<1>5. least' = least /\ least \in Nat /\ least' <= least /\ least <= use.keep
  BY <1>1 DEF BackupInv, TypeOK, PruneOffsite, OffsiteCovered
<1>6. TypeOK'
  BY <1>2, <1>4, <1>5 DEF BackupInv, TypeOK, PruneOffsite
<1>7. commits' >= commits /\ copies' >= copies /\ reported' = reported /\ Valid(settings')
  BY DEF BackupInv, TypeOK, PruneOffsite, JobsVerified
<1>8. OnlyVerified' /\ JobsVerified' /\ CopiesPast' /\ OvertakenOnce'
  BY <1>2, <1>4, <1>6, <1>7, InvMove
<1>9. least' >= 2 => \A d \in Dir, k \in Nat : Covers(d, k) => Covers(d, k)'
  BY <1>2, <1>4, <1>5
<1>10. ASSUME least' >= 2, use.off # NoDir
       PROVE  Covers(job[p].use.off, job[p].file.content)'
  <2>1. Covers(use.off, job[p].file.content)
    BY <1>1, <1>5, <1>10 DEF BackupInv, OffsiteCovered
  <2> DEFINE d == use.off
             k == job[p].file.content
  <2>2. d \in Dir /\ k \in Nat /\ \E f \in files[d] : f.content >= k
    BY <1>2, <1>10, <2>1 DEF Covers
  <2>3. \E f \in files'[d] : f.content >= k
    <3> HIDE DEF d, k
    <3>. QED  BY <1>9, <1>10, <2>2 DEF Covers
  <2>. QED  BY <1>2, <2>3 DEF Covers
<1>11. OffsiteCovered' /\ LastBackupKept'
  BY <1>2, <1>5, <1>6, <1>7, <1>9, <1>10, CoverMove
<1>. QED  BY <1>6, <1>8, <1>11 DEF BackupInv

-----------------------------------------------------------------------------
(* The theorems.                                                           *)

LEMMA NextInv == ASSUME BackupInv, [Next]_vars PROVE BackupInv'
<1>1. CASE Commit
  BY <1>1, CommitInv
<1>2. ASSUME NEW s \in Settings, UpdateBackupSettings(s) PROVE BackupInv'
  BY <1>2, SettingsInv
<1>3. ASSUME NEW p \in Proc,
             \/ BeginCopy(p) \/ Place(p) \/ NoOffsite(p) \/ Prune(p) \/ PruneOffsite(p)
             \/ Report(p) \/ JobFails(p)
      PROVE  BackupInv'
  BY <1>3, BeginCopyInv, PlaceInv, NoOffsiteInv, PruneInv, PruneOffsiteInv, ReportInv, JobFailsInv
<1>4. ASSUME NEW p \in Proc, NEW good \in BOOLEAN, EndCopy(p, good) \/ CopyToOffsite(p, good)
      PROVE  BackupInv'
  BY <1>4, EndCopyInv, CopyToOffsiteInv
<1>5. CASE UNCHANGED vars
  BY <1>5 DEF vars, BackupInv, TypeOK, OnlyVerified, JobsVerified, CopiesPast, OvertakenOnce,
              Late, LateBy, Copies, HasFile, OffsiteCovered, Covers, LastBackupKept
<1>. QED  BY <1>1, <1>2, <1>3, <1>4, <1>5 DEF Next

LEMMA Inductive == Spec => []BackupInv
  BY InitInv, NextInv, PTL DEF Spec

\* The state of the jobs and of the folders has its type.
THEOREM TypeCorrect == Spec => []TypeOK
<1>1. BackupInv => TypeOK
  BY DEF BackupInv
<1>. QED  BY <1>1, Inductive, PTL

\* Whatever step of create_scheduled_backup fails, and whichever of the two
\* processes it belongs to, an operator finds only verified copies in a folder.
THEOREM OnlyVerifiedHolds == Spec => []OnlyVerified
<1>1. BackupInv => OnlyVerified
  BY DEF BackupInv
<1>. QED  BY <1>1, Inductive, PTL

\* With at least two copies kept, what a finished job covered stays covered:
\* _prune_backups of the server's job and of the updater's, which can overlap,
\* never delete the last copy that new.
THEOREM LastBackupKeptHolds == Spec => []LastBackupKept
<1>1. BackupInv => LastBackupKept
  BY DEF BackupInv
<1>. QED  BY <1>1, Inductive, PTL

-----------------------------------------------------------------------------
(* Sequences of steps.                                                     *)

StepName == {"prepare", "preflight", "existing", "query", "routeOff", "disable", "end", "waitStop",
             "select", "portFile", "install", "createTask", "enable", "run", "health",
             "identity", "trust", "serve", "verify", "forget", "address"}

\* Two sequences in a row, element by element.
LEMMA Glue ==
    ASSUME NEW S, NEW s \in Seq(S), NEW t \in Seq(S), NEW u \in Seq(S),
           Len(u) = Len(s) + Len(t),
           \A i \in 1..Len(s) : u[i] = s[i], \A i \in 1..Len(t) : u[Len(s) + i] = t[i]
    PROVE  s \o t = u
<1> DEFINE m == Len(s)
           n == Len(t)
<1>1. /\ s \o t \in Seq(S) /\ Len(s \o t) = m + n
      /\ \A i \in 1..m + n : (s \o t)[i] = IF i <= m THEN s[i] ELSE t[i - m]
  BY ConcatProperties, Zenon
<1>2. m \in Nat /\ n \in Nat /\ Len(u) = m + n
  BY LenProperties
<1>3. (\A i \in 1..m : u[i] = s[i]) /\ (\A i \in 1..n : u[m + i] = t[i])
  OBVIOUS
<1> HIDE DEF m, n
<1>4. ASSUME NEW i \in 1..m + n PROVE (s \o t)[i] = u[i]
  <2>1. CASE i <= m
    BY <1>1, <1>2, <1>3, <2>1
  <2>2. CASE ~(i <= m)
    <3>1. i - m \in 1..n /\ m + (i - m) = i
      BY <1>2, <2>2
    <3>2. u[i] = t[i - m]
      BY <1>3, <3>1
    <3>. QED  BY <1>1, <2>2, <3>2
  <2>. QED  BY <2>1, <2>2
<1>5. Len(s \o t) = Len(u) /\ \A i \in 1..Len(s \o t) : (s \o t)[i] = u[i]
  BY <1>1, <1>2, <1>4
<1>. QED  BY <1>1, <1>5, SeqEqual, Zenon

\* What is left of a sequence, by the number of steps that are left.
LEMMA EndsAt ==
    ASSUME NEW s \in Seq(StepName), NEW e \in Ends(s)
    PROVE  /\ e \in Seq(StepName) /\ Len(e) \in 0..Len(s) /\ (Len(e) = 0 <=> e = <<>>)
           /\ \A i \in 1..Len(e) : e[i] = s[Len(s) - Len(e) + i]
           /\ e # <<>> => /\ Head(e) = s[Len(s) - Len(e) + 1]
                          /\ Tail(e) \in Ends(s) /\ Len(Tail(e)) = Len(e) - 1
<1>1. Len(s) \in Nat /\ \A i \in 1..Len(s) : s[i] \in StepName
  BY ElementOfSeq, LenProperties
<1>2. PICK k \in 1..(Len(s) + 1) : e = SubSeq(s, k, Len(s))
  BY DEF Ends
<1>3. /\ e \in Seq(StepName) /\ Len(e) = IF k <= Len(s) THEN Len(s) - k + 1 ELSE 0
      /\ \A i \in 1..Len(s) - k + 1 : e[i] = s[k + i - 1]
  <2>1. \A i \in k..Len(s) : s[i] \in StepName
    BY <1>1
  <2>2. k \in Int /\ Len(s) \in Int
    BY <1>1
  <2>. QED  BY <1>2, <2>1, <2>2, SubSeqProperties
<1>4. Len(e) = Len(s) - k + 1 /\ Len(e) \in 0..Len(s) /\ k = Len(s) - Len(e) + 1
  BY <1>1, <1>3
<1>5. \A i \in 1..Len(e) : e[i] = s[Len(s) - Len(e) + i]
  <2> SUFFICES ASSUME NEW i \in 1..Len(e) PROVE e[i] = s[Len(s) - Len(e) + i]
    OBVIOUS
  <2>1. e[i] = s[k + i - 1] /\ k + i - 1 = Len(s) - Len(e) + i
    BY <1>1, <1>3, <1>4
  <2>. QED  BY <2>1
<1>6. Len(e) = 0 <=> e = <<>>
  BY <1>3, EmptySeq
<1>7. ASSUME e # <<>>
      PROVE  /\ Head(e) = s[Len(s) - Len(e) + 1]
             /\ Tail(e) \in Ends(s) /\ Len(Tail(e)) = Len(e) - 1
  <2>1. Len(e) \in 1..Len(s) /\ k \in 1..Len(s)
    BY <1>1, <1>4, <1>6, <1>7
  <2>2. Head(e) = e[1]
    BY <1>3, <1>7
  <2>3. Head(e) = s[Len(s) - Len(e) + 1]
    BY <1>5, <2>1, <2>2
  <2>4. /\ Tail(e) \in Seq(StepName) /\ Len(Tail(e)) = Len(e) - 1
        /\ \A i \in 1..Len(Tail(e)) : Tail(e)[i] = e[i + 1]
    BY <1>3, <1>7, HeadTailProperties
  <2> DEFINE f == SubSeq(s, k + 1, Len(s))
  <2>5. /\ f \in Seq(StepName) /\ Len(f) = IF k + 1 <= Len(s) THEN Len(s) - (k + 1) + 1 ELSE 0
        /\ \A i \in 1..Len(s) - (k + 1) + 1 : f[i] = s[(k + 1) + i - 1]
    <3>1. \A i \in (k + 1)..Len(s) : s[i] \in StepName
      BY <1>1
    <3>2. k + 1 \in Int /\ Len(s) \in Int
      BY <1>1
    <3>. QED  BY <3>1, <3>2, SubSeqProperties
  <2>6. f \in Ends(s)
    <3> DEFINE j == k + 1
    <3>1. j \in 1..(Len(s) + 1)
      BY <1>1, <2>1
    <3>2. f = SubSeq(s, j, Len(s))
      OBVIOUS
    <3> HIDE DEF j, f
    <3>. QED  BY <3>1, <3>2 DEF Ends
  <2> HIDE DEF f
  <2>7. Len(Tail(e)) = Len(f)
    <3>1. Len(Tail(e)) = Len(s) - k
      BY <1>1, <1>4, <2>1, <2>4
    <3>2. Len(f) = Len(s) - k
      <4> DEFINE n == Len(s)
      <4>1. n \in Nat /\ k \in 1..n /\ Len(f) = IF k + 1 <= n THEN n - (k + 1) + 1 ELSE 0
        BY <1>1, <2>1, <2>5
      <4> HIDE DEF n
      <4>2. Len(f) = n - k
        BY <4>1
      <4>. QED  BY <4>2 DEF n
    <3>. QED  BY <3>1, <3>2
  <2>8. ASSUME NEW i \in 1..Len(Tail(e)) PROVE Tail(e)[i] = f[i]
    <3>1. i + 1 \in 1..Len(s) - k + 1 /\ i \in 1..Len(s) - (k + 1) + 1
      BY <1>1, <1>4, <2>1, <2>4
    <3>2. Tail(e)[i] = s[k + (i + 1) - 1] /\ f[i] = s[(k + 1) + i - 1]
      BY <1>3, <2>4, <2>5, <3>1
    <3>3. k + (i + 1) - 1 = (k + 1) + i - 1
      BY <1>1, <3>1
    <3>. QED  BY <3>2, <3>3
  <2>9. Tail(e) = f
    BY <2>4, <2>5, <2>7, <2>8, SeqEqual
  <2>. QED  BY <2>3, <2>4, <2>6, <2>9
<1>. QED  BY <1>3, <1>4, <1>5, <1>6, <1>7

LEMMA EndsAll ==
    ASSUME NEW s \in Seq(StepName)
    PROVE  s \in Ends(s) /\ <<>> \in Ends(s)
<1>1. Len(s) \in Nat /\ 1 \in 1..(Len(s) + 1) /\ Len(s) + 1 \in 1..(Len(s) + 1)
  BY LenProperties
<1>2. SubSeq(s, 1, Len(s)) = s
  BY SubSeqFull
<1>3. SubSeq(s, Len(s) + 1, Len(s)) = <<>>
  <2>1. Len(s) + 1 \in Int /\ Len(s) \in Int /\ Len(s) < Len(s) + 1
    BY <1>1
  <2>. QED  BY <2>1, SubSeqEmpty
<1>. QED  BY <1>1, <1>2, <1>3 DEF Ends

-----------------------------------------------------------------------------
(* The commands, written out.                                              *)

StartAll  == <<"preflight", "query", "routeOff", "end", "waitStop", "select", "portFile",
               "enable", "run", "health",
               "identity", "trust", "serve", "verify", "forget", "address">>
UpdateAll == <<"preflight", "routeOff", "disable", "end", "waitStop", "install", "createTask",
               "preflight", "query", "routeOff", "end", "waitStop", "select", "portFile",
               "enable", "run", "health",
               "identity", "trust", "serve", "verify", "forget", "address">>
AfterAll  == <<"select", "portFile", "install", "createTask", "run", "health",
               "identity", "trust", "serve", "verify", "forget", "address">>
SetupAll  == <<"routeOff", "disable", "end", "waitStop",
               "select", "portFile", "install", "createTask", "run", "health",
               "identity", "trust", "serve", "verify", "forget", "address">>

LEMMA Lengths ==
    /\ StartAll \in Seq(StepName) /\ Len(StartAll) = 16
    /\ UpdateAll \in Seq(StepName) /\ Len(UpdateAll) = 23
    /\ AfterAll \in Seq(StepName) /\ Len(AfterAll) = 12
    /\ SetupAll \in Seq(StepName) /\ Len(SetupAll) = 16
    /\ StopSteps \in Seq(StepName) /\ Len(StopSteps) = 4
    /\ SetupSteps \in Seq(StepName) /\ Len(SetupSteps) = 3
    /\ Again \in Seq(StepName) /\ Len(Again) = 8
<1>1. StartAll \in Seq(StepName) /\ Len(StartAll) = 16
  BY DEF StartAll, StepName
<1>2. UpdateAll \in Seq(StepName) /\ Len(UpdateAll) = 23
  BY DEF UpdateAll, StepName
<1>3. AfterAll \in Seq(StepName) /\ Len(AfterAll) = 12
  BY DEF AfterAll, StepName
<1>4. SetupAll \in Seq(StepName) /\ Len(SetupAll) = 16
  BY DEF SetupAll, StepName
<1>5. StopSteps \in Seq(StepName) /\ Len(StopSteps) = 4
  BY DEF StopSteps, StepName
<1>6. SetupSteps \in Seq(StepName) /\ Len(SetupSteps) = 3
  BY DEF SetupSteps, StepName
<1>7. Again \in Seq(StepName) /\ Len(Again) = 8
  BY DEF Again, StepName
<1>. QED  BY <1>1, <1>2, <1>3, <1>4, <1>5, <1>6, <1>7

LEMMA StartIs == StartSteps = StartAll
<1> DEFINE s == <<"preflight", "query", "routeOff", "end", "waitStop", "select", "portFile",
                  "enable", "run", "health">>
           t == <<"identity", "trust", "serve", "verify", "forget", "address">>
<1>1. s \in Seq(StepName) /\ Len(s) = 10 /\ t \in Seq(StepName) /\ Len(t) = 6
  BY DEF StepName
<1>2. (\A i \in 1..10 : StartAll[i] = s[i]) /\ (\A i \in 1..6 : StartAll[10 + i] = t[i])
  BY DEF StartAll
<1>3. StartSteps = s \o t
  BY DEF StartSteps, ApiSteps
<1> HIDE DEF s, t
<1>4. s \o t = StartAll
  <2>1. /\ Len(StartAll) = Len(s) + Len(t)
        /\ \A i \in 1..Len(s) : StartAll[i] = s[i]
        /\ \A i \in 1..Len(t) : StartAll[Len(s) + i] = t[i]
    BY <1>1, <1>2, Lengths
  <2>2. s \in Seq(StepName) /\ t \in Seq(StepName) /\ StartAll \in Seq(StepName)
    BY <1>1, <1>2, Lengths
  <2>. QED  BY <2>1, <2>2, Glue, Zenon
<1>. QED  BY <1>3, <1>4

LEMMA AfterIs == AfterSetup = AfterAll
<1> DEFINE a == <<"select", "portFile">>
           b == <<"install", "createTask">>
           c == <<"run", "health">>
           t == <<"identity", "trust", "serve", "verify", "forget", "address">>
           u == <<"select", "portFile", "install", "createTask">>
           v == <<"select", "portFile", "install", "createTask", "run", "health">>
<1>1. /\ a \in Seq(StepName) /\ Len(a) = 2 /\ b \in Seq(StepName) /\ Len(b) = 2
      /\ c \in Seq(StepName) /\ Len(c) = 2 /\ t \in Seq(StepName) /\ Len(t) = 6
  BY DEF StepName
<1>2. u \in Seq(StepName) /\ Len(u) = 4 /\ v \in Seq(StepName) /\ Len(v) = 6
  BY DEF StepName
<1>3. (\A i \in 1..2 : u[i] = a[i]) /\ (\A i \in 1..2 : u[2 + i] = b[i])
  OBVIOUS
<1>4. (\A i \in 1..4 : v[i] = u[i]) /\ (\A i \in 1..2 : v[4 + i] = c[i])
  OBVIOUS
<1>5. (\A i \in 1..6 : AfterAll[i] = v[i]) /\ (\A i \in 1..6 : AfterAll[6 + i] = t[i])
  BY DEF AfterAll
<1>6. AfterSetup = ((a \o b) \o c) \o t
  BY DEF AfterSetup, InstallSteps, ApiSteps
<1> HIDE DEF a, b, c, t, u, v
<1>7. a \o b = u
  <2>1. /\ Len(u) = Len(a) + Len(b)
        /\ \A i \in 1..Len(a) : u[i] = a[i]
        /\ \A i \in 1..Len(b) : u[Len(a) + i] = b[i]
    BY <1>1, <1>2, <1>3
  <2>2. a \in Seq(StepName) /\ b \in Seq(StepName) /\ u \in Seq(StepName)
    BY <1>1, <1>2, <1>3
  <2>. QED  BY <2>1, <2>2, Glue, Zenon
<1>8. u \o c = v
  <2>1. /\ Len(v) = Len(u) + Len(c)
        /\ \A i \in 1..Len(u) : v[i] = u[i]
        /\ \A i \in 1..Len(c) : v[Len(u) + i] = c[i]
    BY <1>1, <1>2, <1>4
  <2>2. u \in Seq(StepName) /\ c \in Seq(StepName) /\ v \in Seq(StepName)
    BY <1>1, <1>2, <1>4
  <2>. QED  BY <2>1, <2>2, Glue, Zenon
<1>9. v \o t = AfterAll
  <2>1. /\ Len(AfterAll) = Len(v) + Len(t)
        /\ \A i \in 1..Len(v) : AfterAll[i] = v[i]
        /\ \A i \in 1..Len(t) : AfterAll[Len(v) + i] = t[i]
    BY <1>1, <1>2, <1>5, Lengths
  <2>2. v \in Seq(StepName) /\ t \in Seq(StepName) /\ AfterAll \in Seq(StepName)
    BY <1>1, <1>2, <1>5, Lengths
  <2>. QED  BY <2>1, <2>2, Glue, Zenon
<1>. QED  BY <1>6, <1>7, <1>8, <1>9

LEMMA SetupIs == SetupAgain = SetupAll
<1>1. /\ \A i \in 1..4 : SetupAll[i] = StopSteps[i]
      /\ \A i \in 1..12 : SetupAll[4 + i] = AfterAll[i]
  BY DEF SetupAll, AfterAll, StopSteps
<1>2. StopSteps \o AfterAll = SetupAll
  <2>1. /\ Len(SetupAll) = Len(StopSteps) + Len(AfterAll)
        /\ \A i \in 1..Len(StopSteps) : SetupAll[i] = StopSteps[i]
        /\ \A i \in 1..Len(AfterAll) : SetupAll[Len(StopSteps) + i] = AfterAll[i]
    BY <1>1, Lengths
  <2>2. StopSteps \in Seq(StepName) /\ AfterAll \in Seq(StepName) /\ SetupAll \in Seq(StepName)
    BY <1>1, Lengths
  <2>. QED  BY <2>1, <2>2, Glue, Zenon
<1>. QED  BY <1>2, AfterIs DEF SetupAgain

LEMMA UpdateIs == UpdateSteps = UpdateAll
<1> DEFINE a == <<"preflight">>
           b == <<"install", "createTask">>
           u == <<"preflight", "routeOff", "disable", "end", "waitStop">>
           v == <<"preflight", "routeOff", "disable", "end", "waitStop", "install", "createTask">>
<1>1. /\ a \in Seq(StepName) /\ Len(a) = 1 /\ b \in Seq(StepName) /\ Len(b) = 2
      /\ u \in Seq(StepName) /\ Len(u) = 5 /\ v \in Seq(StepName) /\ Len(v) = 7
  BY DEF StepName
<1>2. (\A i \in 1..1 : u[i] = a[i]) /\ (\A i \in 1..4 : u[1 + i] = StopSteps[i])
  BY DEF StopSteps
<1>3. (\A i \in 1..5 : v[i] = u[i]) /\ (\A i \in 1..2 : v[5 + i] = b[i])
  OBVIOUS
<1>4. (\A i \in 1..7 : UpdateAll[i] = v[i]) /\ (\A i \in 1..16 : UpdateAll[7 + i] = StartAll[i])
  BY DEF UpdateAll, StartAll
<1>5. UpdateSteps = ((a \o StopSteps) \o b) \o StartSteps
  BY DEF UpdateSteps, InstallSteps
<1> HIDE DEF a, b, u, v
<1>6. a \o StopSteps = u
  <2>1. /\ Len(u) = Len(a) + Len(StopSteps)
        /\ \A i \in 1..Len(a) : u[i] = a[i]
        /\ \A i \in 1..Len(StopSteps) : u[Len(a) + i] = StopSteps[i]
    BY <1>1, <1>2, Lengths
  <2>2. a \in Seq(StepName) /\ StopSteps \in Seq(StepName) /\ u \in Seq(StepName)
    BY <1>1, <1>2, Lengths
  <2>. QED  BY <2>1, <2>2, Glue, Zenon
<1>7. u \o b = v
  <2>1. /\ Len(v) = Len(u) + Len(b)
        /\ \A i \in 1..Len(u) : v[i] = u[i]
        /\ \A i \in 1..Len(b) : v[Len(u) + i] = b[i]
    BY <1>1, <1>3
  <2>2. u \in Seq(StepName) /\ b \in Seq(StepName) /\ v \in Seq(StepName)
    BY <1>1, <1>3
  <2>. QED  BY <2>1, <2>2, Glue, Zenon
<1>8. v \o StartAll = UpdateAll
  <2>1. /\ Len(UpdateAll) = Len(v) + Len(StartAll)
        /\ \A i \in 1..Len(v) : UpdateAll[i] = v[i]
        /\ \A i \in 1..Len(StartAll) : UpdateAll[Len(v) + i] = StartAll[i]
    BY <1>1, <1>4, Lengths
  <2>2. v \in Seq(StepName) /\ StartAll \in Seq(StepName) /\ UpdateAll \in Seq(StepName)
    BY <1>1, <1>4, Lengths
  <2>. QED  BY <2>1, <2>2, Glue, Zenon
<1>. QED  BY <1>5, <1>6, <1>7, <1>8, StartIs

-----------------------------------------------------------------------------
(* What the steps that are left say about where a command is.              *)

LEMMA UpdateAt ==
    ASSUME NEW e \in Ends(UpdateSteps)
    PROVE  /\ e \in Seq(StepName) /\ Len(e) \in 0..23 /\ (Len(e) = 0 <=> e = <<>>)
           /\ \A i \in 1..Len(e) : e[i] = UpdateAll[23 - Len(e) + i]
           /\ e # <<>> => /\ Head(e) = UpdateAll[24 - Len(e)]
                          /\ Tail(e) \in Ends(UpdateSteps) /\ Len(Tail(e)) = Len(e) - 1
<1>1. /\ e \in Seq(StepName) /\ Len(e) \in 0..23 /\ (Len(e) = 0 <=> e = <<>>)
      /\ \A i \in 1..Len(e) : e[i] = UpdateAll[23 - Len(e) + i]
      /\ e # <<>> => /\ Head(e) = UpdateAll[23 - Len(e) + 1]
                     /\ Tail(e) \in Ends(UpdateSteps) /\ Len(Tail(e)) = Len(e) - 1
  <2> DEFINE s == UpdateSteps
  <2>1. s = UpdateAll /\ s \in Seq(StepName) /\ Len(s) = 23 /\ e \in Ends(s)
    BY UpdateIs, Lengths
  <2> HIDE DEF s
  <2>2. /\ e \in Seq(StepName) /\ Len(e) \in 0..Len(s) /\ (Len(e) = 0 <=> e = <<>>)
        /\ \A i \in 1..Len(e) : e[i] = s[Len(s) - Len(e) + i]
        /\ e # <<>> => /\ Head(e) = s[Len(s) - Len(e) + 1]
                       /\ Tail(e) \in Ends(s) /\ Len(Tail(e)) = Len(e) - 1
    BY <2>1, EndsAt
  <2>3. Ends(s) = Ends(UpdateSteps)
    BY DEF s
  <2>. QED  BY <2>1, <2>2, <2>3
<1>2. 23 - Len(e) + 1 = 24 - Len(e)
  BY <1>1
<1>. QED  BY <1>1, <1>2

LEMMA SetupAt ==
    ASSUME NEW e \in Ends(SetupAgain)
    PROVE  /\ e \in Seq(StepName) /\ Len(e) \in 0..16 /\ (Len(e) = 0 <=> e = <<>>)
           /\ \A i \in 1..Len(e) : e[i] = SetupAll[16 - Len(e) + i]
           /\ e # <<>> => /\ Head(e) = SetupAll[17 - Len(e)]
                          /\ Tail(e) \in Ends(SetupAgain) /\ Len(Tail(e)) = Len(e) - 1
<1>1. /\ e \in Seq(StepName) /\ Len(e) \in 0..16 /\ (Len(e) = 0 <=> e = <<>>)
      /\ \A i \in 1..Len(e) : e[i] = SetupAll[16 - Len(e) + i]
      /\ e # <<>> => /\ Head(e) = SetupAll[16 - Len(e) + 1]
                     /\ Tail(e) \in Ends(SetupAgain) /\ Len(Tail(e)) = Len(e) - 1
  <2> DEFINE s == SetupAgain
  <2>1. s = SetupAll /\ s \in Seq(StepName) /\ Len(s) = 16 /\ e \in Ends(s)
    BY SetupIs, Lengths
  <2> HIDE DEF s
  <2>2. /\ e \in Seq(StepName) /\ Len(e) \in 0..Len(s) /\ (Len(e) = 0 <=> e = <<>>)
        /\ \A i \in 1..Len(e) : e[i] = s[Len(s) - Len(e) + i]
        /\ e # <<>> => /\ Head(e) = s[Len(s) - Len(e) + 1]
                       /\ Tail(e) \in Ends(s) /\ Len(Tail(e)) = Len(e) - 1
    BY <2>1, EndsAt
  <2>3. Ends(s) = Ends(SetupAgain)
    BY DEF s
  <2>. QED  BY <2>1, <2>2, <2>3
<1>2. 16 - Len(e) + 1 = 17 - Len(e)
  BY <1>1
<1>. QED  BY <1>1, <1>2

\* The step h that is next when r steps are left, and the step n after it.
Table(h, n, r) ==
    /\ h \in StepName \ {"prepare", "existing"}
    /\ h \in {"routeOff", "disable", "end", "waitStop", "query", "preflight"} => r > 11
    /\ h = "select" => r \in {11, 12} /\ n = "portFile"
    /\ h = "portFile" => r \in {10, 11}
    /\ h \in {"install", "createTask", "enable"} => r >= 9
    /\ (h = "run" <=> r = 8) /\ (h = "health" <=> r = 7)
    /\ (h = "identity" => r = 6) /\ (h = "trust" => r = 5)
    /\ h \in {"serve", "verify"} => r <= 6
    /\ n \in {"verify", "forget"} /\ r > 1 => h \in {"serve", "verify"}
    /\ r = 12 /\ h = "waitStop" => n = "select"
    /\ r = 12 => h \in {"select", "waitStop"}
    /\ r = 9 => h \in {"enable", "createTask"}
    /\ r = 11 => h \in {"select", "portFile"}
    /\ r = 10 => h \in {"portFile", "install"}

LEMMA UpdateTable ==
    ASSUME NEW i \in 1..23, NEW n, i < 23 => n = UpdateAll[i + 1]
    PROVE  Table(UpdateAll[i], n, 24 - i)
<1>1. \/ i = 1 \/ i = 2 \/ i = 3 \/ i = 4 \/ i = 5 \/ i = 6 \/ i = 7 \/ i = 8
      \/ i = 9 \/ i = 10 \/ i = 11 \/ i = 12 \/ i = 13 \/ i = 14 \/ i = 15 \/ i = 16
      \/ i = 17 \/ i = 18 \/ i = 19 \/ i = 20 \/ i = 21 \/ i = 22 \/ i = 23
  OBVIOUS
<1>. QED  BY <1>1 DEF Table, UpdateAll, StepName

LEMMA SetupTable ==
    ASSUME NEW i \in 1..16, NEW n, i < 16 => n = SetupAll[i + 1]
    PROVE  Table(SetupAll[i], n, 17 - i)
<1>1. \/ i = 1 \/ i = 2 \/ i = 3 \/ i = 4 \/ i = 5 \/ i = 6 \/ i = 7 \/ i = 8
      \/ i = 9 \/ i = 10 \/ i = 11 \/ i = 12 \/ i = 13 \/ i = 14 \/ i = 15 \/ i = 16
  OBVIOUS
<1>. QED  BY <1>1 DEF Table, SetupAll, StepName

\* A start, an update or a setup that has not restarted the server.
LEMMA FirstAt ==
    ASSUME NEW e \in First, e # <<>>
    PROVE  /\ Tail(e) \in First /\ Len(Tail(e)) = Len(e) - 1 /\ Len(e) \in Nat \ {0}
           /\ Table(Head(e), Head(Tail(e)), Len(e))
<1>1. CASE e \in Ends(UpdateSteps)
  <2>1. /\ Len(e) \in 1..23 /\ Head(e) = UpdateAll[24 - Len(e)]
        /\ Tail(e) \in Ends(UpdateSteps) /\ Tail(e) \in First
        /\ Len(Tail(e)) = Len(e) - 1
    BY <1>1, UpdateAt DEF First
  <2>2. /\ Tail(e) # <<>> => Head(Tail(e)) = UpdateAll[24 - Len(Tail(e))]
        /\ Len(Tail(e)) = 0 <=> Tail(e) = <<>>
    BY <2>1, UpdateAt
  <2> DEFINE i == 24 - Len(e)
  <2>3. i \in 1..23 /\ (i < 23 => Head(Tail(e)) = UpdateAll[i + 1]) /\ Len(e) = 24 - i
    <3> DEFINE r == Len(e)
               t == Len(Tail(e))
    <3>1. i \in 1..23 /\ 24 - t = i + 1 /\ r = 24 - i
      <4>1. r \in 1..23 /\ t = r - 1 /\ i = 24 - r
        BY <2>1
      <4> HIDE DEF r, t, i
      <4>. QED  BY <4>1
    <3>2. i < 23 => Tail(e) # <<>>
      BY <2>1, <2>2, <3>1
    <3>. QED  BY <2>2, <3>1, <3>2
  <2>4. Head(e) = UpdateAll[i]
    BY <2>1
  <2> HIDE DEF i
  <2>5. Table(UpdateAll[i], Head(Tail(e)), 24 - i)
    BY <2>3, UpdateTable
  <2>6. Table(Head(e), Head(Tail(e)), Len(e))
    BY <2>3, <2>4, <2>5, Zenon
  <2>7. Len(e) \in Nat \ {0}
    <3> DEFINE r == Len(e)
    <3>1. r \in 1..23
      BY <2>1
    <3> HIDE DEF r
    <3>2. r \in Nat \ {0}
      BY <3>1
    <3>. QED  BY <3>2 DEF r
  <2>. QED  BY <2>1, <2>6, <2>7
<1>2. CASE e \in Ends(SetupAgain)
  <2>1. /\ Len(e) \in 1..16 /\ Head(e) = SetupAll[17 - Len(e)]
        /\ Tail(e) \in Ends(SetupAgain) /\ Tail(e) \in First
        /\ Len(Tail(e)) = Len(e) - 1
    BY <1>2, SetupAt DEF First
  <2>2. /\ Tail(e) # <<>> => Head(Tail(e)) = SetupAll[17 - Len(Tail(e))]
        /\ Len(Tail(e)) = 0 <=> Tail(e) = <<>>
    BY <2>1, SetupAt
  <2> DEFINE i == 17 - Len(e)
  <2>3. i \in 1..16 /\ (i < 16 => Head(Tail(e)) = SetupAll[i + 1]) /\ Len(e) = 17 - i
    <3> DEFINE r == Len(e)
               t == Len(Tail(e))
    <3>1. i \in 1..16 /\ 17 - t = i + 1 /\ r = 17 - i
      <4>1. r \in 1..16 /\ t = r - 1 /\ i = 17 - r
        BY <2>1
      <4> HIDE DEF r, t, i
      <4>. QED  BY <4>1
    <3>2. i < 16 => Tail(e) # <<>>
      BY <2>1, <2>2, <3>1
    <3>. QED  BY <2>2, <3>1, <3>2
  <2>4. Head(e) = SetupAll[i]
    BY <2>1
  <2> HIDE DEF i
  <2>5. Table(SetupAll[i], Head(Tail(e)), 17 - i)
    BY <2>3, SetupTable
  <2>6. Table(Head(e), Head(Tail(e)), Len(e))
    BY <2>3, <2>4, <2>5, Zenon
  <2>7. Len(e) \in Nat \ {0}
    <3> DEFINE r == Len(e)
    <3>1. r \in 1..16
      BY <2>1
    <3> HIDE DEF r
    <3>2. r \in Nat \ {0}
      BY <3>1
    <3>. QED  BY <3>2 DEF r
  <2>. QED  BY <2>1, <2>6, <2>7
<1>. QED  BY <1>1, <1>2 DEF First

\* After a restart for a new host name.
AgainTable(h, n, r) ==
    /\ h \in {"end", "waitStop", "run", "health", "serve", "verify", "forget", "address"}
    /\ n \in {"verify", "forget"} /\ r > 1 => h \in {"serve", "verify"}
    /\ h \in {"serve", "verify"} => r <= 6
    /\ (r = 8 => h = "end") /\ (r = 7 => h = "waitStop")

LEMMA AgainAt ==
    ASSUME NEW e \in Ends(Again), e # <<>>
    PROVE  /\ Tail(e) \in Ends(Again) /\ Len(Tail(e)) = Len(e) - 1 /\ Len(e) \in 1..8
           /\ (Len(e) > 1 => Tail(e) # <<>>) /\ AgainTable(Head(e), Head(Tail(e)), Len(e))
<1> DEFINE s == Again
<1>1. s \in Seq(StepName) /\ Len(s) = 8 /\ e \in Ends(s)
  BY Lengths
<1> HIDE DEF s
<1>2. /\ Len(e) \in 0..Len(s) /\ (Len(e) = 0 <=> e = <<>>)
      /\ Head(e) = s[Len(s) - Len(e) + 1]
      /\ Tail(e) \in Ends(s) /\ Len(Tail(e)) = Len(e) - 1
  BY <1>1, EndsAt
<1>3. /\ Len(Tail(e)) = 0 <=> Tail(e) = <<>>
      /\ Tail(e) # <<>> => Head(Tail(e)) = s[Len(s) - Len(Tail(e)) + 1]
  BY <1>1, <1>2, EndsAt
<1> DEFINE r == Len(e)
           t == Len(Tail(e))
           h == Head(e)
           n == Head(Tail(e))
           i == 8 - r + 1
<1>4. /\ r \in 0..8 /\ r # 0 /\ t = r - 1 /\ (t = 0 <=> Tail(e) = <<>>)
      /\ h = s[8 - r + 1] /\ (Tail(e) # <<>> => n = s[8 - t + 1])
  BY <1>1, <1>2, <1>3
<1> HIDE DEF r, t, h, n
<1>5. r \in 1..8 /\ (r > 1 => Tail(e) # <<>>)
  BY <1>4
<1>6. i \in 1..8 /\ r = 8 + 1 - i /\ h = s[i] /\ (i < 8 => n = s[i + 1])
  <2>1. i \in 1..8 /\ r = 8 + 1 - i /\ 8 - t + 1 = i + 1 /\ (i < 8 => r > 1)
    BY <1>4, <1>5
  <2>. QED  BY <1>4, <1>5, <2>1
<1> HIDE DEF i
<1>7. \/ i = 1 \/ i = 2 \/ i = 3 \/ i = 4 \/ i = 5 \/ i = 6 \/ i = 7 \/ i = 8
  BY <1>6
<1>8. AgainTable(h, n, r)
  BY <1>6, <1>7 DEF s, AgainTable, Again
<1>9. /\ Tail(e) \in Ends(Again) /\ t = r - 1 /\ r \in 1..8
      /\ (r > 1 => Tail(e) # <<>>)
  BY <1>2, <1>4, <1>5 DEF s
<1>. QED  BY <1>8, <1>9 DEF r, t, h, n

\* A stop.
StopTable(h, n, r) ==
    /\ (h = "routeOff" /\ r = 4) \/ (h = "disable" /\ r = 3)
          \/ (h = "end" /\ r = 2) \/ (h = "waitStop" /\ r = 1)
    /\ r > 1 => n \in {"disable", "end", "waitStop"}

LEMMA StopAt ==
    ASSUME NEW e \in Ends(StopSteps), e # <<>>
    PROVE  /\ Tail(e) \in Ends(StopSteps) /\ Len(Tail(e)) = Len(e) - 1 /\ Len(e) \in 1..4
           /\ (Len(e) > 1 => Tail(e) # <<>>) /\ StopTable(Head(e), Head(Tail(e)), Len(e))
<1> DEFINE s == StopSteps
<1>1. s \in Seq(StepName) /\ Len(s) = 4 /\ e \in Ends(s)
  BY Lengths
<1> HIDE DEF s
<1>2. /\ Len(e) \in 0..Len(s) /\ (Len(e) = 0 <=> e = <<>>)
      /\ Head(e) = s[Len(s) - Len(e) + 1]
      /\ Tail(e) \in Ends(s) /\ Len(Tail(e)) = Len(e) - 1
  BY <1>1, EndsAt
<1>3. /\ Len(Tail(e)) = 0 <=> Tail(e) = <<>>
      /\ Tail(e) # <<>> => Head(Tail(e)) = s[Len(s) - Len(Tail(e)) + 1]
  BY <1>1, <1>2, EndsAt
<1> DEFINE r == Len(e)
           t == Len(Tail(e))
           h == Head(e)
           n == Head(Tail(e))
           i == 4 - r + 1
<1>4. /\ r \in 0..4 /\ r # 0 /\ t = r - 1 /\ (t = 0 <=> Tail(e) = <<>>)
      /\ h = s[4 - r + 1] /\ (Tail(e) # <<>> => n = s[4 - t + 1])
  BY <1>1, <1>2, <1>3
<1> HIDE DEF r, t, h, n
<1>5. r \in 1..4 /\ (r > 1 => Tail(e) # <<>>)
  BY <1>4
<1>6. i \in 1..4 /\ r = 4 + 1 - i /\ h = s[i] /\ (i < 4 => n = s[i + 1])
  <2>1. i \in 1..4 /\ r = 4 + 1 - i /\ 4 - t + 1 = i + 1 /\ (i < 4 => r > 1)
    BY <1>4, <1>5
  <2>. QED  BY <1>4, <1>5, <2>1
<1> HIDE DEF i
<1>7. \/ i = 1 \/ i = 2 \/ i = 3 \/ i = 4
  BY <1>6
<1>8. StopTable(h, n, r)
  BY <1>6, <1>7 DEF s, StopTable, StopSteps
<1>9. /\ Tail(e) \in Ends(StopSteps) /\ t = r - 1 /\ r \in 1..4
      /\ (r > 1 => Tail(e) # <<>>)
  BY <1>2, <1>4, <1>5 DEF s
<1>. QED  BY <1>8, <1>9 DEF r, t, h, n

\* The beginning of setup.
BeginTable(h, n, r) ==
    /\ h \in {"prepare", "preflight", "existing"}
    /\ h = "existing" <=> r = 1
    /\ r > 1 => n \in {"preflight", "existing"}

LEMMA BeginAt ==
    ASSUME NEW e \in Ends(SetupSteps), e # <<>>
    PROVE  /\ Tail(e) \in Ends(SetupSteps) /\ Len(Tail(e)) = Len(e) - 1 /\ Len(e) \in 1..3
           /\ (Len(e) > 1 => Tail(e) # <<>>) /\ BeginTable(Head(e), Head(Tail(e)), Len(e))
<1> DEFINE s == SetupSteps
<1>1. s \in Seq(StepName) /\ Len(s) = 3 /\ e \in Ends(s)
  BY Lengths
<1> HIDE DEF s
<1>2. /\ Len(e) \in 0..Len(s) /\ (Len(e) = 0 <=> e = <<>>)
      /\ Head(e) = s[Len(s) - Len(e) + 1]
      /\ Tail(e) \in Ends(s) /\ Len(Tail(e)) = Len(e) - 1
  BY <1>1, EndsAt
<1>3. /\ Len(Tail(e)) = 0 <=> Tail(e) = <<>>
      /\ Tail(e) # <<>> => Head(Tail(e)) = s[Len(s) - Len(Tail(e)) + 1]
  BY <1>1, <1>2, EndsAt
<1> DEFINE r == Len(e)
           t == Len(Tail(e))
           h == Head(e)
           n == Head(Tail(e))
           i == 3 - r + 1
<1>4. /\ r \in 0..3 /\ r # 0 /\ t = r - 1 /\ (t = 0 <=> Tail(e) = <<>>)
      /\ h = s[3 - r + 1] /\ (Tail(e) # <<>> => n = s[3 - t + 1])
  BY <1>1, <1>2, <1>3
<1> HIDE DEF r, t, h, n
<1>5. r \in 1..3 /\ (r > 1 => Tail(e) # <<>>)
  BY <1>4
<1>6. i \in 1..3 /\ r = 3 + 1 - i /\ h = s[i] /\ (i < 3 => n = s[i + 1])
  <2>1. i \in 1..3 /\ r = 3 + 1 - i /\ 3 - t + 1 = i + 1 /\ (i < 3 => r > 1)
    BY <1>4, <1>5
  <2>. QED  BY <1>4, <1>5, <2>1
<1> HIDE DEF i
<1>7. \/ i = 1 \/ i = 2 \/ i = 3
  BY <1>6
<1>8. BeginTable(h, n, r)
  BY <1>6, <1>7 DEF s, BeginTable, SetupSteps
<1>9. /\ Tail(e) \in Ends(SetupSteps) /\ t = r - 1 /\ r \in 1..3
      /\ (r > 1 => Tail(e) # <<>>)
  BY <1>2, <1>4, <1>5 DEF s
<1>. QED  BY <1>8, <1>9 DEF r, t, h, n

-----------------------------------------------------------------------------
(* A step that succeeds.                                                   *)

Cmd == [name : Name, todo : Forward \cup Ends(SetupSteps) \cup Ends(StopSteps),
        mode : Mode, existing : BOOLEAN, ran : BOOLEAN]

Serving  == /\ cmd.mode = "main" /\ cmd.name \in {"start", "setup", "update"}
            /\ cmd.todo \in Forward

LEMMA EmptyIsEnd ==
    /\ <<>> \in Forward /\ <<>> \in Ends(StopSteps)
    /\ StopSteps \in Ends(StopSteps) /\ StopSteps # <<>>
    /\ SetupSteps \in Ends(SetupSteps) /\ SetupSteps # <<>>
    /\ Again \in Ends(Again)
    /\ Len(<<>>) = 0
<1>1. <<>> \in Ends(Again) /\ Again \in Ends(Again)
  BY Lengths, EndsAll
<1>2. <<>> \in Ends(StopSteps) /\ StopSteps \in Ends(StopSteps)
  BY Lengths, EndsAll
<1>3. SetupSteps \in Ends(SetupSteps)
  BY Lengths, EndsAll
<1>4. StopSteps # <<>> /\ SetupSteps # <<>>
  BY DEF StopSteps, SetupSteps
<1>. QED  BY <1>1, <1>2, <1>3, <1>4 DEF Forward

\* A command that has steps left is one of three kinds.
LEMMA Kinds ==
    ASSUME DeployInv, cmd.todo # <<>>
    PROVE  /\ cmd.name # "none" /\ cmd.mode # "aborted" /\ cmd \in Cmd
           /\ \/ Stopping /\ cmd.todo \in Ends(StopSteps)
              \/ /\ ~Stopping /\ cmd.name = "setup" /\ cmd.mode = "main"
                 /\ cmd.todo \in Ends(SetupSteps)
              \/ /\ ~Stopping /\ cmd.name # "stop" /\ cmd.mode \in {"main", "repair"}
                 /\ cmd.todo \in Forward
           /\ stopped => Stopping
<1>1. cmd \in Cmd /\ OnTrack
  BY DEF DeployInv, DeployTypeOK, Cmd
<1>2. cmd.name # "none"
  BY <1>1 DEF OnTrack, NoCmd
<1>3. cmd.mode # "aborted" /\ cmd.mode \in {"main", "cleanup", "repair"}
  BY <1>1 DEF OnTrack, Cmd, Mode
<1>4. CASE Stopping
  BY <1>1, <1>2, <1>3, <1>4 DEF OnTrack, Stopping
<1>5. CASE ~Stopping
  <2>1. cmd.name # "stop" /\ cmd.mode \in {"main", "repair"}
    BY <1>1, <1>3, <1>5 DEF OnTrack, Stopping
  <2>2. ~stopped
    BY <1>2, <2>1 DEF DeployInv, StopInForce
  <2>. QED  BY <1>1, <1>2, <1>3, <1>5, <2>1, <2>2 DEF OnTrack
<1>. QED  BY <1>4, <1>5

\* The commands go on to their next step.
LEMMA Proceeds ==
    ASSUME DeployInv, cmd.todo # <<>>, Head(cmd.todo) # "existing",
           \/ cmd' = [cmd EXCEPT !.todo = Tail(@)]
           \/ cmd' = [cmd EXCEPT !.todo = Tail(@), !.ran = TRUE]
    PROVE  /\ cmd' \in Cmd /\ OnTrack'
           /\ cmd'.name = cmd.name /\ cmd'.mode = cmd.mode /\ cmd'.todo = Tail(cmd.todo)
           /\ Len(cmd.todo) \in Nat \ {0} /\ Len(cmd'.todo) = Len(cmd.todo) - 1
           /\ At("verify")' \/ At("forget")' => Head(cmd.todo) \in {"serve", "verify"}
           /\ Stopping => StopTable(Head(cmd.todo), Head(cmd'.todo), Len(cmd.todo))
           /\ Serving' => Serving
<1> DEFINE e == cmd.todo
<1>1. cmd \in Cmd /\ cmd.name # "none" /\ cmd.mode # "aborted"
  BY Kinds
<1>2. /\ cmd'.name = cmd.name /\ cmd'.mode = cmd.mode /\ cmd'.todo = Tail(e)
      /\ Tail(e) \in Forward \cup Ends(SetupSteps) \cup Ends(StopSteps) => cmd' \in Cmd
  BY <1>1 DEF Cmd
<1>3. CASE Stopping /\ e \in Ends(StopSteps)
  <2>1. /\ Tail(e) \in Ends(StopSteps) /\ Len(Tail(e)) = Len(e) - 1 /\ Len(e) \in 1..4
        /\ (Len(e) > 1 => Tail(e) # <<>>) /\ StopTable(Head(e), Head(Tail(e)), Len(e))
    BY <1>3, StopAt
  <2>2. Tail(e) # <<>> => Len(e) > 1
    <3>1. Len(Tail(e)) = 0 <=> Tail(e) = <<>>
      BY <2>1, Lengths, EndsAt
    <3>. QED  BY <2>1, <3>1
  <2>3. Tail(e) # <<>> => Head(Tail(e)) \in {"disable", "end", "waitStop"}
    BY <2>1, <2>2 DEF StopTable
  <2>4. ~(At("verify")' \/ At("forget")')
    BY <1>2, <2>3 DEF At
  <2>5. OnTrack'
    <3>1. Tail(e) \in Ends(SetupSteps) \ {<<>>} => FALSE
      <4>1. SUFFICES ASSUME Tail(e) \in Ends(SetupSteps), Tail(e) # <<>> PROVE FALSE
        OBVIOUS
      <4>2. Head(Tail(e)) \in {"prepare", "preflight", "existing"}
        BY <4>1, BeginAt DEF BeginTable
      <4>. QED  BY <2>3, <4>1, <4>2
    <3>2. cmd'.name # "none" /\ cmd'.mode # "aborted"
      BY <1>1, <1>2
    <3>3. cmd'.name = "stop" \/ cmd'.mode = "cleanup"
      BY <1>2, <1>3 DEF Stopping
    <3>4. /\ cmd'.mode = "cleanup" => cmd'.name = "setup"
          /\ cmd'.name = "stop" => cmd'.mode \in {"main", "aborted"}
      BY <1>2 DEF DeployInv, OnTrack
    <3>. QED  BY <1>2, <2>1, <3>1, <3>2, <3>3, <3>4 DEF OnTrack
  <2>6. ~Serving'
    BY <1>2, <1>3 DEF Serving, Stopping
  <2>7. Len(e) \in Nat \ {0}
    BY <2>1
  <2>. QED  BY <1>2, <2>1, <2>4, <2>5, <2>6, <2>7
<1>4. CASE /\ ~Stopping /\ cmd.name = "setup" /\ cmd.mode = "main"
           /\ e \in Ends(SetupSteps)
  <2>1. /\ Tail(e) \in Ends(SetupSteps) /\ Len(Tail(e)) = Len(e) - 1 /\ Len(e) \in 1..3
        /\ (Len(e) > 1 => Tail(e) # <<>>) /\ BeginTable(Head(e), Head(Tail(e)), Len(e))
    BY <1>4, BeginAt
  <2>2. Tail(e) # <<>> /\ Head(Tail(e)) \in {"preflight", "existing"}
    <3> DEFINE r == Len(e)
               h == Head(e)
               n == Head(Tail(e))
    <3>1. r \in 1..3 /\ BeginTable(h, n, r) /\ h # "existing" /\ (r > 1 => Tail(e) # <<>>)
      BY <2>1
    <3> HIDE DEF r, h, n
    <3>2. r > 1 /\ n \in {"preflight", "existing"}
      BY <3>1 DEF BeginTable
    <3>. QED  BY <3>1, <3>2 DEF n
  <2>3. ~(At("verify")' \/ At("forget")')
    BY <1>2, <2>2 DEF At
  <2>4. OnTrack'
    BY <1>2, <1>4, <2>1, <2>2 DEF OnTrack
  <2>5. Tail(e) \notin Forward
    <3>1. ASSUME Tail(e) \in First PROVE FALSE
      <4>1. Table(Head(Tail(e)), Head(Tail(Tail(e))), Len(Tail(e)))
        BY <2>2, <3>1, FirstAt
      <4> DEFINE r == Len(e)
                 t == Len(Tail(e))
                 h == Head(Tail(e))
      <4>2. t = r - 1 /\ r \in 1..3 /\ h \in {"preflight", "existing"} /\ (h = "preflight" => t > 11)
              /\ h # "existing"
        BY <2>1, <2>2, <4>1 DEF Table
      <4> HIDE DEF r, t, h
      <4>. QED  BY <4>2
    <3>2. ASSUME Tail(e) \in Ends(Again) PROVE FALSE
      BY <2>2, <3>2, AgainAt DEF AgainTable
    <3>. QED  BY <3>1, <3>2 DEF Forward
  <2>6. Len(e) \in Nat \ {0}
    BY <2>1
  <2>. QED  BY <1>2, <1>4, <2>1, <2>3, <2>4, <2>5, <2>6 DEF Serving
<1>5. CASE /\ ~Stopping /\ cmd.name # "stop" /\ cmd.mode \in {"main", "repair"}
           /\ e \in Forward
  <2>1. /\ Tail(e) \in Forward /\ Len(Tail(e)) = Len(e) - 1 /\ Len(e) \in Nat \ {0}
    <3>1. CASE e \in First
      BY <3>1, FirstAt DEF Forward
    <3>2. CASE e \in Ends(Again)
      <4>1. Tail(e) \in Forward /\ Len(Tail(e)) = Len(e) - 1 /\ Len(e) \in 1..8
        BY <3>2, AgainAt DEF Forward
      <4>. QED  BY <4>1
    <3>. QED  BY <1>5, <3>1, <3>2 DEF Forward
  <2>2. Tail(e) # <<>> => Len(e) > 1
    <3>1. ASSUME Tail(e) # <<>> PROVE Len(Tail(e)) \in Nat \ {0}
      <4>1. CASE Tail(e) \in First
        BY <3>1, <4>1, FirstAt
      <4>2. CASE Tail(e) \in Ends(Again)
        <5> DEFINE t == Len(Tail(e))
        <5>1. t \in 1..8
          BY <3>1, <4>2, AgainAt
        <5> HIDE DEF t
        <5>2. t \in Nat \ {0}
          BY <5>1
        <5>. QED  BY <5>2 DEF t
      <4>. QED  BY <2>1, <4>1, <4>2 DEF Forward
    <3>. QED  BY <2>1, <3>1
  <2>3. Tail(e) # <<>> /\ Head(Tail(e)) \in {"verify", "forget"} => Head(e) \in {"serve", "verify"}
    <3>1. CASE e \in First
      BY <2>2, <3>1, FirstAt DEF Table
    <3>2. CASE e \in Ends(Again)
      BY <2>2, <3>2, AgainAt DEF AgainTable
    <3>. QED  BY <1>5, <3>1, <3>2 DEF Forward
  <2>4. Tail(e) # <<>> => Head(Tail(e)) \notin {"prepare", "existing"}
    <3>1. CASE Tail(e) \in First
      BY <3>1, FirstAt DEF Table
    <3>2. CASE Tail(e) \in Ends(Again)
      BY <3>2, AgainAt DEF AgainTable
    <3>. QED  BY <2>1, <3>1, <3>2 DEF Forward
  <2>5. OnTrack'
    <3>1. cmd'.name # "none" /\ cmd'.name # "stop" /\ cmd'.mode \in {"main", "repair"}
      BY <1>1, <1>2, <1>5
    <3>2. ASSUME Tail(e) \in Ends(SetupSteps) \ {<<>>} PROVE FALSE
      <4>1. /\ Head(Tail(e)) \in {"prepare", "preflight", "existing"} /\ Len(Tail(e)) \in 1..3
        BY <3>2, BeginAt DEF BeginTable
      <4>2. Head(Tail(e)) = "preflight"
        BY <2>4, <3>2, <4>1
      <4>3. CASE Tail(e) \in First
        <5> DEFINE t == Len(Tail(e))
        <5>1. t > 11 /\ t \in 1..3
          BY <3>2, <4>1, <4>2, <4>3, FirstAt DEF Table
        <5> HIDE DEF t
        <5>. QED  BY <5>1
      <4>4. CASE Tail(e) \in Ends(Again)
        BY <3>2, <4>2, <4>4, AgainAt DEF AgainTable
      <4>. QED  BY <2>1, <4>3, <4>4 DEF Forward
    <3>. QED  BY <1>2, <2>1, <3>1, <3>2 DEF OnTrack
  <2>6. At("verify")' \/ At("forget")' => Head(e) \in {"serve", "verify"}
    BY <1>2, <2>3 DEF At
  <2>. QED  BY <1>2, <1>5, <2>1, <2>5, <2>6 DEF Serving
<1>. QED  BY <1>3, <1>4, <1>5, Kinds

\* What does not depend on where a command is.
Keeps ==
    /\ InSight'
    /\ stopped' /\ task' # "enabled" /\ slips' = {} => Running' = {}
    /\ moves' = 0 => route' \in {env'.web, NoPort}
    /\ moves' = 1 => route' \in {env'.web, env'.prev, NoPort}

LEMMA KeepsStill ==
    ASSUME DeployInv, UNCHANGED <<starting, server, orphans, adrift, slips, route, moves>>,
           env'.web = env.web, env'.prev = env.prev, stopped' => stopped /\ (task' # "enabled" => task # "enabled")
    PROVE  Keeps
<1>1. Running' = Running
  BY DEF Running, Listening
<1>2. InSight'
  BY <1>1 DEF DeployInv, InSight
<1>3. stopped' /\ task' # "enabled" /\ slips' = {} => Running' = {}
  BY <1>1 DEF DeployInv, StopInForce
<1>. QED  BY <1>2, <1>3 DEF Keeps, DeployInv, RouteFollows

\* What step h may do to the task, the processes, the port and the route.
Effects(h) ==
    /\ h = "disable" => task' \in {task, "disabled"}
    /\ h \in {"enable", "createTask"} => task' = "enabled"
    /\ h \notin {"disable", "enable", "createTask"} => task' = task
    /\ h = "end" /\ slips' = {} => starting' = NoPort
    /\ h = "waitStop" /\ slips' = {} /\ (slips = {} => starting = NoPort) => Running' = {}
    /\ starting' \in {starting, NoPort} \/ (h = "run" /\ starting' = env.web)
    /\ server' \in {server, NoPort}
    /\ slips \subseteq slips' \/ Running' = {}
    /\ h \notin {"end", "waitStop"} => orphans' = orphans /\ slips \subseteq slips'
    /\ h = "select" => env'.web \notin orphans'
    /\ h # "select" => env'.web = env.web
    /\ h = "portFile" => portFile' = env'.web
    /\ h # "select" => portFile' \in {portFile, env'.web}
    /\ h = "health" => env.web \in Listening
    /\ h = "serve" => moves' = 0
    /\ h = "verify" => moves' = moves
    /\ stopped' = stopped

LEMMA ProceedInv ==
    ASSUME DeployInv, cmd.todo # <<>>, Head(cmd.todo) # "existing",
           \/ cmd' = [cmd EXCEPT !.todo = Tail(@)]
           \/ cmd' = [cmd EXCEPT !.todo = Tail(@), !.ran = TRUE],
           cmd' \in Cmd => DeployTypeOK', Effects(Head(cmd.todo)), Keeps
    PROVE  DeployInv'
<1> DEFINE h == Head(cmd.todo)
           r == Len(cmd.todo)
           l == Len(cmd'.todo)
<1>1. /\ cmd' \in Cmd /\ OnTrack'
      /\ cmd'.name = cmd.name /\ cmd'.mode = cmd.mode /\ cmd'.todo = Tail(cmd.todo)
      /\ r \in Nat \ {0} /\ l = r - 1
      /\ At("verify")' \/ At("forget")' => h \in {"serve", "verify"}
      /\ Stopping => StopTable(h, Head(cmd'.todo), r)
      /\ Serving' => Serving
  BY Proceeds
<1>2. cmd.name # "none" /\ (stopped => Stopping)
  BY Kinds
<1>3. Effects(h)
  OBVIOUS
<1>4. StopInForce'
  <2>1. ASSUME stopped'
        PROVE  /\ cmd'.name \in {"none", "stop"}
               /\ cmd'.name = "stop" => task' # "enabled"
    <3>1. stopped /\ Stopping
      BY <1>2, <1>3, <2>1 DEF Effects
    <3>2. h \in {"routeOff", "disable", "end", "waitStop"}
      BY <1>1, <3>1 DEF StopTable
    <3>3. cmd.name \in {"none", "stop"} /\ (cmd.name = "stop" => task # "enabled")
      BY <3>1 DEF DeployInv, StopInForce
    <3> HIDE DEF h
    <3>. QED  BY <1>1, <1>3, <3>2, <3>3 DEF Effects
  <2>2. ASSUME Stopping', task' # "enabled", slips' = {}
        PROVE  /\ l <= 1 => starting' = NoPort
               /\ l = 0 => Running' = {}
    <3>1. Stopping
      BY <1>1, <2>2 DEF Stopping
    <3>2. StopTable(h, Head(cmd'.todo), r)
      BY <1>1, <3>1
    <3>3. task # "enabled" /\ slips = {} => (r <= 1 => starting = NoPort)
      BY <3>1 DEF DeployInv, StopInForce, Left
    <3>4. r \in Nat \ {0} /\ l = r - 1
      BY <1>1
    <3>5. Running' = {} => starting' = NoPort
      BY DEF Running
    <3> HIDE DEF h, r, l
    <3>6. l <= 1 => (h = "end" /\ r = 2) \/ (h = "waitStop" /\ r = 1)
      BY <3>2, <3>4 DEF StopTable
    <3>7. h = "end" => starting' = NoPort
      BY <1>3, <2>2 DEF Effects
    <3>8. h = "waitStop" /\ r = 1 => Running' = {}
      <4>1. h = "waitStop" => task' = task
        BY <1>3 DEF Effects
      <4>2. h = "waitStop" /\ r = 1 => (slips = {} => starting = NoPort)
        BY <2>2, <3>3, <4>1
      <4>. QED  BY <1>3, <2>2, <4>2 DEF Effects
    <3>9. l = 0 => r = 1 /\ l <= 1
      BY <3>4
    <3>. QED  BY <3>4, <3>5, <3>6, <3>7, <3>8, <3>9
  <2>3. stopped' /\ task' # "enabled" /\ slips' = {} => Running' = {}
    BY DEF Keeps
  <2>. QED  BY <2>1, <2>2, <2>3 DEF StopInForce, Left
<1>5. ASSUME Serving'
      PROVE  /\ l <= 8 => task' = "enabled"
             /\ l <= 10 /\ ~At("portFile")' => portFile' = env'.web
             /\ "unseen" \notin slips' =>
                /\ cmd'.todo \in First /\ l \in 7..11 /\ ~At("select")' => env'.web \notin orphans'
                /\ (l <= 6 \/ cmd'.todo \in Ends(Again)) => {starting', server'} \subseteq {env'.web, NoPort}
  <2> DEFINE n == Head(cmd'.todo)
             old == cmd.todo \in First
             new == cmd'.todo \in First
             after == cmd.todo \in Ends(Again)
             after2 == cmd'.todo \in Ends(Again)
  <2>1. Serving /\ (old \/ after)
    BY <1>1, <1>5 DEF Serving, Forward
  <2>2. /\ r <= 8 => task = "enabled"
        /\ r <= 10 /\ h # "portFile" => portFile = env.web
        /\ "unseen" \notin slips =>
              /\ old /\ r \in 7..11 /\ h # "select" => env.web \notin orphans
              /\ (r <= 6 \/ after) => {starting, server} \subseteq {env.web, NoPort}
    BY <2>1 DEF DeployInv, StartInForce, Left, At, Serving
  <2>3. old => Table(h, n, r)
    BY <1>1, FirstAt
  <2>4. after => AgainTable(h, n, r) /\ r \in 1..8
    BY <1>1, AgainAt
  <2>5. /\ cmd'.todo # <<>> /\ new => Table(n, Head(Tail(cmd'.todo)), l)
        /\ cmd'.todo # <<>> /\ after2 => AgainTable(n, Head(Tail(cmd'.todo)), l) /\ l \in 1..8
    BY FirstAt, AgainAt
  <2>6. l >= 1 => cmd'.todo # <<>>
    BY EmptyIsEnd
  <2>7. /\ cmd'.todo # <<>> /\ n = "portFile" => At("portFile")'
        /\ cmd'.todo # <<>> /\ n = "select" => At("select")'
    BY DEF At
  <2>8. r \in Nat \ {0} /\ l = r - 1
    BY <1>1
  <2>9. /\ l >= 7 /\ new => old
        /\ l >= 7 /\ after2 => after
    <3>1. ASSUME l >= 7, new, after, ~old PROVE FALSE
      <4>1. AgainTable(h, n, r) /\ r \in 1..8 /\ Table(n, Head(Tail(cmd'.todo)), l)
        BY <2>4, <2>5, <2>6, <2>8, <3>1
      <4>2. cmd'.todo \in Ends(Again)
        BY <1>1, <3>1, AgainAt
      <4>3. AgainTable(n, Head(Tail(cmd'.todo)), l)
        BY <2>5, <2>6, <2>8, <3>1, <4>2
      <4> HIDE DEF h, r, l, n
      <4>. QED  BY <2>8, <3>1, <4>1, <4>3 DEF Table, AgainTable
    <3>2. ASSUME l >= 7, after2, old, ~after PROVE FALSE
      <4>1. AgainTable(n, Head(Tail(cmd'.todo)), l) /\ l \in 1..8
        BY <2>5, <2>6, <2>8, <3>2
      <4>2. cmd'.todo \in First
        BY <1>1, <3>2, FirstAt
      <4>3. Table(n, Head(Tail(cmd'.todo)), l)
        BY <2>5, <2>6, <2>8, <3>2, <4>2
      <4> HIDE DEF h, r, l, n
      <4>. QED  BY <2>8, <3>2, <4>1, <4>3 DEF Table, AgainTable
    <3>. QED  BY <2>1, <3>1, <3>2
  <2> HIDE DEF h, r, l, n, old, new, after, after2
  <2>10. l <= 8 => task' = "enabled"
    BY <1>3, <2>1, <2>2, <2>3, <2>4, <2>8 DEF Effects, Table, AgainTable
  <2>11. ASSUME l <= 10, ~At("portFile")' PROVE portFile' = env'.web
    <3>1. CASE old
      BY <1>3, <2>2, <2>3, <2>6, <2>7, <2>8, <2>11, <3>1 DEF Effects, Table
    <3>2. CASE after
      BY <1>3, <2>2, <2>4, <2>8, <3>2 DEF Effects, AgainTable
    <3>. QED  BY <2>1, <3>1, <3>2
  <2>12. ASSUME new, l \in 7..11, ~At("select")', "unseen" \notin slips'
         PROVE  env'.web \notin orphans'
    <3>1. old /\ Table(h, n, r) /\ cmd'.todo # <<>> /\ n # "select"
      BY <2>3, <2>6, <2>7, <2>8, <2>9, <2>12
    <3>2. h = "select" \/ (r \in 7..11 /\ h \notin {"end", "waitStop", "select"})
      BY <2>8, <2>12, <3>1 DEF Table
    <3>3. CASE h = "select"
      BY <1>3, <3>3 DEF Effects
    <3>4. CASE r \in 7..11 /\ h \notin {"end", "waitStop", "select"}
      <4>1. orphans' = orphans /\ slips \subseteq slips' /\ env'.web = env.web
        BY <1>3, <3>4 DEF Effects
      <4>. QED  BY <2>2, <2>12, <3>1, <3>4, <4>1
    <3>. QED  BY <3>2, <3>3, <3>4
  <2>13. ASSUME l <= 6 \/ after2, "unseen" \notin slips'
         PROVE  {starting', server'} \subseteq {env'.web, NoPort}
    <3>1. h # "select"
      <4>1. CASE old
        <5>1. CASE l <= 6
          BY <2>3, <2>8, <4>1, <5>1 DEF Table
        <5>2. CASE ~(l <= 6)
          BY <2>4, <2>8, <2>9, <2>13, <5>2 DEF AgainTable
        <5>. QED  BY <5>1, <5>2
      <4>2. CASE after
        BY <2>4, <4>2 DEF AgainTable
      <4>. QED  BY <2>1, <4>1, <4>2
    <3>2. CASE Running' = {}
      BY <3>2 DEF Running, Listening
    <3>3. ASSUME Running' # {}, {starting, server} \subseteq {env.web, NoPort}
          PROVE  {starting', server'} \subseteq {env'.web, NoPort}
      <4>1. env'.web = env.web
        BY <1>3, <3>1 DEF Effects
      <4>2. starting' \in {starting, NoPort, env.web} /\ server' \in {server, NoPort}
        BY <1>3 DEF Effects
      <4>. QED  BY <3>3, <4>1, <4>2
    <3>4. Running' # {} => "unseen" \notin slips
      BY <1>3, <2>13 DEF Effects
    <3>5. CASE r <= 6 \/ after
      BY <2>2, <3>2, <3>3, <3>4, <3>5
    <3>6. CASE r = 7 /\ old
      <4>1. h = "health"
        BY <2>3, <3>6 DEF Table
      <4>2. env.web \in {server} \cup orphans
        BY <1>3, <4>1 DEF Effects, Listening
      <4>3. Running' # {} => env.web \notin orphans
        BY <2>2, <3>4, <3>6, <4>1
      <4>4. NoPort \in {starting, server} /\ env.web # NoPort
        BY DEF DeployInv, DeployTypeOK, Port, NoPort
      <4>5. Running' # {} => {starting, server} \subseteq {env.web, NoPort}
        BY <4>2, <4>3, <4>4
      <4>. QED  BY <3>2, <3>3, <4>5
    <3>. QED  BY <2>1, <2>8, <2>9, <2>13, <3>5, <3>6
  <2>. QED  BY <2>10, <2>11, <2>12, <2>13 DEF new, after2
<1>6. StartInForce'
  BY <1>5 DEF StartInForce, Left, Serving
<1>7. RouteFollows'
  <2>1. ASSUME At("verify")' \/ At("forget")' PROVE moves' = 0
    <3>1. h = "serve" \/ h = "verify"
      BY <1>1, <2>1
    <3>2. h = "verify" => moves = 0
      BY DEF DeployInv, RouteFollows, At
    <3> HIDE DEF h
    <3>. QED  BY <1>3, <3>1, <3>2 DEF Effects
  <2>. QED  BY <2>1 DEF Keeps, RouteFollows
<1>8. DeployTypeOK' /\ InSight'
  BY <1>1 DEF Keeps
<1>. QED  BY <1>1, <1>4, <1>6, <1>7, <1>8 DEF DeployInv

-----------------------------------------------------------------------------
(* Steps that fail, and steps that change what is left to do.              *)

LEMMA EndsIs ==
    ASSUME NEW s \in Seq(StepName), NEW t \in Seq(StepName), NEW k \in 1..(Len(s) + 1),
           Len(t) = Len(s) - k + 1, \A i \in 1..Len(t) : t[i] = s[k + i - 1]
    PROVE  t \in Ends(s)
<1> DEFINE u == SubSeq(s, k, Len(s))
<1>1. Len(s) \in Nat /\ \A i \in 1..Len(s) : s[i] \in StepName
  BY ElementOfSeq, LenProperties
<1>2. /\ u \in Seq(StepName) /\ Len(u) = IF k <= Len(s) THEN Len(s) - k + 1 ELSE 0
      /\ \A i \in 1..Len(s) - k + 1 : u[i] = s[k + i - 1]
  <2>1. \A i \in k..Len(s) : s[i] \in StepName
    BY <1>1
  <2>2. k \in Int /\ Len(s) \in Int
    BY <1>1
  <2>. QED  BY <2>1, <2>2, SubSeqProperties
<1>3. u \in Ends(s)
  BY DEF Ends
<1> HIDE DEF u
<1>4. Len(u) = Len(t)
  BY <1>1, <1>2
<1>5. u = t
  BY <1>1, <1>2, <1>4, SeqEqual
<1>. QED  BY <1>3, <1>5

LEMMA StartIsEnd ==
    /\ StartSteps \in First /\ StartSteps \in Seq(StepName) /\ Len(StartSteps) = 16
    /\ Head(StartSteps) = "preflight" /\ StartSteps # <<>>
<1>1. \A i \in 1..16 : StartAll[i] = UpdateAll[8 + i - 1]
  BY DEF StartAll, UpdateAll
<1>2. 8 \in 1..(Len(UpdateAll) + 1) /\ Len(StartAll) = Len(UpdateAll) - 8 + 1
  BY Lengths
<1>3. \A i \in 1..Len(StartAll) : StartAll[i] = UpdateAll[8 + i - 1]
  BY <1>1, Lengths
<1>4. StartAll \in Ends(UpdateAll)
  BY <1>2, <1>3, Lengths, EndsIs
<1>5. Head(StartAll) = "preflight" /\ StartAll # <<>>
  BY DEF StartAll
<1>. QED  BY <1>4, <1>5, StartIs, UpdateIs, Lengths DEF First

LEMMA UpdateIsEnd ==
    /\ UpdateSteps \in First /\ Len(UpdateSteps) = 23
    /\ Head(UpdateSteps) = "preflight" /\ UpdateSteps # <<>>
<1>1. UpdateAll \in Ends(UpdateAll)
  BY Lengths, EndsAll
<1>2. Head(UpdateAll) = "preflight" /\ UpdateAll # <<>>
  BY DEF UpdateAll
<1>. QED  BY <1>1, <1>2, UpdateIs, Lengths DEF First

\* setup goes on with the stop of an installed task, or of an orphan.
LEMMA ExistingIsEnd ==
    /\ StopSteps \o AfterSetup \in First /\ Len(StopSteps \o AfterSetup) = 16
    /\ Head(StopSteps \o AfterSetup) = "routeOff" /\ StopSteps \o AfterSetup # <<>>
    /\ <<"waitStop">> \o AfterSetup \in First /\ Len(<<"waitStop">> \o AfterSetup) = 13
    /\ Head(<<"waitStop">> \o AfterSetup) = "waitStop" /\ <<"waitStop">> \o AfterSetup # <<>>
<1>1. SetupAll \in Ends(SetupAll)
  BY Lengths, EndsAll
<1>2. Head(SetupAll) = "routeOff" /\ SetupAll # <<>>
  BY DEF SetupAll
<1>3. StopSteps \o AfterSetup = SetupAll
  BY SetupIs DEF SetupAgain
<1> DEFINE a == <<"waitStop">>
           u == <<"waitStop",
                  "select", "portFile", "install", "createTask", "run", "health",
                  "identity", "trust", "serve", "verify", "forget", "address">>
<1>4. /\ a \in Seq(StepName) /\ Len(a) = 1 /\ u \in Seq(StepName) /\ Len(u) = 13
      /\ Head(u) = "waitStop" /\ u # <<>>
  BY DEF StepName
<1>5. (\A i \in 1..1 : u[i] = a[i]) /\ (\A i \in 1..12 : u[1 + i] = AfterAll[i])
  BY DEF AfterAll
<1>6. \A i \in 1..13 : u[i] = SetupAll[4 + i - 1]
  BY DEF SetupAll
<1>7. <<"waitStop">> \o AfterSetup = a \o AfterAll
  BY AfterIs
<1> HIDE DEF a, u
<1>8. a \o AfterAll = u
  <2>1. /\ Len(u) = Len(a) + Len(AfterAll)
        /\ \A i \in 1..Len(a) : u[i] = a[i]
        /\ \A i \in 1..Len(AfterAll) : u[Len(a) + i] = AfterAll[i]
    BY <1>4, <1>5, Lengths
  <2>. QED  BY <1>4, <2>1, Lengths, Glue, Zenon
<1>9. u \in Ends(SetupAll)
  <2>1. 4 \in 1..(Len(SetupAll) + 1) /\ Len(u) = Len(SetupAll) - 4 + 1
    BY <1>4, Lengths
  <2>2. \A i \in 1..Len(u) : u[i] = SetupAll[4 + i - 1]
    BY <1>4, <1>6
  <2>. QED  BY <1>4, <2>1, <2>2, Lengths, EndsIs
<1>. QED  BY <1>1, <1>2, <1>3, <1>4, <1>7, <1>8, <1>9, SetupIs, Lengths DEF First

\* A command that begins anew far from its end.
LEMMA JumpInv ==
    ASSUME DeployTypeOK', OnTrack', Keeps,
           stopped' => cmd'.name \in {"none", "stop"} /\ (cmd'.name = "stop" => task' # "enabled"),
           Stopping' => Len(cmd'.todo) > 2, Serving' => Len(cmd'.todo) > 11,
           ~At("verify")', ~At("forget")'
    PROVE  DeployInv'
<1> DEFINE l == Len(cmd'.todo)
<1>1. Stopping' => l \in Nat
  <2>1. ASSUME Stopping' PROVE cmd'.todo \in Ends(StopSteps)
    BY <2>1 DEF Stopping, OnTrack
  <2>2. ASSUME Stopping' PROVE l \in 0..4
    BY <2>1, <2>2, Lengths, EndsAt
  <2> HIDE DEF l
  <2>. QED  BY <2>2
<1>2. StopInForce'
  <2> USE DEF Left
  <2>1. stopped' /\ task' # "enabled" /\ slips' = {} => Running' = {}
    BY DEF Keeps
  <2>2. Stopping' => ~(l <= 1) /\ l # 0
    <3>1. Stopping' => l > 2 /\ l \in Nat
      BY <1>1
    <3> HIDE DEF l
    <3>. QED  BY <3>1
  <2>. QED  BY <2>1, <2>2 DEF StopInForce
<1>3. StartInForce'
  <2>1. ASSUME Serving' PROVE l > 11 /\ cmd'.todo \notin Ends(Again) /\ l \in Nat
    <3>1. l > 11 /\ cmd'.todo # <<>>
      BY <2>1, EmptyIsEnd
    <3>2. cmd'.todo \in Ends(Again) => FALSE
      <4>1. cmd'.todo \in Ends(Again) => l \in 1..8
        BY <3>1, AgainAt
      <4> HIDE DEF l
      <4>. QED  BY <3>1, <4>1
    <3>3. cmd'.todo \in First
      BY <2>1, <3>2 DEF Serving, Forward
    <3>. QED  BY <3>1, <3>2, <3>3, FirstAt
  <2>2. ASSUME Serving' PROVE ~(l <= 8) /\ ~(l <= 10) /\ l \notin 7..11 /\ ~(l <= 6)
    <3>1. l > 11 /\ l \in Nat
      BY <2>1, <2>2
    <3> HIDE DEF l
    <3>. QED  BY <3>1
  <2>. QED  BY <2>1, <2>2 DEF StartInForce, Left, Serving
<1>4. RouteFollows' /\ InSight'
  BY DEF Keeps, RouteFollows
<1>. QED  BY <1>2, <1>3, <1>4 DEF DeployInv

Still == UNCHANGED <<env, portFile, task, starting, server, orphans, adrift, pending, route,
                     online, busy, stopped, slips, moves>>

LEMMA StillType ==
    ASSUME DeployInv, Still
    PROVE  (cmd' \in Cmd => DeployTypeOK') /\ Keeps
<1>1. Keeps
  BY KeepsStill DEF Still
<1>2. cmd' \in Cmd => DeployTypeOK'
  BY DEF Still, DeployInv, DeployTypeOK, Cmd
<1>. QED  BY <1>1, <1>2

\* A failed step: setup is cleaned up, an update repaired, or it ends.
LEMMA FailInv ==
    ASSUME DeployInv, cmd.todo # <<>>, FailStep, UNCHANGED <<task, stopped>>,
           cmd' \in Cmd => DeployTypeOK', Keeps
    PROVE  DeployInv'
<1>1. /\ cmd \in Cmd /\ cmd.name # "none"
      /\ stopped => cmd.name = "stop" /\ task # "enabled"
  <2>1. stopped => cmd.name \in {"none", "stop"} /\ (cmd.name = "stop" => task # "enabled")
    BY DEF DeployInv, StopInForce
  <2>. QED  BY <2>1, Kinds
<1>2. CASE cmd.mode = "main" /\ cmd.name = "setup" /\ cmd.ran
  <2>1. cmd' = [cmd EXCEPT !.mode = "cleanup", !.todo = StopSteps]
    BY <1>2 DEF FailStep, FailedSetup
  <2>2. /\ cmd' \in Cmd /\ cmd'.mode = "cleanup" /\ cmd'.todo = StopSteps
        /\ cmd'.name = "setup"
    BY <1>1, <1>2, <2>1, EmptyIsEnd DEF Cmd, Mode
  <2>3. Head(StopSteps) = "routeOff" /\ Len(StopSteps) = 4
    BY DEF StopSteps
  <2>4. StopSteps \notin Ends(SetupSteps)
    <3>1. StopSteps \in Ends(SetupSteps) => Head(StopSteps) \in {"prepare", "preflight", "existing"}
      BY EmptyIsEnd, BeginAt DEF BeginTable
    <3>. QED  BY <2>3, <3>1
  <2>5. OnTrack'
    BY <2>2, <2>4, EmptyIsEnd DEF OnTrack
  <2>6. DeployTypeOK' /\ ~Serving' /\ ~At("verify")' /\ ~At("forget")'
    BY <2>2, <2>3 DEF Serving, At
  <2>7. Len(cmd'.todo) > 2
    BY <2>2, <2>3
  <2>8. ~stopped
    BY <1>1, <1>2
  <2>. QED  BY <2>5, <2>6, <2>7, <2>8, JumpInv
<1>3. CASE /\ ~(cmd.mode = "main" /\ cmd.name = "setup" /\ cmd.ran)
           /\ cmd.mode = "main" /\ Head(cmd.todo) \in {"install", "createTask"}
           /\ cmd.name = "update" \/ cmd.existing
  <2>1. cmd' = [cmd EXCEPT !.mode = "repair", !.todo = StartSteps]
    BY <1>3 DEF FailStep
  <2>2. StartSteps \in Forward
    BY StartIsEnd DEF Forward
  <2>3. /\ cmd' \in Cmd /\ cmd'.mode = "repair" /\ cmd'.todo = StartSteps
        /\ cmd'.name = cmd.name
    BY <1>1, <2>1, <2>2 DEF Cmd, Mode
  <2>4. cmd.name # "stop"
    <3>1. Stopping => Head(cmd.todo) \in {"routeOff", "disable", "end", "waitStop"}
      BY Kinds, StopAt DEF StopTable
    <3>. QED  BY <1>3, <3>1 DEF Stopping
  <2>5. StartSteps \notin Ends(SetupSteps)
    <3>1. StartSteps \in Ends(SetupSteps) => Len(StartSteps) \in 1..3
      BY StartIsEnd, BeginAt
    <3>. QED  BY <3>1, StartIsEnd
  <2>6. OnTrack'
    BY <1>1, <2>2, <2>3, <2>4, <2>5 DEF OnTrack
  <2>7. /\ DeployTypeOK' /\ ~Serving' /\ ~Stopping' /\ ~At("verify")' /\ ~At("forget")'
    BY <2>3, <2>4, StartIsEnd DEF Serving, Stopping, At
  <2>8. ~stopped
    BY <1>1, <2>4
  <2>. QED  BY <2>6, <2>7, <2>8, JumpInv
<1>4. CASE cmd' = [cmd EXCEPT !.mode = "aborted", !.todo = <<>>]
  <2>1. /\ cmd' \in Cmd /\ cmd'.mode = "aborted" /\ cmd'.todo = <<>> /\ cmd'.name = cmd.name
    BY <1>1, <1>4, EmptyIsEnd DEF Cmd, Mode
  <2>2. OnTrack'
    BY <1>1, <2>1, EmptyIsEnd DEF OnTrack
  <2>3. DeployTypeOK' /\ ~Serving' /\ ~Stopping' /\ ~At("verify")' /\ ~At("forget")'
    BY <2>1 DEF Serving, Stopping, At
  <2>. QED  BY <1>1, <2>1, <2>2, <2>3, JumpInv
<1>. QED  BY <1>2, <1>3, <1>4 DEF FailStep

\* Without the tailnet an existing Master keeps serving its console.
LEMMA UnavailableInv ==
    ASSUME DeployInv, cmd.todo # <<>>, Head(cmd.todo) \in {"identity", "serve", "verify"},
           Unavailable, Still
    PROVE  DeployInv'
<1>1. CASE FailStep
  BY <1>1, StillType, FailInv DEF Still
<1>2. CASE cmd' = [cmd EXCEPT !.todo = <<>>]
  <2>1. cmd \in Cmd /\ cmd.name # "none" /\ cmd.mode # "aborted"
    BY Kinds
  <2>2. /\ cmd' \in Cmd /\ cmd'.mode = cmd.mode /\ cmd'.todo = <<>> /\ cmd'.name = cmd.name
    BY <1>2, <2>1, EmptyIsEnd DEF Cmd
  <2>3. ~Stopping /\ cmd.todo \notin Ends(SetupSteps)
    <3>1. cmd.todo \in Ends(StopSteps) =>
             Head(cmd.todo) \in {"routeOff", "disable", "end", "waitStop"}
      BY StopAt DEF StopTable
    <3>2. cmd.todo \in Ends(SetupSteps) =>
             Head(cmd.todo) \in {"prepare", "preflight", "existing"}
      BY BeginAt DEF BeginTable
    <3>. QED  BY <3>1, <3>2, Kinds
  <2>4. cmd.todo \in Forward /\ cmd.name # "stop" /\ cmd.mode \in {"main", "repair"} /\ ~stopped
    BY <2>3, Kinds
  <2>5. Len(cmd.todo) \in Nat /\ Len(cmd.todo) <= 6
    <3>1. CASE cmd.todo \in First
      <4> DEFINE r == Len(cmd.todo)
                 h == Head(cmd.todo)
                 n == Head(Tail(cmd.todo))
      <4>1. r \in Nat \ {0} /\ Table(h, n, r)
        BY <3>1, FirstAt
      <4>2. h \in {"identity", "serve", "verify"}
        OBVIOUS
      <4> HIDE DEF r, h, n
      <4>3. r \in Nat /\ r <= 6
        BY <4>1, <4>2 DEF Table
      <4>. QED  BY <4>3 DEF r
    <3>2. CASE cmd.todo \in Ends(Again)
      <4> DEFINE r == Len(cmd.todo)
                 h == Head(cmd.todo)
                 n == Head(Tail(cmd.todo))
      <4>1. r \in 1..8 /\ AgainTable(h, n, r)
        BY <3>2, AgainAt
      <4>2. h \in {"identity", "serve", "verify"}
        OBVIOUS
      <4> HIDE DEF r, h, n
      <4>3. r \in Nat /\ r <= 6
        BY <4>1, <4>2 DEF AgainTable
      <4>. QED  BY <4>3 DEF r
    <3>. QED  BY <2>4, <3>1, <3>2 DEF Forward
  <2>6. OnTrack'
    BY <2>1, <2>2, <2>4, EmptyIsEnd DEF OnTrack
  <2>7. StopInForce'
    BY <2>2, <2>4 DEF StopInForce, Still, Stopping
  <2>8. StartInForce'
    <3>1. SUFFICES ASSUME Serving'
                   PROVE  /\ task' = "enabled" /\ portFile' = env'.web
                          /\ "unseen" \notin slips' => {starting', server'} \subseteq {env'.web, NoPort}
                          /\ Len(cmd'.todo) \notin 7..11
      BY DEF StartInForce, Serving, Left
    <3>2. Serving /\ ~At("portFile")
      BY <2>2, <2>4, <3>1 DEF Serving, At
    <3>3. Left <= 8 /\ Left <= 10 /\ Left <= 6
      <4> DEFINE r == Len(cmd.todo)
      <4>1. r \in Nat /\ r <= 6
        BY <2>5
      <4> HIDE DEF r
      <4>2. r <= 8 /\ r <= 10 /\ r <= 6
        BY <4>1
      <4>. QED  BY <4>2 DEF r, Left
    <3>4. /\ task = "enabled" /\ portFile = env.web
          /\ "unseen" \notin slips => {starting, server} \subseteq {env.web, NoPort}
      BY <3>2, <3>3 DEF DeployInv, StartInForce, Serving
    <3>5. Len(cmd'.todo) = 0
      BY <2>2
    <3>. QED  BY <3>4, <3>5 DEF Still
  <2>9. RouteFollows'
    BY <2>2 DEF DeployInv, RouteFollows, Still, At
  <2>10. DeployTypeOK' /\ InSight'
    BY <2>2, StillType DEF Keeps
  <2>. QED  BY <2>6, <2>7, <2>8, <2>9, <2>10 DEF DeployInv
<1>. QED  BY <1>1, <1>2 DEF Unavailable, Instead

\* A command begins.
LEMMA BeginInv ==
    ASSUME DeployInv, NEW name \in {"setup", "start", "stop", "update"}, Begin(name)
    PROVE  DeployInv'
<1> DEFINE steps == StepsOf(name)
<1>1. NoCmd.mode = "main"
  BY DEF NoCmd
<1>2. /\ name = "stop" => steps = StopSteps
      /\ name = "start" => steps = StartSteps
      /\ name = "update" => steps = UpdateSteps
      /\ name = "setup" => steps = SetupSteps
  BY DEF StepsOf
<1> HIDE DEF steps
<1>3. /\ name = "stop" => steps \in Ends(StopSteps)
      /\ name \in {"start", "update"} => steps \in First /\ steps \in Forward
      /\ name = "setup" => steps \in Ends(SetupSteps)
      /\ steps # <<>> /\ Head(steps) \notin {"verify", "forget"}
  <2>1. Head(StopSteps) = "routeOff" /\ Head(SetupSteps) = "prepare"
    BY DEF StopSteps, SetupSteps
  <2>. QED  BY <1>2, <2>1, StartIsEnd, UpdateIsEnd, EmptyIsEnd DEF Forward
<1>4. /\ cmd' \in Cmd /\ cmd'.name = name /\ cmd'.mode = "main" /\ cmd'.todo = steps
  <2>1. cmd' = [NoCmd EXCEPT !.name = name, !.todo = steps]
    BY DEF Begin, steps
  <2>2. steps \in Forward \cup Ends(SetupSteps) \cup Ends(StopSteps)
    BY <1>3
  <2>. QED  BY <2>1, <2>2 DEF NoCmd, Cmd, Name, Mode
<1>5. name # "setup" => steps \notin Ends(SetupSteps)
  <2>1. steps \in Ends(SetupSteps) =>
           Len(steps) \in 1..3 /\ Head(steps) \in {"prepare", "preflight", "existing"}
    BY <1>3, BeginAt DEF BeginTable
  <2>2. Head(StopSteps) = "routeOff"
    BY DEF StopSteps
  <2>3. CASE name = "stop"
    BY <1>2, <2>1, <2>2, <2>3
  <2>4. CASE name \in {"start", "update"}
    <3> DEFINE r == Len(steps)
    <3>1. r = 16 \/ r = 23
      BY <1>2, <2>4, StartIsEnd, UpdateIsEnd
    <3>2. steps \in Ends(SetupSteps) => r \in 1..3
      BY <2>1
    <3> HIDE DEF r
    <3>. QED  BY <3>1, <3>2
  <2>. QED  BY <2>3, <2>4
<1>6. OnTrack'
  BY <1>3, <1>4, <1>5 DEF OnTrack
<1>7. DeployTypeOK'
  <2>1. stopped' \in BOOLEAN
    BY DEF Begin, DeployInv, DeployTypeOK
  <2>. QED  BY <1>4, <2>1 DEF Begin, DeployInv, DeployTypeOK, Cmd, machine, processes, outside
<1>8. Stopping' => Len(cmd'.todo) > 2
  <2>1. Stopping' => cmd'.todo = StopSteps
    BY <1>2, <1>4 DEF Stopping
  <2>2. Stopping' => Len(cmd'.todo) = 4
    BY <2>1, Lengths
  <2> DEFINE r == Len(cmd'.todo)
  <2>3. Stopping' => r = 4
    BY <2>2
  <2> HIDE DEF r
  <2>4. Stopping' => r > 2
    BY <2>3
  <2>. QED  BY <2>4 DEF r
<1>9. Serving' => Len(cmd'.todo) > 11
  <2>1. CASE name \in {"start", "update"}
    <3> DEFINE r == Len(cmd'.todo)
    <3>1. r = 16 \/ r = 23
      BY <1>2, <1>4, <2>1, StartIsEnd, UpdateIsEnd
    <3> HIDE DEF r
    <3>2. r > 11
      BY <3>1
    <3>. QED  BY <3>2 DEF r
  <2>2. CASE name = "stop"
    BY <1>4, <2>2 DEF Serving
  <2>3. CASE name = "setup"
    <3>1. Head(steps) = "prepare" /\ steps # <<>>
      BY <1>2, <2>3 DEF SetupSteps
    <3>2. steps \notin First
      BY <3>1, FirstAt DEF Table
    <3>3. steps \notin Ends(Again)
      BY <3>1, AgainAt DEF AgainTable
    <3>. QED  BY <1>4, <3>2, <3>3 DEF Serving, Forward
  <2>. QED  BY <2>1, <2>2, <2>3
<1>10. ~At("verify")' /\ ~At("forget")'
  BY <1>3, <1>4 DEF At
<1>11. stopped' => stopped /\ cmd'.name = "stop" /\ task # "enabled"
  BY <1>4 DEF Begin, DeployInv, DeployTypeOK
<1>12. UNCHANGED <<env, task, starting, server, orphans, adrift, slips, route, moves>>
  BY DEF Begin, machine, processes, outside
<1>13. Keeps
  BY <1>11, <1>12, KeepsStill
<1>. QED  BY <1>6, <1>7, <1>8, <1>9, <1>10, <1>11, <1>12, <1>13, JumpInv

\* setup has looked for an installed task.
LEMMA ExistingInv ==
    ASSUME DeployInv, ExistingTask
    PROVE  DeployInv'
<1> DEFINE next == (IF task # "missing" THEN StopSteps ELSE <<"waitStop">>) \o AfterSetup
<1>1. cmd.todo # <<>> /\ Head(cmd.todo) = "existing" /\ Still
  BY DEF ExistingTask, At, Still, machine, processes, outside, history
<1>2. cmd' = [cmd EXCEPT !.existing = task # "missing", !.todo = next]
  BY DEF ExistingTask
<1>3. /\ next \in First /\ next # <<>> /\ Head(next) \in {"routeOff", "waitStop"}
      /\ Len(next) = 16 \/ Len(next) = 13
  BY ExistingIsEnd
<1> HIDE DEF next
<1>4. cmd \in Cmd /\ ~Stopping /\ cmd.name = "setup" /\ cmd.mode = "main" /\ ~stopped
  <2>1. cmd.todo \notin Ends(StopSteps)
    BY <1>1, StopAt DEF StopTable
  <2>2. cmd.todo \notin Forward
    <3>1. cmd.todo \notin First
      BY <1>1, FirstAt DEF Table
    <3>2. cmd.todo \notin Ends(Again)
      BY <1>1, AgainAt DEF AgainTable
    <3>. QED  BY <3>1, <3>2 DEF Forward
  <2>. QED  BY <1>1, <2>1, <2>2, Kinds
<1>5. next \in Forward
  BY <1>3 DEF Forward
<1>6. cmd' \in Cmd /\ cmd'.name = "setup" /\ cmd'.mode = "main" /\ cmd'.todo = next
  <2>1. (task # "missing") \in BOOLEAN
    OBVIOUS
  <2>. QED  BY <1>2, <1>4, <1>5, <2>1 DEF Cmd
<1>7. OnTrack'
  BY <1>5, <1>6 DEF OnTrack
<1>8. DeployTypeOK' /\ Keeps /\ ~Stopping' /\ ~At("verify")' /\ ~At("forget")' /\ ~stopped'
  BY <1>1, <1>3, <1>4, <1>6, StillType DEF Stopping, At, Still
<1>9. Len(cmd'.todo) > 11
  <2> DEFINE r == Len(cmd'.todo)
  <2>1. r = 16 \/ r = 13
    BY <1>3, <1>6
  <2> HIDE DEF r
  <2>2. r > 11
    BY <2>1
  <2>. QED  BY <2>2 DEF r
<1>. QED  BY <1>7, <1>8, <1>9, JumpInv

\* What is left of a command when it trusts a new host name.
LEMMA TrustAt ==
    ASSUME DeployInv, At("trust")
    PROVE  /\ cmd.todo \in First /\ Len(cmd.todo) = 5
           /\ <<"end", "waitStop", "run", "health">> \o Tail(cmd.todo) = Again
<1> DEFINE e == cmd.todo
           a == <<"end", "waitStop", "run", "health">>
<1>1. e # <<>> /\ Head(e) = "trust"
  BY DEF At
<1>2. e \in First
  <2>1. e \notin Ends(StopSteps)
    BY <1>1, StopAt DEF StopTable
  <2>2. e \notin Ends(SetupSteps)
    BY <1>1, BeginAt DEF BeginTable
  <2>3. e \notin Ends(Again)
    BY <1>1, AgainAt DEF AgainTable
  <2>. QED  BY <1>1, <2>1, <2>2, <2>3, Kinds DEF Forward
<1>3. Len(e) = 5
  BY <1>1, <1>2, FirstAt DEF Table
<1>4. /\ e \in Seq(StepName)
      /\ e[2] = "serve" /\ e[3] = "verify" /\ e[4] = "forget" /\ e[5] = "address"
  <2>1. CASE e \in Ends(UpdateSteps)
    <3>1. e \in Seq(StepName) /\ \A i \in 1..Len(e) : e[i] = UpdateAll[23 - Len(e) + i]
      BY <2>1, UpdateAt
    <3>2. \A i \in 1..5 : e[i] = UpdateAll[18 + i]
      BY <1>3, <3>1
    <3>. QED  BY <3>1, <3>2 DEF UpdateAll
  <2>2. CASE e \in Ends(SetupAgain)
    <3>1. e \in Seq(StepName) /\ \A i \in 1..Len(e) : e[i] = SetupAll[16 - Len(e) + i]
      BY <2>2, SetupAt
    <3>2. \A i \in 1..5 : e[i] = SetupAll[11 + i]
      BY <1>3, <3>1
    <3>. QED  BY <3>1, <3>2 DEF SetupAll
  <2>. QED  BY <1>2, <2>1, <2>2 DEF First
<1> DEFINE t == Tail(e)
<1>5. t \in Seq(StepName) /\ Len(t) = 4 /\ \A i \in 1..4 : t[i] = e[i + 1]
  <2>1. /\ t \in Seq(StepName) /\ Len(t) = Len(e) - 1
        /\ \A i \in 1..Len(t) : t[i] = e[i + 1]
    BY <1>1, <1>4, HeadTailProperties
  <2> HIDE DEF t
  <2>2. Len(t) = 4
    BY <1>3, <2>1
  <2>. QED  BY <2>1, <2>2
<1>6. t[1] = "serve" /\ t[2] = "verify" /\ t[3] = "forget" /\ t[4] = "address"
  BY <1>4, <1>5
<1> HIDE DEF e, t
<1>7. a \in Seq(StepName) /\ Len(a) = 4 /\ \A i \in 1..4 : Again[i] = a[i]
  BY DEF StepName, Again
<1>8. \A i \in 1..4 : Again[4 + i] = t[i]
  BY <1>6 DEF Again
<1>9. a \o t = Again
  <2>1. /\ Len(Again) = Len(a) + Len(t)
        /\ \A i \in 1..Len(a) : Again[i] = a[i]
        /\ \A i \in 1..Len(t) : Again[Len(a) + i] = t[i]
    BY <1>5, <1>7, <1>8, Lengths
  <2>2. Again \in Seq(StepName)
    BY Lengths
  <2> HIDE DEF a
  <2>. QED  BY <1>5, <1>7, <2>1, <2>2, Glue, Zenon
<1>. QED  BY <1>2, <1>3, <1>9 DEF e, t

\* A new host name is trusted, with a restart of the server unless it is known.
LEMMA TrustInv ==
    ASSUME DeployInv, Trust
    PROVE  DeployInv'
<1>1. At("trust") /\ cmd.todo # <<>> /\ Head(cmd.todo) = "trust"
  BY DEF Trust, At
<1>2. /\ env' = [env EXCEPT !.trusted = TRUE]
      /\ UNCHANGED <<portFile, task, starting, server, orphans, adrift, pending, route, online, busy,
                     stopped, slips, moves>>
  BY DEF Trust, machine, processes, outside, history
<1>3. DeployTypeOK
  BY DEF DeployInv
<1>4. env'.web = env.web /\ env'.prev = env.prev
  BY <1>2, <1>3 DEF DeployTypeOK
<1>5. (cmd' \in Cmd => DeployTypeOK') /\ Keeps
  <2>1. Keeps
    BY <1>2, <1>4, KeepsStill
  <2>. QED  BY <1>2, <1>3, <2>1 DEF DeployTypeOK, Cmd
<1>6. CASE env.trusted
  <2>1. cmd' = [cmd EXCEPT !.todo = Tail(@)]
    BY <1>6 DEF Trust, Proceed
  <2>2. Effects("trust")
    BY <1>2, <1>4 DEF Effects
  <2>. QED  BY <1>1, <1>5, <2>1, <2>2, ProceedInv
<1>7. CASE FailStep
  BY <1>1, <1>2, <1>5, <1>7, FailInv
<1>8. CASE ~env.trusted /\ ~FailStep
  <2>1. cmd' = [cmd EXCEPT !.todo = Again] /\ cmd.todo \in First /\ Len(cmd.todo) = 5
    BY <1>1, <1>8, TrustAt DEF Trust, Instead
  <2>2. cmd \in Cmd /\ cmd.name # "none" /\ cmd.mode # "aborted"
    BY <1>1, Kinds
  <2>3. ~Stopping /\ ~stopped /\ cmd.name # "stop" /\ cmd.mode \in {"main", "repair"}
    <3>1. cmd.todo \notin Ends(StopSteps)
      BY <1>1, StopAt DEF StopTable
    <3>2. cmd.todo \notin Ends(SetupSteps)
      BY <1>1, BeginAt DEF BeginTable
    <3>. QED  BY <1>1, <3>1, <3>2, Kinds
  <2>4. Again \in Forward /\ Again \in Ends(Again) /\ Len(Again) = 8
    BY EmptyIsEnd, Lengths DEF Forward
  <2>5. Head(Again) = "end" /\ Again # <<>>
    BY DEF Again
  <2>6. cmd' \in Cmd /\ cmd'.name = cmd.name /\ cmd'.mode = cmd.mode /\ cmd'.todo = Again
    BY <2>1, <2>2, <2>4 DEF Cmd
  <2>7. Again \notin First /\ Again \notin Ends(SetupSteps)
    <3>1. Again \in First => Table("end", Head(Tail(Again)), Len(Again))
      BY <2>5, FirstAt
    <3>2. ~Table("end", Head(Tail(Again)), 8)
      BY DEF Table
    <3>3. Again \notin Ends(SetupSteps)
      BY <2>5, BeginAt DEF BeginTable
    <3>. QED  BY <2>4, <3>1, <3>2, <3>3
  <2>8. OnTrack'
    BY <2>2, <2>3, <2>4, <2>6, <2>7 DEF OnTrack
  <2>9. StopInForce'
    BY <1>2, <2>3, <2>6 DEF StopInForce, Stopping
  <2>10. StartInForce'
    <3>1. SUFFICES ASSUME Serving'
                   PROVE  /\ task' = "enabled" /\ portFile' = env'.web
                          /\ "unseen" \notin slips' => {starting', server'} \subseteq {env'.web, NoPort}
      BY <2>6, <2>7 DEF StartInForce, Serving
    <3>2. Serving /\ ~At("portFile")
      BY <1>1, <2>1, <2>6, <3>1 DEF Serving, At, Forward
    <3>3. Left <= 8 /\ Left <= 10 /\ Left <= 6
      BY <2>1 DEF Left
    <3>4. /\ task = "enabled" /\ portFile = env.web
          /\ "unseen" \notin slips => {starting, server} \subseteq {env.web, NoPort}
      BY <3>2, <3>3 DEF DeployInv, StartInForce, Serving
    <3>. QED  BY <1>2, <1>4, <3>4
  <2>11. RouteFollows'
    BY <1>2, <1>4, <2>5, <2>6 DEF DeployInv, RouteFollows, At
  <2>. QED  BY <1>5, <2>6, <2>8, <2>9, <2>10, <2>11 DEF DeployInv, Keeps
<1>. QED  BY <1>6, <1>7, <1>8

LEMMA NoCmdIs ==
    /\ NoCmd \in Cmd /\ NoCmd.name = "none" /\ NoCmd.mode = "main" /\ NoCmd.todo = <<>>
  BY EmptyIsEnd DEF NoCmd, Cmd, Name, Mode

\* No command runs.
LEMMA IdleInv ==
    ASSUME DeployTypeOK', cmd' = NoCmd, Keeps
    PROVE  DeployInv'
<1>1. cmd'.name = "none" /\ cmd'.mode = "main" /\ cmd'.todo = <<>>
  BY NoCmdIs
<1>2. OnTrack'
  BY <1>1, EmptyIsEnd DEF OnTrack
<1>3. StopInForce' /\ StartInForce'
  BY <1>1 DEF StopInForce, StartInForce, Stopping, Keeps
<1>4. RouteFollows' /\ InSight'
  BY <1>1 DEF RouteFollows, At, Keeps
<1>. QED  BY <1>2, <1>3, <1>4 DEF DeployInv

LEMMA FinishInv ==
    ASSUME DeployInv, Finish
    PROVE  DeployInv'
<1>1. /\ cmd' = NoCmd /\ cmd.name # "none" /\ cmd.todo = <<>>
      /\ UNCHANGED <<env, portFile, task, starting, server, orphans, adrift, pending, route, online,
                     busy, slips, moves>>
  BY DEF Finish, machine, processes, outside
<1>2. stopped' => stopped \/ Stopping
  BY DEF Finish, Stopping, DeployInv, DeployTypeOK
<1>3. DeployTypeOK'
  <2>1. stopped' \in BOOLEAN
    BY DEF Finish, DeployInv, DeployTypeOK
  <2>. QED  BY <1>1, <2>1, NoCmdIs DEF DeployInv, DeployTypeOK, Cmd
<1>4. Left = 0
  BY <1>1 DEF Left
<1>5. stopped \/ Stopping => (task # "enabled" /\ slips = {} => Running = {})
  BY <1>4 DEF DeployInv, StopInForce
<1>6. Keeps
  <2>1. Running' = Running
    BY <1>1 DEF Running, Listening
  <2>2. stopped' /\ task' # "enabled" /\ slips' = {} => Running' = {}
    BY <1>1, <1>2, <1>5, <2>1
  <2>3. InSight'
    BY <1>1, <2>1 DEF DeployInv, InSight
  <2>. QED  BY <1>1, <2>2, <2>3 DEF DeployInv, RouteFollows, Keeps
<1>. QED  BY <1>1, <1>3, <1>6, IdleInv

LEMMA RebootInv ==
    ASSUME DeployInv, Reboot
    PROVE  DeployInv'
<1>1. /\ cmd' = NoCmd /\ server' = NoPort /\ orphans' = {} /\ adrift' = {}
      /\ starting' = (IF task = "enabled" THEN env.web ELSE NoPort)
      /\ pending' = FALSE /\ slips' = {}
      /\ UNCHANGED <<env, portFile, task, route, online, busy, stopped, moves>>
  BY DEF Reboot, outside
<1>2. DeployTypeOK /\ NoPort \in AnyPort /\ env.web # NoPort /\ env.web \in AnyPort
  BY DEF DeployInv, DeployTypeOK, AnyPort, Port, NoPort
<1>3. DeployTypeOK'
  BY <1>1, <1>2, NoCmdIs DEF DeployTypeOK, Cmd
<1>4. Keeps
  <2>1. InSight'
    BY <1>1 DEF InSight, Running, Listening
  <2>2. task' # "enabled" => Running' = {}
    BY <1>1 DEF Running, Listening
  <2>. QED  BY <1>1, <2>1, <2>2 DEF Keeps, DeployInv, RouteFollows
<1>. QED  BY <1>1, <1>3, <1>4, IdleInv

\* The machine, between two steps of a command.
LEMMA MachineInv ==
    ASSUME DeployInv, DeployTypeOK',
           UNCHANGED <<portFile, task, route, cmd, stopped, slips, moves>>,
           env'.web = env.web, env'.prev = env.prev,
           orphans' \subseteq orphans \cup adrift, adrift' \subseteq adrift,
           {starting', server'} \subseteq {starting, server, env.web, NoPort},
           task = "enabled" \/ (starting' \in {starting, NoPort} /\ Running' \subseteq Running)
    PROVE  DeployInv'
<1>1. OnTrack'
  BY DEF DeployInv, OnTrack
<1>2. StopInForce'
  <2>1. stopped' /\ task' # "enabled" /\ slips' = {} => Running' = {}
    BY DEF DeployInv, StopInForce
  <2>2. ASSUME Stopping', task' # "enabled", slips' = {}
        PROVE  (Left <= 1 => starting' = NoPort) /\ (Left = 0 => Running' = {})
    BY <2>2 DEF DeployInv, StopInForce, Stopping
  <2>. QED  BY <2>1, <2>2 DEF DeployInv, StopInForce, Left
<1>3. InSight'
  <2>1. "unseen" \notin slips' => adrift' = {}
    BY DEF DeployInv, InSight
  <2>2. slips' = {} => Running' \subseteq {env'.web}
    <3>1. slips = {} => Running \subseteq {env.web}
      BY DEF DeployInv, InSight
    <3>2. Running' \subseteq Running \cup {env.web}
      BY DEF Running, Listening
    <3>. QED  BY <3>1, <3>2
  <2>. QED  BY <2>1, <2>2 DEF InSight
<1>4. StartInForce'
  <2>1. "unseen" \notin slips => orphans' \subseteq orphans
    BY DEF DeployInv, InSight
  <2>. QED  BY <2>1 DEF DeployInv, StartInForce, Left, At
<1>5. RouteFollows'
  BY DEF DeployInv, RouteFollows, At
<1>. QED  BY <1>1, <1>2, <1>3, <1>4, <1>5 DEF DeployInv

-----------------------------------------------------------------------------
(* One lemma for each step that changes something outside the command.     *)

LEMMA Ports ==
    /\ NoPort \in AnyPort /\ \A p \in Port : p \in AnyPort /\ p # NoPort
    /\ DeployInv => env.web \in Port
  BY DEF DeployInv, DeployTypeOK, AnyPort, Port, NoPort

\* A step that only looks.
LEMMA QuietInv ==
    ASSUME DeployInv, Proceed, Still, cmd.todo # <<>>,
           \/ Head(cmd.todo) \in {"preflight", "query", "install", "identity", "verify"}
           \/ Head(cmd.todo) = "health" /\ env.web \in Listening
    PROVE  DeployInv'
<1> DEFINE h == Head(cmd.todo)
<1>1. cmd' = [cmd EXCEPT !.todo = Tail(@)] /\ (cmd' \in Cmd => DeployTypeOK') /\ Keeps
  BY StillType DEF Proceed
<1>2. /\ h \in {"preflight", "query", "install", "identity", "verify", "health"}
      /\ h = "health" => env.web \in Listening
  OBVIOUS
<1>3. Effects(h)
  <2> HIDE DEF h
  <2>. QED  BY <1>2 DEF Effects, Still
<1>4. h # "existing"
  BY <1>2
<1>. QED  BY <1>1, <1>3, <1>4, ProceedInv

\* The public port file is written.
LEMMA PortFileInv ==
    ASSUME DeployInv, Prepare \/ WritePortFile
    PROVE  DeployInv'
<1>1. /\ cmd.todo # <<>> /\ Head(cmd.todo) \in {"prepare", "portFile"}
      /\ cmd' = [cmd EXCEPT !.todo = Tail(@)] /\ portFile' = env.web
      /\ UNCHANGED <<env, task, starting, server, orphans, adrift, pending, route, online, busy,
                     stopped, slips, moves>>
  BY DEF Prepare, WritePortFile, At, Proceed, machine, processes, outside, history
<1>2. cmd' \in Cmd => DeployTypeOK'
  BY <1>1 DEF DeployInv, DeployTypeOK, Cmd
<1>3. Keeps
  BY <1>1, KeepsStill
<1>4. Effects(Head(cmd.todo))
  <2> DEFINE h == Head(cmd.todo)
  <2>1. h \in {"prepare", "portFile"}
    BY <1>1
  <2> HIDE DEF h
  <2>2. Effects(h)
    BY <1>1, <2>1 DEF Effects
  <2>. QED  BY <2>2 DEF h
<1>5. Head(cmd.todo) # "existing"
  BY <1>1
<1>. QED  BY <1>1, <1>2, <1>3, <1>4, <1>5, ProceedInv

\* The route is taken off, or left; after it is off the command can fail.
LEMMA RouteOffInv ==
    ASSUME DeployInv, RouteOff
    PROVE  DeployInv'
<1>1. /\ cmd.todo # <<>> /\ Head(cmd.todo) = "routeOff" /\ (Proceed \/ FailStep)
      /\ (route' = NoPort /\ moves' = 0) \/ UNCHANGED <<route, moves>>
      /\ UNCHANGED <<env, portFile, task, starting, server, orphans, adrift, pending, online, busy,
                     stopped, slips>>
  BY DEF RouteOff, At, machine, processes, outside
<1>2. cmd' \in Cmd => DeployTypeOK'
  BY <1>1, Ports DEF DeployInv, DeployTypeOK, Cmd
<1>3. Keeps
  <2>1. CASE UNCHANGED <<route, moves>>
    BY <1>1, <2>1, KeepsStill
  <2>2. CASE route' = NoPort /\ moves' = 0
    <3>1. Running' = Running
      BY <1>1 DEF Running, Listening
    <3>2. InSight' /\ (stopped' /\ task' # "enabled" /\ slips' = {} => Running' = {})
      BY <1>1, <3>1 DEF DeployInv, InSight, StopInForce
    <3>. QED  BY <2>2, <3>2 DEF Keeps
  <2>. QED  BY <1>1, <2>1, <2>2
<1>4. CASE FailStep
  BY <1>1, <1>2, <1>3, <1>4, FailInv
<1>5. CASE Proceed
  <2>1. cmd' = [cmd EXCEPT !.todo = Tail(@)]
    BY <1>5 DEF Proceed
  <2>2. Effects("routeOff")
    BY <1>1 DEF Effects
  <2>. QED  BY <1>1, <1>2, <1>3, <2>1, <2>2, ProceedInv
<1>. QED  BY <1>1, <1>4, <1>5

\* The scheduled task is disabled, or not; it is replaced or enabled.
LEMMA TaskInv ==
    ASSUME DeployInv, Disable \/ CreateTask \/ Enable
    PROVE  DeployInv'
<1>1. /\ cmd.todo # <<>> /\ Head(cmd.todo) \in {"disable", "createTask", "enable"}
      /\ cmd' = [cmd EXCEPT !.todo = Tail(@)]
      /\ UNCHANGED <<env, portFile, starting, server, orphans, adrift, pending, route, online, busy,
                     stopped, slips, moves>>
  BY DEF Disable, CreateTask, Enable, At, Proceed, processes, outside, history
<1>2. /\ Head(cmd.todo) = "disable" => task' \in {task, "disabled"}
      /\ Head(cmd.todo) # "disable" => task' = "enabled"
  BY DEF Disable, CreateTask, Enable, At
<1>3. cmd' \in Cmd => DeployTypeOK'
  <2>1. task' \in Task
    BY <1>2 DEF Task, DeployInv, DeployTypeOK
  <2>. QED  BY <1>1, <2>1 DEF DeployInv, DeployTypeOK, Cmd
<1>4. Keeps
  \* A stop that is in force has disabled the task already.
  <2>1. stopped => Stopping /\ task # "enabled"
    <3>1. stopped => Stopping /\ cmd.name \in {"none", "stop"} /\ cmd.name # "none"
      BY <1>1, Kinds DEF DeployInv, StopInForce
    <3>. QED  BY <3>1 DEF DeployInv, StopInForce
  <2>. QED  BY <1>1, <2>1, KeepsStill
<1>5. Effects(Head(cmd.todo))
  <2> DEFINE h == Head(cmd.todo)
  <2>1. /\ h \in {"disable", "createTask", "enable"} /\ (h = "disable" => task' \in {task, "disabled"})
        /\ h # "disable" => task' = "enabled"
    BY <1>1, <1>2
  <2> HIDE DEF h
  <2>2. Effects(h)
    BY <1>1, <2>1 DEF Effects
  <2>. QED  BY <2>2 DEF h
<1>6. Head(cmd.todo) # "existing"
  BY <1>1
<1>. QED  BY <1>1, <1>3, <1>4, <1>5, <1>6, ProceedInv

LEMMA EndInv ==
    ASSUME DeployInv, End
    PROVE  DeployInv'
<1>1. /\ cmd.todo # <<>> /\ Head(cmd.todo) = "end" /\ cmd' = [cmd EXCEPT !.todo = Tail(@)]
      /\ slips' = slips \cup (IF starting' # NoPort \/ adrift' # {} THEN {"unseen"} ELSE {})
      /\ UNCHANGED <<env, portFile, task, pending, route, online, busy, stopped, moves>>
  BY DEF End, At, Proceed, outside
<1>2. \/ UNCHANGED <<starting, server, orphans, adrift>>
      \/ /\ starting' = NoPort /\ server' = NoPort
         /\ orphans' \in {orphans, orphans \cup ({server} \ {NoPort})}
         /\ adrift' \in {adrift, adrift \cup ({starting} \ {NoPort})}
  BY DEF End, processes
<1>3. cmd' \in Cmd => DeployTypeOK'
  <2>1. /\ starting \in AnyPort /\ server \in AnyPort /\ orphans \in SUBSET Port
        /\ adrift \in SUBSET Port /\ NoPort \in {starting, server}
    BY DEF DeployInv, DeployTypeOK
  <2>2. /\ starting' \in AnyPort /\ server' \in AnyPort /\ orphans' \in SUBSET Port
        /\ adrift' \in SUBSET Port /\ NoPort \in {starting', server'}
    BY <1>2, <2>1 DEF AnyPort
  <2>3. slips' \in SUBSET Overlooked
    BY <1>1 DEF DeployInv, DeployTypeOK, Overlooked
  <2>. QED  BY <1>1, <2>2, <2>3 DEF DeployInv, DeployTypeOK, Cmd
<1>4. Running' \subseteq Running
  BY <1>2 DEF Running, Listening
<1>5. Keeps
  <2>1. "unseen" \notin slips' => adrift' = {}
    BY <1>1
  <2>2. slips' = {} => slips = {}
    BY <1>1
  <2>3. InSight'
    BY <1>1, <1>4, <2>1, <2>2 DEF DeployInv, InSight
  <2>4. stopped' /\ task' # "enabled" /\ slips' = {} => Running' = {}
    BY <1>1, <1>4, <2>2 DEF DeployInv, StopInForce
  <2>. QED  BY <1>1, <2>3, <2>4 DEF Keeps, DeployInv, RouteFollows
<1>6. Effects("end")
  <2>1. slips' = {} => starting' = NoPort
    BY <1>1
  <2>2. starting' \in {starting, NoPort} /\ server' \in {server, NoPort} /\ slips \subseteq slips'
    BY <1>1, <1>2
  <2>. QED  BY <1>1, <2>1, <2>2 DEF Effects
<1>. QED  BY <1>1, <1>3, <1>5, <1>6, ProceedInv

LEMMA WaitStopInv ==
    ASSUME DeployInv, WaitStop
    PROVE  DeployInv'
<1>1. /\ cmd.todo # <<>> /\ Head(cmd.todo) = "waitStop" /\ (Proceed \/ FailStep)
      /\ server' = (IF server = env.web THEN NoPort ELSE server)
      /\ orphans' = orphans \ {env.web}
      /\ slips' = (IF Running' = {} THEN {} ELSE slips)
      /\ UNCHANGED <<env, portFile, task, starting, adrift, route, online, busy, stopped, moves>>
  BY DEF WaitStop, At, outside
<1>2. pending' = (pending \/ server = env.web)
  BY DEF WaitStop
<1>3. cmd' \in Cmd => DeployTypeOK'
  <2>1. /\ starting \in AnyPort /\ server \in AnyPort /\ orphans \in SUBSET Port
        /\ NoPort \in {starting, server} /\ slips \in SUBSET Overlooked
    BY DEF DeployInv, DeployTypeOK
  <2>2. server' \in AnyPort /\ orphans' \in SUBSET Port /\ NoPort \in {starting', server'}
    BY <1>1, <2>1, Ports
  <2>3. pending' \in BOOLEAN
    BY <1>2 DEF DeployInv, DeployTypeOK
  <2>4. slips' \in SUBSET Overlooked
    BY <1>1, <2>1
  <2>. QED  BY <1>1, <2>2, <2>3, <2>4 DEF DeployInv, DeployTypeOK, Cmd
<1>4. Running' \subseteq Running
  BY <1>1 DEF Running, Listening
<1>5. Keeps
  <2>1. InSight'
    <3>1. CASE Running' = {}
      <4>1. adrift' = {}
        <5>1. adrift' \subseteq Port /\ NoPort \notin Port
          BY <1>1 DEF DeployInv, DeployTypeOK, Port, NoPort
        <5>. QED  BY <3>1, <5>1 DEF Running
      <4>. QED  BY <3>1, <4>1 DEF InSight
    <3>2. CASE Running' # {}
      BY <1>1, <1>4, <3>2 DEF DeployInv, InSight
    <3>. QED  BY <3>1, <3>2
  <2>2. stopped' /\ task' # "enabled" /\ slips' = {} => Running' = {}
    <3>1. Running' # {} => slips' = slips
      BY <1>1
    <3>. QED  BY <1>1, <1>4, <3>1 DEF DeployInv, StopInForce
  <2>. QED  BY <1>1, <2>1, <2>2 DEF Keeps, DeployInv, RouteFollows
<1>6. CASE FailStep
  BY <1>1, <1>3, <1>5, <1>6, FailInv
<1>7. CASE Proceed
  <2>1. cmd' = [cmd EXCEPT !.todo = Tail(@)]
    BY <1>7 DEF Proceed
  \* What is in sight listens on the saved port.
  <2>2. slips' = {} /\ (slips = {} => starting = NoPort) => Running' = {}
    <3>1. SUFFICES ASSUME slips' = {}, slips = {} => starting = NoPort, Running' # {} PROVE FALSE
      OBVIOUS
    <3>2. slips = {} /\ starting = NoPort
      BY <1>1, <3>1
    <3>3. Running \subseteq {env.web} /\ adrift = {}
      BY <3>2 DEF DeployInv, InSight
    <3>4. server \in {env.web, NoPort} /\ orphans \ {NoPort} \subseteq {env.web}
      BY <3>3 DEF Running, Listening
    <3>. QED  BY <1>1, <3>1, <3>2, <3>3, <3>4 DEF Running, Listening
  <2>3. server' \in {server, NoPort} /\ (slips \subseteq slips' \/ Running' = {})
    BY <1>1
  <2>4. Effects("waitStop")
    BY <1>1, <2>2, <2>3 DEF Effects
  <2>. QED  BY <1>1, <1>3, <1>5, <2>1, <2>4, ProceedInv
<1>. QED  BY <1>1, <1>6, <1>7

\* A set of ports that is not empty has a lowest port.
LEMMA LowestIn ==
    ASSUME NEW s, s \subseteq Nat, s # {}
    PROVE  Lowest(s) \in s
<1>1. \E x \in s : \A y \in s : ~(<<y, x>> \in OpToRel(<, Nat))
  BY NatLessThanWellFounded, WFMin
<1>2. PICK x \in s : \A y \in s : ~(y < x)
  BY <1>1 DEF OpToRel
<1>3. \A y \in s : x <= y
  BY <1>2
<1>. QED  BY <1>2, <1>3 DEF Lowest

LEMMA SelectInv ==
    ASSUME DeployInv, SelectPort
    PROVE  DeployInv'
<1> DEFINE port == IF env.web \in Free THEN env.web ELSE Lowest(Free)
<1>1. /\ cmd.todo # <<>> /\ Head(cmd.todo) = "select" /\ Free # {}
      /\ cmd' = [cmd EXCEPT !.todo = Tail(@)]
      /\ env' = [env EXCEPT !.web = port, !.prev = IF port # env.web THEN env.web ELSE @]
      /\ moves' = (IF port # env.web /\ moves < 2 THEN moves + 1 ELSE moves)
      /\ slips' = slips \cup (IF port # env.web /\ env.web \in Running THEN {"moved"} ELSE {})
      /\ UNCHANGED <<portFile, task, starting, server, orphans, adrift, pending, route, online, busy,
                     stopped>>
  BY DEF SelectPort, SaveWebPort, At, Proceed, machine, processes, outside
<1>2. port \in Port /\ port \notin orphans
  <2>1. Free \subseteq Nat
    BY DEF Free, Port
  <2>2. port \in Free
    BY <1>1, <2>1, LowestIn
  <2> HIDE DEF port
  <2>. QED  BY <2>2 DEF Free, Listening
<1> HIDE DEF port
<1>3. /\ env'.web = port /\ env'.prev = (IF port # env.web THEN env.web ELSE env.prev)
      /\ env' \in [web : Port, prev : AnyPort, trusted : BOOLEAN, address : BOOLEAN,
                   backups : BOOLEAN]
  BY <1>1, <1>2, Ports DEF DeployInv, DeployTypeOK
<1>4. moves \in 0..2 /\ moves' \in 0..2
  BY <1>1 DEF DeployInv, DeployTypeOK
<1>5. cmd' \in Cmd => DeployTypeOK'
  <2>1. slips' \in SUBSET Overlooked
    BY <1>1 DEF DeployInv, DeployTypeOK, Overlooked
  <2>. QED  BY <1>1, <1>3, <1>4, <2>1 DEF DeployInv, DeployTypeOK, Cmd
<1>6. Running' = Running
  BY <1>1 DEF Running, Listening
<1>7. Keeps
  <2>1. /\ moves' = 0 => route' \in {env'.web, NoPort}
        /\ moves' = 1 => route' \in {env'.web, env'.prev, NoPort}
    <3>1. /\ moves = 0 => route \in {env.web, NoPort}
          /\ moves = 1 => route \in {env.web, env.prev, NoPort}
      BY DEF DeployInv, RouteFollows
    <3>2. CASE port = env.web
      BY <1>1, <1>3, <3>1, <3>2
    <3>3. CASE port # env.web
      <4>1. moves' # 0 /\ (moves' = 1 => moves = 0)
        BY <1>1, <1>4, <3>3
      <4>. QED  BY <1>1, <1>3, <3>1, <3>3, <4>1
    <3>. QED  BY <3>2, <3>3
  <2>2. slips' = {} => slips = {}
    BY <1>1
  <2>3. "unseen" \notin slips' => adrift' = {}
    BY <1>1 DEF DeployInv, InSight
  <2>4. slips' = {} => Running' \subseteq {env'.web}
    <3>1. slips' = {} => Running \subseteq {env.web} /\ (port = env.web \/ env.web \notin Running)
      BY <1>1, <2>2 DEF DeployInv, InSight
    <3>. QED  BY <1>3, <1>6, <3>1
  <2>5. stopped' /\ task' # "enabled" /\ slips' = {} => Running' = {}
    BY <1>1, <1>6, <2>2 DEF DeployInv, StopInForce
  <2>. QED  BY <2>1, <2>3, <2>4, <2>5 DEF Keeps, InSight
<1>8. Effects("select")
  BY <1>1, <1>2, <1>3 DEF Effects
<1>. QED  BY <1>1, <1>5, <1>7, <1>8, ProceedInv

LEMMA RunInv ==
    ASSUME DeployInv, Run
    PROVE  DeployInv'
<1>1. /\ cmd.todo # <<>> /\ Head(cmd.todo) = "run"
      /\ cmd' = [cmd EXCEPT !.todo = Tail(@), !.ran = TRUE]
      /\ UNCHANGED <<env, portFile, task, server, orphans, adrift, route, online, busy, stopped,
                     slips, moves>>
  BY DEF Run, At, outside, history
<1>2. /\ starting' \in {starting, env.web} /\ pending' \in BOOLEAN
      /\ starting' = starting \/ {starting, server} = {NoPort}
  BY DEF Run, Launch, DeployInv, DeployTypeOK
<1>3. cmd' \in Cmd => DeployTypeOK'
  <2>1. starting' \in AnyPort /\ NoPort \in {starting', server'}
    BY <1>1, <1>2, Ports DEF DeployInv, DeployTypeOK
  <2>. QED  BY <1>1, <1>2, <2>1 DEF DeployInv, DeployTypeOK, Cmd
<1>4. Keeps
  <2>1. Running' \subseteq Running \cup {env.web}
    BY <1>1, <1>2 DEF Running, Listening
  <2>2. InSight'
    BY <1>1, <2>1 DEF DeployInv, InSight
  <2>3. ~stopped
    <3>1. Stopping => Head(cmd.todo) \in {"routeOff", "disable", "end", "waitStop"}
      BY <1>1, Kinds, StopAt DEF StopTable
    <3>. QED  BY <1>1, <3>1, Kinds
  <2>. QED  BY <1>1, <2>2, <2>3 DEF Keeps, DeployInv, RouteFollows
<1>5. Effects("run")
  BY <1>1, <1>2 DEF Effects
<1>. QED  BY <1>1, <1>3, <1>4, <1>5, ProceedInv

LEMMA ServeInv ==
    ASSUME DeployInv, Serve
    PROVE  DeployInv'
<1>1. /\ cmd.todo # <<>> /\ Head(cmd.todo) = "serve"
      /\ UNCHANGED <<env, portFile, task, starting, server, orphans, adrift, pending, online, busy,
                     stopped, slips>>
  BY DEF Serve, At, machine, processes, outside
<1>2. CASE Unavailable /\ UNCHANGED <<route, moves>>
  BY <1>1, <1>2, UnavailableInv DEF Still
<1>3. CASE FailStep /\ UNCHANGED <<route, moves>>
  <2>1. Still
    BY <1>1, <1>3 DEF Still
  <2>. QED  BY <1>1, <1>3, <2>1, StillType, FailInv
<1>4. CASE route' = env.web /\ moves' = 0 /\ (Proceed \/ FailStep)
  <2>1. cmd' \in Cmd => DeployTypeOK'
    BY <1>1, <1>4, Ports DEF DeployInv, DeployTypeOK, Cmd
  <2>2. Keeps
    <3>1. Running' = Running
      BY <1>1 DEF Running, Listening
    <3>2. InSight' /\ (stopped' /\ task' # "enabled" /\ slips' = {} => Running' = {})
      BY <1>1, <3>1 DEF DeployInv, InSight, StopInForce
    <3>. QED  BY <1>1, <1>4, <3>2 DEF Keeps
  <2>3. CASE FailStep
    BY <1>1, <2>1, <2>2, <2>3, FailInv
  <2>4. CASE Proceed
    <3>1. cmd' = [cmd EXCEPT !.todo = Tail(@)]
      BY <2>4 DEF Proceed
    <3>2. Effects("serve")
      BY <1>1, <1>4 DEF Effects
    <3>. QED  BY <1>1, <2>1, <2>2, <3>1, <3>2, ProceedInv
  <2>. QED  BY <1>4, <2>3, <2>4
<1>. QED  BY <1>2, <1>3, <1>4 DEF Serve

\* The previous port is forgotten, the address saved.
LEMMA SavedInv ==
    ASSUME DeployInv, ForgetPreviousPort \/ SaveAddress
    PROVE  DeployInv'
<1>1. /\ cmd.todo # <<>> /\ Head(cmd.todo) \in {"forget", "address"} /\ (Proceed \/ FailStep)
      /\ UNCHANGED <<portFile, task, starting, server, orphans, adrift, pending, route, online, busy,
                     stopped, slips, moves>>
  BY DEF ForgetPreviousPort, SaveAddress, At, machine, processes, outside, history
<1>2. /\ Head(cmd.todo) = "forget" => env' = [env EXCEPT !.prev = NoPort]
      /\ Head(cmd.todo) = "address" => env' = [env EXCEPT !.address = TRUE]
  BY DEF ForgetPreviousPort, SaveAddress, At
<1>3. /\ env'.web = env.web /\ (Head(cmd.todo) # "forget" => env'.prev = env.prev)
      /\ env' \in [web : Port, prev : AnyPort, trusted : BOOLEAN, address : BOOLEAN,
                   backups : BOOLEAN]
  BY <1>1, <1>2, Ports DEF DeployInv, DeployTypeOK
<1>4. cmd' \in Cmd => DeployTypeOK'
  BY <1>1, <1>3 DEF DeployInv, DeployTypeOK, Cmd
<1>5. Head(cmd.todo) = "forget" => moves = 0
  BY <1>1 DEF DeployInv, RouteFollows, At
<1>6. Keeps
  <2>1. Running' = Running
    BY <1>1 DEF Running, Listening
  <2>2. InSight' /\ (stopped' /\ task' # "enabled" /\ slips' = {} => Running' = {})
    BY <1>1, <1>3, <2>1 DEF DeployInv, InSight, StopInForce
  <2>. QED  BY <1>1, <1>3, <1>5, <2>2 DEF Keeps, DeployInv, RouteFollows
<1>7. CASE FailStep
  BY <1>1, <1>4, <1>6, <1>7, FailInv
<1>8. CASE Proceed
  <2>1. cmd' = [cmd EXCEPT !.todo = Tail(@)] /\ Head(cmd.todo) # "existing"
    BY <1>1, <1>8 DEF Proceed
  <2>2. Effects(Head(cmd.todo))
    <3> DEFINE h == Head(cmd.todo)
    <3>1. h \in {"forget", "address"} /\ env'.web = env.web
      BY <1>1, <1>3
    <3> HIDE DEF h
    <3>2. Effects(h)
      BY <1>1, <3>1 DEF Effects
    <3>. QED  BY <3>2 DEF h
  <2>. QED  BY <1>1, <1>4, <1>6, <2>1, <2>2, ProceedInv
<1>. QED  BY <1>1, <1>7, <1>8

-----------------------------------------------------------------------------
(* The deployment's theorems.                                              *)

LEMMA StillFails == ASSUME DeployInv, cmd.todo # <<>>, FailStep, Still PROVE DeployInv'
  BY StillType, FailInv DEF Still

LEMMA StepInv ==
    ASSUME DeployInv, Step
    PROVE  DeployInv'
<1> USE DEF machine, processes, outside, history
<1>1. CASE StepFails
  <2>1. cmd.todo # <<>> /\ FailStep /\ Still
    BY <1>1 DEF StepFails, Still
  <2>. QED  BY <2>1, StillFails
<1>2. CASE Preflight
  <2>1. cmd.todo # <<>> /\ Head(cmd.todo) = "preflight" /\ (Proceed \/ FailStep) /\ Still
    BY <1>2 DEF Preflight, At, Still
  <2>. QED  BY <2>1, QuietInv, StillFails
<1>3. CASE Query
  <2>1. cmd.todo # <<>> /\ Head(cmd.todo) = "query" /\ (Proceed \/ FailStep) /\ Still
    BY <1>3 DEF Query, At, Still
  <2>. QED  BY <2>1, QuietInv, StillFails
<1>4. CASE InstallRuntime
  <2>1. cmd.todo # <<>> /\ Head(cmd.todo) = "install" /\ Proceed /\ Still
    BY <1>4 DEF InstallRuntime, At, Still
  <2>. QED  BY <2>1, QuietInv
<1>5. CASE WaitForHealth
  <2>1. /\ cmd.todo # <<>> /\ Head(cmd.todo) = "health" /\ Proceed /\ Still
        /\ env.web \in Listening
    BY <1>5 DEF WaitForHealth, At, Still
  <2>. QED  BY <2>1, QuietInv
<1>6. CASE Identity
  <2>1. cmd.todo # <<>> /\ Head(cmd.todo) = "identity" /\ (Proceed \/ Unavailable) /\ Still
    BY <1>6 DEF Identity, At, Still
  <2>. QED  BY <2>1, QuietInv, UnavailableInv
<1>7. CASE Verify
  <2>1. /\ cmd.todo # <<>> /\ Head(cmd.todo) = "verify" /\ Still
        /\ Proceed \/ Unavailable \/ FailStep
    BY <1>7 DEF Verify, At, Still
  <2>. QED  BY <2>1, QuietInv, UnavailableInv, StillFails
<1>8. CASE Prepare \/ WritePortFile
  BY <1>8, PortFileInv
<1>9. CASE Disable \/ CreateTask \/ Enable
  BY <1>9, TaskInv
<1>10. CASE ForgetPreviousPort \/ SaveAddress
  BY <1>10, SavedInv
<1>11. CASE ExistingTask \/ RouteOff \/ End \/ WaitStop \/ SelectPort \/ Run
            \/ Trust \/ Serve \/ Finish
  BY <1>11, ExistingInv, RouteOffInv, EndInv, WaitStopInv, SelectInv, RunInv, TrustInv, ServeInv,
     FinishInv
<1>. QED  BY <1>1, <1>2, <1>3, <1>4, <1>5, <1>6, <1>7, <1>8, <1>9, <1>10, <1>11 DEF Step

LEMMA DeployNextInv ==
    ASSUME DeployInv, [DeployNext]_deployVars
    PROVE  DeployInv'
<1> USE DEF machine, processes, outside, history
<1>1. ASSUME NEW name \in {"setup", "start", "stop", "update"}, Begin(name) PROVE DeployInv'
  BY <1>1, BeginInv
<1>2. CASE Step
  BY <1>2, StepInv
<1>3. CASE Reboot
  BY <1>3, RebootInv
<1>4. CASE ServerFails \/ FailureRestart \/ Bind
  <2>1. /\ UNCHANGED <<env, portFile, task, orphans, adrift, route, online, busy, cmd, stopped, slips,
                       moves>>
        /\ pending' \in BOOLEAN
        /\ \/ starting' = NoPort /\ server' \in {starting, NoPort}
           \/ starting' = env.web /\ server' = server /\ server = NoPort /\ task = "enabled"
    BY <1>4 DEF ServerFails, FailureRestart, Launch, Bind, DeployInv, DeployTypeOK
  <2>2. DeployTypeOK'
    <3>1. starting' \in AnyPort /\ server' \in AnyPort /\ NoPort \in {starting', server'}
      BY <2>1, Ports DEF DeployInv, DeployTypeOK
    <3>. QED  BY <2>1, <3>1 DEF DeployInv, DeployTypeOK
  <2>3. {starting', server'} \subseteq {starting, server, env.web, NoPort}
    BY <2>1
  <2>4. task = "enabled" \/ (starting' \in {starting, NoPort} /\ Running' \subseteq Running)
    BY <2>1 DEF Running, Listening
  <2>. QED  BY <2>1, <2>2, <2>3, <2>4, MachineInv
<1>5. CASE OthersTakePorts \/ TailnetChanges
  <2>1. /\ UNCHANGED <<env, portFile, task, starting, server, orphans, adrift, pending, route, cmd,
                       stopped, slips, moves>>
        /\ busy' \in SUBSET Port /\ online' \in BOOLEAN
    BY <1>5, PortsAssumption DEF OthersTakePorts, TailnetChanges, DeployInv, DeployTypeOK
  <2>2. DeployTypeOK'
    BY <2>1 DEF DeployInv, DeployTypeOK
  <2>3. Running' = Running
    BY <2>1 DEF Running, Listening
  <2>. QED  BY <2>1, <2>2, <2>3, MachineInv
<1>6. ASSUME NEW ok \in BOOLEAN, SaveBackupSettings(ok) PROVE DeployInv'
  <2>1. /\ env' = [env EXCEPT !.backups = ok]
        /\ UNCHANGED <<portFile, task, starting, server, orphans, adrift, pending, route, online, busy,
                       cmd, stopped, slips, moves>>
    BY <1>6 DEF SaveBackupSettings
  <2>2. DeployTypeOK' /\ env'.web = env.web /\ env'.prev = env.prev
    BY <2>1 DEF DeployInv, DeployTypeOK
  <2>3. Running' = Running
    BY <2>1 DEF Running, Listening
  <2>. QED  BY <2>1, <2>2, <2>3, MachineInv
<1>7. CASE UNCHANGED deployVars
  <2>1. UNCHANGED <<env, portFile, task, starting, server, orphans, adrift, pending, route, online,
                    busy, cmd, stopped, slips, moves>>
    BY <1>7 DEF deployVars
  <2>2. DeployTypeOK'
    BY <2>1 DEF DeployInv, DeployTypeOK
  <2>3. Running' = Running
    BY <2>1 DEF Running, Listening
  <2>. QED  BY <2>1, <2>2, <2>3, MachineInv
<1>8. ASSUME NEW p \in Port, AdriftBinds(p) \/ OrphanFails(p) PROVE DeployInv'
  <2>1. /\ UNCHANGED <<env, portFile, task, starting, server, pending, route, online, busy, cmd,
                       stopped, slips, moves>>
        /\ orphans' \cup adrift' \subseteq orphans \cup adrift /\ adrift' \subseteq adrift
    BY <1>8 DEF AdriftBinds, OrphanFails
  <2>2. DeployTypeOK'
    BY <2>1 DEF DeployInv, DeployTypeOK
  <2>3. Running' \subseteq Running
    BY <2>1 DEF Running, Listening
  <2>. QED  BY <2>1, <2>2, <2>3, MachineInv
<1>. QED  BY <1>1, <1>2, <1>3, <1>4, <1>5, <1>6, <1>7, <1>8 DEF DeployNext

LEMMA DeployInitInv == ASSUME DeployInit PROVE DeployInv
<1>1. DeployTypeOK
  <2>1. 1 \in Port /\ NoPort \in AnyPort
    BY PortsAssumption DEF Port, AnyPort
  <2>2. env \in [web : Port, prev : AnyPort, trusted : BOOLEAN, address : BOOLEAN,
                 backups : BOOLEAN]
    BY <2>1 DEF DeployInit
  <2>3. cmd \in Cmd
    BY NoCmdIs DEF DeployInit
  <2>4. pending \in BOOLEAN /\ online \in BOOLEAN /\ stopped \in BOOLEAN
    BY DEF DeployInit
  <2>5. /\ task \in Task /\ route \in AnyPort
        /\ starting \in AnyPort /\ server \in AnyPort /\ NoPort \in {starting, server}
        /\ orphans \in SUBSET Port /\ adrift \in SUBSET Port /\ slips \in SUBSET Overlooked
        /\ portFile \in Port /\ busy \in SUBSET Port /\ moves \in 0..2
    BY <2>1 DEF DeployInit, Task
  <2>. QED  BY <2>2, <2>3, <2>4, <2>5 DEF DeployTypeOK, Cmd
<1>2. cmd = NoCmd /\ cmd.name = "none" /\ cmd.mode = "main" /\ cmd.todo = <<>>
  BY NoCmdIs DEF DeployInit
<1>3. OnTrack
  BY <1>2, EmptyIsEnd DEF OnTrack
<1>4. StopInForce /\ StartInForce /\ InSight
  BY <1>2 DEF StopInForce, StartInForce, InSight, Stopping, Running, Listening, DeployInit
<1>5. RouteFollows
  BY <1>2 DEF RouteFollows, DeployInit, At
<1>. QED  BY <1>1, <1>3, <1>4, <1>5 DEF DeployInv

LEMMA DeployInductive == DeploySpec => []DeployInv
<1>1. DeployInit => DeployInv
  BY DeployInitInv
<1>2. DeployInv /\ [DeployNext]_deployVars => DeployInv'
  BY DeployNextInv
<1>. QED  BY <1>1, <1>2, PTL DEF DeploySpec

\* A Master that the stop command, or a setup that failed after it ran the
\* task, has stopped is not brought back by a boot, by RestartOnFailure, by a
\* process that was starting or by one that outlived its task, whatever the
\* ports are, when the task is disabled and no process was overlooked.
THEOREM StoppedStaysHolds == DeploySpec => []StoppedStays
<1>1. DeployInv => StoppedStays
  BY DEF DeployInv, StopInForce, StoppedStays
<1>. QED  BY <1>1, DeployInductive, PTL

\* A start, setup or update that ends without an error leaves the task
\* enabled, the public port file equal to .env and, unless a process survived
\* /End before it listened, the task's process on that port or on none, however
\* steps, restarts and other applications interleave.
THEOREM SuccessServesHolds == DeploySpec => []SuccessServes
<1>1. DeployInv => SuccessServes
  <2> SUFFICES ASSUME DeployInv, cmd.todo = <<>>, cmd.mode = "main",
                      cmd.name \in {"start", "setup", "update"}
               PROVE  /\ task = "enabled" /\ portFile = env.web
                      /\ "unseen" \notin slips => {starting, server} \subseteq {env.web, NoPort}
    BY DEF SuccessServes
  <2>1. cmd.todo \in Forward /\ ~At("portFile")
    BY EmptyIsEnd DEF At
  <2>2. Left <= 8 /\ Left <= 10 /\ Left <= 6
    BY DEF Left
  <2>. QED  BY <2>1, <2>2 DEF DeployInv, StartInForce
<1>. QED  BY <1>1, DeployInductive, PTL

\* As long as the port has changed at most once since Serve was set, the route
\* leads to the saved or to the previous port, which is what _disable_own_serve
\* and _ensure_private_serve take for Master's own.
THEOREM RouteKnownHolds == DeploySpec => []RouteKnown
<1>1. DeployInv => RouteKnown
  <2> SUFFICES ASSUME DeployInv, moves <= 1 PROVE route \in OwnTargets \cup {NoPort}
    BY DEF RouteKnown
  <2>1. moves = 0 \/ moves = 1
    BY DEF DeployInv, DeployTypeOK
  <2>2. route \in {env.web, env.prev, NoPort}
    BY <2>1 DEF DeployInv, RouteFollows
  <2>. QED  BY <2>2 DEF OwnTargets
<1>. QED  BY <1>1, DeployInductive, PTL
=============================================================================
