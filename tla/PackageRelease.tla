--------------------------- MODULE PackageRelease ---------------------------
(***************************************************************************)
(* The release script cmake/package-release.cmake, run again and again,    *)
(* one run at a time.  Any command may fail, and a run may die between any *)
(* two commands that change its directories.  A directory is the set of    *)
(* its files, or NoDir.                                                    *)
(***************************************************************************)
EXTENDS FiniteSets, Naturals

CONSTANTS Versions, None, NoDir
ASSUME ConstantsAssumption == None \notin Versions

(* The files of a release.  The binaries have the same names in every      *)
(* version and a directory has one file of a name.  The two archives, and  *)
(* their two checksums, are named for their version.  A run makes both of  *)
(* a pair or ends: each pair is one file here, which is left behind if one *)
(* of the two is.  The directories they are made in come and go in staging *)
(* and are left out.                                                       *)
Binaries == {"bfc", "bfc.exe"}
Kinds == Binaries \cup {"archive", "checksum"}
Files == Kinds \X Versions
Directories ==
  {NoDir} \cup
  {d \in SUBSET Files : \A name \in Binaries : Cardinality(d \cap ({name} \X Versions)) <= 1}
ASSUME NoDirAssumption == \A d \in SUBSET Files : NoDir # d

VARIABLES
  pc,                     \* the next command, "idle" between runs
  version,                \* release_version of this run, None between runs
  dist, staging, backup,  \* dist/, dist.tmp/, dist.backup/
  had_previous_dist,
  report                  \* what the last run reported

dirs == <<dist, staging, backup>>
vars == <<pc, version, dist, staging, backup, had_previous_dist, report>>

Release(v) == Kinds \X {v}
Holds(d, v) == d # NoDir /\ Release(v) \subseteq d

Goto(label) == pc' = label /\ UNCHANGED <<version, report>>
Finish(result) == pc' = "idle" /\ version' = None /\ report' = result
FatalError == Finish("failure")

(* file(REMOVE_RECURSE ...) reports no error: anything may be left. *)
AfterRemoval(d) == IF d = NoDir THEN {NoDir} ELSE {NoDir} \cup SUBSET d

(* file(RENAME ...) fails when the target is a directory with files.       *)
CanRename(source, target) == source # NoDir /\ target \in {NoDir, {}}

(* Variant: a binary that is there already is left as it is. *)
PutUnlessThere(d, kind) ==
  IF kind \in Binaries /\ d \cap ({kind} \X Versions) # {} THEN d
  ELSE d \cup {<<kind, version>>}

(* A file of this version's replaces that of the same name. *)
Put(d, kind) ==
  {f \in d : f[1] = kind => kind \notin Binaries} \cup {<<kind, version>>}

-----------------------------------------------------------------------------
Init ==
  /\ pc = "idle" /\ version = None /\ report = "none"
  /\ dist = NoDir /\ staging = NoDir /\ backup = NoDir
  /\ had_previous_dist = FALSE

(* make release: the binaries of a version have been built and checked. *)
Begin(v) ==
  /\ pc = "idle"
  /\ pc' = "clean" /\ version' = v /\ report' = "none"
  /\ UNCHANGED <<dirs, had_previous_dist>>

CleanStaging ==
  /\ pc = "clean"
  /\ staging' \in AfterRemoval(staging)
  /\ Goto("recover")
  /\ UNCHANGED <<dist, backup, had_previous_dist>>

(* Variants: a backup is never put back; it is thrown away in any case. *)
RecoverNothing ==
  /\ pc = "recover"
  /\ Goto("stage")
  /\ UNCHANGED <<dirs, had_previous_dist>>
RecoverByRemoval ==
  /\ pc = "recover"
  /\ backup' \in AfterRemoval(backup)
  /\ Goto("stage")
  /\ UNCHANGED <<dist, staging, had_previous_dist>>

(* What an earlier run left in dist.backup: of no use beside a dist, and   *)
(* the release itself without one.                                         *)
Recover ==
  /\ pc = "recover"
  /\ \/ /\ backup # NoDir /\ dist # NoDir
        /\ backup' \in AfterRemoval(backup)
        /\ Goto("stage")
        /\ UNCHANGED dist
     \/ /\ backup # NoDir /\ dist = NoDir
        /\ \/ dist' = backup /\ backup' = NoDir /\ Goto("stage")
           \/ FatalError /\ UNCHANGED <<dist, backup>>
     \/ backup = NoDir /\ Goto("stage") /\ UNCHANGED <<dist, backup>>
  /\ UNCHANGED <<staging, had_previous_dist>>

(* file(MAKE_DIRECTORY ...), which may fail after dist.tmp has been made.  *)
MakeStaging ==
  /\ pc = "stage"
  /\ LET content == IF staging = NoDir THEN {} ELSE staging IN
     \/ staging' = content /\ Goto("copy_bfc")
     \/ staging' \in {staging, content} /\ FatalError
  /\ UNCHANGED <<dist, backup, had_previous_dist>>

(* The two binaries are copied one after the other, over what a removal    *)
(* may have left: in between they may be of two versions.                  *)
CopyLinuxBinary ==
  /\ pc = "copy_bfc"
  /\ \/ staging' = Put(staging, "bfc") /\ Goto("copy_bfc_exe")
     \/ staging' \in {staging, Put(staging, "bfc")} /\ FatalError
  /\ UNCHANGED <<dist, backup, had_previous_dist>>

(* With the copies that go into the archives, and CHMOD.                   *)
CopyWindowsBinary ==
  /\ pc = "copy_bfc_exe"
  /\ \/ staging' = Put(staging, "bfc.exe") /\ Goto("archive")
     \/ staging' \in {staging, Put(staging, "bfc.exe")} /\ FatalError
  /\ UNCHANGED <<dist, backup, had_previous_dist>>

(* Variant: the checksums are forgotten. *)
AfterArchiveForgetful == "backup"

AfterArchive == "checksum"

Archive ==
  /\ pc = "archive"
  /\ \/ staging' = Put(staging, "archive") /\ Goto(AfterArchive)
     \/ staging' \in {staging, Put(staging, "archive")} /\ FatalError
  /\ UNCHANGED <<dist, backup, had_previous_dist>>

Checksum ==
  /\ pc = "checksum"
  /\ \/ staging' = Put(staging, "checksum") /\ Goto("backup")
     \/ staging' \in {staging, Put(staging, "checksum")} /\ FatalError
  /\ UNCHANGED <<dist, backup, had_previous_dist>>

Backup ==
  /\ pc = "backup"
  /\ \/ /\ dist = NoDir
        /\ had_previous_dist' = FALSE
        /\ Goto("install")
        /\ UNCHANGED dirs
     \/ /\ CanRename(dist, backup)
        /\ backup' = dist /\ dist' = NoDir
        /\ had_previous_dist' = TRUE
        /\ Goto("install")
        /\ UNCHANGED staging
     \/ /\ dist # NoDir
        /\ had_previous_dist' = FALSE
        /\ FatalError
        /\ UNCHANGED dirs

(* Variant: the backup is dropped before the new release is in place. *)
InstallAfterDiscard ==
  /\ pc = "install"
  /\ backup' = NoDir
  /\ \/ dist' = staging /\ staging' = NoDir /\ Goto("discard")
     \/ FatalError /\ UNCHANGED <<dist, staging>>
  /\ UNCHANGED had_previous_dist

(* The commit point; without it the previous release is put back. *)
Install ==
  /\ pc = "install"
  /\ \/ /\ CanRename(staging, dist)
        /\ dist' = staging /\ staging' = NoDir
        /\ Goto("discard")
     \/ had_previous_dist /\ Goto("restore") /\ UNCHANGED <<dist, staging>>
     \/ ~had_previous_dist /\ FatalError /\ UNCHANGED <<dist, staging>>
  /\ UNCHANGED <<backup, had_previous_dist>>

(* Either way the run ends with FATAL_ERROR. *)
Restore ==
  /\ pc = "restore"
  /\ \/ dist' = backup /\ backup' = NoDir
     \/ UNCHANGED <<dist, backup>>
  /\ FatalError
  /\ UNCHANGED <<staging, had_previous_dist>>

Discard ==
  /\ pc = "discard"
  /\ backup' \in IF had_previous_dist THEN AfterRemoval(backup) ELSE {backup}
  /\ Goto("done")
  /\ UNCHANGED <<dist, staging, had_previous_dist>>

(* message(STATUS "Release artifacts written to ...") *)
Done ==
  /\ pc = "done"
  /\ Finish("success")
  /\ UNCHANGED <<dirs, had_previous_dist>>

(* The process dies, which a removal may do halfway. *)
Crash ==
  /\ pc # "idle"
  /\ pc' = "idle" /\ version' = None
  /\ UNCHANGED <<dirs, had_previous_dist, report>>

Step ==
  \/ CleanStaging \/ Recover
  \/ MakeStaging \/ CopyLinuxBinary \/ CopyWindowsBinary \/ Archive \/ Checksum
  \/ Backup \/ Install \/ Restore \/ Discard \/ Done

Next == (\E v \in Versions : Begin(v)) \/ Step \/ Crash

Spec == Init /\ [][Next]_vars

-----------------------------------------------------------------------------
(* From the recovery of what an earlier run has left to the first rename.  *)
Building == {"stage", "copy_bfc", "copy_bfc_exe", "archive", "checksum", "backup"}

Labels == {"idle", "clean", "recover", "install", "restore", "discard", "done"} \cup Building

(* A release has one version's binaries.                                   *)
OneVersion(d) == \A f, g \in Binaries \X Versions : {f, g} \subseteq d => f[2] = g[2]

(* Types; dist/ and dist.backup/ never have binaries of two releases, so   *)
(* that these tell which release it is.  (dist.tmp/ may: a run that dies   *)
(* between the copies leaves its own bfc beside the bfc.exe of a leftover.)*)
TypeOK ==
  /\ pc \in Labels
  /\ version \in Versions \cup {None}
  /\ dist \in Directories /\ staging \in Directories /\ backup \in Directories
  /\ \A d \in {dist, backup} \ {NoDir} : OneVersion(d)
  /\ had_previous_dist \in BOOLEAN
  /\ report \in {"none", "success", "failure"}
  /\ pc = "idle" <=> version = None

(* dist/, whenever it exists, holds all files of one release: no crash and *)
(* no failure, not even a removal that goes wrong unnoticed, exposes half  *)
(* of one.                                                                 *)
DistIsWhole == dist # NoDir => \E v \in Versions : Holds(dist, v)

VersionOf(d) == CHOOSE v \in Versions : <<"bfc", v>> \in d

visible ==
  IF dist # NoDir THEN VersionOf(dist)
  ELSE IF backup # NoDir THEN VersionOf(backup)
  ELSE None

(* dist/ may be missing between the two renames, and after a run that died *)
(* there; from its recovery to its backup, and from its installation on,   *)
(* every run keeps it in place.                                            *)
MissingOnlyBetweenRenames ==
  visible # None /\ pc \in Building \cup {"discard", "done"} => Holds(dist, visible)

(* While dist/ is missing, the last release is complete in dist.backup/.   *)
BackupIsWhole ==
  dist = NoDir /\ backup # NoDir => \E v \in Versions : Holds(backup, v)

(* Success leaves the files of one release in dist/ and nothing else: "The *)
(* command replaces dist/ with" them (README.md:215).                      *)
DistHoldsOneRelease ==
  pc = "idle" /\ report = "success" => \E v \in Versions : dist = Release(v)

R == INSTANCE AtomicRelease WITH
       building <- version,
       committed <- pc \in {"discard", "done"}

(* The script replaces the release atomically, up to recovery by its next  *)
(* run, never loses one, and what it reports is true.                      *)
ReplacesAtomically == R!Spec
=============================================================================
