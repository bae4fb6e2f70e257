------------------------- MODULE PackageReleaseProofs -------------------------
(***************************************************************************)
(* The safety of the release script, and that it replaces the release      *)
(* atomically, for any set of versions and any number of runs, failures    *)
(* and deaths.                                                             *)
(***************************************************************************)
EXTENDS PackageRelease, FiniteSetTheorems, TLAPS

-----------------------------------------------------------------------------
(* Directories and the files in them. *)

OneOfEachName(d) ==
  \A name \in Binaries : \A v, w \in Versions :
    <<name, v>> \in d /\ <<name, w>> \in d => v = w

Directory(d) == d = NoDir \/ (d \subseteq Files /\ OneOfEachName(d))

Whole(d) == d # NoDir /\ \E v \in Versions : Holds(d, v)

LEMMA DirectoryType ==
  ASSUME NEW d, Directory(d)
  PROVE  d \in Directories
<1> SUFFICES ASSUME d # NoDir, NEW name \in Binaries
             PROVE  Cardinality(d \cap ({name} \X Versions)) <= 1
  BY DEF Directory, Directories
<1> DEFINE b == d \cap ({name} \X Versions)
<1>1. CASE b = {}
  BY <1>1, FS_EmptySet
<1>2. CASE b # {}
  <2>1. PICK v \in Versions : <<name, v>> \in b
    BY <1>2
  <2>2. b = {<<name, v>>}
    BY <2>1 DEF Directory, OneOfEachName
  <2>3. Cardinality(b) = 1
    BY <2>2, FS_Singleton
  <2> QED
    BY <2>3
<1> QED
  BY <1>1, <1>2

LEMMA EmptyDirectory == {} # NoDir /\ Directory({})
BY NoDirAssumption DEF Directory, OneOfEachName

(* What a copy of a file into a directory is.                                *)
PutIs(d, kind) ==
  /\ Put(d, kind) # NoDir /\ Directory(Put(d, kind))
  /\ <<kind, version>> \in Put(d, kind)
  /\ \A other \in Kinds :
       other # kind /\ <<other, version>> \in d => <<other, version>> \in Put(d, kind)

(* A file that is copied into a directory replaces that of its name. *)
LEMMA PutDirectory ==
  ASSUME version \in Versions, NEW d, Directory(d), d # NoDir, NEW kind \in Kinds
  PROVE  PutIs(d, kind)
<1>1. d \subseteq Files /\ OneOfEachName(d)
  BY DEF Directory
<1>2. Put(d, kind) \subseteq Files
  BY <1>1 DEF Put, Files
<1>3. Put(d, kind) # NoDir
  BY <1>2, NoDirAssumption
<1>4. ASSUME NEW name \in Binaries, NEW v \in Versions, NEW w \in Versions,
             <<name, v>> \in Put(d, kind), <<name, w>> \in Put(d, kind)
      PROVE  v = w
  <2>1. CASE kind = name
    BY <1>4, <2>1 DEF Put
  <2>2. CASE kind # name
    BY <1>1, <1>4, <2>2 DEF Put, OneOfEachName
  <2> QED
    BY <2>1, <2>2
<1>5. OneOfEachName(Put(d, kind))
  BY <1>4 DEF OneOfEachName
<1> QED
  BY <1>2, <1>3, <1>5 DEF Put, PutIs, Directory

(* A removal leaves no file that was not there. *)
LEMMA RemovalDirectory ==
  ASSUME NEW d, Directory(d), NEW e \in AfterRemoval(d)
  PROVE  Directory(e)
BY DEF Directory, AfterRemoval, OneOfEachName

LEMMA RemovalVersion ==
  ASSUME NEW d, d # NoDir => OneVersion(d), NEW e \in AfterRemoval(d), e # NoDir
  PROVE  OneVersion(e)
BY DEF AfterRemoval, OneVersion

(* The binaries tell the version of a complete release. *)
LEMMA VersionOfWhole ==
  ASSUME NEW d, Directory(d), NEW v \in Versions, Holds(d, v)
  PROVE  VersionOf(d) = v
<1>1. <<"bfc", v>> \in d /\ OneOfEachName(d)
  BY DEF Holds, Release, Kinds, Binaries, Directory
<1>2. \A w \in Versions : <<"bfc", w>> \in d => w = v
  BY <1>1 DEF OneOfEachName, Binaries
<1> QED
  BY <1>1, <1>2 DEF VersionOf

(* A directory that holds a release has no binary of another one.          *)
LEMMA HoldsOneVersion ==
  ASSUME NEW d, Directory(d), NEW v \in Versions, Holds(d, v)
  PROVE  OneVersion(d)
<1>1. ASSUME NEW name \in Binaries, NEW w \in Versions, <<name, w>> \in d
      PROVE  w = v
  BY <1>1 DEF Holds, Release, Kinds, Directory, OneOfEachName
<1> QED
  BY <1>1 DEF OneVersion
-----------------------------------------------------------------------------
(* The invariant: where a run is says which of the three directories may   *)
(* be missing, and which holds what.                                       *)

Typed ==
  /\ pc \in Labels
  /\ version \in Versions \cup {None}
  /\ Directory(dist) /\ Directory(staging) /\ Directory(backup)
  /\ had_previous_dist \in BOOLEAN
  /\ report \in {"none", "success", "failure"}
  /\ pc = "idle" <=> version = None

Staged ==
  /\ pc \in (Building \ {"stage"}) \cup {"install"} => staging # NoDir
  /\ pc \in (Building \ {"stage", "copy_bfc"}) \cup {"install"} => <<"bfc", version>> \in staging
  /\ pc \in {"archive", "checksum", "backup", "install"} => <<"bfc.exe", version>> \in staging
  /\ pc \in {"checksum", "backup", "install"} => <<"archive", version>> \in staging
  /\ pc \in {"backup", "install"} => <<"checksum", version>> \in staging

Kept ==
  /\ dist # NoDir => Whole(dist)
  /\ dist = NoDir /\ backup # NoDir => Whole(backup)
  /\ dist # NoDir => OneVersion(dist)
  /\ backup # NoDir => OneVersion(backup)
  /\ pc \in Building /\ dist = NoDir => backup = NoDir
  /\ pc \in {"install", "restore"} => dist = NoDir
  /\ pc = "install" /\ backup # NoDir => had_previous_dist
  /\ pc \in {"install", "restore"} /\ had_previous_dist => Whole(backup)
  /\ pc = "restore" => had_previous_dist
  /\ pc \in {"discard", "done"} => Holds(dist, version)

Inv == Typed /\ Staged /\ Kept

LEMMA InvInitially == Init => Inv
BY DEF Init, Inv, Typed, Labels, Building, Staged, Kept, Directory

LEMMA InvStep == Inv /\ [Next]_vars => Inv'
<1> SUFFICES ASSUME Inv, [Next]_vars PROVE Inv'
  OBVIOUS
<1> USE DEF Goto, FatalError, Finish, dirs
<1>0. pc # "idle" => version \in Versions
  BY DEF Inv, Typed
<1>1. CASE UNCHANGED vars
  BY <1>1 DEF vars, Inv, Typed, Staged, Kept, Whole, Holds, OneVersion
<1>2. ASSUME NEW v \in Versions, Begin(v)
      PROVE  Inv'
  BY <1>2, ConstantsAssumption DEF Begin, Inv, Typed, Labels, Building, Staged, Kept, Whole, Holds, OneVersion
<1>3. CASE CleanStaging
  <2>1. Directory(staging')
    BY <1>3, RemovalDirectory DEF CleanStaging, Inv, Typed
  <2> QED
    BY <1>3, <2>1 DEF CleanStaging, Inv, Typed, Labels, Building, Staged, Kept, Whole, Holds, OneVersion
<1>4. CASE Recover
  <2>1. backup' \in AfterRemoval(backup) \/ backup' = backup \/ backup' = NoDir
    BY <1>4 DEF Recover
  <2>2. Directory(backup')
    BY <2>1, RemovalDirectory DEF Inv, Typed, Directory
  <2>3. Typed'
    BY <1>4, <2>2, ConstantsAssumption DEF Recover, Inv, Typed, Labels, Building
  <2>4. Staged'
    BY <1>4 DEF Recover, Building, Staged
  <2>5. backup' # NoDir => OneVersion(backup')
    BY <2>1, RemovalVersion DEF Inv, Kept
  <2>6. Kept'
    BY <1>4, <2>5 DEF Recover, Building, Inv, Kept, Whole, Holds, OneVersion
  <2> QED
    BY <2>3, <2>4, <2>6 DEF Inv
<1>5. CASE MakeStaging
  <2> DEFINE content == IF staging = NoDir THEN {} ELSE staging
  <2>1. Directory(content) /\ content # NoDir
    BY EmptyDirectory DEF Inv, Typed
  <2> HIDE DEF content
  <2>2. \/ staging' = content /\ Goto("copy_bfc")
        \/ staging' \in {staging, content} /\ FatalError
    BY <1>5 DEF MakeStaging, content
  <2>3. Typed'
    BY <1>5, <2>1, <2>2, ConstantsAssumption DEF MakeStaging, Inv, Typed, Labels, Building
  <2>4. Staged'
    BY <2>1, <2>2 DEF Staged, Building
  <2>5. Kept'
    BY <1>5, <2>2 DEF MakeStaging, Building, Inv, Kept, Whole, Holds, OneVersion
  <2> QED
    BY <2>3, <2>4, <2>5 DEF Inv
<1>6. CASE CopyLinuxBinary
  <2>1. PutIs(staging, "bfc")
    BY <1>0, <1>6, PutDirectory DEF CopyLinuxBinary, Kinds, Binaries, Building, Inv, Typed, Staged
  <2>2. Typed'
    BY <1>6, <2>1, ConstantsAssumption DEF CopyLinuxBinary, PutIs, Inv, Typed, Labels, Building
  <2>3. Staged'
    BY <1>6, <2>1 DEF CopyLinuxBinary, PutIs, Kinds, Binaries, Building, Inv, Staged
  <2>4. Kept'
    BY <1>6 DEF CopyLinuxBinary, Building, Inv, Kept, Whole, Holds, OneVersion
  <2> QED
    BY <2>2, <2>3, <2>4 DEF Inv
<1>7. CASE CopyWindowsBinary
  <2>1. PutIs(staging, "bfc.exe")
    BY <1>0, <1>7, PutDirectory DEF CopyWindowsBinary, Kinds, Binaries, Building, Inv, Typed, Staged
  <2>2. Typed'
    BY <1>7, <2>1, ConstantsAssumption DEF CopyWindowsBinary, PutIs, Inv, Typed, Labels, Building
  <2>3. Staged'
    BY <1>7, <2>1 DEF CopyWindowsBinary, PutIs, Kinds, Binaries, Building, Inv, Staged
  <2>4. Kept'
    BY <1>7 DEF CopyWindowsBinary, Building, Inv, Kept, Whole, Holds, OneVersion
  <2> QED
    BY <2>2, <2>3, <2>4 DEF Inv
<1>8. CASE Archive
  <2>1. PutIs(staging, "archive")
    BY <1>0, <1>8, PutDirectory DEF Archive, Kinds, Binaries, Building, Inv, Typed, Staged
  <2>2. Typed'
    BY <1>8, <2>1, ConstantsAssumption DEF Archive, AfterArchive, PutIs, Inv, Typed, Labels, Building
  <2>3. Staged'
    BY <1>8, <2>1 DEF Archive, AfterArchive, PutIs, Kinds, Binaries, Building, Inv, Staged
  <2>4. Kept'
    BY <1>8 DEF Archive, AfterArchive, Building, Inv, Kept, Whole, Holds, OneVersion
  <2> QED
    BY <2>2, <2>3, <2>4 DEF Inv
<1>9. CASE Checksum
  <2>1. PutIs(staging, "checksum")
    BY <1>0, <1>9, PutDirectory DEF Checksum, Kinds, Binaries, Building, Inv, Typed, Staged
  <2>2. Typed'
    BY <1>9, <2>1, ConstantsAssumption DEF Checksum, PutIs, Inv, Typed, Labels, Building
  <2>3. Staged'
    BY <1>9, <2>1 DEF Checksum, PutIs, Kinds, Binaries, Building, Inv, Staged
  <2>4. Kept'
    BY <1>9 DEF Checksum, Building, Inv, Kept, Whole, Holds, OneVersion
  <2> QED
    BY <2>2, <2>3, <2>4 DEF Inv
<1>10. CASE Backup
  <2>1. Typed'
    BY <1>10, ConstantsAssumption DEF Backup, Inv, Typed, Labels, Building, Directory
  <2>2. Staged'
    BY <1>10 DEF Backup, Building, Inv, Staged
  <2>3. Kept'
    BY <1>10 DEF Backup, CanRename, Building, Inv, Kept, Whole, Holds, OneVersion
  <2> QED
    BY <2>1, <2>2, <2>3 DEF Inv
<1>11. CASE Install
  <2>1. Holds(staging, version)
    BY <1>11 DEF Install, Holds, Release, Kinds, Binaries, Inv, Staged
  <2>2. Typed'
    BY <1>11, ConstantsAssumption DEF Install, Inv, Typed, Labels, Building, Directory
  <2>3. Staged'
    BY <1>11 DEF Install, Building, Staged
  <2>4. OneVersion(staging)
    BY <1>0, <1>11, <2>1, HoldsOneVersion DEF Install, Inv, Typed
  <2>5. Kept'
    BY <1>0, <1>11, <2>1, <2>4
    DEF Install, CanRename, Building, Inv, Kept, Whole, Holds, OneVersion
  <2> QED
    BY <2>2, <2>3, <2>5 DEF Inv
<1>12. CASE Restore
  BY <1>12, ConstantsAssumption
  DEF Restore, Inv, Typed, Labels, Building, Staged, Kept, Whole, Holds, OneVersion, Directory
<1>13. CASE Discard
  <2>1. backup' \in AfterRemoval(backup) \/ backup' = backup
    BY <1>13 DEF Discard
  <2>2. Directory(backup')
    BY <2>1, RemovalDirectory DEF Inv, Typed
  <2>3. dist # NoDir
    BY <1>13 DEF Discard, Inv, Kept, Holds
  <2>4. backup' # NoDir => OneVersion(backup')
    BY <2>1, RemovalVersion DEF Inv, Kept
  <2> QED
    BY <1>13, <2>2, <2>3, <2>4
    DEF Discard, Inv, Typed, Labels, Building, Staged, Kept, Whole, Holds, OneVersion
<1>14. CASE Done
  BY <1>14, ConstantsAssumption DEF Done, Inv, Typed, Labels, Building, Staged, Kept, Whole, Holds, OneVersion
<1>15. CASE Crash
  BY <1>15, ConstantsAssumption DEF Crash, Inv, Typed, Labels, Building, Staged, Kept, Whole, Holds, OneVersion
<1> QED
  BY <1>1, <1>2, <1>3, <1>4, <1>5, <1>6, <1>7, <1>8, <1>9, <1>10, <1>11, <1>12, <1>13, <1>14, <1>15
  DEF Next, Step

LEMMA InvAlways == Spec => []Inv
BY InvInitially, InvStep, PTL DEF Spec

-----------------------------------------------------------------------------
LEMMA VisibleVersion ==
  ASSUME Inv
  PROVE  /\ dist # NoDir => visible \in Versions /\ Holds(dist, visible)
         /\ dist = NoDir /\ backup # NoDir => visible \in Versions /\ Holds(backup, visible)
         /\ dist = NoDir /\ backup = NoDir => visible = None
<1>1. CASE dist # NoDir
  <2>1. PICK v \in Versions : Holds(dist, v)
    BY <1>1 DEF Inv, Kept, Whole
  <2>2. visible = v
    BY <1>1, <2>1, VersionOfWhole DEF visible, Inv, Typed
  <2> QED
    BY <1>1, <2>1, <2>2
<1>2. CASE dist = NoDir /\ backup # NoDir
  <2>1. PICK v \in Versions : Holds(backup, v)
    BY <1>2 DEF Inv, Kept, Whole
  <2>2. visible = v
    BY <1>2, <2>1, VersionOfWhole DEF visible, Inv, Typed
  <2> QED
    BY <1>2, <2>1, <2>2
<1>3. CASE dist = NoDir /\ backup = NoDir
  BY <1>3 DEF visible
<1> QED
  BY <1>1, <1>2, <1>3

(* Types; and whatever silent removals, failures and deaths between the    *)
(* copies of the two binaries leave in dist.tmp/, dist/ and dist.backup/   *)
(* never have one release's bfc beside another's bfc.exe.                  *)
THEOREM TypeCorrect == Spec => []TypeOK
<1>1. Inv => TypeOK
  BY DirectoryType DEF Inv, Typed, Kept, TypeOK
<1> QED
  BY <1>1, InvAlways, PTL

(* Whatever fails or dies, and wherever: dist/, if it is there, holds all  *)
(* files of a release.                                                     *)
THEOREM DistIsAlwaysWhole == Spec => []DistIsWhole
<1>1. Inv => DistIsWhole
  BY DEF Inv, Kept, Whole, DistIsWhole
<1> QED
  BY <1>1, InvAlways, PTL

(* If dist/ is missing, dist.backup/ has the release that it held.         *)
THEOREM BackupIsAlwaysWhole == Spec => []BackupIsWhole
<1>1. Inv => BackupIsWhole
  BY DEF Inv, Kept, Whole, BackupIsWhole
<1> QED
  BY <1>1, InvAlways, PTL

(* A run that has recovered what an earlier one has left keeps dist/ in    *)
(* its place but for the two renames.                                      *)
THEOREM DistIsKept == Spec => []MissingOnlyBetweenRenames
<1>1. Inv => MissingOnlyBetweenRenames
  <2> SUFFICES ASSUME Inv, visible # None,
                      pc \in Building \cup {"discard", "done"}
               PROVE  Holds(dist, visible)
    BY DEF MissingOnlyBetweenRenames
  <2>1. CASE dist # NoDir
    BY <2>1, VisibleVersion
  <2>2. CASE dist = NoDir
    <3>1. backup = NoDir
      BY <2>2 DEF Inv, Kept, Holds
    <3> QED
      BY <2>2, <3>1, VisibleVersion
  <2> QED
    BY <2>1, <2>2
<1> QED
  BY <1>1, InvAlways, PTL
-----------------------------------------------------------------------------
(* The steps as AtomicRelease sees them. *)

committedBar == pc \in {"discard", "done"}

(* The visible release stays while dist/ does, or moves between dist/ and  *)
(* dist.backup/.                                                           *)
LEMMA SameVisible ==
  ASSUME \/ dist' = dist /\ (dist # NoDir \/ backup' = backup)
         \/ dist = NoDir /\ dist' = backup /\ backup' = NoDir
         \/ dist' = NoDir /\ backup' = dist /\ dist # NoDir
  PROVE  visible' = visible
<1>1. CASE dist' = dist /\ dist # NoDir
  BY <1>1 DEF visible, VersionOf
<1>2. CASE dist' = dist /\ backup' = backup
  BY <1>2 DEF visible, VersionOf
<1>3. CASE dist = NoDir /\ dist' = backup /\ backup' = NoDir
  BY <1>3 DEF visible, VersionOf
<1>4. CASE dist' = NoDir /\ backup' = dist /\ dist # NoDir
  BY <1>4 DEF visible, VersionOf
<1> QED
  BY <1>1, <1>2, <1>3, <1>4

LEMMA StepImplements == Inv /\ [Next]_vars => [R!Next]_R!releaseVars
<1> SUFFICES ASSUME Inv, [Next]_vars PROVE [R!Next]_R!releaseVars
  OBVIOUS
<1> USE DEF Goto, FatalError, Finish, dirs
<1>0. version = None <=> pc = "idle"
  BY DEF Inv, Typed
<1> DEFINE Stutters == UNCHANGED <<version, report>> /\ committedBar' = committedBar
           Fails == pc # "idle" /\ ~committedBar /\ FatalError
<1>1. Stutters /\ visible' = visible => [R!Next]_R!releaseVars
  BY DEF R!releaseVars, committedBar
<1>2. Fails /\ visible' = visible => [R!Next]_R!releaseVars
  BY <1>0 DEF R!Next, R!End, committedBar
<1> HIDE DEF Stutters, Fails
<1>3. CASE UNCHANGED vars
  <2>1. visible' = visible
    BY <1>3, SameVisible DEF vars
  <2> QED
    BY <1>1, <1>3, <2>1 DEF vars, committedBar, Stutters
<1>4. ASSUME NEW v \in Versions, Begin(v)
      PROVE  [R!Next]_R!releaseVars
  <2>1. visible' = visible
    BY <1>4, SameVisible DEF Begin
  <2> QED
    BY <1>0, <1>4, <2>1 DEF Begin, R!Next, R!Begin
<1>5. CASE CleanStaging
  <2>1. visible' = visible
    BY <1>5, SameVisible DEF CleanStaging
  <2> QED
    BY <1>1, <1>5, <2>1 DEF CleanStaging, committedBar, Stutters
<1>6. CASE Recover
  <2>1. visible' = visible
    BY <1>6, SameVisible DEF Recover
  <2> QED
    BY <1>1, <1>2, <1>6, <2>1 DEF Recover, committedBar, Stutters, Fails
<1>7. CASE MakeStaging \/ CopyLinuxBinary \/ CopyWindowsBinary \/ Archive \/ Checksum
  <2>1. visible' = visible
    BY <1>7, SameVisible
    DEF MakeStaging, CopyLinuxBinary, CopyWindowsBinary, Archive, Checksum
  <2> QED
    BY <1>1, <1>2, <1>7, <2>1
    DEF MakeStaging, CopyLinuxBinary, CopyWindowsBinary, Archive, AfterArchive, Checksum, committedBar, Stutters, Fails
<1>8. CASE Backup
  <2>1. visible' = visible
    BY <1>8, SameVisible DEF Backup, CanRename
  <2> QED
    BY <1>1, <1>2, <1>8, <2>1 DEF Backup, committedBar, Stutters, Fails
<1>9. CASE Install
  <2>1. CASE CanRename(staging, dist) /\ dist' = staging /\ staging' = NoDir /\ Goto("discard")
    <3>1. version \in Versions /\ Holds(staging, version) /\ Directory(staging) /\ staging # NoDir
      BY <1>9 DEF Install, Inv, Typed, Staged, Holds, Release, Kinds, Binaries
    <3>2. visible' = VersionOf(staging)
      BY <2>1, <3>1 DEF visible, VersionOf
    <3>3. visible' = version
      BY <3>1, <3>2, VersionOfWhole
    <3> QED
      BY <1>0, <1>9, <2>1, <3>3 DEF Install, R!Next, R!Commit
  <2>2. CASE UNCHANGED <<dist, staging>> /\ (Goto("restore") \/ FatalError)
    <3>1. visible' = visible
      BY <1>9, <2>2, SameVisible DEF Install
    <3> QED
      BY <1>1, <1>2, <1>9, <2>2, <3>1 DEF Install, committedBar, Stutters, Fails
  <2> QED
    BY <1>9, <2>1, <2>2 DEF Install
<1>10. CASE Restore
  <2>1. visible' = visible
    BY <1>10, SameVisible DEF Restore, Inv, Kept
  <2> QED
    BY <1>2, <1>10, <2>1 DEF Restore, committedBar, Fails
<1>11. CASE Discard
  <2>1. dist # NoDir
    BY <1>11 DEF Discard, Inv, Kept, Holds
  <2>2. visible' = visible
    BY <1>11, <2>1, SameVisible DEF Discard
  <2> QED
    BY <1>1, <1>11, <2>2 DEF Discard, committedBar, Stutters
<1>12. CASE Done
  <2>1. visible' = visible
    BY <1>12, SameVisible DEF Done
  <2> QED
    BY <1>0, <1>12, <2>1 DEF Done, R!Next, R!End
<1>13. CASE Crash
  <2>1. visible' = visible
    BY <1>13, SameVisible DEF Crash
  <2> QED
    BY <1>0, <1>13, <2>1 DEF Crash, R!Next, R!Crash
<1> QED
  BY <1>3, <1>4, <1>5, <1>6, <1>7, <1>8, <1>9, <1>10, <1>11, <1>12, <1>13 DEF Next, Step

(* Seen from outside, with the recovery by the next run, the release is    *)
(* replaced in one step or not at all, none is lost, and the report says   *)
(* which.                                                                  *)
THEOREM ReleaseIsAtomic == Spec => ReplacesAtomically
<1>1. Init => R!Init
  BY DEF Init, R!Init, visible
<1> QED
  BY <1>1, StepImplements, InvAlways, PTL DEF Spec, ReplacesAtomically, R!Spec
=============================================================================
