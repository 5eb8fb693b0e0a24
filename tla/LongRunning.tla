------------------------------- MODULE LongRunning -------------------------------
(***************************************************************************)
(* The harness that carries work from one session to the next              *)
(* (packages/long-running): a feature list and a progress log, each kept   *)
(* in memory by the tools of the session and written to a file by every    *)
(* call that changes it.  A call waits for its writes one after the other; *)
(* the process may die before, during or after any of them, and a file it  *)
(* was writing is then cut short.  Calls may overlap, and their writes mix.*)
(***************************************************************************)
EXTENDS Naturals, Sequences, FiniteSets, Functions

CONSTANTS Features,         \* numbers past MaxEntries
          MaxActiveFeatures, Window,
          MaxEntries, MaxSaves, MaxCrashes        \* bounds of this model

NoList == {0}

(* As validateLongRunningConfig has the first two.                          *)
ASSUME WindowAssumption ==
  /\ Window \in Nat \ {0} /\ MaxActiveFeatures \in Nat \ {0}
  /\ MaxEntries \in Nat /\ MaxSaves \in Nat /\ MaxCrashes \in Nat
  /\ Features \intersect (0..MaxEntries) = {}

VARIABLES
  harnessMode,      \* of the session; "none" before the first and after a crash
  progressFile,     \* state.progressFile: the entries in memory
  featureList,      \* state.featureList: the features that pass, or NoList
  marked,           \* featuresMarkedThisSession
  activeFile, archiveFile, featureFile,
  saves,            \* calls whose writes are not done
  progressEntries,  \* entries made so far; each is known by its number
  crashes,
  saved,            \* history: entries and features whose call has returned
  cut,              \* history: those in a file that was cut short
  mixed             \* history: did a call begin while another was writing?

files == <<activeFile, archiveFile, featureFile>>
sessionVars == <<harnessMode, progressFile, featureList, marked>>
longRunningVars == <<sessionVars, files, saves, progressEntries, crashes, saved, cut, mixed>>

(* A missing file and one that is not JSON read alike: as no entries, or as *)
(* no list.                                                                 *)
HarnessInit ==
  /\ harnessMode = "none" /\ progressFile = <<>> /\ featureList = NoList /\ marked = 0
  /\ activeFile = <<>> /\ archiveFile = <<>> /\ featureFile = NoList
  /\ saves = {} /\ progressEntries = 0 /\ crashes = 0
  /\ saved = {} /\ cut = {} /\ mixed = FALSE

Entries == Range(activeFile) \union Range(archiveFile)
OnDisk  == Entries \union featureFile

-----------------------------------------------------------------------------
(* onSessionStart: without a feature list the session is to write one.      *)
HarnessSessionStart ==
  /\ progressFile' = activeFile
  /\ featureList' = featureFile
  /\ harnessMode' = IF featureFile = NoList THEN "initializer" ELSE "coder"
  /\ marked' = 0
  /\ mixed' = (mixed \/ saves # {})
  /\ UNCHANGED <<files, saves, progressEntries, crashes, saved, cut>>

(* The agent of an initializer session writes the list, none passing yet.   *)
CreateFeatureList ==
  /\ harnessMode = "initializer" /\ featureFile = NoList
  /\ featureFile' = {}
  /\ UNCHANGED <<sessionVars, activeFile, archiveFile, saves, progressEntries, crashes, saved,
                 cut, mixed>>

BeginSave(save) ==
  /\ Cardinality(saves) < MaxSaves
  /\ saves' = saves \union {save}
  /\ mixed' = (mixed \/ saves # {})

UpdateFeatureStatus(f) ==
  /\ harnessMode = "coder"
  /\ marked < MaxActiveFeatures
  /\ featureList' = featureList \union {f}
  /\ marked' = marked + 1
  /\ BeginSave([next |-> "features", what |-> featureList', item |-> f])
  /\ UNCHANGED <<harnessMode, progressFile, files, progressEntries, crashes, saved, cut>>

(* updateProgress: what no longer fits the window is added to the archive   *)
(* before the rest is written.  The entries in memory are not cut: the next *)
(* call archives the same ones again.                                       *)
UpdateProgress ==
  /\ harnessMode # "none" /\ progressEntries < MaxEntries
  /\ progressEntries' = progressEntries + 1
  /\ progressFile' = Append(progressFile, progressEntries')
  /\ BeginSave([next |-> IF Len(progressFile') > Window THEN "archive read" ELSE "active",
            what |-> progressFile', item |-> progressEntries'])
  /\ UNCHANGED <<harnessMode, featureList, marked, files, crashes, saved, cut>>

-----------------------------------------------------------------------------
Overflow(all) == SubSeq(all, 1, Len(all) - Window)
InWindow(all) == IF Len(all) <= Window THEN all
                 ELSE SubSeq(all, Len(all) - Window + 1, Len(all))

(* The writes of one call, in their order.  The last one ends it.           *)
ReadArchive(s) ==
  /\ s.next = "archive read"
  /\ saves' = (saves \ {s}) \union
       {[next |-> "archive", what |-> s.what, item |-> s.item,
         merged |-> archiveFile \o Overflow(s.what)]}
  /\ UNCHANGED <<sessionVars, files, progressEntries, crashes, saved, cut, mixed>>

WriteArchive(s) ==
  /\ s.next = "archive"
  /\ archiveFile' = s.merged
  /\ saves' = (saves \ {s}) \union {[next |-> "active", what |-> s.what, item |-> s.item]}
  /\ UNCHANGED <<sessionVars, activeFile, featureFile, progressEntries, crashes, saved,
                 cut, mixed>>

WriteActiveFirst(s) ==     \* mutant: the active file is written first
  /\ s.next \in {"active", "archive read"}
  /\ activeFile' = InWindow(s.what)
  /\ saves' = IF s.next = "active" THEN saves \ {s}
              ELSE (saves \ {s}) \union
                     {[next |-> "archive", what |-> s.what, item |-> s.item,
                       merged |-> archiveFile \o Overflow(s.what)]}
  /\ saved' = saved \union {s.item}
  /\ UNCHANGED <<sessionVars, archiveFile, featureFile, progressEntries, crashes, cut, mixed>>

WriteActive(s) ==
  /\ s.next = "active"
  /\ activeFile' = InWindow(s.what)
  /\ saves' = saves \ {s}
  /\ saved' = saved \union {s.item}
  /\ UNCHANGED <<sessionVars, archiveFile, featureFile, progressEntries, crashes, cut, mixed>>

WriteFeatures(s) ==
  /\ s.next = "features"
  /\ featureFile' = s.what
  /\ saves' = saves \ {s}
  /\ saved' = saved \union {s.item}
  /\ UNCHANGED <<sessionVars, activeFile, archiveFile, progressEntries, crashes, cut, mixed>>

(* The file that the call was writing is cut short, or still as it was.     *)
Damage(s) ==
  /\ activeFile'  = IF s.next = "active"   THEN <<>>   ELSE activeFile
  /\ archiveFile' = IF s.next = "archive"  THEN <<>>   ELSE archiveFile
  /\ featureFile' = IF s.next = "features" THEN NoList ELSE featureFile
  /\ cut' = cut \union (OnDisk \ OnDisk')

WriteFails(s) ==
  /\ s.next # "archive read"
  /\ saves' = saves \ {s}
  /\ Damage(s) \/ UNCHANGED <<files, cut>>
  /\ UNCHANGED <<sessionVars, progressEntries, crashes, saved, mixed>>

HarnessCrash ==
  /\ harnessMode # "none" /\ crashes < MaxCrashes
  /\ crashes' = crashes + 1
  /\ harnessMode' = "none" /\ progressFile' = <<>> /\ featureList' = NoList /\ marked' = 0
  /\ saves' = {}
  /\ (\E s \in saves : Damage(s)) \/ UNCHANGED <<files, cut>>
  /\ UNCHANGED <<progressEntries, saved, mixed>>

HarnessNext ==
  \/ HarnessSessionStart \/ CreateFeatureList \/ UpdateProgress \/ HarnessCrash
  \/ \E f \in Features : UpdateFeatureStatus(f)
  \/ \E s \in saves : \/ ReadArchive(s) \/ WriteArchive(s) \/ WriteActive(s)
                     \/ WriteFeatures(s) \/ WriteFails(s)

HarnessSpec == HarnessInit /\ [][HarnessNext]_longRunningVars

-----------------------------------------------------------------------------
HarnessTypeOK ==
  /\ harnessMode \in {"none", "initializer", "coder"}
  /\ harnessMode = "coder" => featureList # NoList
  /\ marked \in 0..MaxActiveFeatures
  /\ progressEntries \in 0..MaxEntries /\ crashes \in 0..MaxCrashes
  /\ \A file \in {progressFile, activeFile, archiveFile} : Range(file) \subseteq 1..progressEntries
  /\ \A list \in {featureList, featureFile} : list = NoList \/ list \subseteq Features
  /\ \A s \in saves : s.next \in {"archive read", "archive", "active", "features"}
  /\ Cardinality(saves) <= MaxSaves
  /\ mixed \in BOOLEAN

(* Unless calls overlapped, what a call that returned has saved, a progress *)
(* entry or a feature that passes, is in a file, whenever the process dies  *)
(* or a write fails; the one exception is a file that was cut short.        *)
SavedIsOnDisk == mixed \/ saved \subseteq OnDisk \union cut
=============================================================================
