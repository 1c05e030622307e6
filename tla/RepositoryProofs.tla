-------------------------- MODULE RepositoryProofs --------------------------
(***************************************************************************)
(* One owner per repository, for any number of processes, directories and  *)
(* workloads, and the invariant of RepositoryContentProofs: what each      *)
(* process relies on, and the steps that keep the files as they are, make  *)
(* a directory, change the link or write to the datastores.                *)
(***************************************************************************)
EXTENDS Repository, TLAPS

\* Time limits with a wide margin: every leaf takes about a second.
USE ZenonT(20), SMTT(60), ZenonT(61)

-----------------------------------------------------------------------------
(* Types *)

MaybeDir == Dirs \cup {NoDir}
Chains == [genesis : BOOLEAN, head : 0 .. MaxHeight, headAs : Encodings,
           meta : [0 .. MaxHeight -> Encodings]]
Directories == [exists : BOOLEAN, version : Files(Versions), config : Files(Configs),
                tmp : Files(Configs), api : Files(Procs), chain : Chains, peerKey : BOOLEAN,
                wallet : SUBSET Keys]

\* The program counters, by what a process holds at them.
InitPcs == {"version0", "version", "config0", "config", "symlink"}
CopyPcs == {"copy1", "copy2"}
BuildPcs == CopyPcs \cup {"migrate", "convert", "convertHead"}
FinishPcs == {"version0", "version"}
InstallPcs == {"unlink", "relink"}
GenesisPcs == {"genesisMeta", "genesisHead", "genesisKey", "peerKey", "defaultKey"}
SavePcs == {"initSave", "initSave2"}
NodePcs == {"api0", "api", "running"}
StorePcs == GenesisPcs \cup SavePcs \cup NodePcs \cup {"start", "compare"}
LoadedPcs == StorePcs \cup {"openStores"}
LockPcs == LoadedPcs \cup {"loadVersion"}
OpenPcs == {"open", "loadVersion", "openStores"}

Programs == {"init", "daemon", "migrate", "buildonly", "install", "none"}
PcsOf(cmd) ==
  CASE cmd = "init" -> InitPcs \cup OpenPcs \cup GenesisPcs \cup SavePcs
    [] cmd = "daemon" -> OpenPcs \cup NodePcs \cup {"start"}
    [] cmd = "migrate" -> BuildPcs \cup OpenPcs \cup {"compare"} \cup FinishPcs \cup InstallPcs
    [] cmd = "buildonly" -> BuildPcs \cup OpenPcs \cup {"compare"} \cup FinishPcs
    [] cmd = "install" -> InstallPcs
    [] OTHER -> {"idle"}

Processes ==
  [pc : InitPcs \cup BuildPcs \cup InstallPcs \cup LockPcs \cup {"open", "idle"}, cmd : Programs,
   ver : Versions, lock : MaybeDir, stores : MaybeDir, new : MaybeDir, at : Nat, mem : Configs,
   saving : {"no", "truncate", "write", "rename"}, doing : Settings \cup {"none"}]

\* What a process's program counter says of its other local variables.
Consistent(r) ==
  /\ r.pc \in PcsOf(r.cmd)
  /\ r.lock # NoDir <=> r.pc \in LockPcs
  /\ r.stores # NoDir <=> r.pc \in StorePcs
  /\ r.new # NoDir <=> r.cmd \notin {"daemon", "none"}
  /\ r.saving # "no" => r.pc \in SavePcs \cup {"running"}
  /\ r.pc = "running" /\ r.saving # "no" => r.doing # "none"
  /\ r.saving = "write" \/ r.pc \in CopyPcs => r.at \in Dirs
  /\ r.pc = "convert" => r.at \in 0 .. MaxHeight
  /\ r.pc \in SavePcs => r.mem.default # NoKey

\* The directories a process works with exist.
Exists(r) ==
  \A d \in {r.lock, r.stores, r.new} \cup
           (IF r.saving = "write" \/ r.pc \in CopyPcs THEN {r.at} ELSE {}) :
    d # NoDir => dirs[d].exists

Reports == [set : [Settings -> 0 .. 1], keys : SUBSET Keys, height : 0 .. MaxHeight]
Rest == [from : Versions \cup {0}, versions : SUBSET Versions, init : Nat,
         daemon : Nat, migration : Nat, op : Nat, kill : Nat]

TypeInv ==
  /\ link \in MaybeDir /\ (link # NoDir => dirs[link].exists)
  /\ dirs \in [Dirs -> Directories]
  /\ \A d \in Dirs : ~dirs[d].exists => dirs[d] = EmptyDir
  /\ proc \in [Procs -> Processes]
  /\ \A p \in Procs : Consistent(proc[p]) /\ Exists(proc[p])
  /\ promised \in Reports /\ refused \subseteq Settings /\ behind \subseteq Dirs
  /\ raced \in BOOLEAN /\ left \in Rest

-----------------------------------------------------------------------------
(* A step changes one process and one directory *)

LEMMA BecomesFacts ==
  ASSUME TypeInv, NEW p \in Procs, NEW r \in Processes, Becomes(p, r)
  PROVE  /\ proc' \in [Procs -> Processes] /\ proc'[p] = r
         /\ \A q \in Procs \ {p} : proc'[q] = proc[q]
  BY DEF TypeInv, Becomes

LEMMA HoldsFacts ==
  ASSUME TypeInv, NEW d \in Dirs, NEW r \in Directories, Holds(d, r)
  PROVE  /\ dirs' \in [Dirs -> Directories] /\ dirs'[d] = r
         /\ \A e \in Dirs \ {d} : dirs'[e] = dirs[e]
  BY DEF TypeInv, Holds

LEMMA IdleType == Idle \in Processes /\ Consistent(Idle) /\ Exists(Idle)'
  <1>1. NewDefaultConfig \in Configs
    BY SMTT(60) DEF NewDefaultConfig, Configs
  <1>2. Idle \in Processes
    BY <1>1 DEF Idle, Processes, Programs, MaybeDir, Versions, Version
  <1>3. Consistent(Idle)
    BY DEF Idle, Consistent, PcsOf, LockPcs, LoadedPcs, StorePcs, GenesisPcs, SavePcs, NodePcs,
           CopyPcs, OpenPcs
  <1>4. Exists(Idle)'
    BY DEF Idle, Exists, CopyPcs
  <1> QED
    BY <1>2, <1>3, <1>4

\* The parts of TypeInv that every step has to re-establish.
DirsOK == /\ dirs' \in [Dirs -> Directories]
          /\ \A d \in Dirs : /\ dirs[d].exists => dirs'[d].exists
                             /\ ~dirs'[d].exists => dirs'[d] = EmptyDir
LinkOK == link' \in MaybeDir /\ (link' # NoDir => dirs'[link'].exists)
GhostsOK == /\ promised' \in Reports /\ refused' \subseteq Settings /\ behind' \subseteq Dirs
            /\ raced' \in BOOLEAN /\ left' \in Rest

LEMMA TypeFrame ==
  ASSUME TypeInv, NEW p \in Procs, NEW r \in Processes, Consistent(r), Exists(r)', Becomes(p, r),
         DirsOK, LinkOK, GhostsOK
  PROVE  TypeInv'
  <1>1. ASSUME NEW q \in Procs
        PROVE  Consistent(proc'[q]) /\ Exists(proc[q])'
    <2>1. CASE q = p
      BY <2>1, BecomesFacts
    <2>2. CASE q # p
      <3>1. proc'[q] = proc[q] /\ Consistent(proc[q]) /\ Exists(proc[q])
        BY <2>2, BecomesFacts DEF TypeInv
      <3>2. \A d \in {proc[q].lock, proc[q].stores, proc[q].new} : d \in MaybeDir
        BY SMTT(60) DEF TypeInv, Processes
      <3>3. proc[q].saving = "write" \/ proc[q].pc \in CopyPcs => proc[q].at \in Dirs
        BY <3>1 DEF Consistent
      <3> QED
        BY <3>1, <3>2, <3>3 DEF Exists, DirsOK, MaybeDir
    <2> QED
      BY <2>1, <2>2
  <1> QED
    BY <1>1, BecomesFacts DEF TypeInv, DirsOK, LinkOK, GhostsOK

\* A process that only moves on keeps its locks and directories.
LEMMA GoesType ==
  ASSUME NEW r \in Processes, Consistent(r), r.saving = "no",
         NEW pc \in PcsOf(r.cmd) \ (SavePcs \cup {"convert", "copy1"}),
         pc \in LockPcs <=> r.pc \in LockPcs, pc \in StorePcs <=> r.pc \in StorePcs,
         pc = "copy2" => r.pc = "copy1"
  PROVE  [r EXCEPT !.pc = pc] \in Processes /\ Consistent([r EXCEPT !.pc = pc])
  <1>1. pc \in InitPcs \cup BuildPcs \cup InstallPcs \cup LockPcs \cup {"open", "idle"}
    BY DEF PcsOf, LockPcs, LoadedPcs, StorePcs, OpenPcs, FinishPcs, InitPcs
  <1>2. [r EXCEPT !.pc = pc] \in Processes
    BY <1>1 DEF Processes
  <1> QED
    BY <1>2 DEF Consistent, Processes, CopyPcs

\* The directories of a process that keeps them still exist.
LEMMA ExistsStays ==
  ASSUME TypeInv, DirsOK, NEW p \in Procs, NEW r \in Processes,
         {r.lock, r.stores, r.new} \subseteq {proc[p].lock, proc[p].stores, proc[p].new, link, NoDir},
         r.saving = "write" \/ r.pc \in CopyPcs => 
            \/ r.at = link /\ link # NoDir
            \/ r.at = proc[p].at /\ (proc[p].saving = "write" \/ proc[p].pc \in CopyPcs)
  PROVE  Exists(r)'
  <1>1. Exists(proc[p]) /\ Consistent(proc[p]) /\ proc[p] \in Processes
    BY DEF TypeInv
  <1>2. \A d \in {proc[p].lock, proc[p].stores, proc[p].new, link} : d # NoDir => dirs'[d].exists
    BY <1>1, SMTT(60) DEF Exists, TypeInv, DirsOK, MaybeDir, Processes
  <1>3. r.saving = "write" \/ r.pc \in CopyPcs => (r.at # NoDir => dirs'[r.at].exists)
    BY <1>1, <1>2 DEF Exists, DirsOK, Consistent
  <1> QED
    BY <1>2, <1>3 DEF Exists

LEMMA MoveType ==
  ASSUME TypeInv, NEW p \in Procs, NEW s \in Processes, Consistent(s), Becomes(p, s),
         DirsOK, LinkOK, GhostsOK,
         {s.lock, s.stores, s.new} \subseteq {proc[p].lock, proc[p].stores, proc[p].new, link, NoDir},
         s.saving = "write" \/ s.pc \in CopyPcs =>
            \/ s.at = link /\ link # NoDir
            \/ s.at = proc[p].at /\ (proc[p].saving = "write" \/ proc[p].pc \in CopyPcs)
  PROVE  TypeInv'
  BY ExistsStays, TypeFrame

LEMMA GoesMove ==
  ASSUME TypeInv, NEW p \in Procs, proc[p].saving = "no", DirsOK, LinkOK, GhostsOK,
         NEW pc \in PcsOf(proc[p].cmd) \ (SavePcs \cup {"convert", "copy1"}), Goes(p, pc),
         pc \in LockPcs <=> proc[p].pc \in LockPcs, pc \in StorePcs <=> proc[p].pc \in StorePcs,
         pc = "copy2" => proc[p].pc = "copy1"
  PROVE  TypeInv'
  <1>1. PICK s : s = [proc[p] EXCEPT !.pc = pc]
    OBVIOUS
  <1>2. proc[p] \in Processes /\ Consistent(proc[p])
    BY DEF TypeInv
  <1>3. s \in Processes /\ Consistent(s)
    BY <1>1, <1>2, GoesType
  <1>4. /\ s.lock = proc[p].lock /\ s.stores = proc[p].stores /\ s.new = proc[p].new
        /\ s.at = proc[p].at /\ s.saving = "no" /\ s.pc = pc
    BY <1>1, <1>2 DEF Processes
  <1> QED
    BY <1>1, <1>3, <1>4, MoveType DEF Goes, CopyPcs

LEMMA EndsMove ==
  ASSUME TypeInv, NEW p \in Procs, DirsOK, LinkOK, GhostsOK, Ends(p)
  PROVE  TypeInv'
  BY IdleType, TypeFrame DEF Ends

LEMMA OpenType ==
  ASSUME TypeInv, NEW p \in Procs, Open(p)
  PROVE  TypeInv'
  <1> DEFINE r == proc[p]
  <1>1. r \in Processes /\ Consistent(r) /\ r.saving = "no"
    BY DEF TypeInv, Open, Consistent, SavePcs
  <1>2. DirsOK /\ LinkOK /\ GhostsOK
    BY DEF Open, NoReport, Unspent, TypeInv, DirsOK, LinkOK, GhostsOK
  <1>3. CASE Ends(p)
    BY <1>2, <1>3, EndsMove
  <1>4. ASSUME NEW s \in Processes, Consistent(s), Becomes(p, s),
               {s.lock, s.stores, s.new} \subseteq {r.lock, r.stores, r.new, link},
               s.saving = "no", s.pc \notin CopyPcs
        PROVE  TypeInv'
    BY <1>2, <1>4, MoveType
  <1>5. CASE r.pc = "open" /\ OpenFSRepo(p)
    <2> DEFINE s == [r EXCEPT !.lock = link, !.pc = "loadVersion"]
    <2>1. CASE link # NoDir /\ Becomes(p, s)
      <3>1. s \in Processes
        BY <1>1 DEF Processes, TypeInv, LockPcs
      <3>2. Consistent(s) /\ s.saving = "no" /\ s.pc \notin CopyPcs
        BY <1>1, <1>5, <2>1 DEF Consistent, Processes, PcsOf, LockPcs, LoadedPcs, StorePcs, OpenPcs, CopyPcs,
           GenesisPcs, SavePcs, NodePcs, InitPcs, InstallPcs, Programs
      <3> QED
        BY <1>1, <1>4, <2>1, <3>1, <3>2 DEF Processes
    <2> QED
      BY <1>3, <1>5, <2>1 DEF OpenFSRepo, hasConfig
  <1>6. CASE r.pc = "loadVersion" /\ loadFromDisk(p)
    <2> DEFINE s == [r EXCEPT !.mem = ReadConfig(dirs[link].config), !.pc = "openStores"]
    <2>1. CASE link # NoDir /\ dirs[link].config # NoFile /\ Becomes(p, s)
      <3>1. ReadConfig(dirs[link].config) \in Configs
        <4>1. dirs[link].config \in Files(Configs)
          BY <2>1 DEF TypeInv, MaybeDir, Directories
        <4> QED
          BY <2>1, <4>1, IdleType, SMTT(60) DEF Files, Holding, Truncated, ReadConfig, Idle, Processes
      <3>2. s \in Processes
        BY <1>1, <3>1 DEF Processes, LockPcs, LoadedPcs
      <3>3. Consistent(s) /\ s.saving = "no" /\ s.pc \notin CopyPcs
        BY <1>1, <1>6, <2>1 DEF Consistent, Processes, PcsOf, LockPcs, LoadedPcs, StorePcs, OpenPcs, CopyPcs,
           GenesisPcs, SavePcs, NodePcs, InitPcs, InstallPcs, Programs
      <3> QED
        BY <1>1, <1>4, <2>1, <3>2, <3>3 DEF Processes
    <2> QED
      BY <1>3, <1>6, <2>1 DEF loadFromDisk, hasConfig
  <1>7. CASE r.pc = "openStores" /\ openStores(p)
    <2>1. CASE link # NoDir /\ ~Ends(p)
      <3>1. PICK pc \in {"start", "genesisMeta", "compare"} :
               /\ Becomes(p, [r EXCEPT !.stores = link, !.pc = pc])
               /\ pc = CASE r.cmd = "daemon" -> "start" [] r.cmd = "init" -> "genesisMeta" [] OTHER -> "compare"
        BY <1>7, <2>1 DEF openStores
      <3> DEFINE s == [r EXCEPT !.stores = link, !.pc = pc]
      <3>2. s \in Processes
        BY <1>1 DEF Processes, TypeInv, LockPcs, LoadedPcs, StorePcs, GenesisPcs
      <3>3. Consistent(s) /\ s.saving = "no" /\ s.pc \notin CopyPcs
        BY <1>1, <1>7, <2>1, <3>1 DEF Consistent, Processes, PcsOf, LockPcs, LoadedPcs, StorePcs, OpenPcs, CopyPcs,
           GenesisPcs, SavePcs, NodePcs, InitPcs, InstallPcs, Programs
      <3> QED
        BY <1>1, <1>4, <3>1, <3>2, <3>3 DEF Processes
    <2> QED
      BY <1>3, <1>7, <2>1 DEF openStores
  <1> QED
    BY <1>5, <1>6, <1>7 DEF Open

LEMMA DirsPut ==
  ASSUME TypeInv, NEW d \in Dirs, NEW f \in Directories, f.exists, Holds(d, f)
  PROVE  DirsOK
  BY HoldsFacts DEF DirsOK, TypeInv

LEMMA DirsKept ==
  ASSUME TypeInv, UNCHANGED dirs
  PROVE  DirsOK
  BY DEF DirsOK, TypeInv

LEMMA LinkKept ==
  ASSUME TypeInv, DirsOK, UNCHANGED link
  PROVE  LinkOK
  BY DEF DirsOK, LinkOK, TypeInv, MaybeDir

LEMMA GhostsKept ==
  ASSUME TypeInv, NoReport, Unspent
  PROVE  GhostsOK
  BY DEF NoReport, Unspent, GhostsOK, TypeInv

LEMMA SpendType ==
  ASSUME TypeInv, NEW what \in {"init", "daemon", "migration", "op", "kill"}, Spend(what)
  PROVE  left' \in Rest /\ left'.versions = left.versions
  BY SMTT(60) DEF TypeInv, Spend, Rest

\* The two steps of WriteVersion and the three of initConfig.
LEMMA MakeType ==
  ASSUME TypeInv, NEW p \in Procs, WriteVersion(p) \/ initConfig(p)
  PROVE  TypeInv'
  <1> DEFINE r == proc[p]
             d == proc[p].new
  <1>1. r \in Processes /\ Consistent(r) /\ Exists(r) /\ r.pc \in InitPcs \ {"symlink"}
    BY DEF TypeInv, WriteVersion, initConfig, InitPcs
  <1>2. r.saving = "no" /\ d \in Dirs /\ dirs[d].exists /\ dirs[d] \in Directories
    <2>1. r.cmd \notin {"daemon", "none", "install"}
      BY <1>1 DEF Consistent, PcsOf, OpenPcs, NodePcs, InitPcs, InstallPcs
    <2> QED
      BY <1>1, <2>1 DEF Consistent, Exists, Processes, MaybeDir, TypeInv, InitPcs, SavePcs
  <1>3. GhostsOK /\ UNCHANGED link
    BY GhostsKept DEF WriteVersion, initConfig
  <1>4. DirsOK
    <2>1. CASE UNCHANGED dirs
      BY <2>1, DirsKept
    <2>2. ASSUME NEW v \in Files(Versions), Holds(d, [dirs[d] EXCEPT !.version = v])
          PROVE  DirsOK
      BY <1>2, <2>2, DirsPut, SMTT(60) DEF Directories
    <2>3. ASSUME NEW c \in Files(Configs), Holds(d, [dirs[d] EXCEPT !.config = c])
          PROVE  DirsOK
      BY <1>2, <2>3, DirsPut, SMTT(60) DEF Directories
    <2>4. Truncated \in Files(Versions) /\ Truncated \in Files(Configs)
      BY DEF Files
    <2>5. Holding(r.ver) \in Files(Versions) /\ Holding(Version) \in Files(Versions)
      BY <1>1 DEF Files, Processes, Versions
    <2>6. Holding(NewDefaultConfig) \in Files(Configs)
      BY IdleType DEF Files, Idle, Processes
    <2> QED
      BY <2>1, <2>2, <2>3, <2>4, <2>5, <2>6 DEF WriteVersion, initConfig
  <1>5. LinkOK
    BY <1>3, <1>4, LinkKept
  <1>6. CASE Ends(p)
    BY <1>3, <1>4, <1>5, <1>6, EndsMove
  <1>7. ASSUME NEW pc \in {"version", "config0", "config", "symlink", "unlink"}, Goes(p, pc),
               pc \in PcsOf(r.cmd)
        PROVE  TypeInv'
    BY <1>1, <1>2, <1>3, <1>4, <1>5, <1>7, GoesMove DEF InitPcs, LockPcs, LoadedPcs, StorePcs, GenesisPcs,
       SavePcs, NodePcs
  <1>8. r.pc \in FinishPcs => r.cmd \in {"init", "migrate", "buildonly"} /\ "version" \in PcsOf(r.cmd)
    BY <1>1 DEF Consistent, PcsOf, OpenPcs, NodePcs, InitPcs, InstallPcs, FinishPcs
  <1>9. r.pc \in {"config0", "config"} => r.cmd = "init"
    BY <1>1 DEF Consistent, PcsOf, OpenPcs, NodePcs, InitPcs, InstallPcs, FinishPcs, BuildPcs, CopyPcs
  <1>10. InitPcs \subseteq PcsOf("init") /\ "unlink" \in PcsOf("migrate")
    BY DEF PcsOf, InstallPcs
  <1> QED
    BY <1>6, <1>7, <1>8, <1>9, <1>10 DEF WriteVersion, initConfig, FinishPcs, InitPcs

LEMMA InitFSRepoType ==
  ASSUME TypeInv, NEW p \in Procs, NEW v \in left.versions, InitFSRepo(p, v)
  PROVE  TypeInv'
  <1>1. PICK d \in Dirs :
           /\ Holds(d, [dirs[d] EXCEPT !.exists = TRUE])
           /\ Lacks(d, promised # NothingYet)
           /\ Becomes(p, [Idle EXCEPT !.pc = "version0", !.cmd = "init", !.ver = v, !.new = d])
    BY DEF InitFSRepo
  <1> DEFINE s == [Idle EXCEPT !.pc = "version0", !.cmd = "init", !.ver = v, !.new = d]
             f == [dirs[d] EXCEPT !.exists = TRUE]
  <1>2. f \in Directories /\ f.exists
    BY DEF TypeInv, Directories
  <1>3. DirsOK /\ dirs'[d].exists
    BY <1>1, <1>2, DirsPut, HoldsFacts
  <1>4. LinkOK
    BY <1>3, LinkKept DEF InitFSRepo
  <1>5. GhostsOK
    BY <1>1, SpendType DEF InitFSRepo, Lacks, TypeInv, GhostsOK
  <1>6. v \in Versions
    BY DEF TypeInv, Rest
  <1>7. s \in Processes
    BY <1>6, IdleType DEF Processes, InitPcs, Programs, MaybeDir
  <1>8. /\ s.pc = "version0" /\ s.cmd = "init" /\ s.lock = NoDir /\ s.stores = NoDir
        /\ s.new = d /\ s.saving = "no"
    BY DEF Idle
  <1>9. d # NoDir
    BY SMTT(60) DEF Dirs, NoDir
  <1>10. Consistent(s)
    BY <1>8, <1>9, SMTT(60) DEF Consistent, PcsOf, LockPcs, LoadedPcs, StorePcs, GenesisPcs, SavePcs, NodePcs,
           CopyPcs, InitPcs
  <1>11. Exists(s)'
    BY <1>3, <1>8 DEF Exists, CopyPcs
  <1> QED
    BY <1>1, <1>3, <1>4, <1>5, <1>7, <1>10, <1>11, TypeFrame

LEMMA StoresDir ==
  ASSUME TypeInv, NEW p \in Procs, proc[p].pc \in StorePcs
  PROVE  proc[p].stores \in Dirs /\ dirs[proc[p].stores].exists /\ dirs[proc[p].stores] \in Directories
  BY DEF TypeInv, Consistent, Exists, Processes, MaybeDir

LEMMA NewDir ==
  ASSUME TypeInv, NEW p \in Procs, proc[p].pc \in InitPcs \cup BuildPcs \cup InstallPcs \cup {"compare"}
  PROVE  /\ proc[p].new \in Dirs /\ dirs[proc[p].new].exists /\ dirs[proc[p].new] \in Directories
         /\ proc[p].cmd \notin {"daemon", "none"}
  <1>1. proc[p].cmd \notin {"daemon", "none"}
    BY DEF TypeInv, Consistent, PcsOf, OpenPcs, NodePcs, InitPcs, InstallPcs, BuildPcs, CopyPcs
  <1> QED
    BY <1>1 DEF TypeInv, Consistent, Exists, Processes, MaybeDir

LEMMA LinkDir ==
  ASSUME TypeInv, link # NoDir
  PROVE  link \in Dirs /\ dirs[link].exists /\ dirs[link] \in Directories
  BY DEF TypeInv, MaybeDir

\* Which program is at a counter that belongs to one program.
LEMMA WhoseStep ==
  ASSUME TypeInv, NEW p \in Procs
  PROVE  /\ proc[p].pc \in GenesisPcs \cup SavePcs => proc[p].cmd = "init"
         /\ proc[p].pc \in NodePcs \cup {"start"} => proc[p].cmd = "daemon"
         /\ proc[p].pc \in BuildPcs \cup {"compare"} => proc[p].cmd \in {"migrate", "buildonly"}
         /\ proc[p].pc \in InstallPcs => proc[p].cmd \in {"migrate", "install"}
         /\ proc[p].pc = "symlink" => proc[p].cmd = "init"
         /\ proc[p].saving # "no" => proc[p].pc \in SavePcs \cup {"running"}
  BY DEF TypeInv, Consistent, PcsOf, OpenPcs, NodePcs, InitPcs, InstallPcs, BuildPcs, CopyPcs,
         GenesisPcs, SavePcs, FinishPcs

LEMMA SymlinkType ==
  ASSUME TypeInv, NEW p \in Procs, InitSymlink(p)
  PROVE  TypeInv'
  <1>1. proc[p].pc = "symlink" /\ proc[p].cmd = "init" /\ proc[p].saving = "no"
    BY WhoseStep DEF InitSymlink, SavePcs
  <1>2. DirsOK
    BY DirsKept DEF InitSymlink
  <1>3. LinkOK
    BY <1>1, NewDir DEF InitSymlink, PointLinkTo, LinkOK, MaybeDir, InitPcs, TypeInv
  <1>4. GhostsOK
    BY DEF InitSymlink, PointLinkTo, GhostsOK, TypeInv, Unspent
  <1>5. CASE Ends(p)
    BY <1>2, <1>3, <1>4, <1>5, EndsMove
  <1>6. CASE Goes(p, "open")
    <2>1. "open" \in PcsOf(proc[p].cmd)
      BY <1>1 DEF PcsOf, OpenPcs
    <2> QED
      BY <1>1, <1>2, <1>3, <1>4, <1>6, <2>1, GoesMove DEF LockPcs, LoadedPcs, StorePcs, GenesisPcs,
         SavePcs, NodePcs
  <1> QED
    BY <1>5, <1>6 DEF InitSymlink

\* The chain of a directory, or one entry of it, is replaced.
LEMMA ChainPut ==
  ASSUME NEW f \in Directories,
         NEW h \in 0 .. MaxHeight, NEW enc \in Encodings
  PROVE  /\ [f EXCEPT !.chain.meta[h] = enc] \in Directories
         /\ [f EXCEPT !.chain.headAs = enc] \in Directories
         /\ [f EXCEPT !.chain.head = h] \in Directories
         /\ [f EXCEPT !.chain.genesis = TRUE] \in Directories
         /\ [f EXCEPT !.peerKey = TRUE] \in Directories
  BY DEF Directories, Chains

LEMMA InitChainType ==
  ASSUME TypeInv, NEW p \in Procs, InitChain(p)
  PROVE  TypeInv'
  <1> DEFINE d == proc[p].stores
  <1>1. proc[p].pc \in GenesisPcs \ {"defaultKey"} /\ proc[p].cmd = "init" /\ proc[p].saving = "no"
    BY WhoseStep DEF InitChain, SavePcs, GenesisPcs
  <1>2. d \in Dirs /\ dirs[d].exists /\ dirs[d] \in Directories
    BY <1>1, StoresDir DEF StorePcs
  <1>3. DirsOK
    <2>1. 0 \in 0 .. MaxHeight
      BY RepositoryAssumption, SMTT(60)
    <2>2. Written(proc[p].ver) \in Encodings /\ HeadWritten(proc[p].ver) \in Encodings
      BY DEF Written, HeadWritten, Encodings
    <2>3. ASSUME NEW f \in Directories, f.exists, Holds(d, f)
          PROVE  DirsOK
      BY <1>2, <2>3, DirsPut
    <2>4. /\ [dirs[d] EXCEPT !.chain.meta[0] = Written(proc[p].ver)] \in Directories
          /\ [dirs[d] EXCEPT !.chain.headAs = HeadWritten(proc[p].ver)] \in Directories
          /\ [dirs[d] EXCEPT !.chain.genesis = TRUE] \in Directories
          /\ [dirs[d] EXCEPT !.peerKey = TRUE] \in Directories
      BY <1>2, <2>1, <2>2, ChainPut
    <2>5. /\ [dirs[d] EXCEPT !.chain.meta[0] = Written(proc[p].ver)].exists
          /\ [dirs[d] EXCEPT !.chain.headAs = HeadWritten(proc[p].ver)].exists
          /\ [dirs[d] EXCEPT !.chain.genesis = TRUE].exists
          /\ [dirs[d] EXCEPT !.peerKey = TRUE].exists
      BY <1>2 DEF Directories
    <2> QED
      BY <2>3, <2>4, <2>5 DEF InitChain
  <1>4. LinkOK /\ GhostsOK
    BY <1>3, LinkKept, GhostsKept DEF InitChain
  <1>5. PICK pc \in GenesisPcs : Goes(p, pc)
    BY DEF InitChain, GenesisPcs
  <1>6. GenesisPcs \subseteq PcsOf(proc[p].cmd)
    BY <1>1 DEF PcsOf
  <1> QED
    BY <1>1, <1>3, <1>4, <1>5, <1>6, GoesMove DEF LockPcs, LoadedPcs, StorePcs, GenesisPcs, SavePcs

LEMMA FreshKeysAreKeys == FreshKeys \subseteq Keys
  BY DEF FreshKeys

LEMMA DefaultKeyType ==
  ASSUME TypeInv, NEW p \in Procs, initDefaultKey(p)
  PROVE  TypeInv'
  <1> DEFINE d == proc[p].stores
  <1>1. PICK k \in Keys :
           /\ Holds(d, [dirs[d] EXCEPT !.wallet = @ \cup {k}])
           /\ Becomes(p, [proc[p] EXCEPT !.mem.default = k, !.pc = "initSave", !.saving = "truncate"])
    BY FreshKeysAreKeys DEF initDefaultKey
  <1>2. proc[p].pc = "defaultKey" /\ proc[p].cmd = "init"
    BY WhoseStep DEF initDefaultKey, GenesisPcs
  <1>3. d \in Dirs /\ dirs[d].exists /\ dirs[d] \in Directories
    BY <1>2, StoresDir DEF StorePcs, GenesisPcs
  <1>4. DirsOK
    BY <1>1, <1>3, DirsPut, SMTT(60) DEF Directories
  <1>5. LinkOK /\ GhostsOK
    BY <1>4, LinkKept, GhostsKept DEF initDefaultKey
  <1>6. PICK s : s = [proc[p] EXCEPT !.mem.default = k, !.pc = "initSave", !.saving = "truncate"]
    OBVIOUS
  <1>7. proc[p] \in Processes /\ Consistent(proc[p])
    BY DEF TypeInv
  <1>8. s \in Processes
    BY <1>6, <1>7 DEF Processes, Configs, LockPcs, LoadedPcs, StorePcs, SavePcs
  <1>9. /\ s.pc = "initSave" /\ s.saving = "truncate" /\ s.cmd = "init" /\ s.lock = proc[p].lock
        /\ s.stores = proc[p].stores /\ s.new = proc[p].new /\ s.doing = proc[p].doing
    BY <1>2, <1>6, <1>7 DEF Processes
  <1>10. s.mem.default # NoKey
    BY <1>6, <1>7, RepositoryAssumption DEF Processes, Configs
  <1>11. Consistent(s)
    BY <1>2, <1>7, <1>9, <1>10 DEF Consistent, PcsOf, LockPcs, LoadedPcs, StorePcs, GenesisPcs, SavePcs, CopyPcs
  <1> QED
    BY <1>1, <1>4, <1>5, <1>6, <1>8, <1>9, <1>11, MoveType DEF CopyPcs

LEMMA DaemonType ==
  ASSUME TypeInv, NEW p \in Procs, NEW v \in left.versions, Daemon(p, v)
  PROVE  TypeInv'
  <1> DEFINE s == [Idle EXCEPT !.pc = "open", !.cmd = "daemon", !.ver = v]
  <1>1. Becomes(p, s)
    BY DEF Daemon
  <1>2. DirsOK /\ LinkOK
    BY DirsKept, LinkKept DEF Daemon
  <1>3. GhostsOK
    BY SpendType DEF Daemon, NoReport, GhostsOK, TypeInv
  <1>4. v \in Versions
    BY DEF TypeInv, Rest
  <1>5. s \in Processes
    BY <1>4, IdleType DEF Processes, Programs
  <1>6. /\ s.pc = "open" /\ s.cmd = "daemon" /\ s.lock = NoDir /\ s.stores = NoDir
        /\ s.new = NoDir /\ s.saving = "no"
    BY DEF Idle
  <1>7. Consistent(s)
    BY <1>6, SMTT(60) DEF Consistent, PcsOf, LockPcs, LoadedPcs, StorePcs, GenesisPcs, SavePcs, NodePcs,
           CopyPcs, OpenPcs
  <1> QED
    BY <1>1, <1>2, <1>3, <1>5, <1>6, <1>7, MoveType DEF CopyPcs

\* Only API files go.
SameButAPI(d) ==
  /\ dirs'[d].exists = dirs[d].exists /\ dirs'[d].version = dirs[d].version
  /\ dirs'[d].config = dirs[d].config /\ dirs'[d].tmp = dirs[d].tmp
  /\ dirs'[d].chain = dirs[d].chain /\ dirs'[d].wallet = dirs[d].wallet

LEMMA RemoveFacts ==
  ASSUME TypeInv, NEW closed, removeAPIFile(closed)
  PROVE  DirsOK /\ \A d \in Dirs : SameButAPI(d)
  <1>1. ASSUME NEW d \in Dirs
        PROVE  dirs'[d] \in Directories /\ SameButAPI(d) /\ (~dirs'[d].exists => dirs'[d] = EmptyDir)
    <2>1. dirs[d] \in Directories
      BY DEF TypeInv
    <2>2. CASE dirs'[d] = dirs[d]
      BY <2>1, <2>2 DEF SameButAPI, TypeInv
    <2>3. CASE dirs'[d] = [dirs[d] EXCEPT !.api = NoFile]
      <3>1. dirs'[d] \in Directories /\ SameButAPI(d)
        BY <2>1, <2>3 DEF Directories, SameButAPI, Files
      <3>2. dirs[d].api = NoFile => dirs'[d] = dirs[d]
        BY <2>1, <2>3 DEF Directories
      <3>3. dirs[d] = EmptyDir => dirs[d].api = NoFile
        BY SMTT(60) DEF EmptyDir
      <3> QED
        BY <3>1, <3>2, <3>3 DEF SameButAPI, TypeInv
    <2> QED
      BY <2>2, <2>3 DEF removeAPIFile
  <1>2. dirs' \in [Dirs -> Directories]
    BY <1>1 DEF removeAPIFile
  <1> QED
    BY <1>1, <1>2 DEF DirsOK, SameButAPI

LEMMA StartType ==
  ASSUME TypeInv, NEW p \in Procs, StartNode(p) \/ SetAPIAddr(p) \/ Close(p) \/ Kill(p)
  PROVE  TypeInv'
  <1>1. DirsOK
    <2>1. CASE UNCHANGED dirs
      BY <2>1, DirsKept
    <2>2. ASSUME link # NoDir, NEW a \in Files(Procs), Holds(link, [dirs[link] EXCEPT !.api = a])
          PROVE  DirsOK
      BY <2>2, LinkDir, DirsPut DEF Directories
    <2>3. CASE removeAPIFile({link})
      BY <2>3, RemoveFacts
    <2>4. Truncated \in Files(Procs) /\ Holding(p) \in Files(Procs)
      BY DEF Files
    <2> QED
      BY <2>1, <2>2, <2>3, <2>4 DEF StartNode, SetAPIAddr, Close, Kill
  <1>2. LinkOK
    BY <1>1, LinkKept DEF StartNode, SetAPIAddr, Close, Kill
  <1>3. GhostsOK
    BY GhostsKept, SpendType DEF StartNode, SetAPIAddr, Close, Kill, NoReport, GhostsOK, TypeInv
  <1>4. CASE Ends(p)
    BY <1>1, <1>2, <1>3, <1>4, EndsMove
  <1>5. ASSUME NEW pc \in NodePcs, Goes(p, pc), proc[p].pc \in {"start", "api0", "api"}
        PROVE  TypeInv'
    <2>1. proc[p].saving = "no" /\ NodePcs \subseteq PcsOf(proc[p].cmd)
      BY <1>5, WhoseStep DEF NodePcs, SavePcs, PcsOf
    <2> QED
      BY <1>1, <1>2, <1>3, <1>5, <2>1, GoesMove DEF LockPcs, LoadedPcs, StorePcs, NodePcs, SavePcs
  <1> QED
    BY <1>4, <1>5 DEF StartNode, SetAPIAddr, Close, Kill, NodePcs

LEMMA ConfigPut ==
  ASSUME NEW c \in Configs, NEW n \in Settings, NEW v \in 0 .. 1
  PROVE  [c EXCEPT !.set[n] = v] \in Configs
  BY DEF Configs

LEMMA ConfigSetType ==
  ASSUME TypeInv, NEW p \in Procs, NEW n \in Settings, NEW known \in BOOLEAN, ConfigSet(p, n, known)
  PROVE  TypeInv'
  <1>1. DirsOK /\ LinkOK
    BY DirsKept, LinkKept DEF ConfigSet
  <1>2. GhostsOK
    BY SpendType DEF ConfigSet, GhostsOK, TypeInv
  <1> DEFINE sv == IF known THEN "truncate" ELSE "no"
             dg == IF known THEN n ELSE "none"
  <1>3. /\ Becomes(p, [proc[p] EXCEPT !.mem.set[n] = 1, !.saving = sv, !.doing = dg])
        /\ \/ sv = "no" /\ dg = "none"
           \/ sv = "truncate" /\ dg = n
    BY DEF ConfigSet
  <1> HIDE DEF sv, dg
  <1>4. PICK s : s = [proc[p] EXCEPT !.mem.set[n] = 1, !.saving = sv, !.doing = dg]
    OBVIOUS
  <1>5. proc[p] \in Processes /\ Consistent(proc[p]) /\ proc[p].pc = "running"
    BY DEF TypeInv, ConfigSet
  <1>6. s \in Processes
    <2>0. proc[p].mem \in Configs /\ 1 \in 0 .. 1
      BY <1>5, SMTT(60) DEF Processes
    <2>1. PICK m \in Configs : m = [proc[p].mem EXCEPT !.set[n] = 1]
      BY <2>0, ConfigPut
    <2>2. s = [proc[p] EXCEPT !.mem = m, !.saving = sv, !.doing = dg]
      BY <1>4, <1>5, <2>1 DEF Processes
    <2> QED
      BY <1>3, <1>5, <2>2 DEF Processes
  <1>7. /\ s.pc = "running" /\ s.saving = sv /\ s.cmd = proc[p].cmd /\ s.lock = proc[p].lock
        /\ s.stores = proc[p].stores /\ s.new = proc[p].new /\ s.doing = dg
    BY <1>4, <1>5 DEF Processes
  <1>8. Consistent(s)
    BY <1>3, <1>5, <1>7 DEF Consistent, CopyPcs, SavePcs, Settings
  <1> QED
    BY <1>1, <1>2, <1>3, <1>4, <1>6, <1>7, <1>8, MoveType DEF CopyPcs

\* The configuration file of a directory is rewritten through a temporary file.
LEMMA ConfigFilePut ==
  ASSUME NEW f \in Directories, NEW c \in Configs
  PROVE  /\ [f EXCEPT !.tmp = Truncated] \in Directories /\ [f EXCEPT !.tmp = Holding(c)] \in Directories
         /\ Rename(f) \in Directories /\ [Rename(f) EXCEPT !.api = NoFile] \in Directories
         /\ [f EXCEPT !.tmp = Truncated].exists = f.exists /\ [f EXCEPT !.tmp = Holding(c)].exists = f.exists
         /\ Rename(f).exists = f.exists /\ [Rename(f) EXCEPT !.api = NoFile].exists = f.exists
  <1>1. /\ Truncated \in Files(Configs) /\ Holding(c) \in Files(Configs) /\ NoFile \in Files(Configs)
        /\ NoFile \in Files(Procs)
    BY DEF Files
  <1>2. Rename(f) \in Directories /\ Rename(f).exists = f.exists
    BY <1>1 DEF Rename, Directories
  <1> QED
    BY <1>1, <1>2 DEF Directories

LEMMA ReportType ==
  ASSUME TypeInv, NEW d, Reported(d) \/ HeadReported(d)
  PROVE  behind' \subseteq Dirs
  BY DEF TypeInv, Reported, HeadReported

LEMMA ReplaceConfigType ==
  ASSUME TypeInv, NEW p \in Procs, ReplaceConfig(p)
  PROVE  TypeInv'
  <1> DEFINE r == proc[p]
  <1>1. /\ r \in Processes /\ Consistent(r) /\ Exists(r) /\ r.mem \in Configs /\ r.saving # "no"
        /\ r.pc \in SavePcs \cup {"running"}
    BY WhoseStep DEF TypeInv, ReplaceConfig, Processes
  <1>2. UNCHANGED link /\ refused' \subseteq Settings /\ raced' \in BOOLEAN /\ left' \in Rest
    BY DEF ReplaceConfig, TypeInv, Unspent
  <1>3. r.pc \notin CopyPcs
    BY <1>1 DEF SavePcs, CopyPcs
  <1>4. ASSUME NEW s \in Processes, Becomes(p, s), s.lock = r.lock, s.stores = r.stores, s.new = r.new,
               s.cmd = r.cmd, s.pc = r.pc \/ (r.pc = "initSave" /\ s.pc = "initSave2"),
               s.doing = r.doing \/ s.saving = "no", s.mem.default = r.mem.default, s.saving = "write" => s.at = link /\ link \in Dirs,
               DirsOK, promised' \in Reports, behind' \subseteq Dirs
        PROVE  TypeInv'
    <2>0. s.pc \in PcsOf(s.cmd)
      <3>1. r.pc = "initSave" => r.cmd = "init"
        BY WhoseStep DEF SavePcs
      <3>2. "initSave2" \in PcsOf("init")
        BY DEF PcsOf, SavePcs
      <3> QED
        BY <1>1, <1>4, <3>1, <3>2 DEF Consistent
    <2>1. Consistent(s)
      BY <1>1, <1>3, <1>4, <2>0 DEF Consistent, SavePcs, CopyPcs, StorePcs, LoadedPcs, LockPcs
    <2>2. s.pc \notin CopyPcs
      BY <1>3, <1>4 DEF CopyPcs
    <2>3. s.saving = "write" => s.at = link /\ link # NoDir
      BY <1>4, SMTT(60) DEF Dirs, NoDir
    <2> QED
      BY <1>2, <1>4, <2>1, <2>2, <2>3, LinkKept, MoveType DEF GhostsOK
  <1>5. ASSUME Ends(p), DirsOK, promised' \in Reports, behind' \subseteq Dirs
        PROVE  TypeInv'
    BY <1>2, <1>5, LinkKept, EndsMove DEF GhostsOK
  <1>6. ASSUME UNCHANGED <<promised, behind>>
        PROVE  promised' \in Reports /\ behind' \subseteq Dirs
    BY <1>6 DEF TypeInv
  <1>7. CASE UNCHANGED <<dirs, promised, behind>> /\ Becomes(p, [r EXCEPT !.saving = "no", !.doing = "none"])
    <2>1. PICK s : s = [r EXCEPT !.saving = "no", !.doing = "none"]
      OBVIOUS
    <2>2. /\ s \in Processes /\ s.lock = r.lock /\ s.stores = r.stores /\ s.new = r.new /\ s.cmd = r.cmd
          /\ s.pc = r.pc /\ s.saving = "no" /\ s.mem = r.mem
      BY <1>1, <2>1 DEF Processes
    <2> QED
      BY <1>4, <1>6, <1>7, <2>1, <2>2, DirsKept
  <1>8. CASE /\ link # NoDir /\ Holds(link, [dirs[link] EXCEPT !.tmp = Truncated])
             /\ Becomes(p, [r EXCEPT !.saving = "write", !.at = link]) /\ UNCHANGED <<promised, behind>>
    <2>1. PICK s : s = [r EXCEPT !.saving = "write", !.at = link]
      OBVIOUS
    <2>2. link \in Dirs /\ link \in Nat /\ dirs[link].exists /\ dirs[link] \in Directories
      BY <1>8, LinkDir, SMTT(60) DEF Dirs
    <2>3. /\ s \in Processes /\ s.lock = r.lock /\ s.stores = r.stores /\ s.new = r.new /\ s.cmd = r.cmd
          /\ s.pc = r.pc /\ s.doing = r.doing /\ s.at = link /\ s.mem = r.mem
      BY <1>1, <2>1, <2>2 DEF Processes
    <2>4. DirsOK
      BY <1>1, <1>8, <2>2, ConfigFilePut, DirsPut
    <2> QED
      BY <1>4, <1>6, <1>8, <2>1, <2>2, <2>3, <2>4
  <1>9. CASE /\ r.saving = "write" /\ Holds(r.at, [dirs[r.at] EXCEPT !.tmp = Holding(r.mem)])
             /\ Becomes(p, [r EXCEPT !.saving = "rename"]) /\ UNCHANGED <<promised, behind>>
    <2>1. PICK s : s = [r EXCEPT !.saving = "rename"]
      OBVIOUS
    <2>2. r.at \in Dirs /\ dirs[r.at].exists /\ dirs[r.at] \in Directories
      BY <1>1, <1>9, SMTT(60) DEF Consistent, Exists, TypeInv, Dirs, NoDir
    <2>3. /\ s \in Processes /\ s.lock = r.lock /\ s.stores = r.stores /\ s.new = r.new /\ s.cmd = r.cmd
          /\ s.pc = r.pc /\ s.doing = r.doing /\ s.saving = "rename" /\ s.mem = r.mem
      BY <1>1, <2>1 DEF Processes
    <2>4. DirsOK
      <3>1. /\ [dirs[r.at] EXCEPT !.tmp = Holding(r.mem)] \in Directories
            /\ [dirs[r.at] EXCEPT !.tmp = Holding(r.mem)].exists
        BY <1>1, <2>2, ConfigFilePut
      <3> QED
        BY <1>9, <2>2, <3>1, DirsPut
    <2> QED
      BY <1>4, <1>6, <1>9, <2>1, <2>3, <2>4
  <1>10. CASE link # NoDir /\ ConfigSaved(p, link)
    <2>1. link \in Dirs /\ dirs[link].exists /\ dirs[link] \in Directories
      BY <1>10, LinkDir
    <2>2. DirsOK
      <3>1. CASE Holds(link, Rename(dirs[link]))
        BY <1>1, <2>1, <3>1, ConfigFilePut, DirsPut
      <3>2. CASE Holds(link, [Rename(dirs[link]) EXCEPT !.api = NoFile])
        BY <1>1, <2>1, <3>2, ConfigFilePut, DirsPut
      <3> QED
        BY <1>10, <3>1, <3>2 DEF ConfigSaved
    <2>3. CASE r.pc = "initSave"
      <3>1. PICK v \in {0, 1} : Becomes(p, [r EXCEPT !.pc = "initSave2", !.saving = "truncate",
                                                     !.mem.set["price"] = v])
        BY <1>10, <2>3 DEF ConfigSaved
      <3>2. UNCHANGED <<promised, behind>>
        BY <1>10, <2>3 DEF ConfigSaved
      <3>3. PICK s : s = [r EXCEPT !.pc = "initSave2", !.saving = "truncate", !.mem.set["price"] = v]
        OBVIOUS
      <3>4. PICK m \in Configs : m = [r.mem EXCEPT !.set["price"] = v]
        <4>1. v \in 0 .. 1 /\ "price" \in Settings
          BY SMTT(60) DEF Settings
        <4> QED
          BY <1>1, <4>1, ConfigPut
      <3>5. s = [r EXCEPT !.pc = "initSave2", !.saving = "truncate", !.mem = m]
        BY <1>1, <3>3, <3>4 DEF Processes
      <3>6. /\ s \in Processes /\ s.lock = r.lock /\ s.stores = r.stores /\ s.new = r.new /\ s.cmd = r.cmd
            /\ s.pc = "initSave2" /\ s.doing = r.doing /\ s.saving = "truncate" /\ s.mem = m
        BY <1>1, <3>5 DEF Processes, LockPcs, LoadedPcs, StorePcs, SavePcs
      <3>7. s.mem.default = r.mem.default
        BY <1>1, <3>4, <3>6 DEF Configs
      <3> QED
        BY <1>4, <1>6, <2>2, <2>3, <3>1, <3>2, <3>3, <3>6, <3>7
    <2>4. CASE r.pc = "initSave2"
      <3>1. /\ Ends(p) /\ Reported(link)
            /\ promised' = [promised EXCEPT !.keys = @ \cup {r.mem.default}, !.set["price"] = r.mem.set["price"]]
        BY <1>10, <2>4 DEF ConfigSaved
      <3>2. promised' \in Reports
        <4>1. r.mem.default \in Keys
          BY <1>1, <2>4 DEF Consistent, SavePcs, Configs
        <4> QED
          BY <1>1, <3>1, <4>1 DEF TypeInv, Reports, Configs, Settings
      <3> QED
        BY <1>5, <2>2, <3>1, <3>2, ReportType
    <2>5. CASE r.pc = "running"
      <3>1. PICK s : s = [r EXCEPT !.saving = "no", !.doing = "none"]
        OBVIOUS
      <3>2. /\ Becomes(p, s) /\ Reported(link)
            /\ promised' = [promised EXCEPT !.set[r.doing] = r.mem.set[r.doing]]
        BY <1>10, <2>5, <3>1 DEF ConfigSaved
      <3>3. /\ s \in Processes /\ s.lock = r.lock /\ s.stores = r.stores /\ s.new = r.new /\ s.cmd = r.cmd
            /\ s.pc = r.pc /\ s.saving = "no" /\ s.mem = r.mem
        BY <1>1, <3>1 DEF Processes
      <3>4. promised' \in Reports
        BY <1>1, <2>5, <3>2 DEF TypeInv, Reports, Consistent, Processes, Configs
      <3> QED
        BY <1>4, <2>2, <3>2, <3>3, <3>4, ReportType
    <2> QED
      BY <1>1, <2>3, <2>4, <2>5 DEF SavePcs
  <1>11. CASE UNCHANGED <<dirs, promised, behind>> /\ Ends(p)
    BY <1>5, <1>6, <1>11, DirsKept
  <1> QED
    BY <1>7, <1>8, <1>9, <1>10, <1>11 DEF ReplaceConfig, ReplaceConfigFails

LEMMA NodeType ==
  ASSUME TypeInv, NEW p \in Procs, NewAddress(p) \/ PutTipSetMetadata(p) \/ SetHead(p)
  PROVE  TypeInv'
  <1> DEFINE d == proc[p].stores
             c == dirs[d].chain
  <1>1. proc[p].pc = "running"
    BY DEF NewAddress, PutTipSetMetadata, SetHead
  <1>2. d \in Dirs /\ dirs[d].exists /\ dirs[d] \in Directories
    BY <1>1, StoresDir DEF StorePcs, NodePcs
  <1>3. c.head \in Nat /\ (c.head < MaxHeight => c.head + 1 \in 0 .. MaxHeight)
    BY <1>2, RepositoryAssumption, SMTT(60) DEF Directories, Chains
  <1>4. DirsOK
    <2>1. CASE NewAddress(p)
      <3>1. PICK k \in Keys : Holds(d, [dirs[d] EXCEPT !.wallet = @ \cup {k}])
        BY <2>1, FreshKeysAreKeys DEF NewAddress
      <3> QED
        BY <1>2, <3>1, DirsPut, SMTT(60) DEF Directories
    <2>2. CASE PutTipSetMetadata(p)
      <3>1. PICK f : f = [dirs[d] EXCEPT !.chain.meta[c.head + 1] = Written(proc[p].ver)] /\ Holds(d, f)
        BY <2>2 DEF PutTipSetMetadata
      <3>2. Written(proc[p].ver) \in Encodings /\ c.head + 1 \in 0 .. MaxHeight
        BY <1>3, <2>2 DEF Written, Encodings, PutTipSetMetadata
      <3>3. f \in Directories
        BY <1>2, <3>1, <3>2, ChainPut
      <3>4. f.exists
        BY <1>2, <3>1 DEF Directories
      <3> QED
        BY <1>2, <3>1, <3>3, <3>4, DirsPut
    <2>3. CASE SetHead(p)
      <3>1. PICK f : f = [dirs[d] EXCEPT !.chain.head = c.head + 1] /\ Holds(d, f)
        BY <2>3 DEF SetHead
      <3>2. "none" \in Encodings /\ c.head + 1 \in 0 .. MaxHeight
        BY <1>3, <2>3 DEF Encodings, SetHead
      <3>3. f \in Directories
        BY <1>2, <3>1, <3>2, ChainPut
      <3>4. f.exists
        BY <1>2, <3>1 DEF Directories
      <3> QED
        BY <1>2, <3>1, <3>3, <3>4, DirsPut
    <2> QED
      BY <2>1, <2>2, <2>3
  <1>5. LinkOK
    BY <1>4, LinkKept DEF NewAddress, PutTipSetMetadata, SetHead
  <1>6. GhostsOK
    <2>1. left' \in Rest
      BY SpendType DEF NewAddress, PutTipSetMetadata, SetHead, Unspent, TypeInv
    <2>2. CASE NewAddress(p)
      BY <2>1, <2>2, ReportType, FreshKeysAreKeys DEF NewAddress, GhostsOK, TypeInv, Reports
    <2>3. CASE PutTipSetMetadata(p)
      BY <2>1, <2>3 DEF PutTipSetMetadata, NoReport, GhostsOK, TypeInv
    <2>4. CASE SetHead(p)
      BY <1>3, <2>1, <2>4, ReportType DEF SetHead, GhostsOK, TypeInv, Reports
    <2> QED
      BY <2>2, <2>3, <2>4
  <1>7. Becomes(p, proc[p]) /\ proc[p] \in Processes /\ Consistent(proc[p])
    BY DEF NewAddress, PutTipSetMetadata, SetHead, Becomes, TypeInv
  <1>8. PICK s : s = proc[p]
    OBVIOUS
  <1> QED
    BY <1>4, <1>5, <1>6, <1>7, <1>8, MoveType

LEMMA TargetVersion == getTargetMigrationVersion = Version
  <1>1. {m.to : m \in MigrationsProvider} = {2}
    BY SMTT(60) DEF MigrationsProvider
  <1> QED
    BY <1>1, SMTT(60) DEF getTargetMigrationVersion, MigrationsProvider, Version

LEMMA MigrationRunType ==
  ASSUME TypeInv, NEW p \in Procs, NEW cmd \in {"migrate", "buildonly", "install"}, MigrationRun(p, cmd)
  PROVE  TypeInv'
  <1>1. link \in Dirs /\ dirs[link].exists /\ link \in Nat /\ UNCHANGED link
    BY LinkDir, SMTT(60) DEF MigrationRun, Dirs
  <1>2. PICK v \in Versions, d \in Dirs :
           \/ /\ dirs[d].exists /\ cmd = "install" /\ UNCHANGED <<dirs, behind>>
              /\ Becomes(p, [Idle EXCEPT !.pc = "unlink", !.cmd = cmd, !.new = d])
           \/ /\ Holds(d, [dirs[d] EXCEPT !.exists = TRUE]) /\ cmd # "install"
              /\ Lacks(d, link \in behind)
              /\ Becomes(p, [Idle EXCEPT !.pc = "copy1", !.cmd = cmd, !.ver = v, !.new = d, !.at = link])
    BY DEF MigrationRun
  <1>3. GhostsOK
    BY <1>2, SpendType DEF MigrationRun, GhostsOK, TypeInv, Lacks
  <1>4. d # NoDir
    BY SMTT(60) DEF Dirs, NoDir
  <1>5. CASE /\ dirs[d].exists /\ cmd = "install" /\ UNCHANGED <<dirs, behind>>
             /\ Becomes(p, [Idle EXCEPT !.pc = "unlink", !.cmd = cmd, !.new = d])
    <2> DEFINE s == [Idle EXCEPT !.pc = "unlink", !.cmd = cmd, !.new = d]
    <2>1. DirsOK /\ LinkOK
      BY <1>1, <1>5, DirsKept, LinkKept
    <2>2. s \in Processes
      BY <1>5, IdleType DEF Processes, InstallPcs, Programs, MaybeDir
    <2>3. /\ s.pc = "unlink" /\ s.cmd = "install" /\ s.lock = NoDir /\ s.stores = NoDir
          /\ s.new = d /\ s.saving = "no"
      BY <1>5 DEF Idle
    <2>4. Consistent(s)
      BY <1>4, <2>3, SMTT(60) DEF Consistent, PcsOf, LockPcs, LoadedPcs, StorePcs, GenesisPcs, SavePcs, NodePcs,
             CopyPcs, InstallPcs
    <2>5. Exists(s)'
      BY <1>5, <2>3 DEF Exists, CopyPcs
    <2> QED
      BY <1>3, <1>5, <2>1, <2>2, <2>4, <2>5, TypeFrame
  <1>6. CASE /\ Holds(d, [dirs[d] EXCEPT !.exists = TRUE]) /\ cmd # "install"
             /\ Becomes(p, [Idle EXCEPT !.pc = "copy1", !.cmd = cmd, !.ver = v, !.new = d, !.at = link])
    <2>1. PICK s : s = [Idle EXCEPT !.pc = "copy1", !.cmd = cmd, !.ver = v, !.new = d, !.at = link]
      OBVIOUS
    <2>2. [dirs[d] EXCEPT !.exists = TRUE] \in Directories /\ [dirs[d] EXCEPT !.exists = TRUE].exists
      BY DEF TypeInv, Directories
    <2>3. DirsOK /\ dirs'[d].exists
      BY <1>6, <2>2, DirsPut, HoldsFacts
    <2>4. LinkOK /\ dirs'[link].exists
      BY <1>1, <2>3, LinkKept DEF DirsOK
    <2>5. s \in Processes
      BY <1>1, <2>1, IdleType DEF Processes, BuildPcs, CopyPcs, Programs, MaybeDir
    <2>6. /\ s.pc = "copy1" /\ s.cmd = cmd /\ s.lock = NoDir /\ s.stores = NoDir
          /\ s.new = d /\ s.saving = "no" /\ s.at = link
      BY <2>1 DEF Idle
    <2>7. Consistent(s)
      BY <1>1, <1>4, <1>6, <2>6 DEF Consistent, PcsOf, LockPcs, LoadedPcs, StorePcs, GenesisPcs, SavePcs, NodePcs,
             CopyPcs, BuildPcs
    <2>8. Exists(s)'
      BY <1>1, <2>3, <2>4, <2>6 DEF Exists, CopyPcs
    <2> QED
      BY <1>3, <1>6, <2>1, <2>3, <2>4, <2>5, <2>7, <2>8, TypeFrame
  <1> QED
    BY <1>2, <1>5, <1>6

\* The steps of a migration before Validate.
LEMMA BuildType ==
  ASSUME TypeInv, NEW p \in Procs, CloneRepo(p) \/ Migrate(p) \/ convertJSONtoCBOR(p) \/ writeHeadAsCBOR(p)
  PROVE  TypeInv'
  <1> DEFINE r == proc[p]
             d == proc[p].new
  <1>1. r \in Processes /\ Consistent(r) /\ Exists(r) /\ r.pc \in BuildPcs
    BY DEF TypeInv, CloneRepo, Migrate, convertJSONtoCBOR, writeHeadAsCBOR, BuildPcs, CopyPcs
  <1>2. /\ d \in Dirs /\ dirs[d].exists /\ dirs[d] \in Directories
        /\ r.cmd \in {"migrate", "buildonly"} /\ r.saving = "no"
    BY <1>1, NewDir, WhoseStep DEF BuildPcs, CopyPcs, SavePcs
  <1>3. GhostsOK /\ UNCHANGED link
    BY GhostsKept DEF CloneRepo, Migrate, convertJSONtoCBOR, writeHeadAsCBOR
  <1>4. ASSUME DirsOK, Ends(p)
        PROVE  TypeInv'
    BY <1>3, <1>4, LinkKept, EndsMove
  <1>5. ASSUME DirsOK, NEW pc \in {"copy2", "migrate", "convertHead", "open"}, Goes(p, pc),
               pc = "copy2" => r.pc = "copy1"
        PROVE  TypeInv'
    <2>1. pc \in PcsOf(r.cmd) \ (SavePcs \cup {"convert", "copy1"})
      BY <1>2, <1>5 DEF PcsOf, BuildPcs, CopyPcs, OpenPcs, SavePcs
    <2>2. {pc, r.pc} \intersect LockPcs = {} /\ {pc, r.pc} \intersect StorePcs = {}
      BY <1>1, <1>5 DEF BuildPcs, CopyPcs, LockPcs, LoadedPcs, StorePcs, GenesisPcs, SavePcs, NodePcs
    <2> QED
      BY <1>2, <1>3, <1>5, <2>1, <2>2, LinkKept, GoesMove
  <1>6. ASSUME DirsOK, NEW h \in 0 .. MaxHeight, Becomes(p, [r EXCEPT !.pc = "convert", !.at = h])
        PROVE  TypeInv'
    <2>1. PICK s : s = [r EXCEPT !.pc = "convert", !.at = h]
      OBVIOUS
    <2>2. /\ s.pc = "convert" /\ s.at = h /\ s.cmd = r.cmd /\ s.lock = r.lock /\ s.stores = r.stores
          /\ s.new = r.new /\ s.saving = "no"
      BY <1>1, <1>2, <2>1 DEF Processes
    <2>3. s \in Processes
      <3>1. h \in Nat /\ "convert" \in BuildPcs
        BY SMTT(60) DEF BuildPcs
      <3> QED
        BY <1>1, <2>1, <3>1 DEF Processes
    <2>4. "convert" \in PcsOf(r.cmd)
      BY <1>2 DEF PcsOf, BuildPcs
    <2>5. {"convert", r.pc} \intersect LockPcs = {} /\ {"convert", r.pc} \intersect StorePcs = {}
      BY <1>1 DEF BuildPcs, CopyPcs, LockPcs, LoadedPcs, StorePcs, GenesisPcs, SavePcs, NodePcs
    <2>6. Consistent(s)
      BY <1>1, <1>2, <2>2, <2>4, <2>5 DEF Consistent, CopyPcs, SavePcs
    <2> QED
      BY <1>3, <1>6, <2>1, <2>2, <2>3, <2>6, LinkKept, MoveType DEF CopyPcs
  <1>7. ASSUME NEW f \in Directories, f.exists, Holds(d, f)
        PROVE  DirsOK
    BY <1>2, <1>7, DirsPut
  <1>8. CASE CloneRepo(p)
    <2> DEFINE from == dirs[r.at]
    <2>1. from \in Directories
      BY <1>1, <1>8 DEF CloneRepo, Consistent, CopyPcs, TypeInv
    <2>2. CASE r.pc = "copy1"
      <3>1. PICK f : f = [dirs[d] EXCEPT !.api = from.api, !.chain = from.chain, !.config = from.config]
        OBVIOUS
      <3>2. Holds(d, f) /\ Goes(p, "copy2")
        BY <1>8, <2>2, <3>1 DEF CloneRepo
      <3>3. f \in Directories /\ f.exists
        BY <1>2, <2>1, <3>1 DEF Directories
      <3> QED
        BY <1>5, <1>7, <2>2, <3>2, <3>3
    <2>3. CASE r.pc = "copy2"
      <3>1. PICK f : f = [dirs[d] EXCEPT !.peerKey = from.peerKey, !.tmp = from.tmp,
                                         !.version = from.version, !.wallet = from.wallet]
        OBVIOUS
      <3>2. Holds(d, f) /\ Goes(p, "migrate")
        BY <1>8, <2>3, <3>1 DEF CloneRepo
      <3>3. f \in Directories /\ f.exists
        BY <1>2, <2>1, <3>1 DEF Directories
      <3> QED
        BY <1>5, <1>7, <3>2, <3>3
    <2> QED
      BY <1>8, <2>2, <2>3 DEF CloneRepo
  <1>9. CASE Migrate(p)
    <2>1. DirsOK
      BY <1>9, DirsKept DEF Migrate
    <2>2. dirs[d].chain.head \in 0 .. MaxHeight
      BY <1>2 DEF Directories, Chains
    <2> QED
      BY <1>4, <1>6, <1>9, <2>1, <2>2 DEF Migrate
  <1>10. CASE convertJSONtoCBOR(p)
    <2>1. r.pc = "convert" /\ r.at \in 0 .. MaxHeight
      BY <1>1, <1>10 DEF convertJSONtoCBOR, Consistent
    <2>2. CASE UNCHANGED dirs /\ Ends(p)
      BY <1>4, <2>2, DirsKept
    <2>3. CASE Holds(d, [dirs[d] EXCEPT !.chain.meta[r.at] = "root"])
      <3>1. PICK f : f = [dirs[d] EXCEPT !.chain.meta[r.at] = "root"]
        OBVIOUS
      <3>2. f \in Directories
        BY <1>2, <2>1, <3>1, ChainPut DEF Encodings
      <3>3. f.exists
        BY <1>2, <3>1 DEF Directories
      <3>4. DirsOK
        BY <1>7, <2>3, <3>1, <3>2, <3>3
      <3>5. CASE Goes(p, "convertHead")
        BY <1>5, <3>4, <3>5
      <3>6. CASE r.at # 0 /\ Becomes(p, [r EXCEPT !.at = r.at - 1])
        <4>1. r.at - 1 \in 0 .. MaxHeight
          BY <2>1, <3>6, RepositoryAssumption, SMTT(60)
        <4>2. [r EXCEPT !.at = r.at - 1] = [r EXCEPT !.pc = "convert", !.at = r.at - 1]
          BY <1>1, <2>1 DEF Processes
        <4> QED
          BY <1>6, <3>4, <3>6, <4>1, <4>2
      <3> QED
        BY <1>10, <2>2, <3>5, <3>6 DEF convertJSONtoCBOR
    <2> QED
      BY <1>10, <2>2, <2>3 DEF convertJSONtoCBOR
  <1>11. CASE writeHeadAsCBOR(p)
    <2>1. PICK f : f = [dirs[d] EXCEPT !.chain.headAs = "root", !.api = NoFile]
      OBVIOUS
    <2>2. Holds(d, f) /\ Goes(p, "open")
      BY <1>11, <2>1 DEF writeHeadAsCBOR
    <2>3. f \in Directories /\ f.exists
      BY <1>2, <2>1 DEF Directories, Chains, Encodings, Files
    <2> QED
      BY <1>5, <1>7, <2>2, <2>3
  <1> QED
    BY <1>8, <1>9, <1>10, <1>11

LEMMA ValidateType ==
  ASSUME TypeInv, NEW p \in Procs, Validate(p)
  PROVE  TypeInv'
  <1> DEFINE r == proc[p]
  <1>1. /\ r \in Processes /\ Consistent(r) /\ r.pc = "compare" /\ r.cmd \in {"migrate", "buildonly"}
        /\ r.new \in Dirs /\ r.saving = "no"
    BY NewDir, WhoseStep DEF Validate, TypeInv, SavePcs
  <1>2. DirsOK
    BY RemoveFacts DEF Validate
  <1>3. LinkOK
    BY <1>2, LinkKept DEF Validate
  <1>4. GhostsOK
    BY <1>1 DEF Validate, Lacks, GhostsOK, TypeInv, Unspent
  <1>5. CASE Ends(p)
    BY <1>2, <1>3, <1>4, <1>5, EndsMove
  <1>6. CASE Becomes(p, [r EXCEPT !.pc = "version0", !.lock = NoDir, !.stores = NoDir])
    <2>1. PICK s : s = [r EXCEPT !.pc = "version0", !.lock = NoDir, !.stores = NoDir]
      OBVIOUS
    <2>2. s \in Processes
      BY <1>1, <2>1 DEF Processes, InitPcs, MaybeDir
    <2>3. /\ s.pc = "version0" /\ s.lock = NoDir /\ s.stores = NoDir /\ s.cmd = r.cmd /\ s.new = r.new
          /\ s.saving = "no"
      BY <1>1, <2>1 DEF Processes
    <2>4. Consistent(s)
      BY <1>1, <2>3 DEF Consistent, PcsOf, FinishPcs, LockPcs, LoadedPcs, StorePcs, GenesisPcs, SavePcs,
         NodePcs, CopyPcs
    <2> QED
      BY <1>2, <1>3, <1>4, <1>6, <2>1, <2>2, <2>3, <2>4, MoveType DEF CopyPcs
  <1> QED
    BY <1>5, <1>6 DEF Validate

LEMMA InstallType ==
  ASSUME TypeInv, NEW p \in Procs, InstallNewRepo(p)
  PROVE  TypeInv'
  <1>1. /\ proc[p].pc \in InstallPcs /\ proc[p].cmd \in {"migrate", "install"}
        /\ proc[p].new \in Dirs /\ dirs[proc[p].new].exists /\ proc[p].saving = "no"
    BY NewDir, WhoseStep DEF InstallNewRepo, InstallPcs, SavePcs
  <1>2. DirsOK
    BY DirsKept DEF InstallNewRepo
  <1>3. LinkOK
    BY <1>1 DEF InstallNewRepo, PointLinkTo, LinkOK, TypeInv, MaybeDir
  <1>4. GhostsOK
    BY DEF InstallNewRepo, PointLinkTo, GhostsOK, TypeInv, Unspent
  <1>5. CASE Ends(p)
    BY <1>2, <1>3, <1>4, <1>5, EndsMove
  <1>6. CASE Goes(p, "relink")
    <2>1. "relink" \in PcsOf(proc[p].cmd) \ (SavePcs \cup {"convert", "copy1"})
      BY <1>1 DEF PcsOf, InstallPcs, SavePcs
    <2> QED
      BY <1>1, <1>2, <1>3, <1>4, <1>6, <2>1, GoesMove DEF InstallPcs, LockPcs, LoadedPcs, StorePcs,
         GenesisPcs, SavePcs, NodePcs
  <1> QED
    BY <1>5, <1>6 DEF InstallNewRepo

LEMMA TypeInit == Init => TypeInv
  <1> SUFFICES ASSUME Init
               PROVE  TypeInv
    OBVIOUS
  <1>1. NewDefaultConfig \in Configs /\ 0 \in 0 .. MaxHeight /\ 1 \in Dirs
    BY RepositoryAssumption, SMTT(60) DEF NewDefaultConfig, Configs, Dirs
  <1>2. EmptyChain \in Chains
    BY <1>1 DEF EmptyChain, Chains, Encodings
  <1>3. EmptyDir \in Directories
    BY <1>2 DEF EmptyDir, Directories, Files
  <1>4. ASSUME NEW v \in Versions
        PROVE  Initialised(v) \in Directories /\ Initialised(v).exists
    <2>1. [NewDefaultConfig EXCEPT !.default = 1] \in Configs
      BY <1>1, RepositoryAssumption DEF Configs
    <2>2. [EmptyChain EXCEPT !.genesis = TRUE, !.meta[0] = Written(v), !.headAs = HeadWritten(v)] \in Chains
      BY <1>1, <1>2 DEF Chains, Written, HeadWritten, Encodings
    <2>3. Holding(v) \in Files(Versions) /\ Holding([NewDefaultConfig EXCEPT !.default = 1]) \in Files(Configs)
      BY <2>1 DEF Files
    <2> QED
      BY <1>3, <2>2, <2>3, RepositoryAssumption DEF Initialised, Directories
  <1>5. left \in Rest
    BY RepositoryAssumption DEF Init, Rest
  <1>6. link \in MaybeDir /\ (link # NoDir => left.from \in Versions)
    BY <1>1, <1>5 DEF Init, MaybeDir, Rest
  <1>7. dirs \in [Dirs -> Directories] /\ (link # NoDir => dirs[link].exists)
    BY <1>3, <1>4, <1>6, SMTT(60) DEF Init, MaybeDir, NoDir, Dirs
  <1>8. \A d \in Dirs : ~dirs[d].exists => dirs[d] = EmptyDir
    BY <1>4, <1>6, SMTT(60) DEF Init, Dirs, NoDir
  <1>9. \A p \in Procs : proc[p] = Idle /\ Consistent(Idle) /\ Exists(Idle)
    BY IdleType DEF Init, Exists, Idle, CopyPcs
  <1>10. promised \in Reports
    BY <1>1, RepositoryAssumption, SMTT(60) DEF Init, NothingYet, Reports
  <1> QED
    BY <1>5, <1>6, <1>7, <1>8, <1>9, <1>10, IdleType DEF Init, TypeInv

LEMMA TypeStep == TypeInv /\ [Next]_vars => TypeInv'
  <1> SUFFICES ASSUME TypeInv, [Next]_vars
               PROVE  TypeInv'
    OBVIOUS
  <1>1. CASE UNCHANGED vars
    BY <1>1 DEF vars, TypeInv, Exists
  <1>2. CASE Next
    BY <1>2, OpenType, MakeType, InitFSRepoType, SymlinkType, InitChainType, DefaultKeyType, DaemonType,
       StartType, ConfigSetType, ReplaceConfigType, NodeType, MigrationRunType, BuildType, ValidateType,
       InstallType DEF Next
  <1> QED
    BY <1>1, <1>2

-----------------------------------------------------------------------------
(* The lock *)

\* An init that makes its directory, and a migration that makes a clone.
Maker(r) == r.cmd = "init" /\ r.pc \in InitPcs
Cloner(r) == r.cmd \in {"migrate", "buildonly"} /\ r.pc \notin InstallPcs

\* A process goes from r to s without acquiring anything.
Milder(r, s) ==
  /\ s.lock \in {NoDir, r.lock} /\ s.stores \in {NoDir, r.stores, s.lock} /\ s.new \in {NoDir, r.new}
  /\ Maker(s) => Maker(r) /\ s.new = r.new
  /\ Cloner(s) => Cloner(r) /\ s.new = r.new
  /\ s.pc \in CopyPcs => r.pc \in CopyPcs /\ s.at = r.at

\* Only p takes a step, and acquires nothing.
Alone(p) == \A q \in Procs \ {p} : proc'[q] = proc[q]
Eases(p) == Alone(p) /\ Milder(proc[p], proc'[p])

LEMMA StepOfOne ==
  ASSUME TypeInv, NEW p \in Procs, NEW r, Becomes(p, r)
  PROVE  Alone(p) /\ proc'[p] = r
  BY DEF TypeInv, Becomes, Alone

LEMMA EndsEases ==
  ASSUME TypeInv, NEW p \in Procs, Ends(p)
  PROVE  Eases(p)
  BY StepOfOne, SMTT(60) DEF Ends, Eases, Milder, Idle, Maker, Cloner, CopyPcs, InitPcs

LEMMA GoesEases ==
  ASSUME TypeInv, NEW p \in Procs, NEW pc, Goes(p, pc),
         proc[p].cmd = "init" /\ pc \in InitPcs => proc[p].pc \in InitPcs,
         proc[p].pc \in InstallPcs => pc \in InstallPcs,
         pc \in CopyPcs => proc[p].pc \in CopyPcs
  PROVE  Eases(p)
  <1>1. PICK s : s = [proc[p] EXCEPT !.pc = pc]
    OBVIOUS
  <1>2. Alone(p) /\ proc'[p] = s
    BY <1>1, StepOfOne DEF Goes
  <1>3. /\ s.pc = pc /\ s.cmd = proc[p].cmd /\ s.lock = proc[p].lock /\ s.stores = proc[p].stores
        /\ s.new = proc[p].new /\ s.at = proc[p].at
    BY <1>1 DEF TypeInv, Processes
  <1> QED
    BY <1>2, <1>3 DEF Eases, Milder, Maker, Cloner

\* A process that changes neither its counter nor its directories.
LEMMA StaysEases ==
  ASSUME TypeInv, NEW p \in Procs, NEW s, Becomes(p, s), s.pc = proc[p].pc, s.cmd = proc[p].cmd,
         s.lock = proc[p].lock, s.stores = proc[p].stores, s.new = proc[p].new,
         s.pc \in CopyPcs => s.at = proc[p].at
  PROVE  Eases(p)
  BY StepOfOne DEF Eases, Milder, Maker, Cloner

\* The steps by which a process acquires nothing.
EasyStep(p) ==
  \/ WriteVersion(p) \/ initConfig(p) \/ InitSymlink(p)
  \/ InitChain(p) \/ initDefaultKey(p) \/ ReplaceConfig(p)
  \/ StartNode(p) \/ SetAPIAddr(p)
  \/ NewAddress(p) \/ PutTipSetMetadata(p) \/ SetHead(p) \/ Close(p) \/ Kill(p)
  \/ CloneRepo(p) \/ Migrate(p) \/ convertJSONtoCBOR(p) \/ writeHeadAsCBOR(p)
  \/ Validate(p) \/ InstallNewRepo(p)
  \/ \E v \in left.versions : Daemon(p, v)
  \/ \E s \in Settings, known \in BOOLEAN : ConfigSet(p, s, known)
  \/ Open(p) /\ proc[p].pc = "loadVersion"

LEMMA EasyStepEases ==
  ASSUME TypeInv, NEW p \in Procs, EasyStep(p)
  PROVE  Eases(p)
  <1> DEFINE r == proc[p]
  <1>0. r \in Processes
    BY DEF TypeInv
  <1>1. CASE Ends(p)
    BY <1>1, EndsEases
  <1>2. CASE WriteVersion(p)
    <2>1. r.pc \in {"version0", "version"} /\ r.pc \notin InstallPcs /\ r.pc \in InitPcs
      BY <1>2 DEF WriteVersion, InstallPcs, InitPcs
    <2>2. Ends(p) \/ \E pc \in {"version", "config0", "unlink"} : Goes(p, pc)
      BY <1>2 DEF WriteVersion
    <2> QED
      BY <1>1, <2>1, <2>2, GoesEases DEF CopyPcs
  <1>3. CASE initConfig(p)
    <2>1. r.pc \notin InstallPcs /\ r.pc \in InitPcs
      BY <1>3 DEF initConfig, InstallPcs, InitPcs
    <2>2. Ends(p) \/ \E pc \in {"config", "symlink"} : Goes(p, pc)
      BY <1>3 DEF initConfig
    <2> QED
      BY <1>1, <2>1, <2>2, GoesEases DEF CopyPcs
  <1>4. CASE InitSymlink(p)
    BY <1>1, <1>4, GoesEases DEF InitSymlink, CopyPcs, InitPcs, InstallPcs
  <1>5. CASE InitChain(p)
    <2>1. r.pc \notin InstallPcs
      BY <1>5 DEF InitChain, InstallPcs
    <2>2. \E pc \in {"genesisHead", "genesisKey", "peerKey", "defaultKey"} : Goes(p, pc)
      BY <1>5 DEF InitChain
    <2> QED
      BY <2>1, <2>2, GoesEases DEF CopyPcs, InitPcs
  <1>6. CASE initDefaultKey(p)
    <2>1. PICK k : Becomes(p, [r EXCEPT !.mem.default = k, !.pc = "initSave", !.saving = "truncate"])
      BY <1>6 DEF initDefaultKey
    <2>2. PICK s : s = [r EXCEPT !.mem.default = k, !.pc = "initSave", !.saving = "truncate"]
      OBVIOUS
    <2>3. /\ s.pc = "initSave" /\ s.cmd = r.cmd /\ s.lock = r.lock /\ s.stores = r.stores
          /\ s.new = r.new
      BY <1>0, <2>2 DEF Processes
    <2>4. r.pc = "defaultKey"
      BY <1>6 DEF initDefaultKey
    <2> QED
      BY <2>1, <2>2, <2>3, <2>4, StepOfOne DEF Eases, Milder, Maker, Cloner, CopyPcs, InitPcs, InstallPcs
  <1>7. CASE ReplaceConfig(p)
    <2>1. r.pc \in {"initSave", "initSave2", "running"}
      BY <1>7, WhoseStep DEF ReplaceConfig, SavePcs
    <2>2. ASSUME NEW s, Becomes(p, s), s.pc \in {r.pc, "initSave2"}, s.cmd = r.cmd, s.lock = r.lock,
                 s.stores = r.stores, s.new = r.new
          PROVE  Eases(p)
      BY <2>1, <2>2, StepOfOne DEF Eases, Milder, Maker, Cloner, CopyPcs, InitPcs, InstallPcs
    <2>3. ASSUME NEW v, Becomes(p, [r EXCEPT !.pc = "initSave2", !.saving = "truncate",
                                             !.mem.set["price"] = v])
          PROVE  Eases(p)
      BY <1>0, <2>2, <2>3 DEF Processes
    <2>4. ASSUME Becomes(p, [r EXCEPT !.saving = "no", !.doing = "none"])
          PROVE  Eases(p)
      BY <1>0, <2>2, <2>4 DEF Processes
    <2>5. ASSUME Becomes(p, [r EXCEPT !.saving = "write", !.at = link])
          PROVE  Eases(p)
      BY <1>0, <2>2, <2>5 DEF Processes
    <2>6. ASSUME Becomes(p, [r EXCEPT !.saving = "rename"])
          PROVE  Eases(p)
      BY <1>0, <2>2, <2>6 DEF Processes
    <2>7. CASE ConfigSaved(p, link)
      BY <1>1, <2>3, <2>4, <2>7 DEF ConfigSaved
    <2> QED
      BY <1>1, <1>7, <2>4, <2>5, <2>6, <2>7 DEF ReplaceConfig
  <1>8. CASE StartNode(p) \/ SetAPIAddr(p) \/ Close(p) \/ Kill(p)
    <2>1. ASSUME NEW pc \in NodePcs, Goes(p, pc), r.pc \in {"start", "api0", "api"}
          PROVE  Eases(p)
      BY <2>1, GoesEases DEF NodePcs, InstallPcs, InitPcs, CopyPcs
    <2> QED
      BY <1>1, <1>8, <2>1 DEF StartNode, SetAPIAddr, Close, Kill, NodePcs
  <1>9. CASE NewAddress(p) \/ PutTipSetMetadata(p) \/ SetHead(p)
    <2>1. Becomes(p, r)
      BY <1>9 DEF NewAddress, PutTipSetMetadata, SetHead, Becomes, TypeInv
    <2> QED
      BY <2>1, StaysEases
  <1>10. CASE CloneRepo(p) \/ Migrate(p) \/ convertJSONtoCBOR(p) \/ writeHeadAsCBOR(p)
    <2>1. r.pc \in BuildPcs /\ r.pc \notin InstallPcs
      BY <1>10 DEF CloneRepo, Migrate, convertJSONtoCBOR, writeHeadAsCBOR, BuildPcs, CopyPcs, InstallPcs
    <2>2. ASSUME NEW pc \in {"copy2", "migrate", "convertHead", "open"}, Goes(p, pc), 
                 pc = "copy2" => r.pc = "copy1"
          PROVE  Eases(p)
      BY <2>1, <2>2, GoesEases DEF InitPcs, CopyPcs
    <2>3. ASSUME NEW h, Becomes(p, [r EXCEPT !.pc = "convert", !.at = h])
          PROVE  Eases(p)
      <3>1. PICK s : s = [r EXCEPT !.pc = "convert", !.at = h]
        OBVIOUS
      <3>2. s.pc = "convert" /\ s.cmd = r.cmd /\ s.lock = r.lock /\ s.stores = r.stores /\ s.new = r.new
        BY <1>0, <3>1 DEF Processes
      <3> QED
        BY <2>1, <2>3, <3>1, <3>2, StepOfOne DEF Eases, Milder, Maker, Cloner, CopyPcs, InitPcs
    <2>4. ASSUME NEW h, Becomes(p, [r EXCEPT !.at = h]), r.pc = "convert"
          PROVE  Eases(p)
      <3>1. [r EXCEPT !.at = h] = [r EXCEPT !.pc = "convert", !.at = h]
        BY <1>0, <2>4 DEF Processes
      <3> QED
        BY <2>3, <2>4, <3>1
    <2>5. CASE CloneRepo(p) \/ writeHeadAsCBOR(p)
      BY <2>2, <2>5 DEF CloneRepo, writeHeadAsCBOR
    <2>6. CASE Migrate(p)
      BY <1>1, <2>3, <2>6 DEF Migrate
    <2>7. CASE convertJSONtoCBOR(p)
      BY <1>1, <2>2, <2>4, <2>7 DEF convertJSONtoCBOR
    <2> QED
      BY <1>10, <2>5, <2>6, <2>7
  <1>11. CASE Validate(p)
    <2>1. ASSUME Becomes(p, [r EXCEPT !.pc = "version0", !.lock = NoDir, !.stores = NoDir])
          PROVE  Eases(p)
      <3>1. PICK s : s = [r EXCEPT !.pc = "version0", !.lock = NoDir, !.stores = NoDir]
        OBVIOUS
      <3>2. s.pc = "version0" /\ s.cmd = r.cmd /\ s.lock = NoDir /\ s.stores = NoDir /\ s.new = r.new
        BY <1>0, <3>1 DEF Processes
      <3>3. r.pc = "compare" /\ r.cmd \in {"migrate", "buildonly"}
        BY <1>11, WhoseStep DEF Validate
      <3> QED
        BY <2>1, <3>1, <3>2, <3>3, StepOfOne DEF Eases, Milder, Maker, Cloner, CopyPcs, InstallPcs
    <2> QED
      BY <1>1, <1>11, <2>1 DEF Validate
  <1>12. CASE InstallNewRepo(p)
    BY <1>1, <1>12, GoesEases DEF InstallNewRepo, CopyPcs, InitPcs, InstallPcs
  <1>13. CASE \E v \in left.versions : Daemon(p, v)
    <2>1. PICK v : Becomes(p, [Idle EXCEPT !.pc = "open", !.cmd = "daemon", !.ver = v])
      BY <1>13 DEF Daemon
    <2>2. PICK s : s = [Idle EXCEPT !.pc = "open", !.cmd = "daemon", !.ver = v]
      OBVIOUS
    <2>3. s.pc = "open" /\ s.cmd = "daemon" /\ s.lock = NoDir /\ s.stores = NoDir /\ s.new = NoDir
      BY <2>2 DEF Idle
    <2> QED
      BY <2>1, <2>2, <2>3, StepOfOne DEF Eases, Milder, Maker, Cloner, CopyPcs
  <1>14. CASE \E n \in Settings, known \in BOOLEAN : ConfigSet(p, n, known)
    <2>1. PICK n, sv, dg : Becomes(p, [r EXCEPT !.mem.set[n] = 1, !.saving = sv, !.doing = dg])
      BY <1>14 DEF ConfigSet
    <2>2. PICK s : s = [r EXCEPT !.mem.set[n] = 1, !.saving = sv, !.doing = dg]
      OBVIOUS
    <2>3. /\ s.pc = r.pc /\ s.cmd = r.cmd /\ s.lock = r.lock /\ s.stores = r.stores /\ s.new = r.new
          /\ s.at = r.at
      BY <1>0, <2>2 DEF Processes
    <2> QED
      BY <2>1, <2>2, <2>3, StaysEases
  <1>15. CASE Open(p) /\ r.pc = "loadVersion"
    <2>1. ASSUME NEW m, Becomes(p, [r EXCEPT !.mem = m, !.pc = "openStores"])
          PROVE  Eases(p)
      <3>1. PICK s : s = [r EXCEPT !.mem = m, !.pc = "openStores"]
        OBVIOUS
      <3>2. s.pc = "openStores" /\ s.cmd = r.cmd /\ s.lock = r.lock /\ s.stores = r.stores /\ s.new = r.new
        BY <1>0, <3>1 DEF Processes
      <3> QED
        BY <1>15, <2>1, <3>1, <3>2, StepOfOne DEF Eases, Milder, Maker, Cloner, CopyPcs, InitPcs, InstallPcs
    <2> QED
      BY <1>1, <1>15, <2>1 DEF Open, loadFromDisk
  <1> QED
    BY <1>2, <1>3, <1>4, <1>5, <1>6, <1>7, <1>8, <1>9, <1>10, <1>11, <1>12, <1>13, <1>14, <1>15
       DEF EasyStep

\* Whoever has locked a directory has locked the one behind the link, and opens
\* its datastores there; so only one process has a lock at all.
LocksTheLink(r) == r.lock # NoDir => link \in {NoDir, r.lock} /\ r.stores \in {NoDir, r.lock}
LockInv ==
  /\ \A p \in Procs : LocksTheLink(proc[p])
  /\ \A p, q \in Procs : proc[p].lock # NoDir /\ proc[q].lock # NoDir => p = q

LEMMA LockInit == Init => LockInv
  BY SMTT(60) DEF Init, LockInv, LocksTheLink, Idle

LEMMA EasyLock ==
  ASSUME LockInv, NEW p \in Procs, Eases(p), link' \in {NoDir, link}
  PROVE  LockInv'
  BY DEF LockInv, LocksTheLink, Eases, Milder, Alone

\* The link is made again only while nobody has locked anything.
LEMMA PointLock ==
  ASSUME TypeInv, LockInv, NEW p \in Procs, Eases(p), NEW d, PointLinkTo(d, p),
         proc[p].pc \in {"symlink", "relink"}, ~raced'
  PROVE  LockInv'
  <1>1. \A q \in Procs : proc[q].lock = NoDir
    BY DEF PointLinkTo, TypeInv, Consistent, LockPcs, LoadedPcs, StorePcs, GenesisPcs, SavePcs, NodePcs
  <1> QED
    BY <1>1 DEF Eases, Milder, Alone, LockInv, LocksTheLink

LEMMA OpenLock ==
  ASSUME TypeInv, LockInv, NEW p \in Procs, Open(p)
  PROVE  LockInv'
  <1> DEFINE r == proc[p]
  <1>1. r \in Processes /\ Consistent(r) /\ UNCHANGED link
    BY DEF TypeInv, Open
  <1>2. CASE Ends(p)
    BY <1>1, <1>2, EndsEases, EasyLock
  <1>3. CASE r.pc = "open" /\ hasConfig(link) /\ Free(p, link)
             /\ Becomes(p, [r EXCEPT !.lock = link, !.pc = "loadVersion"])
    <2>1. \A q \in Procs \ {p} : proc[q].lock = NoDir
      BY <1>3 DEF LockInv, LocksTheLink, hasConfig, Free
    <2>2. r.stores = NoDir
      BY <1>1, <1>3 DEF Consistent, StorePcs, GenesisPcs, SavePcs, NodePcs
    <2>3. Alone(p) /\ proc'[p].lock = link /\ proc'[p].stores = NoDir
      <3>1. Alone(p) /\ proc'[p] = [r EXCEPT !.lock = link, !.pc = "loadVersion"]
        BY <1>3, StepOfOne
      <3> QED
        BY <1>1, <2>2, <3>1 DEF Processes
    <2>4. \A q \in Procs : q # p => proc'[q].lock = NoDir
      BY <2>1, <2>3 DEF Alone
    <2>5. \A q \in Procs : LocksTheLink(proc[q])'
      BY <1>1, <2>3, <2>4 DEF LocksTheLink
    <2> QED
      BY <2>4, <2>5 DEF LockInv
  <1>4. CASE r.pc = "loadVersion"
    BY <1>1, <1>4, EasyStepEases, EasyLock DEF EasyStep
  <1>5. ASSUME r.pc = "openStores", link # NoDir, NEW pc, Becomes(p, [r EXCEPT !.stores = link, !.pc = pc])
        PROVE  LockInv'
    <2>1. r.lock # NoDir
      BY <1>1, <1>5 DEF Consistent, LockPcs, LoadedPcs
    <2>2. r.lock = link
      BY <1>5, <2>1 DEF LockInv, LocksTheLink
    <2>3. Alone(p) /\ proc'[p].lock = link /\ proc'[p].stores = link
      <3>1. Alone(p) /\ proc'[p] = [r EXCEPT !.stores = link, !.pc = pc]
        BY <1>5, StepOfOne
      <3> QED
        BY <1>1, <2>2, <3>1 DEF Processes
    <2>4. \A q \in Procs : q # p => proc'[q].lock = NoDir
      BY <2>1, <2>3 DEF Alone, LockInv
    <2>5. \A q \in Procs : LocksTheLink(proc[q])'
      BY <1>1, <2>3, <2>4 DEF LocksTheLink
    <2> QED
      BY <2>4, <2>5 DEF LockInv
  <1> QED
    BY <1>2, <1>3, <1>4, <1>5 DEF Open, OpenFSRepo, openStores

LEMMA StartLock ==
  ASSUME TypeInv, LockInv, NEW p \in Procs,
         \/ \E v \in left.versions : InitFSRepo(p, v)
         \/ \E cmd \in {"migrate", "buildonly", "install"} : MigrationRun(p, cmd)
  PROVE  LockInv'
  <1>1. UNCHANGED link
    BY DEF InitFSRepo, MigrationRun
  <1>2. ASSUME NEW s, Becomes(p, s), s.lock = NoDir
        PROVE  LockInv'
    <2>1. Alone(p) /\ proc'[p].lock = NoDir
      BY <1>2, StepOfOne
    <2> QED
      BY <1>1, <2>1 DEF LockInv, LocksTheLink, Alone
  <1>3. ASSUME NEW v, NEW d, NEW cmd, NEW at,
               \/ Becomes(p, [Idle EXCEPT !.pc = "version0", !.cmd = "init", !.ver = v, !.new = d])
               \/ Becomes(p, [Idle EXCEPT !.pc = "unlink", !.cmd = cmd, !.new = d])
               \/ Becomes(p, [Idle EXCEPT !.pc = "copy1", !.cmd = cmd, !.ver = v, !.new = d, !.at = at])
        PROVE  LockInv'
    BY <1>2, <1>3 DEF Idle
  <1> QED
    BY <1>3 DEF InitFSRepo, MigrationRun

\* Once raced stays so.
LEMMA RacedStays ==
  ASSUME TypeInv, Next, ~raced'
  PROVE  ~raced
  <1>1. raced \in BOOLEAN
    BY DEF TypeInv
  <1>2. PICK p \in Procs :
           \/ \E v \in left.versions : InitFSRepo(p, v)
           \/ \E cmd \in {"migrate", "buildonly", "install"} : MigrationRun(p, cmd)
           \/ Open(p) \/ EasyStep(p)
    BY DEF Next, EasyStep
  <1>3. CASE EasyStep(p)
    <2>1. CASE InitSymlink(p) \/ InstallNewRepo(p)
      BY <1>1, <2>1 DEF InitSymlink, PointLinkTo, InstallNewRepo
    <2>2. CASE ~InitSymlink(p) /\ ~InstallNewRepo(p)
      <3>1. UNCHANGED raced
        BY <1>3, <2>2 DEF EasyStep, Daemon, ConfigSet, WriteVersion, initConfig, NoReport,
           InitChain, initDefaultKey, ReplaceConfig, StartNode, SetAPIAddr,
           NewAddress, PutTipSetMetadata, SetHead, Close, Kill, CloneRepo, Migrate, convertJSONtoCBOR,
           writeHeadAsCBOR, Validate, Open
      <3> QED
        BY <3>1
    <2> QED
      BY <2>1, <2>2
  <1> QED
    BY <1>1, <1>2, <1>3 DEF NoReport, InitFSRepo, MigrationRun, Open

LEMMA EasyStepLock ==
  ASSUME TypeInv, LockInv, ~raced', NEW p \in Procs, EasyStep(p)
  PROVE  LockInv'
  <1>1. Eases(p)
    BY EasyStepEases
  <1>2. CASE InitSymlink(p) \/ InstallNewRepo(p)
    <2>1. proc[p].pc \in {"symlink", "unlink", "relink"}
      BY <1>2 DEF InitSymlink, InstallNewRepo
    <2>2. ASSUME NEW d, PointLinkTo(d, p), proc[p].pc \in {"symlink", "relink"}
          PROVE  LockInv'
      BY <1>1, <2>2, PointLock
    <2>3. ASSUME link' \in {NoDir, link}
          PROVE  LockInv'
      BY <1>1, <2>3, EasyLock
    <2> QED
      BY <1>2, <2>2, <2>3 DEF InitSymlink, InstallNewRepo
  <1>3. CASE ~InitSymlink(p) /\ ~InstallNewRepo(p)
    <2>1. UNCHANGED link
      BY <1>3 DEF EasyStep, Daemon, ConfigSet, WriteVersion, initConfig,
         InitChain, initDefaultKey, ReplaceConfig, StartNode, SetAPIAddr,
         NewAddress, PutTipSetMetadata, SetHead, Close, Kill, CloneRepo, Migrate, convertJSONtoCBOR,
         writeHeadAsCBOR, Validate, Open
    <2> QED
      BY <1>1, <2>1, EasyLock
  <1> QED
    BY <1>2, <1>3

LockIInv == TypeInv /\ (~raced => LockInv)

LEMMA LockStep == LockIInv /\ [Next]_vars => LockIInv'
  <1> SUFFICES ASSUME LockIInv, [Next]_vars
               PROVE  LockIInv'
    OBVIOUS
  <1>1. TypeInv /\ TypeInv'
    BY TypeStep DEF LockIInv
  <1>2. CASE UNCHANGED vars
    BY <1>1, <1>2 DEF vars, LockIInv, LockInv, LocksTheLink
  <1>3. CASE Next
    <2> SUFFICES ASSUME ~raced'
                 PROVE  LockInv'
      BY <1>1 DEF LockIInv
    <2>1. LockInv
      BY <1>1, <1>3, RacedStays DEF LockIInv
    <2>2. PICK p \in Procs :
             \/ \E v \in left.versions : InitFSRepo(p, v)
             \/ \E cmd \in {"migrate", "buildonly", "install"} : MigrationRun(p, cmd)
             \/ Open(p) \/ EasyStep(p)
      BY <1>3 DEF Next, EasyStep
    <2> QED
      BY <1>1, <2>1, <2>2, StartLock, OpenLock, EasyStepLock
  <1> QED
    BY <1>2, <1>3

\* The files of every directory and the local variables of every process keep
\* their types, and no process holds a lock or a datastore of a directory that
\* does not exist, through any interleaving of init, daemons, migrations and
\* kills.
THEOREM TypeCorrect == Spec => []TypeOK
  <1>1. TypeInv => TypeOK
    BY DEF TypeInv, TypeOK, MaybeDir, Directories, Chains, Exists
  <1> QED
    BY <1>1, TypeInit, TypeStep, PTL DEF Spec

\* The lock file of OpenFSRepo gives the datastores of a directory one owner,
\* whichever of init, daemon and Validate opens it and however many processes
\* there are, as long as the link is not replaced under a process that has
\* locked a directory.
THEOREM DirectoryHasOneOwner == Spec => []OneOwner
  <1>1. Init => LockIInv
    BY TypeInit, LockInit DEF LockIInv
  <1>2. LockIInv => OneOwner
    <2> SUFFICES ASSUME LockIInv, ~raced, NEW p \in Procs, NEW q \in Procs, p # q,
                        proc[p].stores # NoDir, proc[p].stores = proc[q].stores
                 PROVE  FALSE
      BY DEF OneOwner
    <2>1. proc[p].lock # NoDir /\ proc[q].lock # NoDir
      BY DEF LockIInv, TypeInv, Consistent, LockPcs, LoadedPcs
    <2> QED
      BY <2>1 DEF LockIInv, LockInv
  <1> QED
    BY <1>1, <1>2, LockStep, PTL DEF Spec

-----------------------------------------------------------------------------
(* The contents of a directory *)

\* No entry between head and genesis is in an encoding the version cannot read.
Good(c, enc, metas) == c.headAs # "none" => c.headAs = enc /\ \A h \in 0 .. c.head : c.meta[h] \in metas
GoodOld(c) == Good(c, "json", {"json"})
GoodNew(c) == Good(c, "root", {"root", "rootAndReceipts"})

\* The wallet has the key of the default address that a config file names.
KeyHeld(file, wallet) == file.content = "whole" => file.is.default \in wallet \cup {NoKey}

\* Every directory, whoever made it and however far they came.
DirOK(f) ==
  /\ f.chain.headAs = "none" => f.chain.head = 0
  /\ f.version = Holding(Version) => GoodNew(f.chain)
  /\ f.version # NoFile => KeyHeld(f.config, f.wallet) /\ KeyHeld(f.tmp, f.wallet)

\* The directory behind the link.
LinkedOK(f) == \/ f.version = Holding(OldVersion) /\ GoodOld(f.chain)
               \/ f.version = Holding(Version)

\* What was reported is in the files: pr is promised, rf is refused.
SetKept(set, pr, rf) == \A s \in Settings : set[s] # pr.set[s] => s \in rf
FileKept(file, pr, rf) == file # NoFile => SetKept(ReadConfig(file).set, pr, rf)
Kept(f, pr, rf) == pr.keys \subseteq f.wallet /\ FileKept(f.config, pr, rf)
AllKept(f, pr, rf) == /\ Kept(f, pr, rf) /\ pr.height <= f.chain.head
                      /\ pr # NothingYet => f.config # NoFile

-----------------------------------------------------------------------------
(* What a process relies on: r is its record, n, f and from are the contents *)
(* of its new directory, of the one it has locked, of the one it copies      *)

\* An init makes its directory file by file.
MakerOK(r, n) ==
  /\ n.chain = EmptyChain /\ n.wallet = {} /\ n.tmp = NoFile
  /\ n.version = CASE r.pc = "version0" -> NoFile [] r.pc = "version" -> Truncated
                   [] OTHER -> Holding(r.ver)
  /\ n.config = CASE r.pc = "symlink" -> Holding(NewDefaultConfig) [] r.pc = "config" -> Truncated
                  [] OTHER -> NoFile

\* A clone is not of the new version before all of it is converted and compared.
ClonerOK(r, n, from) ==
  /\ r.ver = OldVersion
  /\ r.pc \in CopyPcs => from.version = Holding(OldVersion) /\ n.version = NoFile
  /\ r.pc = "copy2" => KeyHeld(n.config, from.wallet)
  /\ r.pc \notin CopyPcs => n.version \notin {NoFile, Holding(Version)}
  /\ r.pc \in FinishPcs => GoodNew(n.chain)
ClonerKeeps(r, n, from, pr, rf) ==
  /\ r.pc = "copy1" => Kept(from, pr, rf)
  /\ r.pc = "copy2" => pr.keys \subseteq from.wallet /\ FileKept(n.config, pr, rf)
  /\ r.pc \notin CopyPcs => Kept(n, pr, rf)

\* Nobody changes what the holder of the lock has read or written.
HolderOK(r, f) ==
  /\ f.config # NoFile
  /\ r.pc \in LoadedPcs => f.version = Holding(r.ver) /\ r.mem.default \in f.wallet \cup {NoKey}
  /\ r.pc \in SavePcs => r.mem.default \in f.wallet
  /\ r.saving \in {"write", "rename"} => r.at = r.lock
  /\ r.saving = "rename" => f.tmp = Holding(r.mem)
  /\ r.pc = "genesisHead" => f.chain.meta[0] = Written(r.ver)
  /\ r.pc \in NodePcs => f.chain.headAs # "none"
MemKept(r, f, pr, rf) ==
  \A s \in Settings : \/ r.mem.set[s] \in {ReadConfig(f.config).set[s], pr.set[s]}
                      \/ s \in rf
                      \/ r.doing = s
                      \/ r.pc = "initSave2" /\ s = "price"

MakerInv(r) ==
  Maker(r) => MakerOK(r, dirs[r.new]) /\ (r.new \notin behind => promised = NothingYet)
ClonerInv(r) ==
  Cloner(r) => /\ ClonerOK(r, dirs[r.new], dirs[r.at])
               /\ r.new \notin behind => ClonerKeeps(r, dirs[r.new], dirs[r.at], promised, refused)
HolderInv(r) ==
  r.lock # NoDir => /\ HolderOK(r, dirs[r.lock])
                    /\ r.pc \in LoadedPcs /\ link = r.lock => MemKept(r, dirs[r.lock], promised, refused)
InstallerInv(r) == r.pc \in InstallPcs => dirs[r.new].version = Holding(Version)
DoingInv(r) == r.doing # "none" => r.pc = "running" /\ r.saving # "no"
ProcInv(r) == MakerInv(r) /\ ClonerInv(r) /\ HolderInv(r) /\ InstallerInv(r) /\ DoingInv(r)

-----------------------------------------------------------------------------
(* The invariant *)

Making(r) == Maker(r) \/ Cloner(r)

\* Nobody else uses a directory that is being made.
Apart(p) ==
  /\ link # proc[p].new
  /\ \A q \in Procs :
       /\ proc[q].lock # proc[p].new
       /\ proc[q].pc \in CopyPcs => proc[q].at # proc[p].new
       /\ q # p /\ (Making(proc[q]) \/ Cloner(proc[p])) => proc[q].new # proc[p].new
ApartInv == \A p \in Procs : Making(proc[p]) => Apart(p)

\* The directories that have to have everything, unless they are behind: those
\* that are, have been or may become the one behind the link.
Finishing(r, d) == Cloner(r) /\ r.new = d /\ r.pc \in FinishPcs
Settled(d) == \/ link = d
              \/ dirs[d].version = Holding(Version)
              \/ \E q \in Procs : proc[q].lock = d \/ Finishing(proc[q], d)
Keeps(d) == dirs[d].exists /\ d \notin behind /\ Settled(d) => AllKept(dirs[d], promised, refused)

ContentInv ==
  /\ LockInv /\ ApartInv
  /\ \A d \in Dirs : DirOK(dirs[d]) /\ Keeps(d)
  /\ link # NoDir => LinkedOK(dirs[link])
  /\ \A p \in Procs : ProcInv(proc[p])
ContentIInv == TypeInv /\ (~raced => ContentInv)

-----------------------------------------------------------------------------
(* What a step of p may do to the rest *)

\* It writes to the directory p has locked, to the one p makes, or to a new one.
Untouched(p) ==
  \A e \in Dirs : dirs[e].exists /\ e # proc[p].lock /\ ~(Making(proc[p]) /\ e = proc[p].new)
                 => dirs'[e] = dirs[e]

\* It reports from the directory p has locked, and every other one is behind.
AllBehind(d) == \A e \in Dirs \ {d} : dirs[e].exists => e \in behind'
OnlyHead == promised'.keys = promised.keys /\ promised'.set = promised.set
GhostStep(p) ==
  /\ behind \subseteq behind' /\ refused \subseteq refused'
  /\ \/ promised' = promised
     \/ proc[p].lock # NoDir /\ AllBehind(proc[p].lock)
     \/ /\ proc[p].lock # NoDir /\ OnlyHead
        /\ \A e \in Dirs \ {proc[p].lock} : dirs[e].exists => e \in behind' \/ ToBeValidated(e)

\* In the directory that p has locked it only adds.
LockedStep(p) ==
  LET f == dirs[proc[p].lock]
      g == dirs'[proc[p].lock]
  IN proc[p].lock # NoDir =>
       /\ g.version = f.version /\ f.wallet \subseteq g.wallet
       /\ \/ AllBehind(proc[p].lock)
          \/ OnlyHead /\ (Kept(f, promised, refused) => Kept(g, promised', refused'))

MadeStep(p) ==
  Maker(proc[p]) /\ dirs[proc[p].new].version = Holding(Version) =>
    dirs'[proc[p].new].version = Holding(Version)

\* It makes the link only when nobody has a lock.
LinkStep == link' \in {NoDir, link} \/ \A q \in Procs : proc[q].lock = NoDir

Frame(p) == /\ Alone(p) /\ Untouched(p) /\ GhostStep(p) /\ LockedStep(p) /\ MadeStep(p)
            /\ LinkStep

LEMMA MakingDir ==
  ASSUME TypeInv, NEW p \in Procs, Making(proc[p])
  PROVE  proc[p].new \in Dirs /\ dirs[proc[p].new].exists /\ dirs[proc[p].new] \in Directories
  BY DEF TypeInv, Making, Maker, Cloner, Consistent, Exists, Processes, MaybeDir

LEMMA LockDir ==
  ASSUME TypeInv, NEW p \in Procs, proc[p].lock # NoDir
  PROVE  proc[p].lock \in Dirs /\ dirs[proc[p].lock].exists /\ dirs[proc[p].lock] \in Directories
  BY DEF TypeInv, Consistent, Exists, Processes, MaybeDir

\* A directory that is being made is not touched by others.
LEMMA MadeApart ==
  ASSUME TypeInv, ApartInv, NEW p \in Procs, NEW q \in Procs, p # q, Making(proc[q]), Untouched(p)
  PROVE  dirs'[proc[q].new] = dirs[proc[q].new] /\ proc[q].new # proc[p].lock
  <1>1. Apart(q)
    BY DEF ApartInv
  <1>2. proc[q].new # proc[p].lock /\ ~(Making(proc[p]) /\ proc[p].new = proc[q].new)
    BY <1>1 DEF Apart
  <1> QED
    BY <1>2, MakingDir DEF Untouched

LEMMA OthersMaker ==
  ASSUME TypeInv, ApartInv, NEW p \in Procs, NEW q \in Procs, p # q, Frame(p), MakerInv(proc[q])
  PROVE  MakerInv(proc[q])'
  <1>1. proc'[q] = proc[q]
    BY DEF Frame, Alone
  <1> SUFFICES ASSUME Maker(proc[q])
               PROVE  MakerOK(proc[q], dirs'[proc[q].new]) /\ (proc[q].new \notin behind' => promised' = NothingYet)
    BY <1>1 DEF MakerInv
  <1> DEFINE n == proc[q].new
  <1>2. dirs'[n] = dirs[n] /\ n # proc[p].lock /\ n \in Dirs /\ dirs[n].exists
    BY MadeApart, MakingDir DEF Frame, Making
  <1>3. ~ToBeValidated(n)
    <2> SUFFICES ASSUME NEW t \in Procs, proc[t].cmd \in {"migrate", "buildonly"}, proc[t].new = n,
                        proc[t].pc \notin {"version0", "version", "unlink", "relink"}
                 PROVE  FALSE
      BY DEF ToBeValidated
    <2>1. Cloner(proc[t]) /\ t # q
      BY DEF Cloner, InstallPcs, Maker
    <2>2. Apart(t)
      BY <2>1 DEF ApartInv, Making
    <2> QED
      BY <2>1, <2>2 DEF Apart
  <1>4. n \notin behind' => promised' = promised /\ n \notin behind
    BY <1>2, <1>3 DEF Frame, GhostStep, AllBehind
  <1> QED
    BY <1>2, <1>4 DEF MakerInv

LEMMA OthersInstaller ==
  ASSUME TypeInv, ApartInv, NEW p \in Procs, NEW q \in Procs, p # q, Frame(p), InstallerInv(proc[q])
  PROVE  InstallerInv(proc[q])'
  <1>1. proc'[q] = proc[q]
    BY DEF Frame, Alone
  <1> SUFFICES ASSUME proc[q].pc \in InstallPcs
               PROVE  dirs'[proc[q].new].version = Holding(Version)
    BY <1>1 DEF InstallerInv
  <1> DEFINE n == proc[q].new
  <1>2. n \in Dirs /\ dirs[n].exists /\ dirs[n].version = Holding(Version)
    BY NewDir DEF InstallerInv
  <1>3. CASE n = proc[p].lock
    <2>1. proc[p].lock # NoDir
      BY <1>2, <1>3, SMTT(60) DEF Dirs, NoDir
    <2> QED
      BY <1>2, <1>3, <2>1 DEF Frame, LockedStep
  <1>4. CASE Making(proc[p]) /\ n = proc[p].new
    <2>1. ~Cloner(proc[p])
      BY <1>4 DEF ApartInv, Apart
    <2> QED
      BY <1>2, <1>4, <2>1 DEF Frame, MadeStep, Making
  <1> QED
    BY <1>2, <1>3, <1>4 DEF Frame, Untouched

LEMMA OthersHolder ==
  ASSUME TypeInv, ApartInv, LockInv, NEW p \in Procs, NEW q \in Procs, p # q, Frame(p), HolderInv(proc[q])
  PROVE  HolderInv(proc[q])'
  <1>1. proc'[q] = proc[q]
    BY DEF Frame, Alone
  <1> SUFFICES ASSUME proc[q].lock # NoDir
               PROVE  /\ HolderOK(proc[q], dirs'[proc[q].lock])
                      /\ proc[q].pc \in LoadedPcs /\ link' = proc[q].lock =>
                           MemKept(proc[q], dirs'[proc[q].lock], promised', refused')
    BY <1>1 DEF HolderInv
  <1> DEFINE d == proc[q].lock
  <1>2. proc[p].lock = NoDir /\ d \in Dirs /\ dirs[d].exists
    BY LockDir DEF LockInv
  <1>3. dirs'[d] = dirs[d]
    BY <1>2 DEF Frame, Untouched, ApartInv, Apart
  <1>4. promised' = promised /\ refused \subseteq refused' /\ (link' = d => link = d)
    BY <1>2, SMTT(60) DEF Frame, GhostStep, LinkStep
  <1> QED
    BY <1>3, <1>4 DEF HolderInv, MemKept

\* A report of a head, and a setting that was refused, take nothing away.
LEMMA KeptStays ==
  ASSUME NEW f, promised' = promised \/ OnlyHead, refused \subseteq refused'
  PROVE  /\ Kept(f, promised, refused) => Kept(f, promised', refused')
         /\ FileKept(f, promised, refused) => FileKept(f, promised', refused')
         /\ promised.keys \subseteq f => promised'.keys \subseteq f
  <1>1. promised'.keys = promised.keys /\ promised'.set = promised.set
    BY DEF OnlyHead
  <1>2. ASSUME NEW set, SetKept(set, promised, refused)
        PROVE  SetKept(set, promised', refused')
    BY <1>1, <1>2 DEF SetKept
  <1> QED
    BY <1>1, <1>2 DEF Kept, FileKept

LEMMA OthersCloner ==
  ASSUME TypeInv, ApartInv, NEW p \in Procs, NEW q \in Procs, p # q, Frame(p), ClonerInv(proc[q])
  PROVE  ClonerInv(proc[q])'
  <1>1. proc'[q] = proc[q]
    BY DEF Frame, Alone
  <1> DEFINE r == proc[q]
             n == proc[q].new
             from == dirs[proc[q].at]
             fromN == dirs'[proc[q].at]
  <1> SUFFICES ASSUME Cloner(r)
               PROVE  /\ ClonerOK(r, dirs'[n], fromN)
                      /\ n \notin behind' => ClonerKeeps(r, dirs'[n], fromN, promised', refused')
    BY <1>1 DEF ClonerInv
  <1>2. dirs'[n] = dirs[n] /\ n # proc[p].lock /\ n \in Dirs /\ dirs[n].exists
    BY MadeApart, MakingDir DEF Frame, Making
  <1>3. n \notin behind' => n \notin behind /\ (promised' = promised \/ OnlyHead)
    BY <1>2 DEF Frame, GhostStep, AllBehind
  <1>4. refused \subseteq refused'
    BY DEF Frame, GhostStep
  <1>5. ClonerOK(r, dirs[n], from) /\ (n \notin behind => ClonerKeeps(r, dirs[n], from, promised, refused))
    BY DEF ClonerInv
  <1>6. ASSUME r.pc \in CopyPcs
        PROVE  /\ fromN.version = from.version /\ from.wallet \subseteq fromN.wallet
               /\ n \notin behind' => (Kept(from, promised, refused) => Kept(fromN, promised', refused'))
    <2>1. r.at \in Dirs /\ dirs[r.at].exists
      BY <1>6, SMTT(60) DEF TypeInv, Consistent, Exists, Dirs, NoDir
    <2>2. ~(Making(proc[p]) /\ r.at = proc[p].new)
      BY <1>6 DEF ApartInv, Apart
    <2>3. CASE r.at = proc[p].lock
      <3>1. proc[p].lock # NoDir
        BY <2>1, <2>3, SMTT(60) DEF Dirs, NoDir
      <3>2. n \notin behind' => ~AllBehind(proc[p].lock)
        BY <1>2 DEF AllBehind
      <3> QED
        BY <2>3, <3>1, <3>2 DEF Frame, LockedStep
    <2>4. CASE r.at # proc[p].lock
      <3>1. fromN = from
        BY <2>1, <2>2, <2>4 DEF Frame, Untouched
      <3> QED
        BY <1>3, <1>4, <3>1, KeptStays
    <2> QED
      BY <2>3, <2>4
  <1>7. ClonerOK(r, dirs'[n], fromN)
    BY <1>2, <1>5, <1>6 DEF ClonerOK, KeyHeld, CopyPcs
  <1>8. ASSUME n \notin behind'
        PROVE  ClonerKeeps(r, dirs'[n], fromN, promised', refused')
    <2>1. ClonerKeeps(r, dirs[n], from, promised, refused)
      BY <1>3, <1>5, <1>8
    <2>2. r.pc = "copy1" => Kept(fromN, promised', refused')
      BY <1>6, <1>8, <2>1 DEF ClonerKeeps, CopyPcs
    <2>3. r.pc = "copy2" => promised'.keys \subseteq fromN.wallet /\ FileKept(dirs[n].config, promised', refused')
      <3>1. r.pc = "copy2" => promised'.keys \subseteq from.wallet /\ FileKept(dirs[n].config, promised', refused')
        BY <1>3, <1>4, <1>8, <2>1, KeptStays DEF ClonerKeeps
      <3> QED
        BY <1>6, <3>1 DEF CopyPcs
    <2>4. r.pc \notin CopyPcs => Kept(dirs[n], promised', refused')
      BY <1>3, <1>4, <1>8, <2>1, KeptStays DEF ClonerKeeps
    <2> QED
      BY <1>2, <2>2, <2>3, <2>4 DEF ClonerKeeps
  <1> QED
    BY <1>7, <1>8

LEMMA Others ==
  ASSUME TypeInv, ContentInv, NEW p \in Procs, Frame(p), NEW q \in Procs, q # p
  PROVE  ProcInv(proc[q])'
  <1>1. ProcInv(proc[q]) /\ ApartInv /\ LockInv
    BY DEF ContentInv
  <1>2. DoingInv(proc[q])'
    BY <1>1 DEF ProcInv, DoingInv, Frame, Alone
  <1> QED
    BY <1>1, <1>2, OthersMaker, OthersCloner, OthersHolder, OthersInstaller DEF ProcInv

-----------------------------------------------------------------------------
(* Directories that p does not touch *)

\* A clone that is still to be compared need not have everything.
LEMMA UnsettledClone ==
  ASSUME TypeInv, ContentInv, NEW d \in Dirs, ToBeValidated(d)
  PROVE  ~Settled(d)
  <1>1. PICK t \in Procs : /\ proc[t].cmd \in {"migrate", "buildonly"} /\ proc[t].new = d
                           /\ proc[t].pc \notin {"version0", "version", "unlink", "relink"}
    BY DEF ToBeValidated
  <1>2. Cloner(proc[t]) /\ proc[t].pc \notin FinishPcs
    BY <1>1 DEF Cloner, InstallPcs, FinishPcs
  <1>3. Apart(t) /\ ClonerOK(proc[t], dirs[d], dirs[proc[t].at])
    BY <1>1, <1>2 DEF ContentInv, ApartInv, Making, ProcInv, ClonerInv
  <1>4. dirs[d].version # Holding(Version)
    <2>1. NoFile # Holding(Version)
      BY DEF NoFile, Holding
    <2> QED
      BY <1>3, <2>1 DEF ClonerOK
  <1>5. ASSUME NEW q \in Procs
        PROVE  proc[q].lock # d /\ ~Finishing(proc[q], d)
    BY <1>1, <1>2, <1>3 DEF Apart, Finishing, Making
  <1> QED
    BY <1>1, <1>3, <1>4, <1>5 DEF Settled, Apart

LEMMA AllKeptStays ==
  ASSUME TypeInv, ContentInv, NEW p \in Procs, Frame(p), NEW d \in Dirs, d # proc[p].lock,
         dirs[d].exists, d \notin behind', Settled(d)
  PROVE  AllKept(dirs[d], promised', refused')
  <1>1. promised' = promised /\ refused \subseteq refused' /\ d \notin behind
    BY UnsettledClone DEF Frame, GhostStep, AllBehind
  <1>2. AllKept(dirs[d], promised, refused)
    BY <1>1 DEF ContentInv, Keeps
  <1> QED
    BY <1>1, <1>2, KeptStays DEF AllKept

-----------------------------------------------------------------------------
(* The kinds of steps *)

LEMMA EasyApart ==
  ASSUME TypeInv, ApartInv, NEW p \in Procs, Eases(p), link' \in {NoDir, link}
  PROVE  ApartInv'
  <1> SUFFICES ASSUME NEW t \in Procs, Making(proc'[t])
               PROVE  Apart(t)'
    BY DEF ApartInv, Making, Maker, Cloner
  <1>1. ASSUME NEW q \in Procs
        PROVE  /\ proc'[q].lock \in {NoDir, proc[q].lock} /\ proc'[q].new \in {NoDir, proc[q].new}
               /\ Maker(proc'[q]) => Maker(proc[q]) /\ proc'[q].new = proc[q].new
               /\ Cloner(proc'[q]) => Cloner(proc[q]) /\ proc'[q].new = proc[q].new
               /\ proc'[q].pc \in CopyPcs => proc[q].pc \in CopyPcs /\ proc'[q].at = proc[q].at
    BY DEF Eases, Milder, Alone
  <1>2. Making(proc[t]) /\ proc'[t].new = proc[t].new
    BY <1>1 DEF Making
  <1>3. Apart(t) /\ proc[t].new # NoDir
    BY <1>2, MakingDir, SMTT(60) DEF ApartInv, Dirs, NoDir
  <1>4. link' # proc'[t].new
    BY <1>2, <1>3 DEF Apart
  <1>5. ASSUME NEW q \in Procs
        PROVE  /\ proc'[q].lock # proc'[t].new
               /\ proc'[q].pc \in CopyPcs => proc'[q].at # proc'[t].new
               /\ q # t /\ (Making(proc'[q]) \/ Cloner(proc'[t])) => proc'[q].new # proc'[t].new
    <2>1. /\ proc[q].lock # proc[t].new
          /\ proc[q].pc \in CopyPcs => proc[q].at # proc[t].new
          /\ q # t /\ (Making(proc[q]) \/ Cloner(proc[t])) => proc[q].new # proc[t].new
      BY <1>3 DEF Apart
    <2> QED
      BY <1>1, <1>2, <1>3, <2>1 DEF Making
  <1> QED
    BY <1>4, <1>5 DEF Apart, Making, Maker, Cloner

LEMMA EasySettled ==
  ASSUME NEW p \in Procs, Eases(p), link' \in {NoDir, link}, NEW d \in Dirs,
         dirs'[d].version = Holding(Version) => dirs[d].version = Holding(Version),
         Finishing(proc'[p], d) => Finishing(proc[p], d), Settled(d)'
  PROVE  Settled(d)
  <1>1. d # NoDir
    BY SMTT(60) DEF Dirs, NoDir
  <1>2. ASSUME NEW q \in Procs, proc'[q].lock = d \/ Finishing(proc'[q], d)
        PROVE  proc[q].lock = d \/ Finishing(proc[q], d)
    BY <1>1, <1>2 DEF Eases, Milder, Alone
  <1> QED
    BY <1>1, <1>2 DEF Settled, Finishing, Cloner

\* It is enough to look at p, at the link and at the directories of a set that
\* includes all that changed.
LEMMA StepKeeps ==
  ASSUME TypeInv, TypeInv', ContentInv, NEW p \in Procs, Frame(p), LockInv', ApartInv', ProcInv(proc[p])',
         link' # NoDir => LinkedOK(dirs'[link']),
         NEW D,
         \A d \in Dirs \ D : dirs'[d] = dirs[d] /\ d # proc[p].lock /\ (Settled(d)' => Settled(d)),
         \A d \in D : DirOK(dirs'[d]) /\ Keeps(d)'
  PROVE  ContentInv'
  <1>1. ASSUME NEW d \in Dirs \ D
        PROVE  DirOK(dirs'[d]) /\ Keeps(d)'
    <2>1. dirs'[d] = dirs[d] /\ d # proc[p].lock /\ (Settled(d)' => Settled(d)) /\ DirOK(dirs[d])
      BY DEF ContentInv
    <2>2. ASSUME dirs'[d].exists, d \notin behind', Settled(d)'
          PROVE  AllKept(dirs'[d], promised', refused')
      BY <2>1, <2>2, AllKeptStays
    <2> QED
      BY <2>1, <2>2 DEF Keeps
  <1>2. \A d \in Dirs : DirOK(dirs'[d]) /\ Keeps(d)'
    BY <1>1
  <1>3. \A q \in Procs : ProcInv(proc[q])'
    BY Others
  <1> QED
    BY <1>2, <1>3 DEF ContentInv

\* The directory that p has locked has everything.
LEMMA LockedKeeps ==
  ASSUME TypeInv, ContentInv, NEW p \in Procs, proc[p].lock # NoDir, proc[p].lock \notin behind
  PROVE  AllKept(dirs[proc[p].lock], promised, refused)
  <1>1. Settled(proc[p].lock)
    BY DEF Settled
  <1> QED
    BY <1>1, LockDir DEF ContentInv, Keeps

\* Steps that only change the state of p.
LEMMA QuietStep ==
  ASSUME TypeInv, TypeInv', ContentInv, NEW p \in Procs, Eases(p), link' \in {NoDir, link},
         UNCHANGED <<dirs, promised>>, behind \subseteq behind', refused \subseteq refused',
         \A d \in Dirs : Finishing(proc'[p], d) => Finishing(proc[p], d),
         LockInv', ProcInv(proc[p])'
  PROVE  ContentInv'
  <1>1. Frame(p)
    <2>1. OnlyHead
      BY DEF OnlyHead
    <2>2. LockedStep(p)
      BY <2>1, KeptStays DEF LockedStep
    <2> QED
      BY <2>2 DEF Frame, Eases, Untouched, GhostStep, MadeStep, LinkStep
  <1>2. ApartInv'
    BY EasyApart DEF ContentInv
  <1>3. link' # NoDir => LinkedOK(dirs'[link'])
    BY DEF ContentInv
  <1>4. ASSUME NEW d \in Dirs \ {proc[p].lock}
        PROVE  dirs'[d] = dirs[d] /\ d # proc[p].lock /\ (Settled(d)' => Settled(d))
    BY EasySettled
  <1>5. ASSUME NEW d \in Dirs, d = proc[p].lock
        PROVE  DirOK(dirs'[d]) /\ Keeps(d)'
    <2>1. d # NoDir
      BY SMTT(60) DEF Dirs, NoDir
    <2>2. d \notin behind' => AllKept(dirs[d], promised, refused)
      BY <1>5, <2>1, LockedKeeps
    <2>3. d \notin behind' => AllKept(dirs'[d], promised', refused')
      BY <2>2, KeptStays DEF AllKept
    <2> QED
      BY <2>3 DEF Keeps, ContentInv
  <1>6. PICK D : D = Dirs \cap {proc[p].lock}
    OBVIOUS
  <1>7. \A d \in D : DirOK(dirs'[d]) /\ Keeps(d)'
    BY <1>5, <1>6
  <1>8. \A d \in Dirs \ D : dirs'[d] = dirs[d] /\ d # proc[p].lock /\ (Settled(d)' => Settled(d))
    BY <1>4, <1>6
  <1> QED
    BY <1>1, <1>2, <1>3, <1>7, <1>8, StepKeeps

\* Steps that write to the directory p makes.
LEMMA MakingStep ==
  ASSUME TypeInv, TypeInv', ContentInv, NEW p \in Procs, Eases(p), UNCHANGED link, NoReport,
         Making(proc[p]), proc[p].lock = NoDir, NEW n \in Dirs, n = proc[p].new,
         NEW g \in Directories, Holds(n, g), MadeStep(p),
         DirOK(g), n \notin behind /\ Settled(n)' => AllKept(g, promised, refused),
         \A d \in Dirs : Finishing(proc'[p], d) => Finishing(proc[p], d),
         LockInv', ProcInv(proc[p])'
  PROVE  ContentInv'
  <1>1. n = proc[p].new
    OBVIOUS
  <1>2. dirs'[n] = g /\ \A e \in Dirs \ {n} : dirs'[e] = dirs[e]
    BY HoldsFacts
  <1>3. UNCHANGED <<promised, refused, behind>>
    BY DEF NoReport
  <1>4. Frame(p)
    BY <1>1, <1>2, <1>3 DEF Frame, Eases, Untouched, GhostStep, LockedStep, LinkStep
  <1>5. ApartInv'
    BY EasyApart DEF ContentInv
  <1>6. link # n
    BY <1>1 DEF ContentInv, ApartInv, Apart
  <1>7. link' # NoDir => LinkedOK(dirs'[link'])
    BY <1>2, <1>6, LinkDir DEF ContentInv
  <1>8. ASSUME NEW d \in Dirs \ {n}
        PROVE  dirs'[d] = dirs[d] /\ d # proc[p].lock /\ (Settled(d)' => Settled(d))
    <2>1. d # proc[p].lock
      BY SMTT(60) DEF Dirs, NoDir
    <2> QED
      BY <1>2, <2>1, EasySettled
  <1>9. DirOK(dirs'[n]) /\ Keeps(n)'
    BY <1>1, <1>2, <1>3 DEF Keeps
  <1>10. PICK D : D = {n}
    OBVIOUS
  <1>11. \A d \in D : DirOK(dirs'[d]) /\ Keeps(d)'
    BY <1>9, <1>10
  <1>12. \A d \in Dirs \ D : dirs'[d] = dirs[d] /\ d # proc[p].lock /\ (Settled(d)' => Settled(d))
    BY <1>8, <1>10
  <1> QED
    BY <1>4, <1>5, <1>7, <1>11, <1>12, StepKeeps

\* Steps that write to the directory p has locked.
LEMMA LockedWrite ==
  ASSUME TypeInv, TypeInv', ContentInv, NEW p \in Procs, Eases(p), UNCHANGED link,
         proc[p].lock # NoDir, NEW g \in Directories, Holds(proc[p].lock, g), GhostStep(p), LockedStep(p),
         DirOK(g), link = proc[p].lock => LinkedOK(g),
         proc[p].lock \notin behind' => AllKept(g, promised', refused'),
         \A d \in Dirs : Finishing(proc'[p], d) => Finishing(proc[p], d),
         LockInv', ProcInv(proc[p])'
  PROVE  ContentInv'
  <1>1. PICK n \in Dirs : n = proc[p].lock
    BY LockDir
  <1>2. dirs'[n] = g /\ \A e \in Dirs \ {n} : dirs'[e] = dirs[e]
    BY <1>1, HoldsFacts
  <1>3. Frame(p)
    <2>1. MadeStep(p)
      <3>1. Maker(proc[p]) => proc[p].new \in Dirs \ {n}
        BY <1>1, MakingDir DEF Making, ContentInv, ApartInv, Apart
      <3> QED
        BY <1>2, <3>1 DEF MadeStep
    <2> QED
      BY <1>1, <1>2, <2>1 DEF Frame, Eases, Untouched, LinkStep
  <1>4. ApartInv'
    BY EasyApart DEF ContentInv
  <1>5. link' # NoDir => LinkedOK(dirs'[link'])
    BY <1>1, <1>2, LinkDir DEF ContentInv
  <1>6. ASSUME NEW d \in Dirs \ {n}
        PROVE  dirs'[d] = dirs[d] /\ d # proc[p].lock /\ (Settled(d)' => Settled(d))
    BY <1>1, <1>2, EasySettled
  <1>7. DirOK(dirs'[n]) /\ Keeps(n)'
    BY <1>1, <1>2 DEF Keeps
  <1>8. PICK D : D = {n}
    OBVIOUS
  <1>9. \A d \in D : DirOK(dirs'[d]) /\ Keeps(d)'
    BY <1>7, <1>8
  <1>10. \A d \in Dirs \ D : dirs'[d] = dirs[d] /\ d # proc[p].lock /\ (Settled(d)' => Settled(d))
    BY <1>6, <1>8
  <1> QED
    BY <1>3, <1>4, <1>5, <1>9, <1>10, StepKeeps

-----------------------------------------------------------------------------
(* Steps that only change the state of the process *)

\* A process that holds and makes nothing relies on nothing.
LEMMA FreeProc ==
  ASSUME NEW p \in Procs, NEW s, proc'[p] = s, ~Maker(s), ~Cloner(s), s.lock = NoDir,
         s.pc \notin InstallPcs, s.doing = "none"
  PROVE  ProcInv(proc[p])' /\ \A d \in Dirs : ~Finishing(proc'[p], d)
  BY DEF ProcInv, MakerInv, ClonerInv, HolderInv, InstallerInv, DoingInv, Maker, Cloner, Finishing

LEMMA EndsProc ==
  ASSUME TypeInv, NEW p \in Procs, Ends(p)
  PROVE  ProcInv(proc[p])' /\ (\A d \in Dirs : ~Finishing(proc'[p], d)) /\ Eases(p)
  <1>1. proc'[p] = Idle
    BY StepOfOne DEF Ends
  <1>2. ~Maker(Idle) /\ ~Cloner(Idle) /\ Idle.lock = NoDir /\ Idle.pc \notin InstallPcs /\ Idle.doing = "none"
    BY DEF Idle, Maker, Cloner, InstallPcs
  <1> QED
    BY <1>1, <1>2, FreeProc, EndsEases

LEMMA QuietEnd ==
  ASSUME TypeInv, TypeInv', ContentInv, LockInv', NEW p \in Procs, Ends(p), link' \in {NoDir, link},
         UNCHANGED <<dirs, promised>>, behind \subseteq behind', refused \subseteq refused'
  PROVE  ContentInv'
  BY EndsProc, QuietStep

\* A process that holds the lock and makes nothing.
LEMMA HolderProc ==
  ASSUME NEW p \in Procs, NEW s, proc'[p] = s, ~Maker(s), ~Cloner(s),
         s.pc \notin InstallPcs, DoingInv(s), HolderInv(proc[p])'
  PROVE  ProcInv(proc[p])' /\ \A d \in Dirs : ~Finishing(proc'[p], d)
  BY DEF ProcInv, MakerInv, ClonerInv, InstallerInv, DoingInv, Maker, Cloner, Finishing

LEMMA DaemonContent ==
  ASSUME TypeInv, TypeInv', ContentInv, LockInv', NEW p \in Procs, NEW v \in left.versions, Daemon(p, v)
  PROVE  ContentInv'
  <1>1. PICK s : s = [Idle EXCEPT !.pc = "open", !.cmd = "daemon", !.ver = v] /\ Becomes(p, s)
    BY DEF Daemon
  <1>2. s.pc = "open" /\ s.cmd = "daemon" /\ s.lock = NoDir /\ s.doing = "none"
    BY <1>1 DEF Idle
  <1>3. ~Maker(s) /\ ~Cloner(s) /\ s.pc \notin InstallPcs
    BY <1>2 DEF Maker, Cloner, InstallPcs
  <1>4. proc'[p] = s
    BY <1>1, StepOfOne
  <1>5. Eases(p) /\ link' \in {NoDir, link} /\ UNCHANGED <<dirs, promised, behind, refused>>
    BY EasyStepEases DEF EasyStep, Daemon, NoReport
  <1> QED
    BY <1>2, <1>3, <1>4, <1>5, FreeProc, QuietStep

LEMMA KillContent ==
  ASSUME TypeInv, TypeInv', ContentInv, LockInv', NEW p \in Procs, Kill(p)
  PROVE  ContentInv'
  BY QuietEnd DEF Kill, NoReport

LEMMA StartNodeContent ==
  ASSUME TypeInv, TypeInv', ContentInv, LockInv', NEW p \in Procs, StartNode(p)
  PROVE  ContentInv'
  <1> DEFINE r == proc[p]
  <1>1. UNCHANGED <<link, dirs, promised, behind, refused>> /\ Eases(p)
    BY EasyStepEases DEF EasyStep, StartNode, NoReport
  <1>2. CASE Ends(p)
    BY <1>1, <1>2, QuietEnd
  <1>3. CASE Loadable(dirs[r.stores].chain, r.ver) /\ Goes(p, "api0")
    <2>1. PICK s : s = [r EXCEPT !.pc = "api0"]
      OBVIOUS
    <2>2. proc'[p] = s
      BY <1>3, <2>1, StepOfOne DEF Goes
    <2>3. /\ s.pc = "api0" /\ s.cmd = r.cmd /\ s.lock = r.lock /\ s.mem = r.mem /\ s.doing = r.doing
          /\ s.saving = r.saving /\ s.at = r.at /\ s.ver = r.ver
      BY <2>1 DEF TypeInv, Processes
    <2>4. r.cmd = "daemon" /\ r.pc = "start"
      BY WhoseStep DEF StartNode
    <2>5. r.lock # NoDir /\ r.stores = r.lock
      BY <2>4 DEF TypeInv, Consistent, LockPcs, LoadedPcs, StorePcs, ContentInv, LockInv, LocksTheLink
    <2>6. dirs[r.lock].chain.headAs # "none"
      BY <1>3, <2>5 DEF Loadable, HeadWritten
    <2>7. ProcInv(r)
      BY DEF ContentInv
    <2>8. HolderOK(s, dirs[r.lock])
      BY <2>3, <2>4, <2>5, <2>6, <2>7 DEF ProcInv, HolderInv, HolderOK, SavePcs, LoadedPcs, StorePcs
    <2>9. link = r.lock => MemKept(s, dirs[r.lock], promised, refused)
      BY <2>3, <2>4, <2>5, <2>7 DEF ProcInv, HolderInv, MemKept, LoadedPcs, StorePcs
    <2>10. HolderInv(proc[p])'
      BY <1>1, <2>2, <2>3, <2>8, <2>9 DEF HolderInv
    <2>11. ~Maker(s) /\ ~Cloner(s) /\ s.pc \notin InstallPcs /\ DoingInv(s)
      BY <2>3, <2>4, <2>7 DEF Maker, Cloner, InstallPcs, ProcInv, DoingInv
    <2> QED
      BY <1>1, <2>2, <2>10, <2>11, HolderProc, QuietStep
  <1> QED
    BY <1>2, <1>3 DEF StartNode

LEMMA ConfigSetContent ==
  ASSUME TypeInv, TypeInv', ContentInv, LockInv', NEW p \in Procs, NEW n \in Settings, NEW known \in BOOLEAN,
         ConfigSet(p, n, known)
  PROVE  ContentInv'
  <1> DEFINE r == proc[p]
             sv == IF known THEN "truncate" ELSE "no"
             dg == IF known THEN n ELSE "none"
  <1>1. /\ UNCHANGED <<link, dirs, promised, behind>> /\ Eases(p) /\ refused \subseteq refused'
        /\ ~known => n \in refused'
    BY EasyStepEases DEF EasyStep, ConfigSet
  <1>2. PICK s : s = [r EXCEPT !.mem.set[n] = 1, !.saving = sv, !.doing = dg] /\ Becomes(p, s)
    BY DEF ConfigSet
  <1>3. r.pc = "running" /\ r.cmd = "daemon" /\ r.saving = "no" /\ ProcInv(r) /\ r \in Processes
    BY WhoseStep DEF ConfigSet, NodePcs, ContentInv, TypeInv
  <1>4. /\ s.pc = "running" /\ s.cmd = r.cmd /\ s.lock = r.lock /\ s.doing = dg
        /\ s.saving = sv /\ s.ver = r.ver
    BY <1>2, <1>3 DEF Processes
  <1>5. /\ s.mem.default = r.mem.default
        /\ \A x \in Settings : x # n => s.mem.set[x] = r.mem.set[x]
    BY <1>2, <1>3 DEF Processes, Configs
  <1>6. r.doing = "none" /\ "none" \notin Settings
    BY <1>3 DEF ProcInv, DoingInv, Settings
  <1>7. r.lock # NoDir
    BY <1>3 DEF TypeInv, Consistent, LockPcs, LoadedPcs, StorePcs, NodePcs
  <1>8. HolderOK(s, dirs[r.lock])
    BY <1>3, <1>4, <1>5, <1>7 DEF ProcInv, HolderInv, HolderOK, SavePcs
  <1>9. link = r.lock => MemKept(s, dirs[r.lock], promised, refused')
    <2> SUFFICES ASSUME link = r.lock, NEW x \in Settings
                 PROVE  \/ s.mem.set[x] \in {ReadConfig(dirs[r.lock].config).set[x], promised.set[x]}
                        \/ x \in refused' \/ s.doing = x
      BY DEF MemKept
    <2>1. CASE x = n
      BY <1>1, <1>4, <2>1
    <2>2. CASE x # n
      <3>1. MemKept(r, dirs[r.lock], promised, refused)
        BY <1>3, <1>7 DEF ProcInv, HolderInv, LoadedPcs, StorePcs, NodePcs
      <3> QED
        BY <1>1, <1>3, <1>5, <1>6, <2>2, <3>1 DEF MemKept
    <2> QED
      BY <2>1, <2>2
  <1>10. proc'[p] = s
    BY <1>2, StepOfOne
  <1>11. HolderInv(proc[p])'
    BY <1>1, <1>4, <1>8, <1>9, <1>10 DEF HolderInv
  <1>12. ~Maker(s) /\ ~Cloner(s) /\ s.pc \notin InstallPcs /\ DoingInv(s)
    BY <1>3, <1>4 DEF Maker, Cloner, InstallPcs, DoingInv
  <1> QED
    BY <1>1, <1>10, <1>11, <1>12, HolderProc, QuietStep

\* A migration between copying and Validate's result.
LEMMA ClonerMoves ==
  ASSUME NEW p \in Procs, NEW s, proc'[p] = s, Cloner(s), Cloner(proc[p]), s.new = proc[p].new,
         s.ver = proc[p].ver, proc[p].pc \notin CopyPcs, s.pc \notin CopyPcs \cup FinishPcs,
         ClonerInv(proc[p]), UNCHANGED <<dirs, promised, refused, behind>>
  PROVE  ClonerInv(proc[p])'
  <1>1. ClonerOK(s, dirs[s.new], dirs[s.at])
    BY DEF ClonerInv, ClonerOK, CopyPcs
  <1>2. s.new \notin behind => ClonerKeeps(s, dirs[s.new], dirs[s.at], promised, refused)
    BY DEF ClonerInv, ClonerKeeps, CopyPcs
  <1> QED
    BY <1>1, <1>2 DEF ClonerInv

\* A step of OpenFSRepo, of whichever program.
LEMMA OpenProc ==
  ASSUME TypeInv, ContentInv, NEW p \in Procs, NEW s, proc'[p] = s, s.cmd = proc[p].cmd, s.new = proc[p].new,
         s.ver = proc[p].ver, s.doing = "none", proc[p].pc \in OpenPcs,
         s.pc \in OpenPcs \cup {"start", "genesisMeta", "compare"},
         UNCHANGED <<dirs, promised, refused, behind>>, HolderInv(proc[p])'
  PROVE  ProcInv(proc[p])' /\ \A d \in Dirs : ~Finishing(proc'[p], d)
  <1>1. ~Maker(s) /\ s.pc \notin InstallPcs /\ s.pc \notin FinishPcs /\ s.pc \notin CopyPcs
    BY DEF OpenPcs, Maker, InitPcs, InstallPcs, FinishPcs, CopyPcs
  <1>2. Cloner(s) => Cloner(proc[p]) /\ proc[p].pc \notin CopyPcs
    BY DEF Cloner, OpenPcs, InstallPcs, CopyPcs
  <1>3. ClonerInv(proc[p])'
    <2>1. CASE Cloner(s)
      BY <1>1, <1>2, <2>1, ClonerMoves DEF ContentInv, ProcInv
    <2>2. CASE ~Cloner(s)
      BY <2>2 DEF ClonerInv, Cloner
    <2> QED
      BY <2>1, <2>2
  <1> QED
    BY <1>1, <1>3 DEF ProcInv, MakerInv, InstallerInv, DoingInv, Maker, Finishing

LEMMA WholeFile ==
  ASSUME NEW C, NEW file \in Files(C), file # NoFile, file # Truncated
  PROVE  file.content = "whole" /\ file.is \in C
  <1>1. PICK c \in C : file = Holding(c)
    BY DEF Files
  <1> QED
    BY <1>1 DEF Holding

LEMMA LoadContent ==
  ASSUME TypeInv, TypeInv', ContentInv, LockInv', NEW p \in Procs, Open(p), proc[p].pc = "loadVersion"
  PROVE  ContentInv'
  <1> DEFINE r == proc[p]
             f == dirs[proc[p].lock]
  <1>1. UNCHANGED <<link, dirs, promised, behind, refused>> /\ Eases(p)
    BY EasyStepEases DEF EasyStep, Open, NoReport
  <1>2. CASE Ends(p)
    BY <1>1, <1>2, QuietEnd
  <1>3. CASE /\ HasVersion(link, r.ver) /\ hasConfig(link)
             /\ Becomes(p, [r EXCEPT !.mem = ReadConfig(dirs[link].config), !.pc = "openStores"])
    <2>1. r.lock # NoDir /\ link = r.lock /\ ProcInv(r) /\ r.saving = "no"
      <3>1. r.lock # NoDir /\ r.saving = "no"
        BY DEF TypeInv, Consistent, LockPcs, SavePcs
      <3> QED
        BY <1>3, <3>1 DEF HasVersion, ContentInv, LockInv, LocksTheLink
    <2>2. PICK s : s = [r EXCEPT !.mem = ReadConfig(f.config), !.pc = "openStores"] /\ Becomes(p, s)
      BY <1>3, <2>1
    <2>3. /\ s.pc = "openStores" /\ s.cmd = r.cmd /\ s.lock = r.lock /\ s.mem = ReadConfig(f.config)
          /\ s.doing = r.doing /\ s.saving = "no" /\ s.ver = r.ver /\ s.new = r.new
      BY <2>1, <2>2 DEF TypeInv, Processes
    <2>4. f.version = Holding(r.ver) /\ f.config # NoFile /\ DirOK(f) /\ f \in Directories
      BY <1>3, <2>1, LockDir DEF HasVersion, hasConfig, ContentInv
    <2>5. ReadConfig(f.config).default \in f.wallet \cup {NoKey}
      <3>1. KeyHeld(f.config, f.wallet)
        BY <2>4, SMTT(60) DEF DirOK, NoFile, Holding
      <3>2. CASE f.config = Truncated
        BY <3>2 DEF ReadConfig, NewDefaultConfig
      <3>3. CASE f.config # Truncated
        <4>1. f.config.content = "whole"
          BY <2>4, <3>3, WholeFile DEF Directories
        <4> QED
          BY <3>1, <3>3, <4>1 DEF ReadConfig, KeyHeld
      <3> QED
        BY <3>2, <3>3
    <2>6. HolderOK(s, f)
      BY <2>3, <2>4, <2>5 DEF HolderOK, SavePcs, NodePcs
    <2>7. MemKept(s, f, promised, refused)
      BY <2>3 DEF MemKept
    <2>8. proc'[p] = s
      BY <2>2, StepOfOne
    <2>9. HolderInv(proc[p])'
      BY <1>1, <2>3, <2>6, <2>7, <2>8 DEF HolderInv
    <2>10. s.doing = "none"
      BY <2>1, <2>3 DEF ProcInv, DoingInv
    <2>11. ProcInv(proc[p])' /\ \A d \in Dirs : ~Finishing(proc'[p], d)
      BY <1>1, <2>3, <2>8, <2>9, <2>10, OpenProc DEF OpenPcs
    <2> QED
      BY <1>1, <2>11, QuietStep
  <1> QED
    BY <1>2, <1>3 DEF Open, loadFromDisk

LEMMA OpenStoresContent ==
  ASSUME TypeInv, TypeInv', ContentInv, LockInv', NEW p \in Procs, Open(p), proc[p].pc = "openStores"
  PROVE  ContentInv'
  <1> DEFINE r == proc[p]
             f == dirs[proc[p].lock]
  <1>1. UNCHANGED <<link, dirs, promised, behind, refused>>
    BY DEF Open, NoReport
  <1>2. CASE Ends(p)
    BY <1>1, <1>2, QuietEnd
  <1>3. ASSUME link # NoDir, NEW pc \in {"start", "genesisMeta", "compare"},
               Becomes(p, [r EXCEPT !.stores = link, !.pc = pc])
        PROVE  ContentInv'
    <2>1. r.lock # NoDir /\ link = r.lock /\ ProcInv(r) /\ r.saving = "no"
      <3>1. r.lock # NoDir /\ r.saving = "no"
        BY DEF TypeInv, Consistent, LockPcs, LoadedPcs, SavePcs
      <3> QED
        BY <1>3, <3>1 DEF ContentInv, LockInv, LocksTheLink
    <2>2. PICK s : s = [r EXCEPT !.stores = link, !.pc = pc] /\ Becomes(p, s)
      BY <1>3
    <2>3. /\ s.pc = pc /\ s.cmd = r.cmd /\ s.lock = r.lock /\ s.mem = r.mem /\ s.stores = r.lock
          /\ s.doing = r.doing /\ s.saving = "no" /\ s.ver = r.ver /\ s.new = r.new
      BY <2>1, <2>2 DEF TypeInv, Processes
    <2>4. s.doing = "none"
      BY <2>1, <2>3 DEF ProcInv, DoingInv
    <2>5. HolderOK(s, f)
      BY <2>1, <2>3 DEF ProcInv, HolderInv, HolderOK, SavePcs, NodePcs, LoadedPcs
    <2>6. MemKept(s, f, promised, refused)
      BY <2>1, <2>3 DEF ProcInv, HolderInv, MemKept, LoadedPcs
    <2>7. proc'[p] = s /\ Alone(p)
      BY <2>2, StepOfOne
    <2>8. HolderInv(proc[p])'
      BY <1>1, <2>3, <2>5, <2>6, <2>7 DEF HolderInv
    <2>9. ProcInv(proc[p])' /\ \A d \in Dirs : ~Finishing(proc'[p], d)
      BY <1>1, <2>3, <2>4, <2>7, <2>8, OpenProc DEF OpenPcs
    <2>10. Eases(p)
      BY <2>3, <2>7 DEF Eases, Milder, Maker, Cloner, InitPcs, InstallPcs, CopyPcs
    <2> QED
      BY <1>1, <2>9, <2>10, QuietStep
  <1> QED
    BY <1>2, <1>3 DEF Open, openStores

\* Taking the lock.  The directory behind the link had to have everything
\* before, and has a config.
LEMMA OpenContent ==
  ASSUME TypeInv, TypeInv', ContentInv, LockInv', NEW p \in Procs, Open(p), proc[p].pc = "open"
  PROVE  ContentInv'
  <1> DEFINE r == proc[p]
  <1>1. UNCHANGED <<link, dirs, promised, behind, refused>>
    BY DEF Open, NoReport
  <1>2. CASE Ends(p)
    BY <1>1, <1>2, QuietEnd
  <1>3. CASE hasConfig(link) /\ Becomes(p, [r EXCEPT !.lock = link, !.pc = "loadVersion"])
    <2>1. link # NoDir /\ dirs[link].config # NoFile /\ ProcInv(r) /\ r.saving = "no" /\ r.lock = NoDir
      BY <1>3 DEF hasConfig, ContentInv, TypeInv, Consistent, SavePcs, LockPcs, LoadedPcs, StorePcs, GenesisPcs,
         NodePcs
    <2>2. PICK s : s = [r EXCEPT !.lock = link, !.pc = "loadVersion"] /\ Becomes(p, s)
      BY <1>3
    <2>3. /\ s.pc = "loadVersion" /\ s.cmd = r.cmd /\ s.lock = link /\ s.doing = r.doing
          /\ s.saving = "no" /\ s.ver = r.ver /\ s.new = r.new
      BY <2>1, <2>2 DEF TypeInv, Processes
    <2>4. s.doing = "none"
      BY <2>1, <2>3 DEF ProcInv, DoingInv
    <2>5. proc'[p] = s /\ Alone(p)
      BY <2>2, StepOfOne
    <2>6. HolderOK(s, dirs[link]) /\ s.pc \notin LoadedPcs
      BY <2>1, <2>3 DEF HolderOK, SavePcs, NodePcs, LoadedPcs, StorePcs, GenesisPcs
    <2>7. HolderInv(proc[p])'
      BY <1>1, <2>3, <2>5, <2>6 DEF HolderInv
    <2>8. ProcInv(proc[p])' /\ \A d \in Dirs : ~Finishing(proc'[p], d)
      BY <1>1, <2>3, <2>4, <2>5, <2>7, OpenProc DEF OpenPcs
    <2>9. /\ Maker(s) = Maker(r) /\ Cloner(s) = Cloner(r) /\ Making(s) = Making(r)
          /\ s.pc \notin CopyPcs
      BY <2>3 DEF Making, Maker, Cloner, InitPcs, InstallPcs, CopyPcs
    <2>10. ApartInv'
      <3> SUFFICES ASSUME NEW t \in Procs, Making(proc'[t])
                   PROVE  Apart(t)'
        BY DEF ApartInv, Making, Maker, Cloner
      <3>1. /\ proc'[t].new = proc[t].new /\ Cloner(proc'[t]) = Cloner(proc[t])
            /\ Apart(t)
        BY <2>3, <2>5, <2>9 DEF Alone, ContentInv, ApartInv
      <3>2. ASSUME NEW q \in Procs
            PROVE  /\ proc'[q].lock # proc'[t].new
                   /\ proc'[q].pc \in CopyPcs => proc'[q].at # proc'[t].new
                   /\ q # t /\ (Making(proc'[q]) \/ Cloner(proc'[t])) => proc'[q].new # proc'[t].new
        <4>1. CASE q = p
          BY <2>3, <2>5, <2>9, <3>1, <4>1 DEF Apart
        <4>2. CASE q # p
          BY <2>5, <3>1, <4>2 DEF Apart, Alone
        <4> QED
          BY <4>1, <4>2
      <3> QED
        BY <1>1, <3>1, <3>2 DEF Apart, Making, Maker, Cloner
    <2>11. Frame(p)
      BY <1>1, <2>1, <2>5 DEF Frame, Untouched, GhostStep, LockedStep, MadeStep, LinkStep
    <2>12. ASSUME NEW d \in Dirs
           PROVE  dirs'[d] = dirs[d] /\ d # r.lock /\ (Settled(d)' => Settled(d))
      <3>1. d # r.lock
        BY <2>1, SMTT(60) DEF Dirs, NoDir
      <3>2. ASSUME NEW q \in Procs, proc'[q].lock = d \/ Finishing(proc'[q], d)
            PROVE  link = d \/ proc[q].lock = d \/ Finishing(proc[q], d)
        BY <2>3, <2>5, <2>8, <3>2 DEF Alone
      <3> QED
        BY <1>1, <3>1, <3>2 DEF Settled, Finishing, Cloner
    <2>13. link' # NoDir => LinkedOK(dirs'[link'])
      BY <1>1 DEF ContentInv
    <2>14. PICK D : D = {}
      OBVIOUS
    <2>15. \A d \in Dirs \ D : dirs'[d] = dirs[d] /\ d # proc[p].lock /\ (Settled(d)' => Settled(d))
      BY <2>12
    <2>16. \A d \in D : DirOK(dirs'[d]) /\ Keeps(d)'
      BY <2>14
    <2> QED
      BY <2>8, <2>10, <2>11, <2>13, <2>15, <2>16, StepKeeps
  <1> QED
    BY <1>2, <1>3 DEF Open, OpenFSRepo

LEMMA ClonerProc ==
  ASSUME NEW p \in Procs, NEW s, proc'[p] = s, Cloner(s), s.lock = NoDir, s.doing = "none", ClonerInv(proc[p])'
  PROVE  ProcInv(proc[p])'
  BY DEF ProcInv, MakerInv, HolderInv, InstallerInv, DoingInv, Maker, Cloner

LEMMA MigrateContent ==
  ASSUME TypeInv, TypeInv', ContentInv, LockInv', NEW p \in Procs, Migrate(p)
  PROVE  ContentInv'
  <1> DEFINE r == proc[p]
  <1>1. UNCHANGED <<link, dirs, promised, behind, refused>> /\ Eases(p)
    BY EasyStepEases DEF EasyStep, Migrate, NoReport
  <1>2. CASE Ends(p)
    BY <1>1, <1>2, QuietEnd
  <1>3. ASSUME NEW h, Becomes(p, [r EXCEPT !.pc = "convert", !.at = h])
        PROVE  ContentInv'
    <2>1. r.pc = "migrate" /\ r.cmd \in {"migrate", "buildonly"} /\ ProcInv(r)
      BY WhoseStep DEF Migrate, BuildPcs, ContentInv
    <2>2. PICK s : s = [r EXCEPT !.pc = "convert", !.at = h] /\ Becomes(p, s)
      BY <1>3
    <2>3. /\ s.pc = "convert" /\ s.cmd = r.cmd /\ s.lock = r.lock /\ s.doing = r.doing
          /\ s.ver = r.ver /\ s.new = r.new
      BY <2>2 DEF TypeInv, Processes
    <2>4. s.lock = NoDir /\ s.doing = "none"
      BY <2>1, <2>3 DEF ProcInv, DoingInv, TypeInv, Consistent, LockPcs, LoadedPcs, StorePcs, GenesisPcs, SavePcs,
         NodePcs
    <2>5. proc'[p] = s
      BY <2>2, StepOfOne
    <2>6. Cloner(s) /\ Cloner(r) /\ r.pc \notin CopyPcs /\ s.pc \notin CopyPcs \cup FinishPcs
      BY <2>1, <2>3 DEF Cloner, InstallPcs, CopyPcs, FinishPcs
    <2>7. ClonerInv(proc[p])'
      BY <1>1, <2>1, <2>3, <2>5, <2>6, ClonerMoves DEF ProcInv
    <2>8. ProcInv(proc[p])' /\ \A d \in Dirs : ~Finishing(proc'[p], d)
      BY <2>4, <2>5, <2>6, <2>7, ClonerProc DEF Finishing
    <2> QED
      BY <1>1, <2>8, QuietStep
  <1> QED
    BY <1>2, <1>3 DEF Migrate

-----------------------------------------------------------------------------
(* Steps that change the link *)

\* What an init has made is whole but empty.
LEMMA MakerHas ==
  ASSUME NEW r, NEW n \in Directories, MakerOK(r, n), NEW rf
  PROVE  AllKept(n, NothingYet, rf) /\ GoodOld(n.chain) /\ GoodNew(n.chain) /\ DirOK(n)
  <1>1. n.config \in {NoFile, Truncated, Holding(NewDefaultConfig)} /\ n.tmp = NoFile
    BY DEF MakerOK
  <1>2. n.config # NoFile => ReadConfig(n.config) = NewDefaultConfig
    BY <1>1, SMTT(60) DEF ReadConfig, Holding, Truncated
  <1>3. NewDefaultConfig.set = NothingYet.set /\ NewDefaultConfig.default = NoKey
    BY DEF NewDefaultConfig, NothingYet
  <1>4. FileKept(n.config, NothingYet, rf)
    BY <1>2, <1>3 DEF FileKept, SetKept
  <1>5. /\ NothingYet.keys = {} /\ NothingYet.height = 0 /\ EmptyChain.head = 0
        /\ EmptyChain.headAs = "none"
    BY DEF NothingYet, EmptyChain
  <1>6. NothingYet.height <= n.chain.head
    BY <1>5, SMTT(60) DEF MakerOK
  <1>7. KeyHeld(n.config, n.wallet) /\ KeyHeld(n.tmp, n.wallet)
    BY <1>1, <1>3, SMTT(60) DEF KeyHeld, NoFile, Truncated, Holding
  <1>8. GoodOld(n.chain) /\ GoodNew(n.chain)
    BY <1>5 DEF MakerOK, GoodOld, GoodNew, Good
  <1> QED
    BY <1>4, <1>5, <1>6, <1>7, <1>8 DEF AllKept, Kept, MakerOK, DirOK

\* The link is made to a directory nobody makes any longer.
LEMMA PointContent ==
  ASSUME TypeInv, TypeInv', ContentInv, LockInv', NEW p \in Procs, NEW n \in Dirs, n = proc[p].new,
         PointLinkTo(n, p), UNCHANGED <<dirs, promised, refused, behind>>, ~raced',
         Eases(p), proc[p].lock = NoDir, ~Making(proc'[p]), \A d \in Dirs : ~Finishing(proc'[p], d),
         ProcInv(proc[p])', \A t \in Procs \ {p} : Making(proc[t]) => n # proc[t].new,
         LinkedOK(dirs[n]), n \notin behind => AllKept(dirs[n], promised, refused)
  PROVE  ContentInv'
  <1>1. link' = n /\ \A q \in Procs : proc[q].lock = NoDir
    BY DEF PointLinkTo
  <1>2. Frame(p)
    BY <1>1 DEF Frame, Eases, Untouched, GhostStep, LockedStep, MadeStep, LinkStep
  <1>3. ApartInv'
    <2> SUFFICES ASSUME NEW t \in Procs, Making(proc'[t])
                 PROVE  Apart(t)'
      BY DEF ApartInv, Making, Maker, Cloner
    <2>1. t # p /\ proc'[t] = proc[t] /\ Making(proc[t]) /\ Apart(t) /\ proc[t].new # NoDir
      <3>1. t # p /\ proc'[t] = proc[t]
        BY DEF Eases, Alone
      <3> QED
        BY <3>1, MakingDir, SMTT(60) DEF ContentInv, ApartInv, Dirs, NoDir
    <2>2. ASSUME NEW q \in Procs
          PROVE  /\ proc'[q].lock # proc'[t].new
                 /\ proc'[q].pc \in CopyPcs => proc'[q].at # proc'[t].new
                 /\ q # t /\ (Making(proc'[q]) \/ Cloner(proc'[t])) => proc'[q].new # proc'[t].new
      <3>1. CASE q = p
        BY <1>1, <2>1, <3>1 DEF Apart, Eases, Milder
      <3>2. CASE q # p
        BY <2>1, <3>2 DEF Apart, Eases, Alone
      <3> QED
        BY <3>1, <3>2
    <2> QED
      BY <1>1, <2>1, <2>2 DEF Apart, Making, Maker, Cloner
  <1>4. link' # NoDir => LinkedOK(dirs'[link'])
    BY <1>1
  <1>5. ASSUME NEW d \in Dirs \ {n}
        PROVE  dirs'[d] = dirs[d] /\ d # proc[p].lock /\ (Settled(d)' => Settled(d))
    <2>1. d # NoDir
      BY SMTT(60) DEF Dirs, NoDir
    <2>2. ASSUME NEW q \in Procs, proc'[q].lock = d \/ Finishing(proc'[q], d)
          PROVE  proc[q].lock = d \/ Finishing(proc[q], d)
      BY <1>1, <2>1, <2>2 DEF Eases, Milder, Alone
    <2> QED
      BY <1>1, <2>1, <2>2 DEF Settled, Finishing, Cloner
  <1>6. DirOK(dirs'[n]) /\ Keeps(n)'
    BY DEF ContentInv, Keeps
  <1>7. PICK D : D = {n}
    OBVIOUS
  <1>8. \A d \in D : DirOK(dirs'[d]) /\ Keeps(d)'
    BY <1>6, <1>7
  <1>9. \A d \in Dirs \ D : dirs'[d] = dirs[d] /\ d # proc[p].lock /\ (Settled(d)' => Settled(d))
    BY <1>5, <1>7
  <1> QED
    BY <1>2, <1>3, <1>4, <1>8, <1>9, StepKeeps

LEMMA SymlinkContent ==
  ASSUME TypeInv, TypeInv', ContentInv, LockInv', ~raced', NEW p \in Procs, InitSymlink(p)
  PROVE  ContentInv'
  <1> DEFINE r == proc[p]
  <1>1. UNCHANGED <<dirs, promised, behind, refused>> /\ Eases(p)
    BY EasyStepEases DEF EasyStep, InitSymlink
  <1>2. CASE Ends(p) /\ UNCHANGED link
    BY <1>1, <1>2, QuietEnd
  <1>3. CASE PointLinkTo(r.new, p) /\ Goes(p, "open")
    <2>1. r.pc = "symlink" /\ r.cmd = "init" /\ ProcInv(r)
      BY WhoseStep DEF InitSymlink, ContentInv
    <2>2. Maker(r) /\ Making(r)
      BY <2>1 DEF Maker, Making, InitPcs
    <2>3. PICK n \in Dirs : n = r.new
      BY <2>2, MakingDir
    <2>4. MakerOK(r, dirs[n]) /\ dirs[n] \in Directories /\ (n \notin behind => promised = NothingYet)
      BY <2>1, <2>2, <2>3, MakingDir DEF ProcInv, MakerInv
    <2>5. PICK s : s = [r EXCEPT !.pc = "open"] /\ Becomes(p, s)
      BY <1>3 DEF Goes
    <2>6. s.pc = "open" /\ s.cmd = "init" /\ s.lock = r.lock /\ s.doing = r.doing
      BY <2>1, <2>5 DEF TypeInv, Processes
    <2>7. r.lock = NoDir /\ r.doing = "none"
      BY <2>1 DEF ProcInv, DoingInv, TypeInv, Consistent, LockPcs, LoadedPcs, StorePcs, GenesisPcs, SavePcs,
         NodePcs
    <2>8. ~Maker(s) /\ ~Cloner(s) /\ s.pc \notin InstallPcs /\ ~Making(s)
      BY <2>6 DEF Making, Maker, Cloner, InitPcs, InstallPcs
    <2>9. proc'[p] = s
      BY <2>5, StepOfOne
    <2>10. ProcInv(proc[p])' /\ \A d \in Dirs : ~Finishing(proc'[p], d)
      BY <2>6, <2>7, <2>8, <2>9, FreeProc
    <2>11. \A t \in Procs \ {p} : Making(proc[t]) => n # proc[t].new
      BY <2>2, <2>3 DEF ContentInv, ApartInv, Apart
    <2>12. LinkedOK(dirs[n])
      <3>1. dirs[n].version = Holding(r.ver) /\ r.ver \in Versions
        BY <2>1, <2>4 DEF MakerOK, TypeInv, Processes
      <3> QED
        BY <2>4, <3>1, MakerHas DEF LinkedOK, Versions
    <2>13. n \notin behind => AllKept(dirs[n], promised, refused)
      BY <2>4, MakerHas
    <2>14. PointLinkTo(n, p)
      BY <1>3, <2>3
    <2> QED
      BY <1>1, <2>3, <2>7, <2>8, <2>9, <2>10, <2>11, <2>12, <2>13, <2>14, PointContent
  <1> QED
    BY <1>2, <1>3 DEF InitSymlink

LEMMA InstallContent ==
  ASSUME TypeInv, TypeInv', ContentInv, LockInv', ~raced', NEW p \in Procs, InstallNewRepo(p)
  PROVE  ContentInv'
  <1> DEFINE r == proc[p]
  <1>1. UNCHANGED <<dirs, promised, behind, refused>> /\ Eases(p)
    BY EasyStepEases DEF EasyStep, InstallNewRepo
  <1>2. CASE Ends(p) /\ link' \in {NoDir, link}
    BY <1>1, <1>2, QuietEnd
  <1>3. r.pc \in InstallPcs /\ r.cmd \in {"migrate", "install"} /\ ProcInv(r)
    BY WhoseStep DEF InstallNewRepo, ContentInv, InstallPcs
  <1>4. r.lock = NoDir /\ r.doing = "none"
    BY <1>3 DEF ProcInv, DoingInv, TypeInv, Consistent, LockPcs, LoadedPcs, StorePcs, GenesisPcs, SavePcs,
       NodePcs, InstallPcs
  <1>5. dirs[r.new].version = Holding(Version)
    BY <1>3 DEF ProcInv, InstallerInv
  <1>6. CASE Goes(p, "relink") /\ link' = NoDir
    <2>1. PICK s : s = [r EXCEPT !.pc = "relink"] /\ Becomes(p, s)
      BY <1>6 DEF Goes
    <2>2. s.pc = "relink" /\ s.cmd = r.cmd /\ s.lock = NoDir /\ s.doing = "none" /\ s.new = r.new
      BY <1>4, <2>1 DEF TypeInv, Processes
    <2>3. proc'[p] = s
      BY <2>1, StepOfOne
    <2>4. ~Maker(s) /\ ~Cloner(s)
      BY <1>3, <2>2 DEF Maker, Cloner, InstallPcs
    <2>5. ProcInv(proc[p])' /\ \A d \in Dirs : ~Finishing(proc'[p], d)
      BY <1>1, <1>5, <2>2, <2>3, <2>4 DEF ProcInv, MakerInv, ClonerInv, HolderInv, InstallerInv, DoingInv,
         Finishing, Maker, Cloner
    <2> QED
      BY <1>1, <1>6, <2>5, QuietStep
  <1>7. CASE PointLinkTo(r.new, p) /\ Ends(p)
    <2>1. PICK n \in Dirs : n = r.new /\ PointLinkTo(n, p)
      BY <1>3, <1>7, NewDir
    <2>2. dirs[n].exists /\ Settled(n) /\ LinkedOK(dirs[n])
      BY <1>3, <1>5, <2>1, NewDir DEF Settled, LinkedOK
    <2>3. n \notin behind => AllKept(dirs[n], promised, refused)
      BY <2>2 DEF ContentInv, Keeps
    <2>4. ASSUME NEW t \in Procs \ {p}, Making(proc[t])
          PROVE  n # proc[t].new
      BY <2>1, <2>4 DEF PointLinkTo, Making, Maker, ContentInv, ApartInv, Apart
    <2>5. ~Making(proc'[p])
      BY <1>7, StepOfOne, SMTT(60) DEF Ends, Idle, Making, Maker, Cloner
    <2> QED
      BY <1>1, <1>4, <1>7, <2>1, <2>2, <2>3, <2>4, <2>5, EndsProc, PointContent
  <1> QED
    BY <1>2, <1>6, <1>7 DEF InstallNewRepo

-----------------------------------------------------------------------------
(* Steps that make a directory *)

LEMMA MakerStep ==
  ASSUME TypeInv, TypeInv', ContentInv, LockInv', NEW p \in Procs, Maker(proc[p]), NEW pc \in InitPcs, Goes(p, pc),
         NEW n \in Dirs, n = proc[p].new, NEW g \in Directories, Holds(n, g), NoReport, UNCHANGED link,
         MakerOK([proc[p] EXCEPT !.pc = pc], g),
         dirs[n].version = Holding(Version) => g.version = Holding(Version)
  PROVE  ContentInv'
  <1> DEFINE r == proc[p]
  <1>1. PICK s : s = [r EXCEPT !.pc = pc]
    OBVIOUS
  <1>2. proc'[p] = s
    BY <1>1, StepOfOne DEF Goes
  <1>3. s.pc = pc /\ s.cmd = "init" /\ s.lock = r.lock /\ s.doing = r.doing /\ s.new = n
    BY <1>1 DEF TypeInv, Processes, Maker
  <1>4. ProcInv(r) /\ r.lock = NoDir /\ r.doing = "none" /\ Making(r)
    BY DEF ContentInv, ProcInv, DoingInv, Making, Maker, TypeInv, Consistent, LockPcs, LoadedPcs, StorePcs,
       GenesisPcs, SavePcs, NodePcs, InitPcs
  <1>5. Eases(p)
    BY GoesEases DEF Maker, InitPcs, InstallPcs, CopyPcs
  <1>6. dirs'[n] = g /\ UNCHANGED <<promised, refused, behind>>
    BY HoldsFacts DEF NoReport
  <1>7. MakerOK(s, g) /\ (n \notin behind => promised = NothingYet)
    BY <1>1, <1>4 DEF ProcInv, MakerInv
  <1>8. ~Cloner(s) /\ s.pc \notin InstallPcs
    BY <1>3 DEF Cloner, InitPcs, InstallPcs
  <1>9. MakerInv(proc[p])'
    BY <1>2, <1>3, <1>6, <1>7 DEF MakerInv
  <1>10. ProcInv(proc[p])' /\ \A d \in Dirs : ~Finishing(proc'[p], d)
    BY <1>2, <1>3, <1>4, <1>8, <1>9 DEF ProcInv, ClonerInv, HolderInv, InstallerInv, DoingInv, Finishing, Cloner
  <1>11. DirOK(g) /\ (n \notin behind => AllKept(g, promised, refused))
    BY <1>7, MakerHas
  <1>12. MadeStep(p)
    BY <1>6 DEF MadeStep
  <1> QED
    BY <1>4, <1>5, <1>10, <1>11, <1>12, MakingStep

LEMMA InitConfigContent ==
  ASSUME TypeInv, TypeInv', ContentInv, LockInv', NEW p \in Procs, initConfig(p)
  PROVE  ContentInv'
  <1> DEFINE r == proc[p]
  <1>1. r.pc \in {"config0", "config"} /\ Maker(r) /\ NoReport /\ UNCHANGED link
    BY DEF initConfig, Maker, TypeInv, Consistent, PcsOf, OpenPcs, NodePcs, InitPcs, InstallPcs, FinishPcs,
       BuildPcs, CopyPcs
  <1>2. CASE Ends(p) /\ UNCHANGED dirs
    BY <1>1, <1>2, QuietEnd DEF NoReport
  <1>3. PICK n \in Dirs : n = r.new
    BY <1>1, MakingDir DEF Making
  <1>4. dirs[n] \in Directories /\ MakerOK(r, dirs[n])
    BY <1>1, <1>3, MakingDir DEF Making, ContentInv, ProcInv, MakerInv
  <1>5. ASSUME NEW pc \in InitPcs, Goes(p, pc), NEW c \in Files(Configs), Holds(n, [dirs[n] EXCEPT !.config = c]),
               \/ r.pc = "config0" /\ pc = "config" /\ c = Truncated
               \/ r.pc = "config" /\ pc = "symlink" /\ c = Holding(NewDefaultConfig)
        PROVE  ContentInv'
    <2>1. PICK g : g = [dirs[n] EXCEPT !.config = c]
      OBVIOUS
    <2>2. /\ g \in Directories /\ g.config = c /\ g.chain = dirs[n].chain /\ g.wallet = dirs[n].wallet
          /\ g.tmp = dirs[n].tmp /\ g.version = dirs[n].version
      BY <1>4, <2>1 DEF Directories
    <2>3. [r EXCEPT !.pc = pc].pc = pc /\ [r EXCEPT !.pc = pc].ver = r.ver
      BY DEF TypeInv, Processes
    <2>4. MakerOK([r EXCEPT !.pc = pc], g)
      BY <1>4, <1>5, <2>2, <2>3 DEF MakerOK
    <2> QED
      BY <1>1, <1>3, <1>5, <2>1, <2>2, <2>4, MakerStep
  <1>6. Truncated \in Files(Configs) /\ Holding(NewDefaultConfig) \in Files(Configs)
    BY IdleType DEF Files, Idle, Processes
  <1> QED
    BY <1>2, <1>3, <1>5, <1>6 DEF initConfig, InitPcs

LEMMA MakeVersionContent ==
  ASSUME TypeInv, TypeInv', ContentInv, LockInv', NEW p \in Procs, WriteVersion(p), proc[p].cmd = "init"
  PROVE  ContentInv'
  <1> DEFINE r == proc[p]
  <1>1. r.pc \in {"version0", "version"} /\ Maker(r) /\ NoReport /\ UNCHANGED link
    BY DEF WriteVersion, Maker, InitPcs
  <1>2. PICK n \in Dirs : n = r.new
    BY <1>1, MakingDir DEF Making
  <1>3. dirs[n] \in Directories /\ MakerOK(r, dirs[n])
    BY <1>1, <1>2, MakingDir DEF Making, ContentInv, ProcInv, MakerInv
  <1>4. dirs[n].version # Holding(Version)
    BY <1>1, <1>3, SMTT(60) DEF MakerOK, NoFile, Truncated, Holding
  <1>5. ASSUME NEW pc \in InitPcs, Goes(p, pc), NEW v \in Files(Versions), Holds(n, [dirs[n] EXCEPT !.version = v]),
               \/ r.pc = "version0" /\ pc = "version" /\ v = Truncated
               \/ r.pc = "version" /\ pc = "config0" /\ v = Holding(r.ver)
        PROVE  ContentInv'
    <2>1. PICK g : g = [dirs[n] EXCEPT !.version = v]
      OBVIOUS
    <2>2. /\ g \in Directories /\ g.version = v /\ g.chain = dirs[n].chain /\ g.wallet = dirs[n].wallet
          /\ g.tmp = dirs[n].tmp /\ g.config = dirs[n].config
      BY <1>3, <2>1 DEF Directories
    <2>3. [r EXCEPT !.pc = pc].pc = pc /\ [r EXCEPT !.pc = pc].ver = r.ver
      BY DEF TypeInv, Processes
    <2>4. MakerOK([r EXCEPT !.pc = pc], g)
      BY <1>3, <1>5, <2>2, <2>3 DEF MakerOK
    <2> QED
      BY <1>1, <1>2, <1>4, <1>5, <2>1, <2>2, <2>4, MakerStep
  <1>6. Truncated \in Files(Versions) /\ Holding(r.ver) \in Files(Versions)
    BY DEF Files, TypeInv, Processes
  <1> QED
    BY <1>2, <1>5, <1>6 DEF WriteVersion, InitPcs

\* Steps that write to the clone.
LEMMA ClonerStep ==
  ASSUME TypeInv, TypeInv', ContentInv, LockInv', NEW p \in Procs, Cloner(proc[p]), proc[p].lock = NoDir,
         NEW s, Becomes(p, s), Cloner(s), s.lock = NoDir, s.stores = NoDir, s.doing = "none", s.new = proc[p].new,
         s.pc \in CopyPcs => proc[p].pc \in CopyPcs /\ s.at = proc[p].at,
         s.pc \in FinishPcs => proc[p].pc \in FinishPcs,
         NEW n \in Dirs, n = proc[p].new, NEW g \in Directories, Holds(n, g), NoReport, UNCHANGED link,
         DirOK(g), ClonerOK(s, g, dirs[s.at]),
         n \notin behind => ClonerKeeps(s, g, dirs[s.at], promised, refused),
         s.pc \in FinishPcs /\ n \notin behind => AllKept(g, promised, refused)
  PROVE  ContentInv'
  <1> DEFINE r == proc[p]
  <1>1. proc'[p] = s /\ Alone(p)
    BY StepOfOne
  <1>2. Eases(p)
    BY <1>1 DEF Eases, Milder, Maker, Cloner
  <1>3. UNCHANGED <<promised, refused, behind>>
    BY DEF NoReport
  <1>4. dirs'[n] = g /\ \A e \in Dirs \ {n} : dirs'[e] = dirs[e]
    BY HoldsFacts
  <1>5. Apart(p) /\ Making(r)
    BY DEF ContentInv, ApartInv, Making
  <1>6. s.pc \in CopyPcs => dirs'[s.at] = dirs[s.at]
    <2>1. s.pc \in CopyPcs => s.at \in Dirs
      BY <1>1 DEF TypeInv, Consistent
    <2>2. s.pc \in CopyPcs => s.at # n
      BY <1>5 DEF Apart
    <2> QED
      BY <1>4, <2>1, <2>2
  <1>7. ClonerOK(s, g, dirs'[s.at])
    BY <1>6 DEF ClonerOK, CopyPcs
  <1>8. n \notin behind => ClonerKeeps(s, g, dirs'[s.at], promised, refused)
    BY <1>6 DEF ClonerKeeps, CopyPcs
  <1>9. ClonerInv(proc[p])'
    BY <1>1, <1>3, <1>4, <1>7, <1>8 DEF ClonerInv
  <1>10. ProcInv(proc[p])'
    BY <1>1, <1>9, ClonerProc
  <1>11. n \notin behind /\ Settled(n)' => AllKept(g, promised, refused)
    <2> SUFFICES ASSUME n \notin behind, Settled(n)'
                 PROVE  s.pc \in FinishPcs
      OBVIOUS
    <2>1. g.version # Holding(Version)
      BY SMTT(60) DEF ClonerOK, NoFile, Holding
    <2>2. ASSUME NEW q \in Procs, q # p
          PROVE  proc'[q].lock # n /\ ~Finishing(proc'[q], n)
      BY <1>1, <1>5, <2>2 DEF Apart, Alone, Finishing
    <2>3. proc'[p].lock # n
      BY <1>1, SMTT(60) DEF Dirs, NoDir
    <2>4. link' # n
      BY <1>5 DEF Apart
    <2>5. \E q \in Procs : proc'[q].lock = n \/ Finishing(proc'[q], n)
      BY <1>4, <2>1, <2>4 DEF Settled, Finishing, Cloner
    <2>6. Finishing(proc'[p], n)
      BY <2>2, <2>3, <2>5
    <2> QED
      BY <1>1, <2>6 DEF Finishing
  <1>12. MadeStep(p)
    BY DEF MadeStep, Maker, Cloner
  <1>13. \A d \in Dirs : Finishing(proc'[p], d) => Finishing(r, d)
    BY <1>1 DEF Finishing
  <1> QED
    BY <1>2, <1>5, <1>10, <1>11, <1>12, <1>13, MakingStep

\* The fields of a process that only moves on.
LEMMA GoesFields ==
  ASSUME TypeInv, NEW p \in Procs, NEW pc, NEW s, s = [proc[p] EXCEPT !.pc = pc]
  PROVE  /\ s.pc = pc /\ s.cmd = proc[p].cmd /\ s.ver = proc[p].ver /\ s.lock = proc[p].lock
         /\ s.stores = proc[p].stores /\ s.new = proc[p].new /\ s.at = proc[p].at /\ s.mem = proc[p].mem
         /\ s.saving = proc[p].saving /\ s.doing = proc[p].doing
  BY DEF TypeInv, Processes

\* A migration outside Validate holds no lock.
LEMMA ClonerFree ==
  ASSUME TypeInv, ContentInv, NEW p \in Procs, proc[p].pc \in BuildPcs \cup FinishPcs, proc[p].cmd # "init"
  PROVE  /\ proc[p].lock = NoDir /\ proc[p].stores = NoDir /\ proc[p].doing = "none" /\ Cloner(proc[p])
         /\ ProcInv(proc[p]) /\ proc[p].new \in Dirs /\ dirs[proc[p].new] \in Directories
         /\ DirOK(dirs[proc[p].new])
  <1>1. proc[p].lock = NoDir /\ proc[p].stores = NoDir
    BY DEF TypeInv, Consistent, LockPcs, LoadedPcs, StorePcs, GenesisPcs, SavePcs, NodePcs, BuildPcs, CopyPcs,
       FinishPcs
  <1>2. Cloner(proc[p])
    BY DEF TypeInv, Consistent, PcsOf, OpenPcs, NodePcs, InitPcs, InstallPcs, BuildPcs, CopyPcs, FinishPcs, Cloner
  <1>3. ProcInv(proc[p]) /\ proc[p].doing = "none"
    BY DEF ContentInv, ProcInv, DoingInv, BuildPcs, CopyPcs, FinishPcs
  <1>4. proc[p].new \in Dirs /\ dirs[proc[p].new] \in Directories
    BY <1>2, MakingDir DEF Making
  <1> QED
    BY <1>1, <1>2, <1>3, <1>4 DEF ContentInv

LEMMA CloneContent ==
  ASSUME TypeInv, TypeInv', ContentInv, LockInv', NEW p \in Procs, CloneRepo(p)
  PROVE  ContentInv'
  <1> DEFINE r == proc[p]
             from == dirs[proc[p].at]
  <1>1. r.pc \in CopyPcs /\ r.cmd # "init" /\ NoReport /\ UNCHANGED link
    BY WhoseStep DEF CloneRepo, CopyPcs, BuildPcs
  <1>2. PICK n \in Dirs : n = r.new
    BY <1>1, ClonerFree DEF BuildPcs
  <1>3. /\ r.lock = NoDir /\ r.stores = NoDir /\ r.doing = "none" /\ Cloner(r) /\ ProcInv(r)
        /\ dirs[n] \in Directories /\ DirOK(dirs[n])
    BY <1>1, <1>2, ClonerFree DEF BuildPcs
  <1>4. from \in Directories /\ DirOK(from)
    BY <1>1 DEF TypeInv, Consistent, ContentInv
  <1>5. ClonerOK(r, dirs[n], from) /\ (n \notin behind => ClonerKeeps(r, dirs[n], from, promised, refused))
    BY <1>2, <1>3 DEF ProcInv, ClonerInv
  <1>6. from.version = Holding(OldVersion) /\ dirs[n].version = NoFile /\ r.ver = OldVersion
    BY <1>1, <1>5 DEF ClonerOK
  <1>7. KeyHeld(from.config, from.wallet) /\ KeyHeld(from.tmp, from.wallet)
    BY <1>4, <1>6, SMTT(60) DEF DirOK, NoFile, Holding
  <1>8. CASE r.pc = "copy1"
    <2>1. PICK g : g = [dirs[n] EXCEPT !.api = from.api, !.chain = from.chain, !.config = from.config]
      OBVIOUS
    <2>2. Holds(n, g) /\ Goes(p, "copy2")
      BY <1>2, <1>8, <2>1 DEF CloneRepo
    <2>3. g \in Directories /\ g.chain = from.chain /\ g.config = from.config /\ g.version = NoFile
      BY <1>3, <1>4, <1>6, <2>1 DEF Directories
    <2>4. PICK s : s = [r EXCEPT !.pc = "copy2"]
      OBVIOUS
    <2>5. /\ s.pc = "copy2" /\ s.cmd = r.cmd /\ s.ver = r.ver /\ s.lock = NoDir /\ s.stores = NoDir
          /\ s.new = n /\ s.at = r.at /\ s.doing = "none"
      BY <1>2, <1>3, <2>4, GoesFields, SMTT(60)
    <2>6. Becomes(p, s)
      BY <2>2, <2>4 DEF Goes
    <2>7. DirOK(g)
      BY <1>4, <2>3, SMTT(60) DEF DirOK, NoFile, Holding
    <2>8. ClonerOK(s, g, dirs[s.at])
      BY <1>6, <1>7, <2>3, <2>5 DEF ClonerOK, CopyPcs, FinishPcs
    <2>9. n \notin behind => ClonerKeeps(s, g, dirs[s.at], promised, refused)
      BY <1>5, <1>8, <2>3, <2>5 DEF ClonerKeeps, CopyPcs, Kept
    <2>10. Cloner(s) /\ s.pc \in CopyPcs /\ s.pc \notin FinishPcs
      BY <1>3, <2>5 DEF Cloner, InstallPcs, CopyPcs, FinishPcs
    <2> QED
      BY <1>1, <1>2, <1>3, <2>2, <2>3, <2>5, <2>6, <2>7, <2>8, <2>9, <2>10, ClonerStep
  <1>9. CASE r.pc = "copy2"
    <2>1. PICK g : g = [dirs[n] EXCEPT !.peerKey = from.peerKey, !.tmp = from.tmp,
                                       !.version = from.version, !.wallet = from.wallet]
      OBVIOUS
    <2>2. Holds(n, g) /\ Goes(p, "migrate")
      BY <1>2, <1>9, <2>1 DEF CloneRepo
    <2>3. /\ g \in Directories /\ g.chain = dirs[n].chain /\ g.config = dirs[n].config
          /\ g.version = Holding(OldVersion) /\ g.tmp = from.tmp /\ g.wallet = from.wallet
      BY <1>3, <1>4, <1>6, <2>1 DEF Directories
    <2>4. PICK s : s = [r EXCEPT !.pc = "migrate"]
      OBVIOUS
    <2>5. /\ s.pc = "migrate" /\ s.cmd = r.cmd /\ s.ver = r.ver /\ s.lock = NoDir /\ s.stores = NoDir
          /\ s.new = n /\ s.at = r.at /\ s.doing = "none"
      BY <1>2, <1>3, <2>4, GoesFields, SMTT(60)
    <2>6. Becomes(p, s)
      BY <2>2, <2>4 DEF Goes
    <2>7. g.version \notin {NoFile, Holding(Version)}
      BY <2>3, SMTT(60) DEF NoFile, Holding, Version, OldVersion
    <2>8. DirOK(g)
      BY <1>3, <1>5, <1>7, <1>9, <2>3, <2>7 DEF DirOK, ClonerOK
    <2>9. ClonerOK(s, g, dirs[s.at])
      BY <1>6, <2>5, <2>7 DEF ClonerOK, CopyPcs, FinishPcs
    <2>10. n \notin behind => ClonerKeeps(s, g, dirs[s.at], promised, refused)
      BY <1>5, <1>9, <2>3, <2>5 DEF ClonerKeeps, CopyPcs, Kept
    <2>11. Cloner(s) /\ s.pc \notin CopyPcs /\ s.pc \notin FinishPcs
      BY <1>3, <2>5 DEF Cloner, InstallPcs, CopyPcs, FinishPcs
    <2> QED
      BY <1>1, <1>2, <1>3, <2>2, <2>3, <2>5, <2>6, <2>8, <2>9, <2>10, <2>11, ClonerStep
  <1> QED
    BY <1>8, <1>9 DEF CloneRepo

\* The conversion only writes to the clone's chain store.
LEMMA ConvertStep ==
  ASSUME TypeInv, TypeInv', ContentInv, LockInv', NEW p \in Procs, proc[p].pc \in {"convert", "convertHead"},
         NEW s, Becomes(p, s), s.cmd = proc[p].cmd, s.ver = proc[p].ver, s.lock = proc[p].lock,
         s.stores = proc[p].stores, s.new = proc[p].new, s.doing = proc[p].doing,
         s.pc \in {"convert", "convertHead", "open"},
         NEW n \in Dirs, n = proc[p].new, NEW g \in Directories, Holds(n, g), NoReport, UNCHANGED link,
         g.version = dirs[n].version, g.config = dirs[n].config, g.tmp = dirs[n].tmp, g.wallet = dirs[n].wallet,
         g.chain.headAs = "none" => g.chain.head = 0
  PROVE  ContentInv'
  <1> DEFINE r == proc[p]
  <1>1. r.pc \in BuildPcs /\ r.cmd # "init" /\ r.pc \notin CopyPcs
    BY WhoseStep DEF BuildPcs, CopyPcs
  <1>2. /\ r.lock = NoDir /\ r.stores = NoDir /\ r.doing = "none" /\ Cloner(r) /\ ProcInv(r)
        /\ dirs[n] \in Directories /\ DirOK(dirs[n])
    BY <1>1, ClonerFree
  <1>3. ClonerOK(r, dirs[n], dirs[r.at]) /\ (n \notin behind => ClonerKeeps(r, dirs[n], dirs[r.at], promised, refused))
    BY <1>2 DEF ProcInv, ClonerInv
  <1>4. s.pc \notin CopyPcs /\ s.pc \notin FinishPcs /\ Cloner(s)
    BY <1>2 DEF Cloner, InstallPcs, CopyPcs, FinishPcs
  <1>5. g.version \notin {NoFile, Holding(Version)}
    BY <1>1, <1>3 DEF ClonerOK
  <1>6. DirOK(g)
    BY <1>2, <1>5 DEF DirOK
  <1>7. ClonerOK(s, g, dirs[s.at])
    BY <1>3, <1>4, <1>5 DEF ClonerOK, CopyPcs
  <1>8. n \notin behind => ClonerKeeps(s, g, dirs[s.at], promised, refused)
    BY <1>1, <1>3, <1>4 DEF ClonerKeeps, CopyPcs, Kept
  <1> QED
    BY <1>2, <1>4, <1>6, <1>7, <1>8, ClonerStep

LEMMA ConvertContent ==
  ASSUME TypeInv, TypeInv', ContentInv, LockInv', NEW p \in Procs, convertJSONtoCBOR(p)
  PROVE  ContentInv'
  <1> DEFINE r == proc[p]
  <1>1. r.pc = "convert" /\ NoReport /\ UNCHANGED link
    BY DEF convertJSONtoCBOR
  <1>2. CASE Ends(p) /\ UNCHANGED dirs
    BY <1>1, <1>2, QuietEnd DEF NoReport
  <1>3. PICK n \in Dirs : n = r.new
    BY <1>1, NewDir DEF BuildPcs
  <1>4. dirs[n] \in Directories /\ DirOK(dirs[n]) /\ r.at \in 0 .. MaxHeight
    BY <1>1 DEF TypeInv, ContentInv, Consistent
  <1>5. PICK g : g = [dirs[n] EXCEPT !.chain.meta[r.at] = "root"]
    OBVIOUS
  <1>6. g \in Directories
    BY <1>4, <1>5, ChainPut DEF Encodings
  <1>7. /\ g.version = dirs[n].version /\ g.config = dirs[n].config /\ g.tmp = dirs[n].tmp
        /\ g.wallet = dirs[n].wallet /\ g.chain.headAs = dirs[n].chain.headAs /\ g.chain.head = dirs[n].chain.head
    BY <1>4, <1>5 DEF Directories, Chains
  <1>8. g.chain.headAs = "none" => g.chain.head = 0
    BY <1>4, <1>7 DEF DirOK
  <1>9. CASE Holds(n, g) /\ Goes(p, "convertHead")
    <2>1. PICK s : s = [r EXCEPT !.pc = "convertHead"] /\ Becomes(p, s)
      BY <1>9 DEF Goes
    <2>2. /\ s.pc = "convertHead" /\ s.cmd = r.cmd /\ s.ver = r.ver /\ s.lock = r.lock /\ s.stores = r.stores
          /\ s.new = r.new /\ s.doing = r.doing
      BY <2>1, GoesFields, SMTT(60)
    <2> QED
      BY <1>1, <1>3, <1>6, <1>7, <1>8, <1>9, <2>1, <2>2, ConvertStep
  <1>10. CASE Holds(n, g) /\ Becomes(p, [r EXCEPT !.at = r.at - 1])
    <2>1. PICK s : s = [r EXCEPT !.at = r.at - 1] /\ Becomes(p, s)
      BY <1>10
    <2>2. /\ s.pc = "convert" /\ s.cmd = r.cmd /\ s.ver = r.ver /\ s.lock = r.lock /\ s.stores = r.stores
          /\ s.new = r.new /\ s.doing = r.doing
      BY <1>1, <2>1 DEF TypeInv, Processes
    <2> QED
      BY <1>1, <1>3, <1>6, <1>7, <1>8, <1>10, <2>1, <2>2, ConvertStep
  <1> QED
    BY <1>2, <1>3, <1>5, <1>9, <1>10 DEF convertJSONtoCBOR

LEMMA WriteHeadContent ==
  ASSUME TypeInv, TypeInv', ContentInv, LockInv', NEW p \in Procs, writeHeadAsCBOR(p)
  PROVE  ContentInv'
  <1> DEFINE r == proc[p]
  <1>1. r.pc = "convertHead" /\ NoReport /\ UNCHANGED link
    BY DEF writeHeadAsCBOR
  <1>2. PICK n \in Dirs : n = r.new
    BY <1>1, NewDir DEF BuildPcs
  <1>3. dirs[n] \in Directories
    BY DEF TypeInv
  <1>4. PICK g : g = [dirs[n] EXCEPT !.chain.headAs = "root", !.api = NoFile]
    OBVIOUS
  <1>5. g \in Directories
    BY <1>3, <1>4 DEF Directories, Chains, Encodings, Files
  <1>6. /\ g.version = dirs[n].version /\ g.config = dirs[n].config /\ g.tmp = dirs[n].tmp
        /\ g.wallet = dirs[n].wallet /\ g.chain.headAs # "none"
    BY <1>3, <1>4 DEF Directories, Chains
  <1>7. PICK s : s = [r EXCEPT !.pc = "open"] /\ Becomes(p, s)
    BY DEF writeHeadAsCBOR, Goes
  <1>8. Holds(n, g)
    BY <1>2, <1>4 DEF writeHeadAsCBOR
  <1>9. /\ s.pc = "open" /\ s.cmd = r.cmd /\ s.ver = r.ver /\ s.lock = r.lock /\ s.stores = r.stores
        /\ s.new = r.new /\ s.doing = r.doing
    BY <1>7, GoesFields, SMTT(60)
  <1> QED
    BY <1>1, <1>2, <1>5, <1>6, <1>7, <1>8, <1>9, ConvertStep

\* The version file of a clone, after Validate.
LEMMA FinishContent ==
  ASSUME TypeInv, TypeInv', ContentInv, LockInv', NEW p \in Procs, WriteVersion(p), proc[p].cmd # "init"
  PROVE  ContentInv'
  <1> DEFINE r == proc[p]
  <1>1. r.pc \in FinishPcs /\ r.pc \notin CopyPcs /\ NoReport /\ UNCHANGED link
    BY DEF WriteVersion, FinishPcs, CopyPcs
  <1>2. PICK n \in Dirs : n = r.new
    BY <1>1, ClonerFree
  <1>3. /\ r.lock = NoDir /\ r.stores = NoDir /\ r.doing = "none" /\ Cloner(r) /\ ProcInv(r)
        /\ dirs[n] \in Directories /\ DirOK(dirs[n]) /\ dirs[n].exists
    BY <1>1, <1>2, ClonerFree, MakingDir DEF Making
  <1>4. ClonerOK(r, dirs[n], dirs[r.at]) /\ (n \notin behind => ClonerKeeps(r, dirs[n], dirs[r.at], promised, refused))
    BY <1>2, <1>3 DEF ProcInv, ClonerInv
  <1>5. n \notin behind => AllKept(dirs[n], promised, refused)
    <2>1. Settled(n)
      BY <1>1, <1>2, <1>3 DEF Settled, Finishing
    <2> QED
      BY <1>3, <2>1 DEF ContentInv, Keeps
  <1>6. GoodNew(dirs[n].chain) /\ KeyHeld(dirs[n].config, dirs[n].wallet) /\ KeyHeld(dirs[n].tmp, dirs[n].wallet)
    BY <1>1, <1>3, <1>4 DEF ClonerOK, DirOK
  <1>7. ASSUME NEW v \in Files(Versions), NEW g, g = [dirs[n] EXCEPT !.version = v]
        PROVE  /\ g \in Directories /\ g.version = v /\ g.chain = dirs[n].chain /\ g.config = dirs[n].config
               /\ g.wallet = dirs[n].wallet /\ DirOK(g) /\ (n \notin behind => AllKept(g, promised, refused))
    <2>1. /\ g \in Directories /\ g.version = v /\ g.chain = dirs[n].chain /\ g.config = dirs[n].config
          /\ g.wallet = dirs[n].wallet /\ g.tmp = dirs[n].tmp
      BY <1>3, <1>7 DEF Directories
    <2>2. DirOK(g)
      BY <1>3, <1>6, <2>1 DEF DirOK
    <2> QED
      BY <1>5, <2>1, <2>2 DEF AllKept, Kept
  <1>8. CASE r.pc = "version0"
    <2>1. PICK g : g = [dirs[n] EXCEPT !.version = Truncated]
      OBVIOUS
    <2>2. Holds(n, g) /\ Goes(p, "version")
      BY <1>2, <1>8, <2>1 DEF WriteVersion
    <2>3. /\ g \in Directories /\ g.version = Truncated /\ g.chain = dirs[n].chain /\ g.config = dirs[n].config
          /\ g.wallet = dirs[n].wallet /\ DirOK(g) /\ (n \notin behind => AllKept(g, promised, refused))
      BY <1>7, <2>1 DEF Files
    <2>4. PICK s : s = [r EXCEPT !.pc = "version"] /\ Becomes(p, s)
      BY <2>2 DEF Goes
    <2>5. /\ s.pc = "version" /\ s.cmd = r.cmd /\ s.ver = r.ver /\ s.lock = NoDir /\ s.stores = NoDir
          /\ s.new = n /\ s.doing = "none"
      BY <1>2, <1>3, <2>4, GoesFields, SMTT(60)
    <2>6. s.pc \in FinishPcs /\ s.pc \notin CopyPcs /\ Cloner(s)
      BY <1>3, <2>5 DEF Cloner, InstallPcs, CopyPcs, FinishPcs
    <2>7. ClonerOK(s, g, dirs[s.at])
      BY <1>4, <1>6, <2>3, <2>5, <2>6, SMTT(60) DEF ClonerOK, CopyPcs, NoFile, Truncated, Holding
    <2>8. n \notin behind => ClonerKeeps(s, g, dirs[s.at], promised, refused)
      BY <2>3, <2>5, <2>6 DEF ClonerKeeps, CopyPcs, AllKept
    <2> QED
      BY <1>1, <1>2, <1>3, <2>2, <2>3, <2>4, <2>5, <2>6, <2>7, <2>8, ClonerStep
  <1>9. CASE r.pc = "version"
    <2>1. PICK g : g = [dirs[n] EXCEPT !.version = Holding(Version)]
      OBVIOUS
    <2>2. Holds(n, g) /\ (Goes(p, "unlink") \/ Ends(p))
      BY <1>2, <1>9, <2>1 DEF WriteVersion
    <2>3. /\ g \in Directories /\ g.version = Holding(Version)
          /\ DirOK(g) /\ (n \notin behind => AllKept(g, promised, refused))
      BY <1>7, <2>1 DEF Files, Versions
    <2>4. dirs'[n] = g
      BY <2>2, <2>3, HoldsFacts
    <2>5. ProcInv(proc[p])' /\ \A d \in Dirs : ~Finishing(proc'[p], d)
      <3>1. CASE Ends(p)
        BY <3>1, EndsProc
      <3>2. CASE Goes(p, "unlink")
        <4>1. PICK s : s = [r EXCEPT !.pc = "unlink"] /\ Becomes(p, s)
          BY <3>2 DEF Goes
        <4>2. s.pc = "unlink" /\ s.cmd = r.cmd /\ s.lock = NoDir /\ s.doing = "none" /\ s.new = n
          BY <1>2, <1>3, <4>1, GoesFields, SMTT(60)
        <4>3. proc'[p] = s
          BY <4>1, StepOfOne
        <4>4. ~Maker(s) /\ ~Cloner(s)
          BY <1>3, <4>2 DEF Maker, Cloner, InstallPcs
        <4> QED
          BY <2>3, <2>4, <4>2, <4>3, <4>4 DEF ProcInv, MakerInv, ClonerInv, HolderInv, InstallerInv, DoingInv,
             Finishing, Maker, Cloner
      <3> QED
        BY <2>2, <3>1, <3>2
    <2>6. Eases(p)
      BY EasyStepEases DEF EasyStep
    <2>7. MadeStep(p) /\ Making(r)
      BY <1>3 DEF MadeStep, Maker, Cloner, Making
    <2> QED
      BY <1>1, <1>2, <1>3, <2>2, <2>3, <2>5, <2>6, <2>7, MakingStep
  <1> QED
    BY <1>8, <1>9 DEF WriteVersion

-----------------------------------------------------------------------------
(* Steps of a process that has opened the datastores *)

LEMMA Owner ==
  ASSUME TypeInv, ContentInv, NEW p \in Procs, proc[p].pc \in StorePcs
  PROVE  LET r == proc[p]
             f == dirs[proc[p].lock]
         IN /\ r.lock # NoDir /\ r.stores = r.lock /\ r.lock \in Dirs /\ link \in {NoDir, r.lock}
            /\ f \in Directories /\ f.exists /\ DirOK(f) /\ ProcInv(r) /\ HolderOK(r, f)
            /\ f.version = Holding(r.ver) /\ r.ver \in Versions /\ f.config # NoFile
            /\ link = r.lock => LinkedOK(f) /\ MemKept(r, f, promised, refused)
            /\ r.lock \notin behind => AllKept(f, promised, refused)
  <1> DEFINE r == proc[p]
             f == dirs[proc[p].lock]
  <1>1. r.pc \in LoadedPcs /\ r.pc \in LockPcs
    BY DEF LoadedPcs, LockPcs
  <1>2. r.lock # NoDir /\ r.stores # NoDir
    BY <1>1 DEF TypeInv, Consistent
  <1>3. r.lock \in Dirs /\ f \in Directories /\ f.exists
    BY <1>2, LockDir
  <1>4. r.stores = r.lock /\ link \in {NoDir, r.lock}
    BY <1>2 DEF ContentInv, LockInv, LocksTheLink
  <1>5. ProcInv(r) /\ DirOK(f) /\ (link = r.lock => LinkedOK(f))
    BY <1>2, <1>3 DEF ContentInv
  <1>6. HolderOK(r, f) /\ (link = r.lock => MemKept(r, f, promised, refused))
    BY <1>1, <1>2, <1>5 DEF ProcInv, HolderInv
  <1>7. f.version = Holding(r.ver) /\ f.config # NoFile
    BY <1>1, <1>6 DEF HolderOK
  <1>8. r.ver \in Versions
    BY DEF TypeInv, Processes
  <1>9. r.lock \notin behind => AllKept(f, promised, refused)
    BY <1>2, LockedKeeps
  <1> QED
    BY <1>2, <1>3, <1>4, <1>5, <1>6, <1>7, <1>8, <1>9

\* It goes on, in the same directory.
LEMMA OwnerStep ==
  ASSUME TypeInv, TypeInv', ContentInv, LockInv', NEW p \in Procs, proc[p].pc \in StorePcs,
         proc[p].cmd \in {"init", "daemon"}, NEW s, proc'[p] = s, Alone(p), s.cmd = proc[p].cmd,
         s.lock = proc[p].lock, s.stores = proc[p].stores, s.new = proc[p].new, s.pc \in StorePcs, DoingInv(s),
         NEW g \in Directories, Holds(proc[p].lock, g), UNCHANGED link, GhostStep(p), LockedStep(p),
         DirOK(g), link = proc[p].lock => LinkedOK(g),
         proc[p].lock \notin behind' => AllKept(g, promised', refused'),
         HolderOK(s, g), link = proc[p].lock => MemKept(s, g, promised', refused')
  PROVE  ContentInv'
  <1>1. proc[p].lock # NoDir /\ proc[p].lock \in Dirs
    BY Owner
  <1>2. dirs'[proc[p].lock] = g
    BY <1>1, HoldsFacts
  <1>3. s.pc \notin InitPcs /\ s.pc \notin InstallPcs /\ s.pc \notin CopyPcs
    BY DEF StorePcs, GenesisPcs, SavePcs, NodePcs, InitPcs, InstallPcs, CopyPcs
  <1>4. ~Maker(s) /\ ~Cloner(s)
    BY <1>3 DEF Maker, Cloner
  <1>5. Eases(p)
    BY <1>3, <1>4 DEF Eases, Milder
  <1>6. HolderInv(proc[p])'
    BY <1>1, <1>2 DEF HolderInv
  <1>7. ProcInv(proc[p])' /\ \A d \in Dirs : ~Finishing(proc'[p], d)
    BY <1>3, <1>4, <1>6, HolderProc
  <1> QED
    BY <1>1, <1>5, <1>7, LockedWrite

\* It reports nothing, and takes nothing away.
LEMMA NoReportGhosts ==
  ASSUME TypeInv, ContentInv, NEW p \in Procs, proc[p].pc \in StorePcs,
         NEW g \in Directories, Holds(proc[p].lock, g), UNCHANGED <<promised, refused, behind>>,
         g.version = dirs[proc[p].lock].version, dirs[proc[p].lock].wallet \subseteq g.wallet,
         g.chain.head = dirs[proc[p].lock].chain.head, g.config # NoFile,
         Kept(dirs[proc[p].lock], promised, refused) => Kept(g, promised, refused)
  PROVE  /\ GhostStep(p) /\ LockedStep(p)
         /\ proc[p].lock \notin behind' => AllKept(g, promised', refused')
  <1>1. /\ proc[p].lock # NoDir /\ proc[p].lock \in Dirs
        /\ proc[p].lock \notin behind => AllKept(dirs[proc[p].lock], promised, refused)
    BY Owner
  <1>2. dirs'[proc[p].lock] = g
    BY <1>1, HoldsFacts
  <1> QED
    BY <1>1, <1>2 DEF GhostStep, LockedStep, OnlyHead, AllKept

\* The chain store is in the encodings of a version.
Metas(ver) == IF ver = Version THEN {"root", "rootAndReceipts"} ELSE {"json"}
Fits(c, ver) == Good(c, HeadWritten(ver), Metas(ver))

LEMMA FitsStays ==
  ASSUME NEW f, NEW g, NEW ver \in Versions, DirOK(f), f.version = Holding(ver), g.version = Holding(ver),
         Fits(f.chain, ver) => Fits(g.chain, ver), g.chain.headAs = "none" => g.chain.head = 0,
         KeyHeld(g.config, g.wallet), KeyHeld(g.tmp, g.wallet)
  PROVE  DirOK(g) /\ (LinkedOK(f) => LinkedOK(g))
  <1>1. Holding(OldVersion) # Holding(Version) /\ OldVersion # Version
    BY SMTT(60) DEF Holding, OldVersion, Version
  <1>2. /\ \A c : GoodNew(c) = Fits(c, Version)
        /\ \A c : GoodOld(c) = Fits(c, OldVersion)
    BY <1>1 DEF GoodNew, GoodOld, Fits, HeadWritten, Metas
  <1>3. CASE ver = Version
    BY <1>1, <1>2, <1>3 DEF DirOK, LinkedOK
  <1>4. CASE ver = OldVersion
    BY <1>1, <1>2, <1>4 DEF DirOK, LinkedOK
  <1> QED
    BY <1>3, <1>4 DEF Versions

LEMMA WrittenFits ==
  ASSUME NEW ver \in Versions
  PROVE  Written(ver) \in Metas(ver) /\ HeadWritten(ver) # "none" /\ Written(ver) \in Encodings
         /\ HeadWritten(ver) \in Encodings
  BY DEF Written, Metas, HeadWritten, Encodings

\* A write that leaves the configuration and the wallet as they are.
LEMMA ChainWrite ==
  ASSUME TypeInv, TypeInv', ContentInv, LockInv', NEW p \in Procs, proc[p].pc \in StorePcs \ SavePcs,
         proc[p].cmd \in {"init", "daemon"}, NEW s, proc'[p] = s, Alone(p), s.cmd = proc[p].cmd,
         s.lock = proc[p].lock, s.stores = proc[p].stores, s.new = proc[p].new, s.mem = proc[p].mem,
         s.saving = proc[p].saving, s.doing = proc[p].doing, s.at = proc[p].at, s.ver = proc[p].ver,
         s.pc \in StorePcs \ SavePcs, DoingInv(s),
         NEW f, f = dirs[proc[p].lock], NEW g \in Directories, Holds(proc[p].lock, g), NoReport, UNCHANGED link,
         g.version = f.version, g.config = f.config, g.tmp = f.tmp, g.wallet = f.wallet,
         g.chain.head = f.chain.head, g.chain.headAs = "none" => f.chain.headAs = "none",
         Fits(f.chain, proc[p].ver) => Fits(g.chain, proc[p].ver),
         s.pc = "genesisHead" => g.chain.meta[0] = Written(s.ver),
         s.pc \in NodePcs => g.chain.headAs # "none"
  PROVE  ContentInv'
  <1> DEFINE r == proc[p]
  <1>1. UNCHANGED <<promised, refused, behind>>
    BY DEF NoReport
  <1>2. /\ r.lock # NoDir /\ r.lock \in Dirs /\ f \in Directories /\ DirOK(f) /\ HolderOK(r, f)
        /\ f.version = Holding(r.ver) /\ r.ver \in Versions /\ f.config # NoFile
        /\ link = r.lock => LinkedOK(f) /\ MemKept(r, f, promised, refused)
    BY Owner
  <1>3. KeyHeld(g.config, g.wallet) /\ KeyHeld(g.tmp, g.wallet) /\ (g.chain.headAs = "none" => g.chain.head = 0)
    BY <1>2, SMTT(60) DEF DirOK, NoFile, Holding
  <1>4. DirOK(g) /\ (LinkedOK(f) => LinkedOK(g))
    BY <1>2, <1>3, FitsStays
  <1>5. HolderOK(s, g)
    <2>1. r.pc \in LoadedPcs
      BY DEF LoadedPcs
    <2> QED
      BY <1>2, <2>1 DEF HolderOK
  <1>6. link = r.lock => MemKept(s, g, promised', refused')
    BY <1>1, <1>2 DEF MemKept, SavePcs
  <1>7. GhostStep(p) /\ LockedStep(p) /\ (r.lock \notin behind' => AllKept(g, promised', refused'))
    BY <1>1, <1>2, NoReportGhosts DEF Kept
  <1> QED
    BY <1>2, <1>4, <1>5, <1>6, <1>7, OwnerStep

LEMMA InitChainContent ==
  ASSUME TypeInv, TypeInv', ContentInv, LockInv', NEW p \in Procs, InitChain(p)
  PROVE  ContentInv'
  <1> DEFINE r == proc[p]
  <1>1. r.pc \in {"genesisMeta", "genesisHead", "genesisKey", "peerKey"} /\ NoReport /\ UNCHANGED link
    BY DEF InitChain
  <1>2. r.pc \in StorePcs \ SavePcs /\ r.cmd = "init"
    BY <1>1, WhoseStep DEF StorePcs, GenesisPcs, SavePcs
  <1>3. PICK f : f = dirs[r.lock]
    OBVIOUS
  <1>4. /\ r.stores = r.lock /\ f \in Directories /\ DirOK(f) /\ HolderOK(r, f) /\ ProcInv(r) /\ r.ver \in Versions
    BY <1>2, <1>3, Owner
  <1>5. /\ Written(r.ver) \in Metas(r.ver) /\ HeadWritten(r.ver) # "none"
        /\ Written(r.ver) \in Encodings /\ HeadWritten(r.ver) \in Encodings
    BY <1>4, WrittenFits
  <1>6. 0 \in 0 .. MaxHeight
    BY RepositoryAssumption, SMTT(60)
  <1>7. ASSUME NEW g \in Directories, Holds(r.lock, g), NEW pc \in {"genesisHead", "genesisKey", "peerKey", "defaultKey"},
               Goes(p, pc), g.version = f.version, g.config = f.config, g.tmp = f.tmp, g.wallet = f.wallet,
               g.chain.head = f.chain.head, g.chain.headAs = "none" => f.chain.headAs = "none",
               Fits(f.chain, r.ver) => Fits(g.chain, r.ver),
               pc = "genesisHead" => g.chain.meta[0] = Written(r.ver)
        PROVE  ContentInv'
    <2>1. PICK s : s = [r EXCEPT !.pc = pc] /\ Becomes(p, s)
      BY <1>7 DEF Goes
    <2>2. /\ s.pc = pc /\ s.cmd = r.cmd /\ s.ver = r.ver /\ s.lock = r.lock /\ s.stores = r.stores /\ s.new = r.new
          /\ s.at = r.at /\ s.mem = r.mem /\ s.saving = r.saving /\ s.doing = r.doing
      BY <2>1, GoesFields, SMTT(60)
    <2>3. proc'[p] = s /\ Alone(p)
      BY <2>1, StepOfOne
    <2>4. s.pc \in StorePcs \ SavePcs /\ s.pc \notin NodePcs
      BY <2>2 DEF StorePcs, GenesisPcs, SavePcs, NodePcs
    <2>5. DoingInv(s)
      BY <1>1, <1>4, <2>2 DEF ProcInv, DoingInv
    <2> QED
      BY <1>1, <1>2, <1>3, <1>7, <2>2, <2>3, <2>4, <2>5, ChainWrite, SMTT(60)
  <1>8. CASE r.pc = "genesisMeta"
    <2>1. PICK g : g = [f EXCEPT !.chain.meta[0] = Written(r.ver)]
      OBVIOUS
    <2>2. Holds(r.lock, g) /\ Goes(p, "genesisHead")
      BY <1>3, <1>4, <1>8, <2>1 DEF InitChain
    <2>3. g \in Directories
      BY <1>4, <1>5, <1>6, <2>1, ChainPut
    <2>4. /\ g.version = f.version /\ g.config = f.config /\ g.tmp = f.tmp /\ g.wallet = f.wallet
          /\ g.chain.head = f.chain.head /\ g.chain.headAs = f.chain.headAs /\ g.chain.meta[0] = Written(r.ver)
          /\ \A h \in 0 .. MaxHeight : g.chain.meta[h] \in {f.chain.meta[h], Written(r.ver)}
      BY <1>4, <1>6, <2>1 DEF Directories, Chains
    <2>5. \A h \in 0 .. f.chain.head : h \in 0 .. MaxHeight
      BY <1>4, RepositoryAssumption, SMTT(60) DEF Directories, Chains
    <2>6. Fits(f.chain, r.ver) => Fits(g.chain, r.ver)
      BY <1>5, <2>4, <2>5 DEF Fits, Good
    <2> QED
      BY <1>7, <2>2, <2>3, <2>4, <2>6
  <1>9. CASE r.pc = "genesisHead"
    <2>1. PICK g : g = [f EXCEPT !.chain.headAs = HeadWritten(r.ver)]
      OBVIOUS
    <2>2. Holds(r.lock, g) /\ Goes(p, "genesisKey")
      BY <1>3, <1>4, <1>9, <2>1 DEF InitChain
    <2>3. g \in Directories
      BY <1>4, <1>5, <1>6, <2>1, ChainPut
    <2>4. /\ g.version = f.version /\ g.config = f.config /\ g.tmp = f.tmp /\ g.wallet = f.wallet
          /\ g.chain.head = f.chain.head /\ g.chain.headAs = HeadWritten(r.ver) /\ g.chain.meta = f.chain.meta
      BY <1>4, <2>1 DEF Directories, Chains
    <2>5. f.chain.meta[0] = Written(r.ver) /\ (f.chain.headAs = "none" => f.chain.head = 0)
      BY <1>4, <1>9 DEF HolderOK, DirOK
    <2>6. \A h \in 0 .. 0 : h = 0
      BY SMTT(60)
    <2>7. Fits(f.chain, r.ver) => Fits(g.chain, r.ver)
      <3>1. CASE f.chain.headAs = "none"
        BY <1>5, <2>4, <2>5, <2>6, <3>1 DEF Fits, Good
      <3>2. CASE f.chain.headAs # "none"
        BY <2>4, <3>2 DEF Fits, Good
      <3> QED
        BY <3>1, <3>2
    <2> QED
      BY <1>5, <1>7, <2>2, <2>3, <2>4, <2>7
  <1>10. CASE r.pc = "genesisKey"
    <2>1. PICK g : g = [f EXCEPT !.chain.genesis = TRUE]
      OBVIOUS
    <2>2. Holds(r.lock, g) /\ Goes(p, "peerKey")
      BY <1>3, <1>4, <1>10, <2>1 DEF InitChain
    <2>3. g \in Directories
      BY <1>4, <1>5, <1>6, <2>1, ChainPut
    <2>4. /\ g.version = f.version /\ g.config = f.config /\ g.tmp = f.tmp /\ g.wallet = f.wallet
          /\ g.chain.head = f.chain.head /\ g.chain.headAs = f.chain.headAs /\ g.chain.meta = f.chain.meta
      BY <1>4, <2>1 DEF Directories, Chains
    <2>5. Fits(f.chain, r.ver) => Fits(g.chain, r.ver)
      BY <2>4 DEF Fits, Good
    <2> QED
      BY <1>7, <2>2, <2>3, <2>4, <2>5
  <1>11. CASE r.pc = "peerKey"
    <2>1. PICK g : g = [f EXCEPT !.peerKey = TRUE]
      OBVIOUS
    <2>2. Holds(r.lock, g) /\ Goes(p, "defaultKey")
      BY <1>3, <1>4, <1>11, <2>1 DEF InitChain
    <2>3. g \in Directories
      BY <1>4, <1>5, <1>6, <2>1, ChainPut
    <2>4. /\ g.version = f.version /\ g.config = f.config /\ g.tmp = f.tmp /\ g.wallet = f.wallet
          /\ g.chain = f.chain
      BY <1>4, <2>1 DEF Directories
    <2> QED
      BY <1>7, <2>2, <2>3, <2>4
  <1> QED
    BY <1>1, <1>8, <1>9, <1>10, <1>11

LEMMA SetAPIAddrContent ==
  ASSUME TypeInv, TypeInv', ContentInv, LockInv', NEW p \in Procs, SetAPIAddr(p)
  PROVE  ContentInv'
  <1> DEFINE r == proc[p]
  <1>1. r.pc \in {"api0", "api"} /\ NoReport /\ UNCHANGED link
    BY DEF SetAPIAddr
  <1>2. CASE Ends(p) /\ UNCHANGED dirs
    BY <1>1, <1>2, QuietEnd DEF NoReport
  <1>3. r.pc \in StorePcs \ SavePcs /\ r.cmd = "daemon" /\ r.pc \in NodePcs
    BY <1>1, WhoseStep DEF StorePcs, NodePcs, SavePcs
  <1>4. PICK f : f = dirs[r.lock]
    OBVIOUS
  <1>5. link \in {NoDir, r.lock} /\ f \in Directories /\ HolderOK(r, f) /\ ProcInv(r)
    BY <1>3, <1>4, Owner
  <1>6. ASSUME link # NoDir, NEW a \in Files(Procs), Holds(link, [dirs[link] EXCEPT !.api = a]),
               NEW pc \in {"api", "running"}, Goes(p, pc)
        PROVE  ContentInv'
    <2>1. PICK g : g = [f EXCEPT !.api = a]
      OBVIOUS
    <2>2. Holds(r.lock, g)
      BY <1>4, <1>5, <1>6, <2>1
    <2>3. /\ g \in Directories /\ g.version = f.version /\ g.config = f.config /\ g.tmp = f.tmp
          /\ g.wallet = f.wallet /\ g.chain = f.chain
      BY <1>5, <2>1 DEF Directories
    <2>4. PICK s : s = [r EXCEPT !.pc = pc] /\ Becomes(p, s)
      BY <1>6 DEF Goes
    <2>5. /\ s.pc = pc /\ s.cmd = r.cmd /\ s.ver = r.ver /\ s.lock = r.lock /\ s.stores = r.stores /\ s.new = r.new
          /\ s.at = r.at /\ s.mem = r.mem /\ s.saving = r.saving /\ s.doing = r.doing
      BY <2>4, GoesFields, SMTT(60)
    <2>6. proc'[p] = s /\ Alone(p)
      BY <2>4, StepOfOne
    <2>7. s.pc \in StorePcs \ SavePcs /\ s.pc # "genesisHead"
      BY <2>5 DEF StorePcs, SavePcs, NodePcs
    <2>8. DoingInv(s)
      BY <1>1, <1>5, <2>5 DEF ProcInv, DoingInv
    <2>9. g.chain.headAs # "none"
      BY <1>3, <1>5, <2>3 DEF HolderOK
    <2> QED
      BY <1>1, <1>3, <1>4, <2>2, <2>3, <2>5, <2>6, <2>7, <2>8, <2>9, ChainWrite
  <1>7. Truncated \in Files(Procs) /\ Holding(p) \in Files(Procs)
    BY DEF Files
  <1> QED
    BY <1>2, <1>6, <1>7 DEF SetAPIAddr

LEMMA PutMetadataContent ==
  ASSUME TypeInv, TypeInv', ContentInv, LockInv', NEW p \in Procs, PutTipSetMetadata(p)
  PROVE  ContentInv'
  <1> DEFINE r == proc[p]
  <1>1. r.pc = "running" /\ NoReport /\ UNCHANGED <<link, proc>>
    BY DEF PutTipSetMetadata
  <1>2. r.pc \in StorePcs \ SavePcs /\ r.cmd = "daemon" /\ r.pc \in NodePcs
    BY <1>1, WhoseStep DEF StorePcs, NodePcs, SavePcs
  <1>3. PICK f : f = dirs[r.lock]
    OBVIOUS
  <1>4. r.stores = r.lock /\ f \in Directories /\ HolderOK(r, f) /\ ProcInv(r) /\ r.ver \in Versions
    BY <1>2, <1>3, Owner
  <1>5. PICK h : h = f.chain.head + 1 /\ f.chain.head < MaxHeight
    BY <1>3, <1>4 DEF PutTipSetMetadata
  <1>6. h \in 0 .. MaxHeight /\ \A k \in 0 .. f.chain.head : k \in 0 .. MaxHeight
    BY <1>4, <1>5, RepositoryAssumption, SMTT(60) DEF Directories, Chains
  <1>7. PICK g : g = [f EXCEPT !.chain.meta[h] = Written(r.ver)]
    OBVIOUS
  <1>8. Holds(r.lock, g)
    BY <1>3, <1>4, <1>5, <1>7 DEF PutTipSetMetadata
  <1>9. g \in Directories
    BY <1>4, <1>6, <1>7, WrittenFits, ChainPut
  <1>10. /\ g.version = f.version /\ g.config = f.config /\ g.tmp = f.tmp /\ g.wallet = f.wallet
         /\ g.chain.head = f.chain.head /\ g.chain.headAs = f.chain.headAs
         /\ \A k \in 0 .. MaxHeight : g.chain.meta[k] \in {f.chain.meta[k], Written(r.ver)}
    BY <1>4, <1>6, <1>7 DEF Directories, Chains
  <1>11. Fits(f.chain, r.ver) => Fits(g.chain, r.ver)
    BY <1>4, <1>6, <1>10, WrittenFits DEF Fits, Good
  <1>12. DoingInv(r) /\ g.chain.headAs # "none"
    BY <1>2, <1>4, <1>10 DEF ProcInv, HolderOK
  <1>13. proc'[p] = r /\ Alone(p) /\ r.pc # "genesisHead"
    BY <1>1 DEF Alone
  <1> QED
    BY <1>1, <1>2, <1>3, <1>8, <1>9, <1>10, <1>11, <1>12, <1>13, ChainWrite

\* Every other directory lacks what is reported from the one p has locked.
LEMMA ReportGhosts ==
  ASSUME TypeInv, ContentInv, NEW p \in Procs, proc[p].pc \in StorePcs, Reported(proc[p].lock), UNCHANGED refused,
         NEW g \in Directories, Holds(proc[p].lock, g), g.version = dirs[proc[p].lock].version,
         dirs[proc[p].lock].wallet \subseteq g.wallet
  PROVE  /\ GhostStep(p) /\ LockedStep(p)
         /\ proc[p].lock \notin behind' => AllKept(dirs[proc[p].lock], promised, refused)
  <1>1. /\ proc[p].lock # NoDir /\ proc[p].lock \in Dirs
        /\ proc[p].lock \notin behind => AllKept(dirs[proc[p].lock], promised, refused)
    BY Owner
  <1>2. dirs'[proc[p].lock] = g
    BY <1>1, HoldsFacts
  <1>3. AllBehind(proc[p].lock) /\ behind \subseteq behind'
    BY DEF Reported, AllBehind
  <1> QED
    BY <1>1, <1>2, <1>3 DEF GhostStep, LockedStep

LEMMA NewAddressContent ==
  ASSUME TypeInv, TypeInv', ContentInv, LockInv', NEW p \in Procs, NewAddress(p)
  PROVE  ContentInv'
  <1> DEFINE r == proc[p]
  <1>1. r.pc = "running" /\ UNCHANGED <<link, proc, refused>>
    BY DEF NewAddress
  <1>2. r.pc \in StorePcs /\ r.cmd = "daemon"
    BY <1>1, WhoseStep DEF StorePcs, NodePcs
  <1>3. PICK f : f = dirs[r.lock]
    OBVIOUS
  <1>4. /\ r.stores = r.lock /\ f \in Directories /\ DirOK(f) /\ HolderOK(r, f) /\ ProcInv(r) /\ r.ver \in Versions
        /\ f.version = Holding(r.ver) /\ f.config # NoFile
        /\ link = r.lock => LinkedOK(f) /\ MemKept(r, f, promised, refused)
    BY <1>2, <1>3, Owner
  <1>5. PICK k \in Keys : /\ Holds(r.lock, [f EXCEPT !.wallet = f.wallet \cup {k}]) /\ Reported(r.lock)
                          /\ promised' = [promised EXCEPT !.keys = promised.keys \cup {k}]
    BY <1>3, <1>4, FreshKeysAreKeys DEF NewAddress
  <1>6. PICK g : g = [f EXCEPT !.wallet = f.wallet \cup {k}]
    OBVIOUS
  <1>7. /\ g \in Directories /\ g.version = f.version /\ g.config = f.config /\ g.tmp = f.tmp
        /\ g.wallet = f.wallet \cup {k} /\ g.chain = f.chain
    BY <1>4, <1>6 DEF Directories
  <1>8. /\ promised'.keys = promised.keys \cup {k} /\ promised'.set = promised.set
        /\ promised'.height = promised.height
    BY <1>5 DEF TypeInv, Reports
  <1>9. KeyHeld(g.config, g.wallet) /\ KeyHeld(g.tmp, g.wallet) /\ (g.chain.headAs = "none" => g.chain.head = 0)
    BY <1>4, <1>7, SMTT(60) DEF DirOK, KeyHeld, NoFile, Holding
  <1>10. DirOK(g) /\ (LinkedOK(f) => LinkedOK(g))
    BY <1>4, <1>7, <1>9, FitsStays
  <1>11. Holds(r.lock, g)
    BY <1>5, <1>6
  <1>12. GhostStep(p) /\ LockedStep(p) /\ (r.lock \notin behind' => AllKept(f, promised, refused))
    BY <1>1, <1>2, <1>3, <1>5, <1>7, <1>11, ReportGhosts
  <1>13. r.lock \notin behind' => AllKept(g, promised', refused')
    BY <1>1, <1>4, <1>7, <1>8, <1>12 DEF AllKept, Kept, FileKept, SetKept
  <1>14. HolderOK(r, g)
    BY <1>4, <1>7 DEF HolderOK
  <1>15. link = r.lock => MemKept(r, g, promised', refused')
    BY <1>1, <1>4, <1>7, <1>8 DEF MemKept
  <1>16. proc'[p] = r /\ Alone(p) /\ DoingInv(r)
    BY <1>1, <1>4 DEF Alone, ProcInv
  <1> QED
    BY <1>1, <1>2, <1>4, <1>7, <1>10, <1>11, <1>12, <1>13, <1>14, <1>15, <1>16, OwnerStep

LEMMA SetHeadContent ==
  ASSUME TypeInv, TypeInv', ContentInv, LockInv', NEW p \in Procs, SetHead(p)
  PROVE  ContentInv'
  <1> DEFINE r == proc[p]
  <1>1. r.pc = "running" /\ UNCHANGED <<link, proc, refused>>
    BY DEF SetHead
  <1>2. r.pc \in StorePcs /\ r.cmd = "daemon" /\ r.pc \in NodePcs
    BY <1>1, WhoseStep DEF StorePcs, NodePcs
  <1>3. PICK f : f = dirs[r.lock]
    OBVIOUS
  <1>4. /\ r.stores = r.lock /\ f \in Directories /\ DirOK(f) /\ HolderOK(r, f) /\ ProcInv(r) /\ r.ver \in Versions
        /\ f.version = Holding(r.ver) /\ f.config # NoFile /\ r.lock # NoDir /\ r.lock \in Dirs
        /\ link = r.lock => LinkedOK(f) /\ MemKept(r, f, promised, refused)
        /\ r.lock \notin behind => AllKept(f, promised, refused)
    BY <1>2, <1>3, Owner
  <1>5. PICK h : /\ h = f.chain.head + 1 /\ f.chain.head < MaxHeight /\ f.chain.meta[h] = Written(r.ver)
                 /\ Holds(r.lock, [f EXCEPT !.chain.head = h]) /\ HeadReported(r.lock)
                 /\ promised' = [promised EXCEPT !.height = h]
    BY <1>3, <1>4 DEF SetHead
  <1>6. h \in 0 .. MaxHeight /\ \A k \in 0 .. h : k \in 0 .. f.chain.head \/ k = h
    BY <1>4, <1>5, RepositoryAssumption, SMTT(60) DEF Directories, Chains
  <1>7. PICK g : g = [f EXCEPT !.chain.head = h]
    OBVIOUS
  <1>8. g \in Directories /\ Holds(r.lock, g)
    BY <1>4, <1>5, <1>6, <1>7, ChainPut DEF Encodings
  <1>9. /\ g.version = f.version /\ g.config = f.config /\ g.tmp = f.tmp /\ g.wallet = f.wallet
        /\ g.chain.head = h /\ g.chain.headAs = f.chain.headAs /\ g.chain.meta = f.chain.meta
    BY <1>4, <1>7 DEF Directories, Chains
  <1>10. f.chain.headAs # "none"
    BY <1>2, <1>4 DEF HolderOK
  <1>11. Fits(f.chain, r.ver) => Fits(g.chain, r.ver)
    BY <1>4, <1>5, <1>6, <1>9, <1>10, WrittenFits DEF Fits, Good
  <1>12. KeyHeld(g.config, g.wallet) /\ KeyHeld(g.tmp, g.wallet)
    BY <1>4, <1>9, SMTT(60) DEF DirOK, NoFile, Holding
  <1>13. DirOK(g) /\ (LinkedOK(f) => LinkedOK(g))
    BY <1>4, <1>9, <1>10, <1>11, <1>12, FitsStays
  <1>14. /\ promised'.keys = promised.keys /\ promised'.set = promised.set /\ promised'.height = h /\ OnlyHead
    BY <1>5 DEF TypeInv, Reports, OnlyHead
  <1>15. GhostStep(p) /\ behind \subseteq behind'
    BY <1>1, <1>4, <1>5, <1>14 DEF GhostStep, HeadReported
  <1>16. Kept(f, promised, refused) => Kept(g, promised', refused')
    BY <1>1, <1>9, <1>14 DEF Kept, FileKept, SetKept
  <1>17. LockedStep(p)
    <2>1. dirs'[r.lock] = g
      BY <1>4, <1>8, HoldsFacts
    <2> QED
      BY <1>3, <1>9, <1>14, <1>16, <2>1 DEF LockedStep
  <1>18. h <= h
    BY <1>6, RepositoryAssumption, SMTT(60)
  <1>19. r.lock \notin behind' => AllKept(g, promised', refused')
    BY <1>4, <1>9, <1>14, <1>15, <1>16, <1>18 DEF AllKept
  <1>20. HolderOK(r, g)
    BY <1>4, <1>9 DEF HolderOK
  <1>21. link = r.lock => MemKept(r, g, promised', refused')
    BY <1>1, <1>4, <1>9, <1>14 DEF MemKept
  <1>22. proc'[p] = r /\ Alone(p) /\ DoingInv(r)
    BY <1>1, <1>4 DEF Alone, ProcInv
  <1> QED
    BY <1>1, <1>2, <1>4, <1>8, <1>13, <1>15, <1>17, <1>19, <1>20, <1>21, <1>22, OwnerStep
=============================================================================
