----------------------------- MODULE Repository -----------------------------
(***************************************************************************)
(* A node's repository on disk: internal/pkg/repo/fsrepo.go, the programs  *)
(* that make one (go-filecoin init, node.Init, chain.Init), the daemon     *)
(* that works in it (daemon.go, plumbing/cfg, wallet/dsbackend.go) and the *)
(* migration tool that replaces it (tools/migration).                      *)
(*                                                                         *)
(* A repository is a directory reached through a symbolic link.  Each      *)
(* program is a process whose steps are single file-system operations, so  *)
(* a kill can fall between any two of them.  A file that is written in     *)
(* place is truncated by one step and filled by the next.                  *)
(***************************************************************************)
EXTENDS Naturals, FiniteSets

CONSTANTS
  Procs,        \* the processes an operator can have running at once
  Keys,         \* the wallet keys that can be generated
  Workloads,    \* what the operator does, see Init and Spend
  MaxDirs,      \* directories next to the link
  MaxHeight     \* heights of the chain a daemon can reach

Dirs == 1 .. MaxDirs
NoDir == 0
NoKey == 0

\* repo.Version, and the one before it: the version of the earlier release.
Version == 2
OldVersion == 1
Versions == {OldVersion, Version}

ASSUME RepositoryAssumption ==
  /\ Keys \subseteq Nat \ {NoKey} /\ 1 \in Keys
  /\ Workloads \subseteq [from : Versions \cup {0}, versions : SUBSET Versions, init : Nat,
                         daemon : Nat, migration : Nat, op : Nat, kill : Nat]
  /\ MaxDirs \in Nat \ {0}
  /\ MaxHeight \in Nat

\* What a version or a config file can hold besides its content.
NoFile == [content |-> "absent"]
Truncated == [content |-> "empty"]
Holding(x) == [content |-> "whole", is |-> x]

\* The configuration: the wallet's default address and two of the settings an
\* operator changes with ConfigSet.
Settings == {"nickname", "price"}
NewDefaultConfig == [default |-> NoKey, set |-> [s \in Settings |-> 0]]
Configs == [default : Keys \cup {NoKey}, set : [Settings -> 0 .. 1]]

\* How a tipset's metadata entry is encoded.  Release 1 wrote JSON; the
\* migration writes the state root alone; Store.writeTipSetMetadata of
\* repo.Version writes the state root together with the receipts.
Encodings == {"none", "json", "root", "rootAndReceipts"}
Written(ver) == IF ver = Version THEN "rootAndReceipts" ELSE "json"
HeadWritten(ver) == IF ver = Version THEN "root" ELSE "json"

\* headAs is the encoding of the head key: "root" stands for its CBOR form.
EmptyChain == [genesis |-> FALSE, head |-> 0, headAs |-> "none",
               meta |-> [h \in 0 .. MaxHeight |-> "none"]]

EmptyDir == [exists |-> FALSE, version |-> NoFile, config |-> NoFile, tmp |-> NoFile,
             api |-> NoFile, chain |-> EmptyChain, peerKey |-> FALSE, wallet |-> {}]

Idle == [pc |-> "idle", cmd |-> "none", ver |-> Version, lock |-> NoDir,
         stores |-> NoDir, new |-> NoDir, at |-> 0, mem |-> NewDefaultConfig,
         saving |-> "no", doing |-> "none"]

VARIABLES
  link,       \* the directory the link points to, NoDir when there is no link
  dirs,       \* the directories and what their files hold
  proc,       \* the processes: program, program counter and local variables
  promised,   \* what the programs have reported as done: settings, keys, height
  refused,    \* settings that ConfigSet refused with an error
  behind,     \* the directories that lack something that was reported as done
  raced,      \* the link was replaced, or the directory initialised a second
              \* time, while another process was using it
  left        \* the rest of the workload

vars == <<link, dirs, proc, promised, refused, behind, raced, left>>

-----------------------------------------------------------------------------
(* Files and locks *)

\* The lock file is taken inside the directory the path leads to.
FreeMutant(p, d) == \A q \in Procs \ {p} : proc[q].stores # d

Free(p, d) == \A q \in Procs \ {p} : proc[q].lock # d

\* A process that ends, or is killed, loses its locks and its memory.
Becomes(p, pr) == proc' = [proc EXCEPT ![p] = pr]
Ends(p) == Becomes(p, Idle)
Goes(p, pc) == Becomes(p, [proc[p] EXCEPT !.pc = pc])

\* The files of d after the step.
Holds(d, files) == dirs' = [dirs EXCEPT ![d] = files]

\* The link now points to d; whoever was using it before is left behind, and
\* an init that is still making d finds it in use.
PointLinkTo(d, p) ==
  /\ link' = d
  /\ raced' = (raced \/ \E q \in Procs \ {p} :
                           \/ proc[q].lock # NoDir
                           \/ proc[q].cmd = "init" /\ proc[q].new = d)

\* Once something is reported as done in d, every other directory lacks it.
Lacks(d, something) == behind' = IF something THEN behind \cup {d} ELSE behind
Reported(d) == behind' = behind \cup {e \in Dirs \ {d} : dirs[e].exists}

\* A head that a clone lacks is found by Validate while that is still to come.
ToBeValidated(e) ==
  \E q \in Procs : /\ proc[q].cmd \in {"migrate", "buildonly"} /\ proc[q].new = e
                  /\ proc[q].pc \notin {"version0", "version", "unlink", "relink"}
HeadReported(d) ==
  behind' = behind \cup {e \in Dirs \ {d} : dirs[e].exists /\ ~ToBeValidated(e)}

\* What has been reported before the first report.
NothingYet == [set |-> [s \in Settings |-> 0], keys |-> {}, height |-> 0]

Spend(what) == left[what] > 0 /\ left' = [left EXCEPT ![what] = @ - 1]
Unspent == UNCHANGED left
NoReport == UNCHANGED <<promised, refused, behind, raced>>

\* readVersion and MigrationRunner.repoVersion: a truncated or missing file is
\* an error, so is a missing link.
HasVersionMutant(d, v) == d # NoDir /\ dirs[d].version # NoFile

HasVersion(d, v) == d # NoDir /\ dirs[d].version = Holding(v)
hasConfig(d) == d # NoDir /\ dirs[d].config # NoFile

\* config.ReadFile: an empty file gives the defaults.
ReadConfig(file) == IF file = Truncated THEN NewDefaultConfig ELSE file.is

\* Store.Load: the head and the metadata of every ancestor are read back in
\* the encoding that binary writes, and the walk must end at the genesis.
Loadable(c, ver) ==
  /\ c.genesis
  /\ c.headAs = HeadWritten(ver)
  /\ \A h \in 0 .. c.head : c.meta[h] = Written(ver)

-----------------------------------------------------------------------------
(* Opening and closing: OpenFSRepo *)

\* hasConfig, then the lock.  The path is kept as it was given, so whatever
\* goes through it later follows the link as it is then.
OpenFSRepo(p) ==
  IF hasConfig(link) /\ Free(p, link)
  THEN Becomes(p, [proc[p] EXCEPT !.lock = link, !.pc = "loadVersion"])
  ELSE Ends(p)

\* loadFromDisk: the version must be the expected one, then the config is read.
loadFromDisk(p) ==
  IF HasVersion(link, proc[p].ver) /\ hasConfig(link)
  THEN Becomes(p, [proc[p] EXCEPT !.mem = ReadConfig(dirs[link].config), !.pc = "openStores"])
  ELSE Ends(p)

\* openDatastore, openKeystore, openWalletDatastore, ...: the datastores stay
\* in the directory the path leads to at this moment.
openStores(p) ==
  IF link = NoDir THEN Ends(p)
  ELSE Becomes(p, [proc[p] EXCEPT !.stores = link,
                                  !.pc = CASE proc[p].cmd = "daemon" -> "start"
                                           [] proc[p].cmd = "init" -> "genesisMeta"
                                           [] OTHER -> "compare"])

Open(p) ==
  /\ \/ proc[p].pc = "open" /\ OpenFSRepo(p)
     \/ proc[p].pc = "loadVersion" /\ loadFromDisk(p)
     \/ proc[p].pc = "openStores" /\ openStores(p)
  /\ UNCHANGED <<link, dirs>> /\ Unspent /\ NoReport

\* removeAPIFile, of the repositories that are being closed.
removeAPIFile(closed) ==
  dirs' = [d \in Dirs |-> IF d \in closed THEN [dirs[d] EXCEPT !.api = NoFile] ELSE dirs[d]]

-----------------------------------------------------------------------------
(* go-filecoin init: InitFSRepo, then node.Init in the new repository *)

\* The directory may exist, but must be empty.  Two runs for the same version
\* within one second compute the same name (MakeRepoDirName).
isVacant(d) == \A e \in Dirs : ~dirs[e].exists <=> e >= d
isEmptyDir(d) == \/ isVacant(d)
                 \/ dirs[d].exists /\ dirs[d].version = NoFile /\ dirs[d].config = NoFile

InitFSRepo(p, ver) ==
  /\ proc[p].pc = "idle" /\ Spend("init")
  /\ link = NoDir
  /\ \E d \in Dirs :
       /\ isEmptyDir(d)
       /\ \A q \in Procs : proc[q].new = d => proc[q].cmd = "init" /\ proc[q].ver = ver
       /\ Holds(d, [dirs[d] EXCEPT !.exists = TRUE])
       /\ Lacks(d, promised # NothingYet)
       /\ raced' = (raced \/ dirs[d].exists)
       /\ Becomes(p, [Idle EXCEPT !.pc = "version0", !.cmd = "init", !.ver = ver, !.new = d])
  /\ UNCHANGED <<link, promised, refused>>

\* WriteVersion truncates the file and then fills it, for init and for the
\* migration alike.
WriteVersion(p) ==
  LET d == proc[p].new
      to == IF proc[p].cmd = "init" THEN proc[p].ver ELSE Version
  IN
  /\ \/ /\ proc[p].pc = "version0"
        /\ Holds(d, [dirs[d] EXCEPT !.version = Truncated])
        /\ Goes(p, "version")
     \/ /\ proc[p].pc = "version"
        /\ Holds(d, [dirs[d] EXCEPT !.version = Holding(to)])
        /\ CASE proc[p].cmd = "init" -> Goes(p, "config0")
             [] proc[p].cmd = "migrate" -> Goes(p, "unlink")
             [] OTHER -> Ends(p)
  /\ UNCHANGED link /\ Unspent /\ NoReport

initConfig(p) ==
  LET d == proc[p].new IN
  /\ \/ /\ proc[p].pc = "config0" /\ dirs[d].config # NoFile
        /\ Ends(p) /\ UNCHANGED dirs
     \/ /\ proc[p].pc = "config0" /\ dirs[d].config = NoFile
        /\ Holds(d, [dirs[d] EXCEPT !.config = Truncated])
        /\ Goes(p, "config")
     \/ /\ proc[p].pc = "config"
        /\ Holds(d, [dirs[d] EXCEPT !.config = Holding(NewDefaultConfig)])
        /\ Goes(p, "symlink")
  /\ UNCHANGED link /\ Unspent /\ NoReport

\* os.Symlink fails when another init has made the link meanwhile.
InitSymlink(p) ==
  /\ proc[p].pc = "symlink"
  /\ IF link # NoDir
     THEN Ends(p) /\ UNCHANGED <<link, raced>>
     ELSE PointLinkTo(proc[p].new, p) /\ Goes(p, "open")
  /\ UNCHANGED <<dirs, promised, refused, behind>> /\ Unspent

\* chain.Init: the metadata of the genesis tipset, the head, the genesis key;
\* then node.initPeerKey.
InitChain(p) ==
  LET d == proc[p].stores IN
  /\ \/ /\ proc[p].pc = "genesisMeta"
        /\ Holds(d, [dirs[d] EXCEPT !.chain.meta[0] = Written(proc[p].ver)])
        /\ Goes(p, "genesisHead")
     \/ /\ proc[p].pc = "genesisHead"
        /\ Holds(d, [dirs[d] EXCEPT !.chain.headAs = HeadWritten(proc[p].ver)])
        /\ Goes(p, "genesisKey")
     \/ /\ proc[p].pc = "genesisKey"
        /\ Holds(d, [dirs[d] EXCEPT !.chain.genesis = TRUE])
        /\ Goes(p, "peerKey")
     \/ /\ proc[p].pc = "peerKey"
        /\ Holds(d, [dirs[d] EXCEPT !.peerKey = TRUE])
        /\ Goes(p, "defaultKey")
  /\ UNCHANGED link /\ Unspent /\ NoReport

\* DSBackend.putKeyInfo stores a freshly generated key; keys are taken in order,
\* as directory names are.
FreshKeys ==
  LET unused == Keys \ UNION {dirs[d].wallet : d \in Dirs}
  IN {k \in unused : \A j \in unused : k <= j}

\* node.Init: the default key goes to the wallet before the config names it.
initDefaultKey(p) ==
  LET d == proc[p].stores IN
  /\ proc[p].pc = "defaultKey"
  /\ \E k \in FreshKeys :
       /\ Holds(d, [dirs[d] EXCEPT !.wallet = @ \cup {k}])
       /\ Becomes(p, [proc[p] EXCEPT !.mem.default = k, !.pc = "initSave",
                                     !.saving = "truncate"])
  /\ UNCHANGED link /\ Unspent /\ NoReport

-----------------------------------------------------------------------------
(* Saving the configuration: FSRepo.ReplaceConfig *)

\* Config.WriteFile opens a temporary file, truncated, and writes through the
\* open file; the rename resolves the path once more, and fails when the link
\* has gone or moved on.
Rename(files) == [files EXCEPT !.config = files.tmp, !.tmp = NoFile]

ReplaceConfigFails(p) ==
  \/ proc[p].saving \in {"truncate", "rename"} /\ link = NoDir
  \/ proc[p].saving = "rename" /\ link # NoDir /\ dirs[link].tmp = NoFile

\* init saves twice, the second time with the settings its options give, and
\* then closes the repository; the daemon answers the ConfigSet call.
ConfigSaved(p, d) ==
  LET now == Rename(dirs[d])
      pr == proc[p]
  IN CASE pr.pc = "initSave" ->
            /\ \E v \in {0, 1} : Becomes(p, [pr EXCEPT !.pc = "initSave2", !.saving = "truncate",
                                                       !.mem.set["price"] = v])
            /\ Holds(d, now) /\ UNCHANGED <<promised, behind>>
       [] pr.pc = "initSave2" ->
            /\ Ends(p)
            /\ Holds(d, [now EXCEPT !.api = NoFile]) /\ Reported(d)
            /\ promised' = [promised EXCEPT !.keys = @ \cup {pr.mem.default},
                                            !.set["price"] = pr.mem.set["price"]]
       [] OTHER ->
            /\ Becomes(p, [pr EXCEPT !.saving = "no", !.doing = "none"])
            /\ Holds(d, now) /\ Reported(d)
            /\ promised' = [promised EXCEPT !.set[pr.doing] = pr.mem.set[pr.doing]]

ReplaceConfig(p) ==
  /\ proc[p].saving # "no"
  /\ \/ /\ ReplaceConfigFails(p)
        /\ IF proc[p].cmd = "init" THEN Ends(p)
           ELSE Becomes(p, [proc[p] EXCEPT !.saving = "no", !.doing = "none"])
        /\ UNCHANGED <<dirs, promised, behind>>
     \/ /\ ~ReplaceConfigFails(p) /\ proc[p].saving = "truncate"
        /\ Holds(link, [dirs[link] EXCEPT !.tmp = Truncated])
        /\ Becomes(p, [proc[p] EXCEPT !.saving = "write", !.at = link])
        /\ UNCHANGED <<promised, behind>>
     \/ /\ proc[p].saving = "write"
        /\ Holds(proc[p].at, [dirs[proc[p].at] EXCEPT !.tmp = Holding(proc[p].mem)])
        /\ Becomes(p, [proc[p] EXCEPT !.saving = "rename"])
        /\ UNCHANGED <<promised, behind>>
     \/ /\ ~ReplaceConfigFails(p) /\ proc[p].saving = "rename"
        /\ ConfigSaved(p, link)
  /\ UNCHANGED <<link, refused, raced>> /\ Unspent

-----------------------------------------------------------------------------
(* go-filecoin daemon *)

Daemon(p, ver) ==
  /\ proc[p].pc = "idle" /\ Spend("daemon")
  /\ Becomes(p, [Idle EXCEPT !.pc = "open", !.cmd = "daemon", !.ver = ver])
  /\ UNCHANGED <<link, dirs>> /\ NoReport

\* OptionsFromRepo and node.New need the peer key and the genesis; Node.Start
\* loads the chain.  An error ends the program.
StartNode(p) ==
  LET d == dirs[proc[p].stores] IN
  /\ proc[p].pc = "start"
  /\ IF d.peerKey /\ Loadable(d.chain, proc[p].ver) THEN Goes(p, "api0") ELSE Ends(p)
  /\ UNCHANGED <<link, dirs>> /\ Unspent /\ NoReport

\* SetAPIAddr creates the file and then writes the address; without a
\* directory the daemon shuts down.
SetAPIAddr(p) ==
  /\ proc[p].pc \in {"api0", "api"}
  /\ \/ /\ link = NoDir
        /\ Ends(p) /\ UNCHANGED dirs
     \/ /\ link # NoDir /\ proc[p].pc = "api0"
        /\ Holds(link, [dirs[link] EXCEPT !.api = Truncated]) /\ Goes(p, "api")
     \/ /\ link # NoDir /\ proc[p].pc = "api"
        /\ Holds(link, [dirs[link] EXCEPT !.api = Holding(p)]) /\ Goes(p, "running")
  /\ UNCHANGED link /\ Unspent /\ NoReport

\* cfg.Config.Set changes the live configuration, which is then saved.  When
\* the JSON names an unknown field the call is refused, but the fields it
\* names correctly have been decoded into the live configuration.
ConfigSet(p, s, known) ==
  /\ proc[p].pc = "running" /\ proc[p].saving = "no" /\ Spend("op")
  /\ Becomes(p, [proc[p] EXCEPT !.mem.set[s] = 1,
                                !.saving = IF known THEN "truncate" ELSE "no",
                                !.doing = IF known THEN s ELSE "none"])
  /\ refused' = IF known THEN refused ELSE refused \cup {s}
  /\ UNCHANGED <<link, dirs, promised, behind, raced>>

\* wallet.NewAddress
NewAddress(p) ==
  LET d == proc[p].stores IN
  /\ proc[p].pc = "running" /\ Spend("op")
  /\ \E k \in FreshKeys :
       /\ Holds(d, [dirs[d] EXCEPT !.wallet = @ \cup {k}]) /\ Reported(d)
       /\ promised' = [promised EXCEPT !.keys = @ \cup {k}]
  /\ UNCHANGED <<link, proc, refused, raced>>

\* Store.PutTipSetMetadata, and after it Store.SetHead.
PutTipSetMetadata(p) ==
  LET d == proc[p].stores
      c == dirs[d].chain
  IN
  /\ proc[p].pc = "running" /\ Spend("op")
  /\ c.head < MaxHeight
  /\ c.meta[c.head + 1] # Written(proc[p].ver)
  /\ Holds(d, [dirs[d] EXCEPT !.chain.meta[c.head + 1] = Written(proc[p].ver)])
  /\ UNCHANGED <<link, proc>> /\ NoReport

SetHead(p) ==
  LET d == proc[p].stores
      c == dirs[d].chain
  IN
  /\ proc[p].pc = "running"
  /\ c.head < MaxHeight
  /\ c.meta[c.head + 1] = Written(proc[p].ver)
  /\ Holds(d, [dirs[d] EXCEPT !.chain.head = c.head + 1]) /\ HeadReported(d)
  /\ promised' = [promised EXCEPT !.height = c.head + 1]
  /\ UNCHANGED <<link, proc, refused, raced>> /\ Unspent

\* Node.Stop closes the repository: the API file goes, then the lock.
Close(p) ==
  /\ proc[p].pc = "running" /\ proc[p].saving = "no"
  /\ removeAPIFile({link})
  /\ Ends(p)
  /\ UNCHANGED link /\ Unspent /\ NoReport

\* A process is killed between two of its steps.
Kill(p) ==
  /\ proc[p].pc # "idle" /\ Spend("kill")
  /\ Ends(p)
  /\ UNCHANGED <<link, dirs>> /\ NoReport

-----------------------------------------------------------------------------
(* go-filecoin-migrate: MigrationRunner *)

\* DefaultMigrationsProvider, by the versions each migration goes from and to.
MigrationsProvider == {[from |-> 1, to |-> 2]}
getTargetMigrationVersion == CHOOSE v \in {m.to : m \in MigrationsProvider} :
                               \A m \in MigrationsProvider : m.to <= v
findMigration(v) == {m \in MigrationsProvider : m.to = m.from + 1 /\ m.from = v}

\* Run and runCommand up to their first step: the repository must not be up to
\* date, exactly one migration must apply, and the directory to install must
\* carry that migration's version.
MigrationRun(p, cmd) ==
  /\ proc[p].pc = "idle" /\ Spend("migration")
  /\ link # NoDir
  /\ \E v \in Versions, d \in Dirs :
       /\ HasVersion(link, v)
       /\ v # getTargetMigrationVersion
       /\ Cardinality(findMigration(v)) = 1
       /\ IF cmd = "install"
          THEN /\ dirs[d].exists /\ HasVersion(d, v + 1)
               /\ Becomes(p, [Idle EXCEPT !.pc = "unlink", !.cmd = cmd, !.new = d])
               /\ UNCHANGED <<dirs, behind>>
          ELSE /\ isVacant(d)
               /\ Holds(d, [dirs[d] EXCEPT !.exists = TRUE])
               /\ Lacks(d, link \in behind)
               /\ Becomes(p, [Idle EXCEPT !.pc = "copy1", !.cmd = cmd, !.ver = v, !.new = d,
                                          !.at = link])
  /\ UNCHANGED <<link, promised, refused, raced>>

\* CloneRepo copies the files one by one in the order of their names, whoever
\* else is working in the directory.
CloneRepo(p) ==
  LET from == dirs[proc[p].at]
      d == proc[p].new
  IN
  /\ \/ /\ proc[p].pc = "copy1"
        /\ Holds(d, [dirs[d] EXCEPT !.api = from.api, !.chain = from.chain,
                                    !.config = from.config])
        /\ Goes(p, "copy2")
     \/ /\ proc[p].pc = "copy2"
        /\ Holds(d, [dirs[d] EXCEPT !.peerKey = from.peerKey, !.tmp = from.tmp,
                                    !.version = from.version, !.wallet = from.wallet])
        /\ Goes(p, "migrate")
  /\ UNCHANGED link /\ Unspent /\ NoReport

\* Migrate opens the clone as a repository of the old version and needs a head
\* in the old encoding.
Migrate(p) ==
  LET d == proc[p].new IN
  /\ proc[p].pc = "migrate"
  /\ IF hasConfig(d) /\ HasVersion(d, proc[p].ver) /\ dirs[d].chain.headAs = "json"
     THEN Becomes(p, [proc[p] EXCEPT !.pc = "convert", !.at = dirs[d].chain.head])
     ELSE Ends(p)
  /\ UNCHANGED <<link, dirs>> /\ Unspent /\ NoReport

\* convertJSONtoCBOR rewrites the state roots from the head down to the genesis.
convertJSONtoCBOR(p) ==
  LET d == proc[p].new
      h == proc[p].at
  IN
  /\ proc[p].pc = "convert"
  /\ IF dirs[d].chain.meta[h] # "json"
     THEN Ends(p) /\ UNCHANGED dirs
     ELSE /\ Holds(d, [dirs[d] EXCEPT !.chain.meta[h] = "root"])
          /\ IF h = 0 THEN Goes(p, "convertHead")
             ELSE Becomes(p, [proc[p] EXCEPT !.at = h - 1])
  /\ UNCHANGED link /\ Unspent /\ NoReport

\* writeHeadAsCBOR; the clone is closed and Validate opens the old repository
\* through the link.
writeHeadAsCBOR(p) ==
  LET d == proc[p].new IN
  /\ proc[p].pc = "convertHead"
  /\ Holds(d, [dirs[d] EXCEPT !.chain.headAs = "root", !.api = NoFile])
  /\ Goes(p, "open")
  /\ UNCHANGED link /\ Unspent /\ NoReport

\* compareChainStores: same head, and the old state root of every ancestor is
\* in the new store.
compareChainStoresMutant(old, new) ==
  /\ old.headAs = "json" /\ new.headAs = "root"
  /\ \A h \in 0 .. new.head : old.meta[h] = "json" /\ new.meta[h] = "root"

compareChainStores(old, new) ==
  /\ old.headAs = "json" /\ new.headAs = "root"
  /\ old.head = new.head
  /\ \A h \in 0 .. old.head : old.meta[h] = "json" /\ new.meta[h] = "root"

\* Validate, with the old repository open, opens the new one as well; both are
\* closed before the version is written.
Validate(p) ==
  LET pr == proc[p]
      ok == /\ hasConfig(pr.new) /\ HasVersion(pr.new, pr.ver)
            /\ compareChainStores(dirs[pr.stores].chain, dirs[pr.new].chain)
  IN
  /\ pr.pc = "compare"
  /\ removeAPIFile({link, pr.new})
  /\ Lacks(pr.new, pr.stores \in behind)
  /\ IF ok THEN Becomes(p, [pr EXCEPT !.pc = "version0", !.lock = NoDir, !.stores = NoDir])
     ELSE Ends(p)
  /\ UNCHANGED <<link, promised, refused, raced>> /\ Unspent

\* InstallNewRepo removes the link and then makes it again.
InstallNewRepo(p) ==
  /\ \/ /\ proc[p].pc = "unlink"
        /\ IF link = NoDir THEN Ends(p) ELSE Goes(p, "relink")
        /\ link' = NoDir /\ UNCHANGED raced
     \/ /\ proc[p].pc = "relink"
        /\ IF link = NoDir THEN PointLinkTo(proc[p].new, p) ELSE UNCHANGED <<link, raced>>
        /\ Ends(p)
  /\ UNCHANGED <<dirs, promised, refused, behind>> /\ Unspent

-----------------------------------------------------------------------------
\* Where a workload starts: with nothing, or with the repository that a
\* completed init of a release left behind.
Initialised(ver) ==
  [EmptyDir EXCEPT
     !.exists = TRUE, !.version = Holding(ver), !.peerKey = TRUE, !.wallet = {1},
     !.config = Holding([NewDefaultConfig EXCEPT !.default = 1]),
     !.chain = [EmptyChain EXCEPT !.genesis = TRUE, !.meta[0] = Written(ver),
                                  !.headAs = HeadWritten(ver)]]

Init ==
  /\ left \in Workloads
  /\ link = IF left.from = 0 THEN NoDir ELSE 1
  /\ dirs = [d \in Dirs |-> IF d = link THEN Initialised(left.from) ELSE EmptyDir]
  /\ proc = [p \in Procs |-> Idle]
  /\ promised = IF left.from = 0 THEN NothingYet ELSE [NothingYet EXCEPT !.keys = {1}]
  /\ refused = {} /\ behind = {}
  /\ raced = FALSE

Next ==
  \E p \in Procs :
    \/ \E v \in left.versions : InitFSRepo(p, v) \/ Daemon(p, v)
    \/ \E cmd \in {"migrate", "buildonly", "install"} : MigrationRun(p, cmd)
    \/ \E s \in Settings, known \in BOOLEAN : ConfigSet(p, s, known)
    \/ Open(p) \/ WriteVersion(p) \/ initConfig(p) \/ InitSymlink(p)
    \/ InitChain(p) \/ initDefaultKey(p) \/ ReplaceConfig(p)
    \/ StartNode(p) \/ SetAPIAddr(p)
    \/ NewAddress(p) \/ PutTipSetMetadata(p) \/ SetHead(p) \/ Close(p) \/ Kill(p)
    \/ CloneRepo(p) \/ Migrate(p) \/ convertJSONtoCBOR(p) \/ writeHeadAsCBOR(p)
    \/ Validate(p) \/ InstallNewRepo(p)

Spec == Init /\ [][Next]_vars

-----------------------------------------------------------------------------
(* Properties *)

Files(C) == {NoFile, Truncated} \cup {Holding(x) : x \in C}

\* The variables keep their types: in particular no process ever holds a lock
\* or a datastore of a directory that does not exist.
TypeOK ==
  /\ link \in Dirs \cup {NoDir}
  /\ \A d \in Dirs :
       /\ dirs[d].version \in Files(Versions)
       /\ dirs[d].config \in Files(Configs) /\ dirs[d].tmp \in Files(Configs)
       /\ dirs[d].api \in Files(Procs)
       /\ dirs[d].wallet \subseteq Keys
       /\ dirs[d].chain.head \in 0 .. MaxHeight
       /\ dirs[d].chain.meta \in [0 .. MaxHeight -> Encodings]
       /\ ~dirs[d].exists => dirs[d] = EmptyDir
  /\ \A p \in Procs : \A d \in {proc[p].lock, proc[p].stores} : d = NoDir \/ dirs[d].exists

\* What a program has reported as done survives: a generated key, a saved
\* setting and a reached head are in the repository behind the link through
\* kills at every point of ReplaceConfig, init and the migration, and through a
\* migration itself.  A setting may also hold a value ConfigSet refused.
\* Excluded: the link or the directory was replaced under a running process, or
\* the directory was cloned before the report was made.
AcknowledgedSurvives ==
  link # NoDir /\ ~raced /\ link \notin behind /\ promised # NothingYet =>
    LET d == dirs[link] IN
    /\ promised.keys \subseteq d.wallet
    /\ promised.height <= d.chain.head
    /\ d.config # NoFile
    /\ \A s \in Settings : ReadConfig(d.config).set[s] # promised.set[s] => s \in refused

\* The repository behind the link has a whole version file, and every entry of
\* its chain store from the head to the genesis is in an encoding of that
\* version: a half-migrated or half-initialised clone is never installed.
InstalledIsMigrated ==
  link # NoDir /\ ~raced =>
    LET d == dirs[link] IN
    /\ d.version \in {Holding(OldVersion), Holding(Version)}
    /\ d.chain.headAs # "none" =>
         IF d.version = Holding(OldVersion)
         THEN d.chain.headAs = "json" /\ \A h \in 0 .. d.chain.head : d.chain.meta[h] = "json"
         ELSE d.chain.headAs = "root" /\ \A h \in 0 .. d.chain.head :
                                            d.chain.meta[h] \in {"root", "rootAndReceipts"}

\* The lock keeps the datastores of a directory to one process, whichever of
\* init, daemon and Validate opens it, as long as nobody replaces the link
\* between a process's lock and its datastores.
OneOwner ==
  ~raced => \A p, q \in Procs :
    p # q /\ proc[p].stores # NoDir => proc[p].stores # proc[q].stores

\* The configuration behind the link never names a default address whose key
\* the wallet lacks: node.Init stores the key before it saves the address.
DefaultKeyHeld ==
  link # NoDir /\ ~raced /\ dirs[link].config.content = "whole" =>
    dirs[link].config.is.default \in dirs[link].wallet \cup {NoKey}

\* The repository behind the link is whole at every point at which a program
\* may be killed: its files have their types, version and chain store match, and
\* the wallet has the default key.
InstalledIsWhole == TypeOK /\ InstalledIsMigrated /\ DefaultKeyHeld
=============================================================================
