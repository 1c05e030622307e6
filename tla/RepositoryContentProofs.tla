----------------------- MODULE RepositoryContentProofs -----------------------
(***************************************************************************)
(* What the directory behind the link contains, for any number of          *)
(* processes, directories and workloads: it is whole at every point at     *)
(* which a program may be killed, and has everything that was reported.    *)
(* The invariant is in RepositoryProofs.                                   *)
(***************************************************************************)
EXTENDS RepositoryProofs

\* Time limits with a wide margin: every leaf takes about a second.
USE ZenonT(20), SMTT(60), ZenonT(61)

-----------------------------------------------------------------------------
(* The configuration *)

LEMMA DefaultKeyContent ==
  ASSUME TypeInv, TypeInv', ContentInv, LockInv', NEW p \in Procs, initDefaultKey(p)
  PROVE  ContentInv'
  <1> DEFINE r == proc[p]
  <1>1. r.pc = "defaultKey" /\ UNCHANGED <<link, promised, refused, behind>>
    BY DEF initDefaultKey, NoReport
  <1>2. r.pc \in StorePcs /\ r.cmd = "init"
    BY <1>1, WhoseStep DEF StorePcs, GenesisPcs
  <1>3. PICK f : f = dirs[r.lock]
    OBVIOUS
  <1>4. /\ r.stores = r.lock /\ f \in Directories /\ DirOK(f) /\ HolderOK(r, f) /\ ProcInv(r) /\ r.ver \in Versions
        /\ f.version = Holding(r.ver) /\ f.config # NoFile
        /\ link = r.lock => LinkedOK(f) /\ MemKept(r, f, promised, refused)
    BY <1>2, <1>3, Owner
  <1>5. PICK k \in Keys :
          /\ Holds(r.lock, [f EXCEPT !.wallet = f.wallet \cup {k}])
          /\ Becomes(p, [r EXCEPT !.mem.default = k, !.pc = "initSave", !.saving = "truncate"])
    BY <1>3, <1>4, FreshKeysAreKeys DEF initDefaultKey
  <1>6. PICK g : g = [f EXCEPT !.wallet = f.wallet \cup {k}]
    OBVIOUS
  <1>7. /\ g \in Directories /\ g.version = f.version /\ g.config = f.config /\ g.tmp = f.tmp
        /\ g.wallet = f.wallet \cup {k} /\ g.chain = f.chain
    BY <1>4, <1>6 DEF Directories
  <1>8. PICK s : s = [r EXCEPT !.mem.default = k, !.pc = "initSave", !.saving = "truncate"]
    OBVIOUS
  <1>9. /\ s.pc = "initSave" /\ s.cmd = r.cmd /\ s.ver = r.ver /\ s.lock = r.lock /\ s.stores = r.stores
        /\ s.new = r.new /\ s.saving = "truncate" /\ s.doing = r.doing
        /\ s.mem.default = k /\ s.mem.set = r.mem.set
    BY <1>8, SMTT(60) DEF TypeInv, Processes, Configs
  <1>10. proc'[p] = s /\ Alone(p)
    BY <1>5, <1>8, StepOfOne
  <1>11. KeyHeld(g.config, g.wallet) /\ KeyHeld(g.tmp, g.wallet) /\ (g.chain.headAs = "none" => g.chain.head = 0)
    BY <1>4, <1>7, SMTT(60) DEF DirOK, KeyHeld, NoFile, Holding
  <1>12. DirOK(g) /\ (LinkedOK(f) => LinkedOK(g))
    BY <1>4, <1>7, <1>11, FitsStays
  <1>13. Holds(r.lock, g)
    BY <1>5, <1>6
  <1>14. Kept(f, promised, refused) => Kept(g, promised, refused)
    BY <1>7 DEF Kept
  <1>15. GhostStep(p) /\ LockedStep(p) /\ (r.lock \notin behind' => AllKept(g, promised', refused'))
    BY <1>1, <1>2, <1>3, <1>4, <1>7, <1>13, <1>14, NoReportGhosts
  <1>16. HolderOK(s, g)
    BY <1>4, <1>7, <1>9 DEF HolderOK, NodePcs
  <1>17. link = r.lock => MemKept(s, g, promised', refused')
    BY <1>1, <1>4, <1>7, <1>9 DEF MemKept
  <1>18. s.pc \in StorePcs /\ DoingInv(s)
    BY <1>1, <1>4, <1>9 DEF StorePcs, SavePcs, ProcInv, DoingInv
  <1> QED
    BY <1>1, <1>2, <1>4, <1>7, <1>9, <1>10, <1>12, <1>13, <1>15, <1>16, <1>17, <1>18, OwnerStep

\* What a process has in memory has everything that the file has.
LEMMA SavedSets ==
  ASSUME NEW r, NEW f, NEW pr, NEW rf, NEW now, FileKept(f.config, pr, rf), f.config # NoFile, MemKept(r, f, pr, rf),
         \A x \in Settings : \/ now.set[x] = r.mem.set[x]
                             \/ now.set[x] = pr.set[x] /\ x # r.doing /\ ~(r.pc = "initSave2" /\ x = "price")
  PROVE  SetKept(r.mem.set, now, rf)
  <1> SUFFICES ASSUME NEW x \in Settings, r.mem.set[x] # now.set[x]
               PROVE  x \in rf
    BY DEF SetKept
  <1>1. now.set[x] = pr.set[x] /\ x # r.doing /\ ~(r.pc = "initSave2" /\ x = "price")
    OBVIOUS
  <1>2. r.mem.set[x] = ReadConfig(f.config).set[x] \/ x \in rf
    BY <1>1 DEF MemKept
  <1> QED
    BY <1>1, <1>2 DEF FileKept, SetKept

LEMMA ReadHolding ==
  ASSUME NEW c
  PROVE  ReadConfig(Holding(c)) = c /\ Holding(c) # NoFile /\ Holding(c) # Truncated
         /\ Holding(c).content = "whole" /\ Holding(c).is = c
  BY DEF ReadConfig, Holding, NoFile, Truncated

\* Writing the temporary file.
LEMMA TmpWrite ==
  ASSUME TypeInv, TypeInv', ContentInv, LockInv', NEW p \in Procs, proc[p].pc \in SavePcs \cup {"running"},
         proc[p].saving # "no", NEW s, Becomes(p, s), s.cmd = proc[p].cmd,
         s.lock = proc[p].lock, s.stores = proc[p].stores, s.new = proc[p].new, s.mem = proc[p].mem, s.pc = proc[p].pc,
         s.doing = proc[p].doing, s.at = proc[p].lock, s.ver = proc[p].ver,
         NEW c \in {Truncated, Holding(proc[p].mem)}, s.saving \in {"write", "rename"},
         s.saving = "rename" => c = Holding(proc[p].mem),
         Holds(proc[p].lock, [dirs[proc[p].lock] EXCEPT !.tmp = c]), UNCHANGED <<link, promised, refused, behind>>
  PROVE  ContentInv'
  <1> DEFINE r == proc[p]
  <1>1. r.pc \in StorePcs /\ r.pc \in LoadedPcs /\ r.cmd \in {"init", "daemon"}
    BY WhoseStep DEF StorePcs, LoadedPcs, NodePcs
  <1>2. PICK f : f = dirs[r.lock]
    OBVIOUS
  <1>3. /\ f \in Directories /\ DirOK(f) /\ HolderOK(r, f) /\ ProcInv(r) /\ r.ver \in Versions
        /\ f.version = Holding(r.ver) /\ f.config # NoFile
        /\ link = r.lock => LinkedOK(f) /\ MemKept(r, f, promised, refused)
    BY <1>1, <1>2, Owner
  <1>4. PICK g : g = [f EXCEPT !.tmp = c]
    OBVIOUS
  <1>5. r.mem \in Configs
    BY DEF TypeInv, Processes
  <1>6. g \in Directories
    BY <1>3, <1>4, <1>5, ConfigFilePut
  <1>7. /\ g.version = f.version /\ g.config = f.config /\ g.tmp = c /\ g.wallet = f.wallet /\ g.chain = f.chain
    BY <1>3, <1>4 DEF Directories
  <1>8. r.mem.default \in f.wallet \cup {NoKey}
    BY <1>1, <1>3 DEF HolderOK
  <1>9. KeyHeld(g.tmp, g.wallet)
    BY <1>7, <1>8, SMTT(60) DEF KeyHeld, Truncated, Holding
  <1>10. KeyHeld(g.config, g.wallet) /\ (g.chain.headAs = "none" => g.chain.head = 0)
    BY <1>3, <1>7, SMTT(60) DEF DirOK, NoFile, Holding
  <1>11. DirOK(g) /\ (LinkedOK(f) => LinkedOK(g))
    BY <1>3, <1>7, <1>9, <1>10, FitsStays
  <1>12. Holds(r.lock, g)
    BY <1>2, <1>4
  <1>13. Kept(f, promised, refused) => Kept(g, promised, refused)
    BY <1>7 DEF Kept
  <1>14. GhostStep(p) /\ LockedStep(p) /\ (r.lock \notin behind' => AllKept(g, promised', refused'))
    BY <1>1, <1>2, <1>3, <1>6, <1>7, <1>12, <1>13, NoReportGhosts
  <1>15. HolderOK(s, g)
    BY <1>3, <1>7 DEF HolderOK
  <1>16. link = r.lock => MemKept(s, g, promised', refused')
    BY <1>3, <1>7 DEF MemKept
  <1>17. DoingInv(s)
    BY <1>3 DEF ProcInv, DoingInv
  <1>18. proc'[p] = s /\ Alone(p)
    BY StepOfOne
  <1> QED
    BY <1>1, <1>3, <1>6, <1>11, <1>12, <1>14, <1>15, <1>16, <1>17, <1>18, OwnerStep

\* The rename: the config file holds what the process has in memory.
LEMMA Renamed ==
  ASSUME TypeInv, ContentInv, NEW p \in Procs, proc[p].pc \in SavePcs \cup {"running"}, proc[p].saving = "rename",
         NEW f, f = dirs[proc[p].lock], NEW g, g \in {Rename(f), [Rename(f) EXCEPT !.api = NoFile]}
  PROVE  /\ g \in Directories /\ g.version = f.version /\ g.config = Holding(proc[p].mem) /\ g.tmp = NoFile
         /\ g.wallet = f.wallet /\ g.chain = f.chain /\ DirOK(g) /\ (LinkedOK(f) => LinkedOK(g))
  <1> DEFINE r == proc[p]
  <1>1. r.pc \in StorePcs /\ r.pc \in LoadedPcs
    BY DEF StorePcs, LoadedPcs, NodePcs
  <1>2. f \in Directories /\ DirOK(f) /\ HolderOK(r, f) /\ r.ver \in Versions /\ f.version = Holding(r.ver)
    BY <1>1, Owner
  <1>3. f.tmp = Holding(r.mem) /\ r.mem.default \in f.wallet \cup {NoKey}
    BY <1>1, <1>2 DEF HolderOK
  <1>4. r.mem \in Configs
    BY DEF TypeInv, Processes
  <1>5. g \in Directories
    BY <1>2, <1>4, ConfigFilePut
  <1>6. /\ Rename(f).version = f.version /\ Rename(f).config = f.tmp /\ Rename(f).tmp = NoFile
        /\ Rename(f).wallet = f.wallet /\ Rename(f).chain = f.chain
    BY <1>2 DEF Directories, Rename
  <1>7. Rename(f) \in Directories
    BY <1>2, <1>4, ConfigFilePut
  <1>8. /\ g.version = f.version /\ g.config = Holding(r.mem) /\ g.tmp = NoFile
        /\ g.wallet = f.wallet /\ g.chain = f.chain
    BY <1>3, <1>6, <1>7 DEF Directories
  <1>9. KeyHeld(g.config, g.wallet) /\ KeyHeld(g.tmp, g.wallet) /\ (g.chain.headAs = "none" => g.chain.head = 0)
    <2>1. g.config.is = r.mem
      BY <1>8 DEF Holding
    <2>2. KeyHeld(g.config, g.wallet)
      BY <1>3, <1>8, <2>1 DEF KeyHeld
    <2>3. g.tmp.content = "absent"
      BY <1>8 DEF NoFile
    <2>4. KeyHeld(g.tmp, g.wallet)
      BY <2>3 DEF KeyHeld
    <2>5. g.chain.headAs = "none" => g.chain.head = 0
      BY <1>2, <1>8 DEF DirOK
    <2> QED
      BY <2>2, <2>4, <2>5
  <1>10. DirOK(g) /\ (LinkedOK(f) => LinkedOK(g))
    BY <1>2, <1>8, <1>9, FitsStays
  <1> QED
    BY <1>5, <1>8, <1>10

\* The first save of an init reports nothing.
LEMMA FirstSave ==
  ASSUME TypeInv, TypeInv', ContentInv, LockInv', NEW p \in Procs, proc[p].pc = "initSave", proc[p].saving = "rename",
         link = proc[p].lock, ConfigSaved(p, link), UNCHANGED <<link, refused>>
  PROVE  ContentInv'
  <1> DEFINE r == proc[p]
  <1>1. r.pc \in StorePcs /\ r.pc \in SavePcs /\ r.cmd = "init"
    BY WhoseStep DEF StorePcs, SavePcs
  <1>2. PICK f : f = dirs[r.lock]
    OBVIOUS
  <1>3. /\ f \in Directories /\ DirOK(f) /\ HolderOK(r, f) /\ ProcInv(r) /\ f.version = Holding(r.ver)
        /\ f.config # NoFile /\ LinkedOK(f) /\ MemKept(r, f, promised, refused)
    BY <1>1, <1>2, Owner
  <1>4. PICK g : g = Rename(f)
    OBVIOUS
  <1>5. PICK v \in {0, 1} : Becomes(p, [r EXCEPT !.pc = "initSave2", !.saving = "truncate", !.mem.set["price"] = v])
    BY DEF ConfigSaved
  <1>6. Holds(r.lock, g) /\ UNCHANGED <<promised, behind>>
    BY <1>2, <1>4 DEF ConfigSaved
  <1>7. PICK s : s = [r EXCEPT !.pc = "initSave2", !.saving = "truncate", !.mem.set["price"] = v]
    OBVIOUS
  <1>8. /\ s.pc = "initSave2" /\ s.cmd = r.cmd /\ s.ver = r.ver /\ s.lock = r.lock /\ s.stores = r.stores
        /\ s.new = r.new /\ s.saving = "truncate" /\ s.doing = r.doing
        /\ s.mem.default = r.mem.default /\ \A x \in Settings : x # "price" => s.mem.set[x] = r.mem.set[x]
    <2>1. r \in Processes
      BY DEF TypeInv
    <2> QED
      BY <1>7, <2>1, SMTT(60) DEF Processes, Configs
  <1>9. proc'[p] = s /\ Alone(p)
    BY <1>5, <1>7, StepOfOne
  <1>10. /\ g \in Directories /\ g.version = f.version /\ g.config = Holding(r.mem) /\ g.tmp = NoFile
         /\ g.wallet = f.wallet /\ g.chain = f.chain /\ DirOK(g) /\ LinkedOK(g)
    BY <1>1, <1>2, <1>3, <1>4, Renamed
  <1>11. ReadConfig(g.config) = r.mem /\ g.config # NoFile
    BY <1>10, ReadHolding
  <1>12. r.doing = "none" /\ "none" \notin Settings
    BY <1>3 DEF ProcInv, DoingInv, Settings
  <1>13. Kept(f, promised, refused) => Kept(g, promised, refused)
    <2> SUFFICES ASSUME FileKept(f.config, promised, refused)
                 PROVE  SetKept(r.mem.set, promised, refused)
      BY <1>10, <1>11 DEF Kept, FileKept
    <2> QED
      BY <1>3, <1>12, SavedSets
  <1>14. GhostStep(p) /\ LockedStep(p) /\ (r.lock \notin behind' => AllKept(g, promised', refused'))
    BY <1>1, <1>2, <1>6, <1>10, <1>11, <1>13, NoReportGhosts
  <1>15. HolderOK(s, g)
    <2>1. r.mem.default \in f.wallet
      BY <1>1, <1>3 DEF HolderOK
    <2> QED
      BY <1>3, <1>8, <1>10, <1>11, <2>1 DEF HolderOK, NodePcs
  <1>16. MemKept(s, g, promised', refused')
    BY <1>8, <1>11 DEF MemKept
  <1>17. DoingInv(s) /\ s.pc \in StorePcs
    BY <1>8, <1>12 DEF DoingInv, StorePcs, SavePcs
  <1> QED
    BY <1>1, <1>6, <1>8, <1>9, <1>10, <1>14, <1>15, <1>16, <1>17, OwnerStep

\* The second save of an init reports the default key and the price.
LEMMA SecondSave ==
  ASSUME TypeInv, TypeInv', ContentInv, LockInv', NEW p \in Procs, proc[p].pc = "initSave2", proc[p].saving = "rename",
         link = proc[p].lock, ConfigSaved(p, link), UNCHANGED <<link, refused>>
  PROVE  ContentInv'
  <1> DEFINE r == proc[p]
  <1>1. r.pc \in StorePcs /\ r.pc \in SavePcs
    BY DEF StorePcs, SavePcs
  <1>2. PICK f : f = dirs[r.lock]
    OBVIOUS
  <1>3. /\ f \in Directories /\ HolderOK(r, f) /\ ProcInv(r) /\ f.config # NoFile /\ LinkedOK(f)
        /\ MemKept(r, f, promised, refused) /\ r.lock # NoDir
    BY <1>1, <1>2, Owner
  <1>4. PICK g : g = [Rename(f) EXCEPT !.api = NoFile]
    OBVIOUS
  <1>5. Ends(p) /\ Holds(r.lock, g) /\ Reported(r.lock)
    BY <1>2, <1>4 DEF ConfigSaved
  <1>6. promised' = [promised EXCEPT !.keys = promised.keys \cup {r.mem.default}, !.set["price"] = r.mem.set["price"]]
    BY DEF ConfigSaved
  <1>7. /\ promised'.keys = promised.keys \cup {r.mem.default} /\ promised'.height = promised.height
        /\ promised'.set["price"] = r.mem.set["price"]
        /\ \A x \in Settings : x # "price" => promised'.set[x] = promised.set[x]
    BY <1>6 DEF TypeInv, Reports, Settings
  <1>8. /\ g \in Directories /\ g.version = f.version /\ g.config = Holding(r.mem) /\ g.tmp = NoFile
        /\ g.wallet = f.wallet /\ g.chain = f.chain /\ DirOK(g) /\ LinkedOK(g)
    BY <1>1, <1>2, <1>3, <1>4, Renamed, SMTT(60)
  <1>9. ReadConfig(g.config) = r.mem /\ g.config # NoFile
    BY <1>8, ReadHolding
  <1>10. r.doing = "none" /\ "none" \notin Settings
    BY <1>3 DEF ProcInv, DoingInv, Settings
  <1>11. GhostStep(p) /\ LockedStep(p) /\ (r.lock \notin behind' => AllKept(f, promised, refused))
    BY <1>1, <1>2, <1>5, <1>8, ReportGhosts
  <1>12. ASSUME r.lock \notin behind'
         PROVE  AllKept(g, promised', refused')
    <2>1. AllKept(f, promised, refused)
      BY <1>11, <1>12
    <2>2. SetKept(r.mem.set, promised', refused)
      <3>1. ASSUME NEW x \in Settings
            PROVE  \/ promised'.set[x] = r.mem.set[x]
                   \/ promised'.set[x] = promised.set[x] /\ x # r.doing /\ ~(r.pc = "initSave2" /\ x = "price")
        BY <1>7, <1>10
      <3> QED
        BY <1>3, <2>1, <3>1, SavedSets DEF AllKept, Kept
    <2>3. promised'.keys \subseteq g.wallet
      BY <1>1, <1>3, <1>7, <1>8, <2>1 DEF HolderOK, AllKept, Kept
    <2> QED
      BY <1>7, <1>8, <1>9, <2>1, <2>2, <2>3 DEF AllKept, Kept, FileKept
  <1>13. ProcInv(proc[p])' /\ (\A d \in Dirs : ~Finishing(proc'[p], d)) /\ Eases(p)
    BY <1>5, EndsProc
  <1> QED
    BY <1>3, <1>5, <1>8, <1>11, <1>12, <1>13, LockedWrite

\* The daemon reports the setting it was called with.
LEMMA DaemonSave ==
  ASSUME TypeInv, TypeInv', ContentInv, LockInv', NEW p \in Procs, proc[p].pc = "running", proc[p].saving = "rename",
         link = proc[p].lock, ConfigSaved(p, link), UNCHANGED <<link, refused>>
  PROVE  ContentInv'
  <1> DEFINE r == proc[p]
  <1>1. r.pc \in StorePcs /\ r.pc \in SavePcs \cup {"running"} /\ r.pc \notin SavePcs /\ r.cmd = "daemon"
    BY WhoseStep DEF StorePcs, SavePcs, NodePcs
  <1>2. PICK f : f = dirs[r.lock]
    OBVIOUS
  <1>3. /\ f \in Directories /\ HolderOK(r, f) /\ ProcInv(r) /\ f.config # NoFile /\ LinkedOK(f)
        /\ MemKept(r, f, promised, refused) /\ f.version = Holding(r.ver)
    BY <1>1, <1>2, Owner
  <1>4. PICK g : g = Rename(f)
    OBVIOUS
  <1>5. Holds(r.lock, g) /\ Reported(r.lock) /\ promised' = [promised EXCEPT !.set[r.doing] = r.mem.set[r.doing]]
    BY <1>2, <1>4 DEF ConfigSaved
  <1>6. PICK s : s = [r EXCEPT !.saving = "no", !.doing = "none"] /\ Becomes(p, s)
    BY DEF ConfigSaved
  <1>7. /\ s.pc = "running" /\ s.cmd = r.cmd /\ s.ver = r.ver /\ s.lock = r.lock /\ s.stores = r.stores
        /\ s.new = r.new /\ s.saving = "no" /\ s.doing = "none" /\ s.mem = r.mem
    BY <1>6 DEF TypeInv, Processes
  <1>8. proc'[p] = s /\ Alone(p)
    BY <1>6, StepOfOne
  <1>9. r.doing \in Settings
    BY DEF TypeInv, Processes, Consistent
  <1>10. /\ promised'.keys = promised.keys /\ promised'.height = promised.height
         /\ promised'.set[r.doing] = r.mem.set[r.doing]
         /\ \A x \in Settings : x # r.doing => promised'.set[x] = promised.set[x]
    BY <1>5, <1>9 DEF TypeInv, Reports
  <1>11. /\ g \in Directories /\ g.version = f.version /\ g.config = Holding(r.mem) /\ g.tmp = NoFile
         /\ g.wallet = f.wallet /\ g.chain = f.chain /\ DirOK(g) /\ LinkedOK(g)
    BY <1>1, <1>2, <1>3, <1>4, Renamed
  <1>12. ReadConfig(g.config) = r.mem /\ g.config # NoFile
    BY <1>11, ReadHolding
  <1>13. GhostStep(p) /\ LockedStep(p) /\ (r.lock \notin behind' => AllKept(f, promised, refused))
    BY <1>1, <1>2, <1>5, <1>11, ReportGhosts
  <1>14. ASSUME r.lock \notin behind'
         PROVE  AllKept(g, promised', refused')
    <2>1. AllKept(f, promised, refused)
      BY <1>13, <1>14
    <2>2. SetKept(r.mem.set, promised', refused)
      <3>1. ASSUME NEW x \in Settings
            PROVE  \/ promised'.set[x] = r.mem.set[x]
                   \/ promised'.set[x] = promised.set[x] /\ x # r.doing /\ ~(r.pc = "initSave2" /\ x = "price")
        BY <1>10
      <3> QED
        BY <1>3, <2>1, <3>1, SavedSets, SMTT(60) DEF AllKept, Kept
    <2> QED
      BY <1>10, <1>11, <1>12, <2>1, <2>2 DEF AllKept, Kept, FileKept
  <1>15. HolderOK(s, g)
    <2>1. r.pc \in LoadedPcs
      BY <1>1 DEF LoadedPcs
    <2> QED
      BY <1>1, <1>3, <1>7, <1>11, <1>12, <2>1 DEF HolderOK
  <1>16. MemKept(s, g, promised', refused')
    BY <1>7, <1>12 DEF MemKept
  <1>17. DoingInv(s)
    BY <1>7 DEF DoingInv
  <1> QED
    BY <1>1, <1>5, <1>7, <1>8, <1>11, <1>13, <1>14, <1>15, <1>16, <1>17, OwnerStep

LEMMA ReplaceConfigContent ==
  ASSUME TypeInv, TypeInv', ContentInv, LockInv', NEW p \in Procs, ReplaceConfig(p)
  PROVE  ContentInv'
  <1> DEFINE r == proc[p]
  <1>1. r.saving # "no" /\ UNCHANGED <<link, refused>> /\ r.pc \in SavePcs \cup {"running"}
    BY WhoseStep DEF ReplaceConfig
  <1>2. r.pc \in StorePcs /\ r.pc \in LoadedPcs
    BY <1>1 DEF StorePcs, LoadedPcs, NodePcs
  <1>3. PICK f : f = dirs[r.lock]
    OBVIOUS
  <1>4. /\ r.lock # NoDir /\ link \in {NoDir, r.lock} /\ f \in Directories /\ HolderOK(r, f) /\ ProcInv(r)
        /\ r.stores = r.lock
    BY <1>2, <1>3, Owner
  <1>5. r.saving = "rename" => f.tmp # NoFile
    BY <1>4, ReadHolding DEF HolderOK
  <1>6. CASE ReplaceConfigFails(p) /\ UNCHANGED <<dirs, promised, behind>>
    <2>1. link = NoDir
      BY <1>3, <1>4, <1>5, <1>6 DEF ReplaceConfigFails
    <2>2. CASE Ends(p)
      BY <1>1, <1>6, <2>2, QuietEnd
    <2>3. CASE r.cmd # "init" /\ Becomes(p, [r EXCEPT !.saving = "no", !.doing = "none"])
      <3>1. PICK s : s = [r EXCEPT !.saving = "no", !.doing = "none"] /\ Becomes(p, s)
        BY <2>3
      <3>2. /\ s.pc = r.pc /\ s.cmd = r.cmd /\ s.ver = r.ver /\ s.lock = r.lock /\ s.stores = r.stores
            /\ s.new = r.new /\ s.saving = "no" /\ s.doing = "none" /\ s.mem = r.mem /\ s.at = r.at
        BY <3>1, SMTT(60) DEF TypeInv, Processes
      <3>3. proc'[p] = s /\ Eases(p)
        BY <3>1, <3>2, StepOfOne, StaysEases
      <3>4. r.pc = "running" /\ r.cmd = "daemon"
        BY <1>1, <2>3, WhoseStep DEF NodePcs
      <3>5. HolderOK(s, f)
        BY <1>4, <3>2 DEF HolderOK
      <3>6. HolderInv(proc[p])'
        BY <1>1, <1>3, <1>4, <1>6, <2>1, <3>2, <3>3, <3>5 DEF HolderInv
      <3>7. ~Maker(s) /\ ~Cloner(s) /\ s.pc \notin InstallPcs /\ DoingInv(s)
        BY <3>2, <3>4 DEF Maker, Cloner, InstallPcs, DoingInv
      <3> QED
        BY <1>1, <1>6, <3>3, <3>6, <3>7, HolderProc, QuietStep
    <2> QED
      BY <1>6, <2>2, <2>3 DEF ReplaceConfig, ReplaceConfigFails
  <1>7. CASE ~ReplaceConfigFails(p) /\ r.saving = "truncate"
    <2>1. link = r.lock
      BY <1>4, <1>7 DEF ReplaceConfigFails
    <2>2. PICK s : s = [r EXCEPT !.saving = "write", !.at = r.lock] /\ Becomes(p, s)
      BY <1>7, <2>1 DEF ReplaceConfig
    <2>3. /\ s.pc = r.pc /\ s.cmd = r.cmd /\ s.ver = r.ver /\ s.lock = r.lock /\ s.stores = r.stores
          /\ s.new = r.new /\ s.saving = "write" /\ s.doing = r.doing /\ s.mem = r.mem /\ s.at = r.lock
      <3>1. r \in Processes
        BY DEF TypeInv
      <3> QED
        BY <2>2, <3>1, SMTT(60) DEF Processes
    <2>4. Holds(r.lock, [dirs[r.lock] EXCEPT !.tmp = Truncated]) /\ UNCHANGED <<promised, behind>>
      BY <1>7, <2>1 DEF ReplaceConfig
    <2> QED
      BY <1>1, <2>2, <2>3, <2>4, TmpWrite
  <1>8. CASE r.saving = "write"
    <2>1. r.at = r.lock
      BY <1>4, <1>8 DEF HolderOK
    <2>2. CASE ReplaceConfigFails(p)
      BY <1>8, <2>2 DEF ReplaceConfigFails
    <2>3. CASE /\ Holds(r.at, [dirs[r.at] EXCEPT !.tmp = Holding(r.mem)])
               /\ Becomes(p, [r EXCEPT !.saving = "rename"]) /\ UNCHANGED <<promised, behind>>
      <3>1. PICK s : s = [r EXCEPT !.saving = "rename"] /\ Becomes(p, s)
        BY <2>3
      <3>2. /\ s.pc = r.pc /\ s.cmd = r.cmd /\ s.ver = r.ver /\ s.lock = r.lock /\ s.stores = r.stores
            /\ s.new = r.new /\ s.saving = "rename" /\ s.doing = r.doing /\ s.mem = r.mem /\ s.at = r.lock
        BY <2>1, <3>1 DEF TypeInv, Processes
      <3>3. Holds(r.lock, [dirs[r.lock] EXCEPT !.tmp = Holding(r.mem)])
        BY <2>1, <2>3
      <3> QED
        BY <1>1, <2>3, <3>1, <3>2, <3>3, TmpWrite
    <2> QED
      BY <1>8, <2>2, <2>3 DEF ReplaceConfig
  <1>9. CASE ~ReplaceConfigFails(p) /\ r.saving = "rename"
    <2>1. link = r.lock
      BY <1>4, <1>9 DEF ReplaceConfigFails
    <2>2. ConfigSaved(p, link)
      BY <1>9 DEF ReplaceConfig
    <2> QED
      BY <1>1, <1>9, <2>1, <2>2, FirstSave, SecondSave, DaemonSave DEF SavePcs
  <1> QED
    BY <1>6, <1>7, <1>8, <1>9 DEF ReplaceConfig

-----------------------------------------------------------------------------
(* Closing, and the result of Validate *)

LEMMA SameContent ==
  ASSUME NEW d \in Dirs, SameButAPI(d)
  PROVE  /\ DirOK(dirs[d]) => DirOK(dirs'[d])
         /\ LinkedOK(dirs[d]) => LinkedOK(dirs'[d])
         /\ \A pr, rf : /\ Kept(dirs[d], pr, rf) => Kept(dirs'[d], pr, rf)
                        /\ AllKept(dirs[d], pr, rf) => AllKept(dirs'[d], pr, rf)
  BY DEF SameButAPI, DirOK, LinkedOK, Kept, AllKept

\* Only the repositories p uses are closed.
LEMMA ClosingFrame ==
  ASSUME TypeInv, ContentInv, NEW p \in Procs, Alone(p), proc[p].pc \in StorePcs, ~Maker(proc[p]),
         NEW closed, removeAPIFile(closed),
         \A d \in closed \cap Dirs : d = proc[p].lock \/ (Making(proc[p]) /\ d = proc[p].new),
         UNCHANGED <<link, promised, refused>>, behind \subseteq behind', NEW k, k = proc[p].lock
  PROVE  /\ Frame(p) /\ (link' # NoDir => LinkedOK(dirs'[link']))
         /\ \A d \in Dirs : SameButAPI(d) /\ (d \notin closed => dirs'[d] = dirs[d])
         /\ DirOK(dirs'[k]) /\ Keeps(k)'
  <1>1. \A d \in Dirs : SameButAPI(d) /\ (d \notin closed => dirs'[d] = dirs[d])
    BY RemoveFacts DEF removeAPIFile
  <1>2. /\ proc[p].lock \in Dirs /\ DirOK(dirs[proc[p].lock])
        /\ proc[p].lock \notin behind => AllKept(dirs[proc[p].lock], promised, refused)
    BY Owner
  <1>3. OnlyHead /\ LockedStep(p)
    BY <1>1, <1>2, SameContent DEF OnlyHead, LockedStep, SameButAPI
  <1>4. Frame(p)
    BY <1>1, <1>3 DEF Frame, Untouched, GhostStep, MadeStep, LinkStep
  <1>5. link' # NoDir => LinkedOK(dirs'[link'])
    BY <1>1, SameContent, LinkDir DEF ContentInv
  <1>6. DirOK(dirs'[k]) /\ (k \notin behind' => AllKept(dirs'[k], promised', refused'))
    BY <1>1, <1>2, SameContent
  <1>7. Keeps(k)'
    BY <1>6 DEF Keeps
  <1> QED
    BY <1>1, <1>4, <1>5, <1>6, <1>7

LEMMA CloseContent ==
  ASSUME TypeInv, TypeInv', ContentInv, LockInv', NEW p \in Procs, Close(p)
  PROVE  ContentInv'
  <1> DEFINE r == proc[p]
  <1>1. r.pc = "running" /\ Ends(p) /\ removeAPIFile({link}) /\ UNCHANGED <<link, promised, refused, behind>>
    BY DEF Close, NoReport
  <1>2. r.pc \in StorePcs /\ ~Maker(r)
    BY <1>1 DEF StorePcs, NodePcs, Maker, InitPcs
  <1>3. PICK k \in Dirs : k = r.lock /\ link \in {NoDir, k}
    BY <1>2, Owner
  <1>4. NoDir \notin Dirs
    BY SMTT(60) DEF Dirs, NoDir
  <1>5. ProcInv(proc[p])' /\ (\A d \in Dirs : ~Finishing(proc'[p], d)) /\ Eases(p) /\ Alone(p)
    BY <1>1, EndsProc DEF Eases
  <1>6. PICK closed : closed = {link}
    OBVIOUS
  <1>7. /\ removeAPIFile(closed) /\ behind \subseteq behind'
        /\ \A d \in closed \cap Dirs : d = r.lock \/ (Making(r) /\ d = r.new)
    <2>1. ASSUME NEW d \in closed \cap Dirs
          PROVE  d = r.lock
      <3>1. d = link /\ d # NoDir
        BY <1>4, <1>6
      <3> QED
        BY <1>3, <3>1
    <2> QED
      BY <1>1, <1>6, <2>1
  <1>8. /\ Frame(p) /\ (link' # NoDir => LinkedOK(dirs'[link']))
        /\ \A d \in Dirs : SameButAPI(d) /\ (d \notin closed => dirs'[d] = dirs[d])
        /\ DirOK(dirs'[k]) /\ Keeps(k)'
    BY <1>1, <1>2, <1>3, <1>5, <1>7, ClosingFrame
  <1>9. ApartInv'
    BY <1>1, <1>5, EasyApart DEF ContentInv
  <1>10. ASSUME NEW d \in Dirs \ {k}
         PROVE  dirs'[d] = dirs[d] /\ d # r.lock /\ (Settled(d)' => Settled(d))
    <2>1. dirs'[d] = dirs[d] /\ d # r.lock
      BY <1>3, <1>4, <1>6, <1>8
    <2> QED
      BY <1>1, <1>5, <2>1, EasySettled
  <1>11. PICK D : D = {k}
    OBVIOUS
  <1>12. \A d \in D : DirOK(dirs'[d]) /\ Keeps(d)'
    BY <1>8, <1>11
  <1>13. \A d \in Dirs \ D : dirs'[d] = dirs[d] /\ d # proc[p].lock /\ (Settled(d)' => Settled(d))
    BY <1>10, <1>11
  <1> QED
    BY <1>5, <1>8, <1>9, <1>12, <1>13, StepKeeps

\* Two chain stores that compareChainStores accepts.
LEMMA Compared ==
  ASSUME NEW old, NEW new, compareChainStores(old, new)
  PROVE  GoodNew(new) /\ new.head = old.head
  BY DEF compareChainStores, GoodNew, Good

\* A clone that Validate rejects is of no version yet; one that it accepts has
\* everything that the directory it was compared with has.
LEMMA ValidateContent ==
  ASSUME TypeInv, TypeInv', ContentInv, LockInv', NEW p \in Procs, Validate(p)
  PROVE  ContentInv'
  <1> DEFINE r == proc[p]
  <1>1. /\ r.pc = "compare" /\ removeAPIFile({link, r.new}) /\ UNCHANGED <<link, promised, refused>>
        /\ Lacks(r.new, r.stores \in behind) /\ Eases(p) /\ Alone(p)
    BY EasyStepEases DEF EasyStep, Validate, Eases
  <1>2. r.pc \in StorePcs /\ r.pc \notin CopyPcs /\ r.pc \notin FinishPcs /\ r.cmd \in {"migrate", "buildonly"}
    BY <1>1, WhoseStep DEF StorePcs, CopyPcs, FinishPcs
  <1>3. Cloner(r) /\ Making(r) /\ ~Maker(r)
    BY <1>1, <1>2 DEF Making, Cloner, Maker, InstallPcs
  <1>4. PICK n \in Dirs : n = r.new
    BY <1>3, MakingDir
  <1>5. PICK k \in Dirs : k = r.lock /\ r.stores = k /\ link \in {NoDir, k}
    BY <1>2, Owner
  <1>6. /\ ProcInv(r) /\ (k \notin behind => AllKept(dirs[k], promised, refused)) /\ dirs[n] \in Directories
        /\ dirs[k] \in Directories /\ DirOK(dirs[n]) /\ Apart(p)
    BY <1>2, <1>3, <1>4, <1>5, Owner, MakingDir DEF ContentInv, ApartInv
  <1>7. NoDir \notin Dirs /\ n # k /\ n # link
    BY <1>4, <1>5, <1>6, SMTT(60) DEF Dirs, NoDir, Apart
  <1>8. behind \subseteq behind' /\ (n \notin behind' => n \notin behind /\ k \notin behind)
    BY <1>1, <1>4, <1>5 DEF Lacks
  <1>9. ClonerOK(r, dirs[n], dirs[r.at]) /\ (n \notin behind => ClonerKeeps(r, dirs[n], dirs[r.at], promised, refused))
    BY <1>3, <1>4, <1>6 DEF ProcInv, ClonerInv
  <1>10. dirs[n].version \notin {NoFile, Holding(Version)} /\ (n \notin behind => Kept(dirs[n], promised, refused))
    BY <1>2, <1>9 DEF ClonerOK, ClonerKeeps
  <1>11. PICK closed : closed = {link, n}
    OBVIOUS
  <1>12. removeAPIFile(closed) /\ \A d \in closed \cap Dirs : d = r.lock \/ (Making(r) /\ d = r.new)
    <2>1. removeAPIFile(closed)
      BY <1>1, <1>4, <1>11
    <2>2. ASSUME NEW d \in closed \cap Dirs
          PROVE  d = r.lock \/ (Making(r) /\ d = r.new)
      <3>1. (d = link \/ d = n) /\ d # NoDir
        BY <1>7, <1>11
      <3> QED
        BY <1>3, <1>4, <1>5, <3>1
    <2> QED
      BY <2>1, <2>2
  <1>13. /\ Frame(p) /\ (link' # NoDir => LinkedOK(dirs'[link']))
         /\ \A d \in Dirs : SameButAPI(d) /\ (d \notin closed => dirs'[d] = dirs[d])
         /\ DirOK(dirs'[k]) /\ Keeps(k)'
    BY <1>1, <1>2, <1>3, <1>5, <1>8, <1>12, ClosingFrame
  <1>14. ApartInv'
    BY <1>1, EasyApart DEF ContentInv
  <1>15. DirOK(dirs'[n]) /\ (Kept(dirs[n], promised, refused) => Kept(dirs'[n], promised, refused))
    BY <1>6, <1>13, SameContent
  <1>16. CASE Ends(p)
    <2>1. ProcInv(proc[p])' /\ (\A d \in Dirs : ~Finishing(proc'[p], d)) /\ proc'[p].lock = NoDir
      BY <1>16, EndsProc, StepOfOne, SMTT(60) DEF Ends, Idle
    <2>2. ~Settled(n)'
      <3>1. dirs'[n].version # Holding(Version) /\ link' # n
        BY <1>1, <1>7, <1>10, <1>13 DEF SameButAPI
      <3>2. ASSUME NEW q \in Procs
            PROVE  proc'[q].lock # n /\ ~Finishing(proc'[q], n)
        BY <1>1, <1>3, <1>4, <1>6, <1>7, <2>1 DEF Apart, Alone, Finishing
      <3> QED
        BY <3>1, <3>2 DEF Settled, Finishing, Cloner
    <2> QED
      <3>1. Keeps(n)'
        BY <2>2 DEF Keeps
      <3>2. ASSUME NEW d \in Dirs \ {n, k}
            PROVE  dirs'[d] = dirs[d] /\ d # r.lock /\ (Settled(d)' => Settled(d))
        <4>1. dirs'[d] = dirs[d] /\ d # r.lock
          BY <1>5, <1>7, <1>11, <1>13
        <4> QED
          BY <1>1, <2>1, <4>1, EasySettled
      <3>3. PICK D : D = {n, k}
        OBVIOUS
      <3>4. \A d \in D : DirOK(dirs'[d]) /\ Keeps(d)'
        BY <1>13, <1>15, <3>1, <3>3
      <3>5. \A d \in Dirs \ D : dirs'[d] = dirs[d] /\ d # proc[p].lock /\ (Settled(d)' => Settled(d))
        BY <3>2, <3>3
      <3> QED
        BY <1>13, <1>14, <2>1, <3>4, <3>5, StepKeeps
  <1>17. CASE /\ hasConfig(n) /\ HasVersion(n, r.ver) /\ compareChainStores(dirs[k].chain, dirs[n].chain)
              /\ Becomes(p, [r EXCEPT !.pc = "version0", !.lock = NoDir, !.stores = NoDir])
    <2>1. PICK s : s = [r EXCEPT !.pc = "version0", !.lock = NoDir, !.stores = NoDir] /\ Becomes(p, s)
      BY <1>17
    <2>2. /\ s.pc = "version0" /\ s.cmd = r.cmd /\ s.ver = r.ver /\ s.lock = NoDir /\ s.new = n
          /\ s.doing = r.doing
      BY <1>4, <2>1 DEF TypeInv, Processes
    <2>3. proc'[p] = s
      BY <2>1, StepOfOne
    <2>4. Cloner(s) /\ s.pc \in FinishPcs /\ s.pc \notin CopyPcs /\ s.doing = "none"
      BY <1>1, <1>2, <1>6, <2>2 DEF Cloner, InstallPcs, FinishPcs, CopyPcs, ProcInv, DoingInv
    <2>5. GoodNew(dirs[n].chain) /\ dirs[n].chain.head = dirs[k].chain.head /\ dirs[n].config # NoFile
      BY <1>17, Compared DEF hasConfig
    <2>6. /\ dirs'[n].version = dirs[n].version /\ dirs'[n].chain = dirs[n].chain
          /\ dirs'[n].config = dirs[n].config
      BY <1>13 DEF SameButAPI
    <2>7. ClonerOK(s, dirs'[n], dirs'[s.at])
      BY <1>9, <1>10, <2>2, <2>4, <2>5, <2>6 DEF ClonerOK, CopyPcs
    <2>8. n \notin behind' => ClonerKeeps(s, dirs'[n], dirs'[s.at], promised', refused')
      BY <1>1, <1>8, <1>10, <1>15, <2>4 DEF ClonerKeeps, CopyPcs
    <2>9. ProcInv(proc[p])'
      <3>1. ClonerInv(proc[p])'
        BY <2>2, <2>3, <2>7, <2>8 DEF ClonerInv
      <3> QED
        BY <2>2, <2>3, <2>4, <3>1, ClonerProc
    <2>10. n \notin behind' => AllKept(dirs'[n], promised', refused')
      <3>1. k \notin behind => promised.height <= dirs[n].chain.head
        BY <1>6, <2>5 DEF AllKept
      <3> QED
        BY <1>1, <1>8, <1>10, <1>15, <2>5, <2>6, <3>1 DEF AllKept
    <2> QED
      <3>1. Keeps(n)'
        BY <2>10 DEF Keeps
      <3>2. ASSUME NEW d \in Dirs \ {n, k}
            PROVE  dirs'[d] = dirs[d] /\ d # r.lock /\ (Settled(d)' => Settled(d))
        <4>1. dirs'[d] = dirs[d] /\ d # r.lock
          BY <1>5, <1>7, <1>11, <1>13
        <4>2. ~Finishing(proc'[p], d)
          BY <2>2, <2>3 DEF Finishing
        <4> QED
          BY <1>1, <4>1, <4>2, EasySettled
      <3>3. PICK D : D = {n, k}
        OBVIOUS
      <3>4. \A d \in D : DirOK(dirs'[d]) /\ Keeps(d)'
        BY <1>13, <1>15, <3>1, <3>3
      <3>5. \A d \in Dirs \ D : dirs'[d] = dirs[d] /\ d # proc[p].lock /\ (Settled(d)' => Settled(d))
        BY <3>2, <3>3
      <3> QED
        BY <1>13, <1>14, <2>9, <3>4, <3>5, StepKeeps
  <1> QED
    BY <1>4, <1>5, <1>16, <1>17 DEF Validate

-----------------------------------------------------------------------------
(* Starting a program *)

\* Nobody uses a directory that does not exist.
LEMMA Unused ==
  ASSUME TypeInv, NEW d \in Dirs, ~dirs[d].exists, NEW q \in Procs
  PROVE  /\ dirs[d] = EmptyDir /\ link # d /\ proc[q].lock # d /\ proc[q].new # d
         /\ proc[q].pc \in CopyPcs => proc[q].at # d
  <1>1. d # NoDir
    BY SMTT(60) DEF Dirs, NoDir
  <1> QED
    BY <1>1 DEF TypeInv, Exists

\* A program that is not running has nothing.
LEMMA Stopped ==
  ASSUME TypeInv, NEW p \in Procs, proc[p].pc = "idle"
  PROVE  proc[p].lock = NoDir /\ ~Maker(proc[p]) /\ ~Cloner(proc[p]) /\ \A d \in Dirs : ~Finishing(proc[p], d)
  <1>1. proc[p].lock = NoDir
    BY DEF TypeInv, Consistent, LockPcs, LoadedPcs, StorePcs, GenesisPcs, SavePcs, NodePcs
  <1>2. proc[p].cmd \notin {"migrate", "buildonly"}
    BY DEF TypeInv, Consistent, PcsOf, BuildPcs, CopyPcs, OpenPcs, FinishPcs, InstallPcs
  <1> QED
    BY <1>1, <1>2 DEF Maker, Cloner, InitPcs, Finishing

\* The steps that make a directory for a program.
LEMMA StartMaking ==
  ASSUME TypeInv, TypeInv', ContentInv, LockInv', NEW p \in Procs, proc[p].pc = "idle", NEW d \in Dirs,
         ~dirs[d].exists, NEW g \in Directories, g = [dirs[d] EXCEPT !.exists = TRUE], Holds(d, g),
         behind \subseteq behind', UNCHANGED <<link, promised, refused>>,
         NEW s, Becomes(p, s), s.lock = NoDir, s.new = d, Making(s), s.pc \in CopyPcs => s.at = link,
         \A e \in Dirs : ~Finishing(s, e), ProcInv(proc[p])'
  PROVE  ContentInv'
  <1>1. proc'[p] = s /\ Alone(p)
    BY StepOfOne
  <1>2. dirs'[d] = g /\ \A e \in Dirs \ {d} : dirs'[e] = dirs[e]
    BY HoldsFacts
  <1>3. d # NoDir
    BY SMTT(60) DEF Dirs, NoDir
  <1>4. /\ dirs[d] = EmptyDir /\ link # d
        /\ \A q \in Procs : /\ proc[q].lock # d /\ proc[q].new # d
                            /\ proc[q].pc \in CopyPcs => proc[q].at # d
    BY Unused
  <1>5. proc[p].lock = NoDir /\ ~Maker(proc[p]) /\ ~Cloner(proc[p])
    BY Stopped
  <1>6. Frame(p)
    BY <1>1, <1>2, <1>5 DEF Frame, Untouched, GhostStep, LockedStep, MadeStep, LinkStep
  <1>7. ApartInv'
    <2> SUFFICES ASSUME NEW t \in Procs, Making(proc'[t])
                 PROVE  Apart(t)'
      BY DEF ApartInv, Making, Maker, Cloner
    <2>1. CASE t = p
      <3>1. ASSUME NEW q \in Procs
            PROVE  /\ proc'[q].lock # d
                   /\ proc'[q].pc \in CopyPcs => proc'[q].at # d
                   /\ q # t => proc'[q].new # d
        <4>1. CASE q = p
          BY <1>1, <1>3, <1>4, <2>1, <4>1
        <4>2. CASE q # p
          BY <1>1, <1>4, <4>2 DEF Alone
        <4> QED
          BY <4>1, <4>2
      <3> QED
        BY <1>1, <1>4, <2>1, <3>1 DEF Apart, Making, Maker, Cloner
    <2>2. CASE t # p
      <3>1. proc'[t] = proc[t] /\ Making(proc[t]) /\ Apart(t) /\ proc[t].new # NoDir
        <4>1. proc'[t] = proc[t]
          BY <1>1, <2>2 DEF Alone
        <4> QED
          BY <4>1, MakingDir, SMTT(60) DEF ContentInv, ApartInv, Dirs, NoDir
      <3>2. ASSUME NEW q \in Procs
            PROVE  /\ proc'[q].lock # proc'[t].new
                   /\ proc'[q].pc \in CopyPcs => proc'[q].at # proc'[t].new
                   /\ q # t /\ (Making(proc'[q]) \/ Cloner(proc'[t])) => proc'[q].new # proc'[t].new
        <4>1. CASE q = p
          BY <1>1, <1>4, <3>1, <4>1 DEF Apart
        <4>2. CASE q # p
          BY <1>1, <3>1, <4>2 DEF Apart, Alone
        <4> QED
          BY <4>1, <4>2
      <3> QED
        BY <3>1, <3>2 DEF Apart, Making, Maker, Cloner
    <2> QED
      BY <2>1, <2>2
  <1>8. link' # NoDir => LinkedOK(dirs'[link'])
    BY <1>2, <1>4, LinkDir DEF ContentInv
  <1>9. ASSUME NEW e \in Dirs, NEW q \in Procs, proc'[q].lock = e \/ Finishing(proc'[q], e)
        PROVE  q # p /\ (proc[q].lock = e \/ Finishing(proc[q], e))
    <2>1. e # NoDir
      BY SMTT(60) DEF Dirs, NoDir
    <2> QED
      BY <1>1, <1>9, <2>1 DEF Alone
  <1>10. ASSUME NEW e \in Dirs \ {d}
         PROVE  dirs'[e] = dirs[e] /\ e # proc[p].lock /\ (Settled(e)' => Settled(e))
    <2>1. e # NoDir
      BY SMTT(60) DEF Dirs, NoDir
    <2> QED
      BY <1>2, <1>5, <1>9, <2>1 DEF Settled, Finishing, Cloner
  <1>11. /\ g.version = NoFile /\ g.chain.headAs = "none" /\ g.chain.head = 0
    BY <1>4, SMTT(60) DEF EmptyDir, EmptyChain
  <1>12. DirOK(g) /\ ~Settled(d)'
    <2>1. ASSUME NEW q \in Procs
          PROVE  proc'[q].lock # d /\ ~Finishing(proc'[q], d)
      BY <1>4, <1>9 DEF Finishing
    <2>2. NoFile # Holding(Version)
      BY DEF NoFile, Holding
    <2> QED
      BY <1>2, <1>4, <1>11, <2>1, <2>2 DEF DirOK, Settled, Finishing, Cloner
  <1>13. DirOK(dirs'[d]) /\ Keeps(d)'
    BY <1>2, <1>12 DEF Keeps
  <1>14. PICK D : D = {d}
    OBVIOUS
  <1>15. \A e \in D : DirOK(dirs'[e]) /\ Keeps(e)'
    BY <1>13, <1>14
  <1>16. \A e \in Dirs \ D : dirs'[e] = dirs[e] /\ e # proc[p].lock /\ (Settled(e)' => Settled(e))
    BY <1>10, <1>14
  <1> QED
    BY <1>6, <1>7, <1>8, <1>15, <1>16, StepKeeps

LEMMA InitFSRepoContent ==
  ASSUME TypeInv, TypeInv', ContentInv, LockInv', ~raced', NEW p \in Procs, NEW v \in left.versions, InitFSRepo(p, v)
  PROVE  ContentInv'
  <1>1. PICK d \in Dirs :
           /\ Holds(d, [dirs[d] EXCEPT !.exists = TRUE])
           /\ Lacks(d, promised # NothingYet)
           /\ raced' = (raced \/ dirs[d].exists)
           /\ Becomes(p, [Idle EXCEPT !.pc = "version0", !.cmd = "init", !.ver = v, !.new = d])
    BY DEF InitFSRepo
  <1>2. proc[p].pc = "idle" /\ UNCHANGED <<link, promised, refused>> /\ ~dirs[d].exists
    BY <1>1 DEF InitFSRepo
  <1>3. PICK g : g = [dirs[d] EXCEPT !.exists = TRUE]
    OBVIOUS
  <1>4. g \in Directories /\ dirs[d] = EmptyDir
    <2>1. dirs[d] \in Directories
      BY DEF TypeInv
    <2>2. g \in Directories
      BY <1>3, <2>1 DEF Directories
    <2> QED
      BY <1>2, <2>2, Unused
  <1>5. g.chain = EmptyChain /\ g.wallet = {} /\ g.tmp = NoFile /\ g.version = NoFile /\ g.config = NoFile
    BY <1>3, <1>4, SMTT(60) DEF EmptyDir
  <1>6. PICK s : s = [Idle EXCEPT !.pc = "version0", !.cmd = "init", !.ver = v, !.new = d] /\ Becomes(p, s)
    BY <1>1
  <1>7. s.pc = "version0" /\ s.cmd = "init" /\ s.new = d /\ s.lock = NoDir /\ s.doing = "none"
    BY <1>6 DEF Idle
  <1>8. proc'[p] = s /\ dirs'[d] = g
    BY <1>1, <1>3, <1>4, <1>6, StepOfOne, HoldsFacts
  <1>9. Maker(s) /\ Making(s) /\ ~Cloner(s) /\ s.pc \notin InstallPcs /\ s.pc \notin CopyPcs
    BY <1>7 DEF Maker, Making, Cloner, InitPcs, InstallPcs, CopyPcs
  <1>10. MakerOK(s, g)
    BY <1>5, <1>7 DEF MakerOK
  <1>11. behind \subseteq behind' /\ (d \notin behind' => promised = NothingYet)
    BY <1>1 DEF Lacks
  <1>12. MakerInv(proc[p])'
    BY <1>2, <1>7, <1>8, <1>10, <1>11 DEF MakerInv
  <1>13. ProcInv(proc[p])' /\ \A e \in Dirs : ~Finishing(s, e)
    BY <1>7, <1>8, <1>9, <1>12 DEF ProcInv, ClonerInv, HolderInv, InstallerInv, DoingInv, Finishing, Cloner
  <1> QED
    BY <1>1, <1>2, <1>3, <1>4, <1>6, <1>7, <1>9, <1>11, <1>13, StartMaking


\* A repository to be migrated is of the old version.
LEMMA OldFirst ==
  ASSUME NEW v \in Versions, v # getTargetMigrationVersion
  PROVE  v = OldVersion /\ v + 1 = Version
  BY TargetVersion, SMTT(60) DEF Versions, Version, OldVersion

LEMMA MigrationInstallContent ==
  ASSUME TypeInv, TypeInv', ContentInv, LockInv', NEW p \in Procs, proc[p].pc = "idle",
         NEW d \in Dirs, dirs[d].exists, HasVersion(d, Version),
         Becomes(p, [Idle EXCEPT !.pc = "unlink", !.cmd = "install", !.new = d]),
         UNCHANGED <<dirs, behind, link, promised, refused>>
  PROVE  ContentInv'
  <1>1. PICK s : s = [Idle EXCEPT !.pc = "unlink", !.cmd = "install", !.new = d] /\ Becomes(p, s)
    OBVIOUS
  <1>2. s.pc = "unlink" /\ s.cmd = "install" /\ s.new = d /\ s.lock = NoDir /\ s.doing = "none"
    BY <1>1 DEF Idle
  <1>3. proc'[p] = s /\ Alone(p)
    BY <1>1, StepOfOne
  <1>4. ~Maker(s) /\ ~Cloner(s) /\ ~Making(s) /\ s.pc \notin CopyPcs
    BY <1>2 DEF Maker, Making, Cloner, InitPcs, CopyPcs
  <1>5. dirs[d].version = Holding(Version)
    BY DEF HasVersion
  <1>6. proc[p].lock = NoDir /\ ~Maker(proc[p]) /\ ~Cloner(proc[p])
    BY Stopped
  <1>7. Frame(p)
    BY <1>3, <1>6 DEF Frame, Untouched, GhostStep, LockedStep, MadeStep, LinkStep
  <1>8. ApartInv'
    <2> SUFFICES ASSUME NEW t \in Procs, Making(proc'[t])
                 PROVE  Apart(t)'
      BY DEF ApartInv, Making, Maker, Cloner
    <2>1. t # p /\ proc'[t] = proc[t]
      BY <1>3, <1>4 DEF Alone
    <2>2. Making(proc[t]) /\ Apart(t) /\ proc[t].new # NoDir
      BY <2>1, MakingDir, SMTT(60) DEF ContentInv, ApartInv, Dirs, NoDir
    <2>3. Cloner(proc[t]) => proc[t].new # d
      <3>1. SUFFICES ASSUME Cloner(proc[t]) PROVE dirs[proc[t].new].version # Holding(Version)
        BY <1>5
      <3>2. ClonerInv(proc[t])
        BY DEF ContentInv, ProcInv
      <3>3. NoFile # Holding(Version) /\ Holding(OldVersion) # Holding(Version)
        BY SMTT(60) DEF NoFile, Holding, OldVersion, Version
      <3> QED
        BY <2>2, <3>1, <3>2, <3>3 DEF ClonerInv, ClonerOK, Making
    <2>4. ASSUME NEW q \in Procs
          PROVE  /\ proc'[q].lock # proc'[t].new
                 /\ proc'[q].pc \in CopyPcs => proc'[q].at # proc'[t].new
                 /\ q # t /\ (Making(proc'[q]) \/ Cloner(proc'[t])) => proc'[q].new # proc'[t].new
      <3>1. CASE q = p
        BY <1>2, <1>3, <1>4, <2>1, <2>2, <2>3, <3>1
      <3>2. CASE q # p
        BY <1>3, <2>1, <2>2, <3>2 DEF Apart, Alone
      <3> QED
        BY <3>1, <3>2
    <2> QED
      BY <2>1, <2>2, <2>4 DEF Apart, Making, Maker, Cloner
  <1>9. ProcInv(proc[p])'
    BY <1>2, <1>3, <1>4, <1>5 DEF ProcInv, MakerInv, ClonerInv, HolderInv, InstallerInv, DoingInv
  <1>10. ASSUME NEW e \in Dirs
         PROVE  dirs'[e] = dirs[e] /\ e # proc[p].lock /\ (Settled(e)' => Settled(e))
    <2>1. e # NoDir
      BY SMTT(60) DEF Dirs, NoDir
    <2>2. ASSUME NEW q \in Procs, proc'[q].lock = e \/ Finishing(proc'[q], e)
          PROVE  q # p /\ (proc[q].lock = e \/ Finishing(proc[q], e))
      BY <1>2, <1>3, <1>4, <2>1, <2>2 DEF Alone, Finishing
    <2> QED
      BY <1>6, <2>1, <2>2 DEF Settled, Finishing, Cloner
  <1>11. link' # NoDir => LinkedOK(dirs'[link'])
    BY DEF ContentInv
  <1>12. PICK D : D = {}
    OBVIOUS
  <1>13. \A e \in D : DirOK(dirs'[e]) /\ Keeps(e)'
    BY <1>12
  <1>14. \A e \in Dirs \ D : dirs'[e] = dirs[e] /\ e # proc[p].lock /\ (Settled(e)' => Settled(e))
    BY <1>10, <1>12
  <1> QED
    BY <1>7, <1>8, <1>9, <1>11, <1>13, <1>14, StepKeeps

LEMMA MigrationCloneContent ==
  ASSUME TypeInv, TypeInv', ContentInv, LockInv', NEW p \in Procs, proc[p].pc = "idle",
         NEW c \in {"migrate", "buildonly"}, NEW d \in Dirs, ~dirs[d].exists, link # NoDir, HasVersion(link, OldVersion),
         Holds(d, [dirs[d] EXCEPT !.exists = TRUE]), Lacks(d, link \in behind),
         Becomes(p, [Idle EXCEPT !.pc = "copy1", !.cmd = c, !.ver = OldVersion, !.new = d, !.at = link]),
         UNCHANGED <<link, promised, refused>>
  PROVE  ContentInv'
  <1>1. PICK g : g = [dirs[d] EXCEPT !.exists = TRUE]
    OBVIOUS
  <1>2. g \in Directories /\ dirs[d] = EmptyDir
    <2>1. dirs[d] \in Directories
      BY DEF TypeInv
    <2>2. g \in Directories
      BY <1>1, <2>1 DEF Directories
    <2> QED
      BY <2>2, Unused
  <1>3. g.version = NoFile
    BY <1>1, <1>2, SMTT(60) DEF EmptyDir
  <1>4. PICK s : s = [Idle EXCEPT !.pc = "copy1", !.cmd = c, !.ver = OldVersion, !.new = d, !.at = link] /\ Becomes(p, s)
    OBVIOUS
  <1>5. /\ s.pc = "copy1" /\ s.cmd = c /\ s.new = d /\ s.lock = NoDir /\ s.doing = "none"
        /\ s.ver = OldVersion /\ s.at = link
    BY <1>4 DEF Idle
  <1>6. proc'[p] = s /\ dirs'[d] = g /\ \A e \in Dirs \ {d} : dirs'[e] = dirs[e]
    BY <1>1, <1>2, <1>4, StepOfOne, HoldsFacts
  <1>7. Cloner(s) /\ Making(s) /\ ~Maker(s) /\ s.pc \notin InstallPcs /\ s.pc \notin FinishPcs
    BY <1>5 DEF Maker, Making, Cloner, InitPcs, InstallPcs, FinishPcs
  <1>8. link \in Dirs \ {d} /\ dirs'[link] = dirs[link] /\ dirs[link].version = Holding(OldVersion) /\ dirs[link].exists
    <2>1. link \in Dirs /\ link # d
      BY Unused, LinkDir
    <2> QED
      BY <1>6, <2>1 DEF HasVersion, TypeInv
  <1>9. ClonerOK(s, g, dirs[link])
    BY <1>3, <1>5, <1>7, <1>8 DEF ClonerOK, CopyPcs
  <1>10. behind \subseteq behind' /\ (d \notin behind' => link \notin behind)
    BY DEF Lacks
  <1>11. ASSUME d \notin behind' PROVE Kept(dirs[link], promised, refused)
    BY <1>8, <1>10, <1>11 DEF ContentInv, Keeps, Settled, AllKept
  <1>12. ClonerInv(proc[p])'
    <2>1. d \notin behind' => ClonerKeeps(s, g, dirs[link], promised, refused)
      BY <1>5, <1>11 DEF ClonerKeeps, CopyPcs
    <2> QED
      BY <1>5, <1>6, <1>8, <1>9, <2>1 DEF ClonerInv
  <1>13. ProcInv(proc[p])' /\ \A e \in Dirs : ~Finishing(s, e)
    BY <1>5, <1>6, <1>7, <1>12 DEF ProcInv, MakerInv, HolderInv, InstallerInv, DoingInv, Finishing
  <1> QED
    BY <1>1, <1>2, <1>4, <1>5, <1>7, <1>10, <1>13, StartMaking


LEMMA MigrationRunContent ==
  ASSUME TypeInv, TypeInv', ContentInv, LockInv', NEW p \in Procs, NEW c \in {"migrate", "buildonly", "install"},
         MigrationRun(p, c)
  PROVE  ContentInv'
  <1>1. proc[p].pc = "idle" /\ link # NoDir /\ UNCHANGED <<link, promised, refused>>
    BY DEF MigrationRun
  <1>2. PICK v \in Versions, d \in Dirs :
           /\ HasVersion(link, v)
           /\ v # getTargetMigrationVersion
           /\ IF c = "install"
              THEN /\ dirs[d].exists /\ HasVersion(d, v + 1)
                   /\ Becomes(p, [Idle EXCEPT !.pc = "unlink", !.cmd = c, !.new = d])
                   /\ UNCHANGED <<dirs, behind>>
              ELSE /\ isVacant(d)
                   /\ Holds(d, [dirs[d] EXCEPT !.exists = TRUE])
                   /\ Lacks(d, link \in behind)
                   /\ Becomes(p, [Idle EXCEPT !.pc = "copy1", !.cmd = c, !.ver = v, !.new = d,
                                              !.at = link])
    BY DEF MigrationRun
  <1>3. v = OldVersion /\ v + 1 = Version
    BY <1>2, OldFirst
  <1>4. CASE c = "install"
    BY <1>1, <1>2, <1>3, <1>4, MigrationInstallContent
  <1>5. CASE c # "install"
    <2>1. ~dirs[d].exists
      BY <1>2, <1>5, SMTT(60) DEF isVacant, Dirs
    <2>2. c \in {"migrate", "buildonly"}
      BY <1>5
    <2> QED
      BY <1>1, <1>2, <1>3, <1>5, <2>1, <2>2, MigrationCloneContent
  <1> QED
    BY <1>4, <1>5


-----------------------------------------------------------------------------
(* The theorems *)

\* What an init of a release leaves behind.
LEMMA InitialisedOK ==
  ASSUME NEW v \in Versions, NEW g, g = Initialised(v), NEW pr, pr = [NothingYet EXCEPT !.keys = {1}]
  PROVE  DirOK(g) /\ LinkedOK(g) /\ AllKept(g, pr, {})
  <1>1. PICK c : c = [EmptyChain EXCEPT !.genesis = TRUE, !.meta[0] = Written(v), !.headAs = HeadWritten(v)]
    OBVIOUS
  <1>2. c.head = 0 /\ c.headAs = HeadWritten(v) /\ c.meta[0] = Written(v)
    <2>1. 0 \in 0 .. MaxHeight
      BY RepositoryAssumption, SMTT(60)
    <2> QED
      BY <1>1, <2>1, SMTT(60) DEF EmptyChain
  <1>3. PICK cfg : cfg = [NewDefaultConfig EXCEPT !.default = 1]
    OBVIOUS
  <1>4. cfg.default = 1 /\ cfg.set = [s \in Settings |-> 0]
    BY <1>3, SMTT(60) DEF NewDefaultConfig
  <1>5. g.version = Holding(v) /\ g.config = Holding(cfg) /\ g.tmp = NoFile /\ g.wallet = {1} /\ g.chain = c
    BY <1>1, <1>3, SMTT(60) DEF Initialised, EmptyDir
  <1>6. pr.keys = {1} /\ pr.set = [s \in Settings |-> 0] /\ pr.height = 0
    BY SMTT(60) DEF NothingYet
  <1>7. \A h \in 0 .. c.head : h = 0
    BY <1>2, SMTT(60)
  <1>8. /\ v = OldVersion => c.headAs = "json" /\ c.meta[0] = "json"
        /\ v = Version => c.headAs = "root" /\ c.meta[0] = "rootAndReceipts"
    BY <1>2, SMTT(60) DEF HeadWritten, Written, OldVersion, Version
  <1>9. (v = OldVersion => GoodOld(c)) /\ (v = Version => GoodNew(c))
    BY <1>7, <1>8 DEF GoodOld, GoodNew, Good
  <1>10. v \in {OldVersion, Version} /\ (Holding(v) = Holding(Version) => v = Version) /\ Holding(v) # NoFile
    BY SMTT(60) DEF Versions, Holding, NoFile
  <1>11. KeyHeld(g.config, g.wallet) /\ KeyHeld(g.tmp, g.wallet)
    BY <1>4, <1>5, SMTT(60) DEF KeyHeld, Holding, NoFile
  <1>12. DirOK(g)
    BY <1>2, <1>5, <1>9, <1>10, <1>11 DEF DirOK
  <1>13. LinkedOK(g)
    BY <1>5, <1>9, <1>10 DEF LinkedOK
  <1>14. ReadConfig(g.config).set = pr.set /\ g.config # NoFile
    <2>1. g.config.is = cfg /\ g.config # Truncated /\ g.config # NoFile
      BY <1>5, SMTT(60) DEF Holding, Truncated, NoFile
    <2> QED
      BY <1>4, <1>6, <2>1 DEF ReadConfig
  <1>15. pr.height <= g.chain.head
    BY <1>2, <1>5, <1>6, SMTT(60)
  <1> QED
    BY <1>5, <1>6, <1>12, <1>13, <1>14, <1>15 DEF AllKept, Kept, FileKept, SetKept

LEMMA ContentInit == Init => ContentIInv
  <1> SUFFICES ASSUME Init
               PROVE  TypeInv /\ ContentInv
    BY DEF ContentIInv
  <1>1. TypeInv /\ LockInv
    BY TypeInit, LockInit
  <1>2. \A p \in Procs : proc[p] = Idle
    BY DEF Init
  <1>3. /\ ~Maker(Idle) /\ ~Cloner(Idle) /\ Idle.lock = NoDir /\ Idle.pc \notin InstallPcs /\ Idle.doing = "none"
        /\ \A d \in Dirs : ~Finishing(Idle, d)
    BY SMTT(60) DEF Idle, Maker, Cloner, InitPcs, InstallPcs, Finishing
  <1>4. ApartInv /\ \A p \in Procs : ProcInv(proc[p])
    BY <1>2, <1>3 DEF ApartInv, Making, ProcInv, MakerInv, ClonerInv, HolderInv, InstallerInv, DoingInv
  <1>5. link # NoDir => link \in Dirs /\ left.from \in Versions
    <2>1. link # NoDir => left.from # 0 /\ link \in Dirs
      BY <1>1, LinkDir DEF Init
    <2> QED
      BY <2>1, RepositoryAssumption DEF Init
  <1>6. ASSUME NEW d \in Dirs, d = link
        PROVE  DirOK(dirs[d]) /\ LinkedOK(dirs[d]) /\ AllKept(dirs[d], promised, refused)
    <2>1. d # NoDir
      BY SMTT(60) DEF Dirs, NoDir
    <2>2. left.from \in Versions /\ left.from # 0
      BY <1>5, <1>6, <2>1 DEF Init
    <2>3. dirs[d] = Initialised(left.from) /\ promised = [NothingYet EXCEPT !.keys = {1}] /\ refused = {}
      BY <1>6, <2>2 DEF Init
    <2> QED
      BY <2>2, <2>3, InitialisedOK
  <1>7. ASSUME NEW d \in Dirs, d # link
        PROVE  DirOK(dirs[d]) /\ ~dirs[d].exists
    <2>1. dirs[d] = EmptyDir
      BY <1>7 DEF Init
    <2>2. /\ EmptyDir.version = NoFile /\ EmptyDir.chain.head = 0 /\ ~EmptyDir.exists
          /\ NoFile # Holding(Version)
      BY SMTT(60) DEF EmptyDir, EmptyChain, NoFile, Holding
    <2> QED
      BY <2>1, <2>2 DEF DirOK
  <1>8. \A d \in Dirs : DirOK(dirs[d]) /\ Keeps(d)
    BY <1>6, <1>7 DEF Keeps
  <1> QED
    BY <1>1, <1>4, <1>5, <1>6, <1>8 DEF ContentInv

LEMMA ContentSame ==
  ASSUME ContentIInv, TypeInv', UNCHANGED vars
  PROVE  ContentIInv'
  <1> SUFFICES ASSUME ContentInv, ~raced'
               PROVE  ContentInv'
    BY DEF ContentIInv, vars
  <1>1. UNCHANGED <<link, dirs, proc, promised, refused, behind>>
    BY DEF vars
  <1>2. LockInv' /\ ApartInv'
    BY <1>1 DEF ContentInv, LockInv, LocksTheLink, ApartInv, Apart, Making, Maker, Cloner
  <1>3. \A d \in Dirs : DirOK(dirs'[d]) /\ Keeps(d)'
    BY <1>1 DEF ContentInv, Keeps, Settled, Finishing, Cloner
  <1>4. \A p \in Procs : ProcInv(proc[p])'
    BY <1>1 DEF ContentInv, ProcInv, MakerInv, ClonerInv, HolderInv, InstallerInv, DoingInv, Maker, Cloner
  <1> QED
    BY <1>1, <1>2, <1>3, <1>4 DEF ContentInv

LEMMA ContentStep == ContentIInv /\ [Next]_vars => ContentIInv'
  <1> SUFFICES ASSUME ContentIInv, [Next]_vars
               PROVE  ContentIInv'
    OBVIOUS
  <1>1. TypeInv /\ TypeInv'
    BY TypeStep DEF ContentIInv
  <1>2. CASE UNCHANGED vars
    BY <1>1, <1>2, ContentSame
  <1>3. CASE Next
    <2> SUFFICES ASSUME ~raced'
                 PROVE  ContentInv'
      BY <1>1 DEF ContentIInv
    <2>1. ContentInv
      BY <1>1, <1>3, RacedStays DEF ContentIInv
    <2>2. LockInv'
      BY <1>1, <2>1, LockStep DEF ContentInv, LockIInv
    <2>3. PICK p \in Procs :
             \/ \E v \in left.versions : InitFSRepo(p, v) \/ Daemon(p, v)
             \/ \E cmd \in {"migrate", "buildonly", "install"} : MigrationRun(p, cmd)
             \/ \E s \in Settings, known \in BOOLEAN : ConfigSet(p, s, known)
             \/ Open(p) \/ WriteVersion(p) \/ initConfig(p) \/ InitSymlink(p)
             \/ InitChain(p) \/ initDefaultKey(p) \/ ReplaceConfig(p)
             \/ StartNode(p) \/ SetAPIAddr(p)
             \/ NewAddress(p) \/ PutTipSetMetadata(p) \/ SetHead(p) \/ Close(p) \/ Kill(p)
             \/ CloneRepo(p) \/ Migrate(p) \/ convertJSONtoCBOR(p) \/ writeHeadAsCBOR(p)
             \/ Validate(p) \/ InstallNewRepo(p)
      BY <1>3 DEF Next
    <2>4. CASE Open(p)
      <3>1. proc[p].pc \in {"open", "loadVersion", "openStores"}
        BY <2>4 DEF Open
      <3> QED
        BY <1>1, <2>1, <2>2, <2>4, <3>1, OpenContent, LoadContent, OpenStoresContent
    <2>5. CASE WriteVersion(p)
      BY <1>1, <2>1, <2>2, <2>5, MakeVersionContent, FinishContent
    <2>6. CASE \/ \E v \in left.versions : InitFSRepo(p, v) \/ Daemon(p, v)
               \/ \E cmd \in {"migrate", "buildonly", "install"} : MigrationRun(p, cmd)
               \/ \E s \in Settings, known \in BOOLEAN : ConfigSet(p, s, known)
      BY <1>1, <2>1, <2>2, <2>6, InitFSRepoContent, DaemonContent, MigrationRunContent, ConfigSetContent
    <2>7. CASE \/ initConfig(p) \/ InitSymlink(p) \/ InitChain(p) \/ initDefaultKey(p) \/ ReplaceConfig(p)
               \/ StartNode(p) \/ SetAPIAddr(p)
      BY <1>1, <2>1, <2>2, <2>7, InitConfigContent, SymlinkContent, InitChainContent, DefaultKeyContent,
         ReplaceConfigContent, StartNodeContent, SetAPIAddrContent
    <2>8. CASE NewAddress(p) \/ PutTipSetMetadata(p) \/ SetHead(p) \/ Close(p) \/ Kill(p)
      BY <1>1, <2>1, <2>2, <2>8, NewAddressContent, PutMetadataContent, SetHeadContent, CloseContent, KillContent
    <2>9. CASE \/ CloneRepo(p) \/ Migrate(p) \/ convertJSONtoCBOR(p) \/ writeHeadAsCBOR(p)
               \/ Validate(p) \/ InstallNewRepo(p)
      BY <1>1, <2>1, <2>2, <2>9, CloneContent, MigrateContent, ConvertContent, WriteHeadContent,
         ValidateContent, InstallContent
    <2> QED
      BY <2>3, <2>4, <2>5, <2>6, <2>7, <2>8, <2>9
  <1> QED
    BY <1>2, <1>3


\* The repository behind the link is whole wherever an init, a daemon or a
\* migration is killed, for any number of them: its version file is complete, the
\* chain store from the head to the genesis is in an encoding of that version
\* (convertJSONtoCBOR and writeHeadAsCBOR have converted all of a clone before
\* InstallNewRepo links it), and the default address that the config file names
\* has its key in the wallet (node.Init stores the key first).
THEOREM InstalledRepositoryWhole == Spec => []InstalledIsWhole
  <1>1. ContentIInv => InstalledIsWhole
    <2> SUFFICES ASSUME ContentIInv
                 PROVE  InstalledIsWhole
      OBVIOUS
    <2>1. TypeOK
      BY DEF ContentIInv, TypeInv, TypeOK, MaybeDir, Directories, Chains, Exists
    <2>2. ASSUME link # NoDir, ~raced
          PROVE  DirOK(dirs[link]) /\ LinkedOK(dirs[link])
      BY <2>2, LinkDir DEF ContentIInv, ContentInv
    <2>3. NoFile # Holding(OldVersion) /\ NoFile # Holding(Version) /\ Holding(OldVersion) # Holding(Version)
      BY SMTT(60) DEF NoFile, Holding, OldVersion, Version
    <2>4. InstalledIsMigrated
      BY <2>2, <2>3 DEF InstalledIsMigrated, DirOK, LinkedOK, GoodOld, GoodNew, Good
    <2>5. DefaultKeyHeld
      BY <2>2, <2>3 DEF DefaultKeyHeld, DirOK, LinkedOK, KeyHeld
    <2> QED
      BY <2>1, <2>4, <2>5 DEF InstalledIsWhole
  <1> QED
    BY <1>1, ContentInit, ContentStep, PTL DEF Spec

\* A key, a setting or a head that was reported as stored is in the repository
\* behind the link from then on, through kills at every point of init, of
\* ReplaceConfig and of a migration, and through the migration itself, for any
\* number of processes; unless the link was replaced under a running process or
\* the directory was cloned before the report.
THEOREM ReportedSurvives == Spec => []AcknowledgedSurvives
  <1>1. ContentIInv => AcknowledgedSurvives
    <2> SUFFICES ASSUME ContentIInv, link # NoDir, ~raced, link \notin behind, promised # NothingYet
                 PROVE  /\ promised.keys \subseteq dirs[link].wallet
                        /\ promised.height <= dirs[link].chain.head
                        /\ dirs[link].config # NoFile
                        /\ \A s \in Settings : ReadConfig(dirs[link].config).set[s] # promised.set[s] => s \in refused
      BY DEF AcknowledgedSurvives
    <2>1. TypeInv /\ ContentInv
      BY DEF ContentIInv
    <2>2. link \in Dirs /\ dirs[link].exists
      BY <2>1, LinkDir DEF TypeInv
    <2>3. AllKept(dirs[link], promised, refused)
      BY <2>1, <2>2 DEF ContentInv, Keeps, Settled
    <2> QED
      BY <2>3 DEF AllKept, Kept, FileKept, SetKept
  <1> QED
    BY <1>1, ContentInit, ContentStep, PTL DEF Spec

=============================================================================
