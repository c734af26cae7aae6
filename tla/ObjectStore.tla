---------------------------- MODULE ObjectStore ----------------------------
(***************************************************************************)
(* The content-addressed store (store/object.rs, store/refs.rs): put and   *)
(* set_ref, file operation by file operation, with processes killed and    *)
(* power failing between any two.                                          *)
(*                                                                         *)
(* An object's bytes are abstracted to its id: a file that holds the bytes *)
(* of object i has data i.  A file is what a directory entry links to; two *)
(* processes that open one path share the file.  One ref stands for all.   *)
(*                                                                         *)
(* What a power failure leaves: bytes of a file are certain once the file  *)
(* was fsynced, a directory entry once its directory was, and with them    *)
(* the directory itself, whose parent nobody fsyncs, only once it has      *)
(* outlived an earlier power failure.  (The parents of the directories here*)
(* are as uncertain; to lose one is to lose every uncertain directory.)    *)
(***************************************************************************)
EXTENDS Naturals, FiniteSets

CONSTANTS
  Ids,        (* Content ids.                                              *)
  Dirs,       (* Directories: objects/blake3/<2-hex> of the ids, refs/.    *)
  DirOf,      (* The directory of an id and of the ref.                    *)
  Procs,      (* Processes with the store open.                            *)
  Files,      (* Inodes; a new file takes the lowest free one.             *)
  MaxTmp,     (* Bound: temporary files a process makes.                   *)
  MaxKills,   (* Bound: processes killed.                                  *)
  MaxFailures,(* Bound: power failures.                                    *)
  Ref, RefTmp,  (* The paths of the ref and of its temporary file.           *)
  Empty, Torn, NoFile

ASSUME ContentsAssumption ==
  /\ {Empty, Torn, "none", "malformed"} \cap Ids = {} /\ Empty # Torn
  /\ NoFile \notin Ids \cup Files \cup {Ref, RefTmp}
  /\ Ref \notin Ids \cup Nat /\ RefTmp \notin Ids \cup Nat \cup {Ref}
  /\ Ids \cap Nat = {} /\ Files \subseteq Nat
ASSUME DirsAssumption == DirOf \in [Ids \cup {Ref} -> Dirs]
ASSUME BoundsAssumption ==
  MaxTmp \in Nat /\ MaxKills \in Nat /\ MaxFailures \in Nat

VARIABLES
  link,     (* The file each path leads to.                                *)
  lasting,  (* The same, as a power failure would leave it.                *)
  file,     (* The contents of each file, and whether they are on disk.    *)
  dir,      (* Each directory: none, made, or certain to outlive the power.*)
  seq,      (* TMP_SEQ of each process.                                    *)
  at,       (* The next step of each process's put or set_ref.             *)
  job,      (* What it is writing.                                         *)
  got,      (* The id its last put returned.                               *)
  kills, failures,
  kept      (* History: objects that have outlived a power failure, or been*)
            (* put, with the fsyncs that takes, into a directory that had. *)

disk  == <<link, lasting, file, dir>>
procs == <<seq, at, job, got>>
storeVars == <<disk, procs, kills, failures, kept>>

TmpPaths == 0..MaxTmp
Finals   == Ids \cup {Ref}
Paths    == TmpPaths \cup {RefTmp} \cup Finals

Contents == Ids \cup {Empty, Torn}
Steps    == {"idle", "create", "write", "sync", "rename", "dir", "failed"}

Idle(p) == at[p] = "idle"

Objects == {i \in Ids : link[i] # NoFile}

(* A file no path leads to and no process has open. *)
Unused == {f \in Files : /\ \A q \in Paths : link[q] # f
                         /\ \A q \in Finals : lasting[q] # f
                         /\ \A p \in Procs : job[p].file # f}

Fresh == {f \in Unused : \A g \in Unused : f <= g}

Go(p, step) == at' = [at EXCEPT ![p] = step]

(* create_dir_all. *)
Made(d) == [dir EXCEPT ![d] = IF @ = "none" THEN "made" ELSE @]

NoJob == [final |-> NoFile, tmp |-> NoFile, data |-> Empty, file |-> NoFile]

-----------------------------------------------------------------------------
(* put and set_ref. *)

(* The temporary path of a put: a counter of the process, one value a call.*)
TmpPath(p) == seq[p]

(* put: the object is not there yet; its directory may be new.             *)
BeginPut(p, i) ==
  /\ Idle(p) /\ link[i] = NoFile /\ seq[p] <= MaxTmp
  /\ Go(p, "create")
  /\ dir' = Made(DirOf[i])
  /\ job' = [job EXCEPT ![p] = [final |-> i, tmp |-> TmpPath(p), data |-> i,
                                file |-> NoFile]]
  /\ seq' = [seq EXCEPT ![p] = @ + 1]
  /\ got' = [got EXCEPT ![p] = NoFile]
  /\ UNCHANGED <<link, lasting, file, kills, failures, kept>>

(* put: the object is there: nothing to do, unless its bytes differ        *)
(* (IdCollision: the process gives up).                                    *)
PutAgain(p, i) ==
  /\ Idle(p) /\ link[i] # NoFile
  /\ IF file[link[i]].data = i
       THEN got' = [got EXCEPT ![p] = i] /\ at' = at
       ELSE Go(p, "failed") /\ got' = got
  /\ UNCHANGED <<disk, seq, job, kills, failures, kept>>

(* set_ref, to an object the process has just put. *)
BeginSetRef(p) ==
  /\ Idle(p) /\ got[p] # NoFile
  /\ Go(p, "create")
  /\ dir' = Made(DirOf[Ref])
  /\ job' = [job EXCEPT ![p] = [final |-> Ref, tmp |-> RefTmp,
                                data |-> got[p], file |-> NoFile]]
  /\ got' = [got EXCEPT ![p] = NoFile]
  /\ UNCHANGED <<link, lasting, file, seq, kills, failures, kept>>

(* Slip: what the file held stays. *)
OpenedToAppend(f) == file[f]
Opened(f) == [data |-> Empty, synced |-> FALSE]

(* File::create: a new file, or the one the path leads to, truncated.      *)
Create(p) ==
  /\ at[p] = "create"
  /\ \E f \in IF link[job[p].tmp] # NoFile THEN {link[job[p].tmp]} ELSE Fresh :
       /\ link' = [link EXCEPT ![job[p].tmp] = f]
       /\ file' = [file EXCEPT ![f] = Opened(f)]
       /\ job' = [job EXCEPT ![p].file = f]
  /\ Go(p, "write")
  /\ UNCHANGED <<lasting, dir, seq, got, kills, failures, kept>>

(* What a file that holds old may hold once new was written over it: two   *)
(* writers of different bytes may leave a mix.                             *)
Mix(old, new) == IF old \in {Empty, new} THEN {new} ELSE {new, Torn}

Written(f, new) ==
  \E d \in Mix(file[f].data, new) :
    file' = [file EXCEPT ![f] = [data |-> d, synced |-> FALSE]]

Write(p) ==
  /\ at[p] = "write"
  /\ Written(job[p].file, job[p].data)
  /\ Go(p, "sync")
  /\ UNCHANGED <<link, lasting, dir, seq, job, got, kills, failures, kept>>

Synced(p)   == [file EXCEPT ![job[p].file].synced = TRUE]

Sync(p) ==
  /\ at[p] = "sync"
  /\ file' = Synced(p)
  /\ Go(p, "rename")
  /\ UNCHANGED <<link, lasting, dir, seq, job, got, kills, failures, kept>>

(* rename moves whatever the temporary path leads to by now; it fails when *)
(* another process has moved it away.                                      *)
Rename(p) ==
  /\ at[p] = "rename"
  /\ IF link[job[p].tmp] = NoFile
       THEN Go(p, "failed") /\ link' = link
       ELSE /\ Go(p, "dir")
            /\ link' = [link EXCEPT ![job[p].final] = link[job[p].tmp],
                                    ![job[p].tmp] = NoFile]
  /\ UNCHANGED <<lasting, file, dir, seq, job, got, kills, failures, kept>>

(* Slip: the directory is not fsynced. *)
DirUnsynced(p) == lasting
DirSynced(p)   == [q \in Finals |-> IF DirOf[q] = DirOf[job[p].final] THEN link[q]
                                                                ELSE lasting[q]]

(* The directory is fsynced, best effort: the call returns whether or not  *)
(* that worked.  What was put is certain only if it worked, in a directory *)
(* that is.                                                                *)
SyncDir(p) ==
  /\ at[p] = "dir"
  /\ \E worked \in BOOLEAN :
       /\ lasting' = IF worked THEN DirSynced(p) ELSE lasting
       /\ kept' = IF /\ worked /\ job[p].final \in Ids
                     /\ dir[DirOf[job[p].final]] = "lasting"
                    THEN kept \cup {job[p].final} ELSE kept
  /\ got' = IF job[p].final \in Ids THEN [got EXCEPT ![p] = job[p].final] ELSE got
  /\ job' = [job EXCEPT ![p] = NoJob]
  /\ Go(p, "idle")
  /\ UNCHANGED <<link, file, dir, seq, kills, failures>>

-----------------------------------------------------------------------------
(* fsck.  It walks objects/ and refs/; temporary files are in neither list. *)

(* Objects whose bytes hash to something else (the I13 errors). *)
ObjectErrors == {i \in Objects : file[link[i]].data # i}

(* get_ref: the id in the ref; no ref; or not the hex of an id. *)
RefTarget ==
  IF link[Ref] = NoFile THEN "none"
  ELSE IF file[link[Ref]].data \in Ids THEN file[link[Ref]].data
  ELSE "malformed"

(* The ref cannot be read, or names an object that get would not serve. *)
DanglingRef ==
  RefTarget # "none" /\ RefTarget \notin Objects \ ObjectErrors

FsckFails == ObjectErrors # {} \/ DanglingRef

-----------------------------------------------------------------------------
(* The environment. *)

(* A process is killed, in the middle of a write perhaps, and started anew.*)
Kill(p) ==
  /\ kills < MaxKills /\ kills' = kills + 1
  /\ \/ file' = file
     \/ at[p] = "write" /\ Written(job[p].file, Torn)
  /\ Go(p, "idle")
  /\ job' = [job EXCEPT ![p] = NoJob]
  /\ seq' = [seq EXCEPT ![p] = 0]
  /\ got' = [got EXCEPT ![p] = NoFile]
  /\ UNCHANGED <<link, lasting, dir, failures, kept>>

(* Directories, entries and bytes that were not on disk yet may be lost,   *)
(* with a directory all that is in it; what is left is on disk.            *)
PowerFails ==
  /\ failures < MaxFailures /\ failures' = failures + 1
  /\ \E gone \in SUBSET {d \in Dirs : dir[d] = "made"},
       lost \in SUBSET {q \in Finals : link[q] # lasting[q]} :
       /\ dir' = [d \in Dirs |-> IF d \in gone \/ dir[d] = "none" THEN "none"
                                                                ELSE "lasting"]
       /\ link' = [q \in Paths |-> IF q \notin Finals \/ DirOf[q] \in gone THEN NoFile
                                   ELSE IF q \in lost THEN lasting[q] ELSE link[q]]
       /\ lasting' = [q \in Finals |-> link'[q]]
  /\ \E left \in [{f \in Files : ~file[f].synced} -> {"all", Empty, Torn}] :
       file' = [f \in Files |->
                 [data |-> IF file[f].synced \/ left[f] = "all" THEN file[f].data
                                                               ELSE left[f],
                  synced |-> TRUE]]
  /\ at' = [p \in Procs |-> "idle"] /\ job' = [p \in Procs |-> NoJob]
  /\ seq' = [p \in Procs |-> 0] /\ got' = [p \in Procs |-> NoFile]
  /\ kept' = {i \in Ids : link'[i] # NoFile}
  /\ UNCHANGED kills

-----------------------------------------------------------------------------
(* An empty store; some of its directories have been there for long.       *)
StoreInit ==
  /\ dir \in [Dirs -> {"none", "lasting"}]
  /\ link = [q \in Paths |-> NoFile] /\ lasting = [q \in Finals |-> NoFile]
  /\ file = [f \in Files |-> [data |-> Empty, synced |-> TRUE]]
  /\ seq = [p \in Procs |-> 0] /\ at = [p \in Procs |-> "idle"]
  /\ job = [p \in Procs |-> NoJob] /\ got = [p \in Procs |-> NoFile]
  /\ kills = 0 /\ failures = 0 /\ kept = {}

(* Every process has given up, or is idle at its bound. *)
Rest ==
  /\ \A p \in Procs : (at[p] = "failed") \/ (Idle(p) /\ seq[p] > MaxTmp)
  /\ UNCHANGED storeVars

Call(p) ==
  \/ \E i \in Ids : BeginPut(p, i)
  \/ \E i \in Ids : PutAgain(p, i)
  \/ BeginSetRef(p)
  \/ Create(p)
  \/ Write(p)
  \/ Sync(p)
  \/ Rename(p)
  \/ SyncDir(p)

StoreNext ==
  \/ \E p \in Procs : Call(p)
  \/ \E p \in Procs : Kill(p)
  \/ PowerFails
  \/ Rest

StoreSpec == StoreInit /\ [][StoreNext]_storeVars

-----------------------------------------------------------------------------
(* What must hold. *)

StoreTypeOK ==
  /\ link \in [Paths -> Files \cup {NoFile}]
  /\ lasting \in [Finals -> Files \cup {NoFile}]
  /\ file \in [Files -> [data : Contents, synced : BOOLEAN]]
  /\ dir \in [Dirs -> {"none", "made", "lasting"}]
  /\ seq \in [Procs -> 0..(MaxTmp + 1)]
  /\ at \in [Procs -> Steps]
  /\ job \in [Procs -> [final : Finals \cup {NoFile},
                        tmp : TmpPaths \cup {RefTmp, NoFile},
                        data : Ids \cup {Empty}, file : Files \cup {NoFile}]]
  /\ got \in [Procs -> Ids \cup {NoFile}]
  /\ kills \in 0..MaxKills /\ failures \in 0..MaxFailures
  /\ kept \subseteq Ids

(* I13 and fsck's verdict: what stands under an id hashes to it, whatever   *)
(* was killed or lost when, and a ref holds an id, so that no reader is    *)
(* ever served a torn file.  Kills leave nothing for fsck to report; after *)
(* a power failure it may find a ref whose object is gone.                 *)
FsckPasses ==
  /\ ObjectErrors = {}
  /\ RefTarget # "malformed"
  /\ failures = 0 => ~FsckFails

(* The store implements its abstract promise: objects are removed by power *)
(* failures only, and only such as came after the last one, into a         *)
(* directory made since or with an fsync that failed.  What has outlived a *)
(* power failure, or was put with every fsync into a directory that had,   *)
(* is never removed.                                                       *)
Promise == INSTANCE DurableStore WITH stored <- Objects
ImplementsDurableStore == Promise!Spec

=============================================================================
