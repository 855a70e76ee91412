-------------------------------- MODULE StateFile --------------------------------
(***************************************************************************)
(* state.json on the file system: what StateStore._flush does step by step *)
(* (open the .tmp, write, fsync, os.replace), with processes killed and    *)
(* the power lost in between.  Module StateStore takes a flush for one     *)
(* step that happens or raises; here is why it may.                        *)
(*                                                                         *)
(* An inode has contents in the page cache and contents that survive a     *)
(* power loss, the directory likewise; the kernel writes either back when  *)
(* it likes.  A file's contents are the titles it assigns, or Torn: empty  *)
(* or cut off, which json does not parse.                                  *)
(*                                                                         *)
(* Nothing keeps two processes from holding the store at once: a process   *)
(* reads the file when it opens the store and never again, and all of them *)
(* write the same .tmp.                                                    *)
(***************************************************************************)
EXTENDS Naturals

CONSTANTS
    Writers,      \* processes that open the store: the bridge and the tools
    Entries,      \* titles with their records
    Inodes,       \* bound: inodes of the file system
    None          \* no inode; and no entry

Names == {"state.json", "state.json.tmp"}

Torn     == {None}
Contents == (SUBSET Entries) \cup {Torn}

ASSUME FileAssumption == None \notin Inodes /\ None \notin Entries

VARIABLES
    dir,       \* name -> inode, None if there is no such file
    cache,     \* inode -> contents as processes read them
    safeDir,   \* the directory as it is on the medium
    safe,      \* inode -> contents on the medium
    pc,        \* writer -> out, idle, or the line of _flush it is at
    memory,    \* writer -> its dictionaries, as of its last good flush
    staged,    \* writer -> the dictionaries its flush writes
    fd,        \* writer -> the inode it has open
    missed,    \* history: writer -> entries that others have written to the
               \* file since it read it
    overlapped \* history: two flushes have been at the .tmp at once

fsVars     == <<dir, cache, safeDir, safe>>
writerVars == <<pc, memory, staged, fd>>
historyVars == <<missed, overlapped>>
vars == <<fsVars, writerVars, historyVars>>

\* What a process finds in the file.
Absent(d) == d["state.json"] = None

Seen(d, c) == IF Absent(d) THEN {} ELSE c[d["state.json"]]

Visible == Seen(dir, cache)

\* _load: what does not parse counts as empty.
Loaded == IF Visible = Torn THEN {} ELSE Visible

-------------------------------------------------------------------------------
\* A process opens the store, whoever else holds it.
OpenStore(w) ==
    /\ pc[w] = "out"
    /\ pc' = [pc EXCEPT ![w] = "idle"]
    /\ memory' = [memory EXCEPT ![w] = Loaded]
    /\ missed' = [missed EXCEPT ![w] = {}]
    /\ UNCHANGED <<fsVars, staged, fd, overlapped>>

\* Any method that changes the dictionaries and calls _flush: a new title, or
\* another record for one that is there.
Stage(w) ==
    /\ pc[w] = "idle"
    /\ \E e \in Entries :
          staged' = [staged EXCEPT ![w] = memory[w] \cup {e}]
    /\ pc' = [pc EXCEPT ![w] = "open"]
    /\ UNCHANGED <<fsVars, memory, fd, historyVars>>

Target == "state.json.tmp"

\* The processes that are at work on the .tmp.
AtTmp == {w \in Writers : pc[w] \in {"write", "fsync", "replace"}}

\* open("w"): an empty file, new or cut to nothing.
Unlinked == {i \in Inodes : \A n \in Names : dir[n] # i /\ safeDir[n] # i}
            \ {fd[w] : w \in Writers}

OpenTmp(w) ==
    /\ pc[w] = "open"
    /\ \E i \in IF dir[Target] = None THEN Unlinked ELSE {dir[Target]} :
          /\ dir' = [dir EXCEPT ![Target] = i]
          /\ cache' = [cache EXCEPT ![i] = Torn]
          /\ safe' = IF dir[Target] = None THEN [safe EXCEPT ![i] = Torn] ELSE safe
          /\ fd' = [fd EXCEPT ![w] = i]
    /\ pc' = [pc EXCEPT ![w] = "write"]
    /\ overlapped' = (overlapped \/ AtTmp # {})
    /\ UNCHANGED <<safeDir, memory, staged, missed>>

\* Over what another writer put there, the longer text shows at the end.
WriteTmp(w) ==
    /\ pc[w] = "write"
    /\ \E c \in {staged[w]} \cup (IF cache[fd[w]] = Torn THEN {} ELSE {Torn}) :
          cache' = [cache EXCEPT ![fd[w]] = c]
    /\ pc' = [pc EXCEPT ![w] = "fsync"]
    /\ UNCHANGED <<dir, safeDir, safe, memory, staged, fd, historyVars>>

\* Mutant: no fsync.
NotSynced(w) == safe

Synced(w) == [safe EXCEPT ![fd[w]] = cache[fd[w]]]

FsyncTmp(w) ==
    /\ pc[w] = "fsync"
    /\ safe' = Synced(w)
    /\ pc' = [pc EXCEPT ![w] = "replace"]
    /\ UNCHANGED <<dir, cache, safeDir, memory, staged, fd, historyVars>>

RenamedTo(d, n) == [d EXCEPT !["state.json"] = d[n], ![n] = None]

Replace(w) ==
    /\ pc[w] = "replace"
    /\ dir["state.json.tmp"] # None
    /\ dir' = RenamedTo(dir, "state.json.tmp")
    /\ pc' = [pc EXCEPT ![w] = "idle"]
    /\ memory' = [memory EXCEPT ![w] = staged[w]]
    /\ fd' = [fd EXCEPT ![w] = None]
    /\ missed' = [v \in Writers |-> IF v = w THEN {}
                                    ELSE missed[v] \cup (staged[w] \ memory[v])]
    /\ staged' = [staged EXCEPT ![w] = {}]
    /\ UNCHANGED <<cache, safeDir, safe, overlapped>>

\* OSError anywhere in _flush: the caller puts its dictionaries back.

\* Mutant: it keeps what it staged.
AfterErrorStaged(w) == staged[w]

\* Mutant: it is left with nothing.
AfterErrorNothing(w) == {}

AfterError(w) == memory[w]

FlushFails(w) ==
    /\ pc[w] \notin {"out", "idle"}
    /\ pc' = [pc EXCEPT ![w] = "idle"]
    /\ memory' = [memory EXCEPT ![w] = AfterError(w)]
    /\ fd' = [fd EXCEPT ![w] = None]
    /\ staged' = [staged EXCEPT ![w] = {}]
    /\ UNCHANGED <<fsVars, historyVars>>

-------------------------------------------------------------------------------
\* The end of a process, by itself or by a kill, at any line.
Leave(w) ==
    /\ pc[w] # "out"
    /\ pc' = [pc EXCEPT ![w] = "out"]
    /\ fd' = [fd EXCEPT ![w] = None]
    /\ memory' = [memory EXCEPT ![w] = {}]
    /\ staged' = [staged EXCEPT ![w] = {}]
    /\ missed' = [missed EXCEPT ![w] = {}]
    /\ UNCHANGED <<fsVars, overlapped>>

\* The kernel writes an inode, or the directory, back.
WriteBack(i) ==
    /\ safe' = [safe EXCEPT ![i] = cache[i]]
    /\ UNCHANGED <<dir, cache, safeDir, writerVars, historyVars>>

Journal ==
    /\ safeDir' = dir
    /\ UNCHANGED <<dir, cache, safe, writerVars, historyVars>>

\* The directory may go back to an earlier rename: a flush returns before its
\* own is on the medium.
PowerLoss ==
    /\ dir' = safeDir
    /\ cache' = safe
    /\ pc' = [w \in Writers |-> "out"]
    /\ memory' = [w \in Writers |-> {}]
    /\ staged' = [w \in Writers |-> {}]
    /\ fd' = [w \in Writers |-> None]
    /\ missed' = [w \in Writers |-> {}]
    /\ UNCHANGED <<safeDir, safe, overlapped>>

-------------------------------------------------------------------------------
Init ==
    /\ \/ dir = [n \in Names |-> None]
       \/ \E i \in Inodes :
             dir = [n \in Names |-> IF n = "state.json" THEN i ELSE None]
    /\ safeDir = dir
    /\ \E c \in SUBSET Entries : cache = [i \in Inodes |-> c]
    /\ safe = cache
    /\ pc = [w \in Writers |-> "out"]
    /\ memory = [w \in Writers |-> {}]
    /\ staged = [w \in Writers |-> {}]
    /\ fd = [w \in Writers |-> None]
    /\ missed = [w \in Writers |-> {}]
    /\ overlapped = FALSE

FlushStep(w) ==
    OpenTmp(w) \/ WriteTmp(w) \/ FsyncTmp(w) \/ Replace(w) \/ FlushFails(w)

Kernel == (\E i \in Inodes : WriteBack(i)) \/ Journal \/ PowerLoss

Next ==
    \/ \E w \in Writers : OpenStore(w) \/ Stage(w) \/ FlushStep(w) \/ Leave(w)
    \/ Kernel

Spec == Init /\ [][Next]_vars

-------------------------------------------------------------------------------
FileTypeOK ==
    /\ dir \in [Names -> Inodes \cup {None}]
    /\ safeDir \in [Names -> Inodes \cup {None}]
    /\ dir["state.json"] # None => dir["state.json"] # dir["state.json.tmp"]
    /\ cache \in [Inodes -> Contents]
    /\ safe \in [Inodes -> Contents]
    /\ pc \in [Writers -> {"out", "idle", "open", "write", "fsync", "replace"}]
    /\ memory \in [Writers -> SUBSET Entries]
    /\ staged \in [Writers -> SUBSET Entries]
    /\ fd \in [Writers -> Inodes \cup {None}]
    /\ missed \in [Writers -> SUBSET Entries]
    /\ overlapped \in BOOLEAN

(***************************************************************************)
(* Where no two flushes were at the .tmp at once, the file is never seen   *)
(* cut off, by a kill, a failed write or a power loss at any line.  A file *)
(* that does not parse is taken for an empty one, and every instance would *)
(* move.                                                                   *)
(***************************************************************************)
NeverTorn == ~overlapped => Visible # Torn

(***************************************************************************)
(* The same whoever writes: "File is written atomically (tmp + os.replace) *)
(* so a crash never truncates it" (state_store.py).                        *)
(***************************************************************************)
NeverTruncated == Visible # Torn

(***************************************************************************)
(* A rename takes out of the file only what others wrote after the process *)
(* that renames had read it: what it could see it writes back, over any    *)
(* number of its flushes, failed ones and other holders.                   *)
(***************************************************************************)
OnlyUnseenErased ==
    [][~overlapped' =>
          \A w \in Writers : Replace(w) => Visible \ Visible' \subseteq missed[w]]_vars

(***************************************************************************)
(* Seen from the store's methods all of this is one file that each holder  *)
(* replaces in one step or not at all, with what it has in memory (module  *)
(* AtomicFile), after a flush that failed at any line as well (the         *)
(* rollbacks of the methods); a power loss returns to something a flush had*)
(* written.  It is the one step that StateStore takes for a flush.         *)
(***************************************************************************)
Atomic == INSTANCE AtomicFile WITH
    Contents <- SUBSET Entries,
    Empty    <- {},
    Holders  <- Writers,
    file     <- Visible,
    medium   <- Seen(safeDir, safe),
    held     <- {w \in Writers : pc[w] # "out"},
    broken   <- overlapped

AtomicSpec == Atomic!Spec
=================================================================================
