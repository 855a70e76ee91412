----------------------------- MODULE StateFileProofs -----------------------------
(***************************************************************************)
(* state.json through kills, failed writes and power losses, for any       *)
(* number of processes that hold the store at once, of titles and of       *)
(* inodes.                                                                 *)
(***************************************************************************)
EXTENDS StateFile, TLAPS

Flushing == {"open", "write", "fsync", "replace"}

\* What is so whoever writes.
Typed ==
    /\ FileTypeOK
    /\ safeDir["state.json"] # None =>
          safeDir["state.json"] # safeDir["state.json.tmp"]

\* One process at a time is at work on the .tmp.
OneAtTmp == \A v, w \in Writers : v # w => v \notin AtTmp \/ w \notin AtTmp

\* The state.json of a directory is whole in the page cache, the same on the
\* medium, and not the file that _flush writes.
Whole(d) ==
    d["state.json"] # None =>
        /\ d["state.json"] # dir["state.json.tmp"]
        /\ cache[d["state.json"]] # Torn
        /\ safe[d["state.json"]] = cache[d["state.json"]]

\* How far a flush has come with its file.
TmpAt(w) ==
    /\ w \in AtTmp => fd[w] # None /\ fd[w] = dir["state.json.tmp"]
    /\ pc[w] = "write" => cache[fd[w]] = Torn
    /\ pc[w] \in {"fsync", "replace"} => cache[fd[w]] = staged[w]
    /\ pc[w] = "replace" => safe[fd[w]] = staged[w]
    /\ pc[w] \in Flushing => memory[w] \subseteq staged[w]

\* A process has in memory what the file holds, but for what it has missed.
Knows(w) == pc[w] # "out" => Visible \ memory[w] \subseteq missed[w]

\* What is so as long as no two flushes have overlapped.
Calm ==
    /\ OneAtTmp
    /\ Whole(dir) /\ Whole(safeDir)
    /\ \A w \in Writers : TmpAt(w) /\ Knows(w)

FileInv == Typed /\ (~overlapped => Calm)

-------------------------------------------------------------------------------
\* Types, whatever the processes do.

\* The dictionaries of a store are contents that parse.
LEMMA StagedWhole ==
    ASSUME NEW set \in SUBSET Entries
    PROVE  set # Torn /\ set \in Contents
BY FileAssumption DEF Torn, Contents

\* What a process reads is a set of titles.
LEMMA LoadedTyped ==
    ASSUME FileTypeOK
    PROVE  Loaded \in SUBSET Entries
<1>1. dir["state.json"] \in Inodes \cup {None}
  BY DEF FileTypeOK, Names
<1>2. Visible \in SUBSET Entries \/ Visible = Torn
  BY <1>1 DEF FileTypeOK, Visible, Seen, Absent, Contents
<1> QED BY <1>2 DEF Loaded

\* Every step of a process.
LEMMA WriterTyped ==
    ASSUME Typed, NEW w \in Writers,
           OpenStore(w) \/ Stage(w) \/ FlushStep(w) \/ Leave(w)
    PROVE  Typed'
<1> USE DEF Typed, FileTypeOK, fsVars, historyVars
<1>1. CASE OpenStore(w)
  BY <1>1, LoadedTyped DEF OpenStore
<1>2. CASE Stage(w)
  <2>1. PICK e \in Entries : staged' = [staged EXCEPT ![w] = memory[w] \cup {e}]
    BY <1>2 DEF Stage
  <2>2. memory[w] \cup {e} \in SUBSET Entries
    BY <2>1
  <2> QED BY <1>2, <2>1, <2>2 DEF Stage
<1>3. CASE OpenTmp(w)
  <2>1. PICK i \in IF dir["state.json.tmp"] = None THEN Unlinked
                   ELSE {dir["state.json.tmp"]} :
            /\ dir' = [dir EXCEPT !["state.json.tmp"] = i]
            /\ cache' = [cache EXCEPT ![i] = Torn]
            /\ safe' = IF dir["state.json.tmp"] = None
                       THEN [safe EXCEPT ![i] = Torn] ELSE safe
            /\ fd' = [fd EXCEPT ![w] = i]
    BY <1>3 DEF OpenTmp, Target
  <2>2. i \in Inodes /\ i # dir["state.json"]
    BY <2>1 DEF Unlinked, Names
  <2>3. Torn \in Contents
    BY DEF Contents
  <2>4. overlapped' \in BOOLEAN /\ UNCHANGED <<safeDir, memory, staged, missed>>
        /\ pc' = [pc EXCEPT ![w] = "write"]
    BY <1>3 DEF OpenTmp
  <2>5. dir' \in [Names -> Inodes \cup {None}]
        /\ (dir'["state.json"] # None => dir'["state.json"] # dir'["state.json.tmp"])
    BY <2>1, <2>2, FileAssumption DEF Names
  <2> QED BY <2>1, <2>2, <2>3, <2>4, <2>5
<1>4. CASE WriteTmp(w)
  <2>1. PICK c \in {staged[w]} \cup (IF cache[fd[w]] = Torn THEN {} ELSE {Torn}) :
            cache' = [cache EXCEPT ![fd[w]] = c]
    BY <1>4 DEF WriteTmp
  <2>2. c \in Contents
    BY <2>1, StagedWhole DEF Contents
  <2> QED BY <1>4, <2>1, <2>2 DEF WriteTmp
<1>5. CASE FsyncTmp(w)
  BY <1>5 DEF FsyncTmp, Synced
<1>6. CASE Replace(w)
  <2>1. /\ dir' \in [Names -> Inodes \cup {None}]
        /\ dir'["state.json.tmp"] = None
    BY <1>6 DEF Replace, RenamedTo, Names
  <2>2. memory' \in [Writers -> SUBSET Entries] /\ missed' \in [Writers -> SUBSET Entries]
        /\ staged' \in [Writers -> SUBSET Entries]
    BY <1>6 DEF Replace
  <2> QED BY <1>6, <2>1, <2>2 DEF Replace
<1>7. CASE FlushFails(w)
  BY <1>7 DEF FlushFails, AfterError
<1>8. CASE Leave(w)
  BY <1>8 DEF Leave
<1> QED BY <1>1, <1>2, <1>3, <1>4, <1>5, <1>6, <1>7, <1>8 DEF FlushStep

\* Every step of the kernel.
LEMMA KernelTyped ==
    ASSUME Typed, Kernel
    PROVE  Typed'
<1> USE DEF Typed, FileTypeOK, writerVars, historyVars
<1>1. ASSUME NEW i \in Inodes, WriteBack(i) PROVE Typed'
  BY <1>1 DEF WriteBack
<1>2. CASE Journal
  BY <1>2 DEF Journal
<1>3. CASE PowerLoss
  BY <1>3 DEF PowerLoss
<1> QED BY <1>1, <1>2, <1>3 DEF Kernel

-------------------------------------------------------------------------------
\* As long as flushes do not overlap.

\* What a whole file shows is a set of titles.
LEMMA VisibleIsWhole ==
    ASSUME FileTypeOK, Whole(dir)
    PROVE  Visible \in SUBSET Entries /\ Visible # Torn
<1>1. CASE dir["state.json"] = None
  BY <1>1, FileAssumption DEF Visible, Seen, Absent, Torn
<1>2. CASE dir["state.json"] # None
  <2>1. dir["state.json"] \in Inodes
    BY <1>2 DEF FileTypeOK, Names
  <2>2. cache[dir["state.json"]] \in Contents /\ cache[dir["state.json"]] # Torn
    BY <1>2, <2>1 DEF FileTypeOK, Whole
  <2> QED BY <1>2, <2>2 DEF Visible, Seen, Absent, Contents
<1> QED BY <1>1, <1>2

\* The others are not at the .tmp while one process is.
LEMMA OthersApart ==
    ASSUME Calm, NEW w \in Writers, w \in AtTmp
    PROVE  \A v \in Writers : v # w => v \notin AtTmp
BY DEF Calm, OneAtTmp

\* What is known of a process that a step of another one leaves alone.
LEMMA ElsewhereStays ==
    ASSUME NEW v \in Writers, TmpAt(v), v \notin AtTmp,
           pc'[v] = pc[v], staged'[v] = staged[v], memory'[v] = memory[v]
    PROVE  TmpAt(v)'
BY DEF TmpAt, AtTmp, Flushing

\* One lemma per action.

\* A process that opens the store has seen all there is.
LEMMA OpenStoreKeeps ==
    ASSUME Typed, Calm, NEW w \in Writers, OpenStore(w)
    PROVE  Calm'
<1>1. /\ pc[w] = "out"
      /\ pc' = [pc EXCEPT ![w] = "idle"]
      /\ memory' = [memory EXCEPT ![w] = Visible]
      /\ missed' = [missed EXCEPT ![w] = {}]
      /\ UNCHANGED <<dir, cache, safeDir, safe, staged, fd>>
  BY VisibleIsWhole DEF OpenStore, Loaded, Typed, Calm, fsVars
<1>2. /\ pc'[w] = "idle" /\ memory'[w] = Visible
      /\ \A v \in Writers : v # w => /\ pc'[v] = pc[v] /\ memory'[v] = memory[v]
                                     /\ missed'[v] = missed[v]
  BY <1>1 DEF Typed, FileTypeOK
<1>3. Visible' = Visible
  BY <1>1 DEF Visible, Seen, Absent
<1>4. AtTmp' = AtTmp
  BY <1>1, <1>2 DEF AtTmp
<1>5. OneAtTmp' /\ Whole(dir)' /\ Whole(safeDir)'
  BY <1>1, <1>4 DEF Calm, OneAtTmp, Whole
<1>6. ASSUME NEW v \in Writers PROVE TmpAt(v)' /\ Knows(v)'
  <2>1. CASE v = w
    BY <1>2, <1>3, <2>1 DEF TmpAt, Knows, AtTmp, Flushing
  <2>2. CASE v # w
    BY <1>1, <1>2, <1>3, <1>4, <2>2 DEF Calm, TmpAt, Knows
  <2> QED BY <2>1, <2>2
<1> QED BY <1>5, <1>6 DEF Calm

\* Staging is in memory.
LEMMA StageKeeps ==
    ASSUME Typed, Calm, NEW w \in Writers, Stage(w)
    PROVE  Calm'
<1>1. PICK e \in Entries : staged' = [staged EXCEPT ![w] = memory[w] \cup {e}]
  BY DEF Stage
<1>2. /\ pc[w] = "idle"
      /\ pc' = [pc EXCEPT ![w] = "open"]
      /\ UNCHANGED <<dir, cache, safeDir, safe, memory, fd, missed>>
  BY DEF Stage, fsVars, historyVars
<1>3. /\ pc'[w] = "open" /\ staged'[w] = memory[w] \cup {e}
      /\ \A v \in Writers : v # w => pc'[v] = pc[v] /\ staged'[v] = staged[v]
  BY <1>1, <1>2 DEF Typed, FileTypeOK
<1>4. AtTmp' = AtTmp
  BY <1>2, <1>3 DEF AtTmp
<1>5. OneAtTmp' /\ Whole(dir)' /\ Whole(safeDir)' /\ Visible' = Visible
  BY <1>2, <1>4 DEF Calm, OneAtTmp, Whole, Visible, Seen, Absent
<1>6. ASSUME NEW v \in Writers PROVE TmpAt(v)' /\ Knows(v)'
  <2>1. CASE v = w
    BY <1>2, <1>3, <1>5, <2>1 DEF Calm, TmpAt, Knows, AtTmp, Flushing
  <2>2. CASE v # w
    BY <1>2, <1>3, <1>4, <1>5, <2>2 DEF Calm, TmpAt, Knows
  <2> QED BY <2>1, <2>2
<1> QED BY <1>5, <1>6 DEF Calm

\* Opening truncates the .tmp, never the file.
LEMMA OpenTmpKeeps ==
    ASSUME Typed, Calm, ~overlapped', NEW w \in Writers, OpenTmp(w)
    PROVE  Calm' /\ Visible' = Visible
<1>1. PICK i \in IF dir["state.json.tmp"] = None THEN Unlinked
                 ELSE {dir["state.json.tmp"]} :
          /\ dir' = [dir EXCEPT !["state.json.tmp"] = i]
          /\ cache' = [cache EXCEPT ![i] = Torn]
          /\ safe' = IF dir["state.json.tmp"] = None
                     THEN [safe EXCEPT ![i] = Torn] ELSE safe
          /\ fd' = [fd EXCEPT ![w] = i]
  BY DEF OpenTmp, Target
<1>2. /\ pc[w] = "open" /\ AtTmp = {}
      /\ pc' = [pc EXCEPT ![w] = "write"]
      /\ UNCHANGED <<safeDir, memory, staged, missed>>
  BY DEF OpenTmp
<1>3. /\ i \in Inodes /\ i # None
      /\ i # dir["state.json"] /\ i # safeDir["state.json"]
  <2>1. CASE dir["state.json.tmp"] = None
    BY <1>1, <2>1, FileAssumption DEF Unlinked, Names
  <2>2. CASE dir["state.json.tmp"] # None
    BY <1>1, <2>2 DEF Calm, Typed, FileTypeOK, Names, Whole
  <2> QED BY <2>1, <2>2
<1>4. /\ dir'["state.json"] = dir["state.json"] /\ dir'["state.json.tmp"] = i
      /\ cache'[i] = Torn
      /\ \A j \in Inodes : j # i => cache'[j] = cache[j] /\ safe'[j] = safe[j]
  BY <1>1, <1>3 DEF Typed, FileTypeOK, Names
<1>5. dir["state.json"] \in Inodes \cup {None}
      /\ safeDir["state.json"] \in Inodes \cup {None}
  BY DEF Typed, FileTypeOK, Names
<1>6. Whole(dir)' /\ Whole(safeDir)'
  BY <1>2, <1>3, <1>4, <1>5 DEF Calm, Whole
<1>7. Visible' = Visible
  BY <1>3, <1>4, <1>5 DEF Visible, Seen, Absent
<1>8. /\ pc'[w] = "write" /\ fd'[w] = i
      /\ \A v \in Writers : v # w => pc'[v] = pc[v] /\ v \notin AtTmp
  BY <1>1, <1>2 DEF Typed, FileTypeOK
<1>9. AtTmp' = {w}
  BY <1>8 DEF AtTmp
<1>10. ASSUME NEW v \in Writers PROVE TmpAt(v)' /\ Knows(v)'
  <2>1. CASE v = w
    BY <1>2, <1>3, <1>4, <1>7, <1>8, <2>1 DEF Calm, TmpAt, Knows, Flushing
  <2>2. CASE v # w
    <3>1. TmpAt(v)'
      BY <1>2, <1>8, <2>2, ElsewhereStays DEF Calm
    <3> QED BY <1>2, <1>7, <1>8, <2>2, <3>1 DEF Calm, Knows
  <2> QED BY <2>1, <2>2
<1> QED BY <1>6, <1>7, <1>9, <1>10 DEF Calm, OneAtTmp

\* What is written is what was staged.
LEMMA WriteTmpKeeps ==
    ASSUME Typed, Calm, NEW w \in Writers, WriteTmp(w)
    PROVE  Calm' /\ Visible' = Visible
<1> DEFINE i == fd[w]
<1>1. /\ pc[w] = "write" /\ w \in AtTmp /\ i # None /\ i = dir["state.json.tmp"]
      /\ cache[i] = Torn
  BY DEF Calm, TmpAt, WriteTmp, AtTmp
<1>2. /\ cache' = [cache EXCEPT ![i] = staged[w]]
      /\ pc' = [pc EXCEPT ![w] = "fsync"]
      /\ UNCHANGED <<dir, safeDir, safe, memory, staged, fd, missed>>
  BY <1>1 DEF WriteTmp, historyVars
<1>3. i \in Inodes /\ i # dir["state.json"] /\ i # safeDir["state.json"]
  BY <1>1 DEF Calm, Typed, FileTypeOK, Names, Whole
<1> HIDE DEF i
<1>4. /\ cache'[i] = staged[w]
      /\ \A j \in Inodes : j # i => cache'[j] = cache[j]
  BY <1>2, <1>3 DEF Typed, FileTypeOK
<1>5. dir["state.json"] \in Inodes \cup {None}
      /\ safeDir["state.json"] \in Inodes \cup {None}
  BY DEF Typed, FileTypeOK, Names
<1>6. Whole(dir)' /\ Whole(safeDir)'
  BY <1>2, <1>3, <1>4, <1>5 DEF Calm, Whole
<1>7. Visible' = Visible
  BY <1>2, <1>3, <1>4, <1>5 DEF Visible, Seen, Absent
<1>8. /\ pc'[w] = "fsync"
      /\ \A v \in Writers : v # w => pc'[v] = pc[v] /\ v \notin AtTmp
  BY <1>1, <1>2, OthersApart DEF Typed, FileTypeOK
<1>9. AtTmp' = {w}
  BY <1>8 DEF AtTmp
<1>10. ASSUME NEW v \in Writers PROVE TmpAt(v)' /\ Knows(v)'
  <2>1. CASE v = w
    BY <1>1, <1>2, <1>4, <1>7, <1>8, <2>1 DEF Calm, TmpAt, Knows, Flushing, i
  <2>2. CASE v # w
    <3>1. TmpAt(v)'
      BY <1>2, <1>8, <2>2, ElsewhereStays DEF Calm
    <3> QED BY <1>2, <1>7, <1>8, <2>2, <3>1 DEF Calm, Knows
  <2> QED BY <2>1, <2>2
<1> QED BY <1>6, <1>7, <1>9, <1>10 DEF Calm, OneAtTmp

\* The fsync puts it beyond a power loss.
LEMMA FsyncTmpKeeps ==
    ASSUME Typed, Calm, NEW w \in Writers, FsyncTmp(w)
    PROVE  Calm' /\ Visible' = Visible
<1> DEFINE i == fd[w]
<1>1. /\ pc[w] = "fsync" /\ w \in AtTmp /\ i # None /\ i = dir["state.json.tmp"]
      /\ cache[i] = staged[w]
  BY DEF Calm, TmpAt, FsyncTmp, AtTmp
<1>2. /\ safe' = [safe EXCEPT ![i] = cache[i]]
      /\ pc' = [pc EXCEPT ![w] = "replace"]
      /\ UNCHANGED <<dir, cache, safeDir, memory, staged, fd, missed>>
  BY DEF FsyncTmp, Synced, historyVars
<1>3. i \in Inodes /\ i # dir["state.json"] /\ i # safeDir["state.json"]
  BY <1>1 DEF Calm, Typed, FileTypeOK, Names, Whole
<1> HIDE DEF i
<1>4. /\ safe'[i] = staged[w]
      /\ \A j \in Inodes : j # i => safe'[j] = safe[j]
  BY <1>1, <1>2, <1>3 DEF Typed, FileTypeOK
<1>5. dir["state.json"] \in Inodes \cup {None}
      /\ safeDir["state.json"] \in Inodes \cup {None}
  BY DEF Typed, FileTypeOK, Names
<1>6. Whole(dir)' /\ Whole(safeDir)'
  BY <1>2, <1>3, <1>4, <1>5 DEF Calm, Whole
<1>7. Visible' = Visible
  BY <1>2 DEF Visible, Seen, Absent
<1>8. /\ pc'[w] = "replace"
      /\ \A v \in Writers : v # w => pc'[v] = pc[v] /\ v \notin AtTmp
  BY <1>1, <1>2, OthersApart DEF Typed, FileTypeOK
<1>9. AtTmp' = {w}
  BY <1>8 DEF AtTmp
<1>10. ASSUME NEW v \in Writers PROVE TmpAt(v)' /\ Knows(v)'
  <2>1. CASE v = w
    BY <1>1, <1>2, <1>4, <1>7, <1>8, <2>1 DEF Calm, TmpAt, Knows, Flushing, i
  <2>2. CASE v # w
    <3>1. TmpAt(v)'
      BY <1>2, <1>8, <2>2, ElsewhereStays DEF Calm
    <3> QED BY <1>2, <1>7, <1>8, <2>2, <3>1 DEF Calm, Knows
  <2> QED BY <2>1, <2>2
<1> QED BY <1>6, <1>7, <1>9, <1>10 DEF Calm, OneAtTmp

\* The rename makes it the file, whole; the others have missed what it brings.
LEMMA ReplaceKeeps ==
    ASSUME Typed, Calm, NEW w \in Writers, Replace(w)
    PROVE  /\ Calm'
           /\ Visible' = staged[w] /\ memory[w] \subseteq staged[w]
           /\ Visible \ memory[w] \subseteq missed[w]
<1> DEFINE i == dir["state.json.tmp"]
<1>1. /\ pc[w] = "replace" /\ w \in AtTmp /\ i # None /\ cache[i] = staged[w]
      /\ safe[i] = staged[w] /\ memory[w] \subseteq staged[w]
      /\ Visible \ memory[w] \subseteq missed[w]
  BY DEF Calm, TmpAt, Knows, Replace, Flushing, AtTmp
<1>2. /\ dir' = [dir EXCEPT !["state.json"] = i, !["state.json.tmp"] = None]
      /\ pc' = [pc EXCEPT ![w] = "idle"]
      /\ memory' = [memory EXCEPT ![w] = staged[w]]
      /\ staged' = [staged EXCEPT ![w] = {}]
      /\ missed' = [v \in Writers |-> IF v = w THEN {}
                                      ELSE missed[v] \cup (staged[w] \ memory[v])]
      /\ UNCHANGED <<cache, safeDir, safe>>
  BY DEF Replace, RenamedTo
<1>3. i \in Inodes /\ staged[w] \in SUBSET Entries
  BY <1>1 DEF Typed, FileTypeOK, Names
<1> HIDE DEF i
<1>4. dir'["state.json"] = i /\ dir'["state.json.tmp"] = None
  BY <1>2, <1>3 DEF Typed, FileTypeOK, Names
<1>5. Whole(dir)'
  BY <1>1, <1>2, <1>3, <1>4, StagedWhole, FileAssumption DEF Whole
<1>6. Whole(safeDir)'
  BY <1>2, <1>4 DEF Calm, Whole
<1>7. Visible' = staged[w]
  BY <1>1, <1>2, <1>4 DEF Visible, Seen, Absent
<1>8. /\ pc'[w] = "idle" /\ memory'[w] = staged[w]
      /\ \A v \in Writers : v # w =>
            /\ pc'[v] = pc[v] /\ v \notin AtTmp
            /\ memory'[v] = memory[v] /\ staged'[v] = staged[v]
            /\ missed'[v] = missed[v] \cup (staged[w] \ memory[v])
  BY <1>1, <1>2, OthersApart DEF Typed, FileTypeOK
<1>9. AtTmp' = {}
  BY <1>8 DEF AtTmp
<1>10. ASSUME NEW v \in Writers PROVE TmpAt(v)' /\ Knows(v)'
  <2>1. CASE v = w
    BY <1>7, <1>8, <1>9, <2>1 DEF TmpAt, Knows, Flushing
  <2>2. CASE v # w
    <3>1. TmpAt(v)'
      BY <1>8, <2>2, ElsewhereStays DEF Calm
    <3>2. Knows(v)'
      BY <1>7, <1>8, <2>2 DEF Knows
    <3> QED BY <3>1, <3>2
  <2> QED BY <2>1, <2>2
<1> QED BY <1>1, <1>5, <1>6, <1>7, <1>9, <1>10 DEF Calm, OneAtTmp

\* An exception leaves the file alone, and the dictionaries.
LEMMA FlushFailsKeeps ==
    ASSUME Typed, Calm, NEW w \in Writers, FlushFails(w)
    PROVE  Calm' /\ memory' = memory
<1>1. /\ pc' = [pc EXCEPT ![w] = "idle"]
      /\ memory' = [memory EXCEPT ![w] = memory[w]]
      /\ fd' = [fd EXCEPT ![w] = None]
      /\ staged' = [staged EXCEPT ![w] = {}]
      /\ pc[w] # "out"
      /\ UNCHANGED <<dir, cache, safeDir, safe, missed>>
  BY DEF FlushFails, AfterError, fsVars, historyVars
<1>2. memory' = memory
  BY <1>1 DEF Typed, FileTypeOK
<1>3. /\ pc'[w] = "idle"
      /\ \A v \in Writers : v # w => /\ pc'[v] = pc[v] /\ fd'[v] = fd[v]
                                     /\ staged'[v] = staged[v]
  BY <1>1 DEF Typed, FileTypeOK
<1>4. AtTmp' \subseteq AtTmp /\ w \notin AtTmp'
      /\ \A v \in Writers : v # w => (v \in AtTmp' <=> v \in AtTmp)
  BY <1>3 DEF AtTmp
<1>5. OneAtTmp' /\ Whole(dir)' /\ Whole(safeDir)' /\ Visible' = Visible
  BY <1>1, <1>4 DEF Calm, OneAtTmp, Whole, Visible, Seen, Absent
<1>6. ASSUME NEW v \in Writers PROVE TmpAt(v)' /\ Knows(v)'
  <2>1. CASE v = w
    BY <1>1, <1>2, <1>3, <1>4, <1>5, <2>1 DEF Calm, TmpAt, Knows, Flushing
  <2>2. CASE v # w
    BY <1>1, <1>2, <1>3, <1>4, <1>5, <2>2 DEF Calm, TmpAt, Knows
  <2> QED BY <2>1, <2>2
<1> QED BY <1>2, <1>5, <1>6 DEF Calm

\* A writer that ends leaves the file and the .tmp behind.
LEMMA LeaveKeeps ==
    ASSUME Typed, Calm, NEW w \in Writers, Leave(w)
    PROVE  Calm'
<1>1. /\ pc' = [pc EXCEPT ![w] = "out"]
      /\ memory' = [memory EXCEPT ![w] = {}]
      /\ staged' = [staged EXCEPT ![w] = {}]
      /\ missed' = [missed EXCEPT ![w] = {}]
      /\ fd' = [fd EXCEPT ![w] = None]
      /\ UNCHANGED <<dir, cache, safeDir, safe>>
  BY DEF Leave, fsVars
<1>2. /\ pc'[w] = "out"
      /\ \A v \in Writers : v # w => /\ pc'[v] = pc[v] /\ memory'[v] = memory[v]
                                     /\ staged'[v] = staged[v] /\ fd'[v] = fd[v]
                                     /\ missed'[v] = missed[v]
  BY <1>1 DEF Typed, FileTypeOK
<1>3. AtTmp' \subseteq AtTmp /\ w \notin AtTmp'
      /\ \A v \in Writers : v # w => (v \in AtTmp' <=> v \in AtTmp)
  BY <1>2 DEF AtTmp
<1>4. OneAtTmp' /\ Whole(dir)' /\ Whole(safeDir)' /\ Visible' = Visible
  BY <1>1, <1>3 DEF Calm, OneAtTmp, Whole, Visible, Seen, Absent
<1>5. ASSUME NEW v \in Writers PROVE TmpAt(v)' /\ Knows(v)'
  <2>1. CASE v = w
    BY <1>2, <1>3, <2>1 DEF TmpAt, Knows, Flushing
  <2>2. CASE v # w
    BY <1>1, <1>2, <1>3, <1>4, <2>2 DEF Calm, TmpAt, Knows
  <2> QED BY <2>1, <2>2
<1> QED BY <1>4, <1>5 DEF Calm

\* What the kernel writes back is no more torn than what it caches.
LEMMA WriteBackKeeps ==
    ASSUME Typed, Calm, NEW i \in Inodes, WriteBack(i)
    PROVE  Calm'
<1>1. /\ safe' = [safe EXCEPT ![i] = cache[i]]
      /\ UNCHANGED <<dir, cache, safeDir, pc, memory, staged, fd, missed>>
  BY DEF WriteBack, writerVars, historyVars
<1>2. /\ \A j \in Inodes : safe'[j] = IF j = i THEN cache[j] ELSE safe[j]
  BY <1>1 DEF Typed, FileTypeOK
<1>3. dir["state.json"] \in Inodes \cup {None}
      /\ safeDir["state.json"] \in Inodes \cup {None}
      /\ \A w \in Writers : fd[w] \in Inodes \cup {None}
  BY DEF Typed, FileTypeOK, Names
<1>4. AtTmp' = AtTmp /\ Visible' = Visible
  BY <1>1 DEF AtTmp, Visible, Seen, Absent
<1>5. OneAtTmp' /\ Whole(dir)' /\ Whole(safeDir)'
  BY <1>1, <1>2, <1>3, <1>4 DEF Calm, OneAtTmp, Whole
<1>6. ASSUME NEW w \in Writers PROVE TmpAt(w)' /\ Knows(w)'
  <2>1. TmpAt(w)'
    BY <1>1, <1>2, <1>3, <1>4 DEF Calm, TmpAt, AtTmp
  <2> QED BY <1>1, <1>4, <2>1 DEF Calm, Knows
<1> QED BY <1>5, <1>6 DEF Calm

\* The journal takes over a directory whose file is whole.
LEMMA JournalKeeps ==
    ASSUME Typed, Calm, Journal
    PROVE  Calm'
<1>1. /\ safeDir' = dir
      /\ UNCHANGED <<dir, cache, safe, pc, memory, staged, fd, missed>>
  BY DEF Journal, writerVars, historyVars
<1>2. AtTmp' = AtTmp /\ Visible' = Visible
  BY <1>1 DEF AtTmp, Visible, Seen, Absent
<1> QED BY <1>1, <1>2 DEF Calm, OneAtTmp, Whole, TmpAt, Knows

\* A power loss returns to what the journal holds.
LEMMA PowerLossKeeps ==
    ASSUME Typed, Calm, PowerLoss
    PROVE  Calm'
<1>1. /\ dir' = safeDir /\ cache' = safe /\ UNCHANGED <<safeDir, safe>>
      /\ pc' = [w \in Writers |-> "out"]
  BY DEF PowerLoss
<1>2. Whole(dir)' /\ Whole(safeDir)'
  BY <1>1 DEF Typed, Calm, Whole
<1>3. AtTmp' = {}
  BY <1>1 DEF AtTmp
<1> QED BY <1>1, <1>2, <1>3 DEF Calm, OneAtTmp, TmpAt, Knows, Flushing

-------------------------------------------------------------------------------
\* Nothing undoes an overlap.
LEMMA OverlapStays ==
    ASSUME Typed, [Next]_vars
    PROVE  overlapped => overlapped'
<1>1. ASSUME NEW w \in Writers, OpenStore(w) \/ Stage(w) \/ FlushStep(w) \/ Leave(w)
      PROVE  overlapped => overlapped'
  BY <1>1 DEF OpenStore, Stage, FlushStep, OpenTmp, WriteTmp, FsyncTmp, Replace,
     FlushFails, Leave, historyVars
<1>2. CASE Kernel
  BY <1>2 DEF Kernel, WriteBack, Journal, PowerLoss, historyVars
<1>3. CASE UNCHANGED vars
  BY <1>3 DEF vars, historyVars
<1> QED BY <1>1, <1>2, <1>3 DEF Next

(***************************************************************************)
(* The inductive invariant: as long as no two flushes overlap, the file    *)
(* that state.json names is whole on both sides, a flush works on another, *)
(* and each process lacks only what it could not see.                      *)
(***************************************************************************)
THEOREM FileInvariant == Spec => []FileInv
<1>1. ASSUME Init PROVE FileInv
  <2>1. /\ dir \in [Names -> Inodes \cup {None}] /\ safeDir = dir
        /\ dir["state.json.tmp"] = None
    BY <1>1 DEF Init, Names
  <2>2. PICK c \in SUBSET Entries : cache = [i \in Inodes |-> c]
    BY <1>1 DEF Init
  <2>3. c # Torn /\ c \in Contents
    BY StagedWhole
  <2>4. safe = cache /\ \A i \in Inodes : cache[i] = c
    BY <1>1, <2>2 DEF Init
  <2>5. Whole(dir) /\ Whole(safeDir)
    BY <2>1, <2>3, <2>4 DEF Whole, Names
  <2>6. Typed
    BY <1>1, <2>1, <2>2, <2>3 DEF Init, Typed, FileTypeOK
  <2>7. AtTmp = {}
    BY <1>1 DEF Init, AtTmp
  <2>8. OneAtTmp /\ \A w \in Writers : TmpAt(w) /\ Knows(w)
    BY <1>1, <2>7 DEF Init, OneAtTmp, TmpAt, Knows, Flushing
  <2> QED BY <2>5, <2>6, <2>8 DEF FileInv, Calm
<1>2. ASSUME FileInv, [Next]_vars PROVE FileInv'
  <2>1. Typed /\ Typed'
    <3>1. CASE UNCHANGED vars
      BY <1>2, <3>1 DEF FileInv, vars, fsVars, writerVars, historyVars, Typed, FileTypeOK
    <3> QED BY <1>2, <3>1, WriterTyped, KernelTyped DEF FileInv, Next
  <2>2. ASSUME ~overlapped' PROVE Calm'
    <3>1. Calm
      BY <1>2, <2>1, <2>2, OverlapStays DEF FileInv
    <3>2. ASSUME NEW w \in Writers,
                 OpenStore(w) \/ Stage(w) \/ FlushStep(w) \/ Leave(w)
          PROVE  Calm'
      BY <2>1, <2>2, <3>1, <3>2, OpenStoreKeeps, StageKeeps, OpenTmpKeeps,
         WriteTmpKeeps, FsyncTmpKeeps, ReplaceKeeps, FlushFailsKeeps, LeaveKeeps
         DEF FlushStep
    <3>3. CASE Kernel
      BY <2>1, <3>1, <3>3, WriteBackKeeps, JournalKeeps, PowerLossKeeps DEF Kernel
    <3>4. CASE UNCHANGED vars
      BY <3>1, <3>4 DEF vars, fsVars, writerVars, historyVars, Calm, OneAtTmp, AtTmp,
         Whole, TmpAt, Knows, Visible, Seen, Absent
    <3> QED BY <1>2, <3>2, <3>3, <3>4 DEF Next
  <2> QED BY <2>1, <2>2 DEF FileInv
<1> QED BY <1>1, <1>2, PTL DEF Spec

(***************************************************************************)
(* Type correctness of the file system and of the processes.               *)
(***************************************************************************)
THEOREM FileTyped == Spec => []FileTypeOK
<1>1. FileInv => FileTypeOK
  BY DEF FileInv, Typed
<1> QED BY <1>1, FileInvariant, PTL

(***************************************************************************)
(* A crash never truncates the file: not by kills, failed writes and power *)
(* losses at every line of _flush, unless two flushes were at the .tmp at  *)
(* once.                                                                   *)
(***************************************************************************)
THEOREM FileIsNeverTorn == Spec => []NeverTorn
<1>1. FileInv => NeverTorn
  BY VisibleIsWhole DEF FileInv, Typed, Calm, NeverTorn
<1> QED BY <1>1, FileInvariant, PTL

(***************************************************************************)
(* However many processes hold the store, what a flush erases is what its  *)
(* process could not see when it read the file.                            *)
(***************************************************************************)
THEOREM OnlyTheUnseenIsErased == Spec => OnlyUnseenErased
<1> DEFINE Kept == ~overlapped' =>
              \A w \in Writers : Replace(w) => Visible \ Visible' \subseteq missed[w]
<1>1. FileInv /\ [Next]_vars => [Kept]_vars
  <2> SUFFICES ASSUME FileInv, [Next]_vars, ~overlapped', NEW w \in Writers, Replace(w)
               PROVE  Visible \ Visible' \subseteq missed[w]
    OBVIOUS
  <2>1. Typed /\ Calm
    BY OverlapStays DEF FileInv
  <2>2. /\ Visible' = staged[w] /\ memory[w] \subseteq staged[w]
        /\ Visible \ memory[w] \subseteq missed[w]
    BY <2>1, ReplaceKeeps
  <2> QED BY <2>2
<1> QED BY <1>1, FileInvariant, PTL DEF Spec, OnlyUnseenErased

-------------------------------------------------------------------------------
(***************************************************************************)
(* The refinement of AtomicFile: what each step is for the store's methods.*)
(***************************************************************************)
Medium == Seen(safeDir, safe)
Held   == {w \in Writers : pc[w] # "out"}

\* Nothing of what the methods know changes.
Unseen == UNCHANGED <<Visible, Medium, Held, memory, overlapped>>

\* What is durable stays as long as neither its name nor its contents change.
LEMMA MediumKept ==
    ASSUME Typed, UNCHANGED safeDir,
           \A i \in Inodes : i = safeDir["state.json"] => safe'[i] = safe[i]
    PROVE  Medium' = Medium
<1>1. safeDir["state.json"] \in Inodes \cup {None}
  BY DEF Typed, FileTypeOK, Names
<1> QED BY <1>1 DEF Medium, Seen, Absent

\* The lines of _flush up to the rename, and the one that raises, show nothing.
LEMMA FlushUnseen ==
    ASSUME Typed, Calm, ~overlapped, ~overlapped', NEW w \in Writers,
           \/ Stage(w) \/ OpenTmp(w) \/ WriteTmp(w) \/ FsyncTmp(w) \/ FlushFails(w)
    PROVE  Unseen
<1>1. pc[w] # "out" /\ \E line : line # "out" /\ pc' = [pc EXCEPT ![w] = line]
  BY DEF Stage, OpenTmp, WriteTmp, FsyncTmp, FlushFails
<1>2. Held' = Held
  BY <1>1 DEF Held, Typed, FileTypeOK
<1>3. memory' = memory
  <2>1. CASE FlushFails(w)
    BY <2>1, FlushFailsKeeps
  <2> QED BY <2>1 DEF Stage, OpenTmp, WriteTmp, FsyncTmp
<1>4. Visible' = Visible
  <2>1. CASE Stage(w) \/ FlushFails(w)
    BY <2>1 DEF Stage, FlushFails, fsVars, Visible, Seen, Absent
  <2> QED BY <2>1, OpenTmpKeeps, WriteTmpKeeps, FsyncTmpKeeps
<1>5. Medium' = Medium
  <2>1. CASE OpenTmp(w)
    <3>1. PICK i \in IF dir["state.json.tmp"] = None THEN Unlinked
                     ELSE {dir["state.json.tmp"]} :
              safe' = IF dir["state.json.tmp"] = None
                      THEN [safe EXCEPT ![i] = Torn] ELSE safe
      BY <2>1 DEF OpenTmp, Target
    <3>2. \A j \in Inodes : j = safeDir["state.json"] => safe'[j] = safe[j]
      BY <3>1 DEF Unlinked, Names, Typed, FileTypeOK
    <3>3. UNCHANGED safeDir
      BY <2>1 DEF OpenTmp
    <3> QED BY <3>2, <3>3, MediumKept
  <2>2. CASE FsyncTmp(w)
    <3>1. fd[w] # None /\ fd[w] = dir["state.json.tmp"]
      BY <2>2 DEF FsyncTmp, Calm, TmpAt, AtTmp
    <3>2. fd[w] # safeDir["state.json"]
      BY <3>1 DEF Calm, Whole
    <3>3. safe' = [safe EXCEPT ![fd[w]] = cache[fd[w]]] /\ UNCHANGED safeDir
      BY <2>2 DEF FsyncTmp, Synced
    <3>4. \A j \in Inodes : j = safeDir["state.json"] => safe'[j] = safe[j]
      BY <3>2, <3>3 DEF Typed, FileTypeOK
    <3> QED BY <3>3, <3>4, MediumKept
  <2>3. CASE Stage(w) \/ WriteTmp(w) \/ FlushFails(w)
    BY <2>3 DEF Stage, WriteTmp, FlushFails, fsVars, Medium, Seen, Absent
  <2> QED BY <2>1, <2>2, <2>3
<1>6. overlapped' = overlapped
  <2>1. CASE OpenTmp(w)
    <3>1. overlapped' = (overlapped \/ AtTmp # {})
      BY <2>1 DEF OpenTmp
    <3>2. overlapped = FALSE
      BY DEF Typed, FileTypeOK
    <3> QED BY <3>1, <3>2
  <2>2. CASE Stage(w) \/ WriteTmp(w) \/ FsyncTmp(w) \/ FlushFails(w)
    BY <2>2 DEF Stage, WriteTmp, FsyncTmp, FlushFails, historyVars
  <2> QED BY <2>1, <2>2
<1> QED BY <1>2, <1>3, <1>4, <1>5, <1>6, Zenon DEF Unseen

\* The rename is the flush.
LEMMA ReplaceIsFlush ==
    ASSUME Typed, Calm, NEW w \in Writers, Replace(w)
    PROVE  Atomic!Flush(w)
<1>1. /\ pc[w] = "replace" /\ pc' = [pc EXCEPT ![w] = "idle"]
      /\ memory' = [memory EXCEPT ![w] = staged[w]]
      /\ UNCHANGED <<safe, safeDir, overlapped>>
  BY DEF Replace
<1>2. w \in Held /\ Held' = Held
  BY <1>1 DEF Held, Typed, FileTypeOK
<1>3. Visible' = staged[w] /\ memory[w] \subseteq staged[w]
  BY ReplaceKeeps
<1>4. staged[w] \in SUBSET Entries
  BY DEF Typed, FileTypeOK
<1>5. Medium' = Medium
  BY <1>1 DEF Medium, Seen, Absent
<1> QED BY <1>1, <1>2, <1>3, <1>4, <1>5 DEF Atomic!Flush, Medium, Held

\* A process that opens the store has read what is there.
LEMMA OpenStoreIsOpen ==
    ASSUME Typed, Calm, NEW w \in Writers, OpenStore(w)
    PROVE  Atomic!Open(w)
<1>1. /\ UNCHANGED <<dir, cache, safeDir, safe, overlapped>> /\ pc[w] = "out"
      /\ pc' = [pc EXCEPT ![w] = "idle"]
      /\ memory' = [memory EXCEPT ![w] = Visible]
  BY VisibleIsWhole DEF OpenStore, Loaded, Typed, Calm, fsVars
<1>2. w \notin Held /\ Held' = Held \cup {w}
  BY <1>1 DEF Held, Typed, FileTypeOK
<1>3. UNCHANGED <<Visible, Medium>>
  BY <1>1 DEF Visible, Medium, Seen, Absent
<1> QED BY <1>1, <1>2, <1>3 DEF Atomic!Open, Medium, Held

\* A process that ends at any line has changed nothing.
LEMMA LeaveIsLeave ==
    ASSUME Typed, NEW w \in Writers, Leave(w)
    PROVE  Atomic!Leave(w)
<1>1. /\ UNCHANGED <<dir, cache, safeDir, safe, overlapped>>
      /\ pc' = [pc EXCEPT ![w] = "out"]
      /\ memory' = [memory EXCEPT ![w] = {}]
  BY DEF Leave, fsVars
<1>2. Held' = Held \ {w}
  BY <1>1 DEF Held, Typed, FileTypeOK
<1>3. UNCHANGED <<Visible, Medium>>
  BY <1>1 DEF Visible, Medium, Seen, Absent
<1> QED BY <1>1, <1>2, <1>3 DEF Atomic!Leave, Medium, Held

\* The kernel makes the file durable, or takes it back to what was.
LEMMA KernelSyncs ==
    ASSUME Typed, Calm, Kernel
    PROVE  Atomic!Sync \/ Atomic!PowerLoss \/ Unseen
<1>1. ASSUME NEW i \in Inodes, WriteBack(i) PROVE Unseen
  <2>1. /\ UNCHANGED <<dir, cache, safeDir, pc, memory, overlapped>>
        /\ safe' = [safe EXCEPT ![i] = cache[i]]
    BY <1>1 DEF WriteBack, writerVars, historyVars
  <2>2. UNCHANGED <<Visible, Held>>
    BY <2>1 DEF Visible, Seen, Absent, Held
  <2>3. \A j \in Inodes : j = safeDir["state.json"] => safe'[j] = safe[j]
    BY <2>1, FileAssumption DEF Calm, Whole, Typed, FileTypeOK
  <2>4. Medium' = Medium
    BY <2>1, <2>3, MediumKept
  <2> QED BY <2>1, <2>2, <2>4 DEF Unseen
<1>2. CASE Journal
  <2>1. UNCHANGED <<dir, cache, safe, pc, memory, overlapped>> /\ safeDir' = dir
    BY <1>2 DEF Journal, writerVars, historyVars
  <2>2. UNCHANGED <<Visible, Held>>
    BY <2>1 DEF Visible, Seen, Absent, Held
  <2>3. Medium' = Visible
    BY <2>1 DEF Visible, Medium, Seen, Absent, Calm, Whole
  <2> QED BY <2>1, <2>2, <2>3 DEF Atomic!Sync, Medium, Held
<1>3. CASE PowerLoss
  <2>1. /\ dir' = safeDir /\ cache' = safe /\ UNCHANGED <<safeDir, safe, overlapped>>
        /\ pc' = [w \in Writers |-> "out"]
        /\ memory' = [w \in Writers |-> {}]
    BY <1>3 DEF PowerLoss
  <2>2. Held' = {}
    BY <2>1 DEF Held
  <2>3. Visible' = Medium /\ Medium' = Medium
    BY <2>1 DEF Visible, Medium, Seen, Absent
  <2> QED BY <2>1, <2>2, <2>3 DEF Atomic!PowerLoss, Medium, Held
<1> QED BY <1>1, <1>2, <1>3 DEF Kernel

(***************************************************************************)
(* For the store's methods _flush is one step that happens or does not, at *)
(* any line it fails, is killed or loses power (_flush, tmp + fsync +      *)
(* os.replace, and the rollbacks of its callers), beside any number of     *)
(* other holders: what module StateStore takes it for.                     *)
(***************************************************************************)
THEOREM FlushIsAtomic == Spec => AtomicSpec
<1>1. FileInv /\ Init => Atomic!Init
  <2>1. ASSUME FileInv, Init PROVE Atomic!Init
    <3>1. Visible \in SUBSET Entries
      BY <2>1, VisibleIsWhole DEF FileInv, Typed, Calm, Init
    <3>2. Medium = Visible
      BY <2>1 DEF Init, Medium, Visible, Seen, Absent
    <3>3. Held = {}
      BY <2>1 DEF Held, Init
    <3> QED BY <2>1, <3>1, <3>2, <3>3 DEF Atomic!Init, Medium, Held, Init
  <2> QED BY <2>1
<1>2. FileInv /\ FileInv' /\ [Next]_vars
      => [Atomic!Next]_<<Visible, Seen(safeDir, safe), {w \in Writers : pc[w] # "out"},
                         memory, overlapped>>
  <2>1. FileInv /\ FileInv' /\ [Next]_vars => Atomic!Next \/ Unseen
    <3> SUFFICES ASSUME FileInv, FileInv', [Next]_vars, ~overlapped'
                 PROVE  Atomic!Next \/ Unseen
      BY DEF Atomic!Next
    <3>0. Typed /\ Calm /\ ~overlapped
      BY OverlapStays DEF FileInv
    <3>1. ASSUME NEW w \in Writers,
                 OpenStore(w) \/ Stage(w) \/ FlushStep(w) \/ Leave(w)
          PROVE  Atomic!Next \/ Unseen
      <4>1. Atomic!Open(w) \/ Atomic!Flush(w) \/ Atomic!Leave(w) \/ Unseen
        BY <3>0, <3>1, OpenStoreIsOpen, FlushUnseen, ReplaceIsFlush, LeaveIsLeave
           DEF FlushStep
      <4> QED BY <4>1 DEF Atomic!Next
    <3>2. CASE Kernel
      <4>1. Atomic!Sync \/ Atomic!PowerLoss \/ Unseen
        BY <3>0, <3>2, KernelSyncs
      <4> QED BY <4>1 DEF Atomic!Next
    <3>3. CASE UNCHANGED vars
      BY <3>3 DEF vars, fsVars, writerVars, historyVars, Visible, Seen, Absent, Medium,
         Held, Unseen
    <3> QED BY <3>1, <3>2, <3>3 DEF Next
  <2> QED BY <2>1 DEF Medium, Held, Unseen
<1> QED BY <1>1, <1>2, FileInvariant, PTL DEF Spec, AtomicSpec, Atomic!Spec
===============================================================================
