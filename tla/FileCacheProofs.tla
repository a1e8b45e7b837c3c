--------------------------- MODULE FileCacheProofs ---------------------------
(***************************************************************************)
(* The rotating log for any number of archives, any file size, and any     *)
(* number of kills: what it never does to the disk, and, up to the first   *)
(* kill or failed allocation, exactly what is in every file.               *)
(*                                                                         *)
(* The list in memory carries the proofs.  Its length follows from         *)
(* cachenum (Counted), which bounds the numbers of the archives in it      *)
(* (Bounded); an interrupted rotation leaves gaps and so larger numbers,   *)
(* but never more of them; so does an entry there is no memory for.        *)
(* Without either there are no gaps (Exact).                               *)
(***************************************************************************)
EXTENDS FileCache, SequenceTheorems, TLAPS

USE FileCacheAssumption

\* The archives of the list that the renaming loop has moved already.
Moved(j) == IF pc \in {"shift", "add"} /\ j < i THEN 1 ELSE 0

\* The archives that are kept once there are `cachemax' of them.
Kept == IF pc \in {"shift", "add"} THEN cachemax - 1 ELSE cachemax

\* How long the list is, and where the loops are in it.
Counted ==
    /\ pc \in {"check", "shift", "add", "write", "fwrite"} => initFinish
    /\ pc = "init" => ~initFinish
    /\ ~initFinish =>
          /\ Len(caches) = cachenum
          /\ pc = "init" => cachenum + i <= cachemax
          /\ pc = "idle" => cachenum = 0
    /\ initFinish => IF cachenum < cachemax THEN Len(caches) = cachenum
                     ELSE Len(caches) <= Kept /\ (failures = 0 => Len(caches) = Kept)
    /\ pc = "shift" => i \in 1 .. (Len(caches) + 1)
    /\ pc = "add" => i = Len(caches) + 1
    /\ pc # "idle" => written < MaxWritten
    /\ pc = "fwrite" => Live \in files

\* The numbers of the archives, from the oldest on.
Bounded == \A j \in DOMAIN caches : caches[j] <= cachemax + Len(caches) - j + Moved(j) + failures

\* No file holds a message that was not written yet.
Fresh == \A f \in DOMAIN disk : \A m \in DOMAIN disk[f] : disk[f][m] <= written

Contents == Seq(1 .. MaxWritten)

DiskInv ==
    /\ disk \in [Files -> Contents] /\ written \in 0 .. MaxWritten
    /\ files \subseteq Files /\ failures \in 0 .. MaxFailures
    /\ DiskBound /\ Fresh /\ NoDuplicates

\* The rest of the state.
MemoryInv ==
    /\ caches \in Seq(Ids) /\ cachenum \in Nat /\ initFinish \in BOOLEAN
    /\ pc \in {"idle", "init", "check", "shift", "add", "write", "fwrite"}
    /\ i \in Nat /\ crashes \in 0 .. MaxCrashes
    /\ Counted /\ Bounded

SafeInv == DiskInv /\ MemoryInv

\* The messages of the b-th file that was filled.
Block(b) == Messages(b * maxsize + 1, b * maxsize + maxsize)

\* Without a kill cachenum counts the rotations, and the list is without gaps.
Exact ==
    /\ ~initFinish => cachenum = 0
    /\ written = cachenum * maxsize + Len(disk[Live])
    /\ Len(disk[Live]) <= maxsize
    /\ pc \in {"shift", "add"} => Len(disk[Live]) = maxsize
    /\ pc \in {"write", "fwrite"} => Len(disk[Live]) < maxsize
    /\ disk[Live] # Nothing => Live \in files
    /\ disk[Live] = Messages(cachenum * maxsize + 1, written)
    /\ \A j \in DOMAIN caches : caches[j] = Len(caches) + 1 - j + Moved(j)
    /\ \A j \in DOMAIN caches : disk[caches[j]] = Block(cachenum - (Len(caches) + 1 - j))
    /\ \A n \in Ids : (\A j \in DOMAIN caches : caches[j] # n) => disk[n] = Nothing
    /\ \A n \in Ids : n \in files <=> disk[n] # Nothing

ExactInv == crashes = 0 /\ failures = 0 => Exact

-----------------------------------------------------------------------------
(* Sequences of messages *)

LEMMA MessagesSeq ==
    ASSUME NEW a \in Int, NEW b \in Int, a <= b + 1
    PROVE  /\ Messages(a, b) \in Seq(Int)
           /\ Len(Messages(a, b)) = b - a + 1
           /\ \A m \in 1 .. (b - a + 1) : Messages(a, b)[m] = a + m - 1
  <1>1. b - a + 1 \in Nat
    OBVIOUS
  <1>2. \A m \in 1 .. (b - a + 1) : a + m - 1 \in Int
    OBVIOUS
  <1>3. Messages(a, b) \in [1 .. (b - a + 1) -> Int]
    BY <1>2 DEF Messages
  <1>4. Messages(a, b) \in Seq(Int)
    BY <1>1, <1>3, SeqDef
  <1> QED BY <1>1, <1>3, <1>4 DEF Messages

LEMMA MessagesAppend ==
    ASSUME NEW a \in Int, NEW b \in Int, a <= b + 1
    PROVE  Append(Messages(a, b), b + 1) = Messages(a, b + 1)
  <1> DEFINE s == Append(Messages(a, b), b + 1)
             t == Messages(a, b + 1)
  <1>0. Messages(a, b) \in Seq(Int) /\ Len(Messages(a, b)) = b - a + 1
    BY MessagesSeq
  <1>1. s \in Seq(Int) /\ Len(s) = b - a + 2
    BY <1>0
  <1>2. t \in Seq(Int) /\ Len(t) = b - a + 2
    BY MessagesSeq
  <1>3. ASSUME NEW m \in 1 .. (b - a + 2) PROVE s[m] = t[m]
    <2>1. t[m] = a + m - 1
      BY MessagesSeq
    <2>2. CASE m = b - a + 2
      BY <1>0, <2>1, <2>2
    <2>3. CASE m # b - a + 2
      <3>1. m \in 1 .. (b - a + 1)
        BY <2>3
      <3>2. s[m] = Messages(a, b)[m]
        BY <1>0, <3>1
      <3> QED BY <2>1, <3>1, <3>2, MessagesSeq
    <2> QED BY <2>2, <2>3
  <1> HIDE DEF s, t
  <1>4. s = t
    BY <1>1, <1>2, <1>3, SeqEqual
  <1> QED BY <1>4 DEF s, t

LEMMA MessagesNone == ASSUME NEW a \in Int PROVE Messages(a, a - 1) = <<>>
  <1>1. Messages(a, a - 1) \in Seq(Int) /\ Len(Messages(a, a - 1)) = 0
    BY MessagesSeq
  <1> QED BY <1>1

\* A filled file is not empty.
LEMMA BlockExists ==
    ASSUME NEW b \in Int
    PROVE  Block(b) # Nothing /\ Block(b) \in Seq(Int) /\ Len(Block(b)) = maxsize
  <1> DEFINE x == b * maxsize
  <1>1. x + 1 \in Int /\ x + maxsize \in Int /\ x + 1 <= x + maxsize + 1 /\ (x + maxsize) - (x + 1) + 1 = maxsize
    OBVIOUS
  <1> HIDE DEF x
  <1>2. Messages(x + 1, x + maxsize) \in Seq(Int) /\ Len(Messages(x + 1, x + maxsize)) = maxsize
    BY <1>1, MessagesSeq
  <1>3. Messages(x + 1, x + maxsize) # <<>>
    BY <1>2
  <1> QED BY <1>2, <1>3 DEF Block, x, Nothing

-----------------------------------------------------------------------------
(* What is done to files *)

LEMMA FileFacts ==
    /\ Live \in Files /\ Live \notin Ids /\ Ids \subseteq Nat /\ Ids \subseteq Files
    /\ Nothing \in Contents /\ DOMAIN Nothing = {}
    /\ 1 .. cachemax \subseteq Ids
  BY DEF Files, Live, Ids, Contents, Nothing

\* A file that is moved over another.
LEMMA RenameKeeps ==
    ASSUME DiskInv, NEW from \in Files, NEW to \in Files, from # to, to < 2 * cachemax + failures,
           rename(from, to), UNCHANGED <<written, failures>>
    PROVE  DiskInv'
  <1>1. CASE ~fc_file_exist(from)
    BY <1>1 DEF DiskInv, DiskBound, Fresh, NoDuplicates, rename
  <1>2. CASE fc_file_exist(from)
    <2>0. disk \in [Files -> Contents]
      BY DEF DiskInv
    <2>1. disk' = [disk EXCEPT ![to] = disk[from], ![from] = Nothing] /\ files' = (files \ {from}) \cup {to}
      BY <1>2 DEF rename
    <2>2. disk' \in [Files -> Contents] /\ files' \subseteq Files
      BY <2>0, <2>1, FileFacts DEF DiskInv
    <2>3. /\ disk'[to] = disk[from] /\ disk'[from] = Nothing
          /\ \A f \in Files : f # to /\ f # from => disk'[f] = disk[f]
      BY <2>0, <2>1
    <2>4. DiskBound'
      BY <2>1 DEF DiskInv, DiskBound
    <2>5. Fresh'
      BY <2>0, <2>2, <2>3, FileFacts DEF DiskInv, Fresh
    <2>6. NoDuplicates'
      <3> SUFFICES ASSUME NEW f \in Files, NEW g \in Files, NEW m \in DOMAIN disk'[f],
                          NEW n \in DOMAIN disk'[g], disk'[f][m] = disk'[g][n]
                   PROVE  f = g /\ m = n
        BY <2>2 DEF NoDuplicates
      <3>1. f # from /\ g # from
        BY <2>3, FileFacts
      <3>2. PICK f0 \in Files : disk'[f] = disk[f0] /\ (f = to => f0 = from) /\ (f # to => f0 = f)
        BY <2>3, <3>1
      <3>3. PICK g0 \in Files : disk'[g] = disk[g0] /\ (g = to => g0 = from) /\ (g # to => g0 = g)
        BY <2>3, <3>1
      <3>4. f0 = g0 /\ m = n
        BY <2>0, <3>2, <3>3 DEF DiskInv, NoDuplicates
      <3> QED BY <3>1, <3>2, <3>3, <3>4
    <2> QED BY <2>2, <2>4, <2>5, <2>6 DEF DiskInv
  <1> QED BY <1>1, <1>2

\* The oldest archive is removed.
LEMMA RemoveKeeps ==
    ASSUME DiskInv, NEW f \in Files, remove(f), UNCHANGED <<written, failures>>
    PROVE  DiskInv'
  <1>0. disk \in [Files -> Contents]
    BY DEF DiskInv
  <1>1. disk' \in [Files -> Contents] /\ files' \subseteq Files
    BY <1>0, FileFacts DEF DiskInv, remove
  <1>2. disk'[f] = Nothing /\ \A g \in Files : g # f => disk'[g] = disk[g]
    BY <1>0 DEF remove
  <1>3. DiskBound'
    BY DEF DiskInv, DiskBound, remove
  <1>4. Fresh'
    BY <1>0, <1>1, <1>2, FileFacts DEF DiskInv, Fresh
  <1>5. NoDuplicates'
    BY <1>0, <1>1, <1>2, FileFacts DEF DiskInv, NoDuplicates
  <1> QED BY <1>1, <1>3, <1>4, <1>5 DEF DiskInv

\* A new message behind the live file.
LEMMA AppendKeeps ==
    ASSUME DiskInv, written < MaxWritten, written' = written + 1, UNCHANGED <<files, failures>>,
           disk' = [disk EXCEPT ![Live] = Append(@, written')]
    PROVE  DiskInv'
  <1> DEFINE s == disk[Live]
  <1>0. disk \in [Files -> Contents] /\ s \in Seq(1 .. MaxWritten) /\ written \in 0 .. MaxWritten
    BY FileFacts DEF DiskInv, Contents
  <1>1. written' \in 1 .. MaxWritten
    BY <1>0
  <1>2. Append(s, written') \in Contents
    BY <1>0, <1>1 DEF Contents
  <1>3. disk' \in [Files -> Contents]
    BY <1>0, <1>2, FileFacts
  <1>4. disk'[Live] = Append(s, written') /\ \A g \in Files : g # Live => disk'[g] = disk[g]
    BY <1>0, FileFacts
  <1>5. /\ DOMAIN disk'[Live] = 1 .. (Len(s) + 1) /\ DOMAIN s = 1 .. Len(s) /\ Len(s) \in Nat
        /\ disk'[Live][Len(s) + 1] = written'
        /\ \A m \in 1 .. Len(s) : disk'[Live][m] = s[m]
    BY <1>0, <1>4
  <1>6. \A f \in Files : \A m \in DOMAIN disk[f] : disk[f][m] \in 1 .. written
    <2> SUFFICES ASSUME NEW f \in Files, NEW m \in DOMAIN disk[f] PROVE disk[f][m] \in 1 .. written
      OBVIOUS
    <2>1. disk[f] \in Seq(1 .. MaxWritten)
      BY <1>0 DEF Contents
    <2>2. disk[f][m] \in 1 .. MaxWritten
      BY <2>1
    <2>3. disk[f][m] <= written
      BY <1>0 DEF DiskInv, Fresh
    <2> QED BY <1>0, <2>2, <2>3
  <1>7. DiskBound'
    BY DEF DiskInv, DiskBound
  <1>8. Fresh'
    <2> SUFFICES ASSUME NEW f \in Files, NEW m \in DOMAIN disk'[f] PROVE disk'[f][m] <= written'
      BY <1>3 DEF Fresh
    <2>1. CASE f # Live
      BY <1>0, <1>4, <1>6, <2>1
    <2>2. CASE f = Live /\ m = Len(s) + 1
      BY <1>1, <1>5, <2>2
    <2>3. CASE f = Live /\ m # Len(s) + 1
      <3>1. m \in 1 .. Len(s)
        BY <1>5, <2>3
      <3>2. s[m] \in 1 .. written
        BY <1>5, <1>6, <3>1, FileFacts
      <3> QED BY <1>0, <1>5, <2>3, <3>1, <3>2
    <2> QED BY <2>1, <2>2, <2>3
  <1>9. NoDuplicates'
    <2> SUFFICES ASSUME NEW f \in Files, NEW g \in Files, NEW m \in DOMAIN disk'[f],
                        NEW n \in DOMAIN disk'[g], disk'[f][m] = disk'[g][n]
                 PROVE  f = g /\ m = n
      BY <1>3 DEF NoDuplicates
    <2>1. ASSUME NEW h \in Files, NEW x \in DOMAIN disk'[h]
          PROVE  \/ h = Live /\ x = Len(s) + 1 /\ disk'[h][x] = written'
                 \/ x \in DOMAIN disk[h] /\ disk'[h][x] = disk[h][x] /\ disk[h][x] \in 1 .. written
      <3>1. CASE h # Live
        BY <1>4, <1>6, <2>1, <3>1
      <3>2. CASE h = Live
        BY <1>5, <1>6, <2>1, <3>2
      <3> QED BY <3>1, <3>2
    <2>2. written' \notin 1 .. written
      BY <1>0
    <2>3. CASE disk'[f][m] = written'
      BY <2>1, <2>2, <2>3
    <2>4. CASE disk'[f][m] # written'
      <3>1. m \in DOMAIN disk[f] /\ n \in DOMAIN disk[g] /\ disk[f][m] = disk[g][n]
        BY <2>1, <2>4
      <3> QED BY <1>0, <3>1 DEF DiskInv, NoDuplicates
    <2> QED BY <2>3, <2>4
  <1> QED BY <1>0, <1>1, <1>3, <1>7, <1>8, <1>9 DEF DiskInv

\* No content changes; at most the live file is created.
LEMMA ContentsKept ==
    ASSUME DiskInv, UNCHANGED <<disk, written, failures>>, files' \subseteq files \cup {Live}
    PROVE  DiskInv'
  <1>1. failures \in Nat
    BY DEF DiskInv
  <1>2. Live < 2 * cachemax + failures
    BY <1>1 DEF Live
  <1>3. files' \subseteq Files
    BY FileFacts DEF DiskInv
  <1>4. DiskBound'
    BY <1>2 DEF DiskInv, DiskBound
  <1> QED BY <1>3, <1>4 DEF DiskInv, Fresh, NoDuplicates

-----------------------------------------------------------------------------
(* The safe invariant, action by action *)

LEMMA EmptyList == <<>> \in Seq(Ids) /\ Len(<<>>) = 0 /\ DOMAIN <<>> = {}
  OBVIOUS

LEMMA InitSafe == Init => SafeInv /\ ExactInv
  <1> SUFFICES ASSUME Init PROVE SafeInv /\ ExactInv
    OBVIOUS
  <1>1. disk \in [Files -> Contents] /\ \A f \in Files : disk[f] = Nothing
    BY FileFacts DEF Init, Files
  <1>2. DiskInv
    BY <1>1, FileFacts DEF Init, DiskInv, DiskBound, Fresh, NoDuplicates
  <1>3. MemoryInv
    <2>1. Counted
      BY EmptyList DEF Init, Counted
    <2>2. Bounded
      BY EmptyList DEF Init, Bounded
    <2>3. crashes \in 0 .. MaxCrashes /\ i \in Nat /\ cachenum \in Nat /\ failures = 0
      BY DEF Init
    <2>4. caches \in Seq(Ids)
      BY EmptyList DEF Init
    <2>5. initFinish \in BOOLEAN /\ pc = "idle"
      BY Zenon DEF Init
    <2> QED BY <2>1, <2>2, <2>3, <2>4, <2>5 DEF MemoryInv
  <1>4. Messages(1, 0) = <<>>
    BY MessagesNone
  <1>5. disk[Live] = <<>> /\ Len(disk[Live]) = 0 /\ \A n \in Ids : disk[n] = Nothing
    BY <1>1, FileFacts DEF Nothing, Files
  <1>6. cachenum * maxsize = 0 /\ written = 0 /\ cachenum = 0 /\ caches = <<>> /\ pc = "idle"
        /\ files = {}
    BY DEF Init
  <1>7. /\ ~initFinish => cachenum = 0
        /\ \A n \in Ids : n \in files <=> disk[n] # Nothing
        /\ disk[Live] # Nothing => Live \in files
    BY <1>5, <1>6 DEF Nothing
  <1>8. Exact
    BY <1>4, <1>5, <1>6, <1>7 DEF Exact
  <1> QED BY <1>2, <1>3, <1>8 DEF SafeInv, ExactInv

LEMMA BeginWriteSafe == SafeInv /\ BeginWrite => SafeInv'
  <1> SUFFICES ASSUME SafeInv, BeginWrite PROVE SafeInv'
    OBVIOUS
  <1>1. UNCHANGED <<disk, files, caches, cachenum, initFinish, written, crashes, failures>>
    BY DEF BeginWrite, memory
  <1>2. DiskInv'
    BY <1>1 DEF SafeInv, DiskInv, DiskBound, Fresh, NoDuplicates
  <1>3. MemoryInv'
    BY <1>1 DEF SafeInv, MemoryInv, Counted, Kept, Bounded, Moved, BeginWrite
  <1> QED BY <1>2, <1>3 DEF SafeInv

\* What appending to the list, dropping its head and counting up an entry do.
LEMMA ListSteps ==
    ASSUME NEW s \in Seq(Ids)
    PROVE  /\ Len(s) \in Nat /\ DOMAIN s = 1 .. Len(s) /\ \A j \in 1 .. Len(s) : s[j] \in Ids
           /\ \A id \in Ids : LET t == Append(s, id) IN
                 /\ t \in Seq(Ids) /\ Len(t) = Len(s) + 1 /\ DOMAIN t = 1 .. (Len(s) + 1)
                 /\ t[Len(s) + 1] = id /\ \A j \in 1 .. Len(s) : t[j] = s[j]
           /\ s # <<>> =>
                 /\ Head(s) = s[1] /\ Head(s) \in Ids /\ Tail(s) \in Seq(Ids)
                 /\ Len(Tail(s)) = Len(s) - 1 /\ DOMAIN Tail(s) = 1 .. (Len(s) - 1)
                 /\ \A j \in 1 .. (Len(s) - 1) : Tail(s)[j] = s[j + 1]
  OBVIOUS

\* What is at hand in every step.
LEMMA SafeFacts ==
    ASSUME SafeInv
    PROVE  /\ caches \in Seq(Ids) /\ i \in Nat /\ cachenum \in Nat /\ initFinish \in BOOLEAN
           /\ failures \in Nat /\ failures <= MaxFailures
           /\ Len(caches) \in Nat /\ DOMAIN caches = 1 .. Len(caches)
           /\ \A j \in 1 .. Len(caches) :
                 /\ caches[j] \in Ids /\ caches[j] \in Nat
                 /\ caches[j] <= cachemax + Len(caches) - j + Moved(j) + failures
  <1>1. caches \in Seq(Ids)
    BY DEF SafeInv, MemoryInv
  <1>2. i \in Nat /\ cachenum \in Nat /\ failures \in Nat /\ failures <= MaxFailures
    BY DEF SafeInv, DiskInv, MemoryInv
  <1>3. initFinish \in BOOLEAN
    BY Zenon DEF SafeInv, MemoryInv
  <1>4. /\ Len(caches) \in Nat /\ DOMAIN caches = 1 .. Len(caches)
        /\ \A j \in 1 .. Len(caches) : caches[j] \in Ids /\ caches[j] \in Nat
    BY <1>1, ListSteps, FileFacts
  <1>5. \A j \in 1 .. Len(caches) : caches[j] <= cachemax + Len(caches) - j + Moved(j) + failures
    BY <1>4 DEF SafeInv, MemoryInv, Bounded
  <1> QED BY <1>1, <1>2, <1>3, <1>4, <1>5

LEMMA Slack ==
    ASSUME NEW c \in Nat, NEW n \in Nat, NEW j \in Nat, NEW k \in Nat, NEW a \in 0 .. 1, NEW b \in 0 .. 1,
           c <= cachemax + n - j + a + k
    PROVE  c <= cachemax + n - j + b + (k + 1)
  OBVIOUS

\* There is no memory for another entry: the next archive may be numbered higher.
LEMMA AddFails ==
    ASSUME SafeInv, failures < MaxFailures, failures' = failures + 1,
           UNCHANGED <<disk, files, caches, cachenum, written>>,
           \A j \in DOMAIN caches : Moved(j) \in {0, 1} /\ Moved(j)' \in {0, 1}
    PROVE  DiskInv' /\ Bounded'
  <1>1. PICK k \in Nat : failures = k /\ failures' = k + 1 /\ k < MaxFailures
    BY SafeFacts
  <1>2. DiskBound'
    <2> SUFFICES ASSUME NEW f \in files PROVE f < 2 * cachemax + failures'
      BY DEF DiskBound
    <2>1. f \in Files
      BY DEF SafeInv, DiskInv
    <2>2. f \in Int
      BY <2>1 DEF Files, Live, Ids
    <2>3. f < 2 * cachemax + k
      BY <1>1 DEF SafeInv, DiskInv, DiskBound
    <2>4. f < 2 * cachemax + (k + 1)
      BY <2>2, <2>3
    <2> QED BY <1>1, <2>4
  <1>3. DiskInv'
    BY <1>1, <1>2 DEF SafeInv, DiskInv, Fresh, NoDuplicates
  <1>4. ASSUME NEW j \in DOMAIN caches
        PROVE  caches[j] <= cachemax + Len(caches) - j + Moved(j)' + failures'
    <2>1. PICK n \in Nat, c \in Nat : n = Len(caches) /\ c = caches[j] /\ j \in 1 .. n
      BY SafeFacts
    <2>2. PICK a \in 0 .. 1, b \in 0 .. 1 : a = Moved(j) /\ b = Moved(j)'
      OBVIOUS
    <2>3. c <= cachemax + n - j + a + k
      BY <1>1, <2>1, <2>2, SafeFacts
    <2>4. c <= cachemax + n - j + b + (k + 1)
      <3>1. j \in Nat
        BY <2>1
      <3> QED BY <2>3, <3>1, Slack
    <2> QED BY <1>1, <2>1, <2>2, <2>4
  <1> QED BY <1>3, <1>4 DEF Bounded

LEMMA InitLoopSafe == SafeInv /\ filecahce_init => SafeInv'
  <1> SUFFICES ASSUME SafeInv, filecahce_init PROVE SafeInv'
    OBVIOUS
  <1>0. /\ pc = "init" /\ ~initFinish /\ Len(caches) = cachenum /\ cachenum + i <= cachemax
        /\ UNCHANGED <<written, crashes>>
    BY DEF SafeInv, MemoryInv, Counted, filecahce_init
  <1>1. CASE i > 0 /\ fc_file_exist(i)
    <2>1. filecahce_item_add(i) /\ i' = i - 1 /\ UNCHANGED <<pc, initFinish>>
      BY <1>0, <1>1, SafeFacts DEF filecahce_init
    <2>2. \A j \in Nat : Moved(j)' = 0 /\ Moved(j) = 0
      BY <1>0, <2>1 DEF Moved
    <2>3. CASE cachenum' = cachenum + 1
      <3>1. /\ rename(Live, i) /\ caches' = Append(caches, i) /\ UNCHANGED failures
        BY <2>1, <2>3, SafeFacts DEF filecahce_item_add
      <3>2. i \in 1 .. cachemax /\ i \in Ids /\ i \in Files /\ i < 2 * cachemax + failures /\ Live # i
        BY <1>0, <1>1, SafeFacts DEF Ids, Files, Live
      <3>3. DiskInv'
        BY <1>0, <3>1, <3>2, FileFacts, RenameKeeps DEF SafeInv
      <3>4. /\ caches' \in Seq(Ids) /\ Len(caches') = Len(caches) + 1
            /\ DOMAIN caches' = 1 .. (Len(caches) + 1)
            /\ caches'[Len(caches) + 1] = i /\ \A j \in 1 .. Len(caches) : caches'[j] = caches[j]
        BY <3>1, <3>2, ListSteps, SafeFacts
      <3>5. Counted'
        BY <1>0, <1>1, <2>1, <2>3, <3>4, SafeFacts DEF Counted, SafeInv, MemoryInv
      <3>6. Bounded'
        <4> SUFFICES ASSUME NEW j \in DOMAIN caches'
                     PROVE  caches'[j] <= cachemax + Len(caches') - j + Moved(j)' + failures'
          BY DEF Bounded
        <4>1. CASE j = Len(caches) + 1
          BY <2>2, <3>1, <3>2, <3>4, <4>1, SafeFacts
        <4>2. CASE j # Len(caches) + 1
          <5>1. j \in 1 .. Len(caches) /\ j \in Nat
            BY <3>4, <4>2, SafeFacts
          <5> QED BY <2>2, <3>1, <3>4, <5>1, SafeFacts
        <4> QED BY <4>1, <4>2
      <3> QED BY <1>0, <1>1, <2>1, <2>3, <3>3, <3>4, <3>5, <3>6, SafeFacts DEF SafeInv, MemoryInv
    <2>4. CASE cachenum' # cachenum + 1
      <3>1. failures < MaxFailures /\ failures' = failures + 1 /\ UNCHANGED <<disk, files, caches, cachenum>>
        BY <2>1, <2>4 DEF filecahce_item_add
      <3>2. DiskInv' /\ Bounded'
        BY <1>0, <2>2, <3>1, AddFails, SafeFacts
      <3>3. Counted'
        BY <1>0, <1>1, <2>1, <3>1, SafeFacts DEF Counted, SafeInv, MemoryInv
      <3> QED BY <1>0, <1>1, <2>1, <3>1, <3>2, <3>3, SafeFacts DEF SafeInv, MemoryInv
    <2> QED BY <2>3, <2>4
  <1>2. CASE ~(i > 0 /\ fc_file_exist(i))
    <2>1. UNCHANGED <<disk, files, caches, cachenum, failures>>
      BY <1>2 DEF filecahce_init, memory
    <2>2. DiskInv'
      BY <1>0, <2>1, ContentsKept DEF SafeInv
    <2>3. \/ i > 0 /\ i' = i - 1 /\ UNCHANGED <<pc, initFinish>>
          \/ i = 0 /\ i' = i /\ initFinish' = TRUE /\ pc' = "check"
      BY <1>2 DEF filecahce_init, memory
    <2>4. Counted'
      BY <1>0, <2>1, <2>3, SafeFacts DEF Counted, Kept, SafeInv, MemoryInv
    <2>5. Bounded'
      BY <1>0, <2>1, <2>3, SafeFacts DEF Bounded, Moved, SafeInv, MemoryInv
    <2>6. i' \in Nat
      BY <2>3, SafeFacts
    <2>7. initFinish' \in BOOLEAN /\ pc' \in {"init", "check"}
      BY <1>0, <2>3, SafeFacts, Zenon
    <2> QED BY <1>0, <2>1, <2>2, <2>4, <2>5, <2>6, <2>7, SafeFacts DEF SafeInv, MemoryInv
  <1> QED BY <1>1, <1>2

LEMMA CheckSafe == SafeInv /\ Check => SafeInv'
  <1> SUFFICES ASSUME SafeInv, Check PROVE SafeInv'
    OBVIOUS
  <1>0. /\ pc = "check" /\ initFinish /\ UNCHANGED <<cachenum, initFinish, written, crashes, failures>>
        /\ cachenum < cachemax => Len(caches) = cachenum
        /\ cachenum >= cachemax => Len(caches) <= cachemax /\ (failures = 0 => Len(caches) = cachemax)
    BY SafeFacts DEF SafeInv, MemoryInv, Counted, Kept, Check
  <1>1. CASE filecache_full /\ cachenum >= cachemax
    <2>0. ~(cachenum < cachemax)
      BY <1>1, SafeFacts
    <2>1. remove(Head(caches)) /\ caches' = Tail(caches) /\ caches # <<>> /\ pc' = "shift" /\ i' = 1
      BY <1>1, <2>0 DEF Check
    <2>2. /\ Head(caches) \in Ids /\ Tail(caches) \in Seq(Ids)
          /\ Len(Tail(caches)) = Len(caches) - 1 /\ DOMAIN Tail(caches) = 1 .. (Len(caches) - 1)
          /\ \A j \in 1 .. (Len(caches) - 1) : Tail(caches)[j] = caches[j + 1]
      BY <2>1, ListSteps, SafeFacts
    <2>3. Len(caches) - 1 \in Nat
      BY <2>1, SafeFacts
    <2>4. DiskInv'
      <3>1. PICK f \in Files : f = Head(caches)
        BY <2>2, FileFacts
      <3> QED BY <1>0, <2>1, <3>1, RemoveKeeps DEF SafeInv
    <2>5. Counted'
      <3>1. written < MaxWritten /\ Kept' = cachemax - 1
        BY <1>0, <2>1 DEF Counted, Kept, SafeInv, MemoryInv
      <3>2. Len(caches') = Len(caches) - 1 /\ 1 \in 1 .. (Len(caches') + 1)
        BY <2>1, <2>2, <2>3
      <3>3. Len(caches') <= cachemax - 1 /\ (failures' = 0 => Len(caches') = cachemax - 1)
        BY <1>0, <1>1, <3>2, SafeFacts
      <3>4. initFinish' /\ ~(cachenum' < cachemax) /\ written' < MaxWritten /\ pc' = "shift" /\ i' = 1
        BY <1>0, <2>0, <2>1, <3>1
      <3> QED BY <3>1, <3>2, <3>3, <3>4 DEF Counted
    <2>6. Bounded'
      <3> SUFFICES ASSUME NEW j \in DOMAIN caches'
                   PROVE  caches'[j] <= cachemax + Len(caches') - j + Moved(j)' + failures'
        BY DEF Bounded
      <3>1. j \in 1 .. (Len(caches) - 1) /\ caches'[j] = caches[j + 1] /\ Len(caches') = Len(caches) - 1
            /\ j + 1 \in 1 .. Len(caches)
        BY <2>1, <2>2, SafeFacts
      <3>2. Moved(j)' = 0 /\ Moved(j + 1) = 0
        <4>1. ~(j < 1)
          BY <3>1
        <4> QED BY <1>0, <2>1, <4>1 DEF Moved
      <3>3. caches[j + 1] <= cachemax + Len(caches) - (j + 1) + Moved(j + 1) + failures
        BY <3>1, SafeFacts
      <3> QED BY <1>0, <3>1, <3>2, <3>3, SafeFacts
    <2> QED BY <1>0, <2>1, <2>2, <2>4, <2>5, <2>6, SafeFacts DEF SafeInv, MemoryInv
  <1>2. CASE ~(filecache_full /\ cachenum >= cachemax)
    <2>1. UNCHANGED <<disk, files, caches>>
      BY <1>2 DEF Check
    <2>2. DiskInv'
      BY <1>0, <2>1, ContentsKept DEF SafeInv
    <2>3. \/ pc' = "write" /\ i' = i
          \/ pc' = "shift" /\ i' = 1 /\ cachenum < cachemax
      BY <1>0, <1>2, SafeFacts DEF Check
    <2>4. Counted'
      BY <1>0, <2>1, <2>3, SafeFacts DEF Counted, Kept, SafeInv, MemoryInv
    <2>5. Bounded'
      BY <1>0, <2>1, <2>3, SafeFacts DEF Bounded, Moved, SafeInv, MemoryInv
    <2>6. pc' \in {"write", "shift"} /\ i' \in Nat
      BY <2>3, SafeFacts
    <2> QED BY <1>0, <2>1, <2>2, <2>4, <2>5, <2>6 DEF SafeInv, MemoryInv
  <1> QED BY <1>1, <1>2

LEMMA ShiftSafe == SafeInv /\ Shift => SafeInv'
  <1> SUFFICES ASSUME SafeInv, Shift PROVE SafeInv'
    OBVIOUS
  <1>0. /\ pc = "shift" /\ initFinish /\ UNCHANGED <<cachenum, initFinish, written, crashes, failures>>
        /\ Len(caches) <= cachemax - 1 /\ i \in 1 .. (Len(caches) + 1)
    BY SafeFacts DEF SafeInv, MemoryInv, Counted, Kept, Shift
  <1>1. CASE i <= Len(caches)
    <2>1. rename(caches[i], caches[i] + 1) /\ caches' = [caches EXCEPT ![i] = @ + 1]
          /\ i' = i + 1 /\ pc' = pc
      BY <1>0, <1>1, SafeFacts DEF Shift
    <2>2. i \in DOMAIN caches /\ Moved(i) = 0
      BY <1>0, <1>1, SafeFacts DEF Moved
    <2>3. caches[i] <= cachemax + Len(caches) - i + failures
      BY <1>0, <2>2, SafeFacts
    <2>4. caches[i] \in Ids /\ caches[i] + 1 \in Ids /\ caches[i] + 1 < 2 * cachemax + failures
      BY <1>0, <1>1, <2>2, <2>3, SafeFacts DEF Ids
    <2>5. DiskInv'
      <3>1. PICK v \in Ids : v = caches[i]
        BY <2>4
      <3>2. PICK w \in Ids : w = v + 1
        BY <2>4, <3>1
      <3>3. v \in Files /\ w \in Files /\ v # w /\ w < 2 * cachemax + failures /\ rename(v, w)
        BY <2>1, <2>4, <3>1, <3>2, FileFacts
      <3> QED BY <1>0, <3>3, RenameKeeps DEF SafeInv
    <2>6. /\ caches' \in Seq(Ids) /\ Len(caches') = Len(caches) /\ DOMAIN caches' = DOMAIN caches
          /\ caches'[i] = caches[i] + 1 /\ \A j \in DOMAIN caches : j # i => caches'[j] = caches[j]
      BY <2>1, <2>2, <2>4, SafeFacts
    <2>7. Counted'
      <3>1. i + 1 \in 1 .. (Len(caches') + 1)
        BY <1>0, <1>1, <2>6, SafeFacts
      <3>2. Kept' = Kept
        BY <2>1 DEF Kept
      <3> QED BY <1>0, <2>1, <2>6, <3>1, <3>2 DEF Counted, SafeInv, MemoryInv
    <2>8. Bounded'
      <3> SUFFICES ASSUME NEW j \in DOMAIN caches'
                   PROVE  caches'[j] <= cachemax + Len(caches') - j + Moved(j)' + failures'
        BY DEF Bounded
      <3>1. j \in 1 .. Len(caches)
        BY <2>6, SafeFacts
      <3>2. CASE j = i
        BY <1>0, <2>1, <2>3, <2>6, <3>2, SafeFacts DEF Moved
      <3>3. CASE j # i
        <4>1. Moved(j)' = Moved(j) /\ Moved(j) \in {0, 1}
          BY <1>0, <2>1, <3>1, <3>3, SafeFacts DEF Moved
        <4> QED BY <1>0, <2>6, <3>1, <3>3, <4>1, SafeFacts
      <3> QED BY <3>2, <3>3
    <2> QED BY <1>0, <2>1, <2>5, <2>6, <2>7, <2>8, SafeFacts DEF SafeInv, MemoryInv
  <1>2. CASE i > Len(caches)
    <2>1. UNCHANGED <<disk, files, caches, i>> /\ pc' = "add"
      BY <1>0, <1>2, SafeFacts DEF Shift
    <2>2. DiskInv'
      BY <1>0, <2>1, ContentsKept DEF SafeInv
    <2>3. Counted'
      BY <1>0, <1>2, <2>1, SafeFacts DEF Counted, Kept, SafeInv, MemoryInv
    <2>4. Bounded'
      BY <1>0, <2>1, SafeFacts DEF Bounded, Moved, SafeInv, MemoryInv
    <2> QED BY <1>0, <2>1, <2>2, <2>3, <2>4, SafeFacts DEF SafeInv, MemoryInv
  <1> QED BY <1>0, <1>1, <1>2, SafeFacts

LEMMA AddSafe == SafeInv /\ Add => SafeInv'
  <1> SUFFICES ASSUME SafeInv, Add PROVE SafeInv'
    OBVIOUS
  <1>0. /\ pc = "add" /\ initFinish /\ UNCHANGED <<i, initFinish, written, crashes>> /\ pc' = "write"
        /\ cachenum < cachemax => Len(caches) = cachenum
        /\ cachenum >= cachemax => Len(caches) <= cachemax - 1 /\ (failures = 0 => Len(caches) = cachemax - 1)
        /\ i = Len(caches) + 1 /\ filecahce_item_add(1)
    BY SafeFacts DEF SafeInv, MemoryInv, Counted, Kept, Add
  <1>1. (\A j \in Nat : Moved(j)' = 0) /\ (\A j \in 1 .. Len(caches) : Moved(j) = 1)
    BY <1>0, SafeFacts DEF Moved
  <1>2. CASE cachenum' = cachenum + 1
    <2>1. rename(Live, 1) /\ caches' = Append(caches, 1) /\ UNCHANGED failures
      BY <1>0, <1>2, SafeFacts DEF filecahce_item_add
    <2>2. 1 \in Ids /\ 1 \in Files /\ 1 < 2 * cachemax + failures /\ Live # 1
      BY SafeFacts DEF Ids, Files, Live
    <2>3. DiskInv'
      BY <1>0, <2>1, <2>2, FileFacts, RenameKeeps DEF SafeInv
    <2>4. /\ caches' \in Seq(Ids) /\ Len(caches') = Len(caches) + 1
          /\ DOMAIN caches' = 1 .. (Len(caches) + 1)
          /\ caches'[Len(caches) + 1] = 1 /\ \A j \in 1 .. Len(caches) : caches'[j] = caches[j]
      BY <2>1, <2>2, ListSteps, SafeFacts
    <2>5. Counted'
      BY <1>0, <1>2, <2>1, <2>4, SafeFacts DEF Counted, Kept, SafeInv, MemoryInv
    <2>6. Bounded'
      <3> SUFFICES ASSUME NEW j \in DOMAIN caches'
                   PROVE  caches'[j] <= cachemax + Len(caches') - j + Moved(j)' + failures'
        BY DEF Bounded
      <3>1. CASE j = Len(caches) + 1
        BY <1>1, <2>1, <2>4, <3>1, SafeFacts
      <3>2. CASE j # Len(caches) + 1
        <4>1. j \in 1 .. Len(caches) /\ j \in Nat
          BY <2>4, <3>2, SafeFacts
        <4>2. caches[j] <= cachemax + Len(caches) - j + 1 + failures
          BY <1>1, <4>1, SafeFacts
        <4> QED BY <1>1, <2>1, <2>4, <4>1, <4>2, SafeFacts
      <3> QED BY <3>1, <3>2
    <2>7. cachenum' \in Nat
      BY <1>2, SafeFacts
    <2> QED BY <1>0, <2>3, <2>4, <2>5, <2>6, <2>7 DEF SafeInv, MemoryInv
  <1>3. CASE cachenum' # cachenum + 1
    <2>1. failures < MaxFailures /\ failures' = failures + 1 /\ UNCHANGED <<disk, files, caches, cachenum>>
      BY <1>0, <1>3 DEF filecahce_item_add
    <2>2. DiskInv' /\ Bounded'
      BY <1>0, <1>1, <2>1, AddFails, SafeFacts
    <2>3. Counted'
      BY <1>0, <2>1, SafeFacts DEF Counted, Kept, SafeInv, MemoryInv
    <2> QED BY <1>0, <2>1, <2>2, <2>3, SafeFacts DEF SafeInv, MemoryInv
  <1> QED BY <1>2, <1>3

LEMMA OpenSafe == SafeInv /\ filecache_open => SafeInv'
  <1> SUFFICES ASSUME SafeInv, filecache_open PROVE SafeInv'
    OBVIOUS
  <1>1. /\ UNCHANGED <<disk, caches, cachenum, initFinish, written, crashes, failures>> /\ pc = "write"
        /\ (pc' = "fwrite" /\ i' = i /\ Live \in files') \/ (pc' = "idle" /\ i' = 0)
    BY DEF filecache_open, memory
  <1>2. DiskInv'
    BY <1>1, ContentsKept DEF SafeInv, filecache_open
  <1>3. Counted' /\ Bounded'
    BY <1>1, SafeFacts DEF SafeInv, MemoryInv, Counted, Kept, Bounded, Moved
  <1> QED BY <1>1, <1>2, <1>3 DEF SafeInv, MemoryInv

LEMMA WriteSafe == SafeInv /\ filecache_write => SafeInv'
  <1> SUFFICES ASSUME SafeInv, filecache_write PROVE SafeInv'
    OBVIOUS
  <1>1. UNCHANGED <<caches, cachenum, initFinish, crashes, failures>> /\ pc = "fwrite" /\ pc' = "idle" /\ i' = 0
    BY DEF filecache_write, memory
  <1>2. DiskInv'
    BY AppendKeeps DEF SafeInv, MemoryInv, Counted, filecache_write
  <1>3. Counted' /\ Bounded'
    BY <1>1 DEF SafeInv, MemoryInv, Counted, Kept, Bounded, Moved
  <1> QED BY <1>1, <1>2, <1>3 DEF SafeInv, MemoryInv

LEMMA CrashSafe == SafeInv /\ Crash => SafeInv'
  <1> SUFFICES ASSUME SafeInv, Crash PROVE SafeInv'
    OBVIOUS
  <1>1. DiskInv'
    BY DEF SafeInv, DiskInv, DiskBound, Fresh, NoDuplicates, Crash
  <1>2. MemoryInv'
    <2>1. Counted'
      BY EmptyList DEF Crash, Counted
    <2>2. Bounded'
      BY EmptyList DEF Crash, Bounded
    <2>3. crashes' \in 0 .. MaxCrashes
      BY DEF Crash, SafeInv, MemoryInv
    <2> QED BY <2>1, <2>2, <2>3, EmptyList DEF Crash, MemoryInv
  <1> QED BY <1>1, <1>2 DEF SafeInv

LEMMA StutterSafe == SafeInv /\ UNCHANGED vars => SafeInv'
  BY DEF SafeInv, DiskInv, DiskBound, Fresh, NoDuplicates, MemoryInv, Counted, Kept, Bounded, Moved, vars

LEMMA NextSafe == SafeInv /\ [Next]_vars => SafeInv'
  BY BeginWriteSafe, InitLoopSafe, CheckSafe, ShiftSafe, AddSafe, OpenSafe, WriteSafe, CrashSafe, StutterSafe
  DEF Next

-----------------------------------------------------------------------------
(* Exactness up to the first kill or failed allocation, action by action *)

LEMMA Products ==
    ASSUME NEW n \in Int
    PROVE  n * maxsize \in Int /\ (n + 1) * maxsize = n * maxsize + maxsize
  OBVIOUS

LEMMA Distributes ==
    ASSUME NEW a \in Int, NEW b \in Int
    PROVE  (a - b) * maxsize = a * maxsize - b * maxsize
  OBVIOUS

LEMMA OneLess == ASSUME NEW n \in Int PROVE (n - 1) * maxsize = n * maxsize - maxsize
  OBVIOUS

LEMMA Monotone ==
    ASSUME NEW a \in Int, NEW b \in Int
    PROVE  a * maxsize >= b * maxsize <=> b <= a
  OBVIOUS

\* What is at hand in every step.
LEMMA ExactFacts ==
    ASSUME SafeInv, Exact
    PROVE  /\ disk \in [Files -> Contents] /\ caches \in Seq(Ids)
           /\ i \in Nat /\ cachenum \in Nat /\ written \in Nat
           /\ Len(caches) \in Nat /\ DOMAIN caches = 1 .. Len(caches)
           /\ \A j \in 1 .. Len(caches) :
                 /\ caches[j] \in Ids /\ caches[j] \in Nat
                 /\ caches[j] = Len(caches) + 1 - j + Moved(j) /\ Moved(j) \in {0, 1}
                 /\ disk[caches[j]] = Block(cachenum - (Len(caches) + 1 - j))
                 /\ cachenum - (Len(caches) + 1 - j) \in Int
           /\ Len(disk[Live]) \in Nat /\ Live \in Files /\ Live \notin Ids
           /\ \A n \in Ids : n \in Files /\ n \in Nat
  <1>1. disk \in [Files -> Contents] /\ caches \in Seq(Ids) /\ i \in Nat /\ cachenum \in Nat /\ written \in Nat
    BY DEF SafeInv, DiskInv, MemoryInv
  <1>3. /\ Len(caches) \in Nat /\ DOMAIN caches = 1 .. Len(caches)
        /\ \A j \in 1 .. Len(caches) : caches[j] \in Ids
    BY <1>1, ListSteps
  <1>4. \A j \in 1 .. Len(caches) : cachenum - (Len(caches) + 1 - j) \in Int /\ Moved(j) \in {0, 1}
    BY <1>1, <1>3 DEF Moved
  <1>5. Len(disk[Live]) \in Nat
    BY <1>1, FileFacts DEF Contents
  <1>6. \A n \in Ids : n \in Files /\ n \in Nat
    BY FileFacts DEF Files
  <1> QED BY <1>1, <1>3, <1>4, <1>5, <1>6, FileFacts DEF Exact

LEMMA BeginWriteExact == SafeInv /\ Exact /\ BeginWrite => Exact'
  <1> SUFFICES ASSUME SafeInv, Exact, BeginWrite PROVE Exact'
    OBVIOUS
  <1>1. UNCHANGED <<disk, files, caches, cachenum, initFinish, written>> /\ pc = "idle" /\ pc' \in {"init", "check"}
    BY DEF BeginWrite, memory
  <1>2. \A j \in DOMAIN caches : Moved(j) = 0 /\ Moved(j)' = 0
    BY <1>1 DEF Moved
  <1> QED BY <1>1, <1>2 DEF Exact

\* The first process finds no archives.
LEMMA InitLoopExact == SafeInv /\ Exact /\ filecahce_init => Exact'
  <1> SUFFICES ASSUME SafeInv, Exact, filecahce_init PROVE Exact'
    OBVIOUS
  <1>1. pc = "init" /\ cachenum = 0 /\ Len(caches) = 0 /\ i \in Nat /\ cachenum + i <= cachemax
    BY DEF filecahce_init, SafeInv, MemoryInv, Counted, Exact
  <1>2. DOMAIN caches = {}
    BY <1>1, ExactFacts
  <1>3. i > 0 => i \in Ids
    BY <1>1 DEF Ids
  <1>4. ~(i > 0 /\ fc_file_exist(i))
    BY <1>2, <1>3 DEF Exact, fc_file_exist
  <1>5. UNCHANGED <<disk, files, caches, cachenum, written>> /\ pc' \in {"init", "check"}
    BY <1>1, <1>4 DEF filecahce_init, memory
  <1> QED BY <1>1, <1>2, <1>5 DEF Exact

LEMMA CheckExact == SafeInv /\ failures = 0 /\ Exact /\ Check => Exact'
  <1> SUFFICES ASSUME SafeInv, failures = 0, Exact, Check PROVE Exact'
    OBVIOUS
  <1> DEFINE n == Len(caches)
  <1>0. pc = "check" /\ initFinish /\ UNCHANGED <<cachenum, initFinish, written>>
    BY DEF Check, SafeInv, MemoryInv, Counted
  <1>1. \A j \in Nat : Moved(j) = 0
    BY <1>0 DEF Moved
  <1>2. CASE filecache_full /\ cachenum >= cachemax
    <2>0. ~(cachenum < cachemax)
      BY <1>2, ExactFacts
    <2>1. remove(Head(caches)) /\ caches' = Tail(caches) /\ pc' = "shift" /\ i' = 1
      BY <1>2, <2>0 DEF Check
    <2>2. n = cachemax /\ caches # <<>>
      BY <1>0, <2>0 DEF SafeInv, MemoryInv, Counted, Kept
    <2>3. /\ Head(caches) = caches[1] /\ Head(caches) \in Ids
          /\ Len(caches') = n - 1 /\ DOMAIN caches' = 1 .. (n - 1)
          /\ \A j \in 1 .. (n - 1) : caches'[j] = caches[j + 1]
      BY <2>1, <2>2, ExactFacts, ListSteps
    <2>4. /\ disk'[Head(caches)] = Nothing /\ \A f \in Files : f # Head(caches) => disk'[f] = disk[f]
          /\ files' = files \ {Head(caches)}
      BY <2>1, <2>3, ExactFacts DEF remove
    <2>5. disk'[Live] = disk[Live] /\ Len(disk[Live]) = maxsize
      <3>1. Len(disk[Live]) <= maxsize
        BY DEF Exact
      <3> QED BY <1>2, <2>3, <2>4, <3>1, ExactFacts DEF filecache_full
    <2>6. caches[1] = n
      BY <1>1, <2>2, ExactFacts
    <2>7. ASSUME NEW j \in DOMAIN caches'
          PROVE  /\ caches'[j] = Len(caches') + 1 - j + Moved(j)'
                 /\ disk'[caches'[j]] = Block(cachenum - (Len(caches') + 1 - j))
      <3>1. j \in 1 .. (n - 1) /\ j + 1 \in 1 .. n /\ j + 1 \in Nat
        BY <2>3, ExactFacts
      <3>2. caches'[j] = caches[j + 1] /\ Moved(j)' = 0
        BY <2>1, <2>3, <3>1 DEF Moved
      <3>3. caches[j + 1] = n + 1 - (j + 1)
        BY <1>1, <3>1, ExactFacts
      <3>4. caches[j + 1] # Head(caches) /\ caches[j + 1] \in Files
        BY <2>3, <2>6, <3>1, <3>3, ExactFacts
      <3>5. disk'[caches'[j]] = Block(cachenum - (n + 1 - (j + 1)))
        BY <2>4, <3>1, <3>2, <3>4, ExactFacts
      <3>6. n + 1 - (j + 1) = Len(caches') + 1 - j
        BY <2>3, <3>1, ExactFacts
      <3> QED BY <3>1, <3>2, <3>3, <3>5, <3>6, ExactFacts
    <2>8. ASSUME NEW f \in Ids, \A j \in DOMAIN caches' : caches'[j] # f
          PROVE  disk'[f] = Nothing
      <3>1. CASE f = Head(caches)
        BY <2>4, <3>1
      <3>2. CASE f # Head(caches)
        <4>1. ASSUME NEW j \in DOMAIN caches PROVE caches[j] # f
          <5>1. CASE j = 1
            BY <2>3, <3>2, <5>1
          <5>2. CASE j # 1
            <6>1. j - 1 \in 1 .. (n - 1) /\ (j - 1) + 1 = j
              BY <4>1, <5>2, ExactFacts
            <6> QED BY <2>3, <2>8, <6>1
          <5> QED BY <5>1, <5>2
        <4> QED BY <2>4, <3>2, <4>1, ExactFacts DEF Exact
      <3> QED BY <3>1, <3>2
    <2>9. (\A f \in Ids : f \in files' <=> disk'[f] # Nothing) /\ (disk'[Live] # Nothing => Live \in files')
      BY <2>3, <2>4, <2>5, ExactFacts DEF Exact
    <2> QED BY <1>0, <2>1, <2>5, <2>7, <2>8, <2>9 DEF Exact
  <1>3. CASE ~(filecache_full /\ cachenum >= cachemax)
    <2>1. UNCHANGED <<disk, files, caches>>
      BY <1>3 DEF Check
    <2>2. \/ pc' = "write" /\ ~filecache_full
          \/ pc' = "shift" /\ filecache_full /\ i' = 1
      BY <1>3 DEF Check
    <2>3. \A j \in DOMAIN caches : Moved(j)' = 0 /\ Moved(j) = 0
      BY <1>1, <2>2, ExactFacts DEF Moved
    <2>4. pc' \in {"shift", "add"} => Len(disk[Live]) = maxsize
      BY <2>2, ExactFacts DEF Exact, filecache_full
    <2>5. pc' \in {"write", "fwrite"} => Len(disk[Live]) < maxsize
      BY <2>2, ExactFacts DEF filecache_full
    <2>6. \A j \in DOMAIN caches : caches[j] = Len(caches) + 1 - j + Moved(j)'
      BY <2>3 DEF Exact
    <2> HIDE DEF n
    <2> QED BY <1>0, <2>1, <2>4, <2>5, <2>6 DEF Exact
  <1> QED BY <1>2, <1>3

LEMMA ShiftExact == SafeInv /\ Exact /\ Shift => Exact'
  <1> SUFFICES ASSUME SafeInv, Exact, Shift PROVE Exact'
    OBVIOUS
  <1> DEFINE n == Len(caches)
  <1>0. pc = "shift" /\ initFinish /\ UNCHANGED <<cachenum, initFinish, written>> /\ i \in 1 .. (n + 1)
    BY DEF Shift, SafeInv, MemoryInv, Counted
  <1>1. CASE i <= n
    <2>1. rename(caches[i], caches[i] + 1) /\ caches' = [caches EXCEPT ![i] = @ + 1]
          /\ i' = i + 1 /\ pc' = "shift"
      BY <1>0, <1>1, ExactFacts DEF Shift
    <2>2. i \in 1 .. n /\ Moved(i) = 0
      BY <1>0, <1>1, ExactFacts DEF Moved
    <2> DEFINE v == caches[i]
    <2>3. v = n + 1 - i /\ v \in Ids /\ v \in Nat /\ disk[v] = Block(cachenum - (n + 1 - i))
          /\ cachenum - (n + 1 - i) \in Int
      BY <2>2, ExactFacts
    <2>4. n <= cachemax - 1
      BY <1>0, ExactFacts DEF SafeInv, MemoryInv, Counted, Kept
    <2>5. v + 1 \in Ids
      BY <2>2, <2>3, <2>4, ExactFacts DEF Ids
    <2>6. fc_file_exist(v)
      BY <2>3, BlockExists DEF Exact, fc_file_exist
    <2>7. /\ disk'[v + 1] = disk[v] /\ disk'[v] = Nothing
          /\ \A f \in Files : f # v /\ f # v + 1 => disk'[f] = disk[f]
          /\ files' = (files \ {v}) \cup {v + 1}
      <3>1. PICK a \in Ids, b \in Ids : a = v /\ b = v + 1
        BY <2>3, <2>5
      <3>2. a # b /\ a \in Files /\ b \in Files
        BY <2>3, <3>1, ExactFacts
      <3>3. disk' = [disk EXCEPT ![b] = disk[a], ![a] = Nothing] /\ files' = (files \ {a}) \cup {b}
        BY <2>1, <2>6, <3>1 DEF rename
      <3>4. /\ disk'[b] = disk[a] /\ disk'[a] = Nothing
            /\ \A f \in Files : f # a /\ f # b => disk'[f] = disk[f]
        BY <3>2, <3>3, ExactFacts
      <3> QED BY <3>1, <3>3, <3>4
    <2>8. /\ Len(caches') = n /\ DOMAIN caches' = 1 .. n
          /\ caches'[i] = v + 1 /\ \A j \in 1 .. n : j # i => caches'[j] = caches[j]
      BY <2>1, <2>2, ExactFacts
    <2>9. disk'[Live] = disk[Live]
      BY <2>3, <2>5, <2>7, ExactFacts
    <2>10. ASSUME NEW j \in 1 .. n, j # i
           PROVE  caches[j] # v /\ caches[j] # v + 1 /\ Moved(j)' = Moved(j)
      <3>1. Moved(j) = IF j < i THEN 1 ELSE 0
        BY <1>0 DEF Moved
      <3>2. Moved(j)' = IF j < i + 1 THEN 1 ELSE 0
        BY <2>1 DEF Moved
      <3>3. j < i + 1 <=> j < i
        BY <2>2, <2>10, ExactFacts
      <3>4. caches[j] = n + 1 - j + Moved(j) /\ i \in 1 .. n /\ n \in Nat /\ v = n + 1 - i
        BY <2>2, <2>3, ExactFacts
      <3> HIDE DEF n, v
      <3>5. CASE j < i
        BY <3>1, <3>2, <3>3, <3>4, <3>5
      <3>6. CASE j > i
        BY <3>1, <3>2, <3>3, <3>4, <3>6
      <3> QED BY <2>10, <3>4, <3>5, <3>6
    <2>11. ASSUME NEW j \in DOMAIN caches'
           PROVE  /\ caches'[j] = Len(caches') + 1 - j + Moved(j)'
                  /\ disk'[caches'[j]] = Block(cachenum - (Len(caches') + 1 - j))
      <3>1. CASE j = i
        <4>1. Moved(j)' = 1
          BY <2>1, <2>2, <3>1, ExactFacts DEF Moved
        <4> QED BY <2>2, <2>3, <2>7, <2>8, <3>1, <4>1, ExactFacts
      <3>2. CASE j # i
        <4>1. j \in 1 .. n /\ caches'[j] = caches[j] /\ caches[j] \in Files
          BY <2>8, <3>2, ExactFacts
        <4> QED BY <2>7, <2>8, <2>10, <3>2, <4>1, ExactFacts
      <3> QED BY <3>1, <3>2
    <2>12. ASSUME NEW f \in Ids, \A j \in DOMAIN caches' : caches'[j] # f
           PROVE  disk'[f] = Nothing
      <3>1. f # v + 1
        BY <2>2, <2>8, <2>12
      <3>2. CASE f = v
        BY <2>7, <3>2
      <3>3. CASE f # v
        <4>1. \A j \in DOMAIN caches : caches[j] # f
          BY <2>8, <2>12, <3>3, ExactFacts
        <4> QED BY <2>7, <3>1, <3>3, <4>1, ExactFacts DEF Exact
      <3> QED BY <3>2, <3>3
    <2>13. (\A f \in Ids : f \in files' <=> disk'[f] # Nothing) /\ (disk'[Live] # Nothing => Live \in files')
      <3>1. disk[v] # Nothing /\ v # v + 1 /\ Live # v
        <4>1. PICK b \in Int : disk[v] = Block(b)
          BY <2>3
        <4>2. disk[v] # Nothing
          BY <4>1, BlockExists
        <4> QED BY <2>3, <4>2, ExactFacts
      <3> QED BY <2>3, <2>5, <2>7, <2>9, <3>1, ExactFacts DEF Exact
    <2> QED BY <1>0, <2>1, <2>9, <2>11, <2>12, <2>13 DEF Exact
  <1>2. CASE i > n
    <2>1. UNCHANGED <<disk, files, caches, i>> /\ pc' = "add"
      BY <1>0, <1>2, ExactFacts DEF Shift
    <2>2. \A j \in DOMAIN caches : Moved(j)' = Moved(j)
      BY <1>0, <2>1 DEF Moved
    <2> QED BY <1>0, <2>1, <2>2 DEF Exact
  <1> QED BY <1>0, <1>1, <1>2, ExactFacts

LEMMA AddExact == SafeInv /\ failures' = failures /\ Exact /\ Add => Exact'
  <1> SUFFICES ASSUME SafeInv, failures' = failures, Exact, Add PROVE Exact'
    OBVIOUS
  <1> DEFINE n == Len(caches)
             x == cachenum * maxsize
  <1>0. /\ pc = "add" /\ initFinish /\ UNCHANGED <<initFinish, written, i>> /\ pc' = "write"
        /\ i = n + 1 /\ cachenum' = cachenum + 1 /\ rename(Live, 1) /\ caches' = Append(caches, 1)
    BY SafeFacts DEF Add, SafeInv, MemoryInv, Counted, filecahce_item_add
  <1>1. x \in Int /\ cachenum' * maxsize = x + maxsize /\ cachenum \in Int
    <2>1. cachenum \in Int
      BY ExactFacts
    <2>2. x \in Int /\ (cachenum + 1) * maxsize = x + maxsize
      BY <2>1, Products
    <2> QED BY <1>0, <2>1, <2>2
  <1>2. Len(disk[Live]) = maxsize /\ written = x + maxsize
    BY <1>0, <1>1 DEF Exact
  <1>3. disk[Live] = Block(cachenum)
    BY <1>2 DEF Exact, Block
  <1>4. fc_file_exist(Live)
    BY <1>1, <1>3, BlockExists DEF Exact, fc_file_exist
  <1>5. 1 \in Ids /\ 1 \in Files /\ Live # 1
    BY DEF Ids, Files, Live
  <1>6. /\ disk'[1] = Block(cachenum) /\ disk'[Live] = Nothing
        /\ \A f \in Files : f # 1 /\ f # Live => disk'[f] = disk[f]
        /\ files' = (files \ {Live}) \cup {1}
    BY <1>0, <1>3, <1>4, <1>5, ExactFacts DEF rename
  <1>7. /\ Len(caches') = n + 1 /\ DOMAIN caches' = 1 .. (n + 1)
        /\ caches'[n + 1] = 1 /\ \A j \in 1 .. n : caches'[j] = caches[j]
    BY <1>0, <1>5, ExactFacts, ListSteps
  <1>8. Len(disk'[Live]) = 0 /\ disk'[Live] = Messages(cachenum' * maxsize + 1, written')
    <2>1. Messages(x + maxsize + 1, (x + maxsize + 1) - 1) = <<>> /\ (x + maxsize + 1) - 1 = x + maxsize
      BY <1>1, MessagesNone
    <2> QED BY <1>0, <1>1, <1>2, <1>6, <2>1 DEF Nothing
  <1>9. \A j \in Nat : Moved(j)' = 0
    BY <1>0 DEF Moved
  <1>10. \A j \in 1 .. n : Moved(j) = 1
    BY <1>0, ExactFacts DEF Moved
  <1>11. ASSUME NEW j \in DOMAIN caches'
         PROVE  /\ caches'[j] = Len(caches') + 1 - j + Moved(j)'
                /\ disk'[caches'[j]] = Block(cachenum' - (Len(caches') + 1 - j))
    <2>1. CASE j = n + 1
      <3>1. cachenum' - (Len(caches') + 1 - j) = cachenum
        BY <1>0, <1>7, <2>1, ExactFacts
      <3> QED BY <1>6, <1>7, <1>9, <2>1, <3>1, ExactFacts
    <2>2. CASE j # n + 1
      <3>1. j \in 1 .. n /\ j \in Nat /\ caches'[j] = caches[j]
        BY <1>7, <2>2, ExactFacts
      <3>2. caches[j] = n + 1 - j + 1 /\ caches[j] \in Files /\ caches[j] # 1 /\ caches[j] # Live
        BY <1>10, <3>1, ExactFacts
      <3>3. disk'[caches'[j]] = Block(cachenum - (n + 1 - j))
        BY <1>6, <3>1, <3>2, ExactFacts
      <3>4. cachenum - (n + 1 - j) = cachenum' - (Len(caches') + 1 - j)
        BY <1>0, <1>7, <3>1, ExactFacts
      <3> QED BY <1>7, <1>9, <3>1, <3>2, <3>3, <3>4, ExactFacts
    <2> QED BY <2>1, <2>2
  <1>12. ASSUME NEW f \in Ids, \A j \in DOMAIN caches' : caches'[j] # f
         PROVE  disk'[f] = Nothing
    <2>1. f # 1
      BY <1>7, <1>12, ExactFacts
    <2>2. \A j \in DOMAIN caches : caches[j] # f
      BY <1>7, <1>12, ExactFacts
    <2> QED BY <1>6, <2>1, <2>2, ExactFacts DEF Exact
  <1>13. written' = cachenum' * maxsize + Len(disk'[Live])
    <2> HIDE DEF x
    <2>1. written' = (x + maxsize) + 0
      BY <1>0, <1>1, <1>2
    <2> QED BY <1>1, <1>8, <2>1
  <1>14. ~(pc' \in {"shift", "add"}) /\ 0 <= maxsize /\ 0 < maxsize
    BY <1>0
  <1>15. (\A f \in Ids : f \in files' <=> disk'[f] # Nothing) /\ (disk'[Live] # Nothing => Live \in files')
    BY <1>1, <1>5, <1>6, BlockExists, ExactFacts DEF Exact
  <1> QED BY <1>0, <1>8, <1>11, <1>12, <1>13, <1>14, <1>15 DEF Exact

LEMMA OpenExact == SafeInv /\ Exact /\ filecache_open => Exact'
  <1> SUFFICES ASSUME SafeInv, Exact, filecache_open PROVE Exact'
    OBVIOUS
  <1>1. UNCHANGED <<disk, caches, cachenum, initFinish, written>> /\ pc = "write" /\ pc' \in {"fwrite", "idle"}
        /\ files' \in {files, files \cup {Live}}
    BY DEF filecache_open, memory
  <1>2. \A j \in DOMAIN caches : Moved(j)' = 0 /\ Moved(j) = 0
    BY <1>1 DEF Moved
  <1>3. (\A f \in Ids : f \in files' <=> f \in files) /\ (Live \in files => Live \in files')
    BY <1>1, ExactFacts
  <1> QED BY <1>1, <1>2, <1>3 DEF Exact

LEMMA WriteExact == SafeInv /\ Exact /\ filecache_write => Exact'
  <1> SUFFICES ASSUME SafeInv, Exact, filecache_write PROVE Exact'
    OBVIOUS
  <1> DEFINE x == cachenum * maxsize
  <1>0. pc = "fwrite" /\ pc' = "idle" /\ UNCHANGED <<files, caches, cachenum, initFinish>>
        /\ written' = written + 1 /\ disk' = [disk EXCEPT ![Live] = Append(@, written + 1)]
    BY DEF filecache_write, memory
  <1>1. /\ disk'[Live] = Append(disk[Live], written + 1)
        /\ \A f \in Files : f # Live => disk'[f] = disk[f]
    BY <1>0, ExactFacts
  <1>2. x \in Int /\ written = x + Len(disk[Live]) /\ Len(disk[Live]) < maxsize /\ Len(disk[Live]) \in Nat
        /\ disk[Live] = Messages(x + 1, written)
    <2>1. x \in Int
      BY Products, ExactFacts
    <2> QED BY <1>0, <2>1, ExactFacts DEF Exact
  <1>3. disk'[Live] = Messages(x + 1, written + 1)
    <2> HIDE DEF x
    <2>1. x + 1 \in Int /\ written \in Int /\ x + 1 <= written + 1
      BY <1>2
    <2>2. Append(Messages(x + 1, written), written + 1) = Messages(x + 1, written + 1)
      BY <2>1, MessagesAppend
    <2> QED BY <1>1, <1>2, <2>2
  <1>4. Len(disk'[Live]) = Len(disk[Live]) + 1
    <2>1. disk[Live] \in Seq(1 .. MaxWritten)
      BY ExactFacts DEF Contents
    <2> QED BY <1>1, <2>1
  <1>5. \A j \in DOMAIN caches : Moved(j)' = 0 /\ Moved(j) = 0
    BY <1>0 DEF Moved
  <1>6. \A f \in Ids : disk'[f] = disk[f]
    BY <1>1, ExactFacts
  <1>7. \A j \in DOMAIN caches : disk'[caches[j]] = disk[caches[j]]
    BY <1>6, ExactFacts
  <1>8. written' = x + Len(disk'[Live]) /\ Len(disk'[Live]) <= maxsize
    BY <1>0, <1>2, <1>4
  <1>9. Live \in files
    BY <1>0 DEF SafeInv, MemoryInv, Counted
  <1>10. /\ \A j \in DOMAIN caches' : caches'[j] = Len(caches') + 1 - j + Moved(j)'
         /\ \A j \in DOMAIN caches' : disk'[caches'[j]] = Block(cachenum' - (Len(caches') + 1 - j))
    BY <1>0, <1>5, <1>7 DEF Exact
  <1>11. /\ \A n \in Ids : (\A j \in DOMAIN caches' : caches'[j] # n) => disk'[n] = Nothing
         /\ \A n \in Ids : n \in files' <=> disk'[n] # Nothing
    BY <1>0, <1>6 DEF Exact
  <1>12. ~initFinish' => cachenum' = 0
    BY <1>0 DEF Exact
  <1> QED BY <1>0, <1>3, <1>8, <1>9, <1>10, <1>11, <1>12 DEF Exact

LEMMA NextExact == SafeInv /\ ExactInv /\ [Next]_vars => ExactInv'
  <1> SUFFICES ASSUME SafeInv, ExactInv, [Next]_vars, crashes' = 0, failures' = 0 PROVE Exact'
    BY DEF ExactInv
  <1>1. CASE Crash
    BY <1>1 DEF Crash, SafeInv, MemoryInv
  <1>2. CASE ~Crash
    <2>1. crashes = 0
      BY <1>2 DEF Next, BeginWrite, filecahce_init, Check, Shift, Add, filecache_open, filecache_write, vars
    <2>2. failures = 0
      <3>1. failures' = failures \/ failures' = failures + 1
        BY <1>2 DEF Next, BeginWrite, filecahce_init, filecahce_item_add, Check, Shift, Add, filecache_open,
                    filecache_write, vars
      <3> QED BY <3>1, SafeFacts
    <2>3. Exact
      BY <2>1, <2>2 DEF ExactInv
    <2>4. CASE UNCHANGED vars
      BY <2>3, <2>4 DEF Exact, Moved, vars
    <2> QED BY <1>2, <2>2, <2>3, <2>4, BeginWriteExact, InitLoopExact, CheckExact, ShiftExact, AddExact,
               OpenExact, WriteExact DEF Next
  <1> QED BY <1>1, <1>2

-----------------------------------------------------------------------------
(* The theorems *)

LEMMA Safe == Spec => [](SafeInv /\ ExactInv)
  <1>1. SafeInv /\ ExactInv /\ [Next]_vars => (SafeInv /\ ExactInv)'
    BY NextSafe, NextExact
  <1> QED BY <1>1, InitSafe, PTL DEF Spec

\* Type correctness: in particular every archive ever named has a number up to
\* 2 * cachemax and as many more as allocations failed, and the list holds no
\* other.
THEOREM TypeCorrect == Spec => []TypeOK
  <1>1. SafeInv => TypeOK
    BY DEF SafeInv, DiskInv, MemoryInv, TypeOK, Files, Contents
  <1> QED BY <1>1, Safe, PTL

\* However often the process is killed in the middle of a rotation, the archives
\* it leaves behind are numbered below 2 * cachemax, plus one for every
\* allocation that failed: filecahce_update renames no archive to a higher number.
THEOREM DiskAlwaysBounded == Spec => []DiskBound
  <1>1. SafeInv => DiskBound
    BY DEF SafeInv, DiskInv
  <1> QED BY <1>1, Safe, PTL

\* However often the process is killed, no message is in two files, nor twice in
\* one: every rename of a rotation replaces or moves a file, and none copies it.
THEOREM NeverDuplicated == Spec => []NoDuplicates
  <1>1. SafeInv => NoDuplicates
    BY DEF SafeInv, DiskInv
  <1> QED BY <1>1, Safe, PTL

\* Until it is killed or an allocation fails, the process keeps exactly the latest messages: after every
\* bk_filecache_write archive n is the n-th full file before the live one.
THEOREM ArchivesAlwaysExact == Spec => []ArchivesExact
  <1>1. ASSUME SafeInv, ExactInv, pc = "idle", crashes = 0, failures = 0
        PROVE  LET old == written - Len(disk[Live])
               IN  /\ disk[Live] = Messages(old + 1, written)
                   /\ \A n \in 1 .. cachemax :
                         disk[n] = IF old >= n * maxsize
                                   THEN Messages(old - n * maxsize + 1, old - (n - 1) * maxsize)
                                   ELSE Nothing
                   /\ \A n \in Ids : n \in files <=> n <= cachemax /\ disk[n] # Nothing
    <2> DEFINE old == written - Len(disk[Live])
    <2>0. Exact
      BY <1>1 DEF ExactInv
    <2>1. old = cachenum * maxsize /\ cachenum \in Int /\ old \in Int
      <3>1. cachenum \in Int /\ Len(disk[Live]) \in Int
        BY <1>1, <2>0, ExactFacts
      <3>2. PICK x \in Int : x = cachenum * maxsize
        BY <3>1, Products
      <3>3. written = x + Len(disk[Live])
        BY <2>0, <3>2 DEF Exact
      <3> QED BY <3>1, <3>2, <3>3
    <2>2. disk[Live] = Messages(old + 1, written)
      BY <2>0, <2>1 DEF Exact
    <2>3. Len(caches) = IF cachenum < cachemax THEN cachenum ELSE cachemax
      BY <1>1 DEF SafeInv, MemoryInv, Counted, Kept
    <2>4. \A j \in 1 .. Len(caches) : caches[j] = Len(caches) + 1 - j
      BY <1>1, <2>0, ExactFacts DEF Moved
    <2>5. ASSUME NEW n \in 1 .. cachemax
          PROVE  disk[n] = IF old >= n * maxsize
                           THEN Messages(old - n * maxsize + 1, old - (n - 1) * maxsize)
                           ELSE Nothing
      <3>1. n \in Ids /\ n \in Int
        BY FileFacts
      <3>2. CASE n <= cachenum
        <4> DEFINE j == Len(caches) + 1 - n
        <4>1. j \in 1 .. Len(caches) /\ Len(caches) + 1 - j = n
          BY <1>1, <2>0, <2>1, <2>3, <3>2, ExactFacts
        <4>2. disk[n] = Block(cachenum - n)
          BY <1>1, <2>0, <2>4, <4>1, ExactFacts
        <4>3. (cachenum - n) * maxsize = old - n * maxsize
          BY <2>1, <3>1, Distributes
        <4>4. (n - 1) * maxsize = n * maxsize - maxsize
          BY <3>1, OneLess
        <4>5. old >= n * maxsize
          BY <2>1, <3>1, <3>2, Monotone
        <4>6. PICK x \in Int : x = n * maxsize
          BY <3>1, Products
        <4>7. old - x + maxsize = old - (x - maxsize)
          BY <2>1, <4>6
        <4> QED BY <4>2, <4>3, <4>4, <4>5, <4>6, <4>7 DEF Block
      <3>3. CASE ~(n <= cachenum)
        <4>1. \A j \in DOMAIN caches : caches[j] # n
          BY <1>1, <2>0, <2>1, <2>3, <2>4, <3>3, ExactFacts
        <4>2. disk[n] = Nothing
          BY <2>0, <3>1, <4>1 DEF Exact
        <4>3. ~(old >= n * maxsize)
          BY <2>1, <3>1, <3>3, Monotone
        <4> QED BY <4>2, <4>3
      <3> QED BY <3>2, <3>3
    <2>6. ASSUME NEW n \in Ids, n > cachemax PROVE disk[n] = Nothing
      <3>1. \A j \in DOMAIN caches : caches[j] # n
        BY <1>1, <2>0, <2>1, <2>3, <2>4, <2>6, ExactFacts
      <3> QED BY <2>0, <3>1 DEF Exact
    <2>7. \A n \in Ids : n \in files <=> n <= cachemax /\ disk[n] # Nothing
      <3> SUFFICES ASSUME NEW n \in Ids PROVE n \in files <=> n <= cachemax /\ disk[n] # Nothing
        OBVIOUS
      <3>1. n <= cachemax \/ n > cachemax
        BY FileFacts
      <3>2. n \in files <=> disk[n] # Nothing
        BY <2>0 DEF Exact
      <3> QED BY <2>6, <3>1, <3>2
    <2> QED BY <2>2, <2>5, <2>7
  <1>2. SafeInv /\ ExactInv => ArchivesExact
    BY <1>1 DEF ArchivesExact
  <1> QED BY <1>2, Safe, PTL

=============================================================================
