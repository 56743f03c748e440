---------------------------- MODULE FilesProofs ----------------------------
(***************************************************************************)
(* What the files between the daemon and its commands guarantee for any    *)
(* number of processes, levels and times.                                  *)
(*                                                                         *)
(* The one thing supposed is a disk that is not full: whoever creates a    *)
(* file gets an inode that nobody has (AFileIsFree).  What a program does  *)
(* without one is not modelled.                                            *)
(***************************************************************************)
EXTENDS StateFiles, TLAPS

AFileIsFree ==
  \A p \in Procs, n \in {"tmp", "hold", "absence"} :
    at[p] \in {"idle", "started"} /\ ~Exists(n) =>
      \E f \in Inodes(n) : f \notin Open /\ \A m \in Names : dir[m] # f

-----------------------------------------------------------------------------
(* What the files say *)

LevelWords == {Level(l) : l \in Reports}

HoldWords == {Until(r) : r \in 0..Longest}

AwayWords == {Away(d) : d \in Overrides}

LEMMA LevelWord ==
  ASSUME NEW c \in LevelWords
  PROVE  /\ c # <<>> /\ c[1] = "level" /\ c[2] \in Reports /\ c = Level(c[2])
         /\ PathOf(c) = "tmp"
<1>1. PICK l \in Reports : c = <<"level", l>>
  BY DEF LevelWords, Level
<1>2. c # <<>> /\ c[1] = "level" /\ c[2] = l
  BY <1>1
<1>3. QED
  BY <1>1, <1>2, Zenon DEF PathOf, Level

LEMMA HoldWord ==
  ASSUME NEW c \in HoldWords
  PROVE  /\ c # <<>> /\ c[1] = "until" /\ c[2] \in 0..Longest /\ c = Until(c[2])
         /\ PathOf(c) = "hold"
<1>1. PICK r \in 0..Longest : c = <<"until", r>>
  BY DEF HoldWords, Until
<1>2. c # <<>> /\ c[1] = "until" /\ c[2] = r
  BY <1>1
<1>3. QED
  BY <1>1, <1>2, Zenon DEF PathOf, Until

LEMMA AwayWord ==
  ASSUME NEW c \in AwayWords
  PROVE  /\ c # <<>> /\ c[1] = "away" /\ c[2] \in Overrides /\ c[2] \in Nat
         /\ PathOf(c) = "absence"
<1>1. PICK d \in Overrides : c = <<"away", d>>
  BY DEF AwayWords, Away
<1>2. c # <<>> /\ c[1] = "away" /\ c[2] = d
  BY <1>1
<1>3. QED
  BY <1>1, <1>2, FilesAssumption, Zenon DEF PathOf

\* The three kinds of words, which no word is two of.
LEMMA Words ==
  /\ Contents = {<<>>} \cup LevelWords \cup HoldWords \cup AwayWords
  /\ LevelWords \cap HoldWords = {} /\ LevelWords \cap AwayWords = {}
  /\ HoldWords \cap AwayWords = {}
  /\ <<>> \notin LevelWords \cup HoldWords \cup AwayWords
<1>1. Contents = {<<>>} \cup LevelWords \cup HoldWords \cup AwayWords
  BY FilesAssumption DEF LevelWords, HoldWords, AwayWords
<1>2. QED
  BY <1>1, LevelWord, HoldWord, AwayWord

\* What a file of name n can say.
Said(n) ==
  {<<>>} \cup IF n \in {"input", "tmp"} THEN LevelWords
              ELSE IF n = "hold" THEN HoldWords ELSE AwayWords

LEMMA PathSays ==
  ASSUME NEW c \in Contents, c # <<>>
  PROVE  /\ PathOf(c) \in {"tmp", "hold", "absence"} /\ PathOf(c) \in Names
         /\ c \in Said(PathOf(c))
         /\ c \in LevelWords <=> PathOf(c) = "tmp"
         /\ c \in HoldWords <=> PathOf(c) = "hold"
         /\ \A n \in Names : c \in Said(n) <=>
              n = PathOf(c) \/ (n = "input" /\ PathOf(c) = "tmp")
<1>1. c \in LevelWords \/ c \in HoldWords \/ c \in AwayWords
  BY Words
<1>2. CASE c \in LevelWords
  BY <1>2, LevelWord, Words, FilesAssumption DEF Said
<1>3. CASE c \in HoldWords
  BY <1>3, HoldWord, Words, FilesAssumption DEF Said
<1>4. CASE c \in AwayWords
  BY <1>4, AwayWord, Words, FilesAssumption DEF Said
<1>5. QED
  BY <1>1, <1>2, <1>3, <1>4

-----------------------------------------------------------------------------
(* The invariant: which file is whose *)

\* No two names lead to one file.
OneNameEach ==
  \A n, m \in Names : dir[n] # 0 /\ dir[n] = dir[m] => n = m

\* A file says what its name is for.
SaysItsKind == \A n \in Names : Exists(n) => data[dir[n]] \in Said(n)

\* A process has a file open, and something to write, while it is in its
\* os.WriteFile; only `input` has steps before and after.
Busy(p) ==
  /\ at[p] \in {"idle", "expired"} => cmd[p] = <<>> /\ fd[p] = 0
  /\ at[p] \in {"started", "written"} => fd[p] = 0 /\ cmd[p] \in LevelWords
  /\ at[p] = "opened" => fd[p] # 0 /\ cmd[p] # <<>>

\* The file it has open has no name but one for what it writes.
WritesItsKind ==
  \A p \in Procs : \A n \in Names :
    fd[p] # 0 /\ dir[n] = fd[p] => cmd[p] \in Said(n)

FilesInv ==
  /\ TypeOK_Files /\ OneNameEach /\ SaysItsKind /\ WritesItsKind
  /\ \A p \in Procs : Busy(p)

-----------------------------------------------------------------------------
(* The invariant: listeners that resume together *)

\* They all write the same.
OneWord ==
  \A p \in Procs : cmd[p] \in LevelWords => cmd[p] = Level(reported)

\* A file that says it, or will.
Good(f) ==
  \/ data[f] = Level(reported)
  \/ \E p \in Procs : cmd[p] \in LevelWords /\ fd[p] = f

\* The temporary file is good, and one of them has yet to rename it.
TmpIsGood ==
  Exists("tmp") =>
    /\ Good(dir["tmp"])
    /\ \E p \in Procs : cmd[p] \in LevelWords /\ at[p] \in {"opened", "written"}

\* The file is good, or somebody is on the way to make it so.
InputIsGood ==
  reported # "unknown" =>
    \/ Exists("input") /\ Good(dir["input"])
    \/ Exists("tmp")
    \/ \E p \in Procs : at[p] = "started"

ListenersInv == OneWord /\ TmpIsGood /\ InputIsGood

LEMMA InputIs ==
  ASSUME TypeOK_Files, NEW p \in Procs
  PROVE  /\ IsInput(p) <=> cmd[p] \in LevelWords
         /\ IsHold(p) <=> cmd[p] \in HoldWords
<1>1. cmd[p] \in {<<>>} \cup LevelWords \cup HoldWords \cup AwayWords
  BY Words DEF TypeOK_Files
<1>2. QED
  BY <1>1, LevelWord, HoldWord, AwayWord, Words DEF IsInput, IsHold

\* The file that an open of n gives: the one of that name, or a new one.
LEMMA OpensGives ==
  ASSUME FilesInv, AFileIsFree, NEW p \in Procs, at[p] \in {"idle", "started"},
         NEW n \in {"tmp", "hold", "absence"}, NEW f, f = Opens(n, Open)
  PROVE  /\ f \in Files
         /\ dir[n] = f \/ (f \notin Open /\ \A m \in Names : dir[m] # f)
<1>0. n \in Names /\ dir[n] \in Files \cup {0} /\ Inodes(n) \subseteq Files
  BY FilesAssumption DEF FilesInv, TypeOK_Files, DiskTypeOK
<1>1. CASE Exists(n)
  BY <1>0, <1>1 DEF Opens, Exists
<1>2. CASE ~Exists(n)
  <2>1. \E g \in Inodes(n) : g \notin Open /\ \A m \in Names : dir[m] # g
    BY <1>2 DEF AFileIsFree
  <2>2. f = CHOOSE g \in Inodes(n) : g \notin Open /\ \A m \in Names : dir[m] # g
    BY <1>2 DEF Opens
  <2>3. f \in Inodes(n) /\ f \notin Open /\ \A m \in Names : dir[m] # f
    BY <2>1, <2>2, Zenon
  <2>4. QED
    BY <1>0, <2>3
<1>3. QED
  BY <1>1, <1>2

-----------------------------------------------------------------------------
(* Every step on the disk keeps which file is whose *)

DiskInv ==
  /\ DiskTypeOK /\ OneNameEach /\ SaysItsKind /\ WritesItsKind
  /\ at \in [Procs -> {"idle", "started", "opened", "written", "expired"}]
  /\ cmd \in [Procs -> Contents]
  /\ fd \in [Procs -> Files \cup {0}]
  /\ \A p \in Procs : Busy(p)

\* The files of other names are not touched.
Spared(n) ==
  dir'[n] = dir[n] /\ (Exists(n) => data'[dir[n]] = data[dir[n]])

LEMMA OpenKeeps ==
  ASSUME FilesInv, AFileIsFree, NEW p \in Procs, at[p] \in {"idle", "started"},
         NEW c \in Contents, c # <<>>, OpenToWrite(p, c)
  PROVE  /\ DiskInv' /\ \A n \in Names \ {PathOf(c)} : Spared(n)
         /\ at'[p] = "opened" /\ cmd'[p] = c
         /\ dir'[PathOf(c)] = fd'[p] /\ fd'[p] # 0
         /\ \A q \in Procs \ {p} :
              at'[q] = at[q] /\ cmd'[q] = cmd[q] /\ fd'[q] = fd[q]
<1> DEFINE n == PathOf(c)
           f == Opens(n, Open)
<1>0. /\ n \in {"tmp", "hold", "absence"} /\ n \in Names /\ c \in Said(n)
      /\ 0 \notin Files
  BY PathSays, FilesAssumption
<1> HIDE DEF n
<1>1. f \in Files /\ (dir[n] = f \/ (f \notin Open /\ \A m \in Names : dir[m] # f))
  BY <1>0, OpensGives
<1>2. /\ dir' = [dir EXCEPT ![n] = f] /\ data' = [data EXCEPT ![f] = <<>>]
      /\ at' = [at EXCEPT ![p] = "opened"] /\ cmd' = [cmd EXCEPT ![p] = c]
      /\ fd' = [fd EXCEPT ![p] = f]
  BY DEF OpenToWrite, Truncate, n
<1> HIDE DEF f
<1>3. /\ dir \in [Names -> Files \cup {0}] /\ data \in [Files -> Contents]
      /\ at \in [Procs -> {"idle", "started", "opened", "written", "expired"}]
      /\ cmd \in [Procs -> Contents] /\ fd \in [Procs -> Files \cup {0}]
      /\ OneNameEach /\ SaysItsKind /\ WritesItsKind
      /\ \A q \in Procs : Busy(q)
  BY DEF FilesInv, TypeOK_Files, DiskTypeOK
<1>4. /\ dir' \in [Names -> Files \cup {0}] /\ data' \in [Files -> Contents]
      /\ at' \in [Procs -> {"idle", "started", "opened", "written", "expired"}]
      /\ cmd' \in [Procs -> Contents] /\ fd' \in [Procs -> Files \cup {0}]
  <2>1. <<>> \in Contents
    BY Words
  <2>2. QED
    BY <1>0, <1>1, <1>2, <1>3, <2>1
<1>5. /\ dir'[n] = f /\ \A m \in Names \ {n} : dir'[m] = dir[m]
      /\ data'[f] = <<>> /\ \A g \in Files \ {f} : data'[g] = data[g]
      /\ at'[p] = "opened" /\ cmd'[p] = c /\ fd'[p] = f
      /\ \A q \in Procs \ {p} :
           at'[q] = at[q] /\ cmd'[q] = cmd[q] /\ fd'[q] = fd[q]
  BY <1>0, <1>1, <1>2, <1>3
<1>6. \A m \in Names \ {n} : dir[m] # f
  BY <1>0, <1>1, <1>3 DEF OneNameEach
<1>7. OneNameEach'
  <2> SUFFICES ASSUME NEW k \in Names, NEW m \in Names, dir'[k] # 0,
                      dir'[k] = dir'[m], k # m
               PROVE  FALSE
    BY DEF OneNameEach
  <2>1. QED
    BY <1>3, <1>5, <1>6 DEF OneNameEach
<1>8. \A m \in Names \ {n} : Spared(m)
  BY <1>3, <1>5, <1>6 DEF Spared, Exists
<1>9. SaysItsKind'
  BY <1>3, <1>5, <1>8 DEF SaysItsKind, Spared, Exists, Said
<1>10. WritesItsKind'
  <2> SUFFICES ASSUME NEW q \in Procs, NEW m \in Names, fd'[q] # 0,
                      dir'[m] = fd'[q]
               PROVE  cmd'[q] \in Said(m)
    BY DEF WritesItsKind, Said
  <2>1. CASE q = p
    BY <1>0, <1>5, <1>6, <2>1
  <2>2. CASE q # p /\ m # n
    BY <1>3, <1>5, <2>2 DEF WritesItsKind
  <2>3. CASE q # p /\ m = n
    <3>1. f \in Open
      BY <1>5, <2>3 DEF Open
    <3>2. dir[n] = fd[q]
      BY <1>1, <1>5, <2>3, <3>1
    <3>3. QED
      BY <1>3, <1>5, <2>3, <3>2 DEF WritesItsKind
  <2>4. QED
    BY <2>1, <2>2, <2>3
<1>11. \A q \in Procs : Busy(q)'
  <2>1. Busy(p)'
    BY <1>0, <1>1, <1>5 DEF Busy
  <2>2. ASSUME NEW q \in Procs, q # p PROVE Busy(q)'
    BY <1>3, <1>5, <2>2 DEF Busy
  <2>3. QED
    BY <2>1, <2>2
<1>12. QED
  BY <1>0, <1>1, <1>4, <1>5, <1>7, <1>8, <1>9, <1>10, <1>11
     DEF DiskInv, DiskTypeOK, n

LEMMA Shape ==
  ASSUME FilesInv
  PROVE  /\ DiskInv
         /\ dir \in [Names -> Files \cup {0}] /\ data \in [Files -> Contents]
         /\ at \in [Procs -> {"idle", "started", "opened", "written", "expired"}]
         /\ cmd \in [Procs -> Contents] /\ fd \in [Procs -> Files \cup {0}]
         /\ OneNameEach /\ SaysItsKind /\ WritesItsKind
         /\ \A q \in Procs : Busy(q)
         /\ 0 \notin Files
  BY FilesAssumption DEF FilesInv, TypeOK_Files, DiskTypeOK, DiskInv

LEMMA EndsDoes ==
  ASSUME FilesInv, NEW p \in Procs, Ends(p)
  PROVE  /\ at' \in [Procs -> {"idle", "started", "opened", "written", "expired"}]
         /\ cmd' \in [Procs -> Contents] /\ fd' \in [Procs -> Files \cup {0}]
         /\ at'[p] = "idle" /\ cmd'[p] = <<>> /\ fd'[p] = 0
         /\ \A q \in Procs \ {p} :
              at'[q] = at[q] /\ cmd'[q] = cmd[q] /\ fd'[q] = fd[q]
         /\ \A q \in Procs : Busy(q)'
<1>1. <<>> \in Contents
  BY Words
<1>2. /\ at' = [at EXCEPT ![p] = "idle"] /\ cmd' = [cmd EXCEPT ![p] = <<>>]
      /\ fd' = [fd EXCEPT ![p] = 0]
  BY DEF Ends
<1>3. /\ at' \in [Procs -> {"idle", "started", "opened", "written", "expired"}]
      /\ cmd' \in [Procs -> Contents] /\ fd' \in [Procs -> Files \cup {0}]
      /\ at'[p] = "idle" /\ cmd'[p] = <<>> /\ fd'[p] = 0
      /\ \A q \in Procs \ {p} :
           at'[q] = at[q] /\ cmd'[q] = cmd[q] /\ fd'[q] = fd[q]
  BY <1>1, <1>2, Shape
<1>4. \A q \in Procs : Busy(q)'
  BY <1>3, Shape DEF Busy
<1>5. QED
  BY <1>3, <1>4

\* What a write leaves in the files that still have a name.
LEMMA FinishKeeps ==
  ASSUME FilesInv, NEW p \in Procs, FinishWrite(p)
  PROVE  /\ DiskInv' /\ UNCHANGED dir
         /\ fd[p] \in Files /\ fd'[p] = 0
         /\ \A n \in Names : Exists(n) =>
              data'[dir[n]] = IF dir[n] = fd[p] THEN cmd[p] ELSE data[dir[n]]
         /\ IF cmd[p] \in LevelWords THEN at'[p] = "written" /\ cmd'[p] = cmd[p]
                                     ELSE at'[p] = "idle" /\ cmd'[p] = <<>>
         /\ \A q \in Procs \ {p} :
              at'[q] = at[q] /\ cmd'[q] = cmd[q] /\ fd'[q] = fd[q]
<1>0. at[p] = "opened" /\ Write(fd[p], cmd[p], StillOpen(p))
  BY DEF FinishWrite
<1>1. fd[p] \in Files /\ fd[p] # 0 /\ cmd[p] \in Contents /\ cmd[p] # <<>>
  BY <1>0, Shape DEF Busy
<1> DEFINE said == [data EXCEPT ![fd[p]] = cmd[p]]
<1>2. /\ UNCHANGED dir /\ said \in [Files -> Contents]
      /\ data' = Kept(said, dir, StillOpen(p))
  BY <1>0, <1>1, Shape DEF Write
<1>s. \A f \in Files : said[f] = IF f = fd[p] THEN cmd[p] ELSE data[f]
  BY Shape
<1> HIDE DEF said
<1>3. data' \in [Files -> Contents]
  <2>1. <<>> \in Contents
    BY Words
  <2>2. QED
    BY <1>2, <2>1 DEF Kept
<1>4. \A n \in Names : Exists(n) =>
        data'[dir[n]] = IF dir[n] = fd[p] THEN cmd[p] ELSE data[dir[n]]
  <2> SUFFICES ASSUME NEW n \in Names, Exists(n)
               PROVE  data'[dir[n]] = said[dir[n]] /\ dir[n] \in Files
    BY <1>s
  <2>1. dir[n] \in Files
    BY Shape DEF Exists
  <2>2. QED
    BY <1>2, <2>1 DEF Kept
<1>5. /\ at' \in [Procs -> {"idle", "started", "opened", "written", "expired"}]
      /\ cmd' \in [Procs -> Contents] /\ fd' \in [Procs -> Files \cup {0}]
      /\ fd'[p] = 0
      /\ IF cmd[p] \in LevelWords THEN at'[p] = "written" /\ cmd'[p] = cmd[p]
                                  ELSE at'[p] = "idle" /\ cmd'[p] = <<>>
      /\ \A q \in Procs \ {p} :
           at'[q] = at[q] /\ cmd'[q] = cmd[q] /\ fd'[q] = fd[q]
      /\ \A q \in Procs : Busy(q)'
  <2>1. IsInput(p) <=> cmd[p] \in LevelWords
    BY InputIs DEF FilesInv
  <2>2. CASE IsInput(p)
    <3>1. /\ at' = [at EXCEPT ![p] = "written"]
          /\ fd' = [fd EXCEPT ![p] = 0] /\ cmd' = cmd
      BY <2>2 DEF FinishWrite
    <3>2. /\ at' \in [Procs -> {"idle", "started", "opened", "written", "expired"}]
          /\ cmd' \in [Procs -> Contents] /\ fd' \in [Procs -> Files \cup {0}]
          /\ fd'[p] = 0 /\ at'[p] = "written" /\ cmd'[p] = cmd[p]
          /\ \A q \in Procs \ {p} :
               at'[q] = at[q] /\ cmd'[q] = cmd[q] /\ fd'[q] = fd[q]
      BY <3>1, Shape
    <3>3. \A q \in Procs : Busy(q)'
      BY <2>1, <2>2, <3>2, Shape DEF Busy
    <3>4. QED
      BY <2>1, <2>2, <3>2, <3>3
  <2>3. CASE ~IsInput(p)
    <3>1. Ends(p)
      BY <2>3 DEF FinishWrite
    <3>2. QED
      BY <2>1, <2>3, <3>1, EndsDoes
  <2>4. QED
    BY <2>2, <2>3
<1>6. OneNameEach'
  BY <1>2, Shape DEF OneNameEach
<1>7. SaysItsKind'
  <2> SUFFICES ASSUME NEW n \in Names, dir[n] # 0
               PROVE  data'[dir[n]] \in Said(n)
    BY <1>2 DEF SaysItsKind, Exists, Said
  <2>1. CASE dir[n] = fd[p]
    BY <1>1, <1>4, <2>1, Shape DEF WritesItsKind, Exists
  <2>2. CASE dir[n] # fd[p]
    BY <1>4, <2>2, Shape DEF SaysItsKind, Exists
  <2>3. QED
    BY <2>1, <2>2
<1>8. WritesItsKind'
  BY <1>2, <1>5, Shape DEF WritesItsKind, Said
<1>9. QED
  BY <1>1, <1>2, <1>3, <1>4, <1>5, <1>6, <1>7, <1>8, Shape
     DEF DiskInv, DiskTypeOK

\* The rename of the temporary file.
LEMMA RenameKeeps ==
  ASSUME FilesInv, NEW p \in Procs, Ends(p), at[p] = "written",
         Exists("tmp"), Rename("tmp", "input", Open)
  PROVE  /\ DiskInv' /\ dir'["input"] = dir["tmp"] /\ dir'["tmp"] = 0
         /\ data'[dir["tmp"]] = data[dir["tmp"]]
<1>0. Names = {"input", "tmp", "hold", "absence"}
  BY FilesAssumption
<1>1. /\ dir' = [dir EXCEPT !["input"] = dir["tmp"], !["tmp"] = 0]
      /\ data' = Kept(data, dir', Open)
  BY DEF Rename
<1>2. /\ dir' \in [Names -> Files \cup {0}]
      /\ dir'["input"] = dir["tmp"] /\ dir'["tmp"] = 0
      /\ dir'["hold"] = dir["hold"] /\ dir'["absence"] = dir["absence"]
  BY <1>0, <1>1, Shape
<1>3. data' \in [Files -> Contents]
  <2>1. <<>> \in Contents
    BY Words
  <2>2. QED
    BY <1>1, <2>1, Shape DEF Kept
<1>4. \A n \in Names : dir'[n] # 0 => data'[dir'[n]] = data[dir'[n]]
  BY <1>1, <1>2 DEF Kept
<1>5. OneNameEach'
  <2> SUFFICES ASSUME NEW k \in Names, NEW m \in Names, dir'[k] # 0,
                      dir'[k] = dir'[m], k # m
               PROVE  FALSE
    BY DEF OneNameEach
  <2>1. \A i, j \in Names : dir[i] # 0 /\ dir[i] = dir[j] => i = j
    BY Shape DEF OneNameEach
  <2>2. QED
    BY <1>0, <1>2, <2>1
<1>6. SaysItsKind'
  <2> SUFFICES ASSUME NEW n \in Names, dir'[n] # 0
               PROVE  data[dir'[n]] \in Said(n)
    BY <1>4 DEF SaysItsKind, Exists, Said
  <2>1. \A m \in Names : dir[m] # 0 => data[dir[m]] \in Said(m)
    BY Shape DEF SaysItsKind, Exists
  <2>2. Said("tmp") = Said("input")
    BY DEF Said
  <2>3. QED
    BY <1>0, <1>2, <2>1, <2>2
<1>7. WritesItsKind'
  <2> SUFFICES ASSUME NEW q \in Procs, NEW n \in Names, fd'[q] # 0,
                      dir'[n] = fd'[q]
               PROVE  cmd'[q] \in Said(n)
    BY DEF WritesItsKind, Said
  <2>1. \A m \in Names : fd[q] # 0 /\ dir[m] = fd[q] => cmd[q] \in Said(m)
    BY Shape DEF WritesItsKind
  <2>2. Said("tmp") = Said("input")
    BY DEF Said
  <2>3. fd'[q] = fd[q] /\ cmd'[q] = cmd[q]
    BY EndsDoes
  <2>4. QED
    BY <1>0, <1>2, <2>1, <2>2, <2>3
<1>8. QED
  BY <1>0, <1>2, <1>3, <1>4, <1>5, <1>6, <1>7, EndsDoes
     DEF DiskInv, DiskTypeOK, Exists

\* The removal of a hold or an override.
LEMMA RemoveKeeps ==
  ASSUME FilesInv, NEW n \in {"hold", "absence"}, Remove(n, Open),
         \A q \in Procs : Busy(q)',
         at' \in [Procs -> {"idle", "started", "opened", "written", "expired"}],
         cmd' \in [Procs -> Contents], fd' \in [Procs -> Files \cup {0}],
         \A q \in Procs :
           fd'[q] = 0 \/ (fd'[q] = fd[q] /\ cmd'[q] = cmd[q])
  PROVE  DiskInv' /\ \A m \in Names \ {n} : Spared(m)
<1>0. n \in Names
  BY FilesAssumption
<1>1. dir' = [dir EXCEPT ![n] = 0] /\ data' = Kept(data, dir', Open)
  BY DEF Remove
<1>2. /\ dir' \in [Names -> Files \cup {0}] /\ dir'[n] = 0
      /\ \A m \in Names \ {n} : dir'[m] = dir[m]
  BY <1>0, <1>1, Shape
<1>3. data' \in [Files -> Contents]
  <2>1. <<>> \in Contents
    BY Words
  <2>2. QED
    BY <1>1, <2>1, Shape DEF Kept
<1>4. \A m \in Names : dir'[m] # 0 => data'[dir'[m]] = data[dir'[m]]
  BY <1>1, <1>2 DEF Kept
<1>5. \A m \in Names \ {n} : Spared(m)
  BY <1>2, <1>4 DEF Spared, Exists
<1>6. OneNameEach'
  BY <1>2, Shape DEF OneNameEach
<1>7. SaysItsKind'
  BY <1>2, <1>4, Shape DEF SaysItsKind, Exists, Said
<1>8. WritesItsKind'
  BY <1>2, Shape DEF WritesItsKind, Said
<1>9. QED
  BY <1>2, <1>3, <1>5, <1>6, <1>7, <1>8 DEF DiskInv, DiskTypeOK

\* A unit of time counts a hold down, and leaves what other files say.
LEMMA ElapseKeeps ==
  ASSUME FilesInv, Elapse
  PROVE  /\ DiskInv' /\ UNCHANGED <<dir, procVars>>
         /\ \A n \in {"input", "tmp"} :
              Exists(n) => data'[dir[n]] = data[dir[n]]
<1>1. /\ UNCHANGED <<dir, at, cmd, fd>> /\ UNCHANGED procVars
      /\ data' = [f \in Files |->
                    IF \E r \in 1..Longest : data[f] = Until(r)
                    THEN Until(data[f][2] - 1) ELSE data[f]]
  BY DEF Elapse, procVars
<1>2. \A r \in 1..Longest : /\ Until(r)[2] = r /\ r - 1 \in 0..Longest
                            /\ r \in 0..Longest
  BY FilesAssumption, SMT DEF Until
<1>3. ASSUME NEW f \in Files
      PROVE  /\ data'[f] \in Contents
             /\ data[f] \in LevelWords \cup AwayWords \cup {<<>>} =>
                  data'[f] = data[f]
             /\ data[f] \in HoldWords => data'[f] \in HoldWords
  <2>1. CASE \E r \in 1..Longest : data[f] = Until(r)
    <3>1. PICK r \in 1..Longest : data[f] = Until(r)
      BY <2>1
    <3>2. data'[f] = Until(r - 1)
      BY <1>1, <1>2, <3>1
    <3>3. Until(r - 1) \in HoldWords /\ data[f] \in HoldWords
      BY <1>2, <3>1 DEF HoldWords
    <3>4. QED
      BY <3>2, <3>3, Words
  <2>2. CASE ~\E r \in 1..Longest : data[f] = Until(r)
    BY <1>1, <2>2, Shape
  <2>3. QED
    BY <2>1, <2>2
<1>4. data' \in [Files -> Contents]
  BY <1>1, <1>3
<1>5. \A n \in Names : dir[n] # 0 => dir[n] \in Files /\ data[dir[n]] \in Said(n)
  BY Shape DEF SaysItsKind, Exists
<1>6. \A n \in Names : dir[n] # 0 => data'[dir[n]] \in Said(n)
  BY <1>3, <1>5 DEF Said
<1>7. \A n \in {"input", "tmp"} : dir[n] # 0 => data'[dir[n]] = data[dir[n]]
  BY <1>3, <1>5, FilesAssumption DEF Said
<1>8. QED
  BY <1>1, <1>4, <1>6, <1>7, Shape
     DEF DiskInv, DiskTypeOK, OneNameEach, SaysItsKind, WritesItsKind, Busy,
         Exists, Said

-----------------------------------------------------------------------------
(* Type correctness *)

LoopTypes ==
  /\ used \in Uses
  /\ tick \in {"rest", "absence", "hold", "expired", "input"}
  /\ wake \in BOOLEAN /\ mtime \in MTimes /\ held \in BOOLEAN
  /\ absence = Flag \/ absence \in MinAway..MaxAway
  /\ level \in Reports \cup {"unknown"}
  /\ asked \in 0..Longest
  /\ reported \in Reports \cup {"unknown"}

LEMMA Parts == FilesInv <=> DiskInv /\ LoopTypes
  BY DEF FilesInv, DiskInv, LoopTypes, TypeOK_Files

LEMMA InitFiles == Init => FilesInv /\ ListenersInv /\ TouchIsHeard
<1> SUFFICES ASSUME Init PROVE FilesInv /\ ListenersInv /\ TouchIsHeard
  OBVIOUS
<1>1. /\ dir = [n \in Names |-> 0] /\ data = [f \in Files |-> <<>>]
      /\ at = [p \in Procs |-> "idle"] /\ cmd = [p \in Procs |-> <<>>]
      /\ fd = [p \in Procs |-> 0]
  BY DEF Init, DiskInit
<1>2. <<>> \in Contents /\ <<>> \notin LevelWords /\ 0 \in 0..Longest
  BY Words, FilesAssumption, SMT
<1>3. DiskInv
  BY <1>1, <1>2
     DEF DiskInv, DiskTypeOK, OneNameEach, SaysItsKind, WritesItsKind, Exists,
         Busy
<1>4. LoopTypes
  BY <1>2 DEF Init, LoopTypes, MTimes
<1>5. ListenersInv
  BY <1>1, <1>2, FilesAssumption
     DEF Init, ListenersInv, OneWord, TmpIsGood, InputIsGood, Exists
<1>6. TouchIsHeard
  BY <1>1, FilesAssumption DEF Init, TouchIsHeard, Understood, Says, Exists
<1>7. QED
  BY <1>3, <1>4, <1>5, <1>6, Parts

\* An override is clamped, and what says nothing means the flag.
LEMMA ParsedIs ==
  ASSUME NEW c \in Said("absence")
  PROVE  Parsed(c) = Flag \/ Parsed(c) \in MinAway..MaxAway
<1>1. CASE c = <<>>
  BY <1>1 DEF Parsed
<1>2. CASE c \in AwayWords
  <2>1. c[2] \in Nat /\ c # <<>>
    BY <1>2, AwayWord
  <2> DEFINE d == c[2]
  <2>2. d \in Nat
    BY <2>1
  <2> HIDE DEF d
  <2>3. Clamp(d) \in MinAway..MaxAway
    BY <2>2, FilesAssumption, SMT DEF Clamp
  <2>4. QED
    BY <2>1, <2>3 DEF Parsed, d
<1>3. QED
  BY <1>1, <1>2 DEF Said

LEMMA UnderstoodIs ==
  ASSUME NEW c \in Said("input")
  PROVE  Understood(c) \in Reports \cup {"unknown"}
  BY LevelWord DEF Said, Understood

LEMMA NextFiles == FilesInv /\ AFileIsFree /\ [Next]_vars => FilesInv'
<1> SUFFICES ASSUME FilesInv, AFileIsFree, [Next]_vars PROVE FilesInv'
  OBVIOUS
<1>0. /\ LoopTypes /\ DiskInv /\ "input" \in Names /\ "absence" \in Names
      /\ \A n \in Names : Says(n) \in Said(n)
  BY Parts, Shape, FilesAssumption DEF Says, SaysItsKind, Said
<1>p. DiskInv' /\ LoopTypes' => FilesInv'
  BY DEF FilesInv, DiskInv, LoopTypes, TypeOK_Files
<1>s. ASSUME UNCHANGED <<dir, data, at, cmd, fd>> PROVE DiskInv'
  BY <1>0, <1>s
     DEF DiskInv, DiskTypeOK, OneNameEach, SaysItsKind, WritesItsKind, Exists,
         Busy, Said
<1>1. ASSUME NEW p \in Procs, OpenTmp(p) PROVE FilesInv'
  <2>1. at[p] = "started" /\ cmd[p] \in Contents /\ cmd[p] # <<>>
    BY <1>1, Shape, LevelWord DEF OpenTmp, Busy
  <2>2. DiskInv'
    BY <1>1, <2>1, OpenKeeps DEF OpenTmp
  <2>3. mtime' \in MTimes
    BY <1>0, <1>1 DEF OpenTmp, OpenToWrite, Moves, MTimes, LoopTypes
  <2>4. LoopTypes'
    BY <1>0, <1>1, <2>3 DEF OpenTmp, LoopTypes, loopVars, histVars
  <2>5. QED
    BY <2>2, <2>4, <1>p
<1>2. ASSUME NEW p \in Procs, FinishWrite(p) PROVE FilesInv'
  <2>1. mtime' \in MTimes /\ wake' \in BOOLEAN
    BY <1>0, <1>2 DEF FinishWrite, Closes, Moves, MTimes, LoopTypes
  <2>2. LoopTypes'
    BY <1>0, <1>2, <2>1 DEF FinishWrite, LoopTypes, loopVars, histVars
  <2>3. QED
    BY <1>2, <2>2, FinishKeeps, <1>p
<1>3. ASSUME NEW p \in Procs, RenameInput(p) PROVE FilesInv'
  <2>1. LoopTypes'
    BY <1>0, <1>3 DEF RenameInput, LoopTypes, loopVars, histVars
  <2>2. CASE Exists("tmp")
    BY <1>3, <2>1, <2>2, RenameKeeps, <1>p DEF RenameInput
  <2>3. CASE ~Exists("tmp")
    <3>1. UNCHANGED <<dir, data>> /\ Ends(p)
      BY <1>3, <2>3 DEF RenameInput
    <3>2. WritesItsKind'
      BY <3>1, EndsDoes, Shape DEF WritesItsKind, Said
    <3>3. DiskInv'
      BY <1>0, <3>1, <3>2, EndsDoes
         DEF DiskInv, DiskTypeOK, OneNameEach, SaysItsKind, Exists, Said
    <3>4. QED
      BY <2>1, <3>3, <1>p
  <2>4. QED
    BY <2>2, <2>3
<1>4. ASSUME NEW p \in Procs, QueryRemoves(p) PROVE FilesInv'
  <2>1. Remove("hold", Open) /\ Ends(p)
    BY <1>4 DEF QueryRemoves
  <2>2. DiskInv'
    BY <2>1, EndsDoes, RemoveKeeps
  <2>3. LoopTypes'
    BY <1>0, <1>4 DEF QueryRemoves, LoopTypes, loopVars, histVars
  <2>4. QED
    BY <2>2, <2>3, <1>p
<1>5. ASSUME NEW P \in SUBSET Procs, NEW l \in Reports, Run(P, l)
      PROVE  FilesInv'
  <2>1. /\ \A p \in P : at[p] = "idle"
        /\ at' = [p \in Procs |-> IF p \in P THEN "started" ELSE at[p]]
        /\ cmd' = [p \in Procs |-> IF p \in P THEN Level(l) ELSE cmd[p]]
        /\ UNCHANGED <<dir, data, fd>>
    BY <1>5 DEF Run
  <2>2. Level(l) \in LevelWords /\ Level(l) \in Contents
    BY Words DEF LevelWords
  <2>3. /\ at' \in [Procs -> {"idle", "started", "opened", "written", "expired"}]
        /\ cmd' \in [Procs -> Contents]
    BY <2>1, <2>2, Shape
  <2>4. \A p \in Procs : Busy(p)'
    BY <2>1, <2>2, Shape DEF Busy
  <2>5. WritesItsKind'
    BY <2>1, Shape DEF WritesItsKind, Said, Busy
  <2>6. DiskInv'
    BY <1>0, <2>1, <2>3, <2>4, <2>5
       DEF DiskInv, DiskTypeOK, OneNameEach, SaysItsKind, Exists, Said
  <2>7. LoopTypes'
    BY <1>0, <1>5 DEF Run, LoopTypes, loopVars
  <2>8. QED
    BY <2>6, <2>7, <1>p
<1>6. ASSUME NEW p \in Procs, Query(p) PROVE FilesInv'
  <2>1. at' = [at EXCEPT ![p] = "expired"] /\ at[p] = "idle"
    BY <1>6 DEF Query
  <2>2. UNCHANGED <<dir, data, cmd, fd>>
    BY <1>6 DEF Query
  <2>3. \A q \in Procs : Busy(q)'
    BY <2>1, <2>2, Shape DEF Busy
  <2>4. DiskInv'
    BY <1>0, <2>1, <2>2, <2>3
       DEF DiskInv, DiskTypeOK, OneNameEach, SaysItsKind, WritesItsKind, Exists,
           Said
  <2>5. LoopTypes'
    BY <1>0, <1>6 DEF Query, LoopTypes, loopVars, histVars
  <2>6. QED
    BY <2>4, <2>5, <1>p
<1>7. ASSUME NEW p \in Procs, NEW r \in 1..Longest, RunHold(p, r)
      PROVE  FilesInv'
  <2>0. r \in 0..Longest
    BY FilesAssumption, SMT
  <2>1. Until(r) \in HoldWords
    BY <2>0 DEF HoldWords
  <2>2. Until(r) \in Contents /\ Until(r) # <<>>
    BY <2>1, Words
  <2>3. DiskInv'
    BY <1>7, <2>2, OpenKeeps DEF RunHold
  <2>4. mtime' \in MTimes
    BY <1>0, <1>7 DEF RunHold, OpenToWrite, Moves, MTimes, LoopTypes
  <2>5. LoopTypes'
    BY <1>0, <1>7, <2>0, <2>4 DEF RunHold, LoopTypes, loopVars
  <2>6. QED
    BY <2>3, <2>5, <1>p
<1>8. ASSUME NEW p \in Procs, NEW d \in Overrides, RunAbsence(p, d)
      PROVE  FilesInv'
  <2>1. Away(d) \in AwayWords
    BY DEF AwayWords
  <2>2. Away(d) \in Contents /\ Away(d) # <<>>
    BY <2>1, Words
  <2>3. DiskInv'
    BY <1>8, <2>2, OpenKeeps DEF RunAbsence
  <2>4. mtime' \in MTimes
    BY <1>0, <1>8 DEF RunAbsence, OpenToWrite, Moves, MTimes, LoopTypes
  <2>5. LoopTypes'
    BY <1>0, <1>8, <2>4 DEF RunAbsence, LoopTypes, loopVars, histVars
  <2>6. QED
    BY <2>3, <2>5, <1>p
<1>9. ASSUME NEW n \in {"hold", "absence"}, RunOff(n) PROVE FilesInv'
  <2>1. Remove(n, Open) /\ UNCHANGED <<at, cmd, fd>>
    BY <1>9 DEF RunOff, procVars
  <2>2. \A q \in Procs : Busy(q)'
    BY <2>1, Shape DEF Busy
  <2>3. DiskInv'
    BY <2>1, <2>2, Shape, RemoveKeeps
  <2>4. LoopTypes'
    BY <1>0, <1>9 DEF RunOff, LoopTypes, loopVars, histVars, procVars
  <2>5. QED
    BY <2>3, <2>4, <1>p
<1>10. CASE Elapse
  <2>1. asked' \in 0..Longest
    BY <1>0, <1>10, FilesAssumption, SMT DEF Elapse, LoopTypes
  <2>2. LoopTypes'
    BY <1>0, <1>10, <2>1 DEF Elapse, LoopTypes, loopVars, procVars
  <2>3. QED
    BY <1>10, <2>2, ElapseKeeps, <1>p
<1>11. CASE TickBegins
  <2>1. UNCHANGED <<dir, data, at, cmd, fd>>
    BY <1>11 DEF TickBegins, procVars
  <2>2. LoopTypes'
    BY <1>0, <1>11
       DEF TickBegins, StatSeen, MTimes, LoopTypes, histVars, procVars
  <2>3. QED
    BY <1>s, <2>1, <2>2, <1>p
<1>12. CASE ReadAbsence
  <2>1. UNCHANGED <<dir, data, at, cmd, fd>>
    BY <1>12 DEF ReadAbsence, procVars
  <2>2. absence' = Flag \/ absence' \in MinAway..MaxAway
    BY <1>0, <1>12, ParsedIs DEF ReadAbsence
  <2>3. LoopTypes'
    BY <1>0, <1>12, <2>2 DEF ReadAbsence, LoopTypes, histVars, procVars
  <2>4. QED
    BY <1>s, <2>1, <2>3, <1>p
<1>13. CASE ReadHold
  <2>1. UNCHANGED <<dir, data, at, cmd, fd>>
    BY <1>13 DEF ReadHold, procVars
  <2>2. LoopTypes'
    BY <1>0, <1>13 DEF ReadHold, LoopTypes, histVars, procVars
  <2>3. QED
    BY <1>s, <2>1, <2>2, <1>p
<1>14. CASE RemoveHold
  <2>1. Remove("hold", Open) /\ UNCHANGED <<at, cmd, fd>>
    BY <1>14 DEF RemoveHold, procVars
  <2>2. \A q \in Procs : Busy(q)'
    BY <2>1, Shape DEF Busy
  <2>3. DiskInv'
    BY <2>1, <2>2, Shape, RemoveKeeps
  <2>4. LoopTypes'
    BY <1>0, <1>14 DEF RemoveHold, LoopTypes, loopVars, histVars, procVars
  <2>5. QED
    BY <2>3, <2>4, <1>p
<1>15. CASE ReadInput
  <2>1. UNCHANGED <<dir, data, at, cmd, fd>>
    BY <1>15 DEF ReadInput, procVars
  <2>2. level' \in Reports \cup {"unknown"}
    BY <1>0, <1>15, UnderstoodIs DEF ReadInput
  <2>3. LoopTypes'
    BY <1>0, <1>15, <2>2 DEF ReadInput, LoopTypes, histVars, procVars
  <2>4. QED
    BY <1>s, <2>1, <2>3, <1>p
<1>16. CASE UNCHANGED vars
  <2>1. UNCHANGED <<dir, data, at, cmd, fd>> /\ LoopTypes'
    BY <1>0, <1>16 DEF vars, LoopTypes
  <2>2. QED
    BY <1>s, <2>1, <1>p
<1>17. ASSUME NEW p \in Procs, Timeout(p) PROVE FilesInv'
  <2>1. PICK l \in Levels : Run({p}, l)
    BY <1>17 DEF Timeout
  <2>2. QED
    BY <1>5, <2>1 DEF Reports
<1>18. ASSUME NEW P \in SUBSET Procs, Resume(P) PROVE FilesInv'
  BY <1>5, <1>18 DEF Resume, Reports
<1>19. QED
  BY <1>1, <1>2, <1>3, <1>4, <1>6, <1>7, <1>8, <1>9, <1>10, <1>11, <1>12,
     <1>13, <1>14, <1>15, <1>16, <1>17, <1>18 DEF Next, Proceeds, Tick

-----------------------------------------------------------------------------
(* Listeners that resume together *)

\* A step that leaves the listeners and their two files alone.
LEMMA ListenersSpared ==
  ASSUME FilesInv, ListenersInv, reported' = reported,
         Spared("tmp"), Spared("input"),
         \A q \in Procs : cmd[q] \in LevelWords =>
           cmd'[q] = cmd[q] /\ at'[q] = at[q] /\ fd'[q] = fd[q],
         \A q \in Procs : cmd'[q] \in LevelWords => cmd[q] \in LevelWords
  PROVE  ListenersInv'
<1>1. \A f : data'[f] = data[f] /\ Good(f) => Good(f)'
  BY DEF Good
<1>2. OneWord'
  BY DEF ListenersInv, OneWord
<1>3. TmpIsGood'
  BY <1>1 DEF ListenersInv, TmpIsGood, Spared, Exists
<1>4. \A q \in Procs : at[q] = "started" => at'[q] = "started"
  BY Shape DEF Busy
<1>5. InputIsGood'
  BY <1>1, <1>4 DEF ListenersInv, InputIsGood, Spared, Exists
<1>6. QED
  BY <1>2, <1>3, <1>5 DEF ListenersInv

LEMMA OpenTmpListeners ==
  ASSUME FilesInv, AFileIsFree, ListenersInv, NEW p \in Procs, OpenTmp(p)
  PROVE  ListenersInv'
<1>1. at[p] = "started" /\ OpenToWrite(p, cmd[p]) /\ reported' = reported
  BY DEF OpenTmp, histVars
<1>2. cmd[p] \in LevelWords /\ cmd[p] # <<>> /\ cmd[p] \in Contents
  BY <1>1, Shape, LevelWord DEF Busy
<1>3. PathOf(cmd[p]) = "tmp"
  BY <1>2, LevelWord
<1>4. /\ at'[p] = "opened" /\ cmd'[p] = cmd[p]
      /\ dir'["tmp"] = fd'[p] /\ fd'[p] # 0
      /\ \A q \in Procs \ {p} :
           at'[q] = at[q] /\ cmd'[q] = cmd[q] /\ fd'[q] = fd[q]
  BY <1>1, <1>2, <1>3, OpenKeeps
<1>5. OneWord'
  BY <1>1, <1>4 DEF ListenersInv, OneWord
<1>6. Good(dir["tmp"])'
  BY <1>2, <1>4 DEF Good
<1>7. TmpIsGood'
  BY <1>2, <1>4, <1>6 DEF TmpIsGood
<1>8. InputIsGood'
  BY <1>4 DEF InputIsGood, Exists
<1>9. QED
  BY <1>5, <1>7, <1>8 DEF ListenersInv

LEMMA FinishListeners ==
  ASSUME FilesInv, ListenersInv, NEW p \in Procs, FinishWrite(p)
  PROVE  ListenersInv'
<1>1. /\ UNCHANGED <<dir, reported>> /\ at[p] = "opened"
      /\ fd[p] # 0 /\ cmd[p] # <<>>
      /\ "input" \in Names /\ "tmp" \in Names
  BY FinishKeeps, Shape, FilesAssumption DEF FinishWrite, histVars, Busy
<1>2. /\ \A n \in Names : Exists(n) =>
           data'[dir[n]] = IF dir[n] = fd[p] THEN cmd[p] ELSE data[dir[n]]
      /\ IF cmd[p] \in LevelWords THEN at'[p] = "written" /\ cmd'[p] = cmd[p]
                                  ELSE at'[p] = "idle" /\ cmd'[p] = <<>>
      /\ \A q \in Procs \ {p} :
           at'[q] = at[q] /\ cmd'[q] = cmd[q] /\ fd'[q] = fd[q]
  BY FinishKeeps
<1>3. <<>> \notin LevelWords
  BY Words
<1>4. \A n \in {"input", "tmp"} : dir[n] = fd[p] => cmd[p] \in LevelWords
  BY <1>1, Shape DEF WritesItsKind, Said
<1>5. OneWord'
  BY <1>1, <1>2, <1>3 DEF ListenersInv, OneWord
<1>6. ASSUME NEW n \in {"input", "tmp"}, Exists(n), Good(dir[n])
      PROVE  Good(dir[n])'
  <2>1. CASE dir[n] = fd[p]
    <3>1. cmd[p] = Level(reported)
      BY <1>4, <2>1 DEF ListenersInv, OneWord
    <3>2. data'[dir[n]] = cmd[p]
      BY <1>1, <1>2, <1>6, <2>1
    <3>3. QED
      BY <1>1, <3>1, <3>2 DEF Good
  <2>2. CASE dir[n] # fd[p]
    <3>1. data'[dir[n]] = data[dir[n]]
      BY <1>1, <1>2, <1>6, <2>2
    <3>2. QED
      BY <1>1, <1>2, <1>6, <2>2, <3>1 DEF Good
  <2>3. QED
    BY <2>1, <2>2
<1>7. TmpIsGood'
  BY <1>1, <1>2, <1>6 DEF ListenersInv, TmpIsGood, Exists
<1>8. InputIsGood'
  BY <1>1, <1>2, <1>6 DEF ListenersInv, InputIsGood, Exists
<1>9. QED
  BY <1>5, <1>7, <1>8 DEF ListenersInv

LEMMA RenameListeners ==
  ASSUME FilesInv, ListenersInv, NEW p \in Procs, RenameInput(p)
  PROVE  ListenersInv'
<1>1. /\ at[p] = "written" /\ fd[p] = 0 /\ Ends(p) /\ reported' = reported
  BY Shape DEF RenameInput, histVars, Busy
<1>2. /\ at'[p] = "idle" /\ cmd'[p] = <<>> /\ fd'[p] = 0
      /\ \A q \in Procs \ {p} :
           at'[q] = at[q] /\ cmd'[q] = cmd[q] /\ fd'[q] = fd[q]
      /\ <<>> \notin LevelWords
  BY <1>1, EndsDoes, Words
<1>3. OneWord'
  BY <1>1, <1>2 DEF ListenersInv, OneWord
<1>4. \A f : f # 0 /\ data'[f] = data[f] /\ Good(f) => Good(f)'
  BY <1>1, <1>2 DEF Good
<1>5. CASE Exists("tmp")
  <2>1. /\ dir'["input"] = dir["tmp"] /\ dir'["tmp"] = 0 /\ dir["tmp"] # 0
        /\ data'[dir["tmp"]] = data[dir["tmp"]]
    BY <1>1, <1>5, RenameKeeps DEF RenameInput, Exists
  <2>2. TmpIsGood'
    BY <2>1 DEF TmpIsGood, Exists
  <2>3. Good(dir["tmp"])
    BY <1>5 DEF ListenersInv, TmpIsGood
  <2> DEFINE f == dir["tmp"]
  <2>4. f # 0 /\ data'[f] = data[f] /\ Good(f) /\ dir'["input"] = f
    BY <2>1, <2>3
  <2> HIDE DEF f
  <2>5. \/ data'[f] = Level(reported')
        \/ \E q \in Procs : cmd'[q] \in LevelWords /\ fd'[q] = f
    BY <1>1, <1>2, <2>4 DEF Good
  <2>6. InputIsGood'
    BY <2>4, <2>5 DEF InputIsGood, Exists, Good
  <2>7. QED
    BY <1>3, <2>2, <2>6 DEF ListenersInv
<1>6. CASE ~Exists("tmp")
  <2>1. UNCHANGED <<dir, data>>
    BY <1>6 DEF RenameInput
  <2>2. TmpIsGood'
    BY <1>6, <2>1 DEF TmpIsGood, Exists
  <2>3. \A q \in Procs : at[q] = "started" => at'[q] = "started"
    BY <1>1, <1>2
  <2>4. Exists("input") /\ Good(dir["input"]) => Good(dir["input"])'
    BY <1>1, <1>2, <2>1 DEF Good, Exists
  <2>5. InputIsGood'
    BY <1>1, <1>6, <2>1, <2>3, <2>4 DEF ListenersInv, InputIsGood, Exists
  <2>6. QED
    BY <1>3, <2>2, <2>5 DEF ListenersInv
<1>7. QED
  BY <1>5, <1>6

LEMMA RunListeners ==
  ASSUME FilesInv, ListenersInv, NEW P \in SUBSET Procs, P # {}, NEW l,
         Run(P, l)
  PROVE  ListenersInv'
<1>1. /\ ~Reporting /\ reported' = l /\ UNCHANGED <<dir, data, fd>>
      /\ at' = [p \in Procs |-> IF p \in P THEN "started" ELSE at[p]]
      /\ cmd' = [p \in Procs |-> IF p \in P THEN Level(l) ELSE cmd[p]]
  BY DEF Run
<1>2. \A p \in Procs : cmd[p] \notin LevelWords
  BY <1>1, InputIs DEF Reporting, FilesInv
<1>3. OneWord'
  BY <1>1, <1>2 DEF OneWord
<1>4. ~Exists("tmp")
  BY <1>2 DEF ListenersInv, TmpIsGood
<1>5. TmpIsGood'
  BY <1>1, <1>4 DEF TmpIsGood, Exists
<1>6. InputIsGood'
  BY <1>1 DEF InputIsGood
<1>7. QED
  BY <1>3, <1>5, <1>6 DEF ListenersInv

LEMMA NextListeners ==
  FilesInv /\ AFileIsFree /\ ListenersInv /\ [Next]_vars => ListenersInv'
<1> SUFFICES ASSUME FilesInv, AFileIsFree, ListenersInv, [Next]_vars
             PROVE  ListenersInv'
  OBVIOUS
<1>0. /\ {"input", "tmp"} \subseteq Names /\ <<>> \notin LevelWords
      /\ \A p \in Procs : at[p] \in {"idle", "expired"} => cmd[p] = <<>>
  BY FilesAssumption, Words, Shape DEF Busy
<1>s. ASSUME UNCHANGED <<dir, data, at, cmd, fd, reported>>
      PROVE  ListenersInv'
  BY <1>s, ListenersSpared DEF Spared
<1>1. ASSUME NEW p \in Procs, OpenTmp(p) PROVE ListenersInv'
  BY <1>1, OpenTmpListeners
<1>2. ASSUME NEW p \in Procs, FinishWrite(p) PROVE ListenersInv'
  BY <1>2, FinishListeners
<1>3. ASSUME NEW p \in Procs, RenameInput(p) PROVE ListenersInv'
  BY <1>3, RenameListeners
<1>4. ASSUME NEW p \in Procs, QueryRemoves(p) PROVE ListenersInv'
  <2>1. /\ Remove("hold", Open) /\ Ends(p) /\ at[p] = "expired"
        /\ reported' = reported
    BY <1>4 DEF QueryRemoves, histVars
  <2>2. /\ cmd'[p] = <<>>
        /\ \A q \in Procs \ {p} :
             at'[q] = at[q] /\ cmd'[q] = cmd[q] /\ fd'[q] = fd[q]
    BY <2>1, EndsDoes
  <2>3. \A m \in Names \ {"hold"} : Spared(m)
    BY <2>1, EndsDoes, RemoveKeeps
  <2>4. QED
    BY <1>0, <2>1, <2>2, <2>3, ListenersSpared
<1>5. ASSUME NEW p \in Procs, Timeout(p) PROVE ListenersInv'
  BY <1>5, RunListeners DEF Timeout
<1>6. ASSUME NEW P \in SUBSET Procs, Resume(P) PROVE ListenersInv'
  BY <1>6, RunListeners DEF Resume
<1>7. ASSUME NEW p \in Procs, Query(p) PROVE ListenersInv'
  <2>1. /\ at' = [at EXCEPT ![p] = "expired"] /\ at[p] = "idle"
        /\ UNCHANGED <<dir, data, cmd, fd, reported>>
    BY <1>7 DEF Query, histVars
  <2>2. \A q \in Procs \ {p} : at'[q] = at[q]
    BY <2>1, Shape
  <2>3. QED
    BY <1>0, <2>1, <2>2, ListenersSpared DEF Spared
<1>8. ASSUME NEW p \in Procs, NEW c \in HoldWords \cup AwayWords,
             at[p] = "idle", OpenToWrite(p, c), reported' = reported
      PROVE  ListenersInv'
  <2>1. c \in Contents /\ c # <<>> /\ c \notin LevelWords
    BY Words
  <2>2. PathOf(c) \notin {"input", "tmp"}
    BY HoldWord, AwayWord
  <2>3. /\ \A n \in Names \ {PathOf(c)} : Spared(n)
        /\ cmd'[p] = c
        /\ \A q \in Procs \ {p} :
             at'[q] = at[q] /\ cmd'[q] = cmd[q] /\ fd'[q] = fd[q]
    BY <1>8, <2>1, OpenKeeps
  <2>4. QED
    BY <1>0, <1>8, <2>1, <2>2, <2>3, ListenersSpared
<1>9. ASSUME NEW p \in Procs, NEW r \in 1..Longest, RunHold(p, r)
      PROVE  ListenersInv'
  <2>1. r \in 0..Longest
    BY FilesAssumption, SMT
  <2>2. Until(r) \in HoldWords
    BY <2>1 DEF HoldWords
  <2>3. QED
    BY <1>8, <1>9, <2>2 DEF RunHold
<1>10. ASSUME NEW p \in Procs, NEW d \in Overrides, RunAbsence(p, d)
       PROVE  ListenersInv'
  <2>1. Away(d) \in AwayWords
    BY DEF AwayWords
  <2>2. QED
    BY <1>8, <1>10, <2>1 DEF RunAbsence, histVars
<1>11. ASSUME NEW n \in {"hold", "absence"}, Remove(n, Open),
              UNCHANGED <<at, cmd, fd, reported>>
       PROVE  ListenersInv'
  <2>1. \A q \in Procs : Busy(q)'
    BY <1>11, Shape DEF Busy
  <2>2. \A m \in Names \ {n} : Spared(m)
    BY <1>11, <2>1, Shape, RemoveKeeps
  <2>3. QED
    BY <1>0, <1>11, <2>2, ListenersSpared
<1>12. ASSUME NEW n \in {"hold", "absence"}, RunOff(n) PROVE ListenersInv'
  BY <1>11, <1>12 DEF RunOff, procVars, histVars
<1>13. CASE Elapse
  <2>1. /\ UNCHANGED <<dir, at, cmd, fd, reported>>
        /\ \A n \in {"input", "tmp"} :
             Exists(n) => data'[dir[n]] = data[dir[n]]
    BY <1>13, ElapseKeeps DEF Elapse, procVars
  <2>2. QED
    BY <2>1, ListenersSpared DEF Spared
<1>14. CASE RemoveHold
  BY <1>11, <1>14 DEF RemoveHold, procVars, histVars
<1>15. CASE TickBegins \/ ReadAbsence \/ ReadHold \/ ReadInput
  BY <1>s, <1>15
     DEF TickBegins, ReadAbsence, ReadHold, ReadInput, procVars, histVars
<1>16. CASE UNCHANGED vars
  BY <1>s, <1>16 DEF vars
<1>17. QED
  BY <1>1, <1>2, <1>3, <1>4, <1>5, <1>6, <1>7, <1>9, <1>10, <1>12, <1>13,
     <1>14, <1>15, <1>16 DEF Next, Proceeds, Tick

-----------------------------------------------------------------------------
(* The tick *)

\* A step that leaves the tick, and what it is to read, alone.
LEMMA TouchSpared ==
  ASSUME FilesInv, TouchIsHeard, level' = level, wake => wake',
         tick # "rest" => tick' # "rest", Spared("input"),
         \A q \in Procs : fd[q] # 0 /\ fd[q] = dir["input"] => fd'[q] = fd[q]
  PROVE  TouchIsHeard'
<1>1. Says("input")' = Says("input")
  BY DEF Says, Exists, Spared
<1>2. Understood(Says("input"))' = Understood(Says("input"))
  BY <1>1 DEF Understood
<1>3. (\E q \in Procs : fd[q] # 0 /\ fd[q] = dir["input"])
        => \E q \in Procs : fd'[q] # 0 /\ fd'[q] = dir'["input"]
  BY DEF Spared
<1>4. QED
  BY <1>2, <1>3 DEF TouchIsHeard

LEMMA NextTouch ==
  FilesInv /\ AFileIsFree /\ TouchIsHeard /\ [Next]_vars => TouchIsHeard'
<1> SUFFICES ASSUME FilesInv, AFileIsFree, TouchIsHeard, [Next]_vars
             PROVE  TouchIsHeard'
  OBVIOUS
<1>0. /\ "input" \in Names
      /\ \A p \in Procs : at[p] # "opened" => fd[p] = 0
  BY FilesAssumption, Shape DEF Busy
<1>s. ASSUME UNCHANGED <<dir, data, fd, tick, wake, level>>
      PROVE  TouchIsHeard'
  BY <1>s, TouchSpared DEF Spared
<1>1. ASSUME NEW p \in Procs, NEW c \in Contents, c # <<>>,
             at[p] \in {"idle", "started"}, OpenToWrite(p, c),
             UNCHANGED <<tick, wake, level>>
      PROVE  TouchIsHeard'
  <2>1. PathOf(c) # "input"
    BY <1>1, PathSays
  <2>2. Spared("input") /\ \A q \in Procs \ {p} : fd'[q] = fd[q]
    BY <1>0, <1>1, <2>1, OpenKeeps
  <2>3. QED
    BY <1>0, <1>1, <2>2, TouchSpared
<1>2. ASSUME NEW p \in Procs, OpenTmp(p) PROVE TouchIsHeard'
  <2>1. at[p] = "started" /\ cmd[p] \in Contents /\ cmd[p] # <<>>
    BY <1>2, Shape, LevelWord DEF OpenTmp, Busy
  <2>2. QED
    BY <1>1, <1>2, <2>1 DEF OpenTmp, loopVars
<1>3. ASSUME NEW p \in Procs, FinishWrite(p) PROVE TouchIsHeard'
  <2>1. CASE dir["input"] = fd[p]
    BY <1>3, <2>1 DEF FinishWrite, Closes, TouchIsHeard
  <2>2. CASE dir["input"] # fd[p]
    <3>1. Spared("input") /\ \A q \in Procs \ {p} : fd'[q] = fd[q]
      BY <1>0, <1>3, <2>2, FinishKeeps DEF Spared
    <3>2. (wake => wake') /\ UNCHANGED <<tick, level>>
      BY <1>3 DEF FinishWrite, Closes, loopVars
    <3>3. QED
      BY <2>2, <3>1, <3>2, TouchSpared
  <2>3. QED
    BY <2>1, <2>2
<1>4. ASSUME NEW p \in Procs, RenameInput(p) PROVE TouchIsHeard'
  <2>1. CASE Exists("tmp")
    BY <1>4, <2>1 DEF RenameInput, TouchIsHeard
  <2>2. CASE ~Exists("tmp")
    <3>1. UNCHANGED <<dir, data, wake, tick, level>> /\ Ends(p)
      BY <1>4, <2>2 DEF RenameInput, loopVars
    <3>2. \A q \in Procs \ {p} : fd'[q] = fd[q]
      BY <3>1, EndsDoes
    <3>3. at[p] # "opened"
      BY <1>4 DEF RenameInput
    <3>4. QED
      BY <1>0, <3>1, <3>2, <3>3, TouchSpared DEF Spared
  <2>3. QED
    BY <2>1, <2>2
<1>5. ASSUME NEW p \in Procs, QueryRemoves(p) PROVE TouchIsHeard'
  <2>1. /\ Remove("hold", Open) /\ Ends(p) /\ at[p] = "expired"
        /\ UNCHANGED <<tick, wake, level>>
    BY <1>5 DEF QueryRemoves, loopVars
  <2>2. \A q \in Procs \ {p} : fd'[q] = fd[q]
    BY <2>1, EndsDoes
  <2>3. Spared("input")
    BY <1>0, <2>1, EndsDoes, RemoveKeeps
  <2>4. QED
    BY <1>0, <2>1, <2>2, <2>3, TouchSpared
<1>6. ASSUME NEW P, NEW l, Run(P, l) PROVE TouchIsHeard'
  BY <1>s, <1>6 DEF Run, loopVars
<1>7. ASSUME NEW p \in Procs, Query(p) PROVE TouchIsHeard'
  BY <1>s, <1>7 DEF Query, loopVars
<1>8. ASSUME NEW p \in Procs, NEW r \in 1..Longest, RunHold(p, r)
      PROVE  TouchIsHeard'
  <2>1. r \in 0..Longest
    BY FilesAssumption, SMT
  <2>2. Until(r) \in HoldWords
    BY <2>1 DEF HoldWords
  <2>3. Until(r) \in Contents /\ Until(r) # <<>>
    BY <2>2, Words
  <2>4. QED
    BY <1>1, <1>8, <2>3 DEF RunHold, loopVars
<1>9. ASSUME NEW p \in Procs, NEW d \in Overrides, RunAbsence(p, d)
      PROVE  TouchIsHeard'
  <2>1. Away(d) \in AwayWords
    BY DEF AwayWords
  <2>2. Away(d) \in Contents /\ Away(d) # <<>>
    BY <2>1, Words
  <2>3. QED
    BY <1>1, <1>9, <2>2 DEF RunAbsence, loopVars
<1>10. ASSUME NEW n \in {"hold", "absence"}, RunOff(n) PROVE TouchIsHeard'
  <2>1. /\ Remove(n, Open) /\ UNCHANGED <<at, cmd, fd>>
        /\ UNCHANGED <<tick, wake, level>>
    BY <1>10 DEF RunOff, procVars, loopVars
  <2>2. \A q \in Procs : Busy(q)'
    BY <2>1, Shape DEF Busy
  <2>3. Spared("input")
    BY <1>0, <2>1, <2>2, Shape, RemoveKeeps
  <2>4. QED
    BY <2>1, <2>3, TouchSpared
<1>11. CASE Elapse
  <2>1. /\ UNCHANGED <<dir, fd, tick, wake, level>>
        /\ Exists("input") => data'[dir["input"]] = data[dir["input"]]
    BY <1>11, ElapseKeeps DEF Elapse, procVars, loopVars
  <2>2. QED
    BY <2>1, TouchSpared DEF Spared
<1>12. CASE TickBegins \/ ReadAbsence \/ ReadHold
  BY <1>12 DEF TickBegins, ReadAbsence, ReadHold, TouchIsHeard
<1>13. CASE RemoveHold
  BY <1>13 DEF RemoveHold, TouchIsHeard
<1>14. CASE ReadInput
  <2>1. level' = Understood(Says("input")) /\ UNCHANGED <<dir, data>>
    BY <1>14 DEF ReadInput
  <2>2. QED
    BY <2>1 DEF TouchIsHeard, Understood, Says, Exists
<1>15. CASE UNCHANGED vars
  BY <1>s, <1>15 DEF vars
<1>16. QED
  BY <1>2, <1>3, <1>4, <1>5, <1>6, <1>7, <1>8, <1>9, <1>10, <1>11, <1>12,
     <1>13, <1>14, <1>15 DEF Next, Proceeds, Tick, Timeout, Resume

-----------------------------------------------------------------------------
(* The theorems *)

\* On a disk that is not full every name, file, process and reading of the tick
\* keeps its type: a file only ever says what its name is for, and an override
\* is clamped (main.go:843).
THEOREM TypeCorrect == Spec /\ []AFileIsFree => []TypeOK_Files
<1>1. Init => FilesInv
  BY InitFiles
<1>2. FilesInv => TypeOK_Files
  BY DEF FilesInv
<1>3. QED
  BY <1>1, <1>2, NextFiles, PTL DEF Spec

\* However many listeners resume together, and fall over each other on the one
\* temporary file, once they have all ended the file says what they were run
\* to say (input.go:100).
THEOREM ListenersAgree == Spec /\ []AFileIsFree => []RestsAtLastLevel
<1>1. Init => FilesInv /\ ListenersInv
  BY InitFiles
<1>2. FilesInv /\ ListenersInv => RestsAtLastLevel
  <2> SUFFICES ASSUME FilesInv, ListenersInv, ~Reporting, reported # "unknown"
               PROVE  Says("input") = Level(reported)
    BY DEF RestsAtLastLevel
  <2>1. \A p \in Procs : cmd[p] \notin LevelWords
    BY InputIs DEF Reporting, FilesInv
  <2>2. \A p \in Procs : at[p] # "started"
    BY <2>1, Shape DEF Busy
  <2>3. ~Exists("tmp")
    BY <2>1 DEF ListenersInv, TmpIsGood
  <2>4. Exists("input") /\ Good(dir["input"])
    BY <2>2, <2>3 DEF ListenersInv, InputIsGood
  <2>5. QED
    BY <2>1, <2>4 DEF Good, Says
<1>3. QED
  BY <1>1, <1>2, NextFiles, NextListeners, PTL DEF Spec

\* A touch never waits for the tick's period: while the file says another level
\* than the daemon has read, the loop has been told, is about to read, or a
\* process has the file open still (input.go:106).
THEOREM TouchesAreHeard == Spec /\ []AFileIsFree => []TouchIsHeard
<1>1. Init => FilesInv /\ TouchIsHeard
  BY InitFiles
<1>2. QED
  BY <1>1, NextFiles, NextTouch, PTL DEF Spec
=============================================================================
