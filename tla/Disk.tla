-------------------------------- MODULE Disk --------------------------------
(***************************************************************************)
(* The directory that the daemon and its commands share.  A name leads to  *)
(* a file or to none; a program that has a file open keeps writing to it   *)
(* when the name is given to another file or to none.                      *)
(*                                                                         *)
(* os.WriteFile is two steps, as the kernel lets others see them: the open *)
(* that creates or truncates, and the write with the close after it.  What *)
(* is written here fits one write.  External: the kernel.                  *)
(***************************************************************************)
EXTENDS Naturals

CONSTANTS
  Names,          \* the paths in use
  Files,          \* inodes
  Inodes(_),      \* those that a file created as n may get, enough for all
  Contents        \* what a file can say; <<>> is nothing

VARIABLES
  dir,            \* dir[name]: the file of that name, or 0
  data            \* data[file]: what it says

diskVars == <<dir, data>>

DiskTypeOK ==
  /\ dir \in [Names -> Files \cup {0}]
  /\ data \in [Files -> Contents]

DiskInit == dir = [n \in Names |-> 0] /\ data = [f \in Files |-> <<>>]

Exists(n) == dir[n] # 0

\* What ReadFile returns; a name without a file says nothing either.
Says(n) == IF Exists(n) THEN data[dir[n]] ELSE <<>>

\* The file that an open of n for writing gives, with `held` open elsewhere.
Opens(n, held) ==
  IF Exists(n) THEN dir[n]
  ELSE CHOOSE f \in Inodes(n) : f \notin held /\ \A m \in Names : dir[m] # f

\* What is said, less what no name and no open file leads to any more.
Kept(said, names, held) ==
  [f \in Files |-> IF f \in held \/ \E n \in Names : names[n] = f
                    THEN said[f] ELSE <<>>]

\* open(n, O_WRONLY|O_CREATE|O_TRUNC)
Truncate(n, f) ==
  /\ dir' = [dir EXCEPT ![n] = f]
  /\ data' = [data EXCEPT ![f] = <<>>]

\* The write to f and its close, with `held` still open.
Write(f, c, held) ==
  /\ data' = Kept([data EXCEPT ![f] = c], dir, held)
  /\ UNCHANGED dir

Remove(n, held) ==
  /\ dir' = [dir EXCEPT ![n] = 0]
  /\ data' = Kept(data, dir', held)

Rename(from, to, held) ==
  /\ dir' = [dir EXCEPT ![to] = dir[from], ![from] = 0]
  /\ data' = Kept(data, dir', held)
=============================================================================
