----------------------------- MODULE AtomicFile -----------------------------
(***************************************************************************)
(* One file replaced through atomic_write or write_private                 *)
(* (src/src/identity/mod.rs): state.json, status.json, the certificates    *)
(* and the device key are all written this way.  The temporary name is     *)
(* path.with_extension("tmp"), the same for every writer, so the model is  *)
(* of inodes: create truncates whatever inode the temporary name has, and  *)
(* a writer keeps writing to the inode it opened, wherever rename put it.  *)
(***************************************************************************)
EXTENDS Naturals, TLAPS

CONSTANTS
    Writers,   \* threads or processes that write the file
    Data,      \* documents
    Inodes,
    Blocks,    \* a document is this many write(2) calls long
    None,      \* no inode; a block never written
    MaxLosses  \* bound on power losses

ASSUME FileConstants ==
    /\ Blocks \in Nat \ {0}
    /\ None \notin Data /\ None \notin Inodes
    /\ MaxLosses \in Nat

VARIABLES
    content,   \* the blocks of each inode
    tmp,       \* the inode under the temporary name
    path,      \* the inode under the final name
    durable,   \* the inode under the final name if the power failed now
    synced,    \* inodes whose content would survive that
    fd, pos, doc, pc,   \* each writer: open inode, blocks written, document, step
    losses     \* power losses so far

vars == <<content, tmp, path, durable, synced, fd, pos, doc, pc, losses>>

Empty == [b \in 1..Blocks |-> None]
Whole(d) == [b \in 1..Blocks |-> d]

\* The module's type invariant.
TypeOK ==
    /\ content \in [Inodes -> [1..Blocks -> Data \cup {None}]]
    /\ tmp \in Inodes \cup {None}
    /\ path \in Inodes \cup {None}
    /\ durable \in Inodes \cup {None}
    /\ synced \in SUBSET Inodes
    /\ fd \in [Writers -> Inodes \cup {None}]
    /\ pos \in [Writers -> 0..Blocks]
    /\ doc \in [Writers -> Data \cup {None}]
    /\ pc \in [Writers -> {"idle", "write", "rename"}]
    /\ losses \in 0..MaxLosses

Init ==
    /\ content = [i \in Inodes |-> Empty]
    /\ tmp = None /\ path = None /\ durable = None
    /\ synced = {}
    /\ fd = [w \in Writers |-> None]
    /\ pos = [w \in Writers |-> 0]
    /\ doc = [w \in Writers |-> None]
    /\ pc = [w \in Writers |-> "idle"]
    /\ losses = 0

----------------------------------------------------------------------------
Unused(i) == i \notin {tmp, path, durable} /\ \A w \in Writers : fd[w] # i

\* File::create: truncates the temporary file a dead writer left behind.
Create(w) ==
    /\ pc[w] = "idle"
    /\ \E i \in Inodes, d \in Data :
          /\ IF tmp = None THEN Unused(i) ELSE i = tmp
          /\ tmp' = i
          /\ content' = [content EXCEPT ![i] = Empty]
          /\ synced' = synced \ {i}
          /\ fd' = [fd EXCEPT ![w] = i]
          /\ doc' = [doc EXCEPT ![w] = d]
    /\ pos' = [pos EXCEPT ![w] = 0]
    /\ pc' = [pc EXCEPT ![w] = "write"]
    /\ UNCHANGED <<path, durable, losses>>

\* One write(2) of write_all.
WriteBlock(w) ==
    /\ pc[w] = "write"
    /\ pos[w] < Blocks
    /\ content' = [content EXCEPT ![fd[w]][pos[w] + 1] = doc[w]]
    /\ synced' = synced \ {fd[w]}
    /\ pos' = [pos EXCEPT ![w] = pos[w] + 1]
    /\ UNCHANGED <<tmp, path, durable, fd, doc, pc, losses>>

\* Mutant of Sync: the file is closed without sync_all.
SyncSkipped(w) ==
    /\ pc[w] = "write"
    /\ pos[w] = Blocks
    /\ fd' = [fd EXCEPT ![w] = None]
    /\ pc' = [pc EXCEPT ![w] = "rename"]
    /\ UNCHANGED <<content, tmp, path, durable, synced, pos, doc, losses>>

\* Mutant of Sync: one write(2) is taken for write_all.
SyncShort(w) ==
    /\ pc[w] = "write"
    /\ pos[w] > 0
    /\ synced' = synced \cup {fd[w]}
    /\ fd' = [fd EXCEPT ![w] = None]
    /\ pc' = [pc EXCEPT ![w] = "rename"]
    /\ UNCHANGED <<content, tmp, path, durable, pos, doc, losses>>

\* sync_all, and the file is closed.
Sync(w) ==
    /\ pc[w] = "write"
    /\ pos[w] = Blocks
    /\ synced' = synced \cup {fd[w]}
    /\ fd' = [fd EXCEPT ![w] = None]
    /\ pc' = [pc EXCEPT ![w] = "rename"]
    /\ UNCHANGED <<content, tmp, path, durable, pos, doc, losses>>

\* Renames whatever the temporary name now is; an error if it is gone.
Rename(w) ==
    /\ pc[w] = "rename"
    /\ path' = IF tmp = None THEN path ELSE tmp
    /\ tmp' = None
    /\ pc' = [pc EXCEPT ![w] = "idle"]
    /\ UNCHANGED <<content, durable, synced, fd, pos, doc, losses>>

\* A system call fails, or the process is killed: the temporary file stays.
GiveUp(w) ==
    /\ pc[w] # "idle"
    /\ fd' = [fd EXCEPT ![w] = None]
    /\ pc' = [pc EXCEPT ![w] = "idle"]
    /\ UNCHANGED <<content, tmp, path, durable, synced, pos, doc, losses>>

\* The kernel writes the directory back.
Flush ==
    /\ durable # path
    /\ durable' = path
    /\ UNCHANGED <<content, tmp, path, synced, fd, pos, doc, pc, losses>>

(***************************************************************************)
(* Power loss: the last renames may be forgotten, unsynced blocks too.     *)
(***************************************************************************)
PowerLoss ==
    /\ losses < MaxLosses
    /\ losses' = losses + 1
    /\ path' \in {path, durable}
    /\ durable' = path'
    /\ tmp' \in {tmp, None}
    /\ \E lost \in SUBSET (1..Blocks) :
          content' = [i \in Inodes |->
              IF i \in synced THEN content[i]
              ELSE [b \in 1..Blocks |-> IF b \in lost THEN None ELSE content[i][b]]]
    /\ synced' = synced
    /\ fd' = [w \in Writers |-> None]
    /\ pc' = [w \in Writers |-> "idle"]
    /\ UNCHANGED <<pos, doc>>

Next ==
    \/ \E w \in Writers :
          Create(w) \/ WriteBlock(w) \/ Sync(w) \/ Rename(w) \/ GiveUp(w)
    \/ Flush
    \/ PowerLoss

Spec == Init /\ [][Next]_vars
----------------------------------------------------------------------------
(***************************************************************************)
(* atomic_write: "Write via temp file + rename so readers never see a      *)
(* partial file": under its final name the file is one whole document, at  *)
(* every instant and after every crash or power loss.                      *)
(***************************************************************************)
ReadersSeeWhole ==
    path # None => \E d \in Data : content[path] = Whole(d)

(***************************************************************************)
(* What makes it so when there is one writer: the inode being written is   *)
(* not reachable under the final name, now or after a power loss, and the  *)
(* inode about to be renamed is complete and synced.                       *)
(***************************************************************************)
Good(i) == i \in synced /\ \E d \in Data : content[i] = Whole(d)

FileInv ==
    /\ TypeOK
    /\ path # None => Good(path)
    /\ durable # None => Good(durable)
    /\ tmp # None => tmp # path /\ tmp # durable
    /\ \A w \in Writers :
          /\ pc[w] = "write" =>
                /\ fd[w] = tmp /\ tmp # None /\ doc[w] \in Data
                /\ \A b \in 1..Blocks : b <= pos[w] => content[fd[w]][b] = doc[w]
          /\ pc[w] = "rename" => tmp # None /\ Good(tmp)
----------------------------------------------------------------------------
(***************************************************************************)
(* Theorems: a file with one writer is never seen half written, for        *)
(* documents of any length, any number of inodes and any number of power   *)
(* losses.                                                                 *)
(***************************************************************************)
OneWriter == \A v, w \in Writers : v = w

\* Initially there is no file and nobody writes one.
LEMMA InitFileInv == Init => FileInv
  BY FileConstants DEF Init, FileInv, TypeOK, Empty

(***************************************************************************)
(* Creating the temporary file touches neither the live inode nor the one  *)
(* the directory on disk names: a leftover temporary inode is neither, and *)
(* a fresh one is unused.                                                  *)
(***************************************************************************)
LEMMA CreateKeeps ==
  ASSUME OneWriter, FileInv, NEW w \in Writers, Create(w)
  PROVE  FileInv'
  <1> USE FileConstants
  <1>1. PICK i \in Inodes, d \in Data :
           /\ IF tmp = None THEN Unused(i) ELSE i = tmp
           /\ tmp' = i
           /\ content' = [content EXCEPT ![i] = Empty]
           /\ synced' = synced \ {i}
           /\ fd' = [fd EXCEPT ![w] = i]
           /\ doc' = [doc EXCEPT ![w] = d]
    BY DEF Create
  <1>2. i # path /\ i # durable
    BY <1>1 DEF FileInv, Unused
  <1>3. Writers = {w}
    BY DEF OneWriter
  <1>4. TypeOK'
    BY <1>1 DEF Create, FileInv, TypeOK, Empty
  <1>5. path' = path /\ durable' = durable
    BY DEF Create
  <1>6. path' # None => Good(path)'
    BY <1>1, <1>2, <1>5 DEF FileInv, TypeOK, Good
  <1>7. durable' # None => Good(durable)'
    BY <1>1, <1>2, <1>5 DEF FileInv, TypeOK, Good
  <1>8. pc'[w] = "write" /\ pos'[w] = 0
    BY DEF Create, FileInv, TypeOK
  <1>9. fd'[w] = i /\ doc'[w] = d
    BY <1>1 DEF FileInv, TypeOK
  <1> QED
    BY <1>1, <1>2, <1>3, <1>4, <1>5, <1>6, <1>7, <1>8, <1>9 DEF FileInv

\* A block goes to the temporary inode, which no reader can reach.
LEMMA WriteBlockKeeps ==
  ASSUME OneWriter, FileInv, NEW w \in Writers, WriteBlock(w)
  PROVE  FileInv'
  <1> USE FileConstants
  <1>1. /\ fd[w] = tmp /\ tmp \in Inodes /\ tmp # path /\ tmp # durable
        /\ doc[w] \in Data /\ pos[w] \in 0..Blocks
    BY DEF WriteBlock, FileInv, TypeOK
  <1>2. Writers = {w}
    BY DEF OneWriter
  <1>3. pos[w] + 1 \in 1..Blocks
    BY <1>1 DEF WriteBlock
  <1>4. TypeOK'
    BY <1>1, <1>3 DEF WriteBlock, FileInv, TypeOK
  <1>5. path' # None => Good(path)'
    BY <1>1 DEF WriteBlock, FileInv, TypeOK, Good
  <1>6. durable' # None => Good(durable)'
    BY <1>1 DEF WriteBlock, FileInv, TypeOK, Good
  <1>7. \A b \in 1..Blocks : b <= pos'[w] => content'[fd'[w]][b] = doc'[w]
    <2> SUFFICES ASSUME NEW b \in 1..Blocks, b <= pos'[w]
                 PROVE  content'[fd'[w]][b] = doc'[w]
      OBVIOUS
    <2>1. pos'[w] = pos[w] + 1 /\ fd' = fd /\ doc' = doc
      BY DEF WriteBlock, FileInv, TypeOK
    <2>2. content'[tmp] = [content[tmp] EXCEPT ![pos[w] + 1] = doc[w]]
      BY <1>1 DEF WriteBlock, FileInv, TypeOK
    <2>3. content[tmp] \in [1..Blocks -> Data \cup {None}]
      BY <1>1 DEF FileInv, TypeOK
    <2>4. CASE b = pos[w] + 1
      BY <1>1, <2>1, <2>2, <2>3, <2>4
    <2>5. CASE b # pos[w] + 1
      <3>1. b <= pos[w]
        BY <1>1, <2>1, <2>5
      <3>2. content[fd[w]][b] = doc[w]
        BY <3>1 DEF WriteBlock, FileInv
      <3> QED
        BY <1>1, <2>1, <2>2, <2>3, <2>5, <3>2
    <2> QED
      BY <2>4, <2>5
  <1>8. pc'[w] = "write" /\ fd' = fd /\ tmp' = tmp /\ path' = path /\ durable' = durable
        /\ doc' = doc
    BY DEF WriteBlock
  <1> QED
    BY <1>1, <1>2, <1>4, <1>5, <1>6, <1>7, <1>8 DEF FileInv

\* After the last block, sync_all makes the temporary inode good.
LEMMA SyncKeeps ==
  ASSUME OneWriter, FileInv, NEW w \in Writers, Sync(w)
  PROVE  FileInv'
  <1> USE FileConstants
  <1>1. fd[w] = tmp /\ tmp \in Inodes /\ doc[w] \in Data /\ pos[w] = Blocks
    BY DEF Sync, FileInv, TypeOK
  <1>2. Writers = {w}
    BY DEF OneWriter
  <1>3. TypeOK'
    BY <1>1 DEF Sync, FileInv, TypeOK
  <1>4. content[tmp] = Whole(doc[w])
    <2>1. content[tmp] \in [1..Blocks -> Data \cup {None}]
      BY <1>1 DEF FileInv, TypeOK
    <2>2. \A b \in 1..Blocks : content[tmp][b] = doc[w]
      BY <1>1 DEF Sync, FileInv
    <2> QED
      BY <2>1, <2>2 DEF Whole
  <1>5. tmp' = tmp /\ Good(tmp)'
    BY <1>1, <1>4 DEF Sync, Good, Whole
  <1>6. (path' # None => Good(path)') /\ (durable' # None => Good(durable)')
    BY DEF Sync, FileInv, Good
  <1>7. pc'[w] = "rename"
    BY DEF Sync, FileInv, TypeOK
  <1> QED
    BY <1>1, <1>2, <1>3, <1>5, <1>6, <1>7 DEF FileInv, Sync

\* The inode that gets the final name is good.
LEMMA RenameKeeps ==
  ASSUME OneWriter, FileInv, NEW w \in Writers, Rename(w)
  PROVE  FileInv'
  <1> USE FileConstants
  <1>1. Writers = {w} /\ tmp # None /\ Good(tmp)
    BY DEF OneWriter, Rename, FileInv
  <1>2. TypeOK'
    BY DEF Rename, FileInv, TypeOK
  <1>3. path' = tmp /\ Good(path)'
    BY <1>1 DEF Rename, Good
  <1>4. durable' # None => Good(durable)'
    BY DEF Rename, FileInv, Good
  <1>5. pc'[w] = "idle" /\ tmp' = None
    BY DEF Rename, FileInv, TypeOK
  <1> QED
    BY <1>1, <1>2, <1>3, <1>4, <1>5 DEF FileInv

\* Giving up and flushing move no data; a power loss spares synced inodes.
LEMMA OtherStepsKeep ==
  ASSUME OneWriter, FileInv,
         (\E w \in Writers : GiveUp(w)) \/ Flush \/ PowerLoss \/ UNCHANGED vars
  PROVE  FileInv'
  <1> USE FileConstants
  <1>1. ASSUME NEW w \in Writers, GiveUp(w) PROVE FileInv'
    <2>1. Writers = {w}
      BY DEF OneWriter
    <2>2. TypeOK'
      BY <1>1 DEF GiveUp, FileInv, TypeOK
    <2>3. pc'[w] = "idle"
      BY <1>1 DEF GiveUp, FileInv, TypeOK
    <2> QED
      BY <1>1, <2>1, <2>2, <2>3 DEF GiveUp, FileInv, Good
  <1>2. CASE Flush
    BY <1>2 DEF Flush, FileInv, TypeOK, Good
  <1>3. CASE PowerLoss
    <2>1. TypeOK'
      BY <1>3 DEF PowerLoss, FileInv, TypeOK
    <2>2. \A i \in synced : i \in synced' /\ content'[i] = content[i]
      BY <1>3 DEF PowerLoss, FileInv, TypeOK
    <2>3. \A i : Good(i) => i \in synced' /\ \E d \in Data : content'[i] = Whole(d)
      BY <2>2 DEF Good
    <2>4. path' \in {path, durable} /\ durable' = path' /\ tmp' \in {tmp, None}
      BY <1>3 DEF PowerLoss
    <2>5. path' # None => Good(path)'
      BY <2>3, <2>4 DEF FileInv, Good
    <2>6. \A w \in Writers : pc'[w] = "idle"
      BY <1>3 DEF PowerLoss
    <2> QED
      BY <2>1, <2>4, <2>5, <2>6 DEF FileInv, Good
  <1>4. CASE UNCHANGED vars
    BY <1>4 DEF vars, FileInv, TypeOK, Good
  <1> QED
    BY <1>1, <1>2, <1>3, <1>4

\* Every step of a single writer, and every death and power loss, keeps FileInv.
LEMMA StepKeeps ==
  ASSUME OneWriter
  PROVE  FileInv /\ [Next]_vars => FileInv'
  <1> SUFFICES ASSUME FileInv, [Next]_vars PROVE FileInv'
    OBVIOUS
  <1> QED
    BY CreateKeeps, WriteBlockKeeps, SyncKeeps, RenameKeeps, OtherStepsKeep DEF Next

(***************************************************************************)
(* What atomic_write knows on the way: at each step of it, the temporary   *)
(* file holds the blocks written so far, they are on disk once it was      *)
(* synced, and whatever has the final name is whole.                       *)
(***************************************************************************)
THEOREM FileInvariance ==
  ASSUME OneWriter
  PROVE  Spec => []FileInv
  BY InitFileInv, StepKeeps, PTL DEF Spec

(***************************************************************************)
(* atomic_write with a single writer: readers never see a partial file,    *)
(* whatever crashes and power losses happen.                               *)
(***************************************************************************)
THEOREM AtomicWrite ==
  ASSUME OneWriter
  PROVE  Spec => []ReadersSeeWhole
  <1>1. FileInv => ReadersSeeWhole
    BY DEF FileInv, ReadersSeeWhole, Good
  <1> QED
    BY FileInvariance, <1>1, PTL
=============================================================================
