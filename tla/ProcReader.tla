----------------------------- MODULE ProcReader ----------------------------
(***************************************************************************)
(* A process that reads /proc/net/cdp/json while frames and the timer      *)
(* change the list: the iterator of module/cdp_proc.c, driven by the       *)
(* kernel's seq_file, and what cdp_seq_json_show prints for an entry.      *)
(*                                                                         *)
(* seq_file reads batch by batch.  A batch begins at an index, with the    *)
(* read lock; it ends when its buffer is full or the list is over, and the *)
(* lock is dropped until the next one.  An entry that does not fit is left *)
(* for the next batch; if it is the first one, the buffer is made larger   *)
(* and the batch is begun again.  CdpModule shows that no reader is left   *)
(* when the list is emptied, so that is left out here.  A frame whose      *)
(* parse never ends needs no step: nothing obliges the process to go on.   *)
(***************************************************************************)
EXTENDS NeighborList, Sequences

VARIABLES
  at,     \* "idle" between batches, "first" or "fill" within one, "end", "dead"
  pos,    \* the index the next entry is shown for
  cur,    \* the entry the iterator is at
  batch,  \* what the batch has shown so far
  doc     \* what the process was given since it opened the file

readerVars == <<at, pos, cur, batch, doc>>
procVars == <<vars, readerVars>>

\* What is printed for an entry: the opening bracket, the entry, the closing
\* bracket, or less.
Piece == [entry : Neighbors, open : BOOLEAN, body : BOOLEAN, close : BOOLEAN]

ReaderTypeOK ==
  /\ TypeOK
  /\ at \in {"idle", "first", "fill", "end", "dead"}
  /\ pos \in Nat
  /\ cur \in Pointer
  /\ batch \in Seq(Piece)
  /\ doc \in Seq(Piece)

ReaderInit ==
  /\ Init
  /\ at = "idle" /\ pos = 0 /\ cur = NULL /\ batch = <<>> /\ doc = <<>>

\* The process holds the read lock.
Holding == at \in {"first", "fill", "dead"}

-----------------------------------------------------------------------------

\* Counts one entry too few: index 1 is the head again.
MutGetByIndex(i) ==
  IF i >= count THEN NULL ELSE Reached[IF i = 0 THEN 0 ELSE i - 1]

\* cdp_neighbor_list_get_by_index: past the counter there is nothing.
GetByIndex(i) == IF i >= count THEN NULL ELSE Reached[i]

\* The index stays where it was.
MutSeqNext(n, i) == [entry |-> next[n], index |-> i]

SeqNext(n, i) == [entry |-> next[n], index |-> i + 1]

\* Prints the entry behind the one it is called for.
MutShowsSuccessor(n, parsed) ==
  LET body == frame[n].present /\ frame[n].length > 0 => parsed
  IN  [entry |-> next[n], open |-> n = head, body |-> body,
       close |-> body /\ n = tail]

\* A frame that cannot be parsed does not keep the closing bracket back.
MutShows(n, parsed) ==
  LET body == frame[n].present /\ frame[n].length > 0 => parsed
  IN  [entry |-> n, open |-> n = head, body |-> body, close |-> n = tail]

\* cdp_seq_json_show.  An entry without a frame prints that it has none.  A
\* stored frame that cannot be parsed, or no memory for it, ends the printing,
\* with the closing bracket not printed.
Shows(n, parsed) ==
  LET body == frame[n].present /\ frame[n].length > 0 => parsed
  IN  [entry |-> n, open |-> n = head, body |-> body,
       close |-> body /\ n = tail]

Prints(piece) == piece.open \/ piece.body \/ piece.close

-----------------------------------------------------------------------------
(* seq_read.                                                               *)

StartBatch ==
  /\ at = "idle" /\ op = "idle"
  /\ cur' = GetByIndex(pos)
  /\ at' = "first"
  /\ UNCHANGED <<vars, pos, batch, doc>>

\* There was no memory for the state of the interrupts, which is not looked at: the
\* process dies when it stores it, with the lock, and the list stays as it is.
StartBatchDies ==
  /\ at = "idle" /\ op = "idle"
  /\ at' = "dead"
  /\ UNCHANGED <<vars, pos, cur, batch, doc>>

\* The process is given no more bytes, and reads no more until it opens the
\* file again.
EndOfFile ==
  /\ at = "first" /\ cur = NULL
  /\ at' = "end"
  /\ UNCHANGED <<vars, pos, cur, batch, doc>>

\* An entry that prints nothing is passed over.
SkipSilent ==
  /\ at = "first" /\ cur # NULL
  /\ \E parsed \in BOOLEAN : ~Prints(Shows(cur, parsed))
  /\ LET following == SeqNext(cur, pos)
     IN  cur' = following.entry /\ pos' = following.index
  /\ UNCHANGED <<vars, at, batch, doc>>

ShowFirst ==
  /\ at = "first" /\ cur # NULL
  /\ \E parsed \in BOOLEAN :
       /\ Prints(Shows(cur, parsed))
       /\ batch' = <<Shows(cur, parsed)>>
  /\ at' = "fill"
  /\ UNCHANGED <<vars, pos, cur, doc>>

\* The first entry does not fit: the lock is dropped, and the batch is begun
\* again with a larger buffer.
GrowBuffer ==
  /\ at = "first" /\ cur # NULL
  /\ at' = "idle"
  /\ cur' = NULL
  /\ UNCHANGED <<vars, pos, batch, doc>>

ShowNext ==
  LET following == SeqNext(cur, pos)
  IN  /\ at = "fill" /\ following.entry # NULL
      /\ \E parsed \in BOOLEAN :
           LET piece == Shows(following.entry, parsed)
           IN  batch' = IF Prints(piece) THEN Append(batch, piece) ELSE batch
      /\ cur' = following.entry
      /\ pos' = following.index
      /\ UNCHANGED <<vars, at, doc>>

\* The list is over, the next entry does not fit, or the process has what it
\* asked for.
EndBatch ==
  /\ at = "fill"
  /\ doc' = doc \o batch
  /\ batch' = <<>>
  /\ pos' = pos + 1
  /\ cur' = NULL
  /\ at' = "idle"
  /\ UNCHANGED vars

Reopen ==
  /\ at = "end"
  /\ at' = "idle" /\ pos' = 0 /\ doc' = <<>>
  /\ UNCHANGED <<vars, cur, batch>>

Read ==
  \/ StartBatch \/ StartBatchDies \/ EndOfFile \/ SkipSilent \/ ShowFirst
  \/ GrowBuffer \/ ShowNext \/ EndBatch \/ Reopen

\* Frames and purges wait for the write lock while the process reads.
ListWork ==
  /\ Receive \/ Purge \/ Tick
  /\ Holding => op' = "idle"
  /\ UNCHANGED readerVars

ReaderNext == Read \/ ListWork

ReaderSpec == ReaderInit /\ [][ReaderNext]_procVars

-----------------------------------------------------------------------------
(* Properties.                                                             *)

Given == doc \o batch

\* From opening the file to its end a process is never given an entry twice,
\* although entries are purged and appended between two batches and indices
\* shift.
ShownOnce ==
  \A i, j \in DOMAIN Given : Given[i].entry = Given[j].entry => i = j

OpenedFirst == \A i \in DOMAIN Given : Given[i].open <=> i = 1

ClosedWithTail ==
  \A i \in DOMAIN batch :
    /\ batch[i].close <=> batch[i].body /\ batch[i].entry = tail
    /\ batch[i].entry = tail => i = Len(batch)

\* The opening bracket is the first thing in the document and is nowhere else,
\* although it is printed for whatever entry is the head at the time.  The
\* closing bracket goes with the tail of the list: within a batch nothing follows
\* it, and no entry that is shown as the tail goes without it.
BracketsPlaced == OpenedFirst /\ ClosedWithTail

\* Within a batch the iterator is at an entry of the list, and its index is the
\* entry's place: so the next batch goes on where this one ended.
IndexIsPlace ==
  Holding /\ cur # NULL => cur \in Listed /\ Reached[pos] = cur

-----------------------------------------------------------------------------
(* What the code says of itself and does not do.                           *)

\* "The requested item or NULL if past end." (cdp_neighbor.h:162)
IndexFindsEntry ==
  op = "idle" => \A i \in 0..(Cardinality(Listed) - 1) : GetByIndex(i) = Reached[i]
=============================================================================
