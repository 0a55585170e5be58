---------------------------- MODULE RotatingLog ----------------------------
(***************************************************************************)
(* One RotatingLogWriter (log_rotation.py) shared by the handler threads   *)
(* of a gateway: the bridge makes one before it serves, so every thread    *)
(* takes the same lock and the same deadline.  A file is the set of        *)
(* entries it holds; an entry is the number of the write.  The lock is     *)
(* held across a rotation and the write that follows, but a reader sees    *)
(* every rename on its own, any of them may raise OSError and end the      *)
(* write, and the process may be killed at any step.                       *)
(***************************************************************************)
EXTENDS Naturals, Sequences

CONSTANTS LogThreads,  \* handler threads that log
          NoThread,    \* no thread: the lock is free
          Keeps,       \* values of log_rotate_keep: numbered files kept
          MaxEntries,  \* bound: writes of a run
          MaxRotations \* bound: rotations begun in a run

ASSUME LogAssumption ==
  /\ NoThread \notin LogThreads
  /\ Keeps \subseteq Nat
  /\ MaxEntries \in Nat /\ MaxRotations \in Nat

VARIABLES keep,      \* log_rotate_keep, normalised to be no less than 0
          writer,    \* [LogThreads -> what the thread is doing in write()]
          lock,      \* the thread holding _lock, or NoThread
          active,    \* entries of path, the file being appended to
          rotated,   \* [0 .. keep - 1 -> entries of path.<i>.log]
          shift,     \* the index the running rotation renames next
          generation,\* ghost: rotations begun so far, finished or cut short
          written,   \* ghost: the generation each entry was written in
          due        \* the clock has passed _next_rotation_at

logVars == <<keep, writer, lock, active, rotated, shift, generation, written, due>>

Numbers == {i \in 0 .. keep : i < keep}

LogInit ==
  /\ keep \in Keeps
  /\ writer = [t \in LogThreads |-> "idle"]
  /\ lock = NoThread
  /\ active = {}
  /\ rotated = [i \in Numbers |-> {}]
  /\ shift = 0
  /\ generation = 0
  /\ written = <<>>
  /\ due = FALSE

LogTypeOK ==
  /\ writer \in [LogThreads -> {"idle", "unlink", "shift", "reopen", "write"}]
  /\ lock \in LogThreads \cup {NoThread}
  /\ rotated \in [Numbers -> SUBSET (1 .. MaxEntries)]
  /\ active \subseteq 1 .. MaxEntries
  /\ due \in BOOLEAN

To(t, step) == writer' = [writer EXCEPT ![t] = step]

(* `with self._lock`, and the test of the deadline under it. *)
NoLock == TRUE
Free == lock = NoThread
Acquire(t) ==
  /\ writer[t] = "idle" /\ Free
  /\ Len(written) < MaxEntries
  /\ due => generation < MaxRotations
  /\ lock' = t
  /\ To(t, IF due THEN "unlink" ELSE "write")
  /\ UNCHANGED <<keep, active, rotated, shift, generation, written, due>>

(* The oldest numbered file goes; with keep = 0 the active file does. *)
Unlink(t) ==
  /\ writer[t] = "unlink"
  /\ generation' = generation + 1
  /\ IF keep > 0
     THEN /\ rotated' = [rotated EXCEPT ![keep - 1] = {}]
          /\ shift' = keep - 1
          /\ To(t, "shift")
          /\ UNCHANGED active
     ELSE /\ active' = {}
          /\ To(t, "reopen")
          /\ UNCHANGED <<rotated, shift>>
  /\ UNCHANGED <<keep, lock, written, due>>

(* Each numbered file takes the next number, the oldest first... *)
Shift(t) ==
  /\ writer[t] = "shift" /\ shift > 0
  /\ rotated' = [rotated EXCEPT ![shift] = IF rotated[shift - 1] = {}
                                           THEN @ ELSE rotated[shift - 1],
                                ![shift - 1] = {}]
  /\ shift' = shift - 1
  /\ UNCHANGED <<keep, writer, lock, active, generation, written, due>>

(* ...and the active file becomes number 0. *)
Retitle(t) ==
  /\ writer[t] = "shift" /\ shift = 0
  /\ rotated' = [rotated EXCEPT ![0] = IF active = {} THEN @ ELSE active]
  /\ active' = {}
  /\ To(t, "reopen")
  /\ UNCHANGED <<keep, lock, shift, generation, written, due>>

(* Standard streams opened on the old file are opened on the new one; only *)
(* then a new deadline is set.                                             *)
Reopen(t) ==
  /\ writer[t] = "reopen"
  /\ due' = FALSE
  /\ To(t, "write")
  /\ UNCHANGED <<keep, lock, active, rotated, shift, generation, written>>

WriteEntry(t) ==
  /\ writer[t] = "write"
  /\ written' = written \o <<generation>>
  /\ active' = active \cup {Len(written) + 1}
  /\ lock' = NoThread
  /\ To(t, "idle")
  /\ UNCHANGED <<keep, rotated, shift, generation, due>>

(* A stat, an unlink, a rename or an open raises OSError: the lock is      *)
(* freed, the entry is not written, and what the rotation did stays done   *)
(* with its deadline still due: the next write rotates again from the top. *)
Fails(t) ==
  /\ writer[t] # "idle"
  /\ lock' = NoThread
  /\ To(t, "idle")
  /\ UNCHANGED <<keep, active, rotated, shift, generation, written, due>>

(* The process is killed, and started again with a writer of its own and a *)
(* new deadline; the files are as they were.                               *)
Killed ==
  /\ writer' = [t \in LogThreads |-> "idle"]
  /\ lock' = NoThread
  /\ due' = FALSE
  /\ UNCHANGED <<keep, active, rotated, shift, generation, written>>

Tick == ~due /\ due' = TRUE
        /\ UNCHANGED <<keep, writer, lock, active, rotated, shift, generation, written>>

LogNext ==
  \/ \E t \in LogThreads :
       \/ Acquire(t) \/ Unlink(t) \/ Shift(t) \/ Retitle(t)
       \/ Reopen(t) \/ WriteEntry(t) \/ Fails(t)
  \/ Killed
  \/ Tick

OnDisk == active \cup UNION {rotated[i] : i \in Numbers}

(* An entry is in one of the files until more than keep rotations have     *)
(* begun since it was written, at every step of a rotation, whichever      *)
(* threads log and wherever an earlier rotation was cut short.  A rotation *)
(* that failed counts, and so does the one the next write begins in its    *)
(* place: the code bounds what is lost by rotations begun, not finished.   *)
RecentEntriesKept ==
  \A e \in 1 .. Len(written) : generation - written[e] > keep \/ e \in OnDisk
=============================================================================
