-------------------------- MODULE ConfigTransaction --------------------------
(***************************************************************************)
(* Desired-state operations of llmops_config_ops.py on the authority host: *)
(* CLI, TUI and forwarded commands plan an edit, read the documents it     *)
(* touches and hand the new ones to _transactional_files, which compares   *)
(* the authority hash, backs up, replaces, validates and, on an exception, *)
(* restores.  Nothing locks the tree.                                      *)
(*                                                                         *)
(* A document is the set of edits it carries, Original for the text it had *)
(* at the start; a file that does not exist has none.  The hash of the     *)
(* tree is the tree itself (no two trees have one digest, and a digest is  *)
(* one read).                                                              *)
(***************************************************************************)
EXTENDS Naturals, Sequences, FiniteSets

CONSTANTS Files,        \* documents under the configuration home
          Original,     \* what a document holds at the start
          Edits,        \* what operations add to documents
          Documents,    \* edit -> the files it writes, in the order of its mapping
          Creates,      \* edit -> those of them that must not exist before
          Unvalidated,  \* edits whose operation passes validate=lambda: None
          Incompatible, \* sets of edits that validation refuses together
          Operators,    \* llmops processes
          MaxSecond,    \* bound on the clock
          MaxOperations, \* bound on the operations of a behaviour
          Faults        \* the faults the environment may produce

AllFaults == {"prepare",  \* a temporary or a backup cannot be written
              "replace",  \* os.replace raises while the documents are replaced
              "restore",  \* os.replace or unlink raises in the except clause
              "kill"}     \* the process is killed or interrupted (BaseException)

Touched(e) == {Documents[e][i] : i \in 1..Len(Documents[e])}

ASSUME ConfigAssumption ==
    /\ Edits # {}
    /\ Documents \in [Edits -> Seq(Files)]
    /\ \A e \in Edits : \A i, j \in 1..Len(Documents[e]) :
            Documents[e][i] = Documents[e][j] => i = j
    /\ Creates \in [Edits -> SUBSET Files]
    /\ \A e \in Edits : Creates[e] \subseteq Touched(e)
    /\ Unvalidated \subseteq Edits
    /\ Incompatible \subseteq SUBSET Edits
    /\ Original \notin Edits
    /\ MaxSecond \in Nat /\ MaxOperations \in Nat
    /\ Faults \subseteq AllFaults

VARIABLES
    file,      \* file -> its edits, or Absent
    backup,    \* file -> second -> what <name>.backup-<timestamp> holds, or Absent
    now,       \* the second the clock shows
    started,   \* operations so far
    pc,
    edit,      \* the edit of the operation
    guarded,   \* expected_hash was given
    expected,  \* the tree whose hash was given
    seen,      \* the documents as the operation read them
    second,    \* timestamp
    left,      \* documents the current loop has not come to
    saved,     \* backups: files this operation backed up
    outcome,   \* none, ok, refused, failed, broken (an exception while restoring)
    base,      \* history: the tree when the hash was compared
    overlap    \* history: another operation was at work between its read and its end

treeVars == <<file, backup>>
opVars   == <<edit, guarded, expected, seen, second, left, saved, outcome>>
vars     == <<treeVars, now, started, pc, opVars, base, overlap>>

Absent  == {}
Content == SUBSET (Edits \cup {Original})
Working == {"prepare", "replace", "validate", "restore"}
Points  == Working \cup {"idle", "read", "check", "dead", "ended"}
Seconds == 0..MaxSecond

AnyEdit == CHOOSE e \in Edits : TRUE
Nothing == [f \in Files |-> Absent]

\* A valid tree: the documents some edits create may exist already or not.
Init ==
    /\ file \in [Files -> {{Original}, Absent}]
    /\ \A e \in Edits : \A f \in Touched(e) \ Creates[e] : file[f] # Absent
    /\ backup = [f \in Files |-> [s \in Seconds |-> Absent]]
    /\ now = 0 /\ started = 0
    /\ pc = [p \in Operators |-> "idle"]
    /\ edit = [p \in Operators |-> AnyEdit]
    /\ guarded = [p \in Operators |-> FALSE]
    /\ expected = [p \in Operators |-> Nothing]
    /\ seen = [p \in Operators |-> Nothing]
    /\ second = [p \in Operators |-> 0]
    /\ left = [p \in Operators |-> <<>>]
    /\ saved = [p \in Operators |-> {}]
    /\ outcome = [p \in Operators |-> "none"]
    /\ base = [p \in Operators |-> Nothing]
    /\ overlap = [p \in Operators |-> FALSE]

Goto(p, label) == pc' = [pc EXCEPT ![p] = label]

Ends(p, verdict) ==
    /\ Goto(p, "ended")
    /\ outcome' = [outcome EXCEPT ![p] = verdict]

\* The candidate document an operation computes from what it read.
With(content, e) == content \cup {e}

\* _validate_rebuilt: no incompatible edits, every component has its profile.
Valid ==
    LET present == UNION {file[f] : f \in Files} \ {Original}
    IN  /\ \A S \in Incompatible : ~(S \subseteq present)
        /\ \A e \in present : \A f \in Creates[e] : file[f] # Absent

Others(p) == {q \in Operators \ {p} : pc[q] \in Working}

(***************************************************************************)
(* Up to the comparison of hashes.                                         *)
(***************************************************************************)

\* The plan the operator confirms; its authority_hash may become --expected-hash.
Plan(p) ==
    /\ pc[p] = "idle" /\ started < MaxOperations
    /\ started' = started + 1
    /\ \E e \in Edits, g \in BOOLEAN :
        /\ edit' = [edit EXCEPT ![p] = e]
        /\ guarded' = [guarded EXCEPT ![p] = g]
        /\ expected' = [expected EXCEPT ![p] = IF g THEN file ELSE Nothing]
    /\ Goto(p, "read")
    /\ UNCHANGED <<treeVars, now, seen, second, left, saved, outcome, base, overlap>>

\* The operation run with apply=True: what it creates must not exist, what it
\* changes must.
Read(p) ==
    /\ pc[p] = "read"
    /\ IF \A f \in Touched(edit[p]) : f \in Creates[edit[p]] <=> file[f] = Absent
       THEN /\ seen' = [seen EXCEPT ![p] = [f \in Files |->
                            IF f \in Touched(edit[p]) THEN file[f] ELSE Absent]]
            /\ overlap' = [overlap EXCEPT ![p] = Others(p) # {}]
            /\ Goto(p, "check")
            /\ UNCHANGED outcome
       ELSE Ends(p, "refused") /\ UNCHANGED <<seen, overlap>>
    /\ UNCHANGED <<treeVars, now, started, edit, guarded, expected, second, left, saved, base>>

Timestamp == now

NoComparison(p) == TRUE
Matches(p)      == guarded[p] => expected[p] = file

\* before_hash against expected_hash; from here on the operation is at work.
Check(p) ==
    /\ pc[p] = "check"
    /\ IF Matches(p)
       THEN /\ second' = [second EXCEPT ![p] = Timestamp]
            /\ left' = [left EXCEPT ![p] = Documents[edit[p]]]
            /\ saved' = [saved EXCEPT ![p] = {}]
            /\ base' = [base EXCEPT ![p] = file]
            /\ overlap' = [q \in Operators |->
                    \/ overlap[q]
                    \/ q = p /\ Others(p) # {}
                    \/ q # p /\ pc[q] \in Working \cup {"dead"}]
            /\ Goto(p, "prepare")
            /\ UNCHANGED outcome
       ELSE Ends(p, "refused") /\ UNCHANGED <<second, left, saved, base, overlap>>
    /\ UNCHANGED <<treeVars, now, started, edit, guarded, expected, seen>>

(***************************************************************************)
(* _transactional_files.                                                   *)
(***************************************************************************)
Advance(p) == left' = [left EXCEPT ![p] = Tail(@)]

\* The except clause starts over with the first document.
Raises(p) ==
    /\ Goto(p, "restore")
    /\ left' = [left EXCEPT ![p] = Documents[edit[p]]]

NotCopied(p, f) == backup
Copied(p, f)    == [backup EXCEPT ![f][second[p]] = file[f]]

\* One document: its temporary, and a backup when the file exists.
Prepare(p) ==
    /\ pc[p] = "prepare" /\ left[p] # <<>>
    /\ LET f == Head(left[p]) IN
        \/ /\ IF file[f] = Absent THEN UNCHANGED <<backup, saved>>
              ELSE /\ backup' = Copied(p, f)
                   /\ saved' = [saved EXCEPT ![p] = @ \cup {f}]
           /\ Advance(p)
           /\ UNCHANGED pc
        \/ /\ "prepare" \in Faults
           /\ Raises(p)
           /\ UNCHANGED <<backup, saved>>
    /\ UNCHANGED <<file, now, started, edit, guarded, expected, seen, second, outcome, base, overlap>>

Prepared(p) ==
    /\ pc[p] = "prepare" /\ left[p] = <<>>
    /\ Goto(p, "replace")
    /\ left' = [left EXCEPT ![p] = Documents[edit[p]]]
    /\ UNCHANGED <<treeVars, now, started, edit, guarded, expected, seen, second, saved, outcome,
                   base, overlap>>

Replace(p) ==
    /\ pc[p] = "replace" /\ left[p] # <<>>
    /\ LET f == Head(left[p]) IN
        \/ /\ file' = [file EXCEPT ![f] = With(seen[p][f], edit[p])]
           /\ Advance(p)
           /\ UNCHANGED pc
        \/ /\ "replace" \in Faults
           /\ Raises(p)
           /\ UNCHANGED file
    /\ UNCHANGED <<backup, now, started, edit, guarded, expected, seen, second, saved, outcome, base, overlap>>

Replaced(p) ==
    /\ pc[p] = "replace" /\ left[p] = <<>>
    /\ Goto(p, "validate")
    /\ UNCHANGED <<treeVars, now, started, opVars, base, overlap>>

Validate(p) ==
    /\ pc[p] = "validate"
    /\ IF edit[p] \in Unvalidated \/ Valid
       THEN Ends(p, "ok") /\ UNCHANGED left
       ELSE Raises(p) /\ UNCHANGED outcome
    /\ UNCHANGED <<treeVars, now, started, edit, guarded, expected, seen, second, saved, base, overlap>>

\* What the except clause makes of one document.
BackupsOnly(p, f) ==
    IF f \in saved[p] /\ backup[f][second[p]] # Absent
    THEN /\ file' = [file EXCEPT ![f] = backup[f][second[p]]]
         /\ backup' = [backup EXCEPT ![f][second[p]] = Absent]
    ELSE UNCHANGED treeVars

PutBack(p, f) ==
    IF f \in saved[p] /\ backup[f][second[p]] # Absent
    THEN /\ file' = [file EXCEPT ![f] = backup[f][second[p]]]
         /\ backup' = [backup EXCEPT ![f][second[p]] = Absent]
    ELSE /\ file' = IF f \in saved[p] THEN file ELSE [file EXCEPT ![f] = Absent]
         /\ UNCHANGED backup

Restore(p) ==
    /\ pc[p] = "restore" /\ left[p] # <<>>
    /\ \/ PutBack(p, Head(left[p])) /\ Advance(p) /\ UNCHANGED <<pc, outcome>>
       \/ /\ "restore" \in Faults
          /\ Ends(p, "broken")
          /\ UNCHANGED <<treeVars, left>>
    /\ UNCHANGED <<now, started, edit, guarded, expected, seen, second, saved, base, overlap>>

Restored(p) ==
    /\ pc[p] = "restore" /\ left[p] = <<>>
    /\ Ends(p, "failed")
    /\ UNCHANGED <<treeVars, now, started, edit, guarded, expected, seen, second, left, saved, base, overlap>>

(***************************************************************************)
(* The end of a process, the clock.                                        *)
(***************************************************************************)
\* KeyboardInterrupt is not an Exception: nothing is restored either.
Kill(p) ==
    /\ "kill" \in Faults
    /\ pc[p] \in Working
    /\ Goto(p, "dead")
    /\ UNCHANGED <<treeVars, now, started, opVars, base, overlap>>

End(p) ==
    /\ pc[p] \in {"ended", "dead"}
    /\ Goto(p, "idle")
    /\ edit' = [edit EXCEPT ![p] = AnyEdit]
    /\ guarded' = [guarded EXCEPT ![p] = FALSE]
    /\ expected' = [expected EXCEPT ![p] = Nothing]
    /\ seen' = [seen EXCEPT ![p] = Nothing]
    /\ second' = [second EXCEPT ![p] = 0]
    /\ left' = [left EXCEPT ![p] = <<>>]
    /\ saved' = [saved EXCEPT ![p] = {}]
    /\ outcome' = [outcome EXCEPT ![p] = "none"]
    /\ base' = [base EXCEPT ![p] = Nothing]
    /\ overlap' = [overlap EXCEPT ![p] = FALSE]
    /\ UNCHANGED <<treeVars, now, started>>

Tick ==
    /\ now < MaxSecond
    /\ now' = now + 1
    /\ UNCHANGED <<treeVars, started, pc, opVars, base, overlap>>

Next ==
    \/ \E p \in Operators :
        \/ Plan(p) \/ Read(p) \/ Check(p)
        \/ Prepare(p) \/ Prepared(p) \/ Replace(p) \/ Replaced(p) \/ Validate(p)
        \/ Restore(p) \/ Restored(p)
        \/ Kill(p) \/ End(p)
    \/ Tick

Spec == Init /\ [][Next]_vars

(***************************************************************************)
(* Properties.                                                             *)
(***************************************************************************)

\* The type of every variable.
TypeOK ==
    /\ file \in [Files -> Content]
    /\ backup \in [Files -> [Seconds -> Content]]
    /\ now \in Seconds /\ started \in 0..MaxOperations
    /\ pc \in [Operators -> Points]
    /\ edit \in [Operators -> Edits]
    /\ guarded \in [Operators -> BOOLEAN]
    /\ expected \in [Operators -> [Files -> Content]]
    /\ seen \in [Operators -> [Files -> Content]]
    /\ second \in [Operators -> Seconds]
    /\ left \in [Operators -> Seq(Files)]
    /\ saved \in [Operators -> SUBSET Files]
    /\ outcome \in [Operators -> {"none", "ok", "refused", "failed", "broken"}]
    /\ base \in [Operators -> [Files -> Content]]
    /\ overlap \in [Operators -> BOOLEAN]

\* The tree an operation that met base should leave.
Result(p) == [f \in Files |->
    IF f \in Touched(edit[p]) THEN With(base[p][f], edit[p]) ELSE base[p][f]]

Settles(p, verdict) == pc[p] \in Working /\ pc'[p] = "ended" /\ outcome'[p] = verdict

\* Every document that existed had its backup before anything went wrong.
BackedUp(p) == \A f \in Touched(edit[p]) : base[p][f] # Absent => f \in saved[p]

\* An operation that fails in the replacement or the validation, undisturbed,
\* leaves the tree as it found it, new documents removed again.
FailedChangeRestores ==
    [][\A p \in Operators :
            (Settles(p, "failed") /\ BackedUp(p) /\ ~overlap[p]) => file' = base[p]]_vars

\* It read the documents as they were when the operator reviewed them.
ReadAsReviewed(p) == \A f \in Touched(edit[p]) : seen[p][f] = expected[p][f]

\* An operation with an expected hash that read what was reviewed and that nobody
\* overlaps adds its edit to the reviewed tree, when it ends well, and changes
\* nothing else: whatever was written between its read and its comparison.
GuardedChangeIsExact ==
    [][\A p \in Operators :
            (Settles(p, "ok") /\ guarded[p] /\ ReadAsReviewed(p) /\ ~overlap[p]) =>
                /\ file' = Result(p)
                /\ base[p] = expected[p]]_vars

\* What the operation makes of a document, if it writes it.
Written(p, f) == {With(seen[p][g], edit[p]) : g \in {f} \cap Touched(edit[p])}

\* From its comparison to its end, and if it is killed on the way, an operation
\* nobody overlaps leaves each document old or new, and what it replaced is in
\* its own backup: also what was written after it read, which it overwrites.
ReplacedIsRecoverable ==
    \A p \in Operators :
        (pc[p] \in {"prepare", "replace", "validate", "dead"} /\ ~overlap[p] /\
         (pc[p] = "dead" => BackedUp(p))) =>
            \A f \in Files :
                /\ file[f] \in {base[p][f]} \cup Written(p, f)
                /\ (file[f] # base[p][f] /\ base[p][f] # Absent) =>
                        backup[f][second[p]] = base[p][f]

\* _transactional_files: "Write several authority files atomically with
\* validation and rollback": whatever fails, nothing has changed.
TransactionIsAtomic ==
    [][\A p \in Operators :
            (Settles(p, "failed") /\ ~overlap[p]) => file' = base[p]]_vars
=============================================================================
