---------------------- MODULE ConfigTransaction_proofs ----------------------
(***************************************************************************)
(* Theorems about ConfigTransaction for any documents and edits, any       *)
(* number of operators and any faults.                                     *)
(***************************************************************************)
EXTENDS ConfigTransaction, TLAPS

(***************************************************************************)
(* The inductive invariant.                                                *)
(***************************************************************************)
\* The documents the current loop has before it, and those behind it.
Rest(p) == {left[p][i] : i \in 1..Len(left[p])}
Done(p) == Touched(edit[p]) \ Rest(p)

\* What there is to back up.
Existing(p) == {f \in Touched(edit[p]) : base[p][f] # Absent}

\* Each document comes once.
LoopInv(p) ==
  /\ \A i, j \in 1..Len(left[p]) : left[p][i] = left[p][j] => i = j
  /\ Rest(p) \subseteq Touched(edit[p])

\* Whoever is at work, or died at work, while another is has been overlapped.
AloneInv == \A p, q \in Operators :
  (p # q /\ pc[p] \in Working \cup {"dead"} /\ pc[q] \in Working) => overlap[p]

BackupsHold(p, S) == \A f \in S : backup[f][second[p]] = base[p][f]

\* The tree and the backups of an operation nobody overlaps, phase by phase.
PrepareInv(p) ==
  /\ file = base[p]
  /\ saved[p] = Existing(p) \ Rest(p)
  /\ BackupsHold(p, saved[p])

ReplaceInv(p) ==
  /\ saved[p] = Existing(p)
  /\ BackupsHold(p, saved[p])
  /\ \A f \in Files : file[f] = IF f \in Done(p) THEN With(seen[p][f], edit[p]) ELSE base[p][f]

RestoreInv(p) == BackedUp(p) =>
  /\ saved[p] = Existing(p)
  /\ BackupsHold(p, saved[p] \cap Rest(p))
  /\ \A f \in Files : \/ file[f] = base[p][f]
                      \/ f \in Rest(p) /\ file[f] = With(seen[p][f], edit[p])

DeadInv(p) == BackedUp(p) =>
  \A f \in Files :
    \/ file[f] = base[p][f]
    \/ /\ f \in Touched(edit[p]) /\ file[f] = With(seen[p][f], edit[p])
       /\ base[p][f] # Absent => backup[f][second[p]] = base[p][f]

OperationInv(p) ==
  /\ pc[p] \in Working => LoopInv(p) /\ (guarded[p] => base[p] = expected[p])
  /\ ~overlap[p] =>
        /\ pc[p] = "prepare" => PrepareInv(p)
        /\ pc[p] \in {"replace", "validate"} => ReplaceInv(p)
        /\ pc[p] = "validate" => left[p] = <<>>
        /\ pc[p] = "restore" => RestoreInv(p)
        /\ pc[p] = "dead" => DeadInv(p)

TransactionInv == TypeOK /\ AloneInv /\ \A p \in Operators : OperationInv(p)

(***************************************************************************)
(* The loops over documents.                                               *)
(***************************************************************************)
\* Taking the head off a sequence without repetition takes it off its range.
LEMMA HeadAndTail ==
  ASSUME NEW S, NEW s \in Seq(S), s # <<>>,
         \A i, j \in 1..Len(s) : s[i] = s[j] => i = j
  PROVE  /\ Tail(s) \in Seq(S) /\ Head(s) \in S
         /\ Head(s) \in {s[i] : i \in 1..Len(s)}
         /\ {Tail(s)[i] : i \in 1..Len(Tail(s))} = {s[i] : i \in 1..Len(s)} \ {Head(s)}
         /\ \A i, j \in 1..Len(Tail(s)) : Tail(s)[i] = Tail(s)[j] => i = j
<1>1. Len(s) \in Nat \ {0} /\ Head(s) = s[1] /\ s[1] \in S
  OBVIOUS
<1>2. /\ Tail(s) \in Seq(S) /\ Len(Tail(s)) = Len(s) - 1
      /\ \A i \in 1..(Len(s) - 1) : Tail(s)[i] = s[i + 1]
  OBVIOUS
<1>3. \A i \in 1..Len(Tail(s)) : i + 1 \in 1..Len(s) /\ i + 1 # 1 /\ Tail(s)[i] = s[i + 1]
  BY <1>1, <1>2
<1>4. \A k \in 1..Len(s) : k # 1 => k - 1 \in 1..Len(Tail(s)) /\ Tail(s)[k - 1] = s[k]
  BY <1>1, <1>2
<1>5. 1 \in 1..Len(s)
  BY <1>1
<1>6. {Tail(s)[i] : i \in 1..Len(Tail(s))} = {s[i] : i \in 1..Len(s)} \ {Head(s)}
  <2>1. ASSUME NEW i \in 1..Len(Tail(s)) PROVE Tail(s)[i] \in {s[k] : k \in 1..Len(s)} \ {Head(s)}
    BY <1>1, <1>3, <1>5
  <2>2. ASSUME NEW k \in 1..Len(s), s[k] # Head(s) PROVE s[k] \in {Tail(s)[i] : i \in 1..Len(Tail(s))}
    BY <1>1, <1>4, <2>2
  <2> QED BY <2>1, <2>2
<1>7. ASSUME NEW i \in 1..Len(Tail(s)), NEW j \in 1..Len(Tail(s)), Tail(s)[i] = Tail(s)[j] PROVE i = j
  <2>1. i + 1 = j + 1
    BY <1>3, <1>7
  <2> QED BY <2>1
<1> QED BY <1>1, <1>2, <1>5, <1>6, <1>7

(***************************************************************************)
(* Types.                                                                  *)
(***************************************************************************)
LEMMA StartTypes == Init => TypeOK
<1> SUFFICES ASSUME Init PROVE TypeOK
  OBVIOUS
<1> USE ConfigAssumption DEF Init
<1>1. AnyEdit \in Edits /\ Absent \in Content /\ {Original} \in Content /\ Nothing \in [Files -> Content]
  BY DEF AnyEdit, Absent, Content, Nothing
<1>2. 0 \in Seconds /\ "idle" \in Points /\ 0 \in 0..MaxOperations
  BY DEF Seconds, Points
<1>3. file \in [Files -> Content]
  <2>1. {{Original}, Absent} \subseteq Content
    BY <1>1
  <2>2. file \in [Files -> {{Original}, Absent}]
    OBVIOUS
  <2> QED BY <2>1, <2>2
<1>4. left \in [Operators -> Seq(Files)]
  OBVIOUS
<1> QED BY <1>1, <1>2, <1>3, <1>4 DEF TypeOK

LEMMA PointsAre ==
  {"idle", "read", "check", "prepare", "replace", "validate", "restore", "dead", "ended"} = Points
  BY DEF Points, Working

\* Everybody who is overlapped once p is at work.
JoinedBy(p) == [q \in Operators |->
  \/ overlap[q]
  \/ q = p /\ Others(p) # {}
  \/ q # p /\ pc[q] \in Working \cup {"dead"}]

LEMMA CheckPasses ==
  ASSUME NEW p, Check(p), Matches(p)
  PROVE  /\ second' = [second EXCEPT ![p] = now]
         /\ left' = [left EXCEPT ![p] = Documents[edit[p]]]
         /\ saved' = [saved EXCEPT ![p] = {}]
         /\ base' = [base EXCEPT ![p] = file]
         /\ overlap' = JoinedBy(p)
         /\ pc[p] = "check" /\ pc' = [pc EXCEPT ![p] = "prepare"]
         /\ UNCHANGED <<file, backup, now, started, edit, guarded, expected, seen, outcome>>
  BY Zenon DEF Check, Goto, Timestamp, JoinedBy, treeVars

LEMMA PlanningTypes ==
  ASSUME TypeOK, NEW p \in Operators, Plan(p) \/ Read(p) \/ Check(p) PROVE TypeOK'
<1> USE PointsAre DEF TypeOK, treeVars, Goto
<1>1. CASE Plan(p)
  <2>1. Nothing \in [Files -> Content]
    BY DEF Nothing, Absent, Content
  <2>2. pc' \in [Operators -> Points]
    BY <1>1 DEF Plan
  <2>3. started' \in 0..MaxOperations
    BY <1>1, ConfigAssumption DEF Plan
  <2>4. PICK e \in Edits, g \in BOOLEAN :
            /\ edit' = [edit EXCEPT ![p] = e]
            /\ guarded' = [guarded EXCEPT ![p] = g]
            /\ expected' = [expected EXCEPT ![p] = IF g THEN file ELSE Nothing]
    BY <1>1 DEF Plan
  <2> QED BY <1>1, <2>1, <2>2, <2>3, <2>4 DEF Plan
<1>2. CASE Read(p)
  <2>1. [f \in Files |-> IF f \in Touched(edit[p]) THEN file[f] ELSE Absent] \in [Files -> Content]
    BY DEF Absent, Content
  <2> QED BY <1>2, <2>1 DEF Read, Ends
<1>3. CASE Check(p)
  <2>1. Documents[edit[p]] \in Seq(Files)
    BY ConfigAssumption
  <2>2. CASE Matches(p)
    <3>1. /\ second' = [second EXCEPT ![p] = now]
          /\ left' = [left EXCEPT ![p] = Documents[edit[p]]]
          /\ saved' = [saved EXCEPT ![p] = {}]
          /\ base' = [base EXCEPT ![p] = file]
          /\ overlap' = JoinedBy(p)
          /\ pc' = [pc EXCEPT ![p] = "prepare"]
          /\ UNCHANGED <<file, backup, now, started, edit, guarded, expected, seen, outcome>>
      BY <1>3, <2>2, CheckPasses
    <3>2. overlap' \in [Operators -> BOOLEAN]
      BY <3>1 DEF JoinedBy
    <3> QED BY <2>1, <3>1, <3>2
  <2> QED BY <1>3, <2>2 DEF Check, Ends
<1> QED BY <1>1, <1>2, <1>3

LEMMA WorkTypes ==
  ASSUME TypeOK, NEW p \in Operators,
         \/ Prepare(p) \/ Prepared(p) \/ Replace(p) \/ Replaced(p) \/ Validate(p)
         \/ Restore(p) \/ Restored(p)
  PROVE  TypeOK'
<1> USE PointsAre DEF TypeOK, treeVars, Goto
<1>1. Documents[edit[p]] \in Seq(Files)
  BY ConfigAssumption
<1>2. ASSUME left[p] # <<>> PROVE Head(left[p]) \in Files /\ Tail(left[p]) \in Seq(Files)
  BY <1>2
<1>3. ASSUME Raises(p) PROVE pc' \in [Operators -> Points] /\ left' \in [Operators -> Seq(Files)]
  BY <1>1, <1>3 DEF Raises
<1>4. ASSUME left[p] # <<>>, Advance(p) PROVE left' \in [Operators -> Seq(Files)]
  BY <1>2, <1>4 DEF Advance
<1>5. CASE Prepare(p)
  <2>1. left[p] # <<>>
    BY <1>5 DEF Prepare
  <2> DEFINE f == Head(left[p])
  <2>2. f \in Files
    BY <1>2, <2>1
  <2>3. backup' \in [Files -> [Seconds -> Content]] /\ saved' \in [Operators -> SUBSET Files]
    <3>1. CASE backup' = Copied(p, f) /\ saved' = [saved EXCEPT ![p] = @ \cup {f}]
      <4>1. [backup[f] EXCEPT ![second[p]] = file[f]] \in [Seconds -> Content]
        BY <2>2
      <4> QED BY <2>2, <3>1, <4>1 DEF Copied
    <3> QED BY <1>5, <3>1 DEF Prepare
  <2> QED BY <1>3, <1>4, <1>5, <2>1, <2>3 DEF Prepare
<1>6. CASE Prepared(p) \/ Replaced(p)
  BY <1>1, <1>6 DEF Prepared, Replaced, opVars
<1>7. CASE Replace(p)
  <2>1. \A f \in Files : With(seen[p][f], edit[p]) \in Content
    BY DEF With, Content
  <2>2. left[p] # <<>> /\ Head(left[p]) \in Files
    BY <1>2, <1>7 DEF Replace
  <2>3. file' \in [Files -> Content]
    BY <1>7, <2>1, <2>2 DEF Replace
  <2> QED BY <1>3, <1>4, <1>7, <2>2, <2>3 DEF Replace
<1>8. CASE Validate(p)
  BY <1>3, <1>8 DEF Validate, Ends
<1>9. CASE Restore(p)
  <2>1. left[p] # <<>> /\ Head(left[p]) \in Files
    BY <1>2, <1>9 DEF Restore
  <2> DEFINE f == Head(left[p])
  <2>2. Absent \in Content
    BY DEF Absent, Content
  <2>3. ASSUME PutBack(p, f) PROVE file' \in [Files -> Content] /\ backup' \in [Files -> [Seconds -> Content]]
    <3> HIDE DEF f
    <3>1. f \in Files
      BY <2>1 DEF f
    <3>2. backup[f][second[p]] \in Content
      BY <3>1
    <3>3. [file EXCEPT ![f] = backup[f][second[p]]] \in [Files -> Content]
          /\ [file EXCEPT ![f] = Absent] \in [Files -> Content]
      BY <2>2, <3>1, <3>2
    <3>4. [backup EXCEPT ![f][second[p]] = Absent] \in [Files -> [Seconds -> Content]]
      <4>1. [backup[f] EXCEPT ![second[p]] = Absent] \in [Seconds -> Content]
        BY <2>2, <3>1
      <4> QED BY <3>1, <4>1
    <3> QED BY <2>3, <3>3, <3>4 DEF PutBack
  <2>4. CASE PutBack(p, f) /\ Advance(p) /\ UNCHANGED <<pc, outcome>>
    BY <1>4, <1>9, <2>1, <2>3, <2>4 DEF Restore
  <2>5. CASE Ends(p, "broken") /\ UNCHANGED <<treeVars, left>>
    BY <1>9, <2>5 DEF Restore, Ends
  <2> QED BY <1>9, <2>4, <2>5 DEF Restore
<1>10. CASE Restored(p)
  BY <1>10 DEF Restored, Ends
<1> QED BY <1>5, <1>6, <1>7, <1>8, <1>9, <1>10

LEMMA OtherTypes ==
  ASSUME TypeOK, (\E p \in Operators : Kill(p) \/ End(p)) \/ Tick \/ UNCHANGED vars PROVE TypeOK'
<1> USE PointsAre DEF TypeOK, treeVars, opVars, Goto
<1>1. ASSUME NEW p \in Operators, Kill(p) PROVE TypeOK'
  BY <1>1 DEF Kill
<1>2. ASSUME NEW p \in Operators, End(p) PROVE TypeOK'
  <2>1. Nothing \in [Files -> Content] /\ AnyEdit \in Edits /\ 0 \in Seconds
    BY ConfigAssumption DEF Nothing, Absent, Content, AnyEdit, Seconds
  <2>2. left' \in [Operators -> Seq(Files)]
    BY <1>2 DEF End
  <2> QED BY <1>2, <2>1, <2>2 DEF End
<1>3. CASE Tick
  <2>1. now' \in Seconds
    BY <1>3, ConfigAssumption DEF Tick, Seconds
  <2> QED BY <1>3, <2>1 DEF Tick
<1>4. CASE UNCHANGED vars
  BY <1>4 DEF vars
<1> QED BY <1>1, <1>2, <1>3, <1>4

LEMMA TypesStay == ASSUME TypeOK, [Next]_vars PROVE TypeOK'
  BY PlanningTypes, WorkTypes, OtherTypes DEF Next

(***************************************************************************)
(* What the steps of one operator leave to the others.                     *)
(***************************************************************************)
Work(p) ==
  \/ Prepare(p) \/ Prepared(p) \/ Replace(p) \/ Replaced(p) \/ Validate(p)
  \/ Restore(p) \/ Restored(p) \/ Kill(p)

Move(p) == Plan(p) \/ Read(p) \/ Check(p) \/ Work(p) \/ End(p)

LEMMA NextMoves == [Next]_vars <=> (\E p \in Operators : Move(p)) \/ Tick \/ UNCHANGED vars
  BY DEF Next, Move, Work

Untouched(p) ==
  /\ pc'[p] = pc[p] /\ edit'[p] = edit[p] /\ guarded'[p] = guarded[p] /\ expected'[p] = expected[p]
  /\ seen'[p] = seen[p] /\ second'[p] = second[p] /\ left'[p] = left[p] /\ saved'[p] = saved[p]
  /\ outcome'[p] = outcome[p] /\ base'[p] = base[p]
  /\ overlap[p] => overlap'[p]

LEMMA OthersUntouched ==
  ASSUME TypeOK, NEW p \in Operators, NEW q \in Operators, p # q, Move(q) PROVE Untouched(p)
<1> USE DEF TypeOK, Untouched, Goto, opVars
<1>1. CASE Plan(q)
  BY <1>1 DEF Plan
<1>2. CASE Read(q)
  BY <1>2 DEF Read, Ends
<1>3. CASE Check(q)
  <2>1. CASE Matches(q)
    <3>1. overlap[p] => overlap'[p]
      BY <1>3, <2>1, CheckPasses DEF JoinedBy
    <3> QED BY <1>3, <2>1, <3>1, CheckPasses
  <2> QED BY <1>3, <2>1 DEF Check, Ends
<1>4. CASE Work(q)
  BY <1>4 DEF Work, Prepare, Prepared, Replace, Replaced, Validate, Restore, Restored, Kill,
              Advance, Raises, Ends
<1>5. CASE End(q)
  BY <1>5 DEF End
<1> QED BY <1>1, <1>2, <1>3, <1>4, <1>5 DEF Move

\* Only who is at work writes the tree, and nobody else changes what was overlapped.
LEMMA WorkersWrite ==
  ASSUME NEW q \in Operators, Move(q)
  PROVE  /\ Work(q) \/ UNCHANGED <<file, backup>>
         /\ Work(q) => pc[q] \in Working /\ UNCHANGED <<edit, guarded, expected, seen, second, base, overlap>>
  BY DEF Move, Work, Plan, Read, Check, End, treeVars, opVars, Working,
         Prepare, Prepared, Replace, Replaced, Validate, Restore, Restored, Kill

\* Work begins with the comparison of hashes.
LEMMA Entrance ==
  ASSUME TypeOK, NEW q \in Operators, Move(q), pc'[q] \in Working \cup {"dead"}
  PROVE  (Check(q) /\ Matches(q)) \/ Work(q)
<1> USE DEF TypeOK, Goto, Working
<1>1. CASE Plan(q)
  BY <1>1 DEF Plan
<1>2. CASE Read(q)
  BY <1>2 DEF Read, Ends
<1>3. CASE Check(q)
  BY <1>3 DEF Check, Ends
<1>4. CASE End(q)
  BY <1>4 DEF End
<1> QED BY <1>1, <1>2, <1>3, <1>4 DEF Move

LEMMA AloneStays ==
  ASSUME TypeOK, AloneInv, [Next]_vars PROVE AloneInv'
<1> SUFFICES ASSUME NEW p \in Operators, NEW q \in Operators, p # q,
                    pc'[p] \in Working \cup {"dead"}, pc'[q] \in Working
             PROVE  overlap'[p]
  BY DEF AloneInv
<1>1. ASSUME NEW r \in Operators, Move(r) PROVE overlap'[p]
  <2>1. CASE r # p /\ r # q
    BY <1>1, <2>1, OthersUntouched DEF Untouched, AloneInv
  <2>2. CASE r = p
    <3>1. pc[q] \in Working
      BY <1>1, <2>2, OthersUntouched DEF Untouched
    <3>2. CASE Check(p) /\ Matches(p)
      <4>1. q \in Others(p)
        BY <3>1 DEF Others
      <4> QED BY <3>2, <4>1, CheckPasses DEF JoinedBy
    <3>3. CASE Work(p)
      BY <1>1, <2>2, <3>1, <3>3, WorkersWrite DEF AloneInv
    <3> QED BY <1>1, <2>2, <3>2, <3>3, Entrance
  <2>3. CASE r = q
    <3>1. pc[p] \in Working \cup {"dead"}
      BY <1>1, <2>3, OthersUntouched DEF Untouched
    <3>2. CASE Check(q) /\ Matches(q)
      BY <3>1, <3>2, CheckPasses DEF JoinedBy
    <3>3. CASE Work(q)
      BY <1>1, <2>3, <3>1, <3>3, WorkersWrite DEF AloneInv
    <3> QED BY <1>1, <2>3, <3>2, <3>3, Entrance
  <2> QED BY <2>1, <2>2, <2>3
<1>2. CASE Tick \/ UNCHANGED vars
  BY <1>2 DEF Tick, vars, AloneInv
<1> QED BY <1>1, <1>2, NextMoves

(***************************************************************************)
(* The steps of an operation.                                              *)
(***************************************************************************)
\* Nothing that one operator does disturbs another that it does not overlap.
LEMMA OthersKeep ==
  ASSUME TransactionInv, NEW p \in Operators, NEW q \in Operators, p # q, Move(q)
  PROVE  OperationInv(p)'
<1> USE DEF Working
<1>1. Untouched(p) /\ OperationInv(p)
  BY OthersUntouched DEF TransactionInv
<1>2. pc'[p] \in Working => LoopInv(p)' /\ (guarded'[p] => base'[p] = expected'[p])
  <2>1. LoopInv(p)' <=> LoopInv(p)
    BY <1>1 DEF Untouched, LoopInv, Rest, Touched
  <2>2. pc'[p] \in Working => (guarded'[p] => base'[p] = expected'[p])
    BY <1>1, Zenon DEF Untouched, OperationInv
  <2>3. pc'[p] \in Working => LoopInv(p)
    BY <1>1 DEF Untouched, OperationInv
  <2> QED BY <2>1, <2>2, <2>3
<1>3. ASSUME ~overlap'[p], pc[p] \in Working \cup {"dead"} PROVE UNCHANGED <<file, backup>>
  BY <1>1, <1>3, WorkersWrite DEF Untouched, TransactionInv, AloneInv
<1>4. ASSUME ~overlap'[p], pc[p] \in Working \cup {"dead"}
      PROVE  /\ pc[p] = "prepare" => PrepareInv(p)'
             /\ pc[p] \in {"replace", "validate"} => ReplaceInv(p)'
             /\ pc[p] = "validate" => left'[p] = <<>>
             /\ pc[p] = "restore" => RestoreInv(p)'
             /\ pc[p] = "dead" => DeadInv(p)'
  <2> USE <1>1, <1>3, <1>4 DEF Untouched, OperationInv, Rest, Done, Touched, Existing, BackupsHold,
                               BackedUp
  <2>1. pc[p] = "prepare" => PrepareInv(p)'
    BY DEF PrepareInv
  <2>2. pc[p] \in {"replace", "validate"} => ReplaceInv(p)'
    BY DEF ReplaceInv
  <2>3. pc[p] = "restore" => RestoreInv(p)'
    BY DEF RestoreInv
  <2>4. pc[p] = "dead" => DeadInv(p)'
    BY DEF DeadInv
  <2> QED BY <2>1, <2>2, <2>3, <2>4
<1> QED BY <1>1, <1>2, <1>4 DEF OperationInv, Untouched

LEMMA LoopStarts ==
  ASSUME TypeOK, NEW p \in Operators, left' = [left EXCEPT ![p] = Documents[edit[p]]], UNCHANGED edit
  PROVE  LoopInv(p)' /\ Rest(p)' = Touched(edit[p]) /\ Done(p)' = {}
<1>1. left'[p] = Documents[edit[p]] /\ edit[p] \in Edits
  BY DEF TypeOK
<1>2. Rest(p)' = Touched(edit[p])
  BY <1>1 DEF Rest, Touched
<1>3. \A i, j \in 1..Len(left'[p]) : left'[p][i] = left'[p][j] => i = j
  BY <1>1, ConfigAssumption
<1> QED BY <1>2, <1>3 DEF LoopInv, Done, Touched

LEMMA LoopAdvances ==
  ASSUME TypeOK, NEW p \in Operators, LoopInv(p), left[p] # <<>>, Advance(p), UNCHANGED edit
  PROVE  /\ LoopInv(p)' /\ Head(left[p]) \in Rest(p) /\ Rest(p)' = Rest(p) \ {Head(left[p])}
         /\ Head(left[p]) \in Touched(edit[p]) /\ Head(left[p]) \in Files
         /\ Done(p)' = Done(p) \cup {Head(left[p])}
<1> DEFINE s == left[p]
<1>1. s \in Seq(Files) /\ left'[p] = Tail(s)
  BY DEF TypeOK, Advance
<1>2. \A i, j \in 1..Len(s) : s[i] = s[j] => i = j
  BY DEF LoopInv
<1>3. Head(s) \in Files /\ Head(s) \in {s[i] : i \in 1..Len(s)}
      /\ {Tail(s)[i] : i \in 1..Len(Tail(s))} = {s[i] : i \in 1..Len(s)} \ {Head(s)}
      /\ \A i, j \in 1..Len(Tail(s)) : Tail(s)[i] = Tail(s)[j] => i = j
  BY <1>1, <1>2, HeadAndTail
<1>4. Rest(p)' = Rest(p) \ {Head(s)} /\ Head(s) \in Rest(p)
  BY <1>1, <1>3 DEF Rest
<1>5. Touched(edit[p])' = Touched(edit[p])
  BY DEF Touched
<1>6. LoopInv(p)'
  BY <1>1, <1>3, <1>4, <1>5 DEF LoopInv
<1> QED BY <1>3, <1>4, <1>5, <1>6 DEF LoopInv, Done

LEMMA LoopEnds ==
  ASSUME NEW p \in Operators, left[p] = <<>> PROVE Rest(p) = {} /\ Done(p) = Touched(edit[p])
  BY DEF Rest, Done

LEMMA CheckKeeps ==
  ASSUME TransactionInv, NEW p \in Operators, Check(p) PROVE OperationInv(p)'
<1> USE DEF TransactionInv
<1>1. CASE Matches(p)
  <2>1. LoopInv(p)' /\ Rest(p)' = Touched(edit[p])
    BY <1>1, CheckPasses, LoopStarts
  <2>2. pc'[p] = "prepare" /\ base'[p] = file /\ saved'[p] = {} /\ guarded'[p] = guarded[p]
        /\ UNCHANGED <<file, edit, expected>>
    BY <1>1, CheckPasses DEF TypeOK
  <2>3. guarded'[p] => base'[p] = expected'[p]
    BY <1>1, <2>2 DEF Matches
  <2>4. PrepareInv(p)'
    BY <2>1, <2>2 DEF PrepareInv, Existing, BackupsHold, Touched
  <2> QED BY <2>1, <2>2, <2>3, <2>4 DEF OperationInv
<1>2. CASE ~Matches(p)
  <2>1. pc'[p] = "ended"
    BY <1>2 DEF Check, Ends, Goto, TypeOK
  <2> QED BY <2>1 DEF OperationInv, Working
<1> QED BY <1>1, <1>2

\* What a failure in any phase hands to the except clause.
LEMMA FailureKeeps ==
  ASSUME TransactionInv, NEW p \in Operators, pc[p] \in {"prepare", "replace", "validate"}, Raises(p),
         UNCHANGED <<file, backup, edit, guarded, expected, seen, second, saved, base, overlap>>
  PROVE  OperationInv(p)'
<1> USE DEF TransactionInv, Working
<1>1. LoopInv(p)' /\ Rest(p)' = Touched(edit[p])
  BY LoopStarts DEF Raises
<1>2. pc'[p] = "restore"
  BY DEF Raises, Goto, TypeOK
<1>3. ASSUME ~overlap[p] PROVE RestoreInv(p)'
  <2> SUFFICES ASSUME BackedUp(p) PROVE RestoreInv(p)'
    BY DEF RestoreInv, BackedUp, Touched
  <2>1. saved[p] = Existing(p) /\ BackupsHold(p, saved[p])
    BY <1>3 DEF OperationInv, PrepareInv, ReplaceInv, BackedUp, Existing
  <2>2. \A f \in Files : file[f] = base[p][f] \/ (f \in Touched(edit[p]) /\ file[f] = With(seen[p][f], edit[p]))
    BY <1>3 DEF OperationInv, PrepareInv, ReplaceInv, Done
  <2> QED BY <1>1, <2>1, <2>2 DEF RestoreInv, BackupsHold, Existing, Touched
<1>4. guarded[p] => base[p] = expected[p]
  BY DEF OperationInv
<1> QED BY <1>1, <1>2, <1>3, <1>4 DEF OperationInv

LEMMA PrepareKeeps ==
  ASSUME TransactionInv, NEW p \in Operators, Prepare(p) PROVE OperationInv(p)'
<1> USE DEF TransactionInv, Working
<1> DEFINE f == Head(left[p])
<1>1. pc[p] = "prepare" /\ left[p] # <<>> /\ LoopInv(p) /\ (guarded[p] => base[p] = expected[p])
  BY DEF Prepare, OperationInv
<1>2. UNCHANGED <<file, edit, guarded, expected, seen, second, base, overlap>>
  BY DEF Prepare
<1>3. CASE Raises(p) /\ UNCHANGED <<backup, saved>>
  BY <1>1, <1>2, <1>3, FailureKeeps
<1>4. CASE Advance(p) /\ UNCHANGED pc
            /\ IF file[f] = Absent THEN UNCHANGED <<backup, saved>>
               ELSE backup' = Copied(p, f) /\ saved' = [saved EXCEPT ![p] = @ \cup {f}]
  <2>1. LoopInv(p)' /\ f \in Rest(p) /\ Rest(p)' = Rest(p) \ {f} /\ f \in Touched(edit[p]) /\ f \in Files
    BY <1>1, <1>2, <1>4, LoopAdvances
  <2>2. ASSUME ~overlap[p] PROVE PrepareInv(p)'
    <3>1. file = base[p] /\ saved[p] = Existing(p) \ Rest(p) /\ BackupsHold(p, saved[p])
      BY <1>1, <2>2 DEF OperationInv, PrepareInv
    <3>2. Existing(p)' = Existing(p)
      BY <1>2 DEF Existing, Touched
    <3>3. CASE file[f] = Absent
      <4>1. f \notin Existing(p) /\ saved' = saved /\ backup' = backup
        BY <1>4, <3>1, <3>3 DEF Existing
      <4> QED BY <1>2, <2>1, <3>1, <3>2, <4>1 DEF PrepareInv, BackupsHold
    <3>4. CASE file[f] # Absent
      <4>1. saved'[p] = saved[p] \cup {f} /\ f \in Existing(p)
        BY <1>4, <2>1, <3>1, <3>4 DEF Existing, TypeOK
      <4>2. saved'[p] = Existing(p)' \ Rest(p)'
        BY <2>1, <3>1, <3>2, <4>1
      <4>3. \A g \in saved'[p] : backup'[g][second[p]] = base[p][g]
        <5>1. backup' = [backup EXCEPT ![f] = [backup[f] EXCEPT ![second[p]] = file[f]]]
          BY <1>4, <3>4 DEF Copied
        <5>2. second[p] \in Seconds /\ backup \in [Files -> [Seconds -> Content]] /\ saved[p] \subseteq Files
          BY DEF TypeOK
        <5>3. backup'[f][second[p]] = file[f]
          BY <2>1, <5>1, <5>2
        <5>4. \A g \in Files \ {f} : backup'[g] = backup[g]
          BY <2>1, <5>1, <5>2
        <5> QED BY <3>1, <4>1, <5>2, <5>3, <5>4 DEF BackupsHold
      <4> QED BY <1>2, <3>1, <4>2, <4>3 DEF PrepareInv, BackupsHold
    <3> QED BY <3>3, <3>4
  <2> QED BY <1>1, <1>2, <1>4, <2>1, <2>2 DEF OperationInv
<1> QED BY <1>3, <1>4 DEF Prepare

LEMMA ReplaceKeeps ==
  ASSUME TransactionInv, NEW p \in Operators, Replace(p) PROVE OperationInv(p)'
<1> USE DEF TransactionInv, Working
<1> DEFINE f == Head(left[p])
<1>1. pc[p] = "replace" /\ left[p] # <<>> /\ LoopInv(p) /\ (guarded[p] => base[p] = expected[p])
  BY DEF Replace, OperationInv
<1>2. UNCHANGED <<backup, edit, guarded, expected, seen, second, saved, base, overlap>>
  BY DEF Replace
<1>3. CASE Raises(p) /\ UNCHANGED file
  BY <1>1, <1>2, <1>3, FailureKeeps
<1>4. CASE Advance(p) /\ UNCHANGED pc /\ file' = [file EXCEPT ![f] = With(seen[p][f], edit[p])]
  <2>1. LoopInv(p)' /\ f \in Files /\ Done(p)' = Done(p) \cup {f}
    BY <1>1, <1>2, <1>4, LoopAdvances
  <2>2. ASSUME ~overlap[p] PROVE ReplaceInv(p)'
    <3>1. ReplaceInv(p)
      BY <1>1, <2>2 DEF OperationInv
    <3>2. Existing(p)' = Existing(p)
      BY <1>2 DEF Existing, Touched
    <3>3. \A g \in Files : file'[g] = IF g \in Done(p)' THEN With(seen'[p][g], edit'[p]) ELSE base'[p][g]
      BY <1>2, <1>4, <2>1, <3>1 DEF ReplaceInv, TypeOK
    <3> QED BY <1>2, <3>1, <3>2, <3>3 DEF ReplaceInv, BackupsHold
  <2> QED BY <1>1, <1>2, <1>4, <2>1, <2>2 DEF OperationInv
<1> QED BY <1>3, <1>4 DEF Replace

LEMMA PhasesKeep ==
  ASSUME TransactionInv, NEW p \in Operators, Prepared(p) \/ Replaced(p) \/ Validate(p)
  PROVE  OperationInv(p)'
<1> USE DEF TransactionInv, Working
<1>1. CASE Prepared(p)
  <2>1. LoopInv(p)' /\ Done(p)' = {}
    BY <1>1, LoopStarts DEF Prepared
  <2>2. pc[p] = "prepare" /\ pc'[p] = "replace" /\ left[p] = <<>>
        /\ UNCHANGED <<file, backup, edit, guarded, expected, seen, second, saved, base, overlap>>
    BY <1>1 DEF Prepared, Goto, TypeOK, treeVars
  <2>3. ASSUME ~overlap[p] PROVE ReplaceInv(p)'
    <3>1. PrepareInv(p) /\ Rest(p) = {}
      BY <2>2, <2>3, LoopEnds DEF OperationInv
    <3> QED BY <2>1, <2>2, <3>1 DEF PrepareInv, ReplaceInv, Existing, Touched, BackupsHold
  <2>4. guarded[p] => base[p] = expected[p]
    BY <2>2 DEF OperationInv
  <2> QED BY <2>1, <2>2, <2>3, <2>4 DEF OperationInv
<1>2. CASE Replaced(p)
  <2>1. pc[p] = "replace" /\ pc'[p] = "validate" /\ left[p] = <<>>
        /\ UNCHANGED <<file, backup, edit, guarded, expected, seen, second, left, saved, base, overlap>>
    BY <1>2 DEF Replaced, Goto, TypeOK, treeVars, opVars
  <2>2. LoopInv(p)'
    BY <2>1 DEF OperationInv, LoopInv, Rest, Touched
  <2>3. ASSUME ~overlap[p] PROVE ReplaceInv(p)'
    <3>1. ReplaceInv(p)
      BY <2>1, <2>3 DEF OperationInv
    <3> QED BY <2>1, <3>1 DEF ReplaceInv, Existing, Touched, Done, Rest, BackupsHold
  <2>4. guarded[p] => base[p] = expected[p]
    BY <2>1 DEF OperationInv
  <2> QED BY <2>1, <2>2, <2>3, <2>4 DEF OperationInv
<1>3. CASE Validate(p)
  <2>1. CASE Ends(p, "ok")
    <3>1. pc'[p] = "ended"
      BY <2>1 DEF Ends, Goto, TypeOK
    <3> QED BY <3>1 DEF OperationInv
  <2>2. CASE Raises(p)
    <3>1. pc[p] = "validate"
          /\ UNCHANGED <<file, backup, edit, guarded, expected, seen, second, saved, base, overlap>>
      BY <1>3 DEF Validate, treeVars
    <3> QED BY <2>2, <3>1, FailureKeeps
  <2> QED BY <1>3, <2>1, <2>2 DEF Validate
<1> QED BY <1>1, <1>2, <1>3

LEMMA RestoreKeeps ==
  ASSUME TransactionInv, NEW p \in Operators, Restore(p) \/ Restored(p) PROVE OperationInv(p)'
<1> USE DEF TransactionInv, Working
<1> DEFINE f == Head(left[p])
<1>1. CASE Ends(p, "failed") \/ Ends(p, "broken")
  <2>1. pc'[p] = "ended"
    BY <1>1 DEF Ends, Goto, TypeOK
  <2> QED BY <2>1 DEF OperationInv
<1>2. CASE PutBack(p, f) /\ Advance(p) /\ UNCHANGED <<pc, outcome>> /\ Restore(p)
  <2>1. pc[p] = "restore" /\ left[p] # <<>> /\ LoopInv(p) /\ (guarded[p] => base[p] = expected[p])
        /\ UNCHANGED <<edit, guarded, expected, seen, second, saved, base, overlap>>
    BY <1>2 DEF Restore, OperationInv
  <2>2. LoopInv(p)' /\ f \in Rest(p) /\ Rest(p)' = Rest(p) \ {f} /\ f \in Files /\ f \in Touched(edit[p])
    BY <1>2, <2>1, LoopAdvances
  <2>3. ASSUME ~overlap[p] PROVE RestoreInv(p)'
    <3> SUFFICES ASSUME BackedUp(p) PROVE RestoreInv(p)'
      BY <2>1 DEF RestoreInv, BackedUp, Touched
    <3>1. saved[p] = Existing(p) /\ BackupsHold(p, saved[p] \cap Rest(p))
          /\ \A g \in Files : \/ file[g] = base[p][g]
                              \/ g \in Rest(p) /\ file[g] = With(seen[p][g], edit[p])
      BY <2>1, <2>3 DEF OperationInv, RestoreInv
    <3>2. Existing(p)' = Existing(p)
      BY <2>1 DEF Existing, Touched
    <3>3. file'[f] = base[p][f]
          /\ \A g \in Files \ {f} : file'[g] = file[g] /\ backup'[g] = backup[g]
      <4>1. CASE f \in saved[p]
        <5>1. backup[f][second[p]] = base[p][f] /\ base[p][f] # Absent
          BY <2>2, <3>1, <4>1 DEF BackupsHold, Existing
        <5>2. file' = [file EXCEPT ![f] = backup[f][second[p]]]
              /\ backup' = [backup EXCEPT ![f][second[p]] = Absent]
          BY <1>2, <4>1, <5>1 DEF PutBack
        <5> QED BY <2>2, <5>1, <5>2 DEF TypeOK
      <4>2. CASE f \notin saved[p]
        <5>1. base[p][f] = Absent
          BY <2>2, <3>1, <4>2 DEF Existing
        <5>2. file' = [file EXCEPT ![f] = Absent] /\ backup' = backup
          BY <1>2, <4>2 DEF PutBack
        <5> QED BY <2>2, <5>1, <5>2 DEF TypeOK
      <4> QED BY <4>1, <4>2
    <3>4. BackupsHold(p, saved[p] \cap Rest(p))'
      <4>1. \A g \in saved[p] \cap Rest(p)' : g \in Files \ {f}
        BY <2>2 DEF TypeOK
      <4> QED BY <2>1, <2>2, <3>1, <3>3, <4>1 DEF BackupsHold
    <3> QED BY <2>1, <2>2, <3>1, <3>2, <3>3, <3>4 DEF RestoreInv
  <2> QED BY <1>2, <2>1, <2>2, <2>3 DEF OperationInv
<1> QED BY <1>1, <1>2 DEF Restore, Restored

LEMMA KillKeeps ==
  ASSUME TransactionInv, NEW p \in Operators, Kill(p) PROVE OperationInv(p)'
<1> USE DEF TransactionInv, Working
<1>1. pc[p] \in Working /\ pc'[p] = "dead" /\ UNCHANGED <<file, backup, edit, seen, second, saved, base, overlap>>
  BY DEF Kill, Goto, TypeOK, treeVars, opVars
<1>2. ASSUME ~overlap[p], BackedUp(p), NEW f \in Files
      PROVE  \/ file[f] = base[p][f]
             \/ /\ f \in Touched(edit[p]) /\ file[f] = With(seen[p][f], edit[p])
                /\ base[p][f] # Absent => backup[f][second[p]] = base[p][f]
  <2>1. LoopInv(p)
    BY <1>1 DEF OperationInv
  <2>2. CASE pc[p] = "prepare"
    BY <1>2, <2>2 DEF OperationInv, PrepareInv
  <2>3. CASE pc[p] \in {"replace", "validate"}
    <3>1. ReplaceInv(p)
      BY <1>2, <2>3 DEF OperationInv
    <3> QED BY <3>1 DEF ReplaceInv, Done, BackupsHold, Existing
  <2>4. CASE pc[p] = "restore"
    <3>1. RestoreInv(p)
      BY <1>2, <2>4 DEF OperationInv
    <3> QED BY <1>2, <2>1, <3>1 DEF RestoreInv, BackupsHold, Existing, LoopInv
  <2> QED BY <1>1, <2>2, <2>3, <2>4
<1>3. ~overlap[p] => DeadInv(p)'
  BY <1>1, <1>2 DEF DeadInv, BackedUp, Touched
<1> QED BY <1>1, <1>3 DEF OperationInv

(***************************************************************************)
(* The invariant and the theorems.                                         *)
(***************************************************************************)
LEMMA OwnKeeps ==
  ASSUME TransactionInv, NEW p \in Operators, Move(p) PROVE OperationInv(p)'
<1>1. CASE Plan(p) \/ Read(p) \/ End(p)
  <2>1. pc'[p] \in {"read", "check", "ended", "idle"}
    BY <1>1 DEF TransactionInv, TypeOK, Plan, Read, End, Ends, Goto
  <2> QED BY <2>1 DEF OperationInv, Working
<1> QED BY <1>1, CheckKeeps, PrepareKeeps, ReplaceKeeps, PhasesKeep, RestoreKeeps, KillKeeps DEF Move, Work

LEMMA TransactionStep == TransactionInv /\ [Next]_vars => TransactionInv'
<1> SUFFICES ASSUME TransactionInv, [Next]_vars PROVE TransactionInv'
  OBVIOUS
<1>1. TypeOK' /\ AloneInv'
  BY TypesStay, AloneStays DEF TransactionInv
<1>2. ASSUME NEW p \in Operators PROVE OperationInv(p)'
  <2>1. ASSUME NEW q \in Operators, Move(q) PROVE OperationInv(p)'
    BY <2>1, OwnKeeps, OthersKeep
  <2>2. CASE UNCHANGED <<treeVars, pc, opVars, base, overlap>>
    <3> USE <2>2 DEF treeVars, opVars, Rest, Done, Existing, Touched, BackupsHold, BackedUp
    <3>1. /\ LoopInv(p)' <=> LoopInv(p)
          /\ PrepareInv(p)' <=> PrepareInv(p)
          /\ ReplaceInv(p)' <=> ReplaceInv(p)
      BY DEF LoopInv, PrepareInv, ReplaceInv
    <3>2. /\ RestoreInv(p)' <=> RestoreInv(p)
          /\ DeadInv(p)' <=> DeadInv(p)
      BY DEF RestoreInv, DeadInv
    <3> QED BY <3>1, <3>2 DEF TransactionInv, OperationInv
  <2> QED BY <2>1, <2>2, NextMoves DEF Tick, vars
<1> QED BY <1>1, <1>2 DEF TransactionInv

LEMMA TransactionAlways == Spec => []TransactionInv
<1>1. Init => TransactionInv
  BY StartTypes DEF Init, TransactionInv, AloneInv, OperationInv, Working
<1> QED BY <1>1, TransactionStep, PTL DEF Spec

\* The type invariant, for any documents, edits, operators and faults.
THEOREM TypeCorrect == Spec => []TypeOK
BY TransactionAlways, PTL DEF TransactionInv

\* An operation nobody overlaps leaves each document old or new, and what it
\* replaced is in its backup, wherever it is or was killed (_transactional_files).
THEOREM ReplacementIsRecoverable == Spec => []ReplacedIsRecoverable
<1>1. TransactionInv => ReplacedIsRecoverable
  <2> SUFFICES ASSUME TransactionInv, NEW p \in Operators, ~overlap[p],
                      pc[p] \in {"prepare", "replace", "validate", "dead"},
                      pc[p] = "dead" => BackedUp(p), NEW f \in Files
               PROVE  /\ file[f] \in {base[p][f]} \cup Written(p, f)
                      /\ (file[f] # base[p][f] /\ base[p][f] # Absent) =>
                              backup[f][second[p]] = base[p][f]
    BY DEF ReplacedIsRecoverable
  <2> USE DEF TransactionInv, OperationInv, Written
  <2>1. CASE pc[p] = "prepare"
    BY <2>1 DEF PrepareInv
  <2>2. CASE pc[p] \in {"replace", "validate"}
    <3>1. ReplaceInv(p)
      BY <2>2
    <3> QED BY <3>1 DEF ReplaceInv, Done, BackupsHold, Existing
  <2>3. CASE pc[p] = "dead"
    BY <2>3 DEF DeadInv
  <2> QED BY <2>1, <2>2, <2>3
<1> QED BY <1>1, TransactionAlways, PTL

LEMMA Settling ==
  ASSUME TransactionInv, [Next]_vars, NEW p \in Operators, NEW v, Settles(p, v)
  PROVE  /\ UNCHANGED <<file, edit, seen, base, expected, guarded>>
         /\ \/ v = "ok" /\ pc[p] = "validate"
            \/ v = "failed" /\ pc[p] = "restore" /\ left[p] = <<>>
            \/ v = "broken"
<1> USE DEF TransactionInv, TypeOK, Working, Settles, Goto, treeVars
<1>1. ASSUME NEW q \in Operators, q # p, Move(q) PROVE FALSE
  BY <1>1, OthersUntouched DEF Untouched
<1>2. ASSUME Tick \/ UNCHANGED vars PROVE FALSE
  BY <1>2 DEF Tick, vars
<1>3. Move(p)
  <2>1. PICK q \in Operators : Move(q)
    BY <1>2, NextMoves
  <2> QED BY <1>1, <2>1
<1>4. Work(p)
  BY <1>3 DEF Move, Plan, Read, Check, End
<1>5. ~Kill(p) /\ ~Prepare(p) /\ ~Prepared(p) /\ ~Replace(p) /\ ~Replaced(p)
  BY DEF Kill, Prepare, Prepared, Replace, Replaced, Raises
<1>6. CASE Validate(p)
  BY <1>6 DEF Validate, Ends, Raises
<1>7. CASE Restore(p)
  BY <1>7 DEF Restore, Ends
<1>8. CASE Restored(p)
  BY <1>8 DEF Restored, Ends
<1> QED BY <1>4, <1>5, <1>6, <1>7, <1>8 DEF Work

\* A change that fails with everything backed up has put the tree back as the
\* comparison of hashes found it, new documents removed (the except clause).
THEOREM FailureRestores == Spec => FailedChangeRestores
<1>1. ASSUME TransactionInv, [Next]_vars, NEW p \in Operators,
             Settles(p, "failed"), BackedUp(p), ~overlap[p]
      PROVE  file' = base[p]
  <2>1. file' = file /\ pc[p] = "restore" /\ left[p] = <<>>
    BY <1>1, Settling
  <2>2. RestoreInv(p) /\ Rest(p) = {}
    BY <1>1, <2>1, LoopEnds DEF TransactionInv, OperationInv
  <2>3. \A f \in Files : file[f] = base[p][f]
    BY <1>1, <2>2 DEF RestoreInv
  <2> QED BY <1>1, <2>1, <2>3 DEF TransactionInv, TypeOK
<1>2. TransactionInv /\ [Next]_vars =>
        [\A p \in Operators :
            (Settles(p, "failed") /\ BackedUp(p) /\ ~overlap[p]) => file' = base[p]]_vars
  BY <1>1
<1> QED BY <1>2, TransactionAlways, PTL DEF Spec, FailedChangeRestores

\* A guarded change that read what was reviewed and ends well has added its
\* edit to the reviewed tree and changed nothing else (expected_hash).
THEOREM GuardIsExact == Spec => GuardedChangeIsExact
<1>1. ASSUME TransactionInv, [Next]_vars, NEW p \in Operators,
             Settles(p, "ok"), guarded[p], ReadAsReviewed(p), ~overlap[p]
      PROVE  file' = Result(p) /\ base[p] = expected[p]
  <2>1. file' = file /\ pc[p] = "validate"
    BY <1>1, Settling
  <2>2. ReplaceInv(p) /\ Done(p) = Touched(edit[p]) /\ base[p] = expected[p]
    BY <1>1, <2>1, LoopEnds DEF TransactionInv, OperationInv, Working
  <2>3. \A f \in Files : file[f] = Result(p)[f]
    BY <1>1, <2>2 DEF ReplaceInv, ReadAsReviewed, Result
  <2>4. file = [f \in Files |-> file[f]] /\ Result(p) = [f \in Files |-> Result(p)[f]]
    BY <1>1 DEF TransactionInv, TypeOK, Result
  <2> QED BY <2>1, <2>2, <2>3, <2>4
<1>2. TransactionInv /\ [Next]_vars =>
        [\A p \in Operators :
            (Settles(p, "ok") /\ guarded[p] /\ ReadAsReviewed(p) /\ ~overlap[p]) =>
                /\ file' = Result(p)
                /\ base[p] = expected[p]]_vars
  BY <1>1
<1> QED BY <1>2, TransactionAlways, PTL DEF Spec, GuardedChangeIsExact
=============================================================================
