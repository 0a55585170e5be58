------------------------ MODULE DesiredState_proofs ------------------------
(***************************************************************************)
(* Theorems about DesiredState for any documents that load, any requests,  *)
(* commands and consoles, in any number and interleaving.                  *)
(***************************************************************************)
EXTENDS DesiredState, TLAPS

Fields == {"template", "host", "profile", "enabled", "retired", "deps", "uses"}

\* A tree has its two documents, and a component all its fields.
Shape(d) ==
    /\ {"stack", "profiles"} \subseteq DOMAIN d
    /\ \A x \in DOMAIN d.stack : Fields \subseteq DOMAIN d.stack[x]

\* A command that is under way has a request.
Asked ==
    /\ pc \in [Commands -> {"idle", "load", "plan", "stop", "check", "compare", "copy",
                            "replace", "validate", "restore"}]
    /\ \A f \in {request, seen, expected, read, saved} : DOMAIN f = Commands
    /\ \A c \in Commands : pc[c] # "idle" => request[c] \in Requests

ShapeInv ==
    /\ Shape(tree) /\ Asked
    /\ \A c \in Commands : Shape(read[c]) /\ Shape(saved[c])

(***************************************************************************)
(* The documents an operation computes                                     *)
(***************************************************************************)
\* A component that is put among others leaves the tree well formed.
LEMMA WithComponentShape ==
    ASSUME NEW d, Shape(d), NEW x, NEW c, Fields \subseteq DOMAIN c
    PROVE  /\ Shape(WithComponent(d, x, c))
           /\ WithComponent(d, x, c).profiles = d.profiles
<1> DEFINE e == WithComponent(d, x, c)
<1>1. e.stack = Put(d.stack, x, c) /\ e.profiles = d.profiles /\ DOMAIN e = DOMAIN d
  BY DEF WithComponent, Shape
<1>2. \A y \in DOMAIN e.stack : Fields \subseteq DOMAIN e.stack[y]
  BY <1>1 DEF Put, Shape
<1> QED BY <1>1, <1>2 DEF Shape

LEMMA WithProfileShape ==
    ASSUME NEW d, Shape(d), NEW p, NEW v
    PROVE  Shape(WithProfile(d, p, v)) /\ WithProfile(d, p, v).stack = d.stack
  BY DEF WithProfile, Shape

\* Fields are changed, never dropped.
LEMMA ComponentFields ==
    ASSUME NEW r, NEW c, Fields \subseteq DOMAIN c
    PROVE  /\ Fields \subseteq DOMAIN Wired(c)
           /\ Fields \subseteq DOMAIN MutatedComponent(r, c)
           /\ Fields \subseteq DOMAIN New(r)
  BY DEF Wired, MutatedComponent, Boxes, New, Fields

LEMMA NewDocumentsShape ==
    ASSUME NEW r \in Requests, NEW s, NEW d, Shape(d), ~Refused(r, s, d)
    PROVE  Shape(NewDocuments(r, s, d))
<1>1. r.op \in Operations
  BY DesiredAssumption
<1>2. ASSUME r.op \in {"configure", "clone", "retire", "restore"}
      PROVE  r.on \in DOMAIN d.stack /\ Fields \subseteq DOMAIN d.stack[r.on]
  BY <1>2 DEF Refused, SourceGone, Shape
<1>3. CASE r.op = "configure"
  <2> DEFINE e == WithComponent(d, r.on, MutatedComponent(r, d.stack[r.on]))
  <2>1. Shape(e)
    BY <1>2, <1>3, ComponentFields, WithComponentShape
  <2> HIDE DEF e
  <2>2. \A p, v : Shape(WithProfile(e, p, v)) /\ WithProfile(e, p, v).stack = e.stack
    BY <2>1, WithProfileShape
  <2> QED BY <1>3, <2>1, <2>2 DEF NewDocuments, Configure, e
<1>4. Shape(Add(r, d))
  <2>1. Fields \subseteq DOMAIN New(r)
    BY DEF New, Wired, Fields
  <2> QED BY <2>1, WithComponentShape DEF Add
<1>5. CASE r.op = "provision"
  BY <1>4, <1>5, WithProfileShape DEF NewDocuments, Provision
<1>6. CASE r.op = "clone"
  <2> DEFINE c == [d.stack[r.on] EXCEPT !.enabled = "false", !.retired = FALSE]
  <2>1. Fields \subseteq DOMAIN c /\ Fields \subseteq DOMAIN [c EXCEPT !.profile = r.profile]
    BY <1>2, <1>6
  <2> HIDE DEF c
  <2>2. ASSUME NEW k \in {c, [c EXCEPT !.profile = r.profile]}
        PROVE  Shape(WithComponent(d, r.to, k))
    BY <2>1, WithComponentShape
  <2>3. \A k \in {c, [c EXCEPT !.profile = r.profile]} : \A p, v :
          /\ Shape(WithProfile(WithComponent(d, r.to, k), p, v))
          /\ WithProfile(WithComponent(d, r.to, k), p, v).stack = WithComponent(d, r.to, k).stack
    BY <2>2, WithProfileShape
  <2> QED BY <1>6, <2>2, <2>3 DEF NewDocuments, CloneComponent, c
<1>7. CASE r.op \in {"retire", "restore"}
  <2>1. Fields \subseteq DOMAIN [d.stack[r.on] EXCEPT !.retired = (r.op = "retire"), !.enabled = "false"]
    BY <1>2, <1>7
  <2> QED BY <1>7, <2>1, WithComponentShape DEF NewDocuments, Retire
<1>8. CASE r.op \in {"create profile", "edit profile", "clone profile"}
  BY <1>8, WithProfileShape DEF NewDocuments, CreateProfile, EditProfile, CloneProfile
<1>9. CASE r.op = "add"
  BY <1>4, <1>9 DEF NewDocuments
<1> QED BY <1>1, <1>3, <1>5, <1>6, <1>7, <1>8, <1>9 DEF Operations

\* Writing some documents of e over those of d leaves a well-formed tree.
LEMMA ReplacedShape ==
    ASSUME NEW r, NEW s, NEW d, NEW e, Shape(d), Shape(e)
    PROVE  Shape(Replaced(r, s, d, e))
  BY DEF Replaced, Shape

\* Profiles that no component names make no difference.
LEMMA MoreProfilesValid ==
    ASSUME NEW d, NEW e, Valid(d), e.stack = d.stack,
           \A q \in DOMAIN d.profiles : q \in DOMAIN e.profiles /\ e.profiles[q] = d.profiles[q]
    PROVE  Valid(e)
<1>1. \A x \in DOMAIN d.stack : ProfileFits(e, d.stack[x]) /\ Binds(e, d.stack[x]) = Binds(d, d.stack[x])
  BY DEF Valid, ValidTopology, ValidStacks, ProfileFits, Binds
<1>2. ValidTopology(e, Hosts)
  BY <1>1 DEF Valid, ValidTopology, ValidStacks
<1>3. ValidConnections(e)
  BY DEF Valid, ValidConnections
<1> QED BY <1>2, <1>3 DEF Valid

\* What validates nothing adds a profile under a new name.
LEMMA UnvalidatedKeeps ==
    ASSUME NEW r, NEW s, NEW d, Shape(d), Valid(d), Unvalidated(r), ~Refused(r, s, d)
    PROVE  Valid(Replaced(r, s, d, NewDocuments(r, s, d)))
<1> DEFINE t == Replaced(r, s, d, NewDocuments(r, s, d))
<1>1. r.op \in {"create profile", "clone profile"} /\ r.profile \notin DOMAIN d.profiles
  BY DEF Unvalidated, Refused, NameTaken
<1>2. ~StackWritten(r) /\ ProfilesWritten(r, s) = {r.profile}
  BY <1>1 DEF StackWritten, ProfilesWritten
<1>3. t.stack = d.stack
  BY <1>2 DEF Replaced
<1>4. \A q \in DOMAIN d.profiles : q \in DOMAIN t.profiles /\ t.profiles[q] = d.profiles[q]
  BY <1>1, <1>2 DEF Replaced
<1> HIDE DEF t
<1>5. Valid(t)
  BY <1>3, <1>4, MoreProfilesValid
<1> QED BY <1>5 DEF t

\* Putting the copies back gives what they were made from.
LEMMA RestoredValid ==
    ASSUME NEW r, NEW s, NEW d, NEW e, NEW t, Valid(d), t = Replaced(r, s, d, e)
    PROVE  Valid(Replaced(r, s, t, d))
<1> DEFINE P == ProfilesWritten(r, s)
           u == Replaced(r, s, t, d)
<1>1. u.stack = d.stack
  BY DEF Replaced
<1>2. /\ t.profiles = [p \in (DOMAIN d.profiles \ P) \cup (DOMAIN e.profiles \cap P) |->
                          IF p \in P THEN e.profiles[p] ELSE d.profiles[p]]
      /\ u.profiles = [p \in (DOMAIN t.profiles \ P) \cup (DOMAIN d.profiles \cap P) |->
                          IF p \in P THEN d.profiles[p] ELSE t.profiles[p]]
  BY DEF Replaced
<1> HIDE DEF P, u
<1>3. \A q \in DOMAIN d.profiles : q \in DOMAIN u.profiles /\ u.profiles[q] = d.profiles[q]
  BY <1>2
<1>4. Valid(u)
  BY <1>1, <1>3, MoreProfilesValid
<1> QED BY <1>4 DEF u

(***************************************************************************)
(* Steps                                                                   *)
(***************************************************************************)
Steps(c) ==
    \/ BeginAtCommandLine(c) \/ BeginAtConsole(c) \/ Load(c) \/ Plan(c) \/ Stop(c)
    \/ Check(c) \/ Compare(c) \/ Copy(c) \/ Replace(c) \/ Validate(c) \/ Restore(c)

\* What a command that does not step keeps: its copies unless they are overwritten.
Kept(d) ==
    /\ pc'[d] = pc[d] /\ request'[d] = request[d] /\ seen'[d] = seen[d] /\ expected'[d] = expected[d]
    /\ read'[d] = read[d] /\ (saved'[d] = saved[d] \/ (d \in crossed' /\ Shape(saved'[d])))

\* A command changes only what is its own.
LEMMA EndsKept ==
    ASSUME Asked, NEW c \in Commands, Ends(c)
    PROVE  /\ Asked' /\ pc'[c] = "idle" /\ \A d \in Commands \ {c} : Kept(d)
           /\ read'[c] = FirstTree /\ saved'[c] = FirstTree
  BY DEF Asked, Ends, To, Kept

\* A step of one command keeps the others' variables.
LEMMA StepKept ==
    ASSUME ShapeInv, NEW c \in Commands, Steps(c)
    PROVE  Asked' /\ \A d \in Commands \ {c} : Kept(d)
<1>a. Asked
  BY DEF ShapeInv
<1>1. CASE Ends(c)
  BY <1>a, <1>1, EndsKept
<1>2. ASSUME NEW r \in Requests, Asks(c, r), BeginAtCommandLine(c) \/ BeginAtConsole(c)
      PROVE  Asked' /\ \A d \in Commands \ {c} : Kept(d)
  <2>1. UNCHANGED <<read, saved>> /\ request' = [request EXCEPT ![c] = r]
    BY <1>2 DEF BeginAtCommandLine, BeginAtConsole, Asks
  <2>2. /\ \E p \in {"load", "plan"} : pc' = [pc EXCEPT ![c] = p]
        /\ seen' = [seen EXCEPT ![c] = tree] \/ UNCHANGED seen
        /\ expected' = [expected EXCEPT ![c] = {tree}] \/ UNCHANGED expected
    BY <1>2 DEF BeginAtCommandLine, BeginAtConsole, Expects, Sees, To
  <2> QED BY <1>a, <2>1, <2>2 DEF Asked, Kept
<1>3. ASSUME pc[c] # "idle", UNCHANGED request,
             \E p \in {"stop", "check", "compare", "copy", "replace", "validate", "restore"} : To(c, p),
             seen' = [seen EXCEPT ![c] = tree] \/ UNCHANGED seen,
             expected' = [expected EXCEPT ![c] = {tree}] \/ UNCHANGED expected,
             read' = [read EXCEPT ![c] = tree] \/ UNCHANGED read,
             saved' = [saved EXCEPT ![c] = tree] \/ UNCHANGED saved
      PROVE  Asked' /\ \A d \in Commands \ {c} : Kept(d)
  BY <1>a, <1>3 DEF To, Asked, Kept
<1>4. CASE Load(c) \/ Plan(c)
  BY <1>1, <1>3, <1>4 DEF Load, Plan, Planned, Sees, Expects
<1>5. CASE Stop(c)
  BY <1>1, <1>3, <1>5 DEF Stop, opVars
<1>6. CASE Check(c) \/ Compare(c)
  BY <1>1, <1>3, <1>6 DEF Check, Compare, opVars
<1>9. CASE Copy(c)
  <2>1. /\ pc[c] = "copy" /\ pc' = [pc EXCEPT ![c] = "replace"]
        /\ UNCHANGED <<request, seen, expected, read>>
    BY <1>9 DEF Copy, To
  <2>2. CASE saved' = [saved EXCEPT ![c] = tree]
    BY <1>a, <2>1, <2>2 DEF Asked, Kept
  <2>3. ASSUME NEW d \in Commands \ {c},
               saved' = [saved EXCEPT ![c] = tree, ![d] = Replaced(request[c], seen[c], @, tree)],
               crossed' = crossed \cup {c, d}
        PROVE  Asked' /\ \A x \in Commands \ {c} : Kept(x)
    <3>1. DOMAIN saved' = Commands /\ saved'[d] = Replaced(request[c], seen[c], saved[d], tree)
      BY <1>a, <2>3 DEF Asked
    <3>2. Shape(saved'[d])
      BY <3>1, ReplacedShape DEF ShapeInv
    <3>3. \A x \in Commands \ {c, d} : saved'[x] = saved[x]
      BY <1>a, <2>3 DEF Asked
    <3>4. Asked'
      BY <1>a, <2>1, <3>1 DEF Asked
    <3>5. \A x \in Commands \ {c} :
            pc'[x] = pc[x] /\ request'[x] = request[x] /\ seen'[x] = seen[x] /\ expected'[x] = expected[x]
            /\ read'[x] = read[x]
      BY <1>a, <2>1 DEF Asked
    <3> QED BY <2>3, <3>2, <3>3, <3>4, <3>5 DEF Kept
  <2> QED BY <1>9, <2>2, <2>3 DEF Copy
<1>7. CASE Replace(c) \/ Validate(c) \/ Restore(c)
  BY <1>1, <1>3, <1>7 DEF Replace, Validate, Restore, opVars
<1>8. CASE BeginAtCommandLine(c) \/ BeginAtConsole(c)
  BY <1>2, <1>8 DEF BeginAtCommandLine, BeginAtConsole
<1> QED BY <1>4, <1>5, <1>6, <1>7, <1>8, <1>9 DEF Steps

\* A step that is no command's keeps every command's.
LEMMA OtherStep ==
    ASSUME [Next]_vars
    PROVE  \/ \E c \in Commands : Steps(c)
           \/ UNCHANGED <<tree, pc, opVars, others>>
  BY DEF Next, Steps, vars, StartComponent, StopComponent

\* Only two steps write documents.
LEMMA WritingSteps ==
    ASSUME NEW c \in Commands, Steps(c)
    PROVE  \/ /\ UNCHANGED <<tree, lost>> /\ crossed \ {c} \subseteq crossed' /\ late' \in {late, late \ {c}}
              /\ crossed \subseteq crossed' \/ pc[c] \in {"compare", "validate"}
           \/ Replace(c) \/ Restore(c)
<1>1. CASE BeginAtCommandLine(c) \/ BeginAtConsole(c)
  BY <1>1 DEF BeginAtCommandLine, BeginAtConsole, Asks, others
<1>2. CASE Load(c) \/ Plan(c) \/ Stop(c) \/ Check(c) \/ Copy(c)
  BY <1>2 DEF Load, Plan, Stop, Check, Copy, others
<1>3. CASE Compare(c) \/ Validate(c)
  BY <1>3 DEF Compare, Validate, Forgets
<1>4. CASE Replace(c) \/ Restore(c)
  BY <1>4
<1> QED BY <1>1, <1>2, <1>3, <1>4 DEF Steps

\* What is written has the shape of what it is written from.
LEMMA NewShape ==
    ASSUME ShapeInv, NEW c \in Commands, pc[c] = "replace", ~Refused(request[c], seen[c], read[c])
    PROVE  Shape(Replaced(request[c], seen[c], tree, NewDocuments(request[c], seen[c], read[c])))
<1>1. request[c] \in Requests /\ Shape(read[c]) /\ Shape(tree)
  BY DEF ShapeInv, Asked
<1>2. Shape(NewDocuments(request[c], seen[c], read[c]))
  BY <1>1, NewDocumentsShape
<1> QED BY <1>1, <1>2, ReplacedShape

(***************************************************************************)
(* What a command knows of the documents                                   *)
(***************************************************************************)
\* What it was not refused for; and unless another wrote since, that the
\* documents are still those it read.
Reading(c) ==
    pc[c] \in {"compare", "copy", "replace"} =>
        /\ ~Refused(request[c], seen[c], read[c])
        /\ c \notin crossed => read[c] = tree
        /\ c \notin crossed /\ pc[c] = "replace" => saved[c] = tree

\* One that has written can put its copies back, unless another wrote since.
Pending(c) == pc[c] \in {"validate", "restore"}
Written(c) ==
    ~lost /\ Pending(c) /\ c \notin crossed =>
        /\ \E e : tree = Replaced(request[c], seen[c], saved[c], e)
        /\ pc[c] = "restore" => ~Valid(tree)

ReadInv == ShapeInv /\ \A c \in Commands : Reading(c) /\ Written(c)

\* A step of another command.
LEMMA ReadOther ==
    ASSUME ReadInv, NEW c \in Commands, Steps(c), NEW d \in Commands \ {c}, Kept(d)
    PROVE  Reading(d)' /\ Written(d)'
<1>1. Reading(d) /\ Written(d)
  BY DEF ReadInv
<1>2. CASE UNCHANGED <<tree, lost>> /\ crossed \ {c} \subseteq crossed'
  <2>1. Reading(d)'
    BY <1>1, <1>2 DEF Kept, Reading, Refused
  <2>2. Valid(tree)' <=> Valid(tree)
    BY <1>2
  <2>3. Written(d)'
    BY <1>1, <1>2, <2>2 DEF Kept, Written, Pending
  <2> QED BY <2>1, <2>3
<1>3. CASE Replace(c) \/ Restore(c)
  <2>1. crossed' = (crossed \cup {x \in Commands : pc[x] \in {"compare", "copy", "replace", "validate", "restore"}}) \ {c}
    BY <1>3 DEF Replace, Restore, Writes
  <2>2. pc[d] \in {"compare", "copy", "replace", "validate", "restore"} => d \in crossed'
    BY <2>1
  <2> QED BY <1>1, <2>2 DEF Kept, Reading, Written, Pending
<1> QED BY <1>2, <1>3, WritingSteps

\* Its own.
LEMMA ReadOwn ==
    ASSUME ReadInv, NEW c \in Commands, Steps(c)
    PROVE  Reading(c)' /\ Written(c)' /\ Shape(read'[c]) /\ Shape(saved'[c]) /\ Shape(tree')
<1>1. Asked /\ Reading(c) /\ Written(c) /\ Shape(read[c]) /\ Shape(saved[c]) /\ Shape(tree)
  BY DEF ReadInv, ShapeInv
<1>2. Shape(FirstTree)
  BY DesiredAssumption DEF IsTree, Shape, Component, Fields
<1>3. ASSUME Ends(c)
      PROVE  Reading(c)' /\ Written(c)' /\ Shape(read'[c]) /\ Shape(saved'[c])
  BY <1>1, <1>2, <1>3, EndsKept DEF Reading, Written, Pending
<1>4. ASSUME UNCHANGED <<tree, read, saved>>, \E p \in {"load", "plan", "stop", "check"} : To(c, p)
      PROVE  Reading(c)' /\ Written(c)' /\ Shape(read'[c]) /\ Shape(saved'[c])
  <2>1. pc'[c] \in {"load", "plan", "stop", "check"}
    BY <1>1, <1>4 DEF To, Asked
  <2> QED BY <1>1, <1>4, <2>1 DEF Reading, Written, Pending
<1>5. CASE BeginAtCommandLine(c) \/ BeginAtConsole(c)
  BY <1>1, <1>4, <1>5 DEF BeginAtCommandLine, BeginAtConsole, Asks
<1>6. CASE Load(c) \/ Plan(c)
  BY <1>1, <1>3, <1>4, <1>6 DEF Load, Plan, Planned
<1>7. CASE Stop(c)
  BY <1>1, <1>3, <1>4, <1>7 DEF Stop, opVars
<1>8. CASE Check(c)
  <2>1. CASE Ends(c)
    BY <1>1, <1>3, <1>8, <2>1 DEF Check
  <2>2. CASE ~Ends(c)
    <3>1. /\ ~Refused(request[c], seen[c], tree) /\ read'[c] = tree /\ pc'[c] = "compare"
          /\ UNCHANGED <<tree, request, seen, saved>>
      BY <1>1, <1>8, <2>2 DEF Check, To, Asked
    <3> QED BY <1>1, <3>1 DEF Reading, Written, Pending
  <2> QED BY <2>1, <2>2
<1>9. CASE Compare(c)
  <2>1. CASE Ends(c)
    BY <1>1, <1>3, <1>9, <2>1 DEF Compare
  <2>2. CASE ~Ends(c)
    <3>1. pc[c] = "compare" /\ pc'[c] = "copy" /\ UNCHANGED <<tree, request, seen, read, saved, crossed>>
      BY <1>1, <1>9, <2>2 DEF Compare, To, Asked, opVars
    <3> QED BY <1>1, <3>1 DEF Reading, Written, Pending
  <2> QED BY <2>1, <2>2
<1>10. CASE Copy(c)
  <2>0. saved'[c] = tree
    BY <1>1, <1>10 DEF Copy, Asked
  <2>1. /\ pc[c] = "copy" /\ pc'[c] = "replace" /\ saved'[c] = tree
        /\ UNCHANGED <<tree, request, seen, read>> /\ crossed \subseteq crossed'
    BY <1>1, <1>10, <2>0 DEF Copy, To, Asked
  <2> QED BY <1>1, <2>1 DEF Reading, Written, Pending
<1>11. CASE Replace(c)
  <2>1. /\ pc[c] = "replace" /\ ~Refused(request[c], seen[c], read[c])
        /\ tree' = Replaced(request[c], seen[c], tree, NewDocuments(request[c], seen[c], read[c]))
    BY <1>1, <1>11 DEF Replace, Writes, Reading
  <2>2. Shape(tree')
    BY <2>1, NewShape DEF ReadInv
  <2>3. CASE Ends(c)
    BY <1>3, <2>2, <2>3
  <2>4. CASE ~Ends(c)
    <3>1. /\ pc'[c] = "validate" /\ UNCHANGED <<request, seen, read, saved>>
      BY <1>1, <1>11, <2>4 DEF Replace, To, Asked, opVars
    <3>2. ~lost' => c \notin crossed
      BY <1>11 DEF Replace, Writes
    <3>3. ~lost' => saved[c] = tree
      BY <1>1, <2>1, <3>2 DEF Reading
    <3> QED BY <1>1, <2>1, <2>2, <3>1, <3>3 DEF Reading, Written, Pending
  <2> QED BY <2>3, <2>4
<1>12. CASE Validate(c)
  <2>1. CASE Ends(c)
    BY <1>1, <1>3, <1>12, <2>1 DEF Validate
  <2>2. CASE ~Ends(c)
    <3>1. /\ pc[c] = "validate" /\ pc'[c] = "restore" /\ ~Valid(tree)
          /\ UNCHANGED <<tree, request, seen, read, saved, crossed, lost>>
      BY <1>1, <1>12, <2>2 DEF Validate, To, Asked, opVars
    <3>2. ~Valid(tree)'
      BY <3>1
    <3> QED BY <1>1, <3>1, <3>2 DEF Reading, Written, Pending
  <2> QED BY <2>1, <2>2
<1>13. CASE Restore(c)
  <2>1. (\E e \in {saved[c], tree} : tree' = Replaced(request[c], seen[c], tree, e)) /\ Ends(c)
    BY <1>13 DEF Restore, Writes
  <2>2. Shape(tree')
    BY <1>1, <2>1, ReplacedShape
  <2> QED BY <1>3, <2>1, <2>2
<1> QED BY <1>5, <1>6, <1>7, <1>8, <1>9, <1>10, <1>11, <1>12, <1>13 DEF Steps

\* Every step.
LEMMA ReadStep == ASSUME ReadInv, [Next]_vars PROVE ReadInv'
<1>1. CASE UNCHANGED <<tree, pc, opVars, others>>
  BY <1>1 DEF ReadInv, ShapeInv, Shape, Asked, Reading, Written, Pending, opVars, others,
     Valid, ValidTopology, ValidStacks, ValidConnections
<1>2. ASSUME NEW c \in Commands, Steps(c) PROVE ReadInv'
  <2>1. Asked' /\ \A d \in Commands \ {c} : Kept(d)
    BY <1>2, StepKept DEF ReadInv
  <2>2. Reading(c)' /\ Written(c)' /\ Shape(read'[c]) /\ Shape(saved'[c]) /\ Shape(tree')
    BY <1>2, ReadOwn
  <2>3. \A d \in Commands \ {c} : Reading(d)' /\ Written(d)' /\ Shape(read'[d]) /\ Shape(saved'[d])
    BY <1>2, <2>1, ReadOther DEF ReadInv, ShapeInv, Kept
  <2> QED BY <2>1, <2>2, <2>3 DEF ReadInv, ShapeInv, Shape
<1> QED BY <1>1, <1>2, OtherStep

LEMMA ReadInit == ASSUME Init PROVE ReadInv
<1>1. Shape(FirstTree)
  BY DesiredAssumption DEF IsTree, Shape, Component, Fields
<1>2. ShapeInv
  BY <1>1 DEF Init, ShapeInv, Asked
<1> QED BY <1>2 DEF Init, ReadInv, Reading, Written, Pending

(***************************************************************************)
(* Documents that load                                                     *)
(***************************************************************************)
\* Documents that do not load have somebody who will find out, or a copy that does.
SomePending == \E c \in Commands : Pending(c)
OtherPending(c) == \E d \in Commands \ {c} : Pending(d)
ValidInv ==
    ~lost =>
        /\ Valid(tree) \/ SomePending
        /\ \A c \in Commands : Pending(c) /\ c \notin crossed =>
              Valid(saved[c]) \/ OtherPending(c) \/ (pc[c] = "validate" /\ Valid(tree))

\* The first write of an operation.
LEMMA ValidReplace ==
    ASSUME ReadInv, ValidInv, NEW c \in Commands, Replace(c), ~lost',
           \A d \in Commands \ {c} : Kept(d)
    PROVE  ValidInv'
<1>1. /\ pc[c] = "replace" /\ ~lost /\ c \notin crossed /\ Reading(c)
      /\ tree' = Replaced(request[c], seen[c], tree, NewDocuments(request[c], seen[c], read[c]))
  BY DEF Replace, Writes, ReadInv
<1>2. read[c] = tree /\ saved[c] = tree /\ ~Refused(request[c], seen[c], tree) /\ Shape(tree)
  BY <1>1 DEF Reading, ReadInv, ShapeInv
<1>3. \A d \in Commands \ {c} : Pending(d) => Pending(d)' /\ d \in crossed'
  BY DEF Kept, Pending, Replace, Writes
<1>4. Valid(tree) \/ OtherPending(c)
  BY <1>1 DEF ValidInv, SomePending, OtherPending, Pending
<1>5. \A d \in Commands \ {c} : Pending(d)' => Pending(d)
  BY DEF Kept, Pending
<1>6. OtherPending(c) => OtherPending(c)' /\ SomePending'
  BY <1>3 DEF OtherPending, SomePending
<1>7. CASE Unvalidated(request[c])
  <2>1. pc'[c] = "idle"
    BY <1>7, EndsKept DEF Replace, ReadInv, ShapeInv
  <2>2. Valid(tree) => Valid(tree')
    BY <1>1, <1>2, <1>7, UnvalidatedKeeps
  <2>3. Valid(tree') => Valid(tree)'
    BY DEF Valid, ValidTopology, ValidStacks, ValidConnections
  <2> QED BY <1>3, <1>4, <1>5, <1>6, <2>1, <2>2, <2>3 DEF ValidInv, Pending
<1>8. CASE ~Unvalidated(request[c])
  <2>1. pc'[c] = "validate" /\ saved'[c] = tree
    BY <1>2, <1>8 DEF Replace, To, opVars, ReadInv, ShapeInv, Asked
  <2>2. SomePending'
    BY <2>1 DEF SomePending, Pending
  <2>3. Valid(saved'[c]) \/ OtherPending(c)'
    BY <1>4, <1>6, <2>1
  <2>4. Valid(saved'[c]) => Valid(saved[c])'
    BY <2>1
  <2> QED BY <1>3, <1>5, <2>2, <2>3, <2>4 DEF ValidInv
<1> QED BY <1>7, <1>8

\* A failed operation that puts its copies back.
LEMMA ValidRestore ==
    ASSUME ReadInv, ValidInv, NEW c \in Commands, Restore(c), ~lost',
           \A d \in Commands \ {c} : Kept(d)
    PROVE  ValidInv'
<1>1. /\ pc[c] = "restore" /\ ~lost /\ c \notin crossed /\ Written(c)
      /\ tree' = Replaced(request[c], seen[c], tree, saved[c])
  BY DEF Restore, Writes, ReadInv
<1>2. pc'[c] = "idle"
  BY EndsKept DEF Restore, ReadInv, ShapeInv
<1>3. \A d \in Commands \ {c} : Pending(d) => Pending(d)' /\ d \in crossed'
  BY DEF Kept, Pending, Restore, Writes
<1>4. Valid(saved[c]) \/ OtherPending(c)
  BY <1>1 DEF ValidInv, Pending
<1>5. \A d \in Commands \ {c} : Pending(d)' => Pending(d)
  BY DEF Kept, Pending
<1>6. Valid(saved[c]) => Valid(tree')
  BY <1>1, RestoredValid DEF Written, Pending
<1>7. Valid(tree') => Valid(tree)'
  BY DEF Valid, ValidTopology, ValidStacks, ValidConnections
<1>8. OtherPending(c) => SomePending'
  BY <1>3 DEF OtherPending, SomePending
<1> QED BY <1>2, <1>3, <1>4, <1>5, <1>6, <1>7, <1>8 DEF ValidInv, Pending

\* Steps that write nothing.
LEMMA ValidOther ==
    ASSUME ReadInv, ValidInv, NEW c \in Commands, Steps(c), ~Replace(c), ~Restore(c),
           \A d \in Commands \ {c} : Kept(d)
    PROVE  ValidInv'
<1>1. UNCHANGED <<tree, lost>> /\ crossed \ {c} \subseteq crossed'
  BY WritingSteps
<1>2. Valid(tree)' <=> Valid(tree)
  BY <1>1
<1>3. \A d \in Commands \ {c} : /\ Pending(d)' <=> Pending(d)
                                /\ d \notin crossed' => d \notin crossed
                                /\ pc'[d] = pc[d]
                                /\ d \notin crossed' => (Valid(saved[d])' <=> Valid(saved[d]))
  BY <1>1 DEF Kept, Pending
<1>4. CASE Validate(c) /\ Valid(tree)
  <2>1. pc'[c] = "idle"
    BY <1>4, EndsKept DEF Validate, ReadInv, ShapeInv
  <2>2. ~lost => \A d \in Commands \ {c} : Pending(d) /\ d \notin crossed => pc[d] = "validate"
    BY <1>4 DEF ReadInv, Written, Pending
  <2>3. Valid(tree)' /\ ~Pending(c)'
    BY <1>2, <1>4, <2>1 DEF Pending
  <2>4. ASSUME ~lost', NEW d \in Commands, Pending(d)', d \notin crossed'
        PROVE  pc'[d] = "validate"
    BY <1>1, <1>3, <2>2, <2>3, <2>4
  <2> QED BY <2>3, <2>4 DEF ValidInv
<1>5. CASE Validate(c) /\ ~Valid(tree)
  <2>1. pc[c] = "validate" /\ pc'[c] = "restore" /\ UNCHANGED <<saved, crossed>>
    BY <1>5 DEF Validate, To, opVars, ReadInv, ShapeInv, Asked
  <2>2. \A d \in Commands : Pending(d)' <=> Pending(d)
    BY <1>3, <2>1 DEF Pending
  <2>3. (SomePending' <=> SomePending) /\ \A d \in Commands : OtherPending(d)' <=> OtherPending(d)
    BY <2>2 DEF SomePending, OtherPending
  <2>4. \A d \in Commands : Valid(saved[d])' <=> Valid(saved[d])
    BY <2>1
  <2>5. ASSUME ~lost, NEW d \in Commands, Pending(d)', d \notin crossed'
        PROVE  (Valid(saved[d]) \/ OtherPending(d))'
    BY <1>5, <2>1, <2>2, <2>3, <2>4, <2>5 DEF ValidInv
  <2> QED BY <1>1, <1>5, <2>1, <2>2, <2>3, <2>5 DEF ValidInv, SomePending, Pending
<1>6. CASE ~Validate(c)
  <2>1. ~Pending(c) /\ ~Pending(c)'
    <3>1. CASE Ends(c)
      BY <1>6, <3>1, EndsKept DEF Steps, BeginAtCommandLine, BeginAtConsole, Asks, Load, Plan, Stop,
         Check, Compare, Copy, Pending, ReadInv, ShapeInv
    <3>2. CASE \E p \in {"load", "plan", "stop", "check", "compare", "copy", "replace"} : To(c, p)
      BY <1>6, <3>2 DEF Steps, BeginAtCommandLine, BeginAtConsole, Asks, Load, Plan, Stop,
         Check, Compare, Copy, Pending, ReadInv, ShapeInv, Asked, To
    <3> QED BY <1>6, <3>1, <3>2 DEF Steps, BeginAtCommandLine, BeginAtConsole, Load, Plan, Planned, Stop,
         Check, Compare, Copy
  <2>2. \A d \in Commands : Pending(d)' <=> Pending(d)
    BY <1>3, <2>1
  <2>3. (SomePending' <=> SomePending) /\ \A d \in Commands : OtherPending(d)' <=> OtherPending(d)
    BY <2>2 DEF SomePending, OtherPending
  <2> QED BY <1>1, <1>2, <1>3, <2>1, <2>2, <2>3 DEF ValidInv
<1> QED BY <1>4, <1>5, <1>6

\* Every step.
LEMMA ValidStep == ASSUME ReadInv, ValidInv, [Next]_vars PROVE ValidInv'
<1>1. CASE UNCHANGED <<tree, pc, opVars, others>>
  <2>1. (Valid(tree)' <=> Valid(tree)) /\ \A d \in Commands : Valid(saved[d])' <=> Valid(saved[d])
    BY <1>1 DEF opVars
  <2>2. \A d \in Commands : Pending(d)' <=> Pending(d)
    BY <1>1 DEF Pending
  <2>3. (SomePending' <=> SomePending) /\ \A d \in Commands : OtherPending(d)' <=> OtherPending(d)
    BY <2>2 DEF SomePending, OtherPending
  <2> QED BY <1>1, <2>1, <2>2, <2>3 DEF ValidInv, others
<1>2. ASSUME NEW c \in Commands, Steps(c) PROVE ValidInv'
  <2>1. \A d \in Commands \ {c} : Kept(d)
    BY <1>2, StepKept DEF ReadInv
  <2>2. CASE lost'
    BY <2>2 DEF ValidInv
  <2> QED BY <1>2, <2>1, <2>2, ValidReplace, ValidRestore, ValidOther
<1> QED BY <1>1, <1>2, OtherStep

LEMMA AlwaysValid == Spec => [](ReadInv /\ ValidInv)
<1>1. Init => ReadInv /\ ValidInv
  BY ReadInit, FirstTreeLoads DEF Init, ValidInv, Pending
<1>2. ReadInv /\ ValidInv /\ [Next]_vars => (ReadInv /\ ValidInv)'
  BY ReadStep, ValidStep
<1> QED BY <1>1, <1>2, PTL DEF Spec

\* No sequence of operations leaves documents that do not load, although creating and
\* cloning a profile validate nothing, and although they overlap: unless one of
\* them wrote over what another had written since it read the documents.
THEOREM DocumentsLoad == Spec => []TreeStaysValid
<1>1. ValidInv => TreeStaysValid
  BY DEF ValidInv, TreeStaysValid, SomePending, Pending
<1> QED BY <1>1, AlwaysValid, PTL

(***************************************************************************)
(* Snapshots                                                               *)
(***************************************************************************)
\* What of valid documents is rendered for a host is valid on its own.
LEMMA SnapshotValid ==
    ASSUME NEW d, Shape(d), ValidStacks(d, Hosts), NEW h \in Hosts, Available(h, d.stack) # {}
    PROVE  ValidStacks(Snapshot(h, d), Inventory(h))
<1> DEFINE S == Available(h, d.stack)
           st == Serialized(d.stack, S)
           e == Snapshot(h, d)
<1>1. e.stack = st /\ e.profiles = [p \in {d.stack[x].profile : x \in S} |-> d.profiles[p]]
  BY DEF Snapshot
<1>2. S \subseteq DOMAIN d.stack /\ DOMAIN st = S
  BY DEF Available, Serialized
<1>3. ASSUME NEW x \in S
      PROVE  /\ st[x].deps = d.stack[x].deps \cap S
             /\ Enabled(st[x]) <=> Enabled(d.stack[x])
             /\ \A f \in Fields \ {"deps", "enabled"} : st[x][f] = d.stack[x][f]
  <2>1. Fields \subseteq DOMAIN d.stack[x]
    BY <1>2 DEF Shape
  <2> QED BY <2>1 DEF Serialized, Enabled, Fields
<1>4. ASSUME NEW x \in S
      PROVE  /\ st[x].profile = d.stack[x].profile /\ st[x].template = d.stack[x].template
             /\ st[x].host = d.stack[x].host /\ st[x].retired = d.stack[x].retired
  <2>1. \A f \in {"profile", "template", "host", "retired"} : st[x][f] = d.stack[x][f]
    BY <1>3 DEF Fields
  <2> QED BY <2>1
<1> HIDE DEF e, st, S
<1>5. Ordered(st)
  <2>1. ASSUME NEW T \in SUBSET S, T # {} PROVE \E x \in T : st[x].deps \cap T = {}
    <3>1. PICK x \in T : d.stack[x].deps \cap T = {}
      BY <1>2, <2>1 DEF ValidStacks, Ordered
    <3> QED BY <1>3, <3>1
  <2> QED BY <1>2, <1>3, <2>1 DEF Ordered
<1>6. ASSUME NEW x \in S
      PROVE  /\ ProfileFits(e, st[x])
             /\ Binds(e, st[x]) = Binds(d, d.stack[x])
  <2>1. ProfileFits(d, d.stack[x])
    BY <1>2 DEF ValidStacks
  <2>2. st[x].profile \in DOMAIN e.profiles /\ e.profiles[st[x].profile] = d.profiles[d.stack[x].profile]
    BY <1>1, <1>4
  <2> QED BY <1>4, <2>1, <2>2 DEF ProfileFits, Binds
<1>7. \A x, y \in {z \in DOMAIN st : Enabled(st[z]) /\ ~st[z].retired} :
         x # y => Binds(e, st[x]) \cap Binds(e, st[y]) = {}
  <2> TAKE x, y \in {z \in DOMAIN st : Enabled(st[z]) /\ ~st[z].retired}
  <2>1. \A z \in {x, y} : z \in DOMAIN d.stack /\ Enabled(d.stack[z]) /\ ~d.stack[z].retired
    BY <1>2, <1>3, <1>4
  <2>2. x # y => Binds(d, d.stack[x]) \cap Binds(d, d.stack[y]) = {}
    BY <2>1 DEF ValidStacks
  <2> QED BY <1>2, <1>6, <2>2
<1>8. DOMAIN st # {}
  BY <1>2 DEF S
<1>9. \A x \in DOMAIN st : st[x].host \in Inventory(h)
  BY <1>2, <1>4 DEF ValidStacks, Inventory, Available, S
<1>10. ValidStacks(e, Inventory(h))
  BY <1>1, <1>2, <1>5, <1>6, <1>7, <1>8, <1>9 DEF ValidStacks
<1> QED BY <1>10 DEF e

\* At every time, the stacks a reconcile would give a host load there, and all of
\* validate_topology passes on a trusted host.
THEOREM SnapshotsLoad == Spec => []SnapshotLoads
<1>1. ASSUME Shape(tree), ValidTopology(tree, Hosts), NEW h \in Hosts, Available(h, tree.stack) # {}
      PROVE  IF h \in Trusted \/ Authority = NoHost
             THEN ValidTopology(Snapshot(h, tree), Inventory(h))
             ELSE ValidStacks(Snapshot(h, tree), Inventory(h))
  <2>1. ValidStacks(Snapshot(h, tree), Inventory(h))
    BY <1>1, SnapshotValid DEF ValidTopology
  <2>2. h \in Trusted \/ Authority = NoHost => AuthorityKnown(Inventory(h))
    BY <1>1 DEF ValidTopology, AuthorityKnown, Inventory
  <2> QED BY <2>1, <2>2 DEF ValidTopology
<1>2. Shape(tree) => SnapshotLoads
  BY <1>1 DEF SnapshotLoads
<1> QED BY <1>2, AlwaysValid, PTL DEF ReadInv, ShapeInv

(***************************************************************************)
(* Stale plans and retirements                                             *)
(***************************************************************************)
\* Whoever got past the comparison with the hash of the documents its topology was
\* built from sees them still, unless another command wrote since.
PlanInv ==
    \A c \in Commands :
        pc[c] \in {"copy", "replace"} /\ c \notin late /\ expected[c] = {seen[c]} => tree = seen[c]

\* A write of another command puts those on record that have compared.
LEMMA PlanStep == ASSUME ReadInv, PlanInv, [Next]_vars PROVE PlanInv'
<1>a. Asked
  BY DEF ReadInv, ShapeInv
<1>1. CASE UNCHANGED <<tree, pc, opVars, others>>
  BY <1>1 DEF PlanInv, opVars, others
<1>2. ASSUME NEW c \in Commands, Steps(c) PROVE PlanInv'
  <2>1. \A d \in Commands \ {c} : Kept(d)
    BY <1>2, StepKept DEF ReadInv
  <2>2. ASSUME NEW d \in Commands \ {c},
               pc'[d] \in {"copy", "replace"}, d \notin late', expected'[d] = {seen'[d]}
        PROVE  tree' = seen'[d]
    <3>1. pc[d] \in {"copy", "replace"} /\ expected[d] = {seen[d]} /\ seen'[d] = seen[d]
      BY <2>1, <2>2 DEF Kept
    <3>2. CASE UNCHANGED tree /\ late' \in {late, late \ {c}}
      BY <2>2, <3>1, <3>2 DEF PlanInv
    <3>3. CASE Replace(c) \/ Restore(c)
      BY <2>2, <3>1, <3>3 DEF Replace, Restore, Writes
    <3> QED BY <1>2, <3>2, <3>3, WritingSteps
  <2>3. ASSUME pc'[c] \in {"copy", "replace"}, c \notin late', expected'[c] = {seen'[c]}
        PROVE  tree' = seen'[c]
    <3>1. ~Ends(c)
      BY <1>a, <2>3, EndsKept
    <3>2. Compare(c) \/ Copy(c)
      BY <1>2, <1>a, <2>3, <3>1 DEF Steps, BeginAtCommandLine, BeginAtConsole, Load, Plan, Planned, Stop,
         Check, Replace, Validate, Restore, To, Asked
    <3>3. UNCHANGED <<tree, seen, expected>>
      BY <3>1, <3>2 DEF Compare, Copy, opVars
    <3>4. CASE Compare(c)
      <4>1. expected[c] \in {{}, {tree}}
        BY <3>1, <3>4 DEF Compare, HashMatches, NoHash
      <4> QED BY <2>3, <3>3, <4>1
    <3>5. CASE Copy(c)
      BY <2>3, <3>3, <3>5 DEF Copy, PlanInv, others
    <3> QED BY <3>2, <3>4, <3>5
  <2> QED BY <2>2, <2>3 DEF PlanInv
<1> QED BY <1>1, <1>2, OtherStep

\* Given the hash of the documents it looked at, what a command checked is still so
\* when it replaces documents, unless another wrote after the comparison.
THEOREM PlansHold == Spec => PlanStillHolds
<1>1. Init => PlanInv
  BY DEF Init, PlanInv
<1>2. ReadInv /\ PlanInv /\ [Next]_vars => PlanInv'
  BY PlanStep
<1>3. ASSUME ReadInv, PlanInv, NEW c \in Commands, Replaces(c), expected[c] = {seen[c]}, c \notin late
      PROVE  Holds(c)
  <2>1. seen[c] = tree
    BY <1>3 DEF Replaces, PlanInv
  <2>2. ~Refused(request[c], seen[c], read[c])
    BY <1>3 DEF Replaces, ReadInv, Reading
  <2> QED BY <2>1, <2>2 DEF Refused, IsShared, Holds
<1>4. ReadInv /\ PlanInv =>
        [\A c \in Commands : Replaces(c) /\ expected[c] = {seen[c]} /\ c \notin late => Holds(c)]_vars
  BY <1>3
<1> QED BY <1>1, <1>2, <1>4, AlwaysValid, PTL DEF Spec, PlanStillHolds

\* A retirement that is about to write has seen its component down; whoever
\* starts it afterwards is on record.
StoppedInv ==
    \A c \in Commands :
        pc[c] \in {"check", "compare", "copy", "replace"} /\ request[c].op = "retire"
        => request[c].on \notin running \/ c \in restarted

\* Commands stop components and forget only their own record; starts add to it.
LEMMA StoppedStep == ASSUME ReadInv, StoppedInv, [Next]_vars PROVE StoppedInv'
<1>a. Asked
  BY DEF ReadInv, ShapeInv
<1>1. ASSUME NEW x \in Slots, StartComponent(x) PROVE StoppedInv'
  <2>1. PICK S : /\ running' = running \cup S
                 /\ restarted' = restarted \cup
                      {c \in Commands : /\ pc[c] \in {"check", "compare", "copy", "replace"}
                                        /\ request[c].op = "retire" /\ request[c].on \in S}
    BY <1>1 DEF StartComponent
  <2>2. UNCHANGED <<pc, request>>
    BY <1>1 DEF StartComponent, opVars
  <2> QED BY <2>1, <2>2 DEF StoppedInv
<1>2. ASSUME NEW x \in Slots, StopComponent(x) PROVE StoppedInv'
  BY <1>2 DEF StopComponent, opVars, StoppedInv
<1>3. ASSUME NEW c \in Commands, Steps(c) PROVE StoppedInv'
  <2>1. \A d \in Commands \ {c} : Kept(d)
    BY <1>3, StepKept DEF ReadInv
  <2>2. running' \subseteq running /\ restarted \ {c} \subseteq restarted'
    BY <1>3 DEF Steps, BeginAtCommandLine, BeginAtConsole, Asks, Load, Plan, Stop, Check, Compare, Copy,
       Replace, Validate, Restore, Writes, Ends
  <2>3. ASSUME pc'[c] \in {"check", "compare", "copy", "replace"}, request'[c].op = "retire"
        PROVE  request'[c].on \notin running' \/ c \in restarted'
    <3>1. ~Ends(c)
      BY <1>a, <2>3, EndsKept
    <3>2. Load(c) \/ Plan(c) \/ Stop(c) \/ Check(c) \/ Compare(c) \/ Copy(c)
      BY <1>3, <1>a, <2>3, <3>1 DEF Steps, BeginAtCommandLine, BeginAtConsole,
         Replace, Validate, Restore, To, Asked
    <3>3. UNCHANGED <<request, restarted>>
      BY <3>1, <3>2 DEF Load, Plan, Stop, Check, Compare, Copy, opVars
    <3>4. CASE Load(c) \/ Plan(c)
      <4>1. \E p \in {"stop", "check"} : To(c, p) /\ (p = "check" => request[c].op # "retire")
        BY <3>1, <3>4 DEF Load, Plan, Planned
      <4>2. pc'[c] = "check" => request[c].op # "retire"
        BY <1>a, <4>1 DEF To, Asked
      <4>3. pc'[c] \in {"stop", "check"}
        BY <1>a, <4>1 DEF To, Asked
      <4> QED BY <2>3, <3>3, <4>2, <4>3
    <3>5. CASE Stop(c)
      <4>1. request[c].on \notin running'
        BY <3>1, <3>5 DEF Stop, MustStop
      <4> QED BY <3>3, <4>1
    <3>6. CASE Check(c) \/ Compare(c) \/ Copy(c)
      <4>1. pc[c] \in {"check", "compare", "copy"} /\ UNCHANGED running
        BY <3>6 DEF Check, Compare, Copy
      <4> QED BY <2>3, <3>3, <4>1 DEF StoppedInv
    <3> QED BY <3>2, <3>4, <3>5, <3>6
  <2> QED BY <2>1, <2>2, <2>3 DEF StoppedInv, Kept
<1>4. CASE UNCHANGED vars
  BY <1>4 DEF vars, opVars, StoppedInv
<1> QED BY <1>1, <1>2, <1>3, <1>4 DEF Next, Steps

\* A component is retired with its process gone, whether it was enabled or not,
\* unless somebody started it after the retirement had looked.
THEOREM RetirementStops == Spec => RetiredWasStopped
<1>1. Init => StoppedInv
  BY DEF Init, StoppedInv
<1>2. ReadInv /\ StoppedInv /\ [Next]_vars => StoppedInv'
  BY StoppedStep
<1>3. ASSUME StoppedInv, NEW c \in Commands, Replaces(c), request[c].op = "retire"
      PROVE  request[c].on \notin running \/ c \in restarted
  BY <1>3 DEF Replaces, StoppedInv
<1>4. StoppedInv =>
        [\A c \in Commands :
            Replaces(c) /\ request[c].op = "retire" => request[c].on \notin running \/ c \in restarted]_vars
  BY <1>3
<1> QED BY <1>1, <1>2, <1>4, AlwaysValid, PTL DEF Spec, RetiredWasStopped

=============================================================================
