---------------------------- MODULE ControlPlane ----------------------------
(***************************************************************************)
(* How desired state reaches the hosts and how a command finds the host    *)
(* that may carry it out.  llmops config reconcile renders one revision    *)
(* per host, reads what each host has selected, and copies, extracts,      *)
(* verifies and selects the revisions through a shell script on each host. *)
(* The catalog inside a selected revision names the desired-state          *)
(* authority: mutations asked for on a trusted peer are forwarded to it,   *)
(* and llmops status asks the owner of each component of the catalog.      *)
(*                                                                         *)
(* A version is an edit of the desired state; a host's revision of it is   *)
(* the snapshot rendered for that host, named by its hash, so two versions *)
(* never share a revision.  0 stands for no revision.                      *)
(***************************************************************************)
EXTENDS Naturals, Sequences, FiniteSets

CONSTANTS
    Hosts,         \* hosts of the inventory
    HostOrder,     \* sorted(authority.hosts)
    Trusted,       \* those with trusted_control
    Canonical,     \* those holding the documents of ~/.config/llm-ops
    AtomicMove,    \* those whose mv -fh replaces a link in one step
    Hidden,        \* those with peer_observable false
    MaxVersion,    \* bound: edits of the desired state
    MayName,       \* version -> what its control.authority_host may be
    Nobody,        \* ... when it is empty
    Components,
    HostIn,        \* version -> component -> its host
    Nowhere,       \* ... of a component the version does not have
    Commands,      \* invocations of llmops
    Kinds,         \* among lifecycle, reconcile and console
    MaxHops,       \* bound: forwardings of one command
    MaxFaults,     \* bound: faults of a behaviour
    Faults         \* the faults the environment may produce

Versions == 1 .. MaxVersion
AllFaults == {"unreachable",  \* ssh cannot reach the host
              "transfer",     \* scp fails with part of the archive written
              "extract",      \* tar fails with part of the revision written
              "drift",        \* somebody edits a document of a selected revision
              "give up"}      \* the command times out or is killed; its script goes on

ASSUME ControlAssumption ==
    /\ IsFiniteSet(Hosts)
    /\ Trusted \subseteq Hosts /\ Canonical \subseteq Trusted
    /\ AtomicMove \subseteq Hosts /\ Hidden \subseteq Hosts
    /\ HostOrder \in Seq(Hosts)
    /\ {HostOrder[i] : i \in 1 .. Len(HostOrder)} = Hosts
    /\ MaxVersion \in Nat \ {0} /\ MaxHops \in Nat /\ MaxFaults \in Nat
    /\ MayName \in [Versions -> (SUBSET (Trusted \cup {Nobody})) \ {{}}]
    /\ {Nobody, Nowhere} \cap Hosts = {}
    /\ HostIn \in [Versions -> [Components -> Hosts \cup {Nowhere}]]
    /\ Kinds \subseteq {"lifecycle", "reconcile", "console"}
    /\ Faults \subseteq AllFaults

VARIABLES
    desired,    \* the version the canonical documents hold
    authority,  \* version -> the authority its documents name, Nobody to come
    revision,   \* host -> version -> the state of config-revisions/<hash>
    archive,    \* host -> version -> .cache/llm-ops/config/<hash>.tar.gz
    current,    \* host -> version its current-config link selects, or 0
    kind, pc,   \* command -> what it is and where it stands
    at,         \* command -> host it runs on
    hops,       \* command -> how often it was forwarded
    version,    \* reconcile -> version it planned
    plan,       \* reconcile -> host -> action of the plan
    next,       \* reconcile -> position in HostOrder
    script,     \* reconcile -> position of its remote script
    lock,       \* host -> command holding its lifecycle lock, or {}
    faults,     \* faults so far
    unrouted,   \* history: lifecycle commands carried out where they were given,
                \* no catalog naming an authority, or none looked at
    unseen      \* history: host -> reconciles that read it before it came to
                \* select an edited revision

hostVars == <<revision, archive, current>>
callVars == <<kind, at, hops>>
planVars == <<version, plan, next>>
vars == <<desired, authority, hostVars, pc, callVars, planVars, script, lock, faults, unrouted, unseen>>

\* What a revision directory holds: nothing, files before resolved.json, the
\* manifest but not every file it names, a document that was edited, all of it.
Contents == {"absent", "begun", "declared", "edited", "full"}
Points == {"idle", "route", "lock", "working", "read", "confirm", "copy", "copying",
           "script", "done", "failed", "refused", "looping"}
ScriptPoints == {"none", "extract", "fill", "complete", "verify", "select", "swap",
                 "sync", "done", "failed"}

TypeOK ==
    /\ desired \in Versions
    /\ authority \in [Versions -> Trusted \cup {Nobody}]
    /\ revision \in [Hosts -> [Versions -> Contents]]
    /\ archive \in [Hosts -> [Versions -> {"none", "short", "whole"}]]
    /\ current \in [Hosts -> 0 .. MaxVersion]
    /\ kind \in [Commands -> Kinds]
    /\ pc \in [Commands -> Points]
    /\ at \in [Commands -> Hosts]
    /\ hops \in [Commands -> 0 .. MaxHops]
    /\ version \in [Commands -> 0 .. MaxVersion]
    /\ plan \in [Commands -> [Hosts -> {"unread", "apply", "none", "conflict", "error"}]]
    /\ next \in [Commands -> 0 .. Len(HostOrder) + 1]
    /\ script \in [Commands -> ScriptPoints]
    /\ lock \in [Hosts -> SUBSET Commands]
    /\ faults \in 0 .. MaxFaults
    /\ unrouted \subseteq Commands
    /\ unseen \in [Hosts -> SUBSET Commands]

\* write_host_snapshot gives a trusted host every component and another host its own.
InRevision(h, v) ==
    {x \in Components : HostIn[v][x] # Nowhere /\ (h \in Trusted \/ HostIn[v][x] = h)}

Init ==
    /\ desired = 1
    /\ \E a \in MayName[1] : authority = [v \in Versions |-> IF v = 1 THEN a ELSE Nobody]
    /\ \E h0 \in SUBSET (Hosts \ Trusted) :   \* hosts never reconciled
         /\ {h \in Hosts : InRevision(h, 1) = {}} \subseteq h0
         /\ current = [h \in Hosts |-> IF h \in h0 THEN 0 ELSE 1]
         /\ revision = [h \in Hosts |-> [v \in Versions |->
                          IF v = 1 /\ h \notin h0 THEN "full" ELSE "absent"]]
    /\ archive = [h \in Hosts |-> [v \in Versions |-> "none"]]
    /\ kind \in [Commands -> Kinds]
    /\ pc = [c \in Commands |-> "idle"]
    /\ at \in [Commands -> Hosts]
    /\ hops = [c \in Commands |-> 0]
    /\ version = [c \in Commands |-> 0]
    /\ plan = [c \in Commands |-> [h \in Hosts |-> "unread"]]
    /\ next = [c \in Commands |-> 0]
    /\ script = [c \in Commands |-> "none"]
    /\ lock = [h \in Hosts |-> {}]
    /\ faults = 0
    /\ unrouted = {}
    /\ unseen = [h \in Hosts |-> {}]

Fault(f) == f \in Faults /\ faults < MaxFaults /\ faults' = faults + 1

(***************************************************************************)
(* What a host reads of its own selected revision                          *)
(***************************************************************************)
Selected(h) == IF current[h] = 0 THEN "absent" ELSE revision[h][current[h]]

\* catalog.json is the first file of a revision, resolved.json names the host.
HasCatalog(h) == Selected(h) # "absent"
KnowsItself(h) == Selected(h) \notin {"absent", "begun"}

\* The stack documents come last.
Listed(h) == IF Selected(h) \in {"edited", "full"} THEN InRevision(h, current[h]) ELSE {}

(***************************************************************************)
(* Finding the host that carries a command out                             *)
(***************************************************************************)
To(c, p) == pc' = [pc EXCEPT ![c] = p]
Start(c) == IF kind[c] = "lifecycle" THEN "lock" ELSE IF kind[c] = "reconcile" THEN "read" ELSE "working"

Submit(c) ==
    /\ pc[c] = "idle"
    /\ To(c, "route")
    /\ UNCHANGED <<desired, authority, hostVars, callVars, planVars, script, lock, faults, unrouted, unseen>>

\* --config-home or --inventory on the command line: the command is carried out
\* here, whatever the catalog says.  A reconcile reads the canonical documents.
Documents(h) == h \in Canonical \/ \E v \in Versions : revision[h][v] \in {"edited", "full"}
Override(c) ==
    /\ pc[c] = "idle"
    /\ \/ kind[c] = "lifecycle" /\ Documents(at[c])
       \/ kind[c] = "reconcile" /\ at[c] \in Canonical
    /\ To(c, Start(c))
    /\ unrouted' = IF kind[c] = "lifecycle" THEN unrouted \cup {c} ELSE unrouted
    /\ UNCHANGED <<desired, authority, hostVars, callVars, planVars, script, lock, faults, unseen>>

TrustIsEnough(h, v) == h \in Trusted   \* mutant of IsLocal

\* _is_local_status_host, the execution user being the service user.
IsLocal(h, v) == authority[v] = h

\* The catalog of the host names an authority.
NamesOne(h) == KnowsItself(h) /\ authority[current[h]] # Nobody

\* The console looks for the authority before it looks for trust.
RunsHere(h, k) ==
    \/ ~KnowsItself(h) /\ (k = "console" \/ (~HasCatalog(h) /\ h \in Canonical))
    \/ KnowsItself(h) /\ ~NamesOne(h) /\ (k = "console" \/ h \in Trusted)
    \/ NamesOne(h) /\ h \in Trusted /\ IsLocal(h, current[h])

Refused(h, k) ==
    \/ ~KnowsItself(h) /\ k # "console" /\ (HasCatalog(h) \/ h \notin Canonical)
    \/ KnowsItself(h) /\ h \notin Trusted /\ (k # "console" \/ NamesOne(h))

\* _route_authority_operation, and tui_authority_command for the console.
Route(c) ==
    LET h == at[c] IN
    /\ pc[c] = "route"
    /\ \/ RunsHere(h, kind[c]) /\ To(c, Start(c)) /\ UNCHANGED <<at, hops, faults>>
       \/ Refused(h, kind[c]) /\ To(c, "refused") /\ UNCHANGED <<at, hops, faults>>
       \/ /\ ~RunsHere(h, kind[c]) /\ ~Refused(h, kind[c])
          /\ \/ /\ hops[c] < MaxHops /\ ~(kind[c] = "console" /\ hops[c] > 0)
                /\ at' = [at EXCEPT ![c] = authority[current[h]]]
                /\ hops' = [hops EXCEPT ![c] = @ + 1]
                /\ UNCHANGED <<pc, faults>>
             \/ kind[c] = "console" /\ hops[c] > 0 /\ To(c, "refused") /\ UNCHANGED <<at, hops, faults>>
             \/ kind[c] # "console" /\ hops[c] = MaxHops /\ To(c, "looping") /\ UNCHANGED <<at, hops, faults>>
             \/ Fault("unreachable") /\ To(c, "failed") /\ UNCHANGED <<at, hops>>
    /\ unrouted' = IF kind[c] = "lifecycle" /\ ~NamesOne(h) /\ pc'[c] = "lock" THEN unrouted \cup {c} ELSE unrouted
    /\ UNCHANGED <<desired, authority, hostVars, kind, planVars, script, lock, unseen>>

\* llmops host run: a trusted peer hands a lifecycle command to any host of its
\* catalog, whose own catalog then says where it belongs.
Relay(c) ==
    LET h == at[c] IN
    /\ pc[c] = "idle" /\ kind[c] = "lifecycle"
    /\ KnowsItself(h) /\ h \in Trusted
    /\ \E g \in Hosts \ {h} : at' = [at EXCEPT ![c] = g]
    /\ To(c, "route")
    /\ UNCHANGED <<desired, authority, hostVars, kind, hops, planVars, script, lock, faults, unrouted, unseen>>

\* The lifecycle lock of the host; what happens under it is StackExecutor's.
Lock(c) ==
    /\ pc[c] = "lock"
    /\ \/ lock[at[c]] = {} /\ lock' = [lock EXCEPT ![at[c]] = {c}] /\ To(c, "working")
       \/ lock[at[c]] # {} /\ To(c, "refused") /\ UNCHANGED lock
    /\ UNCHANGED <<desired, authority, hostVars, callVars, planVars, script, faults, unrouted, unseen>>

Finish(c) ==
    /\ pc[c] = "working"
    /\ lock' = [lock EXCEPT ![at[c]] = @ \ {c}]
    /\ To(c, "done")
    /\ UNCHANGED <<desired, authority, hostVars, callVars, planVars, script, faults, unrouted, unseen>>

\* An operator changes the canonical documents (ConfigTransaction).
Edit ==
    /\ desired < MaxVersion
    /\ desired' = desired + 1
    /\ \E a \in MayName[desired + 1] : authority' = [authority EXCEPT ![desired + 1] = a]
    /\ UNCHANGED <<hostVars, pc, callVars, planVars, script, lock, faults, unrouted, unseen>>

(***************************************************************************)
(* reconcile_plan                                                          *)
(***************************************************************************)
Goal(c) == IF version[c] = 0 THEN desired ELSE version[c]
Host(c) == HostOrder[next[c]]

\* Mutant of Compared: valid is not looked at.
ConflictIgnored(h, v) == IF current[h] = v /\ Selected(h) = "full" THEN "none" ELSE "apply"

\* cmd_config_hash of the host: the declared hash and whether every file matches.
Compared(h, v) ==
    IF current[h] = 0 THEN "apply"                                   \* uninitialized
    ELSE IF Selected(h) = "begun" THEN "apply"                       \* hash of what is there
    ELSE IF Selected(h) \in {"declared", "edited"} THEN "conflict"
    ELSE IF current[h] = v THEN "none" ELSE "apply"

\* write_host_snapshot refuses a component host the version gives nothing to do.
CanRender(h, v) == InRevision(h, v) # {}

ReadHost(c) ==
    LET i == IF next[c] = 0 THEN 1 ELSE next[c]
        h == HostOrder[i]
    IN
    /\ pc[c] = "read"
    /\ version' = [version EXCEPT ![c] = Goal(c)]
    /\ \/ /\ ~CanRender(h, Goal(c))
          /\ To(c, "failed") /\ UNCHANGED <<plan, next, faults>>
       \/ /\ CanRender(h, Goal(c))
          /\ \/ plan' = [plan EXCEPT ![c][h] = Compared(h, Goal(c))] /\ UNCHANGED faults
             \/ Fault("unreachable") /\ plan' = [plan EXCEPT ![c][h] = "error"]
          /\ IF i < Len(HostOrder) THEN next' = [next EXCEPT ![c] = i + 1] /\ UNCHANGED pc
             ELSE /\ next' = [next EXCEPT ![c] = 1]
                  /\ IF \E g \in Hosts : plan'[c][g] \in {"conflict", "error"}
                     THEN To(c, "failed") ELSE To(c, "confirm")
    /\ UNCHANGED <<desired, authority, hostVars, callVars, script, lock, unrouted, unseen>>

Confirm(c) ==
    /\ pc[c] = "confirm"
    /\ To(c, "copy")
    /\ UNCHANGED <<desired, authority, hostVars, callVars, planVars, script, lock, faults, unrouted, unseen>>

(***************************************************************************)
(* apply_snapshot, for the hosts of the plan one after the other           *)
(***************************************************************************)
Arrived(c, w) == archive' = [archive EXCEPT ![Host(c)][version[c]] = w]

BeginCopy(c) ==
    /\ pc[c] = "copy"
    /\ \/ /\ next[c] > Len(HostOrder)
          /\ To(c, "done") /\ UNCHANGED <<archive, next, faults>>
       \/ /\ next[c] <= Len(HostOrder) /\ plan[c][Host(c)] # "apply"
          /\ next' = [next EXCEPT ![c] = @ + 1] /\ UNCHANGED <<archive, pc, faults>>
       \/ /\ next[c] <= Len(HostOrder) /\ plan[c][Host(c)] = "apply"
          /\ \/ Arrived(c, "short") /\ To(c, "copying") /\ UNCHANGED faults
             \/ Fault("unreachable") /\ To(c, "failed") /\ UNCHANGED archive
          /\ UNCHANGED next
    /\ UNCHANGED <<desired, authority, revision, current, callVars, version, plan, script, lock, unrouted, unseen>>

EndCopy(c) ==
    /\ pc[c] = "copying"
    /\ \/ Arrived(c, "whole") /\ To(c, "script") /\ script' = [script EXCEPT ![c] = "extract"]
          /\ UNCHANGED faults
       \/ Fault("transfer") /\ To(c, "failed") /\ UNCHANGED <<archive, script>>
    /\ UNCHANGED <<desired, authority, revision, current, callVars, planVars, lock, unrouted, unseen>>

(***************************************************************************)
(* The script on the host, under set -eu                                   *)
(***************************************************************************)
Goes(c, p) == script' = [script EXCEPT ![c] = p]
Holds(c)   == revision[Host(c)][version[c]]
Fills(c, w) == revision' = [revision EXCEPT ![Host(c)][version[c]] = w]
Readers(h) == {c \in Commands : plan[c][h] # "unread"}
Points_to(c, v) ==
    /\ current' = [current EXCEPT ![Host(c)] = v]
    /\ unseen' = IF v # 0 /\ revision[Host(c)][v] = "edited"
                 THEN [unseen EXCEPT ![Host(c)] = @ \cup Readers(Host(c))] ELSE unseen
scriptRest == <<desired, authority, archive, pc, callVars, planVars, lock, unrouted>>

\* if test ! -e "$revision"
Extract(c) ==
    /\ script[c] = "extract"
    /\ \/ Holds(c) = "absent" /\ Fills(c, "begun") /\ Goes(c, "fill")
       \/ Holds(c) # "absent" /\ Goes(c, "verify") /\ UNCHANGED revision
    /\ UNCHANGED <<scriptRest, current, faults, unseen>>

\* tar writes the files in the order of their names.
Untar(c) ==
    /\ \/ script[c] = "fill" /\ Fills(c, "declared") /\ Goes(c, "complete") /\ UNCHANGED faults
       \/ script[c] = "complete" /\ archive[Host(c)][version[c]] = "whole"
          /\ Fills(c, "full") /\ Goes(c, "verify") /\ UNCHANGED faults
       \/ script[c] \in {"fill", "complete"} /\ Fault("extract") /\ Goes(c, "failed") /\ UNCHANGED revision
       \/ script[c] = "complete" /\ archive[Host(c)][version[c]] # "whole"
          /\ Goes(c, "failed") /\ UNCHANGED <<revision, faults>>
    /\ UNCHANGED <<scriptRest, current, unseen>>

Unverified(c) == TRUE   \* mutant of DeclaredMatches

\* test "$observed" = <hash>: the hash resolved.json declares, whatever the files hold.
DeclaredMatches(c) == Holds(c) \in {"declared", "edited", "full"}

Verify(c) ==
    /\ script[c] = "verify"
    /\ Goes(c, IF DeclaredMatches(c) THEN "select" ELSE "failed")
    /\ UNCHANGED <<scriptRest, revision, current, faults, unseen>>

\* mv -fh, or rm -f and mv -f where mv has no -h.
Select(c) ==
    /\ script[c] = "select"
    /\ \/ Host(c) \in AtomicMove /\ Points_to(c, version[c]) /\ Goes(c, "sync")
       \/ Host(c) \notin AtomicMove /\ Points_to(c, 0) /\ Goes(c, "swap")
    /\ UNCHANGED <<scriptRest, revision, faults>>

\* mv -f moves the link into the revision another script selected meanwhile.
Swap(c) ==
    /\ script[c] = "swap"
    /\ IF current[Host(c)] = 0 THEN Points_to(c, version[c]) ELSE UNCHANGED <<current, unseen>>
    /\ Goes(c, "sync")
    /\ UNCHANGED <<scriptRest, revision, faults>>

Sync(c) ==
    /\ script[c] = "sync"
    /\ Goes(c, "done")
    /\ UNCHANGED <<scriptRest, revision, current, faults, unseen>>

\* The command sees the script's exit status and goes on to the next host.
Applied(c) ==
    /\ pc[c] = "script" /\ script[c] \in {"done", "failed"}
    /\ \/ /\ script[c] = "done"
          /\ next' = [next EXCEPT ![c] = @ + 1] /\ To(c, "copy") /\ Goes(c, "none")
       \/ script[c] = "failed" /\ To(c, "failed") /\ UNCHANGED <<next, script>>
    /\ UNCHANGED <<desired, authority, hostVars, callVars, version, plan, lock, faults, unrouted, unseen>>

\* subprocess.TimeoutExpired, or the operator's interrupt; the shell goes on.
GiveUp(c) ==
    /\ pc[c] \in {"read", "copying", "script"}
    /\ Fault("give up")
    /\ To(c, "failed")
    /\ UNCHANGED <<desired, authority, hostVars, callVars, planVars, script, lock, unrouted, unseen>>

Drift(h) ==
    /\ Selected(h) = "full"
    /\ Fault("drift")
    /\ revision' = [revision EXCEPT ![h][current[h]] = "edited"]
    /\ unseen' = [unseen EXCEPT ![h] = @ \cup Readers(h)]
    /\ UNCHANGED <<desired, authority, archive, current, pc, callVars, planVars, script, lock, unrouted>>

RunScript(c) == Extract(c) \/ Untar(c) \/ Verify(c) \/ Select(c) \/ Swap(c) \/ Sync(c)
Reconcile(c) == ReadHost(c) \/ Confirm(c) \/ BeginCopy(c) \/ EndCopy(c) \/ Applied(c) \/ GiveUp(c)
Command(c) == Submit(c) \/ Override(c) \/ Relay(c) \/ Route(c) \/ Lock(c) \/ Finish(c) \/ Reconcile(c) \/ RunScript(c)

(***************************************************************************)
(* llmops status: what an observer shows of a component of its catalog     *)
(***************************************************************************)
\* What an inspection finds: it runs and answers, it runs and does not, it was
\* stopped on purpose, it should run and does not, or nothing could be learnt.
Observations == {"healthy", "degraded", "stopped", "crashed", "silent"}

Condition(ob) ==
    CASE ob = "healthy"  -> "ok"
      [] ob = "degraded" -> "attention"
      [] ob = "stopped"  -> "down"
      [] OTHER           -> "error"

\* Without a selected revision a host falls back to ~/.config/llm-ops.
Answers(h) == current[h] # 0 \/ h \in Canonical
Shows(h) == IF current[h] = 0 THEN InRevision(h, desired) ELSE Listed(h)

\* _inspect_status of the rows the owner lists; an error makes a row as well.
Inspected(h, x, ob) == IF x \in Shows(h) THEN {Condition(ob)} ELSE {}
NotShown == {}   \* mutant of NoAnswer
NoAnswer == {"error"}

Rows(o, x, reached, ob) ==
    LET h == HostIn[current[o]][x] IN
    IF h = o THEN Inspected(h, x, ob)
    ELSE IF h \in Hidden THEN {"unobserved"}
    ELSE IF reached /\ Answers(h) THEN Inspected(h, x, ob)
    ELSE NoAnswer

Next == Edit \/ (\E c \in Commands : Command(c)) \/ (\E h \in Hosts : Drift(h))
Spec == Init /\ [][Next]_vars

(***************************************************************************)
(* What the control plane guarantees                                       *)
(***************************************************************************)

\* A host never selects a revision whose manifest was not extracted, whatever
\* was interrupted, repeated or overlapped: a selected revision knows its host
\* and the hash it stands for, so that the next reconcile compares what it should.
SelectedIsDeclared == \A h \in Hosts : current[h] # 0 => KnowsItself(h)

\* A document somebody edited in a selected revision is not replaced by a
\* reconcile that could have seen it: only one that had read the host before
\* the edit, or before another reconcile selected the edited revision again,
\* still selects another revision over it.
SelectsOver(h) ==
    \E c \in unseen[h] : script[c] = "select" /\ Host(c) = h
ConflictIsKept ==
    [][\A h \in Hosts :
          Selected(h) = "edited" /\ current'[h] # current[h] => SelectsOver(h)]_vars

\* Two lifecycle commands at work at once on two hosts, under two locks, need a
\* change of authority, or a command carried out where it was given: because no
\* catalog named an authority for it, the link was just being moved on a host
\* holding canonical documents, or its command line named the configuration.
\* Everything else, forwarded or relayed from hosts that hold different
\* versions, has come to the one lock of the authority.
HandedOver ==
    \E v, w \in 1 .. desired : authority[v] # authority[w] /\ Nobody \notin {authority[v], authority[w]}
AtOnce(c, d) ==
    /\ {kind[c], kind[d]} = {"lifecycle"}
    /\ {pc[c], pc[d]} = {"working"}
    /\ at[c] # at[d]
MutationsShareLock ==
    \A c, d \in Commands : AtOnce(c, d) => HandedOver \/ {c, d} \cap unrouted # {}

\* What the two locks cannot give: one lifecycle mutation at a time, as long as
\* the documents name one authority.  A command line that names the
\* configuration, and a host between two selections, break it.
MutationsNeverOverlap ==
    (\A v \in 1 .. desired : authority[v] # Nobody) /\ ~HandedOver => \A c, d \in Commands : ~AtOnce(c, d)

\* A failure is not hidden from a trusted observer: a component of its catalog
\* that does not run although it should, or whose host does not answer, is
\* shown as an error, unless the host hides it or the two hosts do not hold the
\* same complete version.
Failing(ob) == ob \in {"crashed", "silent"}
InStep(g, h) == current[g] = current[h] /\ {Selected(g), Selected(h)} \subseteq {"full", "edited"}
StatusHidesNoFailure ==
    \A o \in {h \in Trusted : KnowsItself(h)} : \A x \in InRevision(o, current[o]) :
        LET h == HostIn[current[o]][x] IN
        \A reached \in BOOLEAN : \A ob \in Observations :
            /\ (Failing(ob) /\ InStep(o, h)) \/ (~reached /\ h # o)
            /\ h \notin Hidden \/ h = o
            => "error" \in Rows(o, x, reached, ob)

\* Stated by apply_snapshot ("Copy, verify, and atomically select one
\* configuration revision"): a host that nobody edits selects complete revisions.
SelectedIsComplete == \A h \in Hosts : current[h] # 0 => Selected(h) \in {"full", "edited"}

=============================================================================
