---------------------------- MODULE DesiredState ----------------------------
(***************************************************************************)
(* What the operations of llmops_config_ops.py do to the desired state:    *)
(* the stack documents, which list components, and the reusable profiles   *)
(* they name.  A command reads the documents into a topology, lets the     *)
(* operator confirm a plan, reads them again to compute new ones, compares *)
(* hashes, copies and replaces the documents it changes, validates, and    *)
(* restores the copies when the result is not valid.  Commands overlap at  *)
(* every one of these points; an expected hash is all that keeps them      *)
(* apart.  What happens from file to file, failures and kills included, is *)
(* ConfigTransaction.  llmops starts and stops components meanwhile        *)
(* (StackExecutor).                                                        *)
(*                                                                         *)
(* One stack is modelled.  Of a profile the model keeps the contract it    *)
(* fulfils (its template) and the port it binds; of a component, the       *)
(* fields validation and lifecycle commands look at.                       *)
(***************************************************************************)
EXTENDS Naturals, FiniteSets

CONSTANTS
    Slots,       \* component ids the stack may hold
    Hosts,       \* hosts of the inventory
    Trusted,     \* those with trusted_control
    Profiles,    \* profile names
    Templates,   \* service templates
    Providers,   \* templates that provide the endpoint
    Consumers,   \* templates that declare it as required
    Ports,
    NoPort,      \* the port of a profile that binds none
    NoOne,       \* the provider of a component without a connection
    Authority,   \* control.authority_host of config.json, which no operation changes
    NoHost,      \* its value when it names no host
    FirstTree,   \* the documents at the start
    Requests,    \* what operators ask for
    Commands,    \* llmops processes
    Consoles,    \* those that are text user interfaces
    MaxCommands  \* bound: commands of a behaviour

VARIABLES
    tree,        \* the documents: [stack, profiles]
    running,     \* components with a process
    pc, request,
    seen,        \* command -> the documents its topology was built from
    expected,    \* command -> the set of the documents whose hash it was given
    read,        \* command -> the documents its operation computes new ones from
    saved,       \* command -> its copies of the documents
    begun,       \* commands so far
    restarted,   \* history: retirements whose component was started after they looked
    crossed,     \* history: commands under way since whose reading another wrote documents,
                 \* or whose copies have the names of another's
    late,        \* history: those another wrote since they compared hashes
    lost         \* history: a crossed command wrote

opVars == <<request, seen, expected, read, saved>>
others == <<crossed, late, lost>>
vars == <<tree, running, pc, opVars, begun, restarted, others>>

NoHash == {}
NoRequest == [op |-> "none"]

\* enabled may be left out of a document, and then means true.
Component == [template : Templates, host : Hosts, profile : Profiles,
              enabled : {"true", "false", "omitted"}, retired : BOOLEAN,
              deps : SUBSET Slots, uses : Slots \cup {NoOne}]
Profile == [template : Templates, port : Ports \cup {NoPort}]
IsTree(d) ==
    /\ DOMAIN d = {"stack", "profiles"}
    /\ DOMAIN d.stack \subseteq Slots /\ d.stack \in [DOMAIN d.stack -> Component]
    /\ DOMAIN d.profiles \subseteq Profiles /\ d.profiles \in [DOMAIN d.profiles -> Profile]

\* What an operator can ask for.
Operations == {"configure", "add", "provision", "clone", "retire", "restore",
               "create profile", "edit profile", "clone profile"}

ASSUME DesiredAssumption ==
    /\ Trusted \subseteq Hosts
    /\ Providers \subseteq Templates /\ Consumers \subseteq Templates
    /\ NoPort \notin Ports /\ NoOne \notin Slots
    /\ NoHost \notin Hosts /\ Authority \in Hosts \cup {NoHost}
    /\ IsTree(FirstTree)
    /\ \A r \in Requests : r.op \in Operations
    /\ Consoles \subseteq Commands
    /\ MaxCommands \in Nat

(***************************************************************************)
(* validate_topology and validate_connections                              *)
(***************************************************************************)
Enabled(c) == c.enabled # "false"

\* topological_order: every set of components has one that waits for none of them.
Ordered(st) ==
    /\ \A x \in DOMAIN st : st[x].deps \subseteq DOMAIN st
    /\ \A S \in SUBSET DOMAIN st : S # {} => \E x \in S : st[x].deps \cap S = {}

ProfileFits(d, c) ==
    c.profile \in DOMAIN d.profiles /\ d.profiles[c.profile].template = c.template

Binds(d, c) == {<<c.host, d.profiles[c.profile].port>>} \ {<<c.host, NoPort>>}

\* inventory is the set of hosts listed beside the documents.
AuthorityKnown(inventory) == Authority # NoHost => Authority \in inventory \cap Trusted

ValidStacks(d, inventory) ==
    LET st == d.stack
        bound == {x \in DOMAIN st : Enabled(st[x]) /\ ~st[x].retired}
    IN  /\ DOMAIN st # {}
        /\ \A x \in DOMAIN st : st[x].host \in inventory
        /\ Ordered(st)
        /\ \A x \in DOMAIN st : ProfileFits(d, st[x])
        /\ \A x, y \in bound : x # y => Binds(d, st[x]) \cap Binds(d, st[y]) = {}

ValidTopology(d, inventory) == AuthorityKnown(inventory) /\ ValidStacks(d, inventory)

ValidConnections(d) ==
    LET st == d.stack IN
    \A x \in DOMAIN st : LET y == st[x].uses IN
        y # NoOne =>
            /\ st[x].template \in Consumers
            /\ y \in DOMAIN st /\ st[y].template \in Providers
            /\ y \in st[x].deps

Valid(d) == ValidTopology(d, Hosts) /\ ValidConnections(d)

\* The installation starts with documents that load.
ASSUME FirstTreeLoads == Valid(FirstTree)

(***************************************************************************)
(* The documents an operation computes.  s is what the command's topology  *)
(* was built from, d the documents as the operation reads them again.      *)
(***************************************************************************)
Put(f, k, v) == [i \in DOMAIN f \cup {k} |-> IF i = k THEN v ELSE f[i]]
WithComponent(d, x, c) == [d EXCEPT !.stack = Put(d.stack, x, c)]
WithProfile(d, p, v)   == [d EXCEPT !.profiles = Put(d.profiles, p, v)]

\* A connection's component is appended to depends_on, and stays there when the
\* connection goes.
Wired(c) == IF c.uses = NoOne THEN c ELSE [c EXCEPT !.deps = @ \cup {c.uses}]

\* The form shows a field without a value as an unchecked box, and saves every
\* box that differs from the value.
Shown(c) == IF c.enabled = "true" THEN "true" ELSE "false"
Boxes(r, c) ==
    IF r.form /\ c.enabled = "omitted" THEN [c EXCEPT !.enabled = Shown(c)] ELSE c

\* What mutate_documents makes of the component and its profile.
MutatedComponent(r, c) ==
    Wired(IF r.field = "port" THEN Boxes(r, c) ELSE [Boxes(r, c) EXCEPT ![r.field] = r.value])
MutatedProfile(r, v) == IF r.field = "port" THEN [v EXCEPT !.port = r.value] ELSE v

\* Both are written, to the profile the command's topology names.
Configure(r, s, d) ==
    LET p == s.stack[r.on].profile IN
    WithProfile(WithComponent(d, r.on, MutatedComponent(r, d.stack[r.on])), p, MutatedProfile(r, d.profiles[p]))

New(r) == Wired([template |-> r.template, host |-> r.host, profile |-> r.profile, enabled |-> "false",
                 retired |-> FALSE, deps |-> r.deps, uses |-> r.uses])

Add(r, d) == WithComponent(d, r.on, New(r))

Provision(r, d) ==
    WithProfile(Add(r, d), r.profile, [template |-> r.template, port |-> r.port])

CloneComponent(r, s, d) ==
    LET c == [d.stack[r.on] EXCEPT !.enabled = "false", !.retired = FALSE] IN
    IF r.share THEN WithComponent(d, r.to, c)
    ELSE WithProfile(WithComponent(d, r.to, [c EXCEPT !.profile = r.profile]),
                     r.profile, d.profiles[s.stack[r.on].profile])

Retire(r, d) ==
    WithComponent(d, r.on, [d.stack[r.on] EXCEPT !.retired = (r.op = "retire"), !.enabled = "false"])

CreateProfile(r, d) == WithProfile(d, r.profile, [template |-> r.template, port |-> r.port])
EditProfile(r, d)   == WithProfile(d, r.profile, [d.profiles[r.profile] EXCEPT !.port = r.port])
CloneProfile(r, d)  == WithProfile(d, r.profile, d.profiles[r.from])

NewDocuments(r, s, d) ==
    CASE r.op = "configure"      -> Configure(r, s, d)
      [] r.op = "add"            -> Add(r, d)
      [] r.op = "provision"      -> Provision(r, d)
      [] r.op = "clone"          -> CloneComponent(r, s, d)
      [] r.op \in {"retire", "restore"} -> Retire(r, d)
      [] r.op = "create profile" -> CreateProfile(r, d)
      [] r.op = "edit profile"   -> EditProfile(r, d)
      [] r.op = "clone profile"  -> CloneProfile(r, d)

\* The documents of d, but those the operation writes as they are in e.
StackWritten(r) == r.op \notin {"create profile", "edit profile", "clone profile"}
ProfilesWritten(r, s) ==
    CASE r.op = "configure" -> {s.stack[r.on].profile}
      [] r.op \in {"add", "retire", "restore"} -> {}
      [] r.op = "clone" -> IF r.share THEN {} ELSE {r.profile}
      [] OTHER -> {r.profile}

Replaced(r, s, d, e) ==
    LET P == ProfilesWritten(r, s) IN
    [stack |-> IF StackWritten(r) THEN e.stack ELSE d.stack,
     profiles |-> [p \in (DOMAIN d.profiles \ P) \cup (DOMAIN e.profiles \cap P) |->
                      IF p \in P THEN e.profiles[p] ELSE d.profiles[p]]]

(***************************************************************************)
(* What an operation refuses                                               *)
(***************************************************************************)
ActiveDependents(x, st) == {y \in DOMAIN st : x \in st[y].deps /\ ~st[y].retired}
Users(p, st) == {x \in DOMAIN st : st[x].profile = p}
Knows(s, x) == x \in DOMAIN s.stack

\* Mutant: a profile that exists is written over.
CreatesAnyName(r, d) == FALSE

NameTaken(r, d) ==
    \/ r.op \in {"create profile", "clone profile", "provision"} /\ r.profile \in DOMAIN d.profiles
    \/ r.op = "clone" /\ ~r.share /\ r.profile \in DOMAIN d.profiles

\* Only what is set can be unset.
NothingToUnset(r, d) ==
    r.op = "configure" /\ r.field = "enabled" /\ r.value = "omitted" /\ d.stack[r.on].enabled = "omitted"

IdTaken(r, d) ==
    \/ r.op \in {"add", "provision"} /\ r.on \in DOMAIN d.stack
    \/ r.op = "clone" /\ r.to \in DOMAIN d.stack

\* What the topology knows is looked up in the documents again.
SourceGone(r, s, d) ==
    /\ r.op \in {"configure", "clone", "retire", "restore"}
    /\ \/ r.on \notin DOMAIN d.stack
       \/ /\ r.op = "configure" \/ (r.op = "clone" /\ ~r.share)
          /\ s.stack[r.on].profile \notin DOMAIN d.profiles

NoProfile(r, d) ==
    \/ r.op = "edit profile" /\ r.profile \notin DOMAIN d.profiles
    \/ r.op = "clone profile" /\ r.from \notin DOMAIN d.profiles
    \/ r.op = "add" /\ ~ProfileFits(d, New(r))

\* Only with --confirm-shared.
IsShared(r, s) == r.op = "edit profile" /\ ~r.shared /\ Cardinality(Users(r.profile, s.stack)) > 1

Refused(r, s, d) ==
    \/ r.op \in {"configure", "clone", "retire", "restore"} /\ ~Knows(s, r.on)
    \/ SourceGone(r, s, d)
    \/ NameTaken(r, d) \/ IdTaken(r, d) \/ NoProfile(r, d)
    \/ NothingToUnset(r, d)
    \/ IsShared(r, s)
    \/ r.op = "retire" /\ ActiveDependents(r.on, s.stack) # {}

\* create_profile and clone_profile pass validate=lambda: None.
Unvalidated(r) == r.op \in {"create profile", "clone profile"}

(***************************************************************************)
(* Commands                                                                *)
(***************************************************************************)
TypeOK ==
    /\ IsTree(tree)
    /\ running \subseteq Slots
    /\ pc \in [Commands -> {"idle", "load", "plan", "stop", "check", "compare", "copy", "replace", "validate", "restore"}]
    /\ request \in [Commands -> Requests \cup {NoRequest}]
    /\ \A c \in Commands : /\ IsTree(seen[c]) /\ IsTree(read[c]) /\ IsTree(saved[c])
                           /\ \A d \in expected[c] : IsTree(d)
    /\ begun \in 0 .. MaxCommands
    /\ restarted \subseteq Commands
    /\ crossed \subseteq Commands /\ late \subseteq Commands
    /\ lost \in BOOLEAN

Init ==
    /\ tree = FirstTree
    /\ running = {}
    /\ pc = [c \in Commands |-> "idle"]
    /\ request = [c \in Commands |-> NoRequest]
    /\ seen = [c \in Commands |-> FirstTree]
    /\ expected = [c \in Commands |-> NoHash]
    /\ read = seen /\ saved = seen
    /\ begun = 0
    /\ restarted = {} /\ crossed = {} /\ late = {}
    /\ lost = FALSE

To(c, p) == pc' = [pc EXCEPT ![c] = p]
Sees(c) == seen' = [seen EXCEPT ![c] = tree]
Expects(c) == expected' = [expected EXCEPT ![c] = {tree}]

Ends(c) ==
    /\ To(c, "idle")
    /\ request' = [request EXCEPT ![c] = NoRequest]
    /\ seen' = [seen EXCEPT ![c] = FirstTree]
    /\ expected' = [expected EXCEPT ![c] = NoHash]
    /\ read' = [read EXCEPT ![c] = FirstTree]
    /\ saved' = [saved EXCEPT ![c] = FirstTree]
    /\ restarted' = restarted \ {c}

Asks(c, r) ==
    /\ pc[c] = "idle" /\ begun < MaxCommands
    /\ begun' = begun + 1
    /\ request' = [request EXCEPT ![c] = r]
    /\ UNCHANGED <<tree, running, read, saved, restarted, others>>

\* --expected-hash, if given, comes from an earlier plan.
BeginAtCommandLine(c) ==
    /\ c \notin Consoles
    /\ \E r \in Requests : (r.op = "configure" => ~r.form) /\ Asks(c, r)
    /\ (Expects(c) \/ UNCHANGED expected) /\ To(c, "load") /\ UNCHANGED seen

\* What the configuration form lets the operator choose.
FormOffers(d, r) ==
    /\ r.form
    /\ Knows(d, r.on)
    /\ CASE r.field = "profile" -> ProfileFits(d, [d.stack[r.on] EXCEPT !.profile = r.value])
         [] r.field = "uses"    -> d.stack[r.on].uses # NoOne /\ Knows(d, r.value)
         [] OTHER               -> TRUE

\* The wizard gives every endpoint the template requires a provider, and no other.
WizardOffers(d, r) ==
    IF r.template \in Consumers THEN Knows(d, r.uses) /\ d.stack[r.uses].template \in Providers
    ELSE r.uses = NoOne

\* The console shows a topology its last refresh loaded.
BeginAtConsole(c) ==
    /\ c \in Consoles
    /\ \E r \in Requests :
         /\ CASE r.op = "configure" -> FormOffers(tree, r)
              [] r.op \in {"add", "provision"} -> WizardOffers(tree, r)
              [] OTHER -> r.op \in {"clone", "retire", "restore"}
         /\ Asks(c, r)
    /\ Sees(c) /\ To(c, "plan") /\ UNCHANGED expected

Planned(c, s) ==
    IF Refused(request[c], s, tree) THEN "idle"
    ELSE IF request[c].op = "retire" THEN "stop" ELSE "check"

\* desired_topology of the command that applies.
Load(c) ==
    /\ pc[c] = "load"
    /\ IF Planned(c, tree) = "idle" THEN Ends(c)
       ELSE Sees(c) /\ To(c, Planned(c, tree)) /\ UNCHANGED <<request, expected, read, saved, restarted>>
    /\ UNCHANGED <<tree, running, begun, others>>

\* The console's plan carries the hash of the documents as they are now.
Plan(c) ==
    /\ pc[c] = "plan"
    /\ IF Planned(c, seen[c]) = "idle" THEN Ends(c)
       ELSE Expects(c) /\ To(c, Planned(c, seen[c])) /\ UNCHANGED <<request, seen, read, saved, restarted>>
    /\ UNCHANGED <<tree, running, begun, others>>

RunningDependents(x, st) ==
    {y \in running \ {x} : \A S \in SUBSET DOMAIN st :
        x \in S /\ (\A z \in DOMAIN st : st[z].deps \cap S # {} => z \in S) => y \in S}

RequiresStop(c) == request[c].on \in running /\ Enabled(seen[c].stack[request[c].on])  \* mutant of MustStop
MustStop(c) == request[c].on \in running

\* A retirement stops the component; a disabled one cannot be stopped, and a
\* stop that fails or would disrupt dependents raises.
Stop(c) ==
    LET x == request[c].on IN
    /\ pc[c] = "stop"
    /\ \/ ~MustStop(c) /\ To(c, "check") /\ UNCHANGED <<running, opVars, restarted>>
       \/ /\ MustStop(c) /\ Enabled(seen[c].stack[x]) /\ RunningDependents(x, seen[c].stack) = {}
          /\ running' = running \ {x} /\ To(c, "check") /\ UNCHANGED <<opVars, restarted>>
       \/ MustStop(c) /\ Ends(c) /\ UNCHANGED running
    /\ UNCHANGED <<tree, begun, others>>

(***************************************************************************)
(* The operation itself, with apply=True                                   *)
(***************************************************************************)
Unguarded(c) == TRUE   \* mutant of HashMatches
HashMatches(c) == expected[c] \in {NoHash, {tree}}

\* Reads the documents, refuses or computes the new ones.
Check(c) ==
    /\ pc[c] = "check"
    /\ IF Refused(request[c], seen[c], tree) THEN Ends(c)
       ELSE /\ read' = [read EXCEPT ![c] = tree] /\ To(c, "compare")
            /\ UNCHANGED <<request, seen, expected, saved, restarted>>
    /\ UNCHANGED <<tree, running, begun, others>>

Forgets(c) == crossed' = crossed \ {c} /\ late' = late \ {c}

Compare(c) ==
    /\ pc[c] = "compare"
    /\ IF HashMatches(c) THEN To(c, "copy") /\ UNCHANGED <<opVars, restarted, crossed, late>>
       ELSE Ends(c) /\ Forgets(c)
    /\ UNCHANGED <<tree, running, begun, lost>>

SameDocument(c, d) ==
    \/ StackWritten(request[c]) /\ StackWritten(request[d])
    \/ ProfilesWritten(request[c], seen[c]) \cap ProfilesWritten(request[d], seen[d]) # {}

\* Copies are named by the second: those of another command that is under way in
\* the same second are overwritten, and whichever restores first moves them away.
Copy(c) ==
    /\ pc[c] = "copy" /\ To(c, "replace")
    /\ \/ saved' = [saved EXCEPT ![c] = tree] /\ UNCHANGED crossed
       \/ \E d \in Commands \ {c} :
            /\ pc[d] \in {"replace", "validate", "restore"} /\ SameDocument(c, d)
            /\ saved' = [saved EXCEPT ![c] = tree, ![d] = Replaced(request[c], seen[c], @, tree)]
            /\ crossed' = crossed \cup {c, d}
    /\ UNCHANGED <<tree, running, request, seen, expected, read, begun, restarted, late, lost>>

\* The others that are under way learn nothing of it.
Writes(c, d) ==
    /\ tree' = Replaced(request[c], seen[c], tree, d)
    /\ crossed' = (crossed \cup {x \in Commands : pc[x] \in {"compare", "copy", "replace", "validate", "restore"}}) \ {c}
    /\ late' = (late \cup {x \in Commands : pc[x] \in {"copy", "replace"}}) \ {c}
    /\ lost' = (lost \/ c \in crossed)
    /\ UNCHANGED <<running, begun>>

Replace(c) ==
    /\ pc[c] = "replace"
    /\ Writes(c, NewDocuments(request[c], seen[c], read[c]))
    /\ IF Unvalidated(request[c]) THEN Ends(c)
       ELSE To(c, "validate") /\ UNCHANGED <<opVars, restarted>>

Validate(c) ==
    /\ pc[c] = "validate"
    /\ IF Valid(tree) THEN Ends(c) /\ Forgets(c)
       ELSE To(c, "restore") /\ UNCHANGED <<opVars, restarted, crossed, late>>
    /\ UNCHANGED <<tree, running, begun, lost>>

\* A document it had no copy of is unlinked.
Restore(c) ==
    /\ pc[c] = "restore"
    /\ Writes(c, saved[c]) \/ (c \in crossed /\ Writes(c, tree))
    /\ Ends(c)

(***************************************************************************)
(* Lifecycle commands.  They look at enabled and never at retired.         *)
(***************************************************************************)
Upstream(x, st) ==
    {y \in DOMAIN st : \A S \in SUBSET DOMAIN st :
        x \in S /\ (\A z \in S : st[z].deps \subseteq S) => y \in S}

StartComponent(x) ==
    /\ Knows(tree, x) /\ Enabled(tree.stack[x])
    /\ \E S \in SUBSET {y \in Upstream(x, tree.stack) \ running : Enabled(tree.stack[y])} :
         /\ S # {}                       \* what of the plan comes up
         /\ running' = running \cup S
         /\ restarted' = restarted \cup
                {c \in Commands : /\ pc[c] \in {"check", "compare", "copy", "replace"}
                                  /\ request[c].op = "retire" /\ request[c].on \in S}
    /\ UNCHANGED <<tree, pc, opVars, begun, others>>

StopComponent(x) ==
    /\ x \in running /\ Knows(tree, x) /\ Enabled(tree.stack[x])
    /\ running' = running \ {x}
    /\ UNCHANGED <<tree, pc, opVars, begun, restarted, others>>

Next ==
    \/ \E c \in Commands : BeginAtCommandLine(c) \/ BeginAtConsole(c) \/ Load(c) \/ Plan(c) \/ Stop(c)
    \/ \E c \in Commands : Check(c) \/ Compare(c) \/ Copy(c) \/ Replace(c) \/ Validate(c) \/ Restore(c)
    \/ \E x \in Slots : StartComponent(x) \/ StopComponent(x)

Spec == Init /\ [][Next]_vars

(***************************************************************************)
(* What a host is given: write_host_snapshot                               *)
(***************************************************************************)
KeepsDependencies(st, S) == [x \in S |-> st[x]]   \* mutant of Serialized

\* Dependencies on components the host does not get are listed elsewhere.
Serialized(st, S) ==
    [x \in S |-> [st[x] EXCEPT !.deps = @ \cap S,
                               !.enabled = IF Enabled(st[x]) THEN "true" ELSE "false"]]

Available(h, st) ==
    {x \in DOMAIN st : h \in Trusted \/ (st[x].host = h /\ Enabled(st[x]))}

Snapshot(h, d) ==
    LET S == Available(h, d.stack) IN
    [stack |-> Serialized(d.stack, S),
     profiles |-> [p \in {d.stack[x].profile : x \in S} |-> d.profiles[p]]]

\* config.json is copied as it is, also to a host whose inventory is itself alone.
Inventory(h) == IF h \in Trusted THEN Hosts ELSE {h}

(***************************************************************************)
(* Properties                                                              *)
(***************************************************************************)

\* While no command is between replacing documents and validating or restoring
\* them, the desired state passes the whole validation, whatever sequence of
\* operations led to it, those that validate nothing included, and however they
\* overlap: unless one of them wrote after another had written since it read
\* them, or restored copies that another had overwritten in the same second.
TreeStaysValid ==
    ~lost /\ (\A c \in Commands : pc[c] \notin {"validate", "restore"}) => Valid(tree)

\* Without that exception it does not hold: nothing makes an operation without an
\* expected hash, or one past its comparison, notice the other.
TreeIsValid == (\A c \in Commands : pc[c] \notin {"validate", "restore"}) => Valid(tree)

\* Every host can load the stacks a reconcile would give it: the graph is complete
\* and acyclic without the components that are not rendered for it, every
\* profile is there, no port is bound twice.  A trusted host passes all of
\* validate_topology with them, and so does every host when no authority is named.
SnapshotLoads ==
    ValidTopology(tree, Hosts) =>
        \A h \in Hosts : Available(h, tree.stack) # {} =>
            IF h \in Trusted \/ Authority = NoHost
            THEN ValidTopology(Snapshot(h, tree), Inventory(h))
            ELSE ValidStacks(Snapshot(h, tree), Inventory(h))

\* The same of every host does not hold: the authority is not in the inventory of
\* an untrusted one.
SnapshotValidates ==
    ValidTopology(tree, Hosts) =>
        \A h \in Hosts : Available(h, tree.stack) # {} => ValidTopology(Snapshot(h, tree), Inventory(h))

\* What a command was allowed on.
Holds(c) ==
    LET r == request[c] IN
    /\ r.op = "retire" => ActiveDependents(r.on, tree.stack) = {}
    /\ r.op = "edit profile" /\ ~r.shared => ~(Cardinality(Users(r.profile, tree.stack)) > 1)

Replaces(c) == pc[c] = "replace" /\ pc'[c] # pc[c]

\* The refusals look at the topology the command loaded, before the stop, the
\* second reading, the comparison and the copies.  Given the hash of the documents
\* that topology was built from, a command that replaces documents retires no
\* component that got a dependent meanwhile and changes no profile that came to be
\* shared: unless another command wrote after it had compared.
PlanStillHolds ==
    [][\A c \in Commands : Replaces(c) /\ expected[c] = {seen[c]} /\ c \notin late => Holds(c)]_vars

\* The comparison is no lock: without the exception it does not hold.
GuardedPlanHolds ==
    [][\A c \in Commands : Replaces(c) /\ expected[c] = {seen[c]} => Holds(c)]_vars

\* The console always gives a hash ("the operation is forwarded to the authority with
\* the observed authority hash"), of the documents as it plans, which need not be
\* those its topology was built from: this does not hold.
ConsolePlanHolds ==
    [][\A c \in Consoles : Replaces(c) /\ c \notin late => Holds(c)]_vars

\* A component is retired with its process gone, disabled or not, unless
\* somebody started it after the command had looked.
RetiredWasStopped ==
    [][\A c \in Commands :
          Replaces(c) /\ request[c].op = "retire"
          => request[c].on \notin running \/ c \in restarted]_vars

=============================================================================
