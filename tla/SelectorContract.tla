-------------------------- MODULE SelectorContract --------------------------
(***************************************************************************)
(* What an invocation that takes update.lock promises about the two links  *)
(* to whoever respects that lock: when it is free again they have moved as *)
(* the task of the invocation says, or have not moved.  Only a rollback    *)
(* that fails may leave them half way or exchanged.  One that is killed,   *)
(* or fails while it takes, releases or cleans up, leaves the lock behind, *)
(* with the links as its task had them just then.                          *)
(***************************************************************************)
CONSTANTS Releases, NoRelease

VARIABLES stage,  \* free, working, failed (the lock is still held), left
          task,   \* install, rollback, repair, prune; none if nobody works
          links   \* what current and previous select, as others may see it

vars == <<stage, task, links>>

Tasks == {"install", "rollback", "repair", "prune"}

Link  == Releases \cup {NoRelease}
Links == [current : Link, previous : Link]

Init ==
    /\ stage = "free"
    /\ task = "none"
    /\ links \in Links

(***************************************************************************)
(* Where a task may take the links.                                        *)
(***************************************************************************)
\* An install links what it replaces, then a release no link selects.
Linked       == [links EXCEPT !.previous = IF links.current = NoRelease THEN @ ELSE links.current]
Installed    == {[Linked EXCEPT !.current = r] : r \in Releases \ {links.current, links.previous}}

\* A rollback needs both links.
Exchangeable == NoRelease \notin {links.current, links.previous}
HalfSwapped  == [links EXCEPT !.current = links.previous]
Swapped      == [current |-> links.previous, previous |-> links.current]

Delivered ==
    {s \in Links : \/ task = "install" /\ s \in Installed
                   \/ task = "rollback" /\ Exchangeable /\ s = Swapped
                   \/ task \in {"repair", "prune"} /\ s = links}

LeftByFailure ==
    {s \in Links : \/ s = links
                   \/ task = "rollback" /\ Exchangeable /\ s \in {HalfSwapped, Swapped}}

LeftBehind ==
    {s \in Links : \/ s \in LeftByFailure
                   \/ task = "install" /\ s \in Installed \cup {Linked}}

(***************************************************************************)
(* Steps.                                                                  *)
(***************************************************************************)
Take(t) ==
    /\ stage = "free"
    /\ stage' = "working"
    /\ task' = t
    /\ UNCHANGED links

Deliver ==
    /\ stage = "working"
    /\ stage' = "free"
    /\ task' = "none"
    /\ links' \in Delivered

Fail ==
    /\ stage = "working"
    /\ stage' = "failed"
    /\ links' \in LeftByFailure
    /\ UNCHANGED task

Leave ==
    /\ stage = "failed"
    /\ stage' = "free"
    /\ task' = "none"
    /\ UNCHANGED links

LeaveLock ==
    /\ stage' = "left"
    /\ task' = "none"
    /\ \/ stage = "working" /\ links' \in LeftBehind
       \/ stage = "failed" /\ UNCHANGED links

Next == (\E t \in Tasks : Take(t)) \/ Deliver \/ Fail \/ Leave \/ LeaveLock

Spec == Init /\ [][Next]_vars
=============================================================================
