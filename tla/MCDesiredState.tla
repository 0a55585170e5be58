--------------------------- MODULE MCDesiredState ---------------------------
(* A small instance of DesiredState for TLC: a proxy in front of a model. *)
EXTENDS DesiredState, TLC

CONSTANTS model, proxy, spare, desk, node, llama, tap, chat, gate, extra, c1, c2

MCComponent(t, h, p, e, deps, uses) ==
    [template |-> t, host |-> h, profile |-> p, enabled |-> e, retired |-> FALSE, deps |-> deps, uses |-> uses]

MCFirst ==
    [stack |-> (model :> MCComponent(llama, node, chat, "omitted", {}, NoOne))
               @@ (proxy :> MCComponent(tap, desk, gate, "false", {model}, model)),
     profiles |-> (chat :> [template |-> llama, port |-> 1]) @@ (gate :> [template |-> tap, port |-> 2])]

Set(form, x, f, v) == [op |-> "configure", form |-> form, on |-> x, field |-> f, value |-> v]

MCRequests ==
    {Set(FALSE, x, "enabled", "true") : x \in {proxy, spare}}
    \cup {Set(FALSE, proxy, "uses", NoOne), Set(FALSE, proxy, "port", 1), Set(TRUE, model, "host", desk)}
    \cup {[op |-> "add", on |-> spare, template |-> llama, host |-> node, profile |-> chat,
           deps |-> {model}, uses |-> NoOne]}
    \cup {[op |-> "provision", on |-> spare, template |-> tap, host |-> node, profile |-> extra,
           port |-> 1, deps |-> {}, uses |-> model]}
    \cup {[op |-> "clone", on |-> model, to |-> spare, share |-> FALSE, profile |-> extra]}
    \cup {[op |-> "retire", on |-> x] : x \in {model, proxy}}
    \cup {[op |-> "restore", on |-> proxy]}
    \cup {[op |-> "create profile", profile |-> extra, template |-> llama, port |-> 2]}
    \cup {[op |-> "clone profile", profile |-> extra, from |-> chat]}
    \cup {[op |-> "edit profile", profile |-> chat, port |-> 2, shared |-> FALSE]}
=============================================================================
