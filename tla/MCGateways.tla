---------------------------- MODULE MCGateways -----------------------------
(* Two requests on each gateway and a watcher on the bridge, a model of    *)
(* each family the bridge tells apart, two logging threads and up to two   *)
(* numbered log files.                                                     *)
EXTENDS Gateways, TLC

CONSTANTS r1, r2, s1, s2, w1, t1, t2, qwen, chatterbox
FamilyOf == qwen :> "qwen3_tts" @@ chatterbox :> "chatterbox"
StyleOf == qwen :> {"instruct"} @@ chatterbox :> {"exaggeration"}

Alike == Permutations({r1, r2}) \cup Permutations({s1, s2}) \cup Permutations({t1, t2})
=============================================================================
