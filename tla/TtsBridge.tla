----------------------------- MODULE TtsBridge -----------------------------
(***************************************************************************)
(* The speech bridge (tts_bridge_server.py).  A request is checked against *)
(* the capabilities the upstream reports for its model, kept for 30 s in   *)
(* one cache every handler thread replaces without a lock; its voice,      *)
(* references and style controls are resolved from what the client sent,   *)
(* the voice map and the bridge's own defaults, and it is forwarded.       *)
(*                                                                         *)
(* Only a request's model matters before its payload is built: the rest of *)
(* what the client sent, and the voice map, are chosen when it is.         *)
(***************************************************************************)
EXTENDS Naturals, FiniteSets

CONSTANTS Speakers,  \* handler threads of speech requests
          Watchers,  \* handler threads of /health and /voices
          Models,    \* models the upstream can load
          NoModel,   \* the empty name: none given
          Family,    \* [Models -> family]: "qwen3_tts", "chatterbox", ...
          Style      \* [Models -> SUBSET {"instruct", "exaggeration"}]

ASSUME BridgeAssumption ==
  /\ Style \in [Models -> SUBSET {"instruct", "exaggeration"}]
  /\ Models # {} /\ NoModel \notin Models /\ DOMAIN Family = Models

VARIABLES default,   \* cfg["model"], which overrides what a client asks for
          cache,     \* cfg["upstream_metadata"]
          phase,     \* [threads -> where the handler is]
          model,     \* [threads -> the model the request is for]
          metadata,  \* [threads -> what _refresh_upstream_metadata returned]
          forwarded  \* the request this step sent upstream, or NoRequest

bridgeVars == <<default, cache, phase, model, metadata, forwarded>>

Threads == Speakers \cup Watchers
NoCache == [model |-> NoModel, reachable |-> FALSE, caps |-> NoModel, fresh |-> FALSE]
NoRequest == [model |-> NoModel, refs |-> {}, controls |-> {}, own |-> FALSE,
              alone |-> TRUE]

BridgeInit ==
  /\ default \in Models \cup {NoModel}
  /\ cache = NoCache
  /\ phase = [t \in Threads |-> "idle"]
  /\ model = [t \in Threads |-> NoModel]
  /\ metadata = [t \in Threads |-> NoCache]
  /\ forwarded = NoRequest

At(t, step) == phase' = [phase EXCEPT ![t] = step]
-----------------------------------------------------------------------------
(* _refresh_upstream_metadata.  The cache serves a request of its own      *)
(* model for 30 s, an unreachable upstream included; /health refuses it.   *)
Hit(m) == cache.model = m /\ cache.fresh

Arrive(t) ==
  /\ phase[t] = "idle"
  /\ \E asked \in Models \cup {NoModel} :
       LET m == IF default # NoModel \/ t \in Watchers THEN default ELSE asked IN
       /\ model' = [model EXCEPT ![t] = m]
       /\ \/ /\ Hit(m)
             /\ metadata' = [metadata EXCEPT ![t] = cache]
             /\ At(t, "build")
          \/ /\ ~Hit(m) \/ t \in Watchers
             /\ At(t, "fetch")
             /\ UNCHANGED metadata
  /\ forwarded' = NoRequest
  /\ UNCHANGED <<default, cache>>

(* Both lists are fetched, or neither counts; the age runs from before the *)
(* fetch, which may last longer than that.  The request keeps what it      *)
(* fetched, the cache is replaced whole.  A request that names no model is *)
(* told of the one the upstream has loaded.                                *)
Fetched(m) == [model : {m}, reachable : {TRUE}, fresh : BOOLEAN,
               caps : IF m = NoModel THEN Models ELSE {m}]
Missed(m) == [model : {m}, reachable : {FALSE}, fresh : BOOLEAN, caps : {NoModel}]
Fetch(t) ==
  /\ phase[t] = "fetch"
  /\ \E refreshed \in Fetched(model[t]) \cup Missed(model[t]) :
       /\ metadata' = [metadata EXCEPT ![t] = refreshed]
       /\ cache' = refreshed
  /\ At(t, "build")
  /\ forwarded' = NoRequest
  /\ UNCHANGED <<default, model>>

Age == /\ cache.fresh
       /\ cache' = [cache EXCEPT !.fresh = FALSE]
       /\ forwarded' = NoRequest
       /\ UNCHANGED <<default, phase, model, metadata>>
-----------------------------------------------------------------------------
(* What a client can ask: the three ways to name a reference itself, of    *)
(* which "legacy" may lack the audio; a voice, which the map resolves to   *)
(* no entry, a sample, one derived from the alias (whose files may be      *)
(* missing), or a registered reference; style controls.  An emotion that   *)
(* is asked for is the one the map has: any other is refused.              *)
Controls == {"emotion", "instruction", "intensity"}
Asks == [modes : SUBSET {"legacy", "reference_id", "reference"}, audio : BOOLEAN,
         voice : {"none", "sample", "derived", "reference_id"}, files : BOOLEAN,
         controls : SUBSET Controls]

(* What the bridge was configured with: the map's defaults, --ref-audio,   *)
(* and the style of the entry the voice resolves to.                       *)
Setups == [defaults : {"none", "sample", "reference_id"}, refAudio : BOOLEAN,
           style : SUBSET Controls]

Explicit(ask) == ask.modes # {}

(* _resolve_voice_mapping: an alias replaces every reference field of the  *)
(* defaults by its own, since it always has one.                           *)
Mapped(ask, setup) ==
  CASE ask.voice = "none" -> setup.defaults
    [] ask.voice = "reference_id" -> "reference_id"
    [] OTHER -> "sample"

(* _resolve_output_ref for ref_audio: the client's, the alias's or the     *)
(* default's sample, the bridge's --ref-audio.                             *)
RefAudio(ask, setup) ==
  \/ "legacy" \in ask.modes /\ ask.audio
  \/ ~Explicit(ask) /\ (Mapped(ask, setup) = "sample" \/ setup.refAudio)

References(ask, setup) ==
  (IF RefAudio(ask, setup) THEN {"ref_audio"} ELSE {})
    \cup (ask.modes \cap {"reference_id", "reference"})
    \cup (IF ~Explicit(ask) /\ Mapped(ask, setup) = "reference_id"
          THEN {"reference_id"} ELSE {})

(* The style of the map does not apply to a reference the client named. *)
MappedStyle(ask, setup) == IF Explicit(ask) THEN {} ELSE setup.style
Supports(caps) == IF caps \in Models THEN Style[caps] ELSE {}
Chatterbox(caps) == caps \in Models /\ Family[caps] = "chatterbox"
Qwen(caps) == caps \in Models /\ Family[caps] = "qwen3_tts"

Instructed(ask, setup) == "instruction" \in ask.controls \cup MappedStyle(ask, setup)
Intensified(ask, setup, caps) ==
  \/ "intensity" \in ask.controls
  \/ "intensity" \in MappedStyle(ask, setup) /\ Chatterbox(caps)

(* _apply_style_controls, against the capabilities the request holds. *)
StyleRefused(ask, setup, caps) ==
  \/ "emotion" \in ask.controls /\ (\/ References(ask, setup) = {}
                                    \/ "emotion" \notin MappedStyle(ask, setup))
  \/ Instructed(ask, setup) /\ (\/ References(ask, setup) # {} /\ Qwen(caps)
                                \/ "instruct" \notin Supports(caps))
  \/ Intensified(ask, setup, caps) /\ (\/ ~Chatterbox(caps)
                                       \/ "exaggeration" \notin Supports(caps))

(* build_upstream_payload refuses two modes at once, a derived sample that *)
(* is not there, and controls the model does not have.                     *)
Refused(ask, setup, caps) ==
  \/ Cardinality(ask.modes) > 1
  \/ ask.voice = "derived" /\ ~Explicit(ask) /\ ~ask.files
  \/ StyleRefused(ask, setup, caps)

Payload(ask, setup, caps) ==
  [refs |-> References(ask, setup), own |-> Explicit(ask), alone |-> ~setup.refAudio,
   controls |-> (IF Instructed(ask, setup) THEN {"instruct"} ELSE {})
                  \cup (IF Intensified(ask, setup, caps) THEN {"exaggeration"} ELSE {})]

Payloads ==
  [caps \in Models |->
     {Payload(a[1], a[2], caps) :
        a \in {b \in Asks \X Setups : ~Refused(b[1], b[2], caps)}}]
-----------------------------------------------------------------------------
(* do_POST builds from what this request was told, not from the cache. *)
Cached(t) == cache
Held(t) == metadata[t]

(* The locals of a request go with it. *)
Forget(t) == /\ At(t, "idle")
             /\ model' = [model EXCEPT ![t] = NoModel]
             /\ metadata' = [metadata EXCEPT ![t] = NoCache]

(* do_POST: a request is refused (an unreachable upstream, a body that is  *)
(* not JSON or has no input, what build_upstream_payload raises), or sent; *)
(* the upstream's reply or failure changes nothing here.                   *)
Speak(t) ==
  /\ phase[t] = "build" /\ t \in Speakers
  /\ \/ forwarded' = NoRequest
     \/ /\ Held(t).reachable
        /\ \E p \in Payloads[Held(t).caps] :
             forwarded' = [model |-> model[t], refs |-> p.refs,
                           controls |-> p.controls, own |-> p.own, alone |-> p.alone]
  /\ Forget(t)
  /\ UNCHANGED <<default, cache>>

(* do_GET answers from the cache (/health) or from what it holds. *)
Report(t) ==
  /\ phase[t] = "build" /\ t \in Watchers
  /\ Forget(t)
  /\ forwarded' = NoRequest
  /\ UNCHANGED <<default, cache>>

BridgeNext ==
  \/ \E t \in Threads : Arrive(t) \/ Fetch(t) \/ Speak(t) \/ Report(t)
  \/ Age

BridgeTypeOK ==
  /\ default \in Models \cup {NoModel}
  /\ phase \in [Threads -> {"idle", "fetch", "build"}]
  /\ model \in [Threads -> Models \cup {NoModel}]
-----------------------------------------------------------------------------
(* Whatever the other threads do to the cache, a request that names its    *)
(* model uses only controls that model has and never clones with           *)
(* instructions on one that cannot; and a request carries one reference,   *)
(* the client's own when it named one.  (A bridge started with --ref-audio *)
(* adds that one to an alias's registered reference: the premise of the    *)
(* last conjunct.  A request that names no model can meet another one      *)
(* loaded since its capabilities were read.)                               *)
SpeechIsAdmissible ==
  LET m == forwarded.model IN
  /\ m # NoModel =>
       /\ forwarded.controls \subseteq Style[m]
       /\ "instruct" \in forwarded.controls /\ forwarded.refs # {}
            => Family[m] # "qwen3_tts"
  /\ forwarded.own \/ forwarded.alone => Cardinality(forwarded.refs) <= 1
=============================================================================
