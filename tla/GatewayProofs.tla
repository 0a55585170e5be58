--------------------------- MODULE GatewayProofs ---------------------------
(***************************************************************************)
(* Theorems about the gateways for any models and families, any number of  *)
(* handler threads, requests and log writes, and any number of log files.  *)
(***************************************************************************)
EXTENDS Gateways, FiniteSetTheorems, SequenceTheorems, TLAPS

(***************************************************************************)
(* The bridge                                                              *)
(***************************************************************************)
\* What is known of an upstream is about the model it was asked for.
Told(m, known) ==
  known.reachable => known.caps \in Models /\ (m # NoModel => known.caps = m)

\* SpeechIsAdmissible is about the request a step sends; it follows from what
\* every thread holds, which the cache hands out to whoever asks for its model.
BridgeInv ==
  /\ phase \in [Threads -> {"idle", "fetch", "build"}]
  /\ DOMAIN model = Threads /\ DOMAIN metadata = Threads
  /\ Told(cache.model, cache)
  /\ \A t \in Threads : model[t] \in Models \cup {NoModel}
  /\ default \in Models \cup {NoModel}
  /\ \A t \in Threads : phase[t] = "build" => Told(model[t], metadata[t])

\* A set within a singleton has at most one element.
LEMMA AtMostOne == ASSUME NEW x, NEW S \in SUBSET {x} PROVE Cardinality(S) <= 1
<1>1. S = {} \/ S = {x}
  OBVIOUS
<1>2. Cardinality({}) = 0
  BY FS_EmptySet
<1>3. Cardinality({x}) = 1
  BY FS_Singleton
<1>4. CASE S = {}
  BY <1>2, <1>4
<1>5. CASE S = {x}
  BY <1>3, <1>5
<1> QED BY <1>1, <1>4, <1>5

LEMMA OneMode ==
  ASSUME NEW S \in SUBSET {"legacy", "reference_id", "reference"}, ~(Cardinality(S) > 1),
         NEW x \in S, NEW y \in S
  PROVE  x = y
<1>1. IsFiniteSet(S) /\ Cardinality(S) \in Nat
  <2>1. IsFiniteSet({"legacy", "reference_id", "reference"})
    <3>1. IsFiniteSet({"legacy"})
      BY FS_Singleton
    <3>2. IsFiniteSet({"legacy"} \cup {"reference_id"})
      BY <3>1, FS_AddElement
    <3>3. IsFiniteSet(({"legacy"} \cup {"reference_id"}) \cup {"reference"})
      BY <3>2, FS_AddElement
    <3>4. ({"legacy"} \cup {"reference_id"}) \cup {"reference"} = {"legacy", "reference_id", "reference"}
      OBVIOUS
    <3> QED BY <3>3, <3>4
  <2> QED BY <2>1, FS_Subset, FS_CardinalityType
<1>2. SUFFICES ASSUME x # y PROVE FALSE
  OBVIOUS
<1>3. Cardinality({x, y}) = 2
  <2>1. IsFiniteSet({x}) /\ Cardinality({x}) = 1
    BY FS_Singleton
  <2>2. Cardinality({x} \cup {y}) = Cardinality({x}) + 1
    BY <1>2, <2>1, FS_AddElement
  <2>3. {x} \cup {y} = {x, y}
    OBVIOUS
  <2> QED BY <2>1, <2>2, <2>3
<1>4. Cardinality({x, y}) <= Cardinality(S)
  BY <1>1, FS_Subset
<1> QED BY <1>1, <1>3, <1>4

\* A payload that is not refused uses what the model has, and one reference.
LEMMA PayloadAdmissible ==
  ASSUME NEW caps \in Models, NEW ask \in Asks, NEW setup \in Setups, ~Refused(ask, setup, caps)
  PROVE  LET p == Payload(ask, setup, caps) IN
         /\ p.controls \subseteq Style[caps]
         /\ "instruct" \in p.controls /\ p.refs # {} => Family[caps] # "qwen3_tts"
         /\ p.own \/ p.alone => Cardinality(p.refs) <= 1
<1> DEFINE p == Payload(ask, setup, caps)
<1>1. p.controls \subseteq Style[caps]
  BY DEF Payload, Refused, StyleRefused, Supports
<1>2. "instruct" \in p.controls /\ p.refs # {} => Family[caps] # "qwen3_tts"
  BY DEF Payload, Refused, StyleRefused, Qwen
<1>3. CASE Explicit(ask)
  <2>1. PICK m : m \in ask.modes
    BY <1>3 DEF Explicit
  <2>2. ask.modes = {m}
    BY <2>1, OneMode DEF Refused, Asks
  <2>3. References(ask, setup) \subseteq {IF m = "legacy" THEN "ref_audio" ELSE m}
    BY <1>3, <2>2 DEF References, RefAudio, Asks
  <2> QED BY <1>1, <1>2, <2>3, AtMostOne DEF Payload
<1>4. CASE ~Explicit(ask)
  <2>1. ~setup.refAudio =>
          References(ask, setup) \subseteq {IF Mapped(ask, setup) = "sample" THEN "ref_audio" ELSE "reference_id"}
    BY <1>4 DEF References, RefAudio, Explicit
  <2>2. ~setup.refAudio => Cardinality(References(ask, setup)) <= 1
    BY <2>1, AtMostOne
  <2> QED BY <1>1, <1>2, <1>4, <2>2 DEF Payload
<1> QED BY <1>3, <1>4

LEMMA BridgeStep == ASSUME BridgeInv, BridgeNext PROVE BridgeInv' /\ SpeechIsAdmissible'
<1>1. ASSUME NEW t \in Threads, Arrive(t) PROVE BridgeInv'
  <2>1. PICK m \in Models \cup {NoModel} :
          /\ model' = [model EXCEPT ![t] = m]
          /\ \/ /\ Hit(m)
                /\ metadata' = [metadata EXCEPT ![t] = cache]
                /\ At(t, "build")
             \/ At(t, "fetch") /\ UNCHANGED metadata
    BY <1>1 DEF Arrive, BridgeInv
  <2> QED BY <1>1, <2>1 DEF Arrive, BridgeInv, Hit, At, Told
<1>2. ASSUME NEW t \in Threads, Fetch(t) PROVE BridgeInv'
  <2>1. PICK refreshed \in Fetched(model[t]) \cup Missed(model[t]) :
          metadata' = [metadata EXCEPT ![t] = refreshed] /\ cache' = refreshed
    BY <1>2 DEF Fetch
  <2>2. Told(model[t], refreshed) /\ refreshed.model = model[t]
    BY <2>1 DEF Fetched, Missed, Told, BridgeInv
  <2> QED BY <1>2, <2>1, <2>2 DEF Fetch, BridgeInv, At
<1>3. ASSUME NEW t \in Threads, Speak(t) \/ Report(t) PROVE BridgeInv'
  BY <1>3 DEF Speak, Report, Forget, At, BridgeInv
<1>4. ASSUME Age PROVE BridgeInv'
  BY <1>4 DEF Age, BridgeInv, Told
<1>5. ASSUME NEW t \in Threads, Speak(t) PROVE SpeechIsAdmissible'
  <2>1. CASE forwarded' = NoRequest
    BY <2>1, FS_EmptySet DEF NoRequest, SpeechIsAdmissible
  <2>2. CASE forwarded' # NoRequest
    <3> DEFINE caps == metadata[t].caps
    <3>1. /\ Told(model[t], metadata[t]) /\ metadata[t].reachable
          /\ \E p \in Payloads[caps] :
               forwarded' = [model |-> model[t], refs |-> p.refs, controls |-> p.controls,
                             own |-> p.own, alone |-> p.alone]
      BY <1>5, <2>2 DEF Speak, Held, BridgeInv, Threads
    <3>2. caps \in Models /\ (model[t] # NoModel => caps = model[t])
      BY <3>1 DEF Told
    <3>3. PICK p \in Payloads[caps] :
            forwarded' = [model |-> model[t], refs |-> p.refs, controls |-> p.controls,
                          own |-> p.own, alone |-> p.alone]
      BY <3>1
    <3>4. PICK ask \in Asks, setup \in Setups : p = Payload(ask, setup, caps) /\ ~Refused(ask, setup, caps)
      BY <3>2, <3>3 DEF Payloads
    <3> HIDE DEF caps
    <3>5. /\ p.controls \subseteq Style[caps]
          /\ "instruct" \in p.controls /\ p.refs # {} => Family[caps] # "qwen3_tts"
          /\ p.own \/ p.alone => Cardinality(p.refs) <= 1
      BY <3>2, <3>4, PayloadAdmissible
    <3> QED BY <3>2, <3>3, <3>5 DEF SpeechIsAdmissible
  <2> QED BY <2>1, <2>2
<1>6. ASSUME forwarded' = NoRequest PROVE SpeechIsAdmissible'
  BY <1>6, FS_EmptySet DEF NoRequest, SpeechIsAdmissible
<1> QED BY <1>1, <1>2, <1>3, <1>4, <1>5, <1>6 DEF BridgeNext, Arrive, Fetch, Report, Age

gatewayVars == <<subject, proxyVars, bridgeVars, logVars>>

\* Whatever the handler threads do to the cache they share, a speech request
\* that reaches the upstream uses what its model can do (do_POST).
THEOREM SpeechFits == Spec => []SpeechIsAdmissible
<1>1. Init => BridgeInv /\ SpeechIsAdmissible
  <2> SUFFICES ASSUME Init PROVE BridgeInv /\ SpeechIsAdmissible
    OBVIOUS
  <2>1. BridgeInv
    BY DEF Init, BridgeInit, BridgeInv, Told, NoCache
  <2>2. SpeechIsAdmissible
    BY FS_EmptySet DEF Init, BridgeInit, NoRequest, SpeechIsAdmissible
  <2> QED BY <2>1, <2>2
<1>2. BridgeInv /\ SpeechIsAdmissible /\ [Next]_gatewayVars => (BridgeInv /\ SpeechIsAdmissible)'
  <2> SUFFICES ASSUME BridgeInv, SpeechIsAdmissible, [Next]_gatewayVars
               PROVE  (BridgeInv /\ SpeechIsAdmissible)'
    OBVIOUS
  <2>1. CASE BridgeNext
    BY <2>1, BridgeStep
  <2>2. CASE UNCHANGED bridgeVars
    BY <2>2 DEF bridgeVars, BridgeInv, Told, SpeechIsAdmissible
  <2> QED BY <2>1, <2>2 DEF Next, gatewayVars
<1> QED BY <1>1, <1>2, PTL DEF Spec, gatewayVars
-----------------------------------------------------------------------------
(***************************************************************************)
(* The log                                                                 *)
(***************************************************************************)
Shifting == \E t \in LogThreads : writer[t] = "shift"

\* Where an entry is, by the rotations begun since it was written: each moves it
\* one file on at most, and the running one has not moved it while its file's
\* number is below the index it renames next.
InPlace(e) ==
  LET age == generation - written[e] IN
  \/ age > keep
  \/ e \in active /\ (Shifting => age >= 1)
  \/ \E i \in Numbers :
       e \in rotated[i] /\ i + 1 <= age /\ (Shifting /\ i < shift => i + 2 <= age)

LogTyped ==
  /\ keep \in Nat /\ shift \in Nat /\ generation \in Nat
  /\ DOMAIN writer = LogThreads /\ DOMAIN rotated = Numbers
  /\ written \in Seq(Nat)

\* One thread is past the lock; a rotation's index is a file's number, and the
\* file it renames the next one to has been moved away.
LogGuarded ==
  /\ \A t \in LogThreads : writer[t] # "idle" => lock = t
  /\ Shifting => shift < keep /\ rotated[shift] = {}

LogPlaced == \A e \in 1 .. Len(written) : written[e] <= generation /\ InPlace(e)

LogInv == LogTyped /\ LogGuarded /\ LogPlaced

LEMMA LogStart == ASSUME LogInit PROVE LogInv
<1>1. LogTyped
  BY LogAssumption DEF LogInit, LogTyped
<1>2. LogGuarded
  BY DEF LogInit, LogGuarded, Shifting
<1>3. LogPlaced
  BY DEF LogInit, LogPlaced
<1> QED BY <1>1, <1>2, <1>3 DEF LogInv

\* A step that neither rotates nor writes moves nothing; one that ends a
\* rotation asks less of every entry.
LEMMA Unmoved ==
  ASSUME LogInv, UNCHANGED <<keep, active, rotated, shift, generation, written>>,
         Shifting' => Shifting
  PROVE  LogPlaced'
BY DEF LogInv, LogPlaced, InPlace, Numbers

\* A step to a control point outside the renames, of the thread with the lock.
LEMMA Leaving ==
  ASSUME LogInv, NEW t \in LogThreads, lock = t,
         NEW step \in {"reopen", "write", "idle"},
         To(t, step), lock' = t \/ step = "idle"
  PROVE  ~Shifting' /\ \A u \in LogThreads : writer'[u] # "idle" => lock' = u
BY LogAssumption DEF LogInv, LogTyped, LogGuarded, Shifting, To

LEMMA LogStep == ASSUME LogInv, LogNext PROVE LogInv'
<1> USE DEF LogInv
<1>0. ASSUME NEW t \in LogThreads, writer[t] # "idle"
      PROVE  lock = t /\ \A u \in LogThreads : u # t => writer[u] = "idle"
  BY <1>0 DEF LogGuarded
<1>1. ASSUME NEW t \in LogThreads, Acquire(t) PROVE LogInv'
  <2>1. LogTyped'
    BY <1>1 DEF Acquire, LogTyped, Numbers, To
  <2>2. \A u \in LogThreads : writer[u] = "idle"
    BY <1>1, LogAssumption DEF Acquire, Free, LogGuarded
  <2>3. ~Shifting'
    BY <1>1, <2>2 DEF Acquire, Shifting, LogTyped, To
  <2>4. LogGuarded'
    BY <1>1, <2>2, <2>3 DEF Acquire, LogGuarded, LogTyped, To
  <2>5. LogPlaced'
    BY <1>1, <2>3, Unmoved DEF Acquire
  <2> QED BY <2>1, <2>4, <2>5
<1>2. ASSUME NEW t \in LogThreads, Unlink(t) PROVE LogInv'
  <2>1. ~Shifting /\ lock = t
    BY <1>2, <1>0 DEF Unlink, Shifting
  <2>2. LogTyped'
    BY <1>2 DEF Unlink, LogTyped, Numbers, To
  <2>3. ASSUME NEW e \in 1 .. Len(written) PROVE
          /\ generation - written[e] \in Nat /\ written[e] \in Nat
          /\ generation' - written[e] = generation - written[e] + 1 /\ written[e] <= generation'
    BY <1>2 DEF Unlink, LogPlaced, LogTyped
  <2>4. CASE keep > 0
    <3>1. Shifting' /\ shift' = keep - 1 /\ keep' = keep /\ keep - 1 \in Numbers
      BY <1>2, <2>4 DEF Unlink, Shifting, LogTyped, Numbers, To
    <3>2. rotated'[keep - 1] = {} /\ \A i \in Numbers : i # keep - 1 => rotated'[i] = rotated[i]
      BY <1>2, <2>4, <3>1 DEF Unlink, LogTyped
    <3>3. LogGuarded'
      BY <1>2, <1>0, <2>1, <2>4, <3>1, <3>2 DEF Unlink, LogGuarded, LogTyped, To
    <3>4. LogPlaced'
      <4> SUFFICES ASSUME NEW e \in 1 .. Len(written) PROVE InPlace(e)'
        BY <1>2, <2>3, <2>4 DEF Unlink, LogPlaced
      <4> DEFINE age == generation - written[e]
      <4>1. /\ age \in Nat /\ generation' - written'[e] = age + 1 /\ Numbers' = Numbers
            /\ InPlace(e) /\ active' = active
        BY <1>2, <2>3, <2>4, <3>1 DEF LogPlaced, Unlink, Numbers
      <4>2. CASE age > keep
        BY <3>1, <4>1, <4>2 DEF InPlace, LogTyped
      <4>3. CASE e \in active
        BY <4>1, <4>3 DEF InPlace
      <4>4. ASSUME NEW i \in Numbers, e \in rotated[i], i + 1 <= age PROVE InPlace(e)'
        <5>1. CASE i = keep - 1
          BY <3>1, <4>1, <4>4, <5>1 DEF InPlace, LogTyped
        <5>2. CASE i # keep - 1
          <6>1. e \in rotated'[i] /\ i + 1 <= age + 1 /\ i + 2 <= age + 1 /\ i \in Numbers'
            BY <3>2, <4>1, <4>4, <5>2 DEF Numbers
          <6> QED BY <4>1, <6>1 DEF InPlace
        <5> QED BY <5>1, <5>2
      <4> QED BY <4>1, <4>2, <4>3, <4>4 DEF InPlace
    <3> QED BY <2>2, <3>3, <3>4
  <2>5. CASE ~(keep > 0)
    <3>1. To(t, "reopen") /\ lock' = t /\ keep' = keep /\ keep = 0 /\ Numbers = {}
      BY <1>2, <2>1, <2>5 DEF Unlink, LogTyped, Numbers
    <3>2. LogGuarded'
      BY <2>1, <3>1, Leaving DEF LogGuarded
    <3>3. LogPlaced'
      <4> SUFFICES ASSUME NEW e \in 1 .. Len(written) PROVE InPlace(e)'
        BY <1>2, <2>3 DEF Unlink, LogPlaced
      <4> QED BY <1>2, <2>3, <3>1 DEF InPlace, Unlink
    <3> QED BY <2>2, <3>2, <3>3
  <2> QED BY <2>4, <2>5
<1>3. ASSUME NEW t \in LogThreads, Shift(t) PROVE LogInv'
  <2>1. Shifting /\ Shifting' /\ shift < keep /\ rotated[shift] = {} /\ shift - 1 \in Numbers
        /\ shift \in Numbers
    BY <1>3 DEF Shift, Shifting, LogGuarded, LogTyped, Numbers
  <2>2. LogTyped'
    BY <1>3 DEF Shift, LogTyped, Numbers
  <2>3. /\ rotated'[shift - 1] = {} /\ rotated'[shift] = rotated[shift - 1]
        /\ \A i \in Numbers : i # shift - 1 /\ i # shift => rotated'[i] = rotated[i]
    BY <1>3, <2>1 DEF Shift, LogTyped, Numbers
  <2>4. LogGuarded'
    BY <1>3, <2>1, <2>3 DEF Shift, LogGuarded, LogTyped
  <2>5. LogPlaced'
    <3> SUFFICES ASSUME NEW e \in 1 .. Len(written) PROVE InPlace(e)'
      BY <1>3 DEF Shift, LogPlaced
    <3> DEFINE age == generation - written[e]
    <3>1. /\ age \in Nat /\ InPlace(e) /\ Numbers' = Numbers /\ shift' = shift - 1
          /\ UNCHANGED <<keep, active, generation, written>>
      BY <1>3 DEF Shift, LogPlaced, LogTyped, Numbers
    <3>2. ASSUME NEW i \in Numbers, e \in rotated[i], i + 1 <= age, i < shift => i + 2 <= age
          PROVE  InPlace(e)'
      <4>1. CASE i = shift - 1
        <5>1. e \in rotated'[shift] /\ shift + 1 <= age /\ ~(shift < shift')
          BY <2>1, <2>3, <3>1, <3>2, <4>1 DEF LogTyped
        <5> QED BY <2>1, <3>1, <5>1 DEF InPlace
      <4>2. CASE i # shift - 1
        <5>1. e \in rotated'[i] /\ (i < shift' => i < shift)
          BY <2>1, <2>3, <3>1, <3>2, <4>2 DEF LogTyped, Numbers
        <5> QED BY <3>1, <3>2, <5>1 DEF InPlace
      <4> QED BY <4>1, <4>2
    <3> QED BY <2>1, <3>1, <3>2 DEF InPlace
  <2> QED BY <2>2, <2>4, <2>5
<1>4. ASSUME NEW t \in LogThreads, Retitle(t) PROVE LogInv'
  <2>1. Shifting /\ 0 < keep /\ shift = 0 /\ rotated[0] = {} /\ 0 \in Numbers
    BY <1>4 DEF Retitle, Shifting, LogGuarded, LogTyped, Numbers
  <2>2. To(t, "reopen") /\ lock' = t /\ lock = t
    BY <1>4, <1>0 DEF Retitle
  <2>3. ~Shifting' /\ LogGuarded'
    BY <2>2, Leaving DEF LogGuarded
  <2>4. LogTyped'
    BY <1>4 DEF Retitle, LogTyped, Numbers, To
  <2>5. rotated'[0] = active /\ \A i \in Numbers : i # 0 => rotated'[i] = rotated[i]
    BY <1>4, <2>1 DEF Retitle, LogTyped, Numbers
  <2>6. LogPlaced'
    <3> SUFFICES ASSUME NEW e \in 1 .. Len(written) PROVE InPlace(e)'
      BY <1>4 DEF Retitle, LogPlaced
    <3>1. /\ generation - written[e] \in Nat /\ InPlace(e) /\ Numbers' = Numbers
          /\ UNCHANGED <<keep, generation, written>>
      BY <1>4 DEF Retitle, LogPlaced, LogTyped, Numbers
    <3>2. ASSUME NEW i \in Numbers, e \in rotated[i] PROVE e \in rotated'[i]
      BY <2>1, <2>5, <3>2
    <3> QED BY <2>1, <2>3, <2>5, <3>1, <3>2 DEF InPlace
  <2> QED BY <2>3, <2>4, <2>6
<1>5. ASSUME NEW t \in LogThreads, WriteEntry(t) PROVE LogInv'
  <2>1. To(t, "idle") /\ lock = t /\ ~Shifting
    BY <1>5, <1>0 DEF WriteEntry, Shifting
  <2>2. ~Shifting' /\ LogGuarded'
    BY <2>1, Leaving DEF LogGuarded
  <2>3. /\ Len(written') = Len(written) + 1 /\ written' \in Seq(Nat)
        /\ \A e \in 1 .. Len(written) : written'[e] = written[e]
        /\ written'[Len(written) + 1] = generation
    BY <1>5 DEF WriteEntry, LogTyped
  <2>4. LogTyped'
    BY <1>5, <2>3 DEF WriteEntry, LogTyped, Numbers, To
  <2>5. LogPlaced'
    <3>1. ASSUME NEW e \in 1 .. Len(written) PROVE (written[e] <= generation /\ InPlace(e))'
      BY <1>5, <2>1, <2>2, <2>3 DEF WriteEntry, LogPlaced, InPlace, LogTyped, Numbers
    <3>2. (written[Len(written)] <= generation /\ InPlace(Len(written)))'
      BY <1>5, <2>2, <2>3 DEF WriteEntry, InPlace, LogTyped
    <3>3. Len(written) \in Nat
      BY DEF LogTyped
    <3>4. ASSUME NEW e \in 1 .. Len(written') PROVE e \in 1 .. Len(written) \/ e = Len(written')
      BY <2>3, <3>3
    <3>5. \A e \in 1 .. Len(written') : (written[e] <= generation /\ InPlace(e))'
      BY <3>1, <3>2, <3>4
    <3> QED BY <3>5 DEF LogPlaced
  <2> QED BY <2>2, <2>4, <2>5
<1>6. ASSUME NEW t \in LogThreads, Reopen(t) \/ Fails(t) PROVE LogInv'
  <2>1. PICK step \in {"write", "idle"} : To(t, step) /\ (lock' = t \/ step = "idle")
    BY <1>6, <1>0 DEF Reopen, Fails
  <2>2. lock = t /\ UNCHANGED <<keep, active, rotated, shift, generation, written>>
    BY <1>6, <1>0 DEF Reopen, Fails
  <2>3. ~Shifting' /\ LogGuarded'
    BY <2>1, <2>2, Leaving DEF LogGuarded
  <2>4. LogTyped'
    BY <2>1, <2>2 DEF LogTyped, Numbers, To
  <2> QED BY <2>2, <2>3, <2>4, Unmoved
<1>7. ASSUME Killed PROVE LogInv'
  <2>1. ~Shifting' /\ LogGuarded' /\ LogTyped'
    BY <1>7 DEF Killed, Shifting, LogGuarded, LogTyped, Numbers
  <2> QED BY <1>7, <2>1, Unmoved DEF Killed
<1>8. ASSUME Tick PROVE LogInv'
  <2>1. LogTyped' /\ LogGuarded' /\ (Shifting' => Shifting)
    BY <1>8 DEF Tick, LogTyped, LogGuarded, Shifting, Numbers
  <2> QED BY <1>8, <2>1, Unmoved DEF Tick
<1> QED BY <1>1, <1>2, <1>3, <1>4, <1>5, <1>6, <1>7, <1>8 DEF LogNext

\* Whichever threads log and wherever a rotation fails or is killed, an entry is
\* in one of the files until more than keep rotations have begun since it was
\* written (_rotate_locked), for any number of files kept.
THEOREM EntriesOutliveRotations == Spec => []RecentEntriesKept
<1>1. Init => LogInv
  BY LogStart DEF Init
<1>2. LogInv /\ [Next]_gatewayVars => LogInv'
  <2> SUFFICES ASSUME LogInv, [Next]_gatewayVars PROVE LogInv'
    OBVIOUS
  <2>1. CASE UNCHANGED logVars
    BY <2>1 DEF logVars, LogInv, LogTyped, LogGuarded, LogPlaced, InPlace, Shifting, Numbers
  <2> QED BY <2>1, LogStep DEF Next, gatewayVars
<1>3. LogInv => RecentEntriesKept
  BY DEF LogInv, LogPlaced, InPlace, RecentEntriesKept, OnDisk
<1> QED BY <1>1, <1>2, <1>3, PTL DEF Spec, gatewayVars
-----------------------------------------------------------------------------
(***************************************************************************)
(* The proxy                                                               *)
(***************************************************************************)
\* What a request's log can hold before its outcome is written, and after.
Preface == [entry : {"request_start", "RAW_REQUEST", "TEMPLATE_ERROR", "MODEL_EXCHANGE_REQUEST",
                     "RENDER_SKIPPED", "trace"}, content : BOOLEAN]
Outcome == [entry : {"RAW_RESPONSE", "incomplete transport", "SSE [DONE]",
                     "HTTP response complete", "request_end"}, content : BOOLEAN]
Entry == Preface \cup Outcome
Has(s, x) == \E i \in DOMAIN s : s[i].entry = x
Boundaries == {"SSE [DONE]", "HTTP response complete"}

LEMMA HasConcat ==
  ASSUME NEW S, NEW s \in Seq(S), NEW u \in Seq(S), NEW x
  PROVE  s \o u \in Seq(S) /\ (Has(s \o u, x) <=> Has(s, x) \/ Has(u, x))
<1>1. /\ s \o u \in Seq(S) /\ Len(s \o u) = Len(s) + Len(u)
      /\ Len(s) \in Nat /\ Len(u) \in Nat
      /\ DOMAIN s = 1 .. Len(s) /\ DOMAIN u = 1 .. Len(u)
      /\ DOMAIN (s \o u) = 1 .. Len(s) + Len(u)
  BY ConcatProperties, LenProperties
<1>2. \A i \in 1 .. Len(s) : (s \o u)[i] = s[i] /\ i \in 1 .. Len(s) + Len(u)
  BY <1>1, ConcatProperties
<1>3. \A i \in 1 .. Len(u) : (s \o u)[Len(s) + i] = u[i] /\ Len(s) + i \in 1 .. Len(s) + Len(u)
  BY <1>1, ConcatProperties
<1>4. \A i \in 1 .. Len(s) + Len(u) :
        i \in 1 .. Len(s) \/ (i - Len(s) \in 1 .. Len(u) /\ i = Len(s) + (i - Len(s)))
  BY <1>1
<1>5. ASSUME Has(s \o u, x) PROVE Has(s, x) \/ Has(u, x)
  <2>1. PICK i \in 1 .. Len(s) + Len(u) : (s \o u)[i].entry = x
    BY <1>1, <1>5 DEF Has
  <2>2. CASE i \in 1 .. Len(s)
    BY <1>1, <1>2, <2>1, <2>2 DEF Has
  <2>3. CASE i - Len(s) \in 1 .. Len(u) /\ i = Len(s) + (i - Len(s))
    BY <1>1, <1>3, <2>1, <2>3 DEF Has
  <2> QED BY <1>4, <2>2, <2>3
<1>6. Has(s, x) \/ Has(u, x) => Has(s \o u, x)
  BY <1>1, <1>2, <1>3 DEF Has
<1> QED BY <1>1, <1>5, <1>6

LEMMA HasPrefix ==
  ASSUME NEW S, NEW u \in Seq(S), NEW n \in 0 .. Len(u) - 1, NEW x
  PROVE  SubSeq(u, 1, n) \in Seq(S) /\ (Has(SubSeq(u, 1, n), x) => Has(u, x))
<1>1. Len(u) \in Nat /\ DOMAIN u = 1 .. Len(u)
  BY LenProperties
<1>2. /\ SubSeq(u, 1, n) \in Seq(S) /\ DOMAIN SubSeq(u, 1, n) = 1 .. n
      /\ \A i \in 1 .. n : SubSeq(u, 1, n)[i] = u[i]
  <2>1. \A i \in 1 .. n : u[i] \in S
    BY <1>1, ElementOfSeq
  <2>2. SubSeq(u, 1, n) = [i \in 1 .. n |-> u[i]]
    BY <1>1, SubSeqProperties
  <2>3. [i \in 1 .. n |-> u[i]] \in Seq(S)
    BY <1>1, <2>1, IsASeq
  <2> QED BY <2>2, <2>3
<1> QED BY <1>1, <1>2 DEF Has

LEMMA NotPrefaced ==
  ASSUME NEW s \in Seq(Preface)
  PROVE  ~Has(s, "request_end") /\ \A x \in Boundaries : ~Has(s, x)
<1>1. \A i \in DOMAIN s : s[i] \in Preface
  BY LenProperties, ElementOfSeq
<1> QED BY <1>1 DEF Has, Preface, Boundaries

LEMMA HasOne ==
  ASSUME NEW S, NEW e \in S
  PROVE  /\ <<e>> \in Seq(S) /\ <<>> \in Seq(S)
         /\ \A x : (Has(<<e>>, x) <=> e.entry = x) /\ ~Has(<<>>, x)
<1>1. <<e>> \in Seq(S) /\ <<>> \in Seq(S)
  OBVIOUS
<1>2. DOMAIN <<e>> = {1} /\ <<e>>[1] = e
  OBVIOUS
<1>3. \A i \in DOMAIN <<>> : FALSE
  OBVIOUS
<1> QED BY <1>1, <1>2, <1>3 DEF Has

\* An entry is framed, or left out.
LEMMA FramedHolds ==
  ASSUME NEW S, NEW label, [entry |-> label, content |-> TRUE] \in S
  PROVE  Framed(label) \in Seq(S) /\ \A x : Has(Framed(label), x) => x = label
<1> DEFINE e == [entry |-> label, content |-> TRUE]
<1>1. e \in S /\ e.entry = label
  OBVIOUS
<1>2. Framed(label) = <<>> \/ Framed(label) = <<e>>
  BY DEF Framed
<1> HIDE DEF e
<1>3. /\ <<e>> \in Seq(S) /\ <<>> \in Seq(S)
      /\ \A x : (Has(<<e>>, x) <=> e.entry = x) /\ ~Has(<<>>, x)
  BY <1>1, HasOne
<1> QED BY <1>1, <1>2, <1>3

LEMMA RecordHolds ==
  /\ Record("request_start") \in Preface /\ Record("request_start").entry = "request_start"
  /\ Record("request_end") \in Outcome /\ Record("request_end").entry = "request_end"
<1>1. (logMode = "full") \in BOOLEAN
  OBVIOUS
<1> QED BY <1>1, Zenon DEF Record, Preface, Outcome

\* What the entries of a request are, whole.
LEMMA OpeningHolds ==
  ASSUME NEW r \in Requests
  PROVE  /\ Opening(r) \in Seq(Preface) /\ Trace(r) \in Seq(Preface)
         /\ Has(Opening(r), "request_start")
<1>1. Framed("RAW_REQUEST") \in Seq(Preface)
  BY FramedHolds DEF Preface
<1>2. Rendered(r) \in Seq(Preface)
  <2>1. /\ Framed("TEMPLATE_ERROR") \in Seq(Preface) /\ Framed("RENDER_SKIPPED") \in Seq(Preface)
        /\ Framed("MODEL_EXCHANGE_REQUEST") \in Seq(Preface)
    BY FramedHolds DEF Preface
  <2> QED BY <2>1 DEF Rendered
<1>3. Trace(r) \in Seq(Preface)
  <2>1. [entry |-> "trace", content |-> TRUE] \in Preface
    BY DEF Preface
  <2>2. <<[entry |-> "trace", content |-> TRUE]>> \in Seq(Preface)
    BY <2>1, HasOne
  <2> QED BY <2>2 DEF Trace, AlwaysTrace
<1>4. <<Record("request_start")>> \in Seq(Preface)
      /\ Has(<<Record("request_start")>>, "request_start")
  BY RecordHolds, HasOne
<1>5. <<Record("request_start")>> \o Framed("RAW_REQUEST") \in Seq(Preface)
      /\ Has(<<Record("request_start")>> \o Framed("RAW_REQUEST"), "request_start")
  BY <1>1, <1>4, HasConcat
<1> QED BY <1>2, <1>3, <1>5, HasConcat DEF Opening

LEMMA ClosingHolds ==
  ASSUME NEW r \in Requests, result[r].eof \in BOOLEAN, result[r].gone \in BOOLEAN
  PROVE  /\ Closing(r) \in Seq(Entry)
         /\ \A x \in Boundaries : Has(Closing(r), x) => Complete(r)
<1> DEFINE told == IF template # "none" /\ chat[r] THEN Framed(Boundary(r)) ELSE <<>>
<1> DEFINE end == <<Record("request_end")>>
<1>1. /\ Framed("RAW_RESPONSE") \in Seq(Entry)
      /\ \A x \in Boundaries : ~Has(Framed("RAW_RESPONSE"), x)
  <2>1. [entry |-> "RAW_RESPONSE", content |-> TRUE] \in Entry
    BY DEF Entry, Outcome
  <2>2. /\ Framed("RAW_RESPONSE") \in Seq(Entry)
        /\ \A x : Has(Framed("RAW_RESPONSE"), x) => x = "RAW_RESPONSE"
    BY <2>1, FramedHolds
  <2> QED BY <2>2 DEF Boundaries
<1>2. told \in Seq(Entry) /\ \A x \in Boundaries : Has(told, x) => Complete(r)
  <2>1. CASE template # "none" /\ chat[r]
    <3>1. [entry |-> Boundary(r), content |-> TRUE] \in Entry
      BY DEF Entry, Outcome, Boundary
    <3>2. /\ Framed(Boundary(r)) \in Seq(Entry)
          /\ \A x : Has(Framed(Boundary(r)), x) => x = Boundary(r)
      BY <3>1, FramedHolds
    <3>3. \A x \in Boundaries : x = Boundary(r) => Complete(r)
      BY DEF Boundary, Boundaries
    <3> QED BY <2>1, <3>2, <3>3
  <2>2. CASE ~(template # "none" /\ chat[r])
    <3>1. told = <<>>
      BY <2>2
    <3>2. <<>> \in Seq(Entry)
      OBVIOUS
    <3>3. \A x : ~Has(<<>>, x)
      BY RecordHolds, HasOne
    <3> QED BY <3>1, <3>2, <3>3
  <2> QED BY <2>1, <2>2
<1>3. end \in Seq(Entry) /\ \A x \in Boundaries : ~Has(end, x)
  <2>1. Record("request_end") \in Entry
    BY RecordHolds DEF Entry
  <2> QED BY <2>1, RecordHolds, HasOne DEF Boundaries
<1>4. Closing(r) = (Framed("RAW_RESPONSE") \o told) \o end
  BY DEF Closing
<1> HIDE DEF told, end
<1>5. /\ Framed("RAW_RESPONSE") \o told \in Seq(Entry)
      /\ \A x : Has(Framed("RAW_RESPONSE") \o told, x)
                  <=> Has(Framed("RAW_RESPONSE"), x) \/ Has(told, x)
  BY <1>1, <1>2, HasConcat
<1>6. /\ Closing(r) \in Seq(Entry)
      /\ \A x : Has(Closing(r), x) <=> Has(Framed("RAW_RESPONSE") \o told, x) \/ Has(end, x)
  <2>1. ASSUME NEW a \in Seq(Entry), NEW b \in Seq(Entry), NEW x
        PROVE  a \o b \in Seq(Entry) /\ (Has(a \o b, x) <=> Has(a, x) \/ Has(b, x))
    BY HasConcat
  <2>2. ASSUME NEW x
        PROVE  /\ (Framed("RAW_RESPONSE") \o told) \o end \in Seq(Entry)
               /\ Has((Framed("RAW_RESPONSE") \o told) \o end, x)
                    <=> Has(Framed("RAW_RESPONSE") \o told, x) \/ Has(end, x)
    BY <1>3, <1>5, <2>1
  <2> QED BY <1>4, <2>2
<1> QED BY <1>1, <1>2, <1>3, <1>5, <1>6

\* What a write adds: entries of theirs, and no other but a trace.
LEMMA WritesAdd ==
  ASSUME NEW r \in Requests, NEW S, Trace(r) \in Seq(S), DOMAIN disk = Requests,
         disk[r] \in Seq(S), NEW entries \in Seq(S), NEW next, Writes(r, entries, next)
  PROVE  /\ disk' = [disk EXCEPT ![r] = disk'[r]] /\ disk'[r] \in Seq(S)
         /\ \A x : Has(disk[r], x) => Has(disk'[r], x)
         /\ \A x : x # "trace" /\ Has(disk'[r], x) => Has(disk[r], x) \/ Has(entries, x)
         /\ \/ Goes(r, next) /\ \A x : Has(entries, x) => Has(disk'[r], x)
            \/ Goes(r, "raised")
<1>1. CASE disk' = [disk EXCEPT ![r] = @ \o entries] /\ Goes(r, next)
  BY <1>1, HasConcat
<1>2. CASE \E n \in 0 .. Len(entries) - 1 :
             /\ disk' = [disk EXCEPT ![r] = @ \o SubSeq(entries, 1, n) \o Trace(r)]
             /\ Goes(r, "raised")
  <2>1. PICK n \in 0 .. Len(entries) - 1 :
               disk' = [disk EXCEPT ![r] = @ \o SubSeq(entries, 1, n) \o Trace(r)]
    BY <1>2
  <2> DEFINE part == SubSeq(entries, 1, n)
  <2>2. part \in Seq(S) /\ \A x : Has(part, x) => Has(entries, x)
    BY HasPrefix
  <2>3. \A x : Has(Trace(r), x) => x = "trace"
    <3> DEFINE e == [entry |-> "trace", content |-> TRUE]
    <3>1. e.entry = "trace"
      OBVIOUS
    <3>2. Trace(r) = <<>> \/ Trace(r) = <<e>>
      BY DEF Trace, AlwaysTrace
    <3> HIDE DEF e
    <3>3. \A x : (Has(<<e>>, x) <=> e.entry = x) /\ ~Has(<<>>, x)
      <4>1. e \in {e}
        OBVIOUS
      <4> QED BY <4>1, HasOne
    <3> QED BY <3>1, <3>2, <3>3
  <2> HIDE DEF part
  <2>4. /\ disk[r] \o part \in Seq(S)
        /\ \A x : Has(disk[r] \o part, x) <=> Has(disk[r], x) \/ Has(part, x)
    BY <2>2, HasConcat
  <2>5. /\ (disk[r] \o part) \o Trace(r) \in Seq(S)
        /\ \A x : Has((disk[r] \o part) \o Trace(r), x) <=> Has(disk[r] \o part, x) \/ Has(Trace(r), x)
    BY <2>4, HasConcat
  <2>6. disk' = [disk EXCEPT ![r] = (disk[r] \o part) \o Trace(r)]
    BY <2>1 DEF part
  <2> QED BY <1>2, <2>2, <2>3, <2>4, <2>5, <2>6
<1> QED BY <1>1, <1>2 DEF Writes
-----------------------------------------------------------------------------
\* In metadata mode the log of a request is made of counters alone.
Silent == [entry : {"request_start", "request_end"}, content : {FALSE}]
ContentInv == logMode = "metadata" => disk \in [Requests -> Seq(Silent)]

LEMMA SilentEntries ==
  ASSUME logMode = "metadata", NEW r \in Requests
  PROVE  Opening(r) \in Seq(Silent) /\ Closing(r) \in Seq(Silent) /\ Trace(r) = <<>>
<1>1. /\ <<Record("request_start")>> \in Seq(Silent) /\ <<Record("request_end")>> \in Seq(Silent)
      /\ <<>> \in Seq(Silent)
  <2>1. Record("request_start") \in Silent /\ Record("request_end") \in Silent
    BY DEF Record, Silent
  <2> QED BY <2>1
<1>2. \A label : Framed(label) = <<>>
  BY DEF Framed
<1>3. Rendered(r) = <<>>
  BY <1>2 DEF Rendered, PromptError
<1>4. ASSUME NEW s \in Seq(Silent) PROVE s \o <<>> = s /\ <<>> \o s = s
  BY ConcatEmptySeq
<1>5. Opening(r) = <<Record("request_start")>>
  BY <1>1, <1>2, <1>3, <1>4 DEF Opening
<1>6. Closing(r) = <<Record("request_end")>>
  <2>1. (IF template # "none" /\ chat[r] THEN Framed(Boundary(r)) ELSE <<>>) = <<>>
    BY <1>2
  <2> QED BY <1>1, <1>2, <1>4, <2>1 DEF Closing
<1> QED BY <1>1, <1>5, <1>6 DEF Trace

LEMMA ContentStep == ASSUME ContentInv, ProxyNext PROVE ContentInv'
<1> SUFFICES ASSUME logMode = "metadata", disk \in [Requests -> Seq(Silent)]
             PROVE  disk' \in [Requests -> Seq(Silent)]
  <2>1. logMode' = logMode
    BY DEF ProxyNext, Accept, Begin, Respond, Refuse, Unreachable, Raises, Reset, Fail, Relay,
           EndOfReply, Finish, Leave, Term, Kill, Restart
  <2> QED BY <2>1 DEF ContentInv
<1>1. \A r \in Requests : Trace(r) = <<>> /\ Trace(r) \in Seq(Silent) /\ disk[r] \o Trace(r) = disk[r]
  <2>1. <<>> \in Seq(Silent)
    OBVIOUS
  <2> QED BY <2>1, SilentEntries, ConcatEmptySeq
<1>2. ASSUME NEW r \in Requests, Begin(r) \/ Finish(r) PROVE disk' \in [Requests -> Seq(Silent)]
  <2>1. PICK entries, next : entries \in Seq(Silent) /\ Writes(r, entries, next)
    BY <1>2, SilentEntries DEF Begin, Finish
  <2>2. disk' = [disk EXCEPT ![r] = disk'[r]] /\ disk'[r] \in Seq(Silent)
    BY <1>1, <2>1, WritesAdd
  <2> QED BY <2>2
<1>3. ASSUME NEW r \in Requests, Accept(r) \/ Raises(r) PROVE disk' \in [Requests -> Seq(Silent)]
  <2>1. CASE Accept(r)
    BY <1>1, <2>1 DEF Accept
  <2>2. CASE Raises(r)
    <3>1. disk' = [disk EXCEPT ![r] = @ \o Trace(r)]
      BY <2>2 DEF Raises
    <3> QED BY <1>1, <3>1
  <2> QED BY <1>3, <2>1, <2>2
<1>4. ASSUME NEW r \in Requests,
             \/ Respond(r) \/ Refuse(r) \/ Unreachable(r) \/ Reset(r) \/ Fail(r)
             \/ Relay(r) \/ EndOfReply(r) \/ Leave(r)
      PROVE  disk' = disk
  BY <1>4 DEF Respond, Refuse, Unreachable, Reset, Fail, Relay, EndOfReply, Leave
<1>5. ASSUME Term \/ Kill \/ Restart PROVE disk' = disk
  BY <1>5 DEF Term, Kill, Restart
<1>6. \/ disk' = disk
      \/ \E r \in Requests : Accept(r) \/ Begin(r) \/ Raises(r) \/ Finish(r)
  BY <1>4, <1>5 DEF ProxyNext
<1> QED BY <1>2, <1>3, <1>6

\* A proxy told to keep no content keeps none, on any path through a request
\* and for any exception (metadata_record, handle_error).
THEOREM NoContentIsKept == Spec => []MetadataKeepsNoContent
<1>1. Init => ContentInv
  BY DEF Init, ProxyInit, ContentInv
<1>2. ContentInv /\ [Next]_gatewayVars => ContentInv'
  <2> SUFFICES ASSUME ContentInv, [Next]_gatewayVars PROVE ContentInv'
    OBVIOUS
  <2>1. CASE UNCHANGED proxyVars
    BY <2>1 DEF proxyVars, ContentInv
  <2> QED BY <2>1, ContentStep DEF Next, gatewayVars
<1>3. ContentInv => MetadataKeepsNoContent
  <2> SUFFICES ASSUME logMode = "metadata", disk \in [Requests -> Seq(Silent)],
                      NEW r \in Requests, NEW i \in DOMAIN disk[r]
               PROVE  ~disk[r][i].content
    BY DEF ContentInv, MetadataKeepsNoContent
  <2>1. disk[r][i] \in Silent
    BY LenProperties, ElementOfSeq
  <2> QED BY <2>1 DEF Silent
<1> QED BY <1>1, <1>2, <1>3, PTL DEF Spec, gatewayVars
-----------------------------------------------------------------------------
Wire == [lines : Seq(Nat), chunks : Nat]
Result == [status : Nat, error : {"none", "client", "upstream", "proxy"}, gone : BOOLEAN,
           eof : BOOLEAN, captured : Nat]

ProxyTyped ==
  /\ DOMAIN handler = Requests /\ wire \in [Requests -> Wire]
  /\ result \in [Requests -> Result] /\ sent \in [Requests -> Nat]
  /\ disk \in [Requests -> Seq(Entry)]

\* What is known of a reply once nothing more of it is relayed.
Settled(r) ==
  /\ result[r].error = "none" =>
       wire[r].chunks = sent[r] /\ wire[r].lines = <<result[r].status>>
  /\ result[r].eof => result[r].error = "none"
  /\ wire[r].lines # <<>> /\ wire[r].lines[Len(wire[r].lines)] # result[r].status
       => result[r].gone
  /\ result[r].captured >= sent[r]

\* ReplyAsReported, for one request.
Reported(r) ==
  /\ Ended(r) => Says(r, "request_start")
  /\ \/ Ended(r) /\ result[r].error = "none"
     \/ Says(r, "SSE [DONE]") \/ Says(r, "HTTP response complete")
       => wire[r].chunks = sent[r] /\ wire[r].lines = <<result[r].status>>
  /\ Ended(r) /\ wire[r].lines # <<>> /\ wire[r].lines[Len(wire[r].lines)] # result[r].status
       => result[r].gone
  /\ Ended(r) => result[r].captured >= sent[r]

\* A handler's locals agree with the socket at every step, and its log holds
\* nothing about an outcome before there is one.
Relaying(r) ==
  /\ handler[r] \in {"idle", "begin", "open"} =>
       wire[r] = Untouched /\ sent[r] = 0 /\ result[r] = Fresh
  /\ handler[r] = "relay" =>
       /\ wire[r].lines = <<200>> /\ result[r].status = 200 /\ result[r].error = "none"
       /\ ~result[r].gone /\ ~result[r].eof
       /\ wire[r].chunks = sent[r] /\ result[r].captured = sent[r]
  /\ handler[r] = "finish" => Settled(r)

Logged(r) ==
  /\ handler[r] \in {"idle", "begin", "open", "relay", "finish"} => disk[r] \in Seq(Preface)
  /\ handler[r] \in {"open", "relay", "finish"} => Has(disk[r], "request_start")
  /\ Reported(r)

ReplyInv == ProxyTyped /\ \A r \in Requests : Relaying(r) /\ Logged(r)

\* A request is left as it was by the steps of the others.
Same(q) == /\ handler'[q] = handler[q] /\ wire'[q] = wire[q] /\ result'[q] = result[q]
           /\ sent'[q] = sent[q] /\ disk'[q] = disk[q]

LEMMA Aside ==
  ASSUME NEW q \in Requests, Relaying(q), Logged(q), Same(q)
  PROVE  Relaying(q)' /\ Logged(q)'
<1>1. Relaying(q)'
  BY DEF Relaying, Same, Settled
<1>2. Reported(q)'
  <2>1. \A x : Says(q, x)' <=> Says(q, x)
    BY DEF Same, Says
  <2>2. Ended(q)' <=> Ended(q)
    BY DEF Same, Ended
  <2>3. Reported(q)
    BY DEF Logged
  <2> QED BY <2>1, <2>2, <2>3 DEF Reported, Same
<1> QED BY <1>1, <1>2 DEF Logged, Same, Has

\* A log without an outcome reports nothing that could be wrong.
LEMMA Unreported == ASSUME NEW r \in Requests, disk'[r] \in Seq(Preface) PROVE Reported(r)'
<1>1. ~Has(disk'[r], "request_end") /\ \A x \in Boundaries : ~Has(disk'[r], x)
  BY NotPrefaced
<1> QED BY <1>1 DEF Reported, Ended, Says, Has, Boundaries

LEMMA PrefaceIsEntry == ASSUME NEW s \in Seq(Preface) PROVE s \in Seq(Entry)
<1>1. Preface \subseteq Entry
  BY DEF Entry
<1>2. Len(s) \in Nat /\ s \in [1 .. Len(s) -> Entry]
  BY <1>1, LenProperties, ElementOfSeq
<1> QED BY <1>2

LEMMA TakenGives ==
  ASSUME wire \in [Requests -> Wire], NEW r \in Requests, NEW lines \in Seq(Nat),
         NEW n \in Nat, Taken(r, lines, n)
  PROVE  /\ wire' \in [Requests -> Wire] /\ \A q \in Requests \ {r} : wire'[q] = wire[q]
         /\ wire'[r].lines = wire[r].lines \o lines /\ wire'[r].chunks = wire[r].chunks + n
<1>1. wire[r] \in Wire
  OBVIOUS
<1> DEFINE w == [lines |-> wire[r].lines \o lines, chunks |-> wire[r].chunks + n]
           first == [wire EXCEPT ![r].lines = @ \o lines]
<1>2. wire' = [wire EXCEPT ![r] = w]
  <2>1. wire' = [first EXCEPT ![r].chunks = @ + n]
    BY DEF Taken
  <2>2. first[r] = [lines |-> wire[r].lines \o lines, chunks |-> wire[r].chunks]
    BY <1>1 DEF Wire
  <2>3. DOMAIN first = Requests /\ \A q \in Requests \ {r} : first[q] = wire[q]
    OBVIOUS
  <2> HIDE DEF first
  <2>4. [first[r] EXCEPT !.chunks = @ + n] = w
    <3>1. ASSUME NEW a, NEW b, NEW c
          PROVE  [[lines |-> a, chunks |-> b] EXCEPT !.chunks = c] = [lines |-> a, chunks |-> c]
      OBVIOUS
    <3>2. first[r].chunks = wire[r].chunks
      BY <2>2
    <3>3. [[lines |-> wire[r].lines \o lines, chunks |-> wire[r].chunks]
            EXCEPT !.chunks = wire[r].chunks + n] = w
      BY <3>1
    <3> QED BY <2>2, <3>2, <3>3, Zenon
  <2> QED BY <2>1, <2>3, <2>4
<1>3. [lines |-> wire[r].lines \o lines, chunks |-> wire[r].chunks + n] \in Wire
  BY <1>1 DEF Wire
<1> QED BY <1>2, <1>3

\* A step of one request: what has to be shown of it.
LEMMA OneRequest ==
  ASSUME ReplyInv, NEW r \in Requests, \A q \in Requests \ {r} : Same(q),
         ProxyTyped', Relaying(r)', Logged(r)'
  PROVE  ReplyInv'
BY Aside DEF ReplyInv

\* A step that reaches "finish" without writing to the log.
LEMMA Finishing ==
  ASSUME ReplyInv, NEW r \in Requests, handler[r] \in {"open", "relay"},
         Goes(r, "finish"), UNCHANGED disk, ProxyTyped', Settled(r)',
         \A q \in Requests \ {r} :
           wire'[q] = wire[q] /\ result'[q] = result[q] /\ sent'[q] = sent[q]
  PROVE  ReplyInv'
<1>1. \A q \in Requests \ {r} : Same(q)
  BY DEF Goes, Same, ReplyInv, ProxyTyped
<1>2. handler'[r] = "finish" /\ disk'[r] = disk[r]
  BY DEF Goes, ReplyInv, ProxyTyped
<1>3. disk[r] \in Seq(Preface) /\ Has(disk[r], "request_start")
  BY DEF ReplyInv, Logged
<1>4. Relaying(r)' /\ Logged(r)'
  BY <1>2, <1>3, Unreported DEF Relaying, Logged, Has
<1> QED BY <1>1, <1>4, OneRequest

\* An answer of the proxy's own leaves the locals and the socket agreed.
LEMMA AnswerSettles ==
  ASSUME ReplyInv, NEW r \in Requests, handler[r] \in {"open", "relay"},
         NEW status \in Nat, NEW error \in {"upstream", "proxy"}, Answer(r, status, error),
         UNCHANGED disk, sent' = sent \/ (handler[r] = "open" /\ sent' = [sent EXCEPT ![r] = 1])
  PROVE  ReplyInv'
<1> DEFINE was == result[r]
<1>1. /\ wire[r] \in Wire /\ was \in Result /\ sent[r] \in Nat /\ ~was.eof
      /\ was.captured = sent[r] /\ (handler[r] = "open" => sent[r] = 0)
  BY DEF ReplyInv, ProxyTyped, Relaying, Fresh
<1>2. /\ sent' \in [Requests -> Nat] /\ sent'[r] <= sent[r] + 1
      /\ \A q \in Requests \ {r} : sent'[q] = sent[q]
  BY <1>1 DEF ReplyInv, ProxyTyped
<1>3. PICK gone \in BOOLEAN :
        /\ result' = [result EXCEPT ![r] = [was EXCEPT !.status = status, !.error = error,
                                              !.captured = @ + 1, !.gone = gone]]
        /\ Taken(r, <<status>>, 1) \/ (gone /\ UNCHANGED wire)
  <2>1. was.gone \in BOOLEAN
    BY <1>1 DEF Result
  <2>2. CASE Taken(r, <<status>>, 1) /\ Notes(r, [was EXCEPT !.status = status, !.error = error,
                                                            !.captured = @ + 1])
    <3>1. [was EXCEPT !.status = status, !.error = error, !.captured = @ + 1]
            = [was EXCEPT !.status = status, !.error = error, !.captured = @ + 1, !.gone = was.gone]
      BY <1>1 DEF Result
    <3> QED BY <2>1, <2>2, <3>1 DEF Notes
  <2>3. CASE Broken(r) /\ Notes(r, [was EXCEPT !.status = status, !.error = error,
                                              !.captured = @ + 1, !.gone = TRUE])
    BY <2>3 DEF Notes, Broken
  <2> QED BY <2>2, <2>3 DEF Answer
<1> DEFINE now == [was EXCEPT !.status = status, !.error = error,
                              !.captured = was.captured + 1, !.gone = gone]
<1>4. was.captured + 1 \in Nat
  BY <1>1 DEF Result
<1>5. /\ now \in Result /\ now.status = status /\ now.error = error
      /\ now.captured = was.captured + 1 /\ now.gone = gone /\ now.eof = was.eof
  BY <1>1, <1>4 DEF Result
<1>6. /\ result' \in [Requests -> Result] /\ result'[r] = now
      /\ \A q \in Requests \ {r} : result'[q] = result[q]
  <2>1. result' = [result EXCEPT ![r] = now]
    BY <1>3
  <2> HIDE DEF now
  <2> QED BY <1>5, <2>1 DEF ReplyInv, ProxyTyped
<1> HIDE DEF now
<1>7. /\ wire' \in [Requests -> Wire] /\ \A q \in Requests \ {r} : wire'[q] = wire[q]
      /\ ~gone => wire'[r].lines = wire[r].lines \o <<status>>
  <2>1. <<status>> \in Seq(Nat) /\ 1 \in Nat
    OBVIOUS
  <2>2. CASE Taken(r, <<status>>, 1)
    BY <2>1, <2>2, TakenGives DEF ReplyInv, ProxyTyped
  <2>3. CASE gone /\ UNCHANGED wire
    BY <2>3 DEF ReplyInv, ProxyTyped
  <2> QED BY <1>3, <2>2, <2>3
<1>8. ~gone => wire'[r].lines[Len(wire'[r].lines)] = status
  <2>1. wire[r].lines \in Seq(Nat)
    BY <1>1 DEF Wire
  <2>2. ASSUME NEW s \in Seq(Nat) PROVE (s \o <<status>>)[Len(s \o <<status>>)] = status
    OBVIOUS
  <2> QED BY <1>7, <2>1, <2>2
<1>9. Settled(r)'
  BY <1>1, <1>2, <1>5, <1>6, <1>8 DEF Settled
<1>10. ProxyTyped' /\ Goes(r, "finish")
  BY <1>2, <1>6, <1>7 DEF ReplyInv, ProxyTyped, Answer, Goes
<1> QED BY <1>2, <1>6, <1>7, <1>9, <1>10, Finishing

LEMMA ReplyStart == ASSUME ProxyInit PROVE ReplyInv
<1>1. Untouched \in Wire /\ Fresh \in Result /\ <<>> \in Seq(Entry) /\ <<>> \in Seq(Preface)
  BY DEF Untouched, Fresh, Wire, Result
<1>2. ProxyTyped
  BY <1>1 DEF ProxyInit, ProxyTyped
<1>3. ASSUME NEW r \in Requests PROVE Relaying(r) /\ Logged(r)
  <2>1. disk[r] = <<>> /\ handler[r] = "idle"
    BY DEF ProxyInit
  <2>2. \A i \in DOMAIN <<>> : FALSE
    OBVIOUS
  <2>3. Relaying(r)
    BY <2>1 DEF ProxyInit, Relaying
  <2>4. Reported(r)
    BY <2>1, <2>2 DEF Reported, Ended, Says
  <2> QED BY <1>1, <2>1, <2>3, <2>4 DEF Logged
<1> QED BY <1>2, <1>3 DEF ReplyInv

LEMMA AcceptKeeps == ASSUME ReplyInv, NEW r \in Requests, Accept(r) PROVE ReplyInv'
<1>1. UNCHANGED <<wire, result, sent>> /\ handler[r] = "idle"
  BY DEF Accept
<1>2. disk[r] \in Seq(Preface) /\ Trace(r) \in Seq(Preface)
  BY <1>1, OpeningHolds DEF ReplyInv, Logged
<1>3. CASE Goes(r, "begin") /\ UNCHANGED disk
  <2>1. handler'[r] = "begin" /\ ProxyTyped' /\ \A q \in Requests \ {r} : Same(q)
    BY <1>1, <1>3 DEF Goes, Same, ReplyInv, ProxyTyped
  <2>2. Relaying(r)' /\ Logged(r)'
    BY <1>1, <1>2, <1>3, <2>1, Unreported DEF ReplyInv, Relaying, Logged
  <2> QED BY <2>1, <2>2, OneRequest
<1>4. CASE Goes(r, "raised") /\ disk' = [disk EXCEPT ![r] = Trace(r)]
  <2>1. handler'[r] = "raised" /\ disk'[r] \in Seq(Preface)
    BY <1>2, <1>4 DEF Goes, ReplyInv, ProxyTyped
  <2>2. ProxyTyped' /\ \A q \in Requests \ {r} : Same(q)
    BY <1>1, <1>2, <1>4, PrefaceIsEntry DEF Goes, Same, ReplyInv, ProxyTyped
  <2>3. Relaying(r)' /\ Logged(r)'
    BY <2>1, Unreported DEF Relaying, Logged
  <2> QED BY <2>2, <2>3, OneRequest
<1> QED BY <1>3, <1>4 DEF Accept

LEMMA BeginKeeps == ASSUME ReplyInv, NEW r \in Requests, Begin(r) PROVE ReplyInv'
<1>1. /\ UNCHANGED <<wire, result, sent>> /\ handler[r] = "begin"
      /\ Writes(r, Opening(r), "open") /\ DOMAIN disk = Requests
  BY DEF Begin, ReplyInv, ProxyTyped
<1>2. disk[r] \in Seq(Preface) /\ Trace(r) \in Seq(Preface) /\ Opening(r) \in Seq(Preface)
      /\ Has(Opening(r), "request_start")
  BY <1>1, OpeningHolds DEF ReplyInv, Logged
<1>3. /\ disk' = [disk EXCEPT ![r] = disk'[r]] /\ disk'[r] \in Seq(Preface)
      /\ \/ Goes(r, "open") /\ \A x : Has(Opening(r), x) => Has(disk'[r], x)
         \/ Goes(r, "raised")
  BY <1>1, <1>2, WritesAdd
<1>4. ProxyTyped' /\ \A q \in Requests \ {r} : Same(q)
  <2>1. disk' \in [Requests -> Seq(Entry)]
    BY <1>3, PrefaceIsEntry DEF ReplyInv, ProxyTyped
  <2> QED BY <1>1, <1>3, <2>1 DEF Goes, Same, ReplyInv, ProxyTyped
<1>5. handler'[r] = "raised" \/ (handler'[r] = "open" /\ Has(disk'[r], "request_start"))
  BY <1>2, <1>3 DEF Goes, ReplyInv, ProxyTyped
<1>6. Relaying(r)' /\ Logged(r)'
  <2>1. Reported(r)'
    BY <1>3, Unreported
  <2>2. Relaying(r)'
    BY <1>1, <1>5 DEF ReplyInv, Relaying
  <2> QED BY <1>3, <1>5, <2>1, <2>2 DEF Logged, Has
<1> QED BY <1>4, <1>6, OneRequest

LEMMA RespondKeeps == ASSUME ReplyInv, NEW r \in Requests, Respond(r) PROVE ReplyInv'
<1>1. /\ UNCHANGED <<sent, disk>> /\ handler[r] = "open"
      /\ wire[r] = Untouched /\ sent[r] = 0 /\ result[r] = Fresh
      /\ disk[r] \in Seq(Preface) /\ Has(disk[r], "request_start")
  BY DEF Respond, ReplyInv, Relaying, Logged
<1>2. CASE Taken(r, <<200>>, 0) /\ Notes(r, [result[r] EXCEPT !.status = 200]) /\ Goes(r, "relay")
  <2>1. <<200>> \in Seq(Nat) /\ <<>> \o <<200>> = <<200>> /\ 0 \in Nat
    OBVIOUS
  <2>2. /\ wire' \in [Requests -> Wire] /\ \A q \in Requests \ {r} : wire'[q] = wire[q]
        /\ wire'[r].lines = wire[r].lines \o <<200>> /\ wire'[r].chunks = wire[r].chunks + 0
    BY <1>2, <2>1, TakenGives DEF ReplyInv, ProxyTyped
  <2>3. wire'[r].lines = <<200>> /\ wire'[r].chunks = 0
    BY <1>1, <2>1, <2>2 DEF Untouched
  <2>4. /\ [Fresh EXCEPT !.status = 200] \in Result
        /\ LET now == [Fresh EXCEPT !.status = 200] IN
             now.status = 200 /\ now.error = "none" /\ ~now.gone /\ ~now.eof /\ now.captured = 0
    BY DEF Fresh, Result
  <2>5. /\ result' \in [Requests -> Result] /\ result'[r] = [Fresh EXCEPT !.status = 200]
        /\ \A q \in Requests \ {r} : result'[q] = result[q]
    BY <1>1, <1>2, <2>4 DEF Notes, ReplyInv, ProxyTyped
  <2>6. ProxyTyped' /\ (\A q \in Requests \ {r} : Same(q)) /\ handler'[r] = "relay"
    BY <1>1, <1>2, <2>2, <2>5 DEF Goes, Same, ReplyInv, ProxyTyped
  <2>7. Relaying(r)'
    BY <1>1, <2>3, <2>4, <2>5, <2>6 DEF Relaying
  <2>8. Logged(r)'
    BY <1>1, <2>6, Unreported DEF Logged, Has
  <2> QED BY <2>6, <2>7, <2>8, OneRequest
<1>3. CASE /\ Broken(r) /\ Goes(r, "finish")
           /\ Notes(r, [result[r] EXCEPT !.status = 200, !.error = "client", !.gone = TRUE])
  <2>1. LET now == [Fresh EXCEPT !.status = 200, !.error = "client", !.gone = TRUE] IN
        now \in Result /\ now.error = "client" /\ now.gone /\ ~now.eof /\ now.captured = 0
    BY DEF Fresh, Result
  <2>2. /\ result' \in [Requests -> Result] /\ \A q \in Requests \ {r} : result'[q] = result[q]
        /\ result'[r] = [Fresh EXCEPT !.status = 200, !.error = "client", !.gone = TRUE]
    BY <1>1, <1>3, <2>1 DEF Notes, ReplyInv, ProxyTyped
  <2>3. ProxyTyped' /\ UNCHANGED wire
    BY <1>1, <1>3, <2>2 DEF Broken, Goes, ReplyInv, ProxyTyped
  <2>4. Settled(r)'
    BY <1>1, <2>1, <2>2 DEF Settled
  <2> QED BY <1>1, <1>3, <2>2, <2>3, <2>4, Finishing
<1> QED BY <1>2, <1>3 DEF Respond

LEMMA RefuseKeeps == ASSUME ReplyInv, NEW r \in Requests, Refuse(r) PROVE ReplyInv'
<1>1. handler[r] = "open" /\ Answer(r, 404, "upstream") /\ sent' = [sent EXCEPT ![r] = 1] /\ UNCHANGED disk
  BY DEF Refuse
<1>2. 404 \in Nat /\ "upstream" \in {"upstream", "proxy"}
  OBVIOUS
<1> QED BY <1>1, <1>2, AnswerSettles

\* An exception that leaves _proxy leaves a log without an outcome.
LEMMA RaisesKeeps == ASSUME ReplyInv, NEW r \in Requests, Raises(r) PROVE ReplyInv'
<1>1. /\ handler[r] \in {"open", "relay"} /\ Goes(r, "raised")
      /\ disk' = [disk EXCEPT ![r] = @ \o Trace(r)] /\ UNCHANGED <<sent, result>>
  BY DEF Raises
<1>2. disk[r] \o Trace(r) \in Seq(Preface)
  BY <1>1, OpeningHolds, HasConcat DEF ReplyInv, Logged
<1>3. disk'[r] \in Seq(Preface) /\ handler'[r] = "raised"
  BY <1>1, <1>2 DEF Goes, ReplyInv, ProxyTyped
<1>4. wire' \in [Requests -> Wire] /\ \A q \in Requests \ {r} : wire'[q] = wire[q]
  <2>1. ASSUME wire' = wire
        PROVE  wire' \in [Requests -> Wire] /\ \A q \in Requests \ {r} : wire'[q] = wire[q]
    BY <2>1 DEF ReplyInv, ProxyTyped
  <2>2. ASSUME NEW status \in Nat, Taken(r, <<status>>, 0)
        PROVE  wire' \in [Requests -> Wire] /\ \A q \in Requests \ {r} : wire'[q] = wire[q]
    <3>1. <<status>> \in Seq(Nat) /\ 0 \in Nat
      OBVIOUS
    <3> QED BY <2>2, <3>1, TakenGives DEF ReplyInv, ProxyTyped
  <2>3. wire' = wire \/ \E status \in Nat : Taken(r, <<status>>, 0)
    <3>1. (IF handler[r] = "open" THEN {404, 500, 502} ELSE {500}) \subseteq Nat
      OBVIOUS
    <3> QED BY <3>1 DEF Raises
  <2> QED BY <2>1, <2>2, <2>3
<1>5. ProxyTyped' /\ \A q \in Requests \ {r} : Same(q)
  BY <1>1, <1>2, <1>4, PrefaceIsEntry DEF Goes, Same, ReplyInv, ProxyTyped
<1>6. Relaying(r)' /\ Logged(r)'
  BY <1>3, Unreported DEF Relaying, Logged
<1> QED BY <1>5, <1>6, OneRequest

LEMMA FailKeeps ==
  ASSUME ReplyInv, NEW r \in Requests, Unreachable(r) \/ Fail(r)
  PROVE  ReplyInv'
<1>1. /\ handler[r] \in {"open", "relay"} /\ UNCHANGED <<sent, disk>>
      /\ Answer(r, 502, "upstream") \/ Answer(r, 500, "proxy")
  BY DEF Unreachable, Fail
<1>2. 502 \in Nat /\ 500 \in Nat /\ {"upstream", "proxy"} = {"upstream"} \cup {"proxy"}
  OBVIOUS
<1> QED BY <1>1, <1>2, AnswerSettles

LEMMA EndKeeps ==
  ASSUME ReplyInv, NEW r \in Requests, Reset(r) \/ EndOfReply(r)
  PROVE  ReplyInv'
<1> DEFINE was == result[r]
<1>1. /\ handler[r] \in {"open", "relay"} /\ UNCHANGED <<wire, sent, disk>> /\ Goes(r, "finish")
      /\ was \in Result
  BY DEF Reset, EndOfReply, ReplyInv, ProxyTyped
<1>2. PICK now \in Result :
        /\ result' = [result EXCEPT ![r] = now] /\ now.captured = was.captured
        /\ \/ now.error = "client" /\ now.gone /\ now.eof = was.eof
           \/ /\ handler[r] = "relay"
              /\ now.error = was.error /\ now.gone = was.gone /\ now.status = was.status
  <2>1. CASE Reset(r)
    <3> DEFINE now == [was EXCEPT !.error = "client", !.gone = TRUE]
    <3>1. /\ now \in Result /\ now.captured = was.captured /\ now.error = "client" /\ now.gone
          /\ now.eof = was.eof
      BY <1>1 DEF Result
    <3> QED BY <2>1, <3>1 DEF Reset, Notes
  <2>2. CASE EndOfReply(r)
    <3> DEFINE now == [was EXCEPT !.eof = TRUE]
    <3>1. /\ now \in Result /\ now.captured = was.captured /\ now.error = was.error
          /\ now.gone = was.gone /\ now.status = was.status
      BY <1>1 DEF Result
    <3> QED BY <2>2, <3>1 DEF EndOfReply, Notes
  <2> QED BY <2>1, <2>2
<1>3. /\ result' \in [Requests -> Result] /\ result'[r] = now
      /\ \A q \in Requests \ {r} : result'[q] = result[q]
  BY <1>2 DEF ReplyInv, ProxyTyped
<1>4. ProxyTyped'
  BY <1>1, <1>3 DEF Goes, ReplyInv, ProxyTyped
<1>5. /\ handler[r] = "open" => sent[r] = 0 /\ was.captured = 0 /\ ~was.eof
      /\ handler[r] = "relay" =>
           /\ wire[r].lines = <<200>> /\ was.status = 200 /\ was.error = "none" /\ ~was.gone
           /\ ~was.eof /\ wire[r].chunks = sent[r] /\ was.captured = sent[r]
      /\ sent[r] \in Nat
  BY DEF ReplyInv, ProxyTyped, Relaying, Fresh
<1>6. Settled(r)'
  BY <1>1, <1>2, <1>3, <1>5 DEF Settled
<1> QED BY <1>1, <1>3, <1>4, <1>6, Finishing

LEMMA RelayKeeps == ASSUME ReplyInv, NEW r \in Requests, Relay(r) PROVE ReplyInv'
<1> DEFINE was == result[r]
<1>1. /\ handler[r] = "relay" /\ UNCHANGED disk /\ sent' = [sent EXCEPT ![r] = @ + 1]
      /\ was \in Result /\ sent[r] \in Nat /\ wire[r] \in Wire
      /\ wire[r].lines = <<200>> /\ was.status = 200 /\ was.error = "none" /\ ~was.gone
      /\ ~was.eof /\ wire[r].chunks = sent[r] /\ was.captured = sent[r]
      /\ disk[r] \in Seq(Preface) /\ Has(disk[r], "request_start")
  BY DEF Relay, ReplyInv, ProxyTyped, Relaying, Logged
<1>2. /\ sent' \in [Requests -> Nat] /\ sent'[r] = sent[r] + 1
      /\ \A q \in Requests \ {r} : sent'[q] = sent[q]
  BY <1>1 DEF ReplyInv, ProxyTyped
<1>3. /\ NotNoticed(r) \in Result /\ NotNoticed(r).captured = was.captured + 1
      /\ NotNoticed(r).status = was.status /\ NotNoticed(r).error = was.error
      /\ NotNoticed(r).gone = was.gone /\ NotNoticed(r).eof = was.eof
  BY <1>1 DEF NotNoticed, Result
<1>4. CASE /\ Taken(r, <<>>, 1) /\ Notes(r, [result[r] EXCEPT !.captured = @ + 1])
           /\ UNCHANGED handler
  <2>1. <<>> \in Seq(Nat) /\ 1 \in Nat /\ <<200>> \o <<>> = <<200>>
    OBVIOUS
  <2>2. /\ wire' \in [Requests -> Wire] /\ \A q \in Requests \ {r} : wire'[q] = wire[q]
        /\ wire'[r].lines = wire[r].lines \o <<>> /\ wire'[r].chunks = wire[r].chunks + 1
    BY <1>4, <2>1, TakenGives DEF ReplyInv, ProxyTyped
  <2>3. wire'[r].lines = <<200>> /\ wire'[r].chunks = sent'[r]
    BY <1>1, <1>2, <2>1, <2>2
  <2>4. result' = [result EXCEPT ![r] = NotNoticed(r)]
    BY <1>4 DEF Notes, NotNoticed
  <2>5. /\ result' \in [Requests -> Result] /\ result'[r] = NotNoticed(r)
        /\ \A q \in Requests \ {r} : result'[q] = result[q]
    BY <1>3, <2>4 DEF ReplyInv, ProxyTyped
  <2>6. ProxyTyped' /\ \A q \in Requests \ {r} : Same(q)
    BY <1>1, <1>2, <1>4, <2>2, <2>5 DEF Same, ReplyInv, ProxyTyped
  <2>7. Relaying(r)'
    BY <1>1, <1>2, <1>3, <1>4, <2>3, <2>5 DEF Relaying
  <2>8. Logged(r)'
    BY <1>1, <1>4, Unreported DEF Logged, Has
  <2> QED BY <2>6, <2>7, <2>8, OneRequest
<1>5. CASE /\ Broken(r) /\ Notes(r, WhenBroken(r))
           /\ Goes(r, IF WhenBroken(r).gone THEN "finish" ELSE "relay")
  <2>1. /\ WhenBroken(r) \in Result /\ WhenBroken(r).error = "client" /\ WhenBroken(r).gone
        /\ WhenBroken(r).captured = was.captured + 1 /\ ~WhenBroken(r).eof
    <3> HIDE DEF was
    <3> QED BY <1>1, <1>3 DEF WhenBroken, Result
  <2>2. /\ result' \in [Requests -> Result] /\ result'[r] = WhenBroken(r)
        /\ \A q \in Requests \ {r} : result'[q] = result[q]
    BY <1>5, <2>1 DEF Notes, ReplyInv, ProxyTyped
  <2>3. Goes(r, "finish") /\ UNCHANGED wire
    BY <1>5, <2>1 DEF Broken
  <2>4. ProxyTyped'
    BY <1>1, <1>2, <2>2, <2>3 DEF Goes, ReplyInv, ProxyTyped
  <2>5. Settled(r)'
    BY <1>1, <1>2, <2>1, <2>2, <2>3 DEF Settled
  <2> QED BY <1>1, <1>2, <2>2, <2>3, <2>4, <2>5, Finishing
<1> QED BY <1>4, <1>5 DEF Relay

LEMMA FinishKeeps == ASSUME ReplyInv, NEW r \in Requests, Finish(r) PROVE ReplyInv'
<1>1. /\ UNCHANGED <<wire, result, sent>> /\ handler[r] = "finish" /\ Settled(r)
      /\ Writes(r, Closing(r), "done") /\ DOMAIN disk = Requests /\ result[r] \in Result
      /\ disk[r] \in Seq(Preface) /\ Has(disk[r], "request_start")
  BY DEF Finish, ReplyInv, ProxyTyped, Relaying, Logged
<1>2. /\ disk[r] \in Seq(Entry) /\ Trace(r) \in Seq(Entry) /\ Closing(r) \in Seq(Entry)
      /\ \A x \in Boundaries : ~Has(disk[r], x) /\ (Has(Closing(r), x) => Complete(r))
  <2>1. result[r].eof \in BOOLEAN /\ result[r].gone \in BOOLEAN
    BY <1>1 DEF Result
  <2> QED BY <1>1, <2>1, OpeningHolds, ClosingHolds, NotPrefaced, PrefaceIsEntry
<1>3. /\ disk' = [disk EXCEPT ![r] = disk'[r]] /\ disk'[r] \in Seq(Entry)
      /\ \A x : Has(disk[r], x) => Has(disk'[r], x)
      /\ \A x : x # "trace" /\ Has(disk'[r], x) => Has(disk[r], x) \/ Has(Closing(r), x)
      /\ Goes(r, "done") \/ Goes(r, "raised")
  BY <1>1, <1>2, WritesAdd
<1>4. ProxyTyped' /\ \A q \in Requests \ {r} : Same(q)
  BY <1>1, <1>3 DEF Goes, Same, ReplyInv, ProxyTyped
<1>5. handler'[r] \in {"done", "raised"}
  BY <1>3 DEF Goes, ReplyInv, ProxyTyped
<1>6. \A x \in Boundaries : Has(disk'[r], x) => result[r].error = "none"
  <2>1. \A x \in Boundaries : x # "trace"
    BY DEF Boundaries
  <2>2. Complete(r) => result[r].error = "none"
    BY <1>1 DEF Complete, Settled
  <2> QED BY <1>2, <1>3, <2>1, <2>2
<1>7. Reported(r)'
  <2>1. Says(r, "request_start")'
    BY <1>1, <1>3 DEF Says, Has
  <2>2. (Says(r, "SSE [DONE]") \/ Says(r, "HTTP response complete"))' => result[r].error = "none"
    BY <1>6 DEF Says, Has, Boundaries
  <2>3. /\ Settled(r) /\ wire' = wire /\ result' = result /\ sent' = sent
    BY <1>1
  <2> QED BY <2>1, <2>2, <2>3 DEF Reported, Settled
<1>8. Relaying(r)' /\ Logged(r)'
  BY <1>5, <1>7 DEF Relaying, Logged
<1> QED BY <1>4, <1>8, OneRequest

\* Being killed takes a handler from its request; nothing else changes of it.
LEMMA ServerKeeps ==
  ASSUME ReplyInv, UNCHANGED <<wire, result, sent, disk>>, DOMAIN handler' = Requests,
         \A r \in Requests : handler'[r] = handler[r] \/ handler'[r] = "killed"
  PROVE  ReplyInv'
<1>1. ASSUME NEW r \in Requests PROVE Relaying(r)' /\ Logged(r)'
  <2>1. CASE handler'[r] = handler[r]
    BY <2>1, Aside DEF Same, ReplyInv
  <2>2. CASE handler'[r] = "killed"
    <3>1. Reported(r)'
      <4>1. Reported(r)
        BY DEF ReplyInv, Logged
      <4> QED BY <4>1 DEF Reported, Ended, Says
    <3> QED BY <2>2, <3>1 DEF Relaying, Logged
  <2> QED BY <2>1, <2>2
<1> QED BY <1>1 DEF ReplyInv, ProxyTyped

LEMMA ReplyStep == ASSUME ReplyInv, ProxyNext PROVE ReplyInv'
<1>1. ASSUME NEW r \in Requests,
             \/ Accept(r) \/ Begin(r) \/ Respond(r) \/ Refuse(r) \/ Raises(r)
             \/ Unreachable(r) \/ Reset(r) \/ Fail(r) \/ Relay(r) \/ EndOfReply(r) \/ Finish(r)
      PROVE  ReplyInv'
  BY <1>1, AcceptKeeps, BeginKeeps, RespondKeeps, RefuseKeeps, RaisesKeeps, FailKeeps, EndKeeps,
     RelayKeeps, FinishKeeps
<1>2. ASSUME (\E r \in Requests : Leave(r)) \/ Term \/ Kill \/ Restart PROVE ReplyInv'
  <2>1. /\ UNCHANGED <<wire, result, sent, disk>> /\ DOMAIN handler' = Requests
        /\ \A r \in Requests : handler'[r] = handler[r] \/ handler'[r] = "killed"
    BY <1>2 DEF Leave, Term, Kill, Restart, ReplyInv, ProxyTyped
  <2> QED BY <2>1, ServerKeeps
<1> QED BY <1>1, <1>2 DEF ProxyNext

\* What the log says of a request is what its client was given, whatever failed
\* and whoever left, for any number of requests and chunks (_proxy).
THEOREM RepliesAreReported == Spec => []ReplyAsReported
<1>1. Init => ReplyInv
  BY ReplyStart DEF Init
<1>2. ReplyInv /\ [Next]_gatewayVars => ReplyInv'
  <2> SUFFICES ASSUME ReplyInv, [Next]_gatewayVars PROVE ReplyInv'
    OBVIOUS
  <2>1. CASE UNCHANGED proxyVars
    <3>1. /\ UNCHANGED <<wire, result, sent, disk>> /\ DOMAIN handler' = Requests
          /\ \A r \in Requests : handler'[r] = handler[r]
      BY <2>1 DEF proxyVars, ReplyInv, ProxyTyped
    <3> QED BY <3>1, ServerKeeps
  <2> QED BY <2>1, ReplyStep DEF Next, gatewayVars
<1>3. ReplyInv => ReplyAsReported
  BY DEF ReplyInv, Logged, Reported, ReplyAsReported
<1> QED BY <1>1, <1>2, <1>3, PTL DEF Spec, gatewayVars
=============================================================================
