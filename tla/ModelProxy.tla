---------------------------- MODULE ModelProxy -----------------------------
(***************************************************************************)
(* The model proxy tap (model_proxy_tap.py): one handler thread a request  *)
(* relays an upstream's reply chunk by chunk while it records, in a log    *)
(* the operator reads, what was asked, what was answered and how it ended. *)
(* Clients go away, upstreams cut or reset the connection, the log cannot  *)
(* be written, and the service is stopped at any step.                     *)
(*                                                                         *)
(* A reply is the number of chunks it has.  wire is what was handed to the *)
(* client's socket: the status lines written, in order, and the chunks.    *)
(***************************************************************************)
EXTENDS Naturals, Sequences

CONSTANTS Requests,
          MaxChunks   \* bound: chunks of a reply

ASSUME ProxyAssumption == MaxChunks \in Nat

VARIABLES logMode,   \* MODEL_PROXY_LOG_MODE: "full" or "metadata"
          template,  \* --chat-template
          server,    \* "serving", "stopping" after a TERM, "killed"
          handler,   \* [Requests -> where _proxy is]
          chat,      \* [Requests -> render_eligible]
          client,    \* [Requests -> "there" or "gone"]
          sent,      \* [Requests -> chunks the upstream has sent]
          marked,    \* [Requests -> whether one of them is "data: [DONE]"]
          wire,      \* [Requests -> what the client's socket was given]
          result,    \* [Requests -> the handler's locals about the outcome]
          disk       \* [Requests -> what has been persisted of the request]

proxyVars == <<logMode, template, server, handler, chat, client, sent, marked, wire,
               result, disk>>

Untouched == [lines |-> <<>>, chunks |-> 0]
Fresh == [status |-> 502, error |-> "none", gone |-> FALSE, eof |-> FALSE,
          captured |-> 0]

(* No --chat-template, one that was read and parsed, one that was not. *)
Templates == {"none", "loaded", "broken"}

ProxyInit ==
  /\ logMode \in {"full", "metadata"}
  /\ template \in Templates
  /\ server = "serving"
  /\ handler = [r \in Requests |-> "idle"]
  /\ chat = [r \in Requests |-> FALSE]
  /\ client = [r \in Requests |-> "there"]
  /\ sent = [r \in Requests |-> 0]
  /\ marked = [r \in Requests |-> FALSE]
  /\ wire = [r \in Requests |-> Untouched]
  /\ result = [r \in Requests |-> Fresh]
  /\ disk = [r \in Requests |-> <<>>]

Running == server # "killed"
Goes(r, step) == handler' = [handler EXCEPT ![r] = step]
-----------------------------------------------------------------------------
(* What reaches the disk.  An entry says whether it holds text of a client *)
(* or of the model: metadata_record copies counters and known paths only.  *)
Record(event) == [entry |-> event, content |-> logMode = "full"]
Framed(label) ==
  IF logMode = "metadata" THEN <<>> ELSE <<[entry |-> label, content |-> TRUE]>>

(* Rendering is tried for chat requests whose texts may be logged.  (One   *)
(* that fails on a loaded template writes its error in the same place.)    *)
PromptError(r) == template = "broken" /\ chat[r] /\ logMode = "full"

(* The rendered log follows the request: a template that failed, a prompt, *)
(* or the reason why nothing was rendered.                                 *)
Rendered(r) ==
  CASE template = "none" -> <<>>
    [] PromptError(r) -> Framed("TEMPLATE_ERROR")
    [] chat[r] -> Framed("MODEL_EXCHANGE_REQUEST")
    [] OTHER -> Framed("RENDER_SKIPPED")

Opening(r) == <<Record("request_start")>> \o Framed("RAW_REQUEST") \o Rendered(r)

(* transport_complete, and the boundary the diagnostics of the exchange    *)
(* state from it.                                                          *)
Complete(r) == result[r].eof /\ ~result[r].gone
Boundary(r) == CASE ~Complete(r) -> "incomplete transport"
                 [] Complete(r) /\ marked[r] -> "SSE [DONE]"
                 [] OTHER -> "HTTP response complete"
Closing(r) ==
  Framed("RAW_RESPONSE")
    \o (IF template # "none" /\ chat[r] THEN Framed(Boundary(r)) ELSE <<>>)
    \o <<Record("request_end")>>

(* An exception that leaves _proxy reaches handle_error, which prints the  *)
(* trace, and the request's texts in it, unless the mode is metadata.      *)
AlwaysTrace(r) == <<[entry |-> "trace", content |-> TRUE]>>
Trace(r) == IF logMode = "metadata" THEN <<>> ELSE AlwaysTrace(r)
Ended(r) == \E i \in DOMAIN disk[r] : disk[r][i].entry = "request_end"
Says(r, entry) == \E i \in DOMAIN disk[r] : disk[r][i].entry = entry

(* The entries are written one by one: all of them, or those before the    *)
(* one whose write raises.                                                 *)
Writes(r, entries, next) ==
  \/ /\ disk' = [disk EXCEPT ![r] = @ \o entries]
     /\ Goes(r, next)
  \/ \E n \in 0 .. Len(entries) - 1 :
       /\ disk' = [disk EXCEPT ![r] = @ \o SubSeq(entries, 1, n) \o Trace(r)]
       /\ Goes(r, "raised")
-----------------------------------------------------------------------------
(* A handler thread starts; the body is read and classified. *)
Accept(r) ==
  /\ server = "serving" /\ handler[r] = "idle"
  /\ \E c \in BOOLEAN : chat' = [chat EXCEPT ![r] = c]
  /\ \/ Goes(r, "begin") /\ UNCHANGED disk
     \/ /\ Goes(r, "raised")                    \* _read_body raises
        /\ disk' = [disk EXCEPT ![r] = Trace(r)]
  /\ UNCHANGED <<logMode, template, server, client, sent, marked, wire, result>>

Begin(r) ==
  /\ Running /\ handler[r] = "begin"
  /\ Writes(r, Opening(r), "open")
  /\ UNCHANGED <<logMode, template, server, chat, client, sent, marked, wire, result>>

(* A write to the client: its socket takes it, or raises BrokenPipeError   *)
(* or ConnectionResetError, which a client that is gone can cause.         *)
Taken(r, lines, chunks) ==
  wire' = [wire EXCEPT ![r].lines = @ \o lines, ![r].chunks = @ + chunks]
Broken(r) == client[r] = "gone" /\ UNCHANGED wire
Notes(r, outcome) == result' = [result EXCEPT ![r] = outcome]

(* The upstream answers: its status and headers go to the client. *)
Respond(r) ==
  /\ Running /\ handler[r] = "open"
  /\ \/ /\ Taken(r, <<200>>, 0)
        /\ Notes(r, [result[r] EXCEPT !.status = 200])
        /\ Goes(r, "relay")
     \/ /\ Broken(r)
        /\ Notes(r, [result[r] EXCEPT !.status = 200, !.error = "client", !.gone = TRUE])
        /\ Goes(r, "finish")
  /\ UNCHANGED <<logMode, template, server, chat, client, sent, marked, disk>>

(* An answer made by a handler of _proxy: a status line and a body, after  *)
(* whatever was relayed before.                                            *)
Answer(r, status, error) ==
  /\ \/ /\ Taken(r, <<status>>, 1)
        /\ Notes(r, [result[r] EXCEPT !.status = status, !.error = error,
                                      !.captured = @ + 1])
     \/ /\ Broken(r)
        /\ Notes(r, [result[r] EXCEPT !.status = status, !.error = error,
                                      !.captured = @ + 1, !.gone = TRUE])
  /\ Goes(r, "finish")

(* HTTPError: the upstream's own refusal is passed on. *)
Refuse(r) ==
  /\ Running /\ handler[r] = "open"
  /\ Answer(r, 404, "upstream")
  /\ sent' = [sent EXCEPT ![r] = 1]
  /\ UNCHANGED <<logMode, template, server, chat, client, marked, disk>>

(* The body of a refusal cannot be read, or writing an answer to the       *)
(* client raises anything but a broken connection, with its status line    *)
(* taken or not: the exception leaves _proxy.                              *)
Raises(r) ==
  /\ Running /\ handler[r] \in {"open", "relay"}
  /\ \/ UNCHANGED wire
     \/ \E status \in IF handler[r] = "open" THEN {404, 500, 502} ELSE {500} :
          Taken(r, <<status>>, 0)
  /\ Goes(r, "raised")
  /\ disk' = [disk EXCEPT ![r] = @ \o Trace(r)]
  /\ UNCHANGED <<logMode, template, server, chat, client, sent, marked, result>>

(* URLError: no upstream to talk to. *)
Unreachable(r) ==
  /\ Running /\ handler[r] = "open"
  /\ Answer(r, 502, "upstream")
  /\ UNCHANGED <<logMode, template, server, chat, client, sent, marked, disk>>

(* The upstream resets the connection, before its answer or within it.     *)
(* RemoteDisconnected and ConnectionResetError are what a client that left *)
(* raises, and are recorded as that; nothing is written to the client.     *)
Reset(r) ==
  /\ Running /\ handler[r] \in {"open", "relay"}
  /\ Notes(r, [result[r] EXCEPT !.error = "client", !.gone = TRUE])
  /\ Goes(r, "finish")
  /\ UNCHANGED <<logMode, template, server, chat, client, sent, marked, wire, disk>>

(* A time-out, a chunk cut short, a write that fails otherwise. *)
Fail(r) ==
  /\ Running /\ handler[r] \in {"open", "relay"}
  /\ Answer(r, 500, "proxy")
  /\ UNCHANGED <<logMode, template, server, chat, client, sent, marked, disk>>

(* read_available_chunk returns what has arrived; it is captured, then     *)
(* written.                                                                *)
NotNoticed(r) == [result[r] EXCEPT !.captured = @ + 1]
WhenBroken(r) == [NotNoticed(r) EXCEPT !.error = "client", !.gone = TRUE]
Relay(r) ==
  /\ Running /\ handler[r] = "relay" /\ sent[r] < MaxChunks
  /\ ~marked[r]
  /\ sent' = [sent EXCEPT ![r] = @ + 1]
  /\ \E last \in BOOLEAN : marked' = [marked EXCEPT ![r] = last]
  /\ \/ /\ Taken(r, <<>>, 1)
        /\ Notes(r, [result[r] EXCEPT !.captured = @ + 1])
        /\ UNCHANGED handler
     \/ /\ Broken(r)
        /\ Notes(r, WhenBroken(r))
        /\ Goes(r, IF WhenBroken(r).gone THEN "finish" ELSE "relay")
  /\ UNCHANGED <<logMode, template, server, chat, client, disk>>

(* An empty read.  A reply that is closed early, with no chunk framing to  *)
(* tell, ends the same way.                                                *)
EndOfReply(r) ==
  /\ Running /\ handler[r] = "relay"
  /\ Notes(r, [result[r] EXCEPT !.eof = TRUE])
  /\ Goes(r, "finish")
  /\ UNCHANGED <<logMode, template, server, chat, client, sent, marked, wire, disk>>

Finish(r) ==
  /\ Running /\ handler[r] = "finish"
  /\ Writes(r, Closing(r), "done")
  /\ UNCHANGED <<logMode, template, server, chat, client, sent, marked, wire, result>>

(* The client leaves, whenever it likes. *)
Leave(r) ==
  /\ client[r] = "there" /\ handler[r] \notin {"idle", "done", "raised", "killed"}
  /\ client' = [client EXCEPT ![r] = "gone"]
  /\ UNCHANGED <<logMode, template, server, handler, chat, sent, marked, wire, result, disk>>
-----------------------------------------------------------------------------
(* stop_by_name sends TERM.  _shutdown runs in the thread of serve_forever *)
(* and waits there for serve_forever to return, which it cannot: nothing   *)
(* more is accepted, the handler threads go on...                          *)
Term ==
  /\ server = "serving"
  /\ server' = "stopping"
  /\ UNCHANGED <<logMode, template, handler, chat, client, sent, marked, wire, result, disk>>

(* ...until, after its grace period, stop_by_name sends KILL; the next     *)
(* start serves again.                                                     *)
InFlight(r) == handler[r] \notin {"idle", "done", "raised", "killed"}
Kill ==
  /\ server = "stopping"
  /\ server' = "killed"
  /\ handler' = [r \in Requests |-> IF InFlight(r) THEN "killed" ELSE handler[r]]
  /\ UNCHANGED <<logMode, template, chat, client, sent, marked, wire, result, disk>>

Restart ==
  /\ server = "killed"
  /\ server' = "serving"
  /\ UNCHANGED <<logMode, template, handler, chat, client, sent, marked, wire, result, disk>>

ProxyNext ==
  \/ \E r \in Requests :
       \/ Accept(r) \/ Begin(r) \/ Respond(r) \/ Refuse(r) \/ Unreachable(r)
       \/ Raises(r) \/ Reset(r) \/ Fail(r) \/ Relay(r) \/ EndOfReply(r) \/ Finish(r) \/ Leave(r)
  \/ Term \/ Kill \/ Restart

ProxyTypeOK ==
  /\ server \in {"serving", "stopping", "killed"}
  /\ handler \in [Requests -> {"idle", "begin", "open", "relay", "finish", "done",
                               "raised", "killed"}]
  /\ chat \in [Requests -> BOOLEAN]
  /\ client \in [Requests -> {"there", "gone"}]
  /\ sent \in [Requests -> 0 .. MaxChunks + 1]
-----------------------------------------------------------------------------
(* What the log says of a request is what its client was given, whatever   *)
(* failed and whoever left: a request_end follows its request_start; one   *)
(* without an error, and an exchange reported complete, mean that every    *)
(* chunk the upstream sent was handed over under the one status recorded;  *)
(* and a client that was told a status other than the one recorded got the *)
(* proxy's own error after it, or nothing.                                 *)
ReplyAsReported ==
  \A r \in Requests :
    LET told == wire[r].lines IN
    /\ Ended(r) => Says(r, "request_start")
    /\ \/ Ended(r) /\ result[r].error = "none"
       \/ Says(r, "SSE [DONE]") \/ Says(r, "HTTP response complete")
         => wire[r].chunks = sent[r] /\ told = <<result[r].status>>
    /\ Ended(r) /\ told # <<>> /\ told[Len(told)] # result[r].status
         => result[r].gone
    /\ Ended(r) => result[r].captured >= sent[r]

(* With MODEL_PROXY_LOG_MODE=metadata no text of a client or of the model  *)
(* is persisted, on any path through a request and for any exception.      *)
MetadataKeepsNoContent ==
  logMode = "metadata" =>
    \A r \in Requests : \A i \in DOMAIN disk[r] : ~disk[r][i].content

(* The comment at model_proxy_tap.py:943 takes every BrokenPipeError and   *)
(* ConnectionResetError for the client's cancellation.                     *)
DisconnectIsTheClients ==
  \A r \in Requests : Ended(r) /\ result[r].gone => client[r] = "gone"
=============================================================================
