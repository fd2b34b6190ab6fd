------------------------------- MODULE McpRequest --------------------------------
(***************************************************************************)
(* One tools/call over HTTP: the boundary of packages/mcp/src/             *)
(* http-protocol.ts, between a host (the listener of http.ts, or a runtime *)
(* with the Fetch API that calls the handler of web.ts) and the protocol   *)
(* server, whose progress forwarder writes to a stream of the SDK.  That   *)
(* stream is relayed through a queue of one chunk, which is what canSend   *)
(* asks about.                                                             *)
(*                                                                         *)
(* What the network, the clock and the authenticator do are events of the  *)
(* process, and each finds the microtasks of the one before done (Quiet).  *)
(* The capability may go on at any time.                                   *)
(***************************************************************************)
EXTENDS ProgressForwarder, Sequences

VARIABLES
    host,      \* "node" or "fetch"
    stage,     \* what the request awaits
    streaming, \* the call carries a progress token
    aborted,   \* facts.signal or streamAbort is aborted
    server,    \* the protocol server: "none", "open" or "closed"
    source,    \* the response of the SDK
    chunks,    \* what the source holds
    relay,     \* what the relay holds
    settled,   \* the relay has called onSettled
    response,  \* "open", "ended" by the host, or "closed" with its connection
    written    \* the chunks the response has taken

requestVars ==
    <<host, stage, streaming, aborted, server, source, chunks, relay, settled, response,
      written>>

httpVars == <<vars, requestVars>>

Result == MaxReports + 1

Stages ==
    {"authenticating", "reading",
     "dispatching", \* handleRequest, which only microtasks keep waiting
     "answering",   \* handleRequest, which waits for the result of the call
     "relaying",    \* reader.read() of the relay
     "draining",    \* the host waits until the client has read
     "done"}

RequestTypeOK ==
    /\ host \in {"node", "fetch"}
    /\ stage \in Stages
    /\ {streaming, aborted, settled} \subseteq BOOLEAN
    /\ server \in {"none", "open", "closed"}
    /\ source \in {"none", "open", "ended", "cancelled", "broken"}
    /\ \A s \in {chunks, relay, written} : s \in Seq(1..Result)
    /\ response \in {"open", "ended", "closed"}

HttpInit ==
    /\ Init
    /\ host \in {"node", "fetch"}
    /\ stage = "authenticating"
    /\ streaming \in BOOLEAN
    /\ aborted = FALSE
    /\ server = "none"
    /\ source = "none"
    /\ chunks = <<>>
    /\ relay = <<>>
    /\ settled = FALSE
    /\ response = "open"
    /\ written = <<>>

Relaying == stage \in {"relaying", "draining"}

(* The handler of tools/call has been entered.                             *)
Called == source # "none"

-----------------------------------------------------------------------------
(* The microtasks that are left to run.                                    *)

Pulls == Relaying /\ ~settled /\ relay = <<>> /\ (chunks # <<>> \/ source = "ended")

Consumes == stage = "relaying" /\ (relay # <<>> \/ settled)

Answers == Called /\ closed /\ source = "open"

Quiet ==
    /\ stage # "dispatching"
    /\ unwritten = 0
    /\ ~Pulls /\ ~Consumes /\ ~Answers
    /\ aborted => stage # "reading" /\ (Called => closed)

-----------------------------------------------------------------------------
(* The request, until the call.                                            *)

(* The host answers, unless the connection is gone.                        *)
Responds == response' = IF response = "open" THEN "ended" ELSE response

(* Any answer that comes before the call: one of the checks, from hosts to *)
(* media types, has failed.                                                *)
Refuse ==
    /\ Quiet
    /\ stage = "authenticating"
    /\ stage' = "done"
    /\ Responds
    /\ UNCHANGED <<vars, host, streaming, aborted, server, source, chunks, relay, settled,
                   written>>

Authenticate ==
    /\ Quiet
    /\ stage = "authenticating"
    /\ stage' = "reading"
    /\ server' = "open"
    /\ UNCHANGED <<vars, host, streaming, aborted, source, chunks, relay, settled, response,
                   written>>

(* readBody ends without a message: it is too large, malformed, or the     *)
(* request was aborted; or the SDK refuses the message.                    *)
BodyFails ==
    /\ stage = "reading"
    /\ aborted \/ Quiet
    /\ stage' = "done"
    /\ server' = "closed"
    /\ Responds
    /\ UNCHANGED <<vars, host, streaming, aborted, source, chunks, relay, settled, written>>

(* The message is read, and handed to the protocol server.                 *)
Dispatch ==
    /\ Quiet
    /\ stage = "reading"
    /\ stage' = IF streaming THEN "dispatching" ELSE "answering"
    /\ source' = "open"
    /\ UNCHANGED <<vars, host, streaming, aborted, server, chunks, relay, settled, response,
                   written>>

(* The response of the SDK is an event stream; from here on its reader     *)
(* decides about capacity.                                                 *)
StartRelay ==
    /\ stage = "dispatching"
    /\ stage' = "relaying"
    /\ UNCHANGED <<vars, host, streaming, aborted, server, source, chunks, relay, settled,
                   response, written>>

-----------------------------------------------------------------------------
(* The call, its forwarder, and the stream of the SDK.                     *)

(* Mutant of CanSend: the gate of the relay is never asked.                *)
CanSendAlways == TRUE

(* progressCapacity.                                                       *)
CanSend == ~Relaying \/ (~settled /\ relay = <<>>)

(* A notification is sent with a promise, and queued while there is a      *)
(* stream.                                                                 *)
Queues ==
    /\ sent' # sent => writing'
    /\ chunks' = IF sent' # sent /\ source = "open" THEN Append(chunks, sent') ELSE chunks
    /\ UNCHANGED <<host, stage, streaming, aborted, server, source, relay, settled, response,
                   written>>

(* The core forwards no report once the signal is aborted.                 *)
CallReports ==
    /\ Called /\ streaming /\ ~aborted
    /\ Report
    /\ sent' = latest' <=> (Wait = 0 /\ timer = None /\ HasCapacity /\ CanSend)
    /\ Queues

Retries ==
    /\ Quiet
    /\ IF HasCapacity /\ CanSend THEN RetrySends ELSE RetryRefused
    /\ Queues

CallSucceeds == Called /\ ~aborted /\ Succeeds /\ Queues

(* The capability fails, or the invocation is cancelled.                   *)
CallFails == Called /\ Fails /\ Queues

SendSettles == Written /\ Queues

TimePasses == Quiet /\ Tick /\ Queues

(* The result follows the notifications, and ends the stream.              *)
AnswerStream ==
    /\ Answers /\ streaming
    /\ chunks' = Append(chunks, Result)
    /\ source' = "ended"
    /\ UNCHANGED <<vars, host, stage, streaming, aborted, server, relay, settled, response,
                   written>>

(* Without a progress token the result is the response.                    *)
AnswerWhole ==
    /\ Answers /\ stage = "answering"
    /\ source' = "ended"
    /\ stage' = "done"
    /\ server' = "closed"
    /\ Responds
    /\ UNCHANGED <<vars, host, streaming, aborted, chunks, relay, settled, written>>

-----------------------------------------------------------------------------
(* relayProgressStream, and the host that reads it.                        *)

(* Mutant of Settle: a stream that was cancelled leaves the call running.  *)
SettleQuietly(cancelled) ==
    /\ settled' = TRUE
    /\ server' = "closed"
    /\ UNCHANGED aborted

(* settle, and the onSettled of dispatch.                                  *)
Settle(cancelled) ==
    /\ settled' = TRUE
    /\ server' = "closed"
    /\ aborted' = (aborted \/ cancelled)

(* pull.                                                                   *)
Pull ==
    /\ Pulls
    /\ IF chunks # <<>>
       THEN /\ relay' = <<Head(chunks)>>
            /\ chunks' = Tail(chunks)
            /\ UNCHANGED <<settled, server, aborted>>
       ELSE Settle(FALSE) /\ UNCHANGED <<relay, chunks>>
    /\ UNCHANGED <<vars, host, stage, streaming, source, response, written>>

(* The host takes the chunk; the client may have to read before the next.  *)
TakeChunk ==
    /\ stage = "relaying" /\ relay # <<>>
    /\ written' = Append(written, Head(relay))
    /\ relay' = <<>>
    /\ stage' \in {"relaying", "draining"}
    /\ UNCHANGED <<vars, host, streaming, aborted, server, source, chunks, settled, response>>

(* The relay has ended: the host ends the response, or, when the stream    *)
(* broke, destroys it.                                                     *)
EndStream ==
    /\ stage = "relaying" /\ relay = <<>> /\ settled
    /\ stage' = "done"
    /\ IF source = "broken" THEN response' = "closed" ELSE Responds
    /\ UNCHANGED <<vars, host, streaming, aborted, server, source, chunks, relay, settled,
                   written>>

ClientReads ==
    /\ Quiet
    /\ stage = "draining"
    /\ stage' = "relaying"
    /\ UNCHANGED <<vars, host, streaming, aborted, server, source, chunks, relay, settled,
                   response, written>>

(* The source cannot be read any more.                                     *)
SourceBreaks ==
    /\ Quiet
    /\ Relaying /\ ~settled /\ relay = <<>>
    /\ source' = "broken"
    /\ chunks' = <<>>
    /\ Settle(TRUE)
    /\ UNCHANGED <<vars, host, stage, streaming, relay, response, written>>

(* The client, or close() of the listener, closes the connection.  The     *)
(* listener aborts the request and cancels the relay; a runtime may only   *)
(* cancel the stream it reads.                                             *)
ConnectionCloses ==
    /\ Quiet
    /\ response = "open"
    /\ response' = "closed"
    /\ IF Relaying /\ ~settled
       THEN /\ Settle(TRUE)
            /\ source' = "cancelled"
            /\ relay' = <<>> /\ chunks' = <<>>
       ELSE /\ aborted' \in {aborted \/ host = "node", TRUE}
            /\ UNCHANGED <<settled, server, source, relay, chunks>>
    /\ stage' = IF stage = "draining" THEN "relaying" ELSE stage
    /\ UNCHANGED <<vars, host, streaming, written>>

-----------------------------------------------------------------------------
HttpNext ==
    \/ Refuse \/ Authenticate \/ BodyFails \/ Dispatch \/ StartRelay
    \/ CallReports \/ Retries \/ CallSucceeds \/ CallFails \/ SendSettles \/ TimePasses
    \/ AnswerStream \/ AnswerWhole
    \/ Pull \/ TakeChunk \/ EndStream
    \/ ClientReads \/ SourceBreaks \/ ConnectionCloses

HttpSpec == HttpInit /\ [][HttpNext]_httpVars

(* Microtasks and due timers run, time passes, a call that is aborted      *)
(* fails (Invocation, CallsSettle), and a client reads on or goes away.    *)
(* Nothing makes an authenticator, a body or a capability end.             *)
FairHttpSpec ==
    /\ HttpSpec
    /\ WF_httpVars(aborted /\ BodyFails)
    /\ WF_httpVars(StartRelay) /\ WF_httpVars(Pull)
    /\ WF_httpVars(TakeChunk) /\ WF_httpVars(EndStream)
    /\ WF_httpVars(AnswerStream) /\ WF_httpVars(AnswerWhole)
    /\ WF_httpVars(SendSettles) /\ WF_httpVars(TimePasses) /\ WF_httpVars(Retries)
    /\ WF_httpVars(aborted /\ CallFails)
    /\ WF_httpVars(ClientReads \/ ConnectionCloses)

-----------------------------------------------------------------------------
(* "A slow or stalled reader therefore leaves at most one unwritten        *)
(* notification and one held report" (ADR 0043), however the stream of the *)
(* SDK, which has no limit of its own, and the relay stand to each other;  *)
(* when the call ends, the held report and the result may come on top.     *)
BuffersBounded == Len(chunks) + Len(relay) <= IF closed THEN 3 ELSE 1

(* What the client reads increases, the result comes last, and before the  *)
(* result of a call that succeeded comes its newest report.                *)
NewestArrives ==
    /\ \A i, j \in DOMAIN written : i < j => written[i] < written[j]
    /\ \A i \in DOMAIN written :
          written[i] = Result /\ call = "succeeded" /\ latest # 0 =>
              i > 1 /\ written[i - 1] = latest

Over == stage = "done" /\ server # "open" /\ (Called => closed)

(* A request whose call has ended, or whose connection has gone while a    *)
(* host could see it, leaves nothing behind: its body is given up, its     *)
(* call cancelled, its relay and its protocol server closed.               *)
RequestSettles ==
    /\ (Called /\ closed) ~> Over
    /\ (response = "closed" /\ stage # "authenticating" /\ (host = "node" \/ settled)) ~> Over
=============================================================================
