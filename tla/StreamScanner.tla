--------------------------- MODULE StreamScanner ---------------------------
(***************************************************************************)
(* StreamScannerHandler (relay/helper/stream_scanner.go) under the retry   *)
(* loop of controller.Relay.  An attempt runs a main loop, a scanner of    *)
(* the upstream body, a data handler and a pinger, which share a channel,  *)
(* a write mutex and a stop signal of the attempt; all attempts share      *)
(* RelayInfo with its StreamStatus pointer and chunk counter.  Goroutines  *)
(* of an abandoned attempt may outlive it, which is why each attempt has   *)
(* its own record and actions stay enabled after the attempt is over.      *)
(*                                                                         *)
(* The context that the handler cancels is not modelled apart from         *)
(* stopChan: it is cancelled right before stop() and every select that     *)
(* listens to one listens to the other and returns.                        *)
(***************************************************************************)
EXTENDS Naturals

CONSTANTS MaxAttempts,   \* common.RetryTimes + 1
          MaxLines,      \* bound: data lines an upstream sends in one attempt
          Capacity       \* of dataChan: 10 in the code

ASSUME StreamAssumption ==
    MaxAttempts \in Nat \ {0} /\ MaxLines \in Nat /\ Capacity \in Nat \ {0}

VARIABLES main,        \* the relaying goroutine: controller and StreamScannerHandler
          attempt,     \* the running attempt
          current,     \* the attempt whose object info.StreamStatus points to, 0: nil
          status,      \* endReason of the StreamStatus of each attempt
          received,    \* info.ReceivedResponseCount
          armed,       \* firstChunkTimer has not fired
          stream,      \* goroutines, channel and mutex of each attempt
          pingEnabled, \* the ping setting; keep-alive until the first token is always on
          clientGone   \* c.Request.Context() is done

vars == <<main, attempt, current, status, received, armed, stream, pingEnabled,
          clientGone>>

Attempts == 1 .. MaxAttempts
Returned == {"tail", "decide", "answered", "failed"}
Ended == {"answered", "failed"}
Reasons == {"none", "done", "timeout", "client_gone", "scanner_error", "handler_stop",
            "eof", "panic", "ping_fail", "first_chunk_timeout"}
HandlerEnd == {"drained", "stopped", "panicked"}

Stream == [scanner : {"scan", "mark", "send", "exited"},
           handler : {"recv", "lock", "write"} \cup HandlerEnd,
           ping : {"idle", "sent", "exited"},
           inner : {"none", "lock", "write", "ok", "error"},
           mutex : {"free", "handler", "inner"},
           queue : 0 .. Capacity, closed : BOOLEAN, stopped : BOOLEAN,
           bodyClosed : BOOLEAN, firstSeen : BOOLEAN,
           handled : 0 .. MaxLines, tail : BOOLEAN]

\* Before StreamScannerHandler is called there is nothing to run.
NotStarted ==
    [scanner |-> "exited", handler |-> "drained", ping |-> "exited", inner |-> "none",
     mutex |-> "free", queue |-> 0, closed |-> FALSE, stopped |-> FALSE,
     bodyClosed |-> FALSE, firstSeen |-> FALSE, handled |-> 0, tail |-> FALSE]

Started == [NotStarted EXCEPT !.scanner = "scan", !.handler = "recv", !.ping = "idle"]

TypeOK ==
    /\ main \in {"request", "wait", "expire", "cleanup"} \cup Returned
    /\ attempt \in Attempts /\ current \in 0 .. MaxAttempts
    /\ status \in [Attempts -> Reasons]
    /\ received \in 0 .. MaxLines
    /\ stream \in [Attempts -> Stream]
    /\ {armed, pingEnabled, clientGone} \subseteq BOOLEAN

Init ==
    /\ main = "request" /\ attempt = 1 /\ current = 0 /\ received = 0
    /\ status = [a \in Attempts |-> "none"]
    /\ stream = [a \in Attempts |-> NotStarted]
    /\ armed = FALSE /\ clientGone = FALSE
    /\ pingEnabled \in BOOLEAN

\* The first reason stays.
Fixed(statuses, object, reason) ==
    IF object # 0 /\ statuses[object] = "none"
    THEN [statuses EXCEPT ![object] = reason] ELSE statuses

\* SetEndReason on the object info.StreamStatus points to at that moment.
SetEndReason(reason) == status' = Fixed(status, current, reason)

\* The deferred functions of the three goroutines.
ScannerExits(s) == [s EXCEPT !.scanner = "exited", !.closed = TRUE, !.stopped = TRUE]
HandlerExits(s, how) == [s EXCEPT !.handler = how, !.stopped = TRUE]
PingExits(s) == [s EXCEPT !.ping = "exited"]
-----------------------------------------------------------------------------
(* The scanner goroutine.                                                  *)

ToReader(a, s) == stream' = [stream EXCEPT ![a] = s]
Others == UNCHANGED <<main, attempt, current, armed, pingEnabled, clientGone>>

\* Scan returned a data line or [DONE]; then the select before it is used.
\* Lines of other kinds change nothing.
ScanLine(a, kind) ==
    LET s == stream[a] IN
    /\ s.scanner = "scan"
    /\ UNCHANGED received
    /\ \/ s.stopped /\ ToReader(a, ScannerExits(s)) /\ UNCHANGED status
       \/ clientGone /\ SetEndReason("client_gone") /\ ToReader(a, ScannerExits(s))
       \/ /\ ~s.stopped /\ ~clientGone
          /\ \/ /\ kind = "data" /\ received < MaxLines
                /\ ToReader(a, [s EXCEPT !.scanner = "mark"]) /\ UNCHANGED status
             \/ kind = "done" /\ SetEndReason("done") /\ ToReader(a, ScannerExits(s))
    /\ Others

\* Mutant: a clean end of the body is no reason.
ScanEnds_NoReason(a) ==
    /\ stream[a].scanner = "scan" /\ ~stream[a].bodyClosed
    /\ ToReader(a, ScannerExits(stream[a]))
    /\ \/ SetEndReason("scanner_error") \/ UNCHANGED status
    /\ UNCHANGED received /\ Others

\* The upstream ends the body or the connection breaks.
ScanEnds(a) ==
    /\ stream[a].scanner = "scan" /\ ~stream[a].bodyClosed
    /\ ToReader(a, ScannerExits(stream[a]))
    /\ \E reason \in {"eof", "scanner_error"} : SetEndReason(reason)
    /\ UNCHANGED received /\ Others

\* Scan on a body that the handler has closed: an error, and the status it is
\* written to may by now be the one of the next attempt.
ScanClosed(a) ==
    /\ stream[a].scanner = "scan" /\ stream[a].bodyClosed
    /\ ToReader(a, ScannerExits(stream[a]))
    /\ SetEndReason("scanner_error")
    /\ UNCHANGED received /\ Others

MarkFirstToken(a) ==
    /\ stream[a].scanner = "mark"
    /\ received' = received + 1
    /\ ToReader(a, [stream[a] EXCEPT !.scanner = "send", !.firstSeen = TRUE])
    /\ UNCHANGED status /\ Others

\* The select may drop the chunk although the channel has room.
SendChunk(a) ==
    LET s == stream[a] IN
    /\ s.scanner = "send"
    /\ \/ s.queue < Capacity /\ ToReader(a, [s EXCEPT !.scanner = "scan", !.queue = @ + 1])
       \/ s.stopped /\ ToReader(a, ScannerExits(s))
    /\ UNCHANGED <<status, received>> /\ Others
-----------------------------------------------------------------------------
(* The data handler goroutine.                                             *)

ReceiveChunk(a) ==
    LET s == stream[a] IN
    /\ s.handler = "recv" /\ s.queue > 0
    /\ ToReader(a, [s EXCEPT !.handler = "lock", !.queue = @ - 1])
    /\ UNCHANGED <<status, received>> /\ Others

\* Mutant: the handler stops with the others and leaves what is in the channel.
HandlerLoopEnds_OnStop(a) ==
    /\ stream[a].handler = "recv" /\ stream[a].stopped
    /\ ToReader(a, HandlerExits(stream[a], "drained"))
    /\ UNCHANGED <<status, received>> /\ Others

\* range over dataChan ends when it is closed and empty.
HandlerLoopEnds(a) ==
    /\ stream[a].handler = "recv" /\ stream[a].closed /\ stream[a].queue = 0
    /\ ToReader(a, HandlerExits(stream[a], "drained"))
    /\ UNCHANGED <<status, received>> /\ Others

HandlerLocks(a) ==
    /\ stream[a].handler = "lock" /\ stream[a].mutex = "free"
    /\ ToReader(a, [stream[a] EXCEPT !.handler = "write", !.mutex = "handler"])
    /\ UNCHANGED <<status, received>> /\ Others

\* dataHandler returns: as it should, after sr.Stop, after sr.Done, or by a
\* panic, which skips the Unlock.
HandleChunk(a) ==
    LET s == [stream[a] EXCEPT !.handled = @ + 1]
        unlocked == [s EXCEPT !.mutex = "free"]
    IN  /\ s.handler = "write"
        /\ \/ ToReader(a, [unlocked EXCEPT !.handler = "recv"]) /\ UNCHANGED status
           \/ /\ \E reason \in {"handler_stop", "done"} : status' = Fixed(status, a, reason)
              /\ ToReader(a, HandlerExits(unlocked, "stopped"))
           \/ SetEndReason("panic") /\ ToReader(a, HandlerExits(s, "panicked"))
        /\ UNCHANGED received /\ Others
-----------------------------------------------------------------------------
(* The ping goroutine and the one it starts for each write.                *)

PingTick(a) ==
    LET s == stream[a] IN
    /\ s.ping = "idle"
    /\ ToReader(a, IF ~pingEnabled /\ s.firstSeen
                   THEN PingExits(s)
                   ELSE [s EXCEPT !.ping = "sent", !.inner = "lock"])
    /\ UNCHANGED <<status, received>> /\ Others

PingLocks(a) ==
    /\ stream[a].inner = "lock" /\ stream[a].mutex = "free"
    /\ ToReader(a, [stream[a] EXCEPT !.inner = "write", !.mutex = "inner"])
    /\ UNCHANGED <<status, received>> /\ Others

\* The write fails for a client that is gone, noticed by the context or not yet.
PingWrites(a) ==
    /\ stream[a].inner = "write"
    /\ \E result \in {"ok", "error"} :
          /\ clientGone => result = "error"
          /\ ToReader(a, [stream[a] EXCEPT !.inner = result, !.mutex = "free"])
    /\ UNCHANGED <<status, received>> /\ Others

PingResult(a) ==
    LET s == stream[a] IN
    /\ s.ping = "sent"
    /\ \/ s.inner = "ok" /\ ToReader(a, [s EXCEPT !.ping = "idle"]) /\ UNCHANGED status
       \/ s.inner = "error" /\ ToReader(a, PingExits(s)) /\ SetEndReason("ping_fail")
       \* ten seconds without a result
       \/ s.inner \in {"lock", "write"} /\ ToReader(a, PingExits(s)) /\ SetEndReason("ping_fail")
    /\ UNCHANGED received /\ Others

\* Stop, and while no write is out the client's end or the limit of thirty minutes.
PingStops(a) ==
    /\ \/ stream[a].ping # "exited" /\ stream[a].stopped
       \/ stream[a].ping = "idle"
    /\ ToReader(a, PingExits(stream[a]))
    /\ UNCHANGED <<status, received>> /\ Others
-----------------------------------------------------------------------------
(* The relaying goroutine.                                                 *)

\* The upstream has answered the request with a stream.
StartStream ==
    /\ main = "request"
    /\ main' = "wait" /\ current' = attempt /\ armed' = TRUE
    /\ ToReader(attempt, Started)
    /\ UNCHANGED <<attempt, status, received, pingEnabled, clientGone>>

\* waitLoop is left: cancel, then the stop of the cleanup.
LeaveLoop == main' = "cleanup" /\ ToReader(attempt, [stream[attempt] EXCEPT !.stopped = TRUE])

WaitEnds ==
    /\ main = "wait"
    /\ \/ SetEndReason("timeout")
       \/ stream[attempt].stopped /\ UNCHANGED status
       \/ clientGone /\ SetEndReason("client_gone")
    /\ LeaveLoop
    /\ UNCHANGED <<attempt, current, received, armed, pingEnabled, clientGone>>

\* A timer that fires after the first token is ignored.
FirstChunkTimer ==
    /\ main = "wait" /\ armed
    /\ armed' = FALSE
    /\ main' = IF stream[attempt].firstSeen THEN "wait" ELSE "expire"
    /\ UNCHANGED <<attempt, current, status, received, stream, pingEnabled, clientGone>>

FirstChunkTimeout ==
    /\ main = "expire"
    /\ SetEndReason("first_chunk_timeout")
    /\ LeaveLoop
    /\ UNCHANGED <<attempt, current, received, armed, pingEnabled, clientGone>>

Exited(s) == s.scanner = "exited" /\ s.handler \in HandlerEnd /\ s.ping = "exited"

\* Whatever has not exited waits for the upstream, the client or the mutex.
Stuck(s) ==
    /\ ~Exited(s) /\ s.ping = "exited"
    /\ s.scanner \in {"scan", "exited"}
    /\ \/ s.handler \in HandlerEnd \cup {"write"}
       \/ s.handler = "lock" /\ s.mutex # "free"
       \/ s.handler = "recv" /\ s.queue = 0 /\ ~s.closed

\* Mutant: wg.Wait() without a limit, before the body is closed.
WaitOver_NoLimit(s) == Exited(s)

\* wg.Wait() for at most five seconds.
WaitOver(s) == Exited(s) \/ Stuck(s)

CloseBody ==
    /\ main = "cleanup" /\ WaitOver(stream[attempt])
    /\ main' = "tail"
    /\ ToReader(attempt, [stream[attempt] EXCEPT !.bodyClosed = TRUE])
    /\ UNCHANGED <<attempt, current, status, received, armed, pingEnabled, clientGone>>

\* The adaptor's end of the stream.  Whether it writes closing frames although it has
\* received nothing depends on the format of the client and on the channel, which may
\* be another one in every attempt: [DONE] for an OpenAI client, a start and a stop
\* frame for a Claude client of a channel that is asked through the Responses API or
\* is Gemini's.  Other adaptors derive the end from the last chunk.
FinalResponse ==
    /\ main = "tail"
    /\ main' = "decide"
    /\ \E frames \in BOOLEAN :
          /\ clientGone => ~frames
          /\ ToReader(attempt, [stream[attempt] EXCEPT !.tail = frames])
    /\ UNCHANGED <<attempt, current, status, received, armed, pingEnabled, clientGone>>

\* Mutant: the reason alone decides.
NoOutput_Ignored == TRUE
NoOutput == received = 0

FailedOver == status[current] = "first_chunk_timeout" /\ NoOutput

\* The next attempt starts with a fresh StreamStatus and counter.
Failover ==
    /\ main = "decide" /\ FailedOver /\ attempt < MaxAttempts
    /\ main' = "request" /\ attempt' = attempt + 1
    /\ current' = 0 /\ received' = 0
    /\ UNCHANGED <<status, armed, stream, pingEnabled, clientGone>>

\* The last attempt, or an error that shouldRetry refuses to repeat.
RelayEnds ==
    /\ main = "decide"
    /\ main' = IF FailedOver THEN "failed" ELSE "answered"
    /\ UNCHANGED <<attempt, current, status, received, armed, stream, pingEnabled, clientGone>>

ClientLeaves ==
    /\ ~clientGone /\ main \notin Ended
    /\ clientGone' = TRUE
    /\ UNCHANGED <<main, attempt, current, status, received, armed, stream, pingEnabled>>
-----------------------------------------------------------------------------
Main == StartStream \/ WaitEnds \/ FirstChunkTimer \/ FirstChunkTimeout \/ CloseBody
        \/ FinalResponse \/ Failover \/ RelayEnds
Scanner(a) == MarkFirstToken(a) \/ SendChunk(a) \/ ScanClosed(a)
Handler(a) == ReceiveChunk(a) \/ HandlerLoopEnds(a) \/ HandlerLocks(a) \/ HandleChunk(a)
Pinger(a) == PingLocks(a) \/ PingWrites(a)

\* The relay is over and no goroutine of it can move any more.
Terminating == main \in Ended /\ (\A a \in Attempts : Exited(stream[a])) /\ UNCHANGED vars

Next ==
    \/ Main
    \/ \E a \in Attempts :
          \/ \E kind \in {"data", "done"} : ScanLine(a, kind)
          \/ ScanEnds(a) \/ Scanner(a) \/ Handler(a)
          \/ PingTick(a) \/ PingResult(a) \/ PingStops(a) \/ Pinger(a)
    \/ ClientLeaves
    \/ Terminating

Spec == Init /\ [][Next]_vars

\* Goroutines are scheduled, timers fire and a write to the client returns in the
\* end.  Neither the upstream nor the client has to do anything.
Fairness ==
    /\ WF_vars(Main)
    /\ \A a \in Attempts :
          /\ WF_vars(Scanner(a)) /\ WF_vars(Handler(a)) /\ WF_vars(Pinger(a))
          /\ WF_vars(PingStops(a) /\ stream[a].stopped)

FairSpec == Spec /\ Fairness
-----------------------------------------------------------------------------
(* Properties.                                                             *)

\* When a request is handed to another channel, the abandoned attempt has put no
\* chunk of an answer before the client, and it puts none there afterwards, although
\* the first token may arrive while the timer is handled and the abandoned
\* goroutines may still run.  It may have written closing frames (`tail`), which the
\* controller does not ask about: that a failover follows no output at all is false.
FailoverHasNoChunks ==
    \A a \in 1 .. attempt - 1 : stream[a].handled = 0 /\ stream[a].handler # "write"

\* When the upstream has ended the stream and the handler was not told to stop,
\* every chunk counted has been handled: the stop signal of the scanner does not
\* cut off what is still in the channel.
DrainedIsComplete ==
    LET s == stream[attempt] IN
    (/\ main \in Returned /\ Exited(s) /\ s.handler = "drained"
     /\ status[attempt] \in {"done", "eof"})
    => s.handled = received

\* Whoever closes stopChan has set a reason before: the main loop, which sets
\* none then, never returns a stream without one.
EndIsExplained == main \in Returned => status[attempt] # "none"

\* The relay returns although the upstream may hang for ever, and then the
\* scanner, handler and pinger of every attempt exit; only the goroutine of one
\* ping may stay, behind a mutex that a panicking handler never gave back.
StreamsEnd ==
    <>[](main \in Ended /\ \A a \in Attempts :
            /\ Exited(stream[a])
            /\ stream[a].inner \in {"lock", "write"} => stream[a].handler = "panicked")

\* The shared state is well formed and every end of a stream has a reason, which
\* the controller and the logs go by.
StatusSound == TypeOK /\ EndIsExplained
=============================================================================
