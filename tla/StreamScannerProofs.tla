------------------------ MODULE StreamScannerProofs -------------------------
(***************************************************************************)
(* Proofs about the two ends of a stream.                                  *)
(*                                                                         *)
(* StreamScanner, for any number of attempts and lines and any capacity of *)
(* the channel: the end of a stream always has a reason, a stream that     *)
(* ended is handled to its last chunk, and a failover follows no output.   *)
(*                                                                         *)
(* Playground, for any number of messages and chunks: an answer consists   *)
(* of its own chunks, every stream is tracked, every failure is shown.     *)
(***************************************************************************)
EXTENDS StreamScanner, Playground, Sums, SequenceTheorems, TLAPS

(***************************************************************************)
(* The inductive invariant.                                                *)
(***************************************************************************)

\* Chunks the scanner has counted and that are not lost: handled, being handled,
\* in the channel or about to be sent.
Kept(s) ==
    s.handled + s.queue + (IF s.handler \in {"lock", "write"} THEN 1 ELSE 0)
                        + (IF s.scanner = "send" THEN 1 ELSE 0)

\* The goroutines of the running attempt, with its reason and the counter.  Chunks
\* are dropped only after a stop, and a stop has a reason.
Accounted(s, reason, count) ==
    /\ s.stopped => reason # "none"
    /\ s.closed => s.scanner = "exited" /\ s.stopped
    /\ s.handler = "drained" => s.closed /\ s.queue = 0
    /\ s.scanner = "mark" => count < MaxLines
    /\ Kept(s) <= count
    /\ reason = "none" => Kept(s) = count
    /\ reason \in {"done", "eof"} =>
          s.handler = "stopped" \/ (s.scanner = "exited" /\ Kept(s) = count)

\* Where the main loop is, the goroutines have been told to stop, and once it has
\* returned the scanner reads nothing more.
Told(s, place) ==
    /\ place \in {"cleanup"} \cup Returned => s.stopped
    /\ place \in Returned => s.bodyClosed /\ s.scanner \in {"scan", "exited"}

\* An abandoned attempt: it has put out nothing and can put out nothing.
Quiet(s) ==
    /\ s.stopped /\ s.bodyClosed
    /\ s.scanner \in {"scan", "exited"} /\ s.handler \notin {"lock", "write"}
    /\ s.handled = 0 /\ s.queue = 0

Begun == main # "request"

CurrentOK ==
    /\ ~Begun => current = 0 /\ received = 0
    /\ Begun => /\ current = attempt
                /\ Accounted(stream[attempt], status[attempt], received)
                /\ Told(stream[attempt], main)

OthersOK ==
    \A a \in Attempts :
        /\ a < attempt => Quiet(stream[a])
        /\ a > attempt \/ (a = attempt /\ ~Begun) => stream[a] = NotStarted /\ status[a] = "none"

StreamInvariant == TypeOK /\ CurrentOK /\ OthersOK

LEMMA NotStartedFields ==
    /\ NotStarted \in Stream /\ Started \in Stream
    /\ ~Started.stopped /\ ~Started.closed
    /\ Kept(Started) = 0
    /\ Started.handler = "recv" /\ Started.scanner = "scan"
    /\ NotStarted.scanner = "exited" /\ NotStarted.handler = "drained"
    /\ NotStarted.ping = "exited" /\ NotStarted.inner = "none"
<1>1. NotStarted \in Stream
    BY StreamAssumption DEF NotStarted, Stream, HandlerEnd
<1>2. Started = [NotStarted EXCEPT !.scanner = "scan", !.handler = "recv", !.ping = "idle"]
    BY DEF Started
<1>3. Started \in Stream
    BY <1>1, <1>2 DEF Stream
<1>4. /\ Started.handled = 0 /\ Started.queue = 0
      /\ Started.handler = "recv" /\ Started.scanner = "scan"
      /\ ~Started.stopped /\ ~Started.closed
    BY DEF Started, NotStarted
<1>5. Kept(Started) = 0
    BY <1>4 DEF Kept
<1> QED
    BY <1>1, <1>3, <1>4, <1>5 DEF NotStarted

LEMMA InitStream == Init => StreamInvariant
<1> SUFFICES ASSUME Init PROVE StreamInvariant
    OBVIOUS
<1>1. TypeOK
    <2>1. {armed, pingEnabled, clientGone} \subseteq BOOLEAN
        BY DEF Init
    <2>2. main \in {"request", "wait", "expire", "cleanup"} \cup Returned
        BY DEF Init
    <2>3. /\ attempt \in Attempts /\ current \in 0 .. MaxAttempts /\ received \in 0 .. MaxLines
          /\ status \in [Attempts -> Reasons]
        BY StreamAssumption DEF Init, Attempts, Reasons
    <2>4. stream \in [Attempts -> Stream]
        BY NotStartedFields DEF Init
    <2> QED
        BY <2>1, <2>2, <2>3, <2>4 DEF TypeOK
<1>2. CurrentOK
    BY DEF Init, CurrentOK, Begun
<1>3. OthersOK
    BY StreamAssumption DEF Init, OthersOK, Begun, Attempts
<1> QED
    BY <1>1, <1>2, <1>3 DEF StreamInvariant
-----------------------------------------------------------------------------
(* Reasons.                                                                *)

LEMMA FixedFields ==
    ASSUME status \in [Attempts -> Reasons], NEW b \in Attempts \cup {0}, NEW r \in Reasons
    PROVE  /\ Fixed(status, b, r) \in [Attempts -> Reasons]
           /\ \A a \in Attempts : Fixed(status, b, r)[a] =
                 IF a = b /\ status[a] = "none" THEN r ELSE status[a]
BY StreamAssumption DEF Fixed, Attempts
-----------------------------------------------------------------------------
(* A step of a goroutine of the running attempt.                           *)

LEMMA CurrentGoes ==
    ASSUME StreamInvariant, Begun, NEW x \in Stream, Others,
           ToReader(attempt, x),
           received' \in 0 .. MaxLines,
           NEW r \in Reasons,
           status' = Fixed(status, attempt, r) \/ status' = status,
           Accounted(x, status'[attempt], received'),
           Told(x, main)
    PROVE  StreamInvariant'
<1>1. attempt \in Attempts /\ status \in [Attempts -> Reasons] /\ 0 \notin Attempts
    BY StreamAssumption DEF StreamInvariant, TypeOK, Attempts
<1>2. /\ status' \in [Attempts -> Reasons]
      /\ \A a \in Attempts : a # attempt => status'[a] = status[a]
    BY <1>1, FixedFields
<1>3. TypeOK'
    BY <1>2 DEF StreamInvariant, TypeOK, ToReader, Others
<1>4. CurrentOK'
    BY <1>1 DEF StreamInvariant, CurrentOK, TypeOK, ToReader, Others, Begun
<1>5. OthersOK'
    BY <1>1, <1>2 DEF StreamInvariant, OthersOK, TypeOK, ToReader, Others, Begun, Attempts
<1> QED
    BY <1>3, <1>4, <1>5 DEF StreamInvariant

\* A step of a goroutine of an abandoned attempt may put a reason on the status of
\* the running one, but none that claims a regular end.
LEMMA AbandonedGoes ==
    ASSUME StreamInvariant, NEW a \in Attempts, a < attempt, NEW x \in Stream, Others,
           ToReader(a, x), Quiet(x),
           received' = received,
           NEW r \in Reasons \ {"none", "done", "eof"},
           status' = Fixed(status, current, r) \/ status' = status
    PROVE  StreamInvariant'
<1>1. /\ attempt \in Attempts /\ status \in [Attempts -> Reasons] /\ 0 \notin Attempts
      /\ current \in Attempts \cup {0} /\ a # attempt
    BY StreamAssumption DEF StreamInvariant, TypeOK, Attempts
<1>2. /\ status' \in [Attempts -> Reasons]
      /\ \A b \in Attempts : b # current => status'[b] = status[b]
      /\ status'[attempt] = status[attempt] \/ (status[attempt] = "none" /\ status'[attempt] = r)
    <2>1. CASE status' = status
        BY <1>1, <2>1
    <2>2. CASE status' = Fixed(status, current, r)
        <3>1. /\ Fixed(status, current, r) \in [Attempts -> Reasons]
              /\ \A b \in Attempts : Fixed(status, current, r)[b] =
                    IF b = current /\ status[b] = "none" THEN r ELSE status[b]
            BY <1>1, FixedFields
        <3> QED
            BY <1>1, <2>2, <3>1
    <2> QED
        BY <2>1, <2>2
<1>3. TypeOK'
    BY <1>2 DEF StreamInvariant, TypeOK, ToReader, Others
<1>4. stream'[attempt] = stream[attempt]
    BY <1>1 DEF ToReader, StreamInvariant, TypeOK
<1>5. CurrentOK'
    BY <1>1, <1>2, <1>4 DEF StreamInvariant, CurrentOK, Accounted, Others, Begun
<1>6. (Begun /\ current = attempt) \/ (~Begun /\ current = 0)
    BY DEF StreamInvariant, CurrentOK
<1>7. OthersOK'
    <2>1. SUFFICES ASSUME NEW b \in Attempts
                   PROVE  /\ b < attempt => Quiet(stream'[b])
                          /\ b > attempt \/ (b = attempt /\ ~Begun) =>
                                stream'[b] = NotStarted /\ status'[b] = "none"
        BY DEF OthersOK, Others, Begun
    <2>2. stream'[b] = IF b = a THEN x ELSE stream[b]
        BY DEF ToReader, StreamInvariant, TypeOK
    <2>3. CASE b < attempt
        BY <2>2, <2>3, <1>1 DEF StreamInvariant, OthersOK, Attempts
    <2>4. CASE b > attempt \/ (b = attempt /\ ~Begun)
        <3>1. b # current /\ b # a
            BY <2>4, <1>1, <1>6 DEF Attempts
        <3> QED
            BY <2>2, <2>4, <3>1, <1>1, <1>2 DEF StreamInvariant, OthersOK, Attempts
    <2> QED
        BY <2>3, <2>4
<1> QED
    BY <1>3, <1>5, <1>7 DEF StreamInvariant

\* The goroutine that moves belongs to the running attempt, or to an abandoned one.
LEMMA WhoMoves ==
    ASSUME StreamInvariant, NEW a \in Attempts,
           \/ stream[a].scanner # "exited" \/ stream[a].handler # "drained"
           \/ stream[a].ping # "exited" \/ stream[a].inner # "none"
    PROVE  /\ stream[a] \in Stream
           /\ \/ a = attempt /\ Begun /\ current = attempt
              \/ a < attempt /\ Quiet(stream[a])
<1>1. stream[a] # NotStarted
    BY NotStartedFields
<1>2. stream[a] \in Stream /\ attempt \in Attempts
    BY DEF StreamInvariant, TypeOK
<1>3. a < attempt \/ (a = attempt /\ Begun)
    BY <1>1, <1>2 DEF StreamInvariant, OthersOK, Attempts
<1> QED
    BY <1>2, <1>3 DEF StreamInvariant, OthersOK, CurrentOK

\* What is known of the running attempt.
LEMMA Running ==
    ASSUME StreamInvariant, Begun
    PROVE  /\ attempt \in Attempts /\ current = attempt /\ stream[attempt] \in Stream
           /\ status \in [Attempts -> Reasons]
           /\ Accounted(stream[attempt], status[attempt], received)
           /\ Told(stream[attempt], main)
           /\ received \in 0 .. MaxLines
BY DEF StreamInvariant, TypeOK, CurrentOK

LEMMA ScannerExitsFields ==
    ASSUME NEW s \in Stream
    PROVE  LET x == ScannerExits(s)
           IN  /\ x \in Stream /\ x.scanner = "exited" /\ x.closed /\ x.stopped
               /\ x.handler = s.handler /\ x.queue = s.queue /\ x.handled = s.handled
               /\ x.bodyClosed = s.bodyClosed
BY DEF ScannerExits, Stream

LEMMA HandlerExitsFields ==
    ASSUME NEW s \in Stream, NEW how \in HandlerEnd
    PROVE  LET x == HandlerExits(s, how)
           IN  /\ x \in Stream /\ x.handler = how /\ x.stopped
               /\ x.scanner = s.scanner /\ x.queue = s.queue /\ x.handled = s.handled
               /\ x.closed = s.closed /\ x.bodyClosed = s.bodyClosed
BY DEF HandlerExits, Stream

\* The scanner ends: the reason is there already, or is set in the same step.
LEMMA ScannerEnds ==
    ASSUME StreamInvariant, NEW a \in Attempts, Others, received' = received,
           stream[a].scanner = "scan", ToReader(a, ScannerExits(stream[a])),
           NEW r \in Reasons \ {"none"},
           \/ a < attempt /\ r \notin {"done", "eof"} /\ status' = Fixed(status, current, r)
           \/ a = attempt /\ status' = Fixed(status, current, r)
           \/ stream[a].stopped /\ status' = status
    PROVE  StreamInvariant'
<1> DEFINE s == stream[a]
<1> DEFINE x == ScannerExits(s)
<1>1. /\ s \in Stream
      /\ \/ a = attempt /\ Begun /\ current = attempt
         \/ a < attempt /\ Quiet(s)
    BY WhoMoves
<1>2. /\ x \in Stream /\ x.scanner = "exited" /\ x.closed /\ x.stopped
      /\ x.handler = s.handler /\ x.queue = s.queue /\ x.handled = s.handled
      /\ x.bodyClosed = s.bodyClosed
    BY <1>1, ScannerExitsFields
<1>3. ToReader(a, x) /\ s.scanner = "scan"
    OBVIOUS
<1> HIDE DEF x
<1>4. CASE a = attempt /\ Begun /\ current = attempt
    <2>1. /\ attempt \in Attempts
          /\ status \in [Attempts -> Reasons]
          /\ Accounted(s, status[attempt], received)
          /\ Told(s, main) /\ received \in 0 .. MaxLines
        BY Running, <1>4
    <2>2. \/ /\ status' = Fixed(status, attempt, r)
             /\ status'[attempt] = IF status[attempt] = "none" THEN r ELSE status[attempt]
          \/ status' = status /\ s.stopped
        BY <1>4, <2>1, FixedFields
    <2>3. Kept(x) = Kept(s)
        BY <1>2, <1>3 DEF Kept
    <2>4. Accounted(x, status'[attempt], received')
        BY <1>2, <1>3, <2>1, <2>2, <2>3 DEF Accounted
    <2>5. Told(x, main)
        BY <1>2, <2>1 DEF Told
    <2> QED
        BY <1>2, <1>3, <1>4, <2>1, <2>2, <2>4, <2>5, CurrentGoes
<1>5. CASE a < attempt /\ Quiet(s)
    <2>1. Quiet(x)
        BY <1>2, <1>5 DEF Quiet
    <2>2. a # attempt
        BY <1>5 DEF StreamInvariant, TypeOK, Attempts
    <2>3. PICK q \in Reasons \ {"none", "done", "eof"} :
             status' = Fixed(status, current, q) \/ status' = status
        BY <2>2 DEF Reasons
    <2> QED
        BY <1>2, <1>3, <1>5, <2>1, <2>3, AbandonedGoes
<1> QED
    BY <1>1, <1>4, <1>5

LEMMA ScanEndsKeep ==
    ASSUME StreamInvariant, NEW a \in Attempts, ScanEnds(a) \/ ScanClosed(a)
    PROVE  StreamInvariant'
<1>1. /\ stream[a].scanner = "scan" /\ ToReader(a, ScannerExits(stream[a]))
      /\ received' = received /\ Others
    BY DEF ScanEnds, ScanClosed
<1>2. a = attempt \/ (a < attempt /\ Quiet(stream[a]))
    BY <1>1, WhoMoves
<1>3. attempt \in Attempts
    BY DEF StreamInvariant, TypeOK
<1>4. CASE ScanEnds(a)
    <2>1. PICK r \in {"eof", "scanner_error"} : status' = Fixed(status, current, r)
        BY <1>4 DEF ScanEnds, SetEndReason
    <2>2. a = attempt
        BY <1>2, <1>4 DEF ScanEnds, Quiet
    <2>3. r \in Reasons \ {"none"}
        BY DEF Reasons
    <2> QED
        BY <1>1, <2>1, <2>2, <2>3, ScannerEnds
<1>5. CASE ScanClosed(a)
    <2>1. status' = Fixed(status, current, "scanner_error")
        BY <1>5 DEF ScanClosed, SetEndReason
    <2>2. "scanner_error" \in Reasons \ {"none"} /\ "scanner_error" \notin {"done", "eof"}
        BY DEF Reasons
    <2> QED
        BY <1>1, <1>2, <2>1, <2>2, ScannerEnds
<1> QED
    BY <1>4, <1>5

LEMMA ScanLineKeeps ==
    ASSUME StreamInvariant, NEW a \in Attempts, NEW kind \in {"data", "done"}, ScanLine(a, kind)
    PROVE  StreamInvariant'
<1> DEFINE s == stream[a]
<1>1. s.scanner = "scan" /\ received' = received /\ Others
    BY DEF ScanLine
<1>2. /\ s \in Stream
      /\ \/ a = attempt /\ Begun /\ current = attempt
         \/ a < attempt /\ Quiet(s)
    BY <1>1, WhoMoves
<1>3. {"client_gone", "done"} \subseteq Reasons \ {"none"}
    BY DEF Reasons
<1>4. CASE s.stopped /\ ToReader(a, ScannerExits(s)) /\ status' = status
    BY <1>1, <1>3, <1>4, ScannerEnds
<1>5. CASE SetEndReason("client_gone") /\ ToReader(a, ScannerExits(s))
    <2>1. status' = Fixed(status, current, "client_gone")
        BY <1>5 DEF SetEndReason
    <2> QED
        BY <1>1, <1>2, <1>3, <1>5, <2>1, ScannerEnds
<1>6. CASE ~s.stopped /\ SetEndReason("done") /\ ToReader(a, ScannerExits(s))
    <2>1. status' = Fixed(status, current, "done")
        BY <1>6 DEF SetEndReason
    <2>2. a = attempt
        BY <1>2, <1>6 DEF Quiet
    <2> QED
        BY <1>1, <1>3, <1>6, <2>1, <2>2, ScannerEnds
<1>7. CASE /\ ~s.stopped /\ received < MaxLines /\ status' = status
           /\ ToReader(a, [s EXCEPT !.scanner = "mark"])
    <2> DEFINE x == [s EXCEPT !.scanner = "mark"]
    <2>1. a = attempt /\ Begun
        BY <1>2, <1>7 DEF Quiet
    <2>2. /\ x \in Stream /\ x.scanner = "mark" /\ x.handler = s.handler /\ x.queue = s.queue
          /\ x.handled = s.handled /\ x.closed = s.closed /\ x.stopped = s.stopped
          /\ x.bodyClosed = s.bodyClosed
        BY <1>2 DEF Stream
    <2> HIDE DEF x
    <2>3. /\ Accounted(s, status[attempt], received) /\ Told(s, main)
          /\ received \in 0 .. MaxLines
        BY <2>1, Running
    <2>4. Kept(x) = Kept(s)
        BY <1>1, <2>2 DEF Kept
    <2>5. Accounted(x, status'[attempt], received')
        BY <1>1, <1>7, <2>2, <2>3, <2>4 DEF Accounted
    <2>6. Told(x, main)
        BY <1>7, <2>2, <2>3 DEF Told
    <2>7. ToReader(attempt, x)
        BY <1>7, <2>1 DEF x
    <2> QED
        BY <1>1, <1>3, <1>7, <2>1, <2>2, <2>3, <2>5, <2>6, <2>7, CurrentGoes
<1> QED
    BY <1>4, <1>5, <1>6, <1>7 DEF ScanLine

LEMMA MarkFirstTokenKeeps ==
    ASSUME StreamInvariant, NEW a \in Attempts, MarkFirstToken(a)
    PROVE  StreamInvariant'
<1> DEFINE s == stream[a]
<1> DEFINE x == [s EXCEPT !.scanner = "send", !.firstSeen = TRUE]
<1>1. /\ s.scanner = "mark" /\ received' = received + 1 /\ status' = status /\ Others
      /\ ToReader(a, x)
    BY DEF MarkFirstToken
<1>2. s \in Stream /\ a = attempt /\ Begun
    BY <1>1, WhoMoves DEF Quiet
<1>3. /\ x \in Stream /\ x.scanner = "send" /\ x.handler = s.handler /\ x.queue = s.queue
      /\ x.handled = s.handled /\ x.closed = s.closed /\ x.stopped = s.stopped
      /\ x.bodyClosed = s.bodyClosed
    BY <1>2 DEF Stream
<1> HIDE DEF x
<1>4. /\ Accounted(s, status[attempt], received) /\ Told(s, main)
      /\ received \in 0 .. MaxLines
    BY <1>2, Running
<1>5. Kept(x) = Kept(s) + 1 /\ Kept(s) \in Nat
    BY <1>1, <1>2, <1>3 DEF Kept, Stream
<1>6. Accounted(x, status'[attempt], received') /\ received' \in 0 .. MaxLines
    BY StreamAssumption, <1>1, <1>3, <1>4, <1>5 DEF Accounted
<1>7. Told(x, main)
    BY <1>1, <1>3, <1>4 DEF Told
<1> QED
    BY <1>1, <1>2, <1>3, <1>6, <1>7, CurrentGoes DEF Reasons

LEMMA SendChunkKeeps ==
    ASSUME StreamInvariant, NEW a \in Attempts, SendChunk(a)
    PROVE  StreamInvariant'
<1> DEFINE s == stream[a]
<1>1. s.scanner = "send" /\ received' = received /\ status' = status /\ Others
    BY DEF SendChunk
<1>2. s \in Stream /\ a = attempt /\ Begun
    BY <1>1, WhoMoves DEF Quiet
<1>3. /\ Accounted(s, status[attempt], received) /\ Told(s, main)
      /\ received \in 0 .. MaxLines
    BY <1>2, Running
<1>4. CASE s.queue < Capacity /\ ToReader(a, [s EXCEPT !.scanner = "scan", !.queue = @ + 1])
    <2> DEFINE x == [s EXCEPT !.scanner = "scan", !.queue = @ + 1]
    <2>1. /\ x \in Stream /\ x.scanner = "scan" /\ x.handler = s.handler
          /\ x.queue = s.queue + 1
          /\ x.handled = s.handled /\ x.closed = s.closed /\ x.stopped = s.stopped
          /\ x.bodyClosed = s.bodyClosed
        <3>1. s.queue < Capacity
            BY <1>4
        <3>2. s.queue + 1 \in 0 .. Capacity
            BY StreamAssumption, <1>2, <3>1 DEF Stream
        <3> QED
            BY <1>2, <3>2 DEF Stream
    <2>2. ToReader(a, x)
        BY <1>4
    <2> HIDE DEF x
    <2>3. Kept(x) = Kept(s)
        BY <1>1, <1>2, <2>1 DEF Kept, Stream
    <2>4. s.handler # "drained"
        BY <1>1, <1>3 DEF Accounted
    <2>5. Accounted(x, status'[attempt], received')
        BY <1>1, <1>3, <2>1, <2>3, <2>4 DEF Accounted
    <2>6. Told(x, main)
        BY <1>1, <1>3, <2>1 DEF Told
    <2> QED
        BY <1>1, <1>2, <1>3, <2>1, <2>2, <2>5, <2>6, CurrentGoes DEF Reasons
<1>5. CASE s.stopped /\ ToReader(a, ScannerExits(s))
    <2> DEFINE x == ScannerExits(s)
    <2>1. /\ x \in Stream /\ x.scanner = "exited" /\ x.closed /\ x.stopped
          /\ x.handler = s.handler /\ x.queue = s.queue /\ x.handled = s.handled
          /\ x.bodyClosed = s.bodyClosed
        BY <1>2, ScannerExitsFields
    <2>2. ToReader(a, x)
        BY <1>5
    <2> HIDE DEF x
    <2>3. Kept(x) + 1 = Kept(s) /\ Kept(x) \in Nat
        BY <1>1, <1>2, <2>1 DEF Kept, Stream
    <2>4. Accounted(x, status'[attempt], received')
        BY <1>1, <1>3, <1>5, <2>1, <2>3 DEF Accounted
    <2>5. Told(x, main)
        BY <1>1, <1>3, <2>1 DEF Told
    <2> QED
        BY <1>1, <1>2, <1>3, <2>1, <2>2, <2>4, <2>5, CurrentGoes DEF Reasons
<1> QED
    BY <1>4, <1>5 DEF SendChunk
-----------------------------------------------------------------------------
(* The data handler.                                                       *)

LEMMA ReceiveChunkKeeps ==
    ASSUME StreamInvariant, NEW a \in Attempts, ReceiveChunk(a)
    PROVE  StreamInvariant'
<1> DEFINE s == stream[a]
<1> DEFINE x == [s EXCEPT !.handler = "lock", !.queue = @ - 1]
<1>1. /\ s.handler = "recv" /\ s.queue > 0 /\ received' = received /\ status' = status
      /\ Others /\ ToReader(a, x)
    BY DEF ReceiveChunk
<1>2. s \in Stream /\ a = attempt /\ Begun
    BY <1>1, WhoMoves DEF Quiet
<1>3. /\ x \in Stream /\ x.scanner = s.scanner /\ x.handler = "lock" /\ x.queue = s.queue - 1
      /\ x.handled = s.handled /\ x.closed = s.closed /\ x.stopped = s.stopped
      /\ x.bodyClosed = s.bodyClosed
    <2>1. s.queue > 0
        BY <1>1
    <2>2. s.queue - 1 \in 0 .. Capacity
        BY StreamAssumption, <1>2, <2>1 DEF Stream
    <2> QED
        BY <1>2, <2>2 DEF Stream
<1> HIDE DEF x
<1>4. /\ Accounted(s, status[attempt], received) /\ Told(s, main)
      /\ received \in 0 .. MaxLines
    BY <1>2, Running
<1>5. Kept(x) = Kept(s)
    BY <1>1, <1>2, <1>3 DEF Kept, Stream
<1>6. Accounted(x, status'[attempt], received')
    BY <1>1, <1>3, <1>4, <1>5 DEF Accounted
<1>7. Told(x, main)
    BY <1>3, <1>4 DEF Told
<1> QED
    BY <1>1, <1>2, <1>3, <1>4, <1>6, <1>7, CurrentGoes DEF Reasons

LEMMA HandlerLoopEndsKeeps ==
    ASSUME StreamInvariant, NEW a \in Attempts, HandlerLoopEnds(a)
    PROVE  StreamInvariant'
<1> DEFINE s == stream[a]
<1> DEFINE x == HandlerExits(s, "drained")
<1>1. /\ s.handler = "recv" /\ s.closed /\ s.queue = 0 /\ received' = received
      /\ status' = status /\ Others /\ ToReader(a, x)
    BY DEF HandlerLoopEnds
<1>2. /\ s \in Stream
      /\ \/ a = attempt /\ Begun /\ current = attempt
         \/ a < attempt /\ Quiet(s)
    BY <1>1, WhoMoves
<1>3. /\ x \in Stream /\ x.handler = "drained" /\ x.stopped
      /\ x.scanner = s.scanner /\ x.queue = s.queue /\ x.handled = s.handled
      /\ x.closed = s.closed /\ x.bodyClosed = s.bodyClosed
    BY <1>2, HandlerExitsFields DEF HandlerEnd
<1> HIDE DEF x
<1>4. CASE a = attempt /\ Begun
    <2>1. /\ Accounted(s, status[attempt], received) /\ Told(s, main)
          /\ received \in 0 .. MaxLines
        BY <1>4, Running
    <2>2. Kept(x) = Kept(s)
        BY <1>1, <1>3 DEF Kept
    <2>3. s.stopped
        BY <1>1, <2>1 DEF Accounted
    <2>4. Accounted(x, status'[attempt], received')
        BY <1>1, <1>3, <2>1, <2>2, <2>3 DEF Accounted
    <2>5. Told(x, main)
        BY <1>3, <2>1 DEF Told
    <2> QED
        BY <1>1, <1>3, <1>4, <2>1, <2>4, <2>5, CurrentGoes DEF Reasons
<1>5. CASE a < attempt /\ Quiet(s)
    <2>1. Quiet(x)
        BY <1>3, <1>5 DEF Quiet
    <2>2. "panic" \in Reasons \ {"none", "done", "eof"}
        BY DEF Reasons
    <2> QED
        BY <1>1, <1>3, <1>5, <2>1, <2>2, AbandonedGoes
<1> QED
    BY <1>2, <1>4, <1>5

LEMMA HandlerLocksKeeps ==
    ASSUME StreamInvariant, NEW a \in Attempts, HandlerLocks(a)
    PROVE  StreamInvariant'
<1> DEFINE s == stream[a]
<1> DEFINE x == [s EXCEPT !.handler = "write", !.mutex = "handler"]
<1>1. /\ s.handler = "lock" /\ received' = received /\ status' = status
      /\ Others /\ ToReader(a, x)
    BY DEF HandlerLocks
<1>2. s \in Stream /\ a = attempt /\ Begun
    BY <1>1, WhoMoves DEF Quiet
<1>3. /\ x \in Stream /\ x.scanner = s.scanner /\ x.handler = "write" /\ x.queue = s.queue
      /\ x.handled = s.handled /\ x.closed = s.closed /\ x.stopped = s.stopped
      /\ x.bodyClosed = s.bodyClosed
    BY <1>2 DEF Stream
<1> HIDE DEF x
<1>4. /\ Accounted(s, status[attempt], received) /\ Told(s, main)
      /\ received \in 0 .. MaxLines
    BY <1>2, Running
<1>5. Kept(x) = Kept(s)
    BY <1>1, <1>3 DEF Kept
<1>6. Accounted(x, status'[attempt], received')
    BY <1>1, <1>3, <1>4, <1>5 DEF Accounted
<1>7. Told(x, main)
    BY <1>3, <1>4 DEF Told
<1> QED
    BY <1>1, <1>2, <1>3, <1>4, <1>6, <1>7, CurrentGoes DEF Reasons

LEMMA HandleChunkKeeps ==
    ASSUME StreamInvariant, NEW a \in Attempts, HandleChunk(a)
    PROVE  StreamInvariant'
<1> DEFINE old == stream[a]
<1> DEFINE s == [old EXCEPT !.handled = @ + 1]
<1> DEFINE unlocked == [s EXCEPT !.mutex = "free"]
<1>1. s.handler = "write" /\ received' = received /\ Others
    BY DEF HandleChunk
<1>2. old.handler = "write"
    BY <1>1, WhoMoves
<1>3. old \in Stream /\ a = attempt /\ Begun /\ current = attempt
    BY <1>2, WhoMoves DEF Quiet
<1>4. /\ Accounted(old, status[attempt], received) /\ Told(old, main)
      /\ received \in 0 .. MaxLines /\ status \in [Attempts -> Reasons] /\ attempt \in Attempts
    BY <1>3, Running
<1>5. old.handled + 1 \in 0 .. MaxLines
    BY StreamAssumption, <1>2, <1>3, <1>4 DEF Accounted, Kept, Stream
<1>6. /\ s \in Stream /\ s.handled = old.handled + 1 /\ s.scanner = old.scanner
      /\ s.queue = old.queue /\ s.closed = old.closed /\ s.stopped = old.stopped
      /\ s.bodyClosed = old.bodyClosed
    BY <1>3, <1>5 DEF Stream
<1>7. \/ ToReader(a, [unlocked EXCEPT !.handler = "recv"]) /\ status' = status
      \/ /\ \E reason \in {"handler_stop", "done"} : status' = Fixed(status, a, reason)
         /\ ToReader(a, HandlerExits(unlocked, "stopped"))
      \/ SetEndReason("panic") /\ ToReader(a, HandlerExits(s, "panicked"))
    BY DEF HandleChunk
<1> HIDE DEF s
<1>8. /\ unlocked \in Stream /\ unlocked.handled = s.handled /\ unlocked.scanner = s.scanner
      /\ unlocked.queue = s.queue /\ unlocked.closed = s.closed /\ unlocked.stopped = s.stopped
      /\ unlocked.bodyClosed = s.bodyClosed
    BY <1>6 DEF Stream
<1> HIDE DEF unlocked
<1>9. ASSUME NEW x \in Stream, ToReader(a, x),
             x.handler \in {"recv", "stopped", "panicked"},
             x.handled = old.handled + 1, x.scanner = old.scanner, x.queue = old.queue,
             x.closed = old.closed, x.bodyClosed = old.bodyClosed,
             old.stopped => x.stopped,
             NEW r \in Reasons \ {"none", "eof"}, r = "done" => x.handler = "stopped",
             \/ status' = status /\ x.stopped = old.stopped /\ x.handler = "recv"
             \/ status' = Fixed(status, attempt, r) /\ x.handler # "recv"
      PROVE  StreamInvariant'
    <2>1. Kept(x) = Kept(old)
        BY <1>2, <1>3, <1>9 DEF Kept, Stream
    <2>a. r \in Reasons /\ r # "none"
        BY <1>9
    <2>b. Fixed(status, attempt, r)[attempt] =
             IF status[attempt] = "none" THEN r ELSE status[attempt]
        BY <1>4, <2>a, FixedFields
    <2>c. \/ status' = status /\ x.handler = "recv"
          \/ status' = Fixed(status, attempt, r)
        BY <1>9
    <2>2. status'[attempt] = status[attempt] \/ (status[attempt] = "none" /\ status'[attempt] = r)
        BY <2>b, <2>c
    <2>3. x.handler # "recv" => status'[attempt] # "none"
        BY <2>a, <2>b, <2>c
    <2>4. x.stopped => status'[attempt] # "none"
        BY <1>4, <1>9, <2>2, <2>3 DEF Accounted
    <2>5. Accounted(x, status'[attempt], received')
        BY <1>1, <1>2, <1>4, <1>9, <2>1, <2>2, <2>3, <2>4 DEF Accounted
    <2>6. Told(x, main)
        BY <1>4, <1>9 DEF Told
    <2> QED
        BY <1>1, <1>3, <1>4, <1>9, <2>5, <2>6, CurrentGoes
<1>10. CASE ToReader(a, [unlocked EXCEPT !.handler = "recv"]) /\ status' = status
    <2> DEFINE x == [unlocked EXCEPT !.handler = "recv"]
    <2>1. /\ x \in Stream /\ x.handled = s.handled /\ x.scanner = s.scanner /\ x.queue = s.queue
          /\ x.closed = s.closed /\ x.stopped = s.stopped /\ x.bodyClosed = s.bodyClosed
          /\ x.handler = "recv"
        BY <1>8 DEF Stream
    <2>2. ToReader(a, x) /\ status' = status /\ "panic" \in Reasons \ {"none", "eof"}
        BY <1>10 DEF Reasons
    <2> HIDE DEF x
    <2> QED
        BY <1>6, <1>9, <2>1, <2>2
<1>11. CASE /\ \E reason \in {"handler_stop", "done"} : status' = Fixed(status, a, reason)
            /\ ToReader(a, HandlerExits(unlocked, "stopped"))
    <2> DEFINE x == HandlerExits(unlocked, "stopped")
    <2>1. /\ x \in Stream /\ x.handler = "stopped" /\ x.stopped
          /\ x.scanner = s.scanner /\ x.queue = s.queue /\ x.handled = s.handled
          /\ x.closed = s.closed /\ x.bodyClosed = s.bodyClosed
        BY <1>8, HandlerExitsFields DEF HandlerEnd
    <2>2. ToReader(a, x)
        BY <1>11
    <2>3. PICK r \in {"handler_stop", "done"} : status' = Fixed(status, a, r)
        BY <1>11
    <2>4. r \in Reasons \ {"none", "eof"}
        BY DEF Reasons
    <2> HIDE DEF x
    <2> QED
        BY <1>3, <1>6, <1>9, <2>1, <2>2, <2>3, <2>4
<1>12. CASE SetEndReason("panic") /\ ToReader(a, HandlerExits(s, "panicked"))
    <2> DEFINE x == HandlerExits(s, "panicked")
    <2>1. /\ x \in Stream /\ x.handler = "panicked" /\ x.stopped
          /\ x.scanner = s.scanner /\ x.queue = s.queue /\ x.handled = s.handled
          /\ x.closed = s.closed /\ x.bodyClosed = s.bodyClosed
        BY <1>6, HandlerExitsFields DEF HandlerEnd
    <2>2. ToReader(a, x) /\ status' = Fixed(status, attempt, "panic")
        BY <1>3, <1>12 DEF SetEndReason
    <2>3. "panic" \in Reasons \ {"none", "eof"}
        BY DEF Reasons
    <2> HIDE DEF x
    <2> QED
        BY <1>6, <1>9, <2>1, <2>2, <2>3
<1> QED
    BY <1>7, <1>10, <1>11, <1>12
-----------------------------------------------------------------------------
(* The pinger, which touches neither chunks nor the stop signal.           *)

LEMMA PingMoves ==
    ASSUME StreamInvariant, NEW a \in Attempts, Others, received' = received,
           stream[a].ping # "exited" \/ stream[a].inner # "none",
           NEW x \in Stream, ToReader(a, x),
           x.scanner = stream[a].scanner, x.handler = stream[a].handler,
           x.queue = stream[a].queue, x.handled = stream[a].handled,
           x.closed = stream[a].closed, x.stopped = stream[a].stopped,
           x.bodyClosed = stream[a].bodyClosed,
           status' = Fixed(status, current, "ping_fail") \/ status' = status
    PROVE  StreamInvariant'
<1> DEFINE s == stream[a]
<1>1. /\ s \in Stream
      /\ \/ a = attempt /\ Begun /\ current = attempt
         \/ a < attempt /\ Quiet(s)
    BY WhoMoves
<1>2. "ping_fail" \in Reasons \ {"none", "done", "eof"}
    BY DEF Reasons
<1>3. CASE a = attempt /\ Begun /\ current = attempt
    <2>1. /\ Accounted(s, status[attempt], received) /\ Told(s, main)
          /\ received \in 0 .. MaxLines /\ status \in [Attempts -> Reasons]
          /\ attempt \in Attempts
        BY <1>3, Running
    <2>2. Kept(x) = Kept(s)
        BY DEF Kept
    <2>3. Fixed(status, attempt, "ping_fail")[attempt] =
             IF status[attempt] = "none" THEN "ping_fail" ELSE status[attempt]
        BY <1>2, <2>1, FixedFields
    <2>4. \/ status'[attempt] = status[attempt]
          \/ status[attempt] = "none" /\ status'[attempt] = "ping_fail"
        BY <1>3, <2>3
    <2>5. Accounted(x, status'[attempt], received')
        BY <2>1, <2>2, <2>4 DEF Accounted
    <2>6. Told(x, main)
        BY <2>1 DEF Told
    <2> QED
        BY <1>2, <1>3, <2>1, <2>5, <2>6, CurrentGoes
<1>4. CASE a < attempt /\ Quiet(s)
    <2>1. Quiet(x)
        BY <1>4 DEF Quiet
    <2> QED
        BY <1>2, <1>4, <2>1, AbandonedGoes
<1> QED
    BY <1>1, <1>3, <1>4

LEMMA PingExitsFields ==
    ASSUME NEW s \in Stream
    PROVE  LET x == PingExits(s)
           IN  /\ x \in Stream /\ x.scanner = s.scanner /\ x.handler = s.handler
               /\ x.queue = s.queue /\ x.handled = s.handled /\ x.closed = s.closed
               /\ x.stopped = s.stopped /\ x.bodyClosed = s.bodyClosed
BY DEF PingExits, Stream

LEMMA PingsKeep ==
    ASSUME StreamInvariant, NEW a \in Attempts,
           \/ PingTick(a) \/ PingLocks(a) \/ PingWrites(a) \/ PingResult(a) \/ PingStops(a)
    PROVE  StreamInvariant'
<1> DEFINE s == stream[a]
<1>1. s \in Stream
    BY DEF StreamInvariant, TypeOK
<1>2. ASSUME Others, received' = received, s.ping # "exited" \/ s.inner # "none",
             ToReader(a, PingExits(s)),
             status' = Fixed(status, current, "ping_fail") \/ status' = status
      PROVE  StreamInvariant'
    BY <1>1, <1>2, PingExitsFields, PingMoves
<1>3. ASSUME Others, received' = received, s.ping # "exited" \/ s.inner # "none",
             NEW p \in {"idle", "sent", "exited"},
             NEW i \in {"none", "lock", "write", "ok", "error"},
             NEW m \in {"free", "handler", "inner"},
             ToReader(a, [s EXCEPT !.ping = p, !.inner = i, !.mutex = m]),
             status' = status
      PROVE  StreamInvariant'
    <2> DEFINE x == [s EXCEPT !.ping = p, !.inner = i, !.mutex = m]
    <2>1. /\ x \in Stream /\ x.scanner = s.scanner /\ x.handler = s.handler
          /\ x.queue = s.queue /\ x.handled = s.handled /\ x.closed = s.closed
          /\ x.stopped = s.stopped /\ x.bodyClosed = s.bodyClosed
        BY <1>1 DEF Stream
    <2>2. ToReader(a, x)
        BY <1>3
    <2> HIDE DEF x
    <2> QED
        BY <1>3, <2>1, <2>2, PingMoves
<1>4. CASE PingTick(a)
    <2>1. Others /\ received' = received /\ s.ping = "idle" /\ status' = status
        BY <1>4 DEF PingTick
    <2>2. \/ ToReader(a, PingExits(s))
          \/ ToReader(a, [s EXCEPT !.ping = "sent", !.inner = "lock"])
        BY <1>4 DEF PingTick
    <2>3. [s EXCEPT !.ping = "sent", !.inner = "lock"] =
          [s EXCEPT !.ping = "sent", !.inner = "lock", !.mutex = s.mutex]
        BY <1>1 DEF Stream
    <2>4. s.mutex \in {"free", "handler", "inner"}
        BY <1>1 DEF Stream
    <2> QED
        BY <1>2, <1>3, <2>1, <2>2, <2>3, <2>4
<1>5. CASE PingLocks(a)
    <2>1. /\ Others /\ received' = received /\ s.inner = "lock" /\ status' = status
          /\ ToReader(a, [s EXCEPT !.inner = "write", !.mutex = "inner"])
        BY <1>5 DEF PingLocks
    <2>2. [s EXCEPT !.inner = "write", !.mutex = "inner"] =
          [s EXCEPT !.ping = s.ping, !.inner = "write", !.mutex = "inner"]
        BY <1>1 DEF Stream
    <2>3. s.ping \in {"idle", "sent", "exited"}
        BY <1>1 DEF Stream
    <2> QED
        BY <1>3, <2>1, <2>2, <2>3
<1>6. CASE PingWrites(a)
    <2>1. Others /\ received' = received /\ s.inner = "write" /\ status' = status
        BY <1>6 DEF PingWrites
    <2>2. PICK result \in {"ok", "error"} :
             ToReader(a, [s EXCEPT !.inner = result, !.mutex = "free"])
        BY <1>6 DEF PingWrites
    <2>3. [s EXCEPT !.inner = result, !.mutex = "free"] =
          [s EXCEPT !.ping = s.ping, !.inner = result, !.mutex = "free"]
        BY <1>1 DEF Stream
    <2>4. s.ping \in {"idle", "sent", "exited"}
        BY <1>1 DEF Stream
    <2> QED
        BY <1>3, <2>1, <2>2, <2>3, <2>4
<1>7. CASE PingResult(a)
    <2>1. Others /\ received' = received /\ s.ping = "sent"
        BY <1>7 DEF PingResult
    <2>2. \/ ToReader(a, [s EXCEPT !.ping = "idle"]) /\ status' = status
          \/ ToReader(a, PingExits(s)) /\ status' = Fixed(status, current, "ping_fail")
        BY <1>7 DEF PingResult, SetEndReason
    <2>3. [s EXCEPT !.ping = "idle"] =
          [s EXCEPT !.ping = "idle", !.inner = s.inner, !.mutex = s.mutex]
        BY <1>1 DEF Stream
    <2>4. /\ s.inner \in {"none", "lock", "write", "ok", "error"}
          /\ s.mutex \in {"free", "handler", "inner"}
        BY <1>1 DEF Stream
    <2> QED
        BY <1>2, <1>3, <2>1, <2>2, <2>3, <2>4
<1>8. CASE PingStops(a)
    BY <1>2, <1>8 DEF PingStops
<1> QED
    BY <1>4, <1>5, <1>6, <1>7, <1>8
-----------------------------------------------------------------------------
(* The relaying goroutine.                                                 *)

\* A step of the main loop that leaves the other attempts alone.
LEMMA MainGoes ==
    ASSUME StreamInvariant, NEW x \in Stream, ToReader(attempt, x),
           main' \in {"wait", "expire", "cleanup"} \cup Returned,
           attempt' = attempt, current' = attempt, armed' \in BOOLEAN,
           UNCHANGED <<received, pingEnabled, clientGone>>,
           NEW r \in Reasons,
           status' = Fixed(status, attempt, r) \/ status' = status,
           Accounted(x, status'[attempt], received),
           Told(x, main')
    PROVE  StreamInvariant'
<1>1. attempt \in Attempts /\ status \in [Attempts -> Reasons] /\ 0 \notin Attempts
    BY StreamAssumption DEF StreamInvariant, TypeOK, Attempts
<1>2. /\ status' \in [Attempts -> Reasons]
      /\ \A a \in Attempts : a # attempt => status'[a] = status[a]
    BY <1>1, FixedFields
<1>3. /\ stream' \in [Attempts -> Stream] /\ stream'[attempt] = x
      /\ \A a \in Attempts : a # attempt => stream'[a] = stream[a]
    BY <1>1 DEF StreamInvariant, TypeOK, ToReader
<1>4. TypeOK'
    <2>1. /\ main' \in {"request", "wait", "expire", "cleanup"} \cup Returned
          /\ attempt' \in Attempts /\ current' \in 0 .. MaxAttempts
          /\ received' \in 0 .. MaxLines
        BY <1>1 DEF StreamInvariant, TypeOK, Attempts
    <2>2. {armed, pingEnabled, clientGone} \subseteq BOOLEAN
        BY DEF StreamInvariant, TypeOK
    <2>3. pingEnabled' = pingEnabled /\ clientGone' = clientGone
        OBVIOUS
    <2>4. {armed', pingEnabled', clientGone'} \subseteq BOOLEAN
        BY <2>2, <2>3, Zenon
    <2> QED
        BY <1>2, <1>3, <2>1, <2>4 DEF TypeOK
<1>5. Begun' /\ received' = received
    BY DEF Begun, Returned
<1>6. CurrentOK'
    BY <1>3, <1>5 DEF CurrentOK
<1>7. OthersOK'
    BY <1>1, <1>2, <1>3, <1>5 DEF StreamInvariant, OthersOK, Attempts
<1> QED
    BY <1>4, <1>6, <1>7 DEF StreamInvariant

LEMMA StartStreamKeeps ==
    ASSUME StreamInvariant, StartStream
    PROVE  StreamInvariant'
<1>1. /\ main = "request" /\ main' = "wait" /\ current' = attempt /\ armed' = TRUE
      /\ ToReader(attempt, Started)
      /\ UNCHANGED <<attempt, status, received, pingEnabled, clientGone>>
    BY DEF StartStream
<1>2. attempt \in Attempts /\ received = 0 /\ status[attempt] = "none"
    BY <1>1 DEF StreamInvariant, TypeOK, CurrentOK, OthersOK, Begun
<1>3. Accounted(Started, status'[attempt], received)
    BY <1>1, <1>2, NotStartedFields DEF Accounted
<1>4. Told(Started, main') /\ Started \in Stream
    BY <1>1, NotStartedFields DEF Told, Returned
<1> QED
    BY <1>1, <1>3, <1>4, MainGoes DEF Reasons

\* The loop is left with a reason, and the goroutines are told.
LEMMA LoopLeft ==
    ASSUME StreamInvariant, main \in {"wait", "expire"}, LeaveLoop,
           UNCHANGED <<attempt, current, received, armed, pingEnabled, clientGone>>,
           NEW r \in Reasons \ {"none", "done", "eof"},
           \/ status' = Fixed(status, current, r)
           \/ stream[attempt].stopped /\ status' = status
    PROVE  StreamInvariant'
<1> DEFINE s == stream[attempt]
<1> DEFINE x == [s EXCEPT !.stopped = TRUE]
<1>1. Begun
    BY DEF Begun
<1>2. /\ attempt \in Attempts /\ current = attempt /\ s \in Stream
      /\ status \in [Attempts -> Reasons] /\ Accounted(s, status[attempt], received)
      /\ Told(s, main)
    BY <1>1, Running
<1>3. ToReader(attempt, x) /\ main' = "cleanup"
    BY DEF LeaveLoop
<1>4. /\ x \in Stream /\ x.stopped /\ x.scanner = s.scanner /\ x.handler = s.handler
      /\ x.queue = s.queue /\ x.handled = s.handled /\ x.closed = s.closed
     
    BY <1>2 DEF Stream
<1> HIDE DEF x
<1>5. Kept(x) = Kept(s)
    BY <1>4 DEF Kept
<1>6. Fixed(status, attempt, r)[attempt] = IF status[attempt] = "none" THEN r ELSE status[attempt]
    BY <1>2, FixedFields
<1>7. /\ status'[attempt] # "none"
      /\ status'[attempt] = status[attempt] \/ (status[attempt] = "none" /\ status'[attempt] = r)
    BY <1>2, <1>6 DEF Accounted
<1>8. Accounted(x, status'[attempt], received)
    BY <1>2, <1>4, <1>5, <1>7 DEF Accounted
<1>9. Told(x, main')
    BY <1>3, <1>4 DEF Told, Returned
<1>10. armed' \in BOOLEAN /\ current' = attempt
    BY <1>2, <1>4 DEF StreamInvariant, TypeOK
<1>11. /\ main' \in {"wait", "expire", "cleanup"} \cup Returned /\ attempt' = attempt
       /\ UNCHANGED <<received, pingEnabled, clientGone>>
       /\ status' = Fixed(status, attempt, r) \/ status' = status
    BY <1>2, <1>3
<1> QED
    BY <1>3, <1>4, <1>8, <1>9, <1>10, <1>11, MainGoes

LEMMA WaitEndsKeeps ==
    ASSUME StreamInvariant, WaitEnds \/ FirstChunkTimeout
    PROVE  StreamInvariant'
<1>1. {"timeout", "client_gone", "first_chunk_timeout"} \subseteq Reasons \ {"none", "done", "eof"}
    BY DEF Reasons
<1>2. /\ main \in {"wait", "expire"} /\ LeaveLoop
      /\ UNCHANGED <<attempt, current, received, armed, pingEnabled, clientGone>>
    BY DEF WaitEnds, FirstChunkTimeout
<1>3. \/ status' = Fixed(status, current, "timeout")
      \/ status' = Fixed(status, current, "client_gone")
      \/ status' = Fixed(status, current, "first_chunk_timeout")
      \/ stream[attempt].stopped /\ status' = status
    BY DEF WaitEnds, FirstChunkTimeout, SetEndReason
<1> QED
    BY <1>1, <1>2, <1>3, LoopLeft

LEMMA FirstChunkTimerKeeps ==
    ASSUME StreamInvariant, FirstChunkTimer
    PROVE  StreamInvariant'
<1>1. /\ main = "wait" /\ main' \in {"wait", "expire"} /\ armed' = FALSE
      /\ UNCHANGED <<attempt, current, status, received, stream, pingEnabled, clientGone>>
    BY DEF FirstChunkTimer
<1>2. Begun
    BY <1>1 DEF Begun
<1>3. /\ attempt \in Attempts /\ current = attempt /\ stream[attempt] \in Stream
      /\ Accounted(stream[attempt], status[attempt], received)
    BY <1>2, Running
<1>4. ToReader(attempt, stream[attempt])
    BY <1>1, <1>3 DEF ToReader, StreamInvariant, TypeOK
<1>5. Told(stream[attempt], main')
    BY <1>1, <1>3 DEF Told, Returned, StreamInvariant
<1> QED
    BY <1>1, <1>3, <1>4, <1>5, MainGoes DEF Reasons

LEMMA CloseBodyKeeps ==
    ASSUME StreamInvariant, CloseBody
    PROVE  StreamInvariant'
<1> DEFINE s == stream[attempt]
<1> DEFINE x == [s EXCEPT !.bodyClosed = TRUE]
<1>1. /\ main = "cleanup" /\ WaitOver(s) /\ main' = "tail" /\ ToReader(attempt, x)
      /\ UNCHANGED <<attempt, current, status, received, armed, pingEnabled, clientGone>>
    BY DEF CloseBody
<1>2. Begun
    BY <1>1 DEF Begun
<1>3. /\ attempt \in Attempts /\ current = attempt /\ s \in Stream
      /\ Accounted(s, status[attempt], received) /\ Told(s, main)
    BY <1>2, Running
<1>4. /\ x \in Stream /\ x.bodyClosed /\ x.stopped = s.stopped /\ x.scanner = s.scanner
      /\ x.handler = s.handler /\ x.queue = s.queue /\ x.handled = s.handled
      /\ x.closed = s.closed
    BY <1>3 DEF Stream
<1> HIDE DEF x
<1>5. s.stopped /\ s.scanner \in {"scan", "exited"}
    BY <1>1, <1>3 DEF Told, WaitOver, Exited, Stuck
<1>6. Kept(x) = Kept(s)
    BY <1>4 DEF Kept
<1>7. Accounted(x, status'[attempt], received)
    BY <1>1, <1>3, <1>4, <1>6 DEF Accounted
<1>8. Told(x, main')
    BY <1>4, <1>5 DEF Told
<1>9. armed' \in BOOLEAN
    BY <1>1, <1>3, <1>4 DEF StreamInvariant, TypeOK
<1> QED
    BY <1>1, <1>3, <1>4, <1>7, <1>8, <1>9, MainGoes DEF Reasons, Returned

LEMMA FinalResponseKeeps ==
    ASSUME StreamInvariant, FinalResponse
    PROVE  StreamInvariant'
<1> DEFINE s == stream[attempt]
<1>1. PICK b \in BOOLEAN : ToReader(attempt, [s EXCEPT !.tail = b])
    BY DEF FinalResponse
<1> DEFINE x == [s EXCEPT !.tail = b]
<1>4. /\ main = "tail" /\ main' = "decide"
      /\ UNCHANGED <<attempt, current, status, received, armed, pingEnabled, clientGone>>
    BY DEF FinalResponse
<1>5. ToReader(attempt, x)
    BY <1>1
<1>6. Begun
    BY <1>4 DEF Begun
<1>7. /\ attempt \in Attempts /\ current = attempt /\ s \in Stream
      /\ Accounted(s, status[attempt], received) /\ Told(s, main)
    BY <1>6, Running
<1>8. /\ x \in Stream /\ x.bodyClosed = s.bodyClosed /\ x.stopped = s.stopped
      /\ x.scanner = s.scanner /\ x.handler = s.handler /\ x.queue = s.queue
      /\ x.handled = s.handled /\ x.closed = s.closed
    BY <1>7 DEF Stream
<1> HIDE DEF x
<1>9. Kept(x) = Kept(s)
    BY <1>8 DEF Kept
<1>10. Accounted(x, status'[attempt], received)
    BY <1>4, <1>7, <1>8, <1>9 DEF Accounted
<1>11. Told(x, main')
    BY <1>4, <1>7, <1>8 DEF Told, Returned
<1>13. armed' \in BOOLEAN
    BY <1>4 DEF StreamInvariant, TypeOK
<1> QED
    BY <1>4, <1>5, <1>7, <1>8, <1>10, <1>11, <1>13, MainGoes DEF Reasons, Returned

\* Nothing has been counted, so nothing is kept anywhere: the attempt is quiet.
LEMMA FailoverKeeps ==
    ASSUME StreamInvariant, Failover
    PROVE  StreamInvariant'
<1> DEFINE s == stream[attempt]
<1>1. /\ main = "decide" /\ received = 0 /\ attempt < MaxAttempts /\ main' = "request"
      /\ attempt' = attempt + 1 /\ current' = 0 /\ received' = 0
      /\ UNCHANGED <<status, armed, stream, pingEnabled, clientGone>>
    BY DEF Failover, FailedOver, NoOutput
<1>2. Begun
    BY <1>1 DEF Begun
<1>3. /\ attempt \in Attempts /\ s \in Stream
      /\ Accounted(s, status[attempt], received) /\ Told(s, main)
    BY <1>2, Running
<1>4. Kept(s) <= 0
    BY <1>1, <1>3 DEF Accounted
<1>5. s.handled = 0 /\ s.queue = 0 /\ s.handler \notin {"lock", "write"}
    BY <1>3, <1>4 DEF Kept, Stream
<1>6. Quiet(s)
    BY <1>1, <1>3, <1>5 DEF Quiet, Told, Returned
<1>7. attempt + 1 \in Attempts
    BY StreamAssumption, <1>1, <1>3 DEF Attempts
<1>8. TypeOK'
    BY StreamAssumption, <1>1, <1>7 DEF StreamInvariant, TypeOK
<1>9. CurrentOK'
    BY <1>1 DEF CurrentOK, Begun
<1>10. OthersOK'
    BY <1>1, <1>3, <1>6, <1>7 DEF StreamInvariant, OthersOK, Begun, Attempts
<1> QED
    BY <1>8, <1>9, <1>10 DEF StreamInvariant

LEMMA RelayEndsKeeps ==
    ASSUME StreamInvariant, RelayEnds
    PROVE  StreamInvariant'
<1>1. /\ main = "decide" /\ main' \in Returned
      /\ UNCHANGED <<attempt, current, status, received, armed, stream, pingEnabled, clientGone>>
    BY DEF RelayEnds, Returned
<1>2. Begun
    BY <1>1 DEF Begun
<1>3. /\ attempt \in Attempts /\ current = attempt /\ stream[attempt] \in Stream
      /\ Accounted(stream[attempt], status[attempt], received)
      /\ Told(stream[attempt], main)
    BY <1>2, Running
<1>4. ToReader(attempt, stream[attempt])
    BY <1>1, <1>3 DEF ToReader, StreamInvariant, TypeOK
<1>5. Told(stream[attempt], main')
    BY <1>1, <1>3 DEF Told, Returned, StreamInvariant
<1>6. armed' \in BOOLEAN
    BY <1>1 DEF StreamInvariant, TypeOK
<1> QED
    BY <1>1, <1>3, <1>4, <1>5, <1>6, MainGoes DEF Reasons

\* Steps that leave the relay's own state alone.
LEMMA StandStill ==
    ASSUME StreamInvariant, clientGone' \in BOOLEAN,
           UNCHANGED <<main, attempt, current, status, received, armed, stream, pingEnabled>>
    PROVE  StreamInvariant'
<1>1. TypeOK'
    <2>1. {armed', pingEnabled', clientGone'} \subseteq BOOLEAN
        BY DEF StreamInvariant, TypeOK
    <2> QED
        BY <2>1 DEF StreamInvariant, TypeOK
<1>2. CurrentOK' /\ OthersOK'
    BY DEF StreamInvariant, CurrentOK, OthersOK, Begun
<1> QED
    BY <1>1, <1>2 DEF StreamInvariant

LEMMA NextStream == StreamInvariant /\ [Next]_vars => StreamInvariant'
<1> SUFFICES ASSUME StreamInvariant, [Next]_vars PROVE StreamInvariant'
    OBVIOUS
<1>1. CASE Main
    BY <1>1, StartStreamKeeps, WaitEndsKeeps, FirstChunkTimerKeeps, CloseBodyKeeps,
       FinalResponseKeeps, FailoverKeeps, RelayEndsKeeps DEF Main
<1>2. CASE \E a \in Attempts : \E kind \in {"data", "done"} : ScanLine(a, kind)
    BY <1>2, ScanLineKeeps
<1>3. CASE \E a \in Attempts : ScanEnds(a) \/ Scanner(a)
    BY <1>3, ScanEndsKeep, MarkFirstTokenKeeps, SendChunkKeeps DEF Scanner
<1>4. CASE \E a \in Attempts : Handler(a)
    BY <1>4, ReceiveChunkKeeps, HandlerLoopEndsKeeps, HandlerLocksKeeps, HandleChunkKeeps
       DEF Handler
<1>5. CASE \E a \in Attempts : PingTick(a) \/ PingResult(a) \/ PingStops(a) \/ Pinger(a)
    BY <1>5, PingsKeep DEF Pinger
<1>6. CASE ClientLeaves
    BY <1>6, StandStill DEF ClientLeaves
<1>7. CASE UNCHANGED vars
    <2>1. clientGone' \in BOOLEAN
        BY <1>7 DEF vars, StreamInvariant, TypeOK
    <2> QED
        BY <1>7, <2>1, StandStill DEF vars
<1> QED
    BY <1>1, <1>2, <1>3, <1>4, <1>5, <1>6, <1>7 DEF Next, Terminating
-----------------------------------------------------------------------------
(* The theorems.                                                           *)

\* However the scanner, the handler, the pinger and the goroutines of abandoned
\* attempts interleave, the shared state stays well formed and StreamScannerHandler
\* never returns a stream without a reason for its end.
THEOREM EndsAreExplained == Spec => []StatusSound
<1>1. StreamInvariant => StatusSound
    <2> SUFFICES ASSUME StreamInvariant PROVE StatusSound
        OBVIOUS
    <2>1. main \in Returned => Begun
        BY DEF Begun, Returned
    <2>2. main \in Returned => status[attempt] # "none"
        BY <2>1 DEF StreamInvariant, CurrentOK, Accounted, Told
    <2> QED
        BY <2>2 DEF StatusSound, EndIsExplained, StreamInvariant
<1> QED
    BY <1>1, InitStream, NextStream, PTL DEF Spec

\* A request is handed to another channel only when the abandoned attempt has put no
\* chunk before the client, of whatever format, and it never does later.
THEOREM FailoversSendNoChunk == Spec => []FailoverHasNoChunks
<1>1. StreamInvariant => FailoverHasNoChunks
    <2> SUFFICES ASSUME StreamInvariant, NEW a \in 1 .. attempt - 1
                 PROVE  stream[a].handled = 0 /\ stream[a].handler # "write"
        BY DEF FailoverHasNoChunks
    <2>1. a \in Attempts /\ a < attempt
        BY StreamAssumption DEF StreamInvariant, TypeOK, Attempts
    <2> QED
        BY <2>1 DEF StreamInvariant, OthersOK, Quiet
<1> QED
    BY <1>1, InitStream, NextStream, PTL DEF Spec

\* A stream the upstream ended regularly and whose handler was not told to stop is
\* handled to its last chunk.
THEOREM StreamsAreDrained == Spec => []DrainedIsComplete
<1>1. StreamInvariant => DrainedIsComplete
    <2> DEFINE s == stream[attempt]
    <2> SUFFICES ASSUME StreamInvariant, main \in Returned, Exited(s), s.handler = "drained",
                        status[attempt] \in {"done", "eof"}
                 PROVE  s.handled = received
        BY DEF DrainedIsComplete
    <2>1. Begun
        BY DEF Begun, Returned
    <2>2. Accounted(s, status[attempt], received) /\ s \in Stream
        BY <2>1, Running
    <2> QED
        BY <2>2 DEF Accounted, Kept, Stream
<1> QED
    BY <1>1, InitStream, NextStream, PTL DEF Spec
-----------------------------------------------------------------------------
(***************************************************************************)
(* Playground: the inductive invariant.                                    *)
(***************************************************************************)

\* A finished message, for the states of the streams, the chunks they delivered
\* and the next key: what AnswerIsWhole and FailureIsShown say of it.
Finished(m, src, del, next) ==
    /\ m.key < next /\ m.status \notin Unfinished
    /\ (m.from = "assistant" /\ src[m.key] # "none" /\ m.status = "complete"
            /\ m.text # Written)
         => m.text = [j \in 1 .. del[m.key] |-> m.key]
    /\ src[m.key] = "failed" => m.status = "error"

\* The message of stream k while it is referred to: it holds all of its chunks.
Answers(m, k, del, next) ==
    /\ m.key = k /\ k < next /\ m.from = "assistant" /\ m.status \in Unfinished
    /\ m.text = [j \in 1 .. del[k] |-> k]

\* At most the last message is unfinished, and it is the one of the stream that
\* is referred to.
Consistent(msgs, k, src, del, next) ==
    /\ k = NoKey => \A i \in 1 .. Len(msgs) : Finished(msgs[i], src, del, next)
    /\ k # NoKey =>
          /\ msgs # <<>> /\ Answers(msgs[Len(msgs)], k, del, next)
          /\ \A i \in 1 .. Len(msgs) - 1 :
                Finished(msgs[i], src, del, next) /\ msgs[i].key # k

Conversation == Consistent(messages, ref, source, delivered, nextKey)

\* Keys that are not given out yet have no stream.
FreshKeys == \A k \in Keys : k >= nextKey => source[k] = "none" /\ delivered[k] = 0

\* The stream that is referred to has not failed, and the flag is its own.
Referred ==
    /\ ref # NoKey => source[ref] \in {"open", "closed"} /\ complete = FALSE
    /\ \A k \in Keys : source[k] = "open" => ref = k

\* Controls are live only on a page that is up to date.
PageCurrent == shown.generating = FALSE => ref = NoKey /\ shown.messages = messages

\* What a mount finds: at most one unfinished message, and keys given out.
Stored(msgs, next) ==
    /\ \A i, j \in 1 .. Len(msgs) :
          msgs[i].status \in Unfinished /\ msgs[j].status \in Unfinished => i = j
    /\ \A i \in 1 .. Len(msgs) : msgs[i].key < next

Undisturbed ==
    FreshKeys /\ Conversation /\ Referred /\ PageCurrent /\ Stored(saved, nextKey)

\* A page that was left: only its last message may be unfinished.
Settled(msgs, next) ==
    /\ \A i \in 1 .. Len(msgs) - 1 : msgs[i].status \notin Unfinished
    /\ \A i \in 1 .. Len(msgs) : msgs[i].key < next

LeftSettled == \A p \in pages : Settled(p.messages, nextKey)

ChatInvariant == ChatTypeOK /\ (disturbed = FALSE => Undisturbed /\ LeftSettled)

(***************************************************************************)
(* The operators on conversations.                                         *)
(***************************************************************************)

\* A function that keeps the messages with another key, up to position m.
Keeps(g, msgs, key, m) ==
    \A n \in 0 .. m :
        g[n] = IF n = 0 THEN <<>>
               ELSE IF msgs[n].key = key THEN g[n - 1] ELSE Append(g[n - 1], msgs[n])

\* There is one.
LEMMA KeepsExists ==
    ASSUME NEW S, NEW msgs \in Seq(S), NEW key
    PROVE  \E g \in [0 .. Len(msgs) -> Seq(S)] : Keeps(g, msgs, key, Len(msgs))
<1> DEFINE N == Len(msgs)
           P(m) == \E g \in [0 .. N -> Seq(S)] : Keeps(g, msgs, key, m)
           Bad == {m \in 0 .. N : ~P(m)}
<1>1. N \in Nat /\ \A n \in 1 .. N : msgs[n] \in S
    BY LenProperties, ElementOfSeq
<1> HIDE DEF N
<1>2. SUFFICES ASSUME Bad # {} PROVE FALSE
    <2>1. N \in 0 .. N
        BY <1>1
    <2>2. Bad = {} => P(N)
        BY <2>1
    <2> QED
        BY <1>2, <2>2 DEF N
<1>3. PICK m \in Bad : \A k \in Bad : m <= k
    <2>1. Bad \in SUBSET Nat
        BY <1>1
    <2> QED
        BY <1>2, <2>1, SmallestNat
<1>4. CASE m = 0
    <2> DEFINE g == [n \in 0 .. N |-> <<>>]
    <2>1. g \in [0 .. N -> Seq(S)]
        BY EmptySeq
    <2>2. Keeps(g, msgs, key, 0)
        BY <1>1 DEF Keeps
    <2> QED
        BY <1>4, <2>1, <2>2
<1>5. CASE m # 0
    <2>1. m \in 1 .. N /\ m - 1 \in 0 .. N /\ m - 1 \notin Bad
        BY <1>1, <1>3, <1>5
    <2>2. PICK f \in [0 .. N -> Seq(S)] : Keeps(f, msgs, key, m - 1)
        BY <2>1
    <2> DEFINE x == IF msgs[m].key = key THEN f[m - 1] ELSE Append(f[m - 1], msgs[m])
               g == [f EXCEPT ![m] = x]
    <2>3. f[m - 1] \in Seq(S) /\ msgs[m] \in S
        BY <1>1, <2>1
    <2>4. x \in Seq(S)
        BY <2>3, AppendProperties
    <2>5. g \in [0 .. N -> Seq(S)] /\ g[m] = x /\ \A n \in 0 .. m - 1 : g[n] = f[n]
        <3> HIDE DEF x
        <3> QED
            BY <1>1, <2>1, <2>4
    <2>6. Keeps(g, msgs, key, m)
        <3> HIDE DEF g
        <3> SUFFICES ASSUME NEW n \in 0 .. m
                     PROVE  g[n] = IF n = 0 THEN <<>>
                                   ELSE IF msgs[n].key = key THEN g[n - 1]
                                        ELSE Append(g[n - 1], msgs[n])
            BY DEF Keeps
        <3>1. CASE n = m
            <4>1. g[n - 1] = f[n - 1] /\ n # 0
                BY <1>1, <2>1, <2>5, <3>1
            <4> QED
                BY <2>5, <3>1, <4>1
        <3>2. CASE n # m
            <4>1. n \in 0 .. m - 1 /\ (n # 0 => n - 1 \in 0 .. m - 1)
                BY <1>1, <2>1, <3>2
            <4>2. g[n] = f[n] /\ (n # 0 => g[n - 1] = f[n - 1])
                BY <2>5, <4>1
            <4>3. f[n] = IF n = 0 THEN <<>> ELSE IF msgs[n].key = key THEN f[n - 1]
                                                 ELSE Append(f[n - 1], msgs[n])
                BY <2>2, <4>1 DEF Keeps
            <4> QED
                BY <4>2, <4>3
        <3> QED
            BY <3>1, <3>2
    <2> QED
        BY <1>3, <2>5, <2>6
<1> QED
    BY <1>4, <1>5

\* What is left of a conversation consists of its messages.
LEMMA WithoutType ==
    ASSUME NEW S, NEW msgs \in Seq(S), NEW key
    PROVE  Without(msgs, key) \in Seq(S)
<1> DEFINE Is(g) == g = [n \in 0 .. Len(msgs) |->
                            IF n = 0 THEN <<>> ELSE IF msgs[n].key = key THEN g[n - 1]
                                                    ELSE Append(g[n - 1], msgs[n])]
           kept == CHOOSE g : Is(g)
<1>1. Len(msgs) \in Nat
    BY LenProperties
<1>2. PICK f \in [0 .. Len(msgs) -> Seq(S)] : Keeps(f, msgs, key, Len(msgs))
    BY KeepsExists
<1>3. Is(f)
    BY <1>2 DEF Keeps
<1>4. Is(kept)
    BY <1>3
<1>5. Without(msgs, key) = kept[Len(msgs)]
    BY DEF Without
<1> HIDE DEF kept
<1> DEFINE Bad == {n \in 0 .. Len(msgs) : kept[n] \notin Seq(S)}
<1>6. SUFFICES ASSUME Bad # {} PROVE FALSE
    BY <1>1, <1>5
<1>7. PICK m \in Bad : \A k \in Bad : m <= k
    <2>1. Bad \in SUBSET Nat
        BY <1>1
    <2> QED
        BY <1>6, <2>1, SmallestNat
<1>8. kept[m] = IF m = 0 THEN <<>> ELSE IF msgs[m].key = key THEN kept[m - 1]
                                        ELSE Append(kept[m - 1], msgs[m])
    BY <1>4
<1>9. m # 0
    BY <1>8, EmptySeq
<1>10. m - 1 \in 0 .. Len(msgs) /\ kept[m - 1] \in Seq(S) /\ msgs[m] \in S
    BY <1>1, <1>7, <1>9, ElementOfSeq
<1>11. Append(kept[m - 1], msgs[m]) \in Seq(S)
    BY <1>10, AppendProperties
<1>12. kept[m] \in Seq(S)
    BY <1>8, <1>9, <1>10, <1>11
<1> QED
    BY <1>7, <1>12

\* A conversation that differs from another at most in its last message.
AlikeButLast(r, msgs) ==
    r \in Seq(Message) /\ Len(r) = Len(msgs) /\ \A i \in 1 .. Len(msgs) - 1 : r[i] = msgs[i]

\* The text the page writes itself is a text.
LEMMA WrittenType == Written \in Seq(Keys \cup {0}) /\ Written[1] = 0 /\ Len(Written) = 1
BY DEF Written

\* The last message of a conversation.
LEMMA LastType ==
    ASSUME NEW msgs \in Seq(Message), msgs # <<>>
    PROVE  Len(msgs) \in Nat \ {0} /\ Len(msgs) \in 1 .. Len(msgs) /\ msgs[Len(msgs)] \in Message
<1>1. Len(msgs) \in Nat \ {0}
    BY EmptySeq
<1> QED
    BY <1>1, ElementOfSeq

\* The first n messages of a conversation.
LEMMA Prefix ==
    ASSUME NEW S, NEW msgs \in Seq(S), NEW n \in 0 .. Len(msgs)
    PROVE  /\ SubSeq(msgs, 1, n) \in Seq(S) /\ Len(SubSeq(msgs, 1, n)) = n
           /\ \A i \in 1 .. n : SubSeq(msgs, 1, n)[i] = msgs[i]
<1>1. Len(msgs) \in Nat /\ n \in Nat
    BY LenProperties
<1>2. \A i \in 1 .. n : msgs[i] \in S
    BY <1>1, ElementOfSeq
<1>3. /\ SubSeq(msgs, 1, n) \in Seq(S)
      /\ Len(SubSeq(msgs, 1, n)) = IF 1 <= n THEN n - 1 + 1 ELSE 0
      /\ \A i \in 1 .. n - 1 + 1 : SubSeq(msgs, 1, n)[i] = msgs[1 + i - 1]
    BY <1>1, <1>2, SubSeqProperties
<1> DEFINE s == SubSeq(msgs, 1, n)
<1> HIDE DEF s
<1>4. \A i \in 1 .. n : s[i] = msgs[i]
    <2>1. ASSUME NEW i \in 1 .. n PROVE s[i] = msgs[i]
        <3>1. i \in 1 .. n - 1 + 1 /\ 1 + i - 1 = i
            BY <1>1
        <3>2. s[i] = msgs[1 + i - 1]
            BY <1>3, <3>1 DEF s
        <3> QED
            BY <3>1, <3>2
    <2> QED
        BY <2>1
<1> QED
    BY <1>1, <1>3, <1>4 DEF s

\* updateLastAssistantMessage changes the last message only.
LEMMA UpdateLast ==
    ASSUME NEW msgs \in Seq(Message), NEW u,
           msgs # <<>> /\ Last(msgs).from = "assistant" => u \in Message
    PROVE  /\ AlikeButLast(UpdateLastAssistant(msgs, u), msgs)
           /\ msgs # <<>> => UpdateLastAssistant(msgs, u)[Len(msgs)] =
                                IF Last(msgs).from = "assistant" THEN u ELSE Last(msgs)
<1>1. CASE msgs # <<>> /\ Last(msgs).from = "assistant"
    <2> DEFINE front == Front(msgs)
    <2>1. Len(msgs) \in Nat \ {0} /\ \A i \in 1 .. Len(msgs) - 1 : msgs[i] \in Message
        BY <1>1, LastType, ElementOfSeq
    <2>2. front = SubSeq(msgs, 1, Len(msgs) - 1)
        BY DEF Front
    <2> HIDE DEF front
    <2>3. front \in Seq(Message) /\ Len(front) = Len(msgs) - 1
          /\ \A i \in 1 .. Len(msgs) - 1 : front[i] = msgs[i]
        <3>1. Len(msgs) - 1 \in 0 .. Len(msgs)
            BY <2>1
        <3> QED
            BY <2>2, <3>1, Prefix
    <2>4. UpdateLastAssistant(msgs, u) = Append(front, u)
        BY <1>1 DEF UpdateLastAssistant, front
    <2>5. /\ Append(front, u) \in Seq(Message)
          /\ Len(Append(front, u)) = Len(front) + 1
          /\ \A i \in 1 .. Len(front) : Append(front, u)[i] = front[i]
          /\ Append(front, u)[Len(front) + 1] = u
        BY <1>1, <2>3, AppendProperties
    <2>6. Len(front) + 1 = Len(msgs)
        BY <2>1, <2>3
    <2>7. Append(front, u)[Len(msgs)] = u /\ Len(Append(front, u)) = Len(msgs)
        BY <2>5, <2>6
    <2>8. \A i \in 1 .. Len(msgs) - 1 : Append(front, u)[i] = msgs[i]
        BY <2>1, <2>3, <2>5
    <2> QED
        BY <1>1, <2>4, <2>5, <2>7, <2>8 DEF AlikeButLast
<1>2. CASE ~(msgs # <<>> /\ Last(msgs).from = "assistant")
    <2>1. UpdateLastAssistant(msgs, u) = msgs
        BY <1>2 DEF UpdateLastAssistant
    <2> QED
        BY <1>2, <2>1 DEF AlikeButLast, Last
<1> QED
    BY <1>1, <1>2

\* Replacing the last message by itself changes nothing.
LEMMA UpdateSame ==
    ASSUME NEW msgs \in Seq(Message)
    PROVE  UpdateLastAssistant(msgs, Last(msgs)) = msgs
<1>1. CASE msgs = <<>>
    BY <1>1 DEF UpdateLastAssistant
<1>2. CASE msgs # <<>>
    <2> DEFINE r == UpdateLastAssistant(msgs, Last(msgs))
    <2>1. Len(msgs) \in Nat \ {0} /\ Last(msgs) \in Message
        BY <1>2, LastType DEF Last
    <2>2. AlikeButLast(r, msgs) /\ r[Len(msgs)] = Last(msgs)
        BY <1>2, <2>1, UpdateLast
    <2> HIDE DEF r
    <2>3. \A i \in 1 .. Len(msgs) : r[i] = msgs[i]
        BY <2>1, <2>2 DEF AlikeButLast, Last
    <2> QED
        BY <2>2, <2>3, SeqEqual DEF AlikeButLast, r
<1> QED
    BY <1>1, <1>2

\* A message with an error notice, with another status, and with one chunk more.
LEMMA MessageUpdates ==
    ASSUME NEW m \in Message
    PROVE  /\ [m EXCEPT !.status = "error", !.text = Written] \in Message
           /\ [m EXCEPT !.status = "complete"] \in Message
           /\ [m EXCEPT !.text = Written] \in Message
           /\ \A k \in Keys :
                 [m EXCEPT !.status = "streaming", !.text = Append(@, k)] \in Message
<1>1. \A k \in Keys : Append(m.text, k) \in Seq(Keys \cup {0})
    <2>1. m.text \in Seq(Keys \cup {0})
        BY DEF Message
    <2> QED
        BY <2>1, AppendProperties
<1> QED
    BY <1>1, WrittenType DEF Message, Unfinished

\* WithError and FinalizeLast change the last message only, if it is an answer.
LEMMA WithErrorLast ==
    ASSUME NEW msgs \in Seq(Message)
    PROVE  /\ AlikeButLast(WithError(msgs), msgs)
           /\ msgs # <<>> => WithError(msgs)[Len(msgs)] =
                 IF Last(msgs).from = "assistant"
                 THEN [Last(msgs) EXCEPT !.status = "error", !.text = Written] ELSE Last(msgs)
<1> DEFINE u == [Last(msgs) EXCEPT !.status = "error", !.text = Written]
<1>1. msgs # <<>> => u \in Message
    BY LastType, MessageUpdates DEF Last
<1>2. WithError(msgs) = UpdateLastAssistant(msgs, u)
    BY DEF WithError
<1> HIDE DEF u
<1>3. /\ AlikeButLast(WithError(msgs), msgs)
      /\ msgs # <<>> => WithError(msgs)[Len(msgs)] =
                           IF Last(msgs).from = "assistant" THEN u ELSE Last(msgs)
    BY <1>1, <1>2, UpdateLast
<1> QED
    BY <1>3 DEF u

\* The same of FinalizeLast, which leaves finished messages alone.
LEMMA FinalizeLastLast ==
    ASSUME NEW msgs \in Seq(Message)
    PROVE  /\ AlikeButLast(FinalizeLast(msgs), msgs)
           /\ msgs # <<>> /\ Last(msgs).from = "assistant" /\ Last(msgs).status \in Unfinished =>
                 FinalizeLast(msgs)[Len(msgs)] = [Last(msgs) EXCEPT !.status = "complete"]
           /\ (msgs # <<>> => Last(msgs).status \notin Unfinished) => FinalizeLast(msgs) = msgs
<1> DEFINE c == [Last(msgs) EXCEPT !.status = "complete"]
           u == IF Last(msgs).status \in Unfinished THEN c ELSE Last(msgs)
<1>1. msgs # <<>> => c \in Message /\ Last(msgs) \in Message
    BY LastType, MessageUpdates DEF Last
<1> HIDE DEF c
<1>2. msgs # <<>> => u \in Message
    BY <1>1
<1>3. FinalizeLast(msgs) = UpdateLastAssistant(msgs, u)
    BY DEF FinalizeLast, c
<1> HIDE DEF u
<1>4. /\ AlikeButLast(FinalizeLast(msgs), msgs)
      /\ msgs # <<>> => FinalizeLast(msgs)[Len(msgs)] =
                           IF Last(msgs).from = "assistant" THEN u ELSE Last(msgs)
    BY <1>2, <1>3, UpdateLast
<1>5. (msgs # <<>> => Last(msgs).status \notin Unfinished) => FinalizeLast(msgs) = msgs
    <2>1. CASE msgs = <<>>
        BY <1>3, <2>1 DEF UpdateLastAssistant
    <2>2. CASE msgs # <<>> /\ Last(msgs).status \notin Unfinished
        <3>1. u = Last(msgs)
            BY <2>2 DEF u
        <3> QED
            BY <1>3, <3>1, UpdateSame
    <2> QED
        BY <2>1, <2>2
<1> QED
    BY <1>4, <1>5 DEF u, c

\* sanitizeMessagesOnLoad keeps the messages and their keys.
LEMMA SanitizeType ==
    ASSUME NEW msgs \in Seq(Message)
    PROVE  Sanitize(msgs) \in Seq(Message) /\ Len(Sanitize(msgs)) = Len(msgs)
<1> DEFINE stuck == {i \in 1 .. Len(msgs) : msgs[i].status \in Unfinished}
           i == CHOOSE j \in stuck : \A l \in stuck : l <= j
           e == IF msgs[i].text # <<>> THEN [msgs[i] EXCEPT !.status = "complete"]
                ELSE [msgs[i] EXCEPT !.status = "error", !.text = Written]
<1>1. stuck # {} => Sanitize(msgs) = [msgs EXCEPT ![i] = e]
    BY DEF Sanitize
<1>2. stuck = {} => Sanitize(msgs) = msgs
    BY DEF Sanitize
<1>3. i \in 1 .. Len(msgs) => e \in Message
    <2>1. i \in 1 .. Len(msgs) => msgs[i] \in Message
        BY ElementOfSeq
    <2> HIDE DEF i
    <2> QED
        BY <2>1, MessageUpdates
<1> HIDE DEF i, e
<1>4. i \in 1 .. Len(msgs) =>
         [msgs EXCEPT ![i] = e] \in Seq(Message) /\ Len([msgs EXCEPT ![i] = e]) = Len(msgs)
    BY <1>3, ExceptSeq
<1>5. i \notin 1 .. Len(msgs) => [msgs EXCEPT ![i] = e] = msgs
    <2>1. msgs \in [1 .. Len(msgs) -> Message]
        BY LenProperties
    <2> QED
        BY <2>1
<1> QED
    BY <1>1, <1>2, <1>4, <1>5

\* Of a stored conversation it leaves no message unfinished.
LEMMA SanitizeFinishes ==
    ASSUME NEW msgs \in Seq(Message), NEW next, Stored(msgs, next), NEW n \in 1 .. Len(msgs)
    PROVE  Sanitize(msgs)[n].status \notin Unfinished /\ Sanitize(msgs)[n].key = msgs[n].key
<1> DEFINE stuck == {i \in 1 .. Len(msgs) : msgs[i].status \in Unfinished}
           i == CHOOSE j \in stuck : \A l \in stuck : l <= j
           e == IF msgs[i].text # <<>> THEN [msgs[i] EXCEPT !.status = "complete"]
                ELSE [msgs[i] EXCEPT !.status = "error", !.text = Written]
<1>0. Len(msgs) \in Nat /\ msgs[n] \in Message
    BY LenProperties, ElementOfSeq
<1>1. CASE stuck = {}
    <2>1. Sanitize(msgs) = msgs
        BY <1>1 DEF Sanitize
    <2> QED
        BY <1>1, <2>1
<1>2. CASE stuck # {}
    <2>1. Sanitize(msgs) = [msgs EXCEPT ![i] = e]
        BY <1>2 DEF Sanitize
    <2>2. PICK s \in stuck : TRUE
        BY <1>2
    <2>3. \A l \in stuck : l = s
        BY <2>2 DEF Stored
    <2>4. \A l \in stuck : l <= s
        BY <1>0, <2>3
    <2>5. i \in stuck
        BY <2>2, <2>4
    <2> HIDE DEF i
    <2>6. msgs[i] \in Message /\ i \in 1 .. Len(msgs)
        BY <2>5, ElementOfSeq
    <2>7. e \in Message
        BY <2>6, MessageUpdates
    <2>8. e.status \notin Unfinished /\ e.key = msgs[i].key
        BY <2>6 DEF Message, Unfinished
    <2> HIDE DEF e
    <2>9. [msgs EXCEPT ![i] = e][n] = IF n = i THEN e ELSE msgs[n]
        BY <2>6, <2>7, ExceptSeq
    <2>10. n # i => n \notin stuck
        BY <2>3, <2>5
    <2> QED
        BY <2>1, <2>8, <2>9, <2>10
<1> QED
    BY <1>1, <1>2

\* The text of an answer: no chunk, and one chunk more.
LEMMA NoChunks == ASSUME NEW k PROVE <<>> = [j \in 1 .. 0 |-> k]
<1>1. <<>> \in Seq({k}) /\ Len(<<>>) = 0
    BY EmptySeq
<1>2. [j \in 1 .. 0 |-> k] \in Seq({k}) /\ Len([j \in 1 .. 0 |-> k]) = 0
    OBVIOUS
<1>3. \A i \in 1 .. 0 : FALSE
    OBVIOUS
<1> QED
    BY <1>1, <1>2, <1>3, SeqEqual

\* A chunk is put at the end of the text.
LEMMA OneChunkMore ==
    ASSUME NEW k, NEW d \in Nat
    PROVE  Append([j \in 1 .. d |-> k], k) = [j \in 1 .. d + 1 |-> k]
<1> DEFINE s == [j \in 1 .. d |-> k]
           t == [j \in 1 .. d + 1 |-> k]
<1>1. s \in Seq({k}) /\ Len(s) = d /\ t \in Seq({k}) /\ Len(t) = d + 1
    OBVIOUS
<1>2. (\A i \in 1 .. d : s[i] = k) /\ (\A i \in 1 .. d + 1 : t[i] = k)
    OBVIOUS
<1> HIDE DEF s, t
<1>3. /\ Append(s, k) \in Seq({k}) /\ Len(Append(s, k)) = d + 1
      /\ \A i \in 1 .. d : Append(s, k)[i] = s[i]
      /\ Append(s, k)[d + 1] = k
    BY <1>1, AppendProperties
<1>4. \A i \in 1 .. d + 1 : Append(s, k)[i] = t[i]
    BY <1>2, <1>3
<1>5. Append(s, k) = t
    BY <1>1, <1>3, <1>4, SeqEqual
<1> QED
    BY <1>5 DEF s, t

\* Messages of the page are messages.
LEMMA NewMessages ==
    ASSUME NEW k \in Keys
    PROVE  UserMessage(k) \in Message /\ LoadingMessage(k) \in Message
<1>1. <<>> \in Seq(Keys \cup {0})
    BY EmptySeq
<1> QED
    BY <1>1, WrittenType DEF UserMessage, LoadingMessage, Message, Unfinished

(***************************************************************************)
(* Every step keeps the types.                                             *)
(***************************************************************************)

\* A flush writes the conversation to the page and to localStorage.
LEMMA FlushedType ==
    ASSUME Flushed, messages' \in Seq(Message)
    PROVE  /\ shown' \in [messages : Seq(Message), generating : BOOLEAN]
           /\ saved' \in Seq(Message)
BY DEF Flushed

\* A scheduled update may write it to localStorage.
LEMMA ScheduledType ==
    ASSUME PageTypeOK, Scheduled, messages' \in Seq(Message)
    PROVE  /\ shown' \in [messages : Seq(Message), generating : BOOLEAN]
           /\ saved' \in Seq(Message)
BY DEF PageTypeOK, Scheduled

\* Ask, and with it every control that sends.
LEMMA AskType ==
    ASSUME PageTypeOK, NEW msgs \in Seq(Message), NEW k, Ask(msgs, k),
           editing' \in Keys \cup {NoKey}, disturbed' \in BOOLEAN
    PROVE  PageTypeOK'
<1>1. k \in Keys /\ nextKey' = k + 1 /\ Flushed
    BY DEF Ask
<1>2. Append(msgs, LoadingMessage(k)) \in Seq(Message)
    BY <1>1, NewMessages, AppendProperties
<1>3. messages' \in Seq(Message)
    BY <1>2, WithErrorLast DEF Ask, SendStreamRequest, AlikeButLast
<1>4. /\ source' \in [Keys -> {"none", "open", "closed", "failed"}]
      /\ delivered' = delivered /\ ref' \in Keys \cup {NoKey} /\ complete' \in BOOLEAN
    BY <1>1 DEF PageTypeOK, Ask, SendStreamRequest
<1>5. nextKey' \in 1 .. MaxKeys + 1
    BY <1>1, PlaygroundAssumption DEF Keys
<1> QED
    BY <1>1, <1>3, <1>4, <1>5, FlushedType DEF PageTypeOK

\* The conversation a click starts from.
LEMMA ShownType ==
    ASSUME PageTypeOK
    PROVE  shown.messages \in Seq(Message) /\ shown.generating \in BOOLEAN
BY DEF PageTypeOK

\* The conversation with one text edited.
LEMMA EditedType ==
    ASSUME NEW msgs \in Seq(Message), NEW i \in 1 .. Len(msgs)
    PROVE  /\ [msgs EXCEPT ![i].text = Written] \in Seq(Message)
           /\ Len([msgs EXCEPT ![i].text = Written]) = Len(msgs)
           /\ \A n \in 1 .. Len(msgs) :
                 [msgs EXCEPT ![i].text = Written][n] =
                     IF n = i THEN [msgs[i] EXCEPT !.text = Written] ELSE msgs[n]
<1> DEFINE e == [msgs[i] EXCEPT !.text = Written]
<1>1. e \in Message
    BY ElementOfSeq, MessageUpdates
<1>2. [msgs EXCEPT ![i].text = Written] = [msgs EXCEPT ![i] = e]
    OBVIOUS
<1> HIDE DEF e
<1>3. /\ [msgs EXCEPT ![i] = e] \in Seq(Message)
      /\ Len([msgs EXCEPT ![i] = e]) = Len(msgs)
      /\ \A n \in 1 .. Len(msgs) : [msgs EXCEPT ![i] = e][n] = IF n = i THEN e ELSE msgs[n]
    BY <1>1, ExceptSeq
<1> QED
    BY <1>2, <1>3 DEF e

\* What a message to send is put after.
LEMMA SentType ==
    ASSUME PageTypeOK, NEW k \in Keys
    PROVE  Append(shown.messages, UserMessage(k)) \in Seq(Message)
BY ShownType, NewMessages, AppendProperties

\* handleSendMessage.
LEMMA SendType ==
    ASSUME PageTypeOK, HandleSendMessage, disturbed' \in BOOLEAN
    PROVE  PageTypeOK'
<1>1. nextKey + 1 \in Keys /\ nextKey \in 1 .. MaxKeys + 1
    BY DEF HandleSendMessage, Ask, PageTypeOK
<1>2. nextKey \in Keys
    BY <1>1, PlaygroundAssumption DEF Keys
<1>3. Append(shown.messages, UserMessage(nextKey)) \in Seq(Message)
    BY <1>2, SentType
<1>4. editing' \in Keys \cup {NoKey}
    BY DEF HandleSendMessage, PageTypeOK
<1> QED
    BY <1>3, <1>4, AskType DEF HandleSendMessage

\* handleRegenerateMessage.
LEMMA RegenerateType ==
    ASSUME PageTypeOK, NEW i \in 1 .. Len(shown.messages), HandleRegenerateMessage(i)
    PROVE  PageTypeOK'
<1>1. i - 1 \in 0 .. Len(shown.messages)
    BY ShownType, LenProperties
<1>2. SubSeq(shown.messages, 1, i - 1) \in Seq(Message)
    BY <1>1, ShownType, Prefix
<1>3. editing' \in Keys \cup {NoKey} /\ disturbed' \in BOOLEAN
    BY DEF HandleRegenerateMessage, PageTypeOK
<1> QED
    BY <1>2, <1>3, AskType DEF HandleRegenerateMessage

\* handleDeleteMessage.
LEMMA DeleteType ==
    ASSUME PageTypeOK, NEW i \in 1 .. Len(shown.messages), HandleDeleteMessage(i)
    PROVE  PageTypeOK'
<1>1. messages' \in Seq(Message)
    BY ShownType, WithoutType DEF HandleDeleteMessage
<1>2. UNCHANGED <<source, delivered, ref, complete, editing, nextKey, disturbed>> /\ Flushed
    BY DEF HandleDeleteMessage, sse, page
<1> QED
    BY <1>1, <1>2, FlushedType DEF PageTypeOK

\* applyEdit.
LEMMA ApplyType ==
    ASSUME PageTypeOK, NEW i \in 1 .. Len(shown.messages), NEW submit \in BOOLEAN,
           ApplyEdit(i, submit)
    PROVE  PageTypeOK'
<1>1. /\ Edited(i) \in Seq(Message) /\ Len(Edited(i)) = Len(shown.messages)
      /\ Len(shown.messages) \in Nat
    BY ShownType, EditedType, LenProperties DEF Edited
<1>2. editing' \in Keys \cup {NoKey} /\ disturbed' \in BOOLEAN
    BY ShownType DEF ApplyEdit, Unguarded, PageTypeOK
<1>3. CASE submit
    <2>1. SubSeq(Edited(i), 1, i) \in Seq(Message)
        BY <1>1, Prefix
    <2>2. Ask(SubSeq(Edited(i), 1, i), nextKey)
        BY <1>3 DEF ApplyEdit
    <2> QED
        BY <1>2, <2>1, <2>2, AskType
<1>4. CASE ~submit
    <2>1. messages' = Edited(i) /\ Flushed
          /\ UNCHANGED <<source, delivered, ref, complete, nextKey>>
        BY <1>4 DEF ApplyEdit, sse
    <2> QED
        BY <1>1, <1>2, <2>1, FlushedType DEF PageTypeOK
<1> QED
    BY <1>3, <1>4

\* The last message of the conversation after one more chunk of stream k.
Chunked(m, k) ==
    IF m.status = "error" THEN m ELSE [m EXCEPT !.status = "streaming", !.text = Append(@, k)]

\* It is the only message a chunk changes.
LEMMA ChunkLast ==
    ASSUME NEW msgs \in Seq(Message), NEW k \in Keys
    PROVE  /\ AlikeButLast(UpdateLastAssistant(msgs, Chunked(Last(msgs), k)), msgs)
           /\ msgs # <<>> => UpdateLastAssistant(msgs, Chunked(Last(msgs), k))[Len(msgs)] =
                 IF Last(msgs).from = "assistant" THEN Chunked(Last(msgs), k) ELSE Last(msgs)
<1>1. msgs # <<>> => Chunked(Last(msgs), k) \in Message
    <2>1. msgs # <<>> => Last(msgs) \in Message
        BY LastType DEF Last
    <2> QED
        BY <2>1, MessageUpdates DEF Chunked
<1> QED
    BY <1>1, UpdateLast

\* handleStreamUpdate.
LEMMA StreamUpdateType ==
    ASSUME PageTypeOK, NEW k \in Keys, HandleStreamUpdate(k)
    PROVE  PageTypeOK' /\ messages' = UpdateLastAssistant(messages, Chunked(Last(messages), k))
<1>1. messages' = UpdateLastAssistant(messages, Chunked(Last(messages), k))
    BY DEF HandleStreamUpdate, WithChunk, Chunked
<1>2. messages' \in Seq(Message)
    BY <1>1, ChunkLast DEF PageTypeOK, AlikeButLast
<1>3. delivered' \in [Keys -> 0 .. MaxChunks]
    BY PlaygroundAssumption DEF HandleStreamUpdate, PageTypeOK
<1>4. UNCHANGED <<source, ref, complete, editing, nextKey, disturbed>> /\ Scheduled
    BY DEF HandleStreamUpdate, page
<1> QED
    BY <1>1, <1>2, <1>3, <1>4, ScheduledType DEF PageTypeOK

\* handleStreamComplete.
LEMMA StreamCompleteType ==
    ASSUME PageTypeOK, NEW k \in Keys, HandleStreamComplete(k)
    PROVE  PageTypeOK'
<1>1. messages' \in Seq(Message)
    BY FinalizeLastLast DEF HandleStreamComplete, PageTypeOK, AlikeButLast
<1>2. UNCHANGED <<delivered, editing, nextKey, disturbed>> /\ Scheduled
    BY DEF HandleStreamComplete, page
<1>3. source' \in [Keys -> {"none", "open", "closed", "failed"}] /\ ref' = NoKey
      /\ complete' \in BOOLEAN
    BY DEF HandleStreamComplete, PageTypeOK
<1> QED
    BY <1>1, <1>2, <1>3, ScheduledType DEF PageTypeOK

\* handleStreamError.
LEMMA StreamErrorType ==
    ASSUME PageTypeOK, NEW k \in Keys, HandleStreamError(k)
    PROVE  PageTypeOK'
<1>1. UNCHANGED <<delivered, complete, editing, nextKey, disturbed>>
    BY DEF HandleStreamError, page
<1>2. source' \in [Keys -> {"none", "open", "closed", "failed"}]
    BY DEF HandleStreamError, PageTypeOK
<1>3. CASE complete
    BY <1>1, <1>2, <1>3 DEF HandleStreamError, PageTypeOK
<1>4. CASE ~complete
    <2>1. messages' = WithError(messages) /\ ref' = NoKey /\ Scheduled
        BY <1>4 DEF HandleStreamError
    <2>2. messages' \in Seq(Message)
        BY <2>1, WithErrorLast DEF PageTypeOK, AlikeButLast
    <2> QED
        BY <1>1, <1>2, <2>1, <2>2, ScheduledType DEF PageTypeOK
<1> QED
    BY <1>3, <1>4

\* stopGeneration.
LEMMA StopType ==
    ASSUME PageTypeOK, StopGeneration
    PROVE  PageTypeOK'
<1>1. messages' \in Seq(Message)
    BY FinalizeLastLast DEF StopGeneration, PageTypeOK, AlikeButLast
<1>2. UNCHANGED <<delivered, complete, editing, nextKey, disturbed>> /\ Flushed
    BY DEF StopGeneration, page
<1>3. source' \in [Keys -> {"none", "open", "closed", "failed"}] /\ ref' = NoKey
    BY DEF StopGeneration, StopStream, PageTypeOK
<1> QED
    BY <1>1, <1>2, <1>3, FlushedType DEF PageTypeOK

\* What the first event after a page was left may save.
LEMMA LeftPageResult ==
    ASSUME NEW msgs \in Seq(Message), NEW k \in Keys,
           NEW r \in {WithChunk(msgs, k), FinalizeLast(msgs), WithError(msgs)}
    PROVE  /\ AlikeButLast(r, msgs)
           /\ msgs # <<>> => r[Len(msgs)].key = msgs[Len(msgs)].key
<1> DEFINE m == Last(msgs)
           chunk == [m EXCEPT !.status = "streaming", !.text = Append(@, k)]
           done == [m EXCEPT !.status = "complete"]
           error == [m EXCEPT !.status = "error", !.text = Written]
<1>1. PICK u \in {IF m.status = "error" THEN m ELSE chunk,
                  IF m.status \in Unfinished THEN done ELSE m, error} :
             r = UpdateLastAssistant(msgs, u)
    BY DEF WithChunk, FinalizeLast, WithError
<1>2. u \in {m, chunk, done, error}
    BY <1>1
<1>3. msgs # <<>> => u \in Message /\ u.key = m.key /\ m = msgs[Len(msgs)]
    <2>1. SUFFICES ASSUME msgs # <<>> PROVE u \in Message /\ u.key = m.key /\ m = msgs[Len(msgs)]
        OBVIOUS
    <2>2. m \in Message /\ m = msgs[Len(msgs)]
        BY <2>1, LastType DEF Last
    <2> HIDE DEF m
    <2>3. chunk \in Message /\ done \in Message /\ error \in Message
        BY <2>2, MessageUpdates
    <2>4. chunk.key = m.key /\ done.key = m.key /\ error.key = m.key
        BY <2>2 DEF Message
    <2> QED
        BY <1>2, <2>2, <2>3, <2>4
<1> HIDE DEF m, chunk, done, error
<1>4. /\ AlikeButLast(r, msgs)
      /\ msgs # <<>> => r[Len(msgs)] = IF Last(msgs).from = "assistant" THEN u ELSE Last(msgs)
    BY <1>1, <1>3, UpdateLast
<1> QED
    BY <1>3, <1>4 DEF m

\* A mount, and what is left after an unmount.
LEMMA FreshType ==
    ASSUME PageTypeOK, NEW msgs \in Seq(Message), Fresh(msgs), saved' \in Seq(Message)
    PROVE  PageTypeOK'
<1>1. /\ messages' \in Seq(Message) /\ shown' \in [messages : Seq(Message), generating : BOOLEAN]
      /\ UNCHANGED <<nextKey, disturbed>> /\ ref' = NoKey /\ complete' = FALSE
      /\ editing' = NoKey
    BY DEF Fresh
<1>2. /\ source' \in [Keys -> {"none", "open", "closed", "failed"}]
      /\ delivered' \in [Keys -> 0 .. MaxChunks]
    BY PlaygroundAssumption DEF Fresh
<1> QED
    BY <1>1, <1>2 DEF PageTypeOK

LEMMA MountsType ==
    ASSUME PageTypeOK, Enter \/ Leave \/ CloseTab
    PROVE  PageTypeOK'
<1>1. saved \in Seq(Message) /\ <<>> \in Seq(Message)
    BY EmptySeq DEF PageTypeOK
<1>2. CASE Enter
    <2>1. Sanitize(saved) \in Seq(Message)
        BY <1>1, SanitizeType
    <2>2. Fresh(Sanitize(saved)) /\ saved' = Sanitize(saved)
        BY <1>2 DEF Enter, Fresh
    <2> QED
        BY <2>1, <2>2, FreshType
<1>3. CASE Leave \/ CloseTab
    <2>1. Fresh(<<>>) /\ saved' = saved
        BY <1>3 DEF Leave, CloseTab
    <2> QED
        BY <1>1, <2>1, FreshType
<1> QED
    BY <1>2, <1>3

\* The streams of a page that was left write to the saved copy only, and what they
\* write comes from the last render of that page.
LEMMA OrphanSaves ==
    ASSUME NEW k \in Keys, OrphanUpdates(k) \/ OrphanEnds(k)
    PROVE  /\ UNCHANGED <<messages, shown, source, delivered, ref, complete>>
           /\ UNCHANGED <<editing, nextKey, disturbed, mounted>>
           /\ pages' \subseteq pages /\ orphans' \subseteq orphans
           /\ \/ saved' = saved
              \/ \E p \in pages :
                    saved' \in {WithChunk(p.messages, k), FinalizeLast(p.messages),
                               WithError(p.messages)}
<1>1. CASE OrphanUpdates(k)
    BY <1>1 DEF OrphanUpdates, LeftPageSaves, sse, page
<1>2. CASE OrphanEnds(k)
    BY <1>2 DEF OrphanEnds, LeftPageSaves, sse, page
<1> QED
    BY <1>1, <1>2

LEMMA OrphanType ==
    ASSUME PageTypeOK, AwayTypeOK, NEW k \in Keys, OrphanUpdates(k) \/ OrphanEnds(k)
    PROVE  PageTypeOK'
<1>1. saved' \in Seq(Message)
    <2>1. CASE saved' = saved
        BY <2>1 DEF PageTypeOK
    <2>2. ASSUME NEW p \in pages,
                 saved' \in {WithChunk(p.messages, k), FinalizeLast(p.messages),
                            WithError(p.messages)}
          PROVE  saved' \in Seq(Message)
        <3>1. p.messages \in Seq(Message)
            BY DEF AwayTypeOK, LeftPage
        <3> QED
            BY <2>2, <3>1, LeftPageResult DEF AlikeButLast
    <2> QED
        BY <2>1, <2>2, OrphanSaves
<1> QED
    BY <1>1, OrphanSaves DEF PageTypeOK

\* A render.
LEMMA RenderType ==
    ASSUME PageTypeOK, Render
    PROVE  PageTypeOK'
<1>1. UNCHANGED <<messages, source, delivered, ref, complete, editing, nextKey, disturbed>>
      /\ Flushed
    BY DEF Render, sse, page
<1>2. messages' \in Seq(Message)
    BY <1>1 DEF PageTypeOK
<1> QED
    BY <1>1, <1>2, FlushedType DEF PageTypeOK

\* The types are kept by every step, disturbed or not.
LEMMA PageTypeStep ==
    ASSUME PageTypeOK, AwayTypeOK, [ChatNext]_chatVars
    PROVE  PageTypeOK'
<1>1. CASE HandleSubmit
    <2>1. disturbed' \in BOOLEAN
        BY <1>1 DEF HandleSubmit, PageTypeOK
    <2> QED
        BY <1>1, <2>1, SendType DEF HandleSubmit
<1>2. CASE HandleSuggestionClick
    <2>1. disturbed' \in BOOLEAN
        BY <1>2 DEF HandleSuggestionClick, Unguarded
    <2> QED
        BY <1>2, <2>1, SendType DEF HandleSuggestionClick
<1>3. CASE CancelEdit
    BY <1>3 DEF CancelEdit, PageTypeOK, sse
<1>4. CASE StopGeneration
    BY <1>4, StopType
<1>5. CASE Render
    BY <1>5, RenderType
<1>6. CASE Enter \/ Leave \/ CloseTab
    BY <1>6, MountsType
<1>7. ASSUME NEW i \in 1 .. Len(shown.messages),
             \/ HandleRegenerateMessage(i) \/ HandleDeleteMessage(i) \/ HandleEditMessage(i)
             \/ \E submit \in BOOLEAN : ApplyEdit(i, submit)
      PROVE  PageTypeOK'
    <2>1. CASE HandleEditMessage(i)
        <3>1. shown.messages[i] \in Message
            BY ShownType, ElementOfSeq
        <3> QED
            BY <2>1, <3>1 DEF HandleEditMessage, PageTypeOK, Message, sse
    <2> QED
        BY <1>7, <2>1, RegenerateType, DeleteType, ApplyType
<1>8. ASSUME NEW k \in Keys,
             \/ HandleStreamUpdate(k) \/ HandleStreamComplete(k)
             \/ HandleStreamError(k) \/ StreamEnds(k)
             \/ OrphanUpdates(k) \/ OrphanEnds(k)
      PROVE  PageTypeOK'
    <2>1. CASE StreamEnds(k)
        BY <2>1 DEF StreamEnds, PageTypeOK, page
    <2> QED
        BY <1>8, <2>1, StreamUpdateType, StreamCompleteType, StreamErrorType, OrphanType
<1>9. CASE UNCHANGED chatVars
    BY <1>9 DEF chatVars, sse, page, PageTypeOK
<1> QED
    BY <1>1, <1>2, <1>3, <1>4, <1>5, <1>6, <1>7, <1>8, <1>9 DEF ChatNext

\* Steps other than an unmount and the events of orphans leave the left pages alone,
\* and keys are only ever given out.
LEMMA AwayStep ==
    ASSUME PageTypeOK, [ChatNext]_chatVars
    PROVE  /\ nextKey' \in Nat /\ nextKey \in Nat /\ nextKey' >= nextKey
           /\ \/ Leave \/ CloseTab
              \/ \E k \in Keys : OrphanUpdates(k) \/ OrphanEnds(k)
              \/ UNCHANGED <<orphans, pages>> /\ (mounted' = mounted \/ mounted' = TRUE)
<1>0. nextKey \in Nat
    BY PlaygroundAssumption DEF PageTypeOK
<1> DEFINE Grown == nextKey' \in Nat /\ nextKey' >= nextKey
           Same == orphans' = orphans /\ pages' = pages
                   /\ (mounted' = mounted \/ mounted' = TRUE)
<1>1. ASSUME HandleSubmit \/ HandleSuggestionClick PROVE Grown /\ Same
    <2>1. nextKey' = nextKey + 2 /\ UNCHANGED <<mounted, orphans, pages>>
        BY <1>0, <1>1 DEF HandleSubmit, HandleSuggestionClick, HandleSendMessage, Ask, away
    <2> QED
        BY <1>0, <2>1
<1>2. ASSUME CancelEdit \/ StopGeneration \/ Render \/ Enter PROVE Grown /\ Same
    <2>1. nextKey' = nextKey /\ orphans' = orphans /\ pages' = pages
        BY <1>2 DEF CancelEdit, StopGeneration, Render, Enter, Fresh, page, away
    <2>2. mounted' = mounted \/ mounted' = TRUE
        BY <1>2, Zenon DEF CancelEdit, StopGeneration, Render, Enter, away
    <2> QED
        BY <1>0, <2>1, <2>2
<1>3. ASSUME Leave \/ CloseTab PROVE Grown
    <2>1. nextKey' = nextKey
        BY <1>3 DEF Leave, CloseTab, Fresh
    <2> QED
        BY <1>0, <2>1
<1>4. ASSUME NEW i \in 1 .. Len(shown.messages),
             \/ HandleRegenerateMessage(i) \/ HandleDeleteMessage(i) \/ HandleEditMessage(i)
             \/ \E submit \in BOOLEAN : ApplyEdit(i, submit)
      PROVE  /\ nextKey' \in Nat /\ nextKey' >= nextKey
             /\ UNCHANGED <<orphans, pages>> /\ mounted' = mounted
    BY <1>0, <1>4 DEF HandleRegenerateMessage, HandleDeleteMessage, HandleEditMessage, ApplyEdit,
                      Ask, page, away
<1>5. ASSUME NEW k \in Keys,
             \/ HandleStreamUpdate(k) \/ HandleStreamComplete(k)
             \/ HandleStreamError(k) \/ StreamEnds(k)
      PROVE  nextKey' = nextKey /\ UNCHANGED <<orphans, pages>> /\ mounted' = mounted
    BY <1>5 DEF HandleStreamUpdate, HandleStreamComplete, HandleStreamError, StreamEnds, page, away
<1>6. ASSUME NEW k \in Keys, OrphanUpdates(k) \/ OrphanEnds(k)
      PROVE  nextKey' = nextKey
    BY <1>6, OrphanSaves
<1>7. ASSUME UNCHANGED chatVars PROVE Grown /\ Same
    <2>1. nextKey' = nextKey /\ UNCHANGED <<mounted, orphans, pages>>
        BY <1>7 DEF chatVars, page, away
    <2> QED
        BY <1>0, <2>1
<1>8. CASE Leave \/ CloseTab
    BY <1>0, <1>3, <1>8, Zenon
<1>9. CASE \E k \in Keys : OrphanUpdates(k) \/ OrphanEnds(k)
    <2>1. Grown
        BY <1>0, <1>6, <1>9
    <2> QED
        BY <1>0, <1>9, <2>1, Zenon
<1>10. CASE ~(Leave \/ CloseTab) /\ ~(\E k \in Keys : OrphanUpdates(k) \/ OrphanEnds(k))
    <2>1. Grown /\ Same
        <3>1. ASSUME NEW i \in 1 .. Len(shown.messages),
                     \/ HandleRegenerateMessage(i) \/ HandleDeleteMessage(i)
                     \/ HandleEditMessage(i) \/ \E submit \in BOOLEAN : ApplyEdit(i, submit)
              PROVE  Grown /\ Same
            BY <1>4, <3>1
        <3>2. ASSUME NEW k \in Keys,
                     \/ HandleStreamUpdate(k) \/ HandleStreamComplete(k)
                     \/ HandleStreamError(k) \/ StreamEnds(k)
              PROVE  Grown /\ Same
            BY <1>0, <1>5, <3>2
        <3> HIDE DEF Grown, Same
        <3> QED
            BY <1>1, <1>2, <1>7, <1>10, <3>1, <3>2, Zenon DEF ChatNext
    <2> QED
        BY <1>0, <2>1
<1> QED
    BY <1>8, <1>9, <1>10, Zenon

\* Pages that are left are recorded with their own conversation.
LEMMA LeavePages ==
    ASSUME PageTypeOK, AwayTypeOK, Leave
    PROVE  /\ pages' \in SUBSET LeftPage /\ orphans' \in SUBSET Keys /\ mounted' = FALSE
           /\ \A p \in pages' : p \in pages \/ p.messages = messages
<1> DEFINE open == {k \in Keys : source[k] = "open"}
           new == [streams |-> open, messages |-> messages, complete |-> complete]
<1>1. pages' \subseteq pages \cup {new} /\ orphans' = orphans \cup open /\ mounted' = FALSE
    BY DEF Leave
<1>2. new \in LeftPage /\ new.messages = messages
    BY DEF PageTypeOK, LeftPage
<1> HIDE DEF new
<1> QED
    BY <1>1, <1>2 DEF AwayTypeOK

LEMMA AwayTypeStep ==
    ASSUME PageTypeOK, AwayTypeOK, [ChatNext]_chatVars
    PROVE  AwayTypeOK'
<1>1. CASE Leave
    BY <1>1, LeavePages DEF AwayTypeOK
<1>2. CASE CloseTab
    BY <1>2 DEF CloseTab, AwayTypeOK
<1>3. ASSUME NEW k \in Keys, OrphanUpdates(k) \/ OrphanEnds(k) PROVE AwayTypeOK'
    BY <1>3, OrphanSaves DEF AwayTypeOK
<1>4. CASE UNCHANGED <<orphans, pages>> /\ (mounted' = mounted \/ mounted' = TRUE)
    BY <1>4 DEF AwayTypeOK
<1> QED
    BY <1>1, <1>2, <1>3, <1>4, AwayStep

(***************************************************************************)
(* Every step keeps the invariant while no unguarded control is used.      *)
(***************************************************************************)

\* A finished message stays finished when other streams move on.
LEMMA FinishedKept ==
    ASSUME NEW m \in Message, NEW src, NEW del, NEW next \in Nat,
           NEW src2, NEW del2, NEW next2 \in Nat,
           Finished(m, src, del, next), next <= next2,
           src2[m.key] = src[m.key], del2[m.key] = del[m.key]
    PROVE  Finished(m, src2, del2, next2)
<1>1. m.key \in Nat
    BY PlaygroundAssumption DEF Message, Keys
<1> QED
    BY <1>1 DEF Finished

\* A consistent conversation has at most one unfinished message.
LEMMA ConsistentStored ==
    ASSUME NEW msgs \in Seq(Message), NEW k, NEW src, NEW del, NEW next,
           Consistent(msgs, k, src, del, next)
    PROVE  Stored(msgs, next)
<1>1. CASE k = NoKey
    BY <1>1 DEF Consistent, Stored, Finished
<1>2. CASE k # NoKey
    <2>1. Len(msgs) \in Nat \ {0}
        BY <1>2, LastType DEF Consistent
    <2>2. \A i \in 1 .. Len(msgs) : i = Len(msgs) \/ i \in 1 .. Len(msgs) - 1
        BY <2>1
    <2>3. \A i \in 1 .. Len(msgs) - 1 : msgs[i].status \notin Unfinished /\ msgs[i].key < next
        BY <1>2 DEF Consistent, Finished
    <2>4. msgs[Len(msgs)].key < next
        BY <1>2 DEF Consistent, Answers
    <2> QED
        BY <2>2, <2>3, <2>4 DEF Stored
<1> QED
    BY <1>1, <1>2

LEMMA ConsistentSettled ==
    ASSUME NEW msgs \in Seq(Message), NEW k, NEW src, NEW del, NEW next,
           Consistent(msgs, k, src, del, next)
    PROVE  Settled(msgs, next)
<1>1. Len(msgs) \in Nat
    BY LenProperties
<1>2. CASE k = NoKey
    <2>1. \A i \in 1 .. Len(msgs) : Finished(msgs[i], src, del, next)
        BY <1>2 DEF Consistent
    <2>2. \A i \in 1 .. Len(msgs) - 1 : i \in 1 .. Len(msgs)
        BY <1>1
    <2> QED
        BY <2>1, <2>2 DEF Settled, Finished
<1>3. CASE k # NoKey
    <2>1. \A i \in 1 .. Len(msgs) : i = Len(msgs) \/ i \in 1 .. Len(msgs) - 1
        BY <1>1
    <2> QED
        BY <1>3, <2>1 DEF Consistent, Settled, Finished, Answers
<1> QED
    BY <1>2, <1>3

\* After a flush the page is up to date and the copy is the conversation.
LEMMA FlushedOK ==
    ASSUME Flushed, messages' \in Seq(Message), Conversation'
    PROVE  PageCurrent' /\ Stored(saved, nextKey)'
<1>1. Stored(messages', nextKey')
    BY ConsistentStored DEF Conversation
<1>2. shown'.messages = messages' /\ shown'.generating = (ref' # NoKey) /\ saved' = messages'
    BY DEF Flushed
<1> QED
    BY <1>1, <1>2 DEF PageCurrent

\* A stream event is met by a page that is generating.
LEMMA ScheduledOK ==
    ASSUME PageTypeOK, Undisturbed, Scheduled, ref # NoKey, nextKey' = nextKey,
           messages' \in Seq(Message), Conversation'
    PROVE  PageCurrent' /\ Stored(saved, nextKey)'
<1>1. Stored(messages', nextKey')
    BY ConsistentStored DEF Conversation
<1>2. shown' = shown /\ shown.generating # FALSE
    BY DEF Scheduled, Undisturbed, PageCurrent
<1>3. saved' = saved \/ saved' = messages'
    BY DEF Scheduled
<1> QED
    BY <1>1, <1>2, <1>3 DEF PageCurrent, Undisturbed

\* Where the controls are live, every message is finished.
LEMMA ClickState ==
    ASSUME PageTypeOK, Undisturbed, shown.generating = FALSE
    PROVE  /\ ref = NoKey /\ shown.messages = messages
           /\ \A i \in 1 .. Len(messages) : Finished(messages[i], source, delivered, nextKey)
           /\ \A k \in Keys : source[k] # "open"
<1>1. ref = NoKey /\ shown.messages = messages
    BY DEF Undisturbed, PageCurrent
<1>2. \A k \in Keys : source[k] # "open"
    BY <1>1, PlaygroundAssumption DEF Undisturbed, Referred, NoKey, Keys
<1> QED
    BY <1>1, <1>2 DEF Undisturbed, Conversation, Consistent

\* Messages that a new stream may be started after.
Base(msgs, k) ==
    /\ msgs \in Seq(Message)
    /\ \A i \in 1 .. Len(msgs) : Finished(msgs[i], source, delivered, k)

\* A new stream, or its failure to start, leaves the conversation consistent.
LEMMA AskOK ==
    ASSUME PageTypeOK, Undisturbed, ref = NoKey, \A j \in Keys : source[j] # "open",
           NEW msgs, NEW k, k >= nextKey, Base(msgs, k), Ask(msgs, k)
    PROVE  Undisturbed'
<1>1. /\ k \in Keys /\ k \in Nat \ {0} /\ nextKey \in Nat /\ nextKey' = k + 1 /\ delivered' = delivered
      /\ Flushed /\ complete' = FALSE /\ k # NoKey
    BY PlaygroundAssumption DEF Ask, SendStreamRequest, PageTypeOK, Keys, NoKey
<1>2. source[k] = "none" /\ delivered[k] = 0
    BY <1>1 DEF Undisturbed, FreshKeys
<1> DEFINE all == Append(msgs, LoadingMessage(k))
<1>3. LoadingMessage(k) \in Message
    BY <1>1, NewMessages
<1>4. /\ all \in Seq(Message) /\ all # <<>> /\ Len(all) = Len(msgs) + 1 /\ Len(msgs) \in Nat
      /\ (\A i \in 1 .. Len(msgs) : all[i] = msgs[i]) /\ all[Len(all)] = LoadingMessage(k)
    BY <1>3, AppendProperties, LenProperties DEF Base
<1>5. \/ messages' = all /\ ref' = k /\ source' = [source EXCEPT ![k] = "open"]
      \/ messages' = WithError(all) /\ ref' = NoKey /\ source' = [source EXCEPT ![k] = "failed"]
    BY DEF Ask, SendStreamRequest
<1> HIDE DEF all
<1>6. source \in [Keys -> {"none", "open", "closed", "failed"}]
    BY DEF PageTypeOK
<1>7. ASSUME NEW i \in 1 .. Len(msgs)
      PROVE  Finished(msgs[i], source', delivered', nextKey') /\ msgs[i].key # k
    <2>1. msgs[i] \in Message /\ Finished(msgs[i], source, delivered, k)
        BY ElementOfSeq DEF Base
    <2>2. msgs[i].key \in Keys /\ msgs[i].key < k
        BY <2>1 DEF Message, Finished
    <2>3. source'[msgs[i].key] = source[msgs[i].key] /\ msgs[i].key # k
        BY <1>1, <1>5, <1>6, <2>2, PlaygroundAssumption DEF Keys
    <2> QED
        BY <1>1, <2>1, <2>3, FinishedKept
<1>8. messages' \in Seq(Message) /\ Conversation'
    <2>1. CASE messages' = all /\ ref' = k /\ source' = [source EXCEPT ![k] = "open"]
        <3>1. Answers(LoadingMessage(k), k, delivered', nextKey')
            <4>1. LoadingMessage(k).text = [j \in 1 .. delivered'[k] |-> k]
                BY <1>1, <1>2, NoChunks DEF LoadingMessage
            <4> QED
                BY <1>1, <4>1 DEF Answers, LoadingMessage, Unfinished
        <3>2. \A i \in 1 .. Len(all) - 1 :
                  Finished(all[i], source', delivered', nextKey') /\ all[i].key # k
            BY <1>4, <1>7
        <3> QED
            BY <1>1, <1>4, <2>1, <3>1, <3>2 DEF Conversation, Consistent
    <2>2. CASE messages' = WithError(all) /\ ref' = NoKey
               /\ source' = [source EXCEPT ![k] = "failed"]
        <3> DEFINE e == [LoadingMessage(k) EXCEPT !.status = "error", !.text = Written]
        <3>1. AlikeButLast(messages', all) /\ messages'[Len(all)] = e
            <4>1. Last(all) = LoadingMessage(k) /\ LoadingMessage(k).from = "assistant"
                BY <1>4 DEF Last, LoadingMessage
            <4>2. /\ AlikeButLast(WithError(all), all)
                  /\ WithError(all)[Len(all)] =
                        IF Last(all).from = "assistant"
                        THEN [Last(all) EXCEPT !.status = "error", !.text = Written] ELSE Last(all)
                BY <1>4, WithErrorLast
            <4> QED
                BY <2>2, <4>1, <4>2
        <3>2. e.key = k /\ e.status = "error" /\ e.text = Written
            BY DEF LoadingMessage
        <3> HIDE DEF e
        <3>3. Finished(e, source', delivered', nextKey')
            BY <1>1, <3>2 DEF Finished, Unfinished
        <3>4. \A i \in 1 .. Len(all) - 1 :
                  messages'[i] = msgs[i] /\ Finished(msgs[i], source', delivered', nextKey')
            BY <1>4, <1>7, <3>1 DEF AlikeButLast
        <3>5. \A i \in 1 .. Len(messages') : i = Len(all) \/ i \in 1 .. Len(all) - 1
            BY <1>4, <3>1 DEF AlikeButLast
        <3>6. \A i \in 1 .. Len(messages') : Finished(messages'[i], source', delivered', nextKey')
            BY <3>1, <3>3, <3>4, <3>5
        <3> QED
            BY <2>2, <3>1, <3>6 DEF Conversation, Consistent, AlikeButLast
    <2> QED
        BY <1>5, <2>1, <2>2
<1>9. PageCurrent' /\ Stored(saved, nextKey)'
    BY <1>1, <1>8, FlushedOK
<1>10. FreshKeys'
    <2>1. ASSUME NEW j \in Keys, j >= nextKey'
          PROVE  source'[j] = "none" /\ delivered'[j] = 0
        <3>1. j >= nextKey /\ j # k
            BY <1>1, <2>1, PlaygroundAssumption DEF Keys
        <3>2. source[j] = "none" /\ delivered[j] = 0
            BY <3>1 DEF Undisturbed, FreshKeys
        <3> QED
            BY <1>1, <1>5, <1>6, <3>1, <3>2
    <2> QED
        BY <2>1 DEF FreshKeys
<1>11. Referred'
    <2>1. source'[k] \in {"open", "failed"} /\ (ref' = NoKey => source'[k] = "failed")
          /\ (ref' # NoKey => ref' = k /\ source'[k] = "open")
        BY <1>1, <1>5, <1>6
    <2>2. ASSUME NEW j \in Keys, source'[j] = "open" PROVE ref' = j
        <3>1. j = k
            BY <1>5, <1>6, <2>2
        <3> QED
            BY <2>1, <2>2, <3>1
    <2>3. ref' # NoKey => source'[ref'] = "open"
        BY <2>1
    <2> QED
        BY <1>1, <2>2, <2>3 DEF Referred
<1> QED
    BY <1>8, <1>9, <1>10, <1>11 DEF Undisturbed

\* handleSendMessage asks after the finished messages and the user's own.
LEMMA SendOK ==
    ASSUME PageTypeOK, Undisturbed, shown.generating = FALSE, HandleSendMessage
    PROVE  Undisturbed'
<1>1. nextKey + 1 \in Keys /\ nextKey \in Nat \ {0} /\ nextKey \in Keys
    BY PlaygroundAssumption DEF HandleSendMessage, Ask, PageTypeOK, Keys
<1>2. /\ ref = NoKey /\ shown.messages = messages /\ messages \in Seq(Message)
      /\ \A i \in 1 .. Len(messages) : Finished(messages[i], source, delivered, nextKey)
      /\ \A k \in Keys : source[k] # "open"
    BY ClickState DEF PageTypeOK
<1> DEFINE u == UserMessage(nextKey)
           all == Append(messages, u)
<1>3. u \in Message /\ u.key = nextKey /\ u.status = "none" /\ u.from = "user"
    BY <1>1, NewMessages DEF UserMessage
<1> HIDE DEF u
<1>4. /\ all \in Seq(Message) /\ Len(all) = Len(messages) + 1 /\ Len(messages) \in Nat
      /\ (\A i \in 1 .. Len(messages) : all[i] = messages[i]) /\ all[Len(messages) + 1] = u
    BY <1>2, <1>3, AppendProperties, LenProperties
<1> HIDE DEF all
<1>5. source[nextKey] = "none"
    BY <1>1 DEF Undisturbed, FreshKeys
<1>6. Finished(u, source, delivered, nextKey + 1)
    BY <1>1, <1>3, <1>5 DEF Finished, Unfinished
<1>7. ASSUME NEW i \in 1 .. Len(messages)
      PROVE  Finished(messages[i], source, delivered, nextKey + 1)
    <2>1. messages[i] \in Message
        BY <1>2, ElementOfSeq
    <2> QED
        BY <1>1, <1>2, <2>1, FinishedKept
<1>8. \A i \in 1 .. Len(all) : i = Len(messages) + 1 \/ i \in 1 .. Len(messages)
    BY <1>4
<1>9. Base(all, nextKey + 1)
    BY <1>4, <1>6, <1>7, <1>8 DEF Base
<1>10. Ask(all, nextKey + 1)
    BY <1>2 DEF HandleSendMessage, all, u
<1>11. nextKey + 1 >= nextKey
    BY <1>1
<1> QED
    BY <1>2, <1>9, <1>10, <1>11, AskOK

\* An answer is asked again: what follows it is dropped.
LEMMA RegenerateOK ==
    ASSUME PageTypeOK, Undisturbed, NEW i \in 1 .. Len(shown.messages),
           HandleRegenerateMessage(i)
    PROVE  Undisturbed'
<1>1. shown.generating = FALSE
    BY ShownType DEF HandleRegenerateMessage, GuardAction
<1>2. /\ ref = NoKey /\ shown.messages = messages /\ messages \in Seq(Message)
      /\ \A n \in 1 .. Len(messages) : Finished(messages[n], source, delivered, nextKey)
      /\ \A k \in Keys : source[k] # "open"
    BY <1>1, ClickState DEF PageTypeOK
<1>3. i - 1 \in 0 .. Len(messages) /\ Len(messages) \in Nat
    BY <1>2, LenProperties
<1> DEFINE msgs == SubSeq(messages, 1, i - 1)
<1>4. msgs \in Seq(Message) /\ Len(msgs) = i - 1 /\ \A n \in 1 .. i - 1 : msgs[n] = messages[n]
    BY <1>2, <1>3, Prefix
<1> HIDE DEF msgs
<1>5. Base(msgs, nextKey)
    BY <1>2, <1>3, <1>4 DEF Base
<1>6. Ask(msgs, nextKey) /\ nextKey >= nextKey
    BY <1>2 DEF HandleRegenerateMessage, msgs, PageTypeOK
<1> QED
    BY <1>2, <1>5, <1>6, AskOK

\* A conversation of finished messages is consistent without a stream.
LEMMA AllFinished ==
    ASSUME NEW msgs \in Seq(Message), Undisturbed, ref = NoKey,
           \A i \in 1 .. Len(msgs) : Finished(msgs[i], source, delivered, nextKey),
           messages' = msgs, UNCHANGED <<source, delivered, ref, complete, nextKey>>, Flushed
    PROVE  Undisturbed'
<1>1. Conversation' /\ messages' \in Seq(Message)
    BY DEF Conversation, Consistent
<1>2. FreshKeys' /\ Referred'
    BY DEF Undisturbed, FreshKeys, Referred
<1> QED
    BY <1>1, <1>2, FlushedOK DEF Undisturbed

\* Deleting leaves finished messages.
LEMMA DeleteOK ==
    ASSUME PageTypeOK, Undisturbed, NEW i \in 1 .. Len(shown.messages), HandleDeleteMessage(i)
    PROVE  Undisturbed'
<1>1. shown.generating = FALSE
    BY ShownType DEF HandleDeleteMessage, GuardAction
<1>2. /\ ref = NoKey /\ shown.messages = messages /\ messages \in Seq(Message)
      /\ \A n \in 1 .. Len(messages) : Finished(messages[n], source, delivered, nextKey)
    BY <1>1, ClickState DEF PageTypeOK
<1> DEFINE msgs == Without(messages, messages[i].key)
           S == {m \in Message : Finished(m, source, delivered, nextKey)}
<1>3. messages \in Seq(S)
    <2>1. messages \in [1 .. Len(messages) -> Message] /\ Len(messages) \in Nat
        BY <1>2, LenProperties
    <2>2. messages \in [1 .. Len(messages) -> S]
        BY <1>2, <2>1
    <2> HIDE DEF S
    <2> QED
        BY <2>1, <2>2, SeqDef
<1>4. msgs \in Seq(S) /\ msgs \in Seq(Message)
    BY <1>2, <1>3, WithoutType
<1>5. \A n \in 1 .. Len(msgs) : msgs[n] \in S
    <2> HIDE DEF S, msgs
    <2> QED
        BY <1>4, ElementOfSeq
<1>6. messages' = msgs /\ Flushed /\ UNCHANGED <<source, delivered, ref, complete, nextKey>>
    BY <1>2 DEF HandleDeleteMessage, sse, page
<1> HIDE DEF msgs
<1>7. \A n \in 1 .. Len(msgs) : Finished(msgs[n], source, delivered, nextKey)
    BY <1>5
<1> QED
    BY <1>2, <1>4, <1>6, <1>7, AllFinished

\* An edited message counts as written by the page.
LEMMA ApplyOK ==
    ASSUME PageTypeOK, Undisturbed, NEW i \in 1 .. Len(shown.messages), NEW submit \in BOOLEAN,
           ApplyEdit(i, submit), shown.generating = FALSE
    PROVE  Undisturbed'
<1>1. /\ ref = NoKey /\ shown.messages = messages /\ messages \in Seq(Message)
      /\ \A n \in 1 .. Len(messages) : Finished(messages[n], source, delivered, nextKey)
      /\ \A k \in Keys : source[k] # "open"
    BY ClickState DEF PageTypeOK
<1>2. Len(messages) \in Nat /\ i \in 1 .. Len(messages)
    BY <1>1, LenProperties
<1> DEFINE msgs == [messages EXCEPT ![i].text = Written]
           e == [messages[i] EXCEPT !.text = Written]
<1>3. /\ msgs \in Seq(Message) /\ Len(msgs) = Len(messages)
      /\ \A n \in 1 .. Len(messages) : msgs[n] = IF n = i THEN e ELSE messages[n]
    BY <1>1, <1>2, EditedType
<1>4. Finished(e, source, delivered, nextKey)
    <2>1. messages[i] \in Message /\ Finished(messages[i], source, delivered, nextKey)
        BY <1>1, <1>2, ElementOfSeq
    <2>2. e.key = messages[i].key /\ e.status = messages[i].status /\ e.text = Written
        BY <2>1 DEF Message
    <2> HIDE DEF e
    <2> QED
        BY <2>1, <2>2 DEF Finished
<1>5. Edited(i) = msgs
    BY <1>1 DEF Edited
<1> HIDE DEF msgs, e
<1>6. \A n \in 1 .. Len(msgs) : Finished(msgs[n], source, delivered, nextKey)
    BY <1>1, <1>3, <1>4
<1>7. CASE submit
    <2> DEFINE p == SubSeq(msgs, 1, i)
    <2>1. Ask(p, nextKey) /\ nextKey >= nextKey
        BY <1>5, <1>7 DEF ApplyEdit, PageTypeOK
    <2>2. p \in Seq(Message) /\ Len(p) = i /\ \A n \in 1 .. i : p[n] = msgs[n]
        BY <1>2, <1>3, Prefix
    <2> HIDE DEF p
    <2>3. Base(p, nextKey)
        BY <1>2, <1>3, <1>6, <2>2 DEF Base
    <2> QED
        BY <1>1, <2>1, <2>3, AskOK
<1>8. CASE ~submit
    <2>1. messages' = msgs /\ Flushed /\ UNCHANGED <<source, delivered, ref, complete, nextKey>>
        BY <1>5, <1>8 DEF ApplyEdit, sse
    <2> QED
        BY <1>1, <1>3, <1>6, <2>1, AllFinished
<1> QED
    BY <1>7, <1>8

\* While a stream is referred to, the last message is its own.
LEMMA AnswerState ==
    ASSUME PageTypeOK, Undisturbed, ref # NoKey
    PROVE  /\ ref \in Keys /\ messages \in Seq(Message) /\ messages # <<>> /\ complete = FALSE
           /\ Len(messages) \in Nat \ {0} /\ Last(messages) \in Message
           /\ Last(messages) = messages[Len(messages)]
           /\ Answers(Last(messages), ref, delivered, nextKey)
           /\ \A i \in 1 .. Len(messages) - 1 :
                 /\ messages[i] \in Message /\ messages[i].key # ref
                 /\ Finished(messages[i], source, delivered, nextKey)
<1>1. /\ messages # <<>> /\ Answers(messages[Len(messages)], ref, delivered, nextKey)
      /\ \A i \in 1 .. Len(messages) - 1 :
            Finished(messages[i], source, delivered, nextKey) /\ messages[i].key # ref
    BY DEF Undisturbed, Conversation, Consistent
<1>2. messages \in Seq(Message) /\ ref \in Keys /\ complete = FALSE
    BY DEF PageTypeOK, Undisturbed, Referred
<1>3. Len(messages) \in Nat \ {0} /\ messages[Len(messages)] \in Message
    BY <1>1, <1>2, LastType
<1>4. \A i \in 1 .. Len(messages) - 1 : messages[i] \in Message
    BY <1>2, <1>3, ElementOfSeq
<1> QED
    BY <1>1, <1>2, <1>3, <1>4 DEF Last

\* Keys are numbers.
LEMMA NextKeyType == PageTypeOK => nextKey \in Nat
BY PlaygroundAssumption DEF PageTypeOK

\* An open stream is the one that is referred to.
LEMMA OpenIsReferred ==
    ASSUME Undisturbed, NEW k \in Keys, source[k] = "open"
    PROVE  ref = k /\ ref # NoKey
BY PlaygroundAssumption DEF Undisturbed, Referred, Keys, NoKey

\* A generation ends with a finished message.
LEMMA AnswerEnds ==
    ASSUME PageTypeOK, Undisturbed, ref # NoKey, ref' = NoKey,
           AlikeButLast(messages', messages),
           Finished(messages'[Len(messages)], source', delivered, nextKey),
           \A j \in Keys : j # ref => source'[j] = source[j], source'[ref] \in {"closed", "failed"},
           delivered' = delivered, nextKey' = nextKey
    PROVE  Conversation' /\ FreshKeys' /\ Referred' /\ messages' \in Seq(Message)
<1>1. /\ ref \in Keys /\ Len(messages) \in Nat \ {0} /\ nextKey \in Nat
      /\ Answers(Last(messages), ref, delivered, nextKey)
    BY AnswerState, NextKeyType
<1>2. ASSUME NEW i \in 1 .. Len(messages) - 1
      PROVE  Finished(messages'[i], source', delivered, nextKey)
    <2>1. messages[i] \in Message /\ messages[i].key # ref
          /\ Finished(messages[i], source, delivered, nextKey)
        BY AnswerState
    <2>2. source'[messages[i].key] = source[messages[i].key]
        BY <2>1 DEF Message
    <2>3. Finished(messages[i], source', delivered, nextKey)
        BY <1>1, <2>1, <2>2, FinishedKept
    <2> QED
        BY <2>3 DEF AlikeButLast
<1>3. \A i \in 1 .. Len(messages') : i = Len(messages) \/ i \in 1 .. Len(messages) - 1
    BY <1>1 DEF AlikeButLast
<1>4. \A i \in 1 .. Len(messages') : Finished(messages'[i], source', delivered', nextKey')
    BY <1>2, <1>3
<1>5. Conversation'
    BY <1>4 DEF Conversation, Consistent
<1>6. FreshKeys'
    <2>1. ref < nextKey
        BY <1>1 DEF Answers
    <2>2. ASSUME NEW j \in Keys, j >= nextKey
          PROVE  source'[j] = "none" /\ delivered'[j] = 0
        <3>1. j # ref
            BY <1>1, <2>1, <2>2, PlaygroundAssumption DEF Keys
        <3> QED
            BY <2>2, <3>1 DEF Undisturbed, FreshKeys
    <2> QED
        BY <2>2 DEF FreshKeys
<1>7. Referred'
    <2>1. ASSUME NEW j \in Keys PROVE source'[j] # "open"
        <3>1. CASE j = ref
            BY <3>1
        <3>2. CASE j # ref
            BY <3>2 DEF Undisturbed, Referred
        <3> QED
            BY <3>1, <3>2
    <2> QED
        BY <2>1 DEF Referred
<1> QED
    BY <1>5, <1>6, <1>7 DEF AlikeButLast

\* A chunk is applied to the message of its own stream.
LEMMA StreamUpdateOK ==
    ASSUME PageTypeOK, Undisturbed, NEW k \in Keys, HandleStreamUpdate(k)
    PROVE  Undisturbed'
<1> DEFINE m == Last(messages)
           e == [m EXCEPT !.status = "streaming", !.text = Append(@, k)]
<1>1. ref = k /\ ref # NoKey
    BY OpenIsReferred DEF HandleStreamUpdate
<1>2. /\ messages \in Seq(Message) /\ messages # <<>> /\ Len(messages) \in Nat \ {0}
      /\ m \in Message /\ Answers(m, k, delivered, nextKey) /\ nextKey \in Nat
      /\ \A i \in 1 .. Len(messages) - 1 :
            /\ messages[i] \in Message /\ messages[i].key # k
            /\ Finished(messages[i], source, delivered, nextKey)
    BY <1>1, AnswerState, NextKeyType
<1>3. messages' = UpdateLastAssistant(messages, Chunked(m, k)) /\ messages' \in Seq(Message)
    BY StreamUpdateType DEF PageTypeOK
<1>4. /\ delivered \in [Keys -> 0 .. MaxChunks] /\ delivered[k] \in Nat
      /\ delivered' = [delivered EXCEPT ![k] = @ + 1]
      /\ UNCHANGED <<source, ref, complete, nextKey>> /\ Scheduled
    BY PlaygroundAssumption DEF HandleStreamUpdate, PageTypeOK, page
<1> HIDE DEF m
<1>5. m.from = "assistant" /\ Chunked(m, k) = e
    BY <1>2 DEF Answers, Unfinished, Chunked
<1>6. AlikeButLast(messages', messages) /\ messages'[Len(messages)] = e
    BY <1>2, <1>3, <1>5, ChunkLast DEF m
<1>7. Answers(e, k, delivered', nextKey')
    <2>1. e.key = k /\ e.from = "assistant" /\ e.status = "streaming" /\ e.text = Append(m.text, k)
        BY <1>2 DEF Answers, Message
    <2>2. m.text = [j \in 1 .. delivered[k] |-> k] /\ k < nextKey
        BY <1>2 DEF Answers
    <2>3. Append(m.text, k) = [j \in 1 .. delivered[k] + 1 |-> k]
        BY <1>4, <2>2, OneChunkMore
    <2>4. delivered'[k] = delivered[k] + 1
        BY <1>4
    <2> HIDE DEF e
    <2> QED
        BY <1>4, <2>1, <2>2, <2>3, <2>4 DEF Answers, Unfinished
<1>8. ASSUME NEW i \in 1 .. Len(messages) - 1
      PROVE  Finished(messages'[i], source', delivered', nextKey') /\ messages'[i].key # k
    <2>1. messages[i] \in Message /\ messages[i].key # k
          /\ Finished(messages[i], source, delivered, nextKey)
        BY <1>2
    <2>2. delivered'[messages[i].key] = delivered[messages[i].key]
        BY <1>4, <2>1 DEF Message
    <2>3. nextKey' \in Nat /\ nextKey <= nextKey' /\ nextKey \in Nat
          /\ source'[messages[i].key] = source[messages[i].key]
        BY <1>2, <1>4
    <2>4. Finished(messages[i], source', delivered', nextKey')
        BY <2>1, <2>2, <2>3, FinishedKept
    <2> QED
        BY <1>6, <2>1, <2>4 DEF AlikeButLast
<1>9. Conversation'
    <2>1. Len(messages') = Len(messages) /\ messages' # <<>>
        BY <1>2, <1>6, EmptySeq DEF AlikeButLast
    <2> HIDE DEF e
    <2> QED
        BY <1>1, <1>4, <1>6, <1>7, <1>8, <2>1 DEF Conversation, Consistent
<1>10. FreshKeys'
    <2>1. ASSUME NEW j \in Keys, j >= nextKey'
          PROVE  source'[j] = "none" /\ delivered'[j] = 0
        <3>1. j # k
            BY <1>2, <1>4, <2>1, PlaygroundAssumption DEF Keys, Answers
        <3> QED
            BY <1>4, <2>1, <3>1 DEF Undisturbed, FreshKeys
    <2> QED
        BY <2>1 DEF FreshKeys
<1>11. Referred'
    BY <1>4 DEF Undisturbed, Referred
<1>12. PageCurrent' /\ Stored(saved, nextKey)'
    BY <1>1, <1>3, <1>4, <1>9, ScheduledOK
<1> QED
    BY <1>9, <1>10, <1>11, <1>12 DEF Undisturbed

\* The message of a stream that is over: completed, or with the error notice.
LEMMA AnswerFinished ==
    ASSUME NEW m \in Message, NEW k \in Keys, NEW del, NEW next, NEW src,
           Answers(m, k, del, next)
    PROVE  /\ src[k] = "closed" => Finished([m EXCEPT !.status = "complete"], src, del, next)
           /\ Finished([m EXCEPT !.status = "error", !.text = Written], src, del, next)
<1> DEFINE c == [m EXCEPT !.status = "complete"]
           e == [m EXCEPT !.status = "error", !.text = Written]
<1>1. c.key = k /\ c.status = "complete" /\ c.text = [j \in 1 .. del[k] |-> k]
    BY DEF Answers, Message
<1>2. e.key = k /\ e.status = "error"
    BY DEF Answers, Message
<1>3. k < next
    BY DEF Answers
<1> HIDE DEF c, e
<1>4. src[k] = "closed" => Finished(c, src, del, next)
    BY <1>1, <1>3 DEF Finished, Unfinished
<1>5. Finished(e, src, del, next)
    BY <1>2, <1>3 DEF Finished, Unfinished
<1> QED
    BY <1>4, <1>5 DEF c, e

\* [DONE] completes the message of its own stream.
LEMMA StreamCompleteOK ==
    ASSUME PageTypeOK, Undisturbed, NEW k \in Keys, HandleStreamComplete(k)
    PROVE  Undisturbed'
<1>1. ref = k /\ ref # NoKey
    BY OpenIsReferred DEF HandleStreamComplete
<1>2. /\ messages \in Seq(Message) /\ messages # <<>> /\ Last(messages) \in Message
      /\ Answers(Last(messages), k, delivered, nextKey)
    BY <1>1, AnswerState
<1>3. /\ messages' = FinalizeLast(messages) /\ ref' = NoKey /\ delivered' = delivered
      /\ nextKey' = nextKey /\ Scheduled
    BY DEF HandleStreamComplete, page
<1>4. source'[k] = "closed" /\ \A j \in Keys : j # k => source'[j] = source[j]
    BY DEF HandleStreamComplete, PageTypeOK
<1>5. AlikeButLast(messages', messages)
      /\ messages'[Len(messages)] = [Last(messages) EXCEPT !.status = "complete"]
    BY <1>2, <1>3, FinalizeLastLast DEF Answers
<1>6. Finished(messages'[Len(messages)], source', delivered, nextKey)
    <2>1. Finished([Last(messages) EXCEPT !.status = "complete"], source', delivered, nextKey)
        BY <1>2, <1>4, AnswerFinished, Zenon
    <2> QED
        BY <1>5, <2>1, Zenon
<1>7. Conversation' /\ FreshKeys' /\ Referred' /\ messages' \in Seq(Message)
    BY <1>1, <1>3, <1>4, <1>5, <1>6, AnswerEnds
<1> QED
    BY <1>1, <1>3, <1>7, ScheduledOK DEF Undisturbed

\* An error is written to the message of its own stream.
LEMMA StreamErrorOK ==
    ASSUME PageTypeOK, Undisturbed, NEW k \in Keys, HandleStreamError(k)
    PROVE  Undisturbed'
<1>1. ref = k /\ ref # NoKey
    BY OpenIsReferred DEF HandleStreamError
<1>2. /\ messages \in Seq(Message) /\ messages # <<>> /\ Last(messages) \in Message
      /\ Answers(Last(messages), k, delivered, nextKey) /\ complete = FALSE
    BY <1>1, AnswerState
<1>3. /\ messages' = WithError(messages) /\ ref' = NoKey /\ delivered' = delivered
      /\ nextKey' = nextKey /\ Scheduled
    BY <1>2 DEF HandleStreamError, page
<1>4. source'[k] = "failed" /\ \A j \in Keys : j # k => source'[j] = source[j]
    BY DEF HandleStreamError, PageTypeOK
<1>5. AlikeButLast(messages', messages)
      /\ messages'[Len(messages)] = [Last(messages) EXCEPT !.status = "error", !.text = Written]
    BY <1>2, <1>3, WithErrorLast DEF Answers
<1>6. Finished(messages'[Len(messages)], source', delivered, nextKey)
    <2>1. Finished([Last(messages) EXCEPT !.status = "error", !.text = Written],
                   source', delivered, nextKey)
        BY <1>2, AnswerFinished, Zenon
    <2> QED
        BY <1>5, <2>1, Zenon
<1>7. Conversation' /\ FreshKeys' /\ Referred' /\ messages' \in Seq(Message)
    BY <1>1, <1>3, <1>4, <1>5, <1>6, AnswerEnds
<1> QED
    BY <1>1, <1>3, <1>7, ScheduledOK DEF Undisturbed

\* A stream that ends in silence stays referred to, so that Stop finishes it.
LEMMA StreamEndsOK ==
    ASSUME PageTypeOK, Undisturbed, NEW k \in Keys, StreamEnds(k)
    PROVE  Undisturbed'
<1>1. ref = k /\ ref # NoKey
    BY OpenIsReferred DEF StreamEnds
<1>2. /\ messages # <<>> /\ Answers(Last(messages), k, delivered, nextKey)
      /\ Last(messages) = messages[Len(messages)] /\ nextKey \in Nat
      /\ \A i \in 1 .. Len(messages) - 1 :
            /\ messages[i] \in Message /\ messages[i].key # k
            /\ Finished(messages[i], source, delivered, nextKey)
    BY <1>1, AnswerState, NextKeyType
<1>3. UNCHANGED <<messages, shown, saved, delivered, ref, complete, nextKey>>
    BY DEF StreamEnds, page
<1>4. source'[k] = "closed" /\ \A j \in Keys : j # k => source'[j] = source[j]
    BY DEF StreamEnds, PageTypeOK
<1>5. ASSUME NEW i \in 1 .. Len(messages) - 1
      PROVE  Finished(messages[i], source', delivered, nextKey) /\ messages[i].key # k
    <2>1. messages[i] \in Message /\ messages[i].key # k
          /\ Finished(messages[i], source, delivered, nextKey)
        BY <1>2
    <2>2. source'[messages[i].key] = source[messages[i].key]
        BY <1>4, <2>1 DEF Message
    <2> QED
        BY <1>2, <2>1, <2>2, FinishedKept
<1>6. Conversation'
    BY <1>1, <1>2, <1>3, <1>5 DEF Conversation, Consistent
<1>7. FreshKeys'
    <2>1. ASSUME NEW j \in Keys, j >= nextKey
          PROVE  source'[j] = "none" /\ delivered[j] = 0
        <3>1. j # k
            BY <1>2, <2>1, PlaygroundAssumption DEF Keys, Answers
        <3> QED
            BY <1>4, <2>1, <3>1 DEF Undisturbed, FreshKeys
    <2> QED
        BY <1>3, <2>1 DEF FreshKeys
<1>8. Referred'
    <2>1. \A j \in Keys : source'[j] = "open" => ref = j
        BY <1>1, <1>4 DEF Undisturbed, Referred
    <2>2. complete = FALSE
        BY <1>1 DEF Undisturbed, Referred
    <2> QED
        BY <1>1, <1>3, <1>4, <2>1, <2>2 DEF Referred
<1>9. PageCurrent' /\ Stored(saved, nextKey)'
    BY <1>3 DEF Undisturbed, PageCurrent
<1> QED
    BY <1>6, <1>7, <1>8, <1>9 DEF Undisturbed

\* Stop is also clicked on a page that shows a generation that is over.
LEMMA StopOK ==
    ASSUME PageTypeOK, Undisturbed, StopGeneration
    PROVE  Undisturbed'
<1>1. /\ messages' = FinalizeLast(messages) /\ ref' = NoKey /\ Flushed
      /\ UNCHANGED <<delivered, complete, nextKey>>
      /\ source' = [k \in Keys |-> IF k = ref THEN "closed" ELSE source[k]]
    BY DEF StopGeneration, StopStream, page
<1>2. CASE ref = NoKey
    <2>1. source' = source
        <3>1. \A k \in Keys : k # ref
            BY <1>2, PlaygroundAssumption DEF Keys, NoKey
        <3>2. source \in [Keys -> {"none", "open", "closed", "failed"}]
            BY DEF PageTypeOK
        <3> QED
            BY <1>1, <3>1, <3>2
    <2>2. /\ messages \in Seq(Message)
          /\ \A i \in 1 .. Len(messages) : Finished(messages[i], source, delivered, nextKey)
        BY <1>2 DEF Undisturbed, Conversation, Consistent, PageTypeOK
    <2>3. messages # <<>> => Last(messages).status \notin Unfinished
        BY <2>2, LastType DEF Last, Finished
    <2>4. messages' = messages
        BY <1>1, <2>2, <2>3, FinalizeLastLast
    <2> QED
        BY <1>1, <1>2, <2>1, <2>2, <2>4, AllFinished
<1>3. CASE ref # NoKey
    <2>1. /\ messages \in Seq(Message) /\ messages # <<>> /\ Last(messages) \in Message
          /\ Answers(Last(messages), ref, delivered, nextKey) /\ ref \in Keys
        BY <1>3, AnswerState
    <2>2. source'[ref] = "closed" /\ \A j \in Keys : j # ref => source'[j] = source[j]
        BY <1>1, <2>1
    <2>3. AlikeButLast(messages', messages)
          /\ messages'[Len(messages)] = [Last(messages) EXCEPT !.status = "complete"]
        BY <1>1, <2>1, FinalizeLastLast DEF Answers
    <2>4. Finished([Last(messages) EXCEPT !.status = "complete"], source', delivered, nextKey)
        BY <2>1, <2>2, AnswerFinished, Zenon
    <2>5. Finished(messages'[Len(messages)], source', delivered, nextKey)
        BY <2>3, <2>4, Zenon
    <2>6. Conversation' /\ FreshKeys' /\ Referred' /\ messages' \in Seq(Message)
        BY <1>1, <1>3, <2>2, <2>3, <2>5, AnswerEnds
    <2> QED
        BY <1>1, <2>6, FlushedOK DEF Undisturbed
<1> QED
    BY <1>2, <1>3

\* A page without streams whose messages are all finished.
LEMMA FreshOK ==
    ASSUME NEW msgs \in Seq(Message), Fresh(msgs),
           \A i \in 1 .. Len(msgs) : msgs[i].status \notin Unfinished /\ msgs[i].key < nextKey,
           Stored(saved', nextKey)
    PROVE  Undisturbed'
<1>1. /\ messages' = msgs /\ ref' = NoKey /\ nextKey' = nextKey
      /\ shown'.messages = msgs /\ shown'.generating = FALSE
      /\ source' = [k \in Keys |-> "none"] /\ delivered' = [k \in Keys |-> 0]
      /\ complete' = FALSE
    BY DEF Fresh
<1>2. ASSUME NEW i \in 1 .. Len(messages')
      PROVE  Finished(messages'[i], source', delivered', nextKey')
    <2>1. messages'[i] \in Message
        BY <1>1, ElementOfSeq
    <2>2. source'[messages'[i].key] = "none"
        BY <1>1, <2>1 DEF Message
    <2> QED
        BY <1>1, <2>2 DEF Finished
<1>3. Conversation'
    BY <1>1, <1>2 DEF Conversation, Consistent
<1>4. FreshKeys' /\ Referred' /\ PageCurrent'
    BY <1>1 DEF FreshKeys, Referred, PageCurrent
<1>5. Stored(saved, nextKey)'
    BY <1>1
<1> QED
    BY <1>3, <1>4, <1>5 DEF Undisturbed

\* A mount repairs the one message that was unfinished; an unmount leaves nothing.
LEMMA MountsOK ==
    ASSUME PageTypeOK, Undisturbed, Enter \/ Leave \/ CloseTab
    PROVE  Undisturbed'
<1>1. saved \in Seq(Message) /\ Stored(saved, nextKey)
    BY DEF PageTypeOK, Undisturbed
<1>2. CASE Enter
    <2> DEFINE msgs == Sanitize(saved)
    <2>1. Fresh(msgs) /\ saved' = msgs
        BY <1>2 DEF Enter, Fresh
    <2>2. msgs \in Seq(Message) /\ Len(msgs) = Len(saved)
        BY <1>1, SanitizeType
    <2>3. ASSUME NEW i \in 1 .. Len(msgs)
          PROVE  msgs[i].status \notin Unfinished /\ msgs[i].key < nextKey
        <3>1. msgs[i].status \notin Unfinished /\ msgs[i].key = saved[i].key
            BY <1>1, <2>2, SanitizeFinishes
        <3>2. saved[i].key < nextKey
            BY <1>1, <2>2 DEF Stored
        <3> QED
            BY <3>1, <3>2
    <2> HIDE DEF msgs
    <2>4. Stored(saved', nextKey)
        BY <2>1, <2>3 DEF Stored
    <2> QED
        BY <2>1, <2>2, <2>3, <2>4, FreshOK
<1>3. CASE Leave \/ CloseTab
    <2>1. Fresh(<<>>) /\ saved' = saved
        BY <1>3 DEF Leave, CloseTab
    <2>2. <<>> \in Seq(Message) /\ \A i \in 1 .. Len(<<>>) : FALSE
        BY EmptySeq
    <2>3. Stored(saved', nextKey)
        BY <1>1, <2>1
    <2> QED
        BY <2>1, <2>2, <2>3, FreshOK
<1> QED
    BY <1>2, <1>3

\* What an orphan saves can be loaded again without leaving a message unfinished.
LEMMA OrphanOK ==
    ASSUME PageTypeOK, AwayTypeOK, Undisturbed, LeftSettled,
           NEW k \in Keys, OrphanUpdates(k) \/ OrphanEnds(k)
    PROVE  Undisturbed'
<1>1. UNCHANGED <<messages, shown, source, delivered, ref, complete, nextKey>>
    BY OrphanSaves
<1>2. ASSUME NEW p \in pages,
             saved' \in {WithChunk(p.messages, k), FinalizeLast(p.messages), WithError(p.messages)}
      PROVE  Stored(saved', nextKey)
    <2>1. p.messages \in Seq(Message) /\ Settled(p.messages, nextKey)
        BY DEF AwayTypeOK, LeftPage, LeftSettled
    <2>2. /\ AlikeButLast(saved', p.messages)
          /\ p.messages # <<>> =>
                saved'[Len(p.messages)].key = p.messages[Len(p.messages)].key
        BY <1>2, <2>1, LeftPageResult
    <2> DEFINE n == Len(p.messages)
    <2>3. n \in Nat /\ (n # 0 => p.messages # <<>>)
        BY <2>1, EmptySeq, LenProperties
    <2>4. /\ Len(saved') = n /\ \A i \in 1 .. n - 1 : saved'[i] = p.messages[i]
          /\ \A i \in 1 .. n : i = n \/ i \in 1 .. n - 1
        BY <2>2, <2>3 DEF AlikeButLast
    <2>5. \A i \in 1 .. n : saved'[i].key < nextKey
        BY <2>1, <2>2, <2>3, <2>4 DEF Settled
    <2>6. \A i \in 1 .. n - 1 : saved'[i].status \notin Unfinished
        BY <2>1, <2>4 DEF Settled
    <2> HIDE DEF n
    <2> QED
        BY <2>4, <2>5, <2>6 DEF Stored
<1>3. Stored(saved', nextKey)
    <2>1. CASE saved' = saved
        BY <2>1 DEF Undisturbed
    <2> QED
        BY <1>2, <2>1, OrphanSaves
<1>4. Conversation' /\ FreshKeys' /\ Referred' /\ PageCurrent'
    BY <1>1 DEF Undisturbed, Conversation, FreshKeys, Referred, PageCurrent
<1>5. Stored(saved, nextKey)'
    BY <1>1, <1>3
<1> QED
    BY <1>4, <1>5 DEF Undisturbed

\* Pages that were left stay as they were.
LEMMA LeftSettledStep ==
    ASSUME PageTypeOK, AwayTypeOK, Undisturbed, LeftSettled, [ChatNext]_chatVars
    PROVE  LeftSettled'
<1>1. nextKey' \in Nat /\ nextKey \in Nat /\ nextKey' >= nextKey
    BY AwayStep
<1>2. ASSUME NEW msgs \in Seq(Message), Settled(msgs, nextKey) PROVE Settled(msgs, nextKey')
    <2>1. ASSUME NEW i \in 1 .. Len(msgs) PROVE msgs[i].key \in Nat
        <3>1. msgs[i] \in Message
            BY ElementOfSeq
        <3> QED
            BY <3>1, PlaygroundAssumption DEF Message, Keys
    <2> QED
        BY <1>1, <1>2, <2>1 DEF Settled
<1>3. \A p \in pages : p.messages \in Seq(Message) /\ Settled(p.messages, nextKey)
    BY DEF LeftSettled, AwayTypeOK, LeftPage
<1>4. messages \in Seq(Message) /\ Settled(messages, nextKey)
    BY ConsistentSettled DEF Undisturbed, Conversation, PageTypeOK
<1>5. \A p \in pages' : p \in pages \/ p.messages = messages
    <2>1. CASE Leave
        BY <2>1, LeavePages
    <2>2. CASE CloseTab
        BY <2>2 DEF CloseTab
    <2>3. ASSUME NEW k \in Keys, OrphanUpdates(k) \/ OrphanEnds(k) PROVE pages' \subseteq pages
        BY <2>3, OrphanSaves
    <2> QED
        BY <2>1, <2>2, <2>3, AwayStep
<1>6. ASSUME NEW p \in pages' PROVE Settled(p.messages, nextKey')
    BY <1>2, <1>3, <1>4, <1>5
<1> QED
    BY <1>6 DEF LeftSettled

\* A render shows the conversation as it is.
LEMMA RenderOK ==
    ASSUME PageTypeOK, Undisturbed, Render
    PROVE  Undisturbed'
<1>1. UNCHANGED <<messages, source, delivered, ref, complete, nextKey>> /\ Flushed
    BY DEF Render, sse, page
<1>2. Conversation' /\ messages' \in Seq(Message)
    BY <1>1 DEF Undisturbed, Conversation, PageTypeOK
<1>3. FreshKeys' /\ Referred'
    BY <1>1 DEF Undisturbed, FreshKeys, Referred
<1> QED
    BY <1>1, <1>2, <1>3, FlushedOK DEF Undisturbed

\* The invariant looks at neither the editor nor the history variable.
LEMMA UndisturbedSame ==
    ASSUME Undisturbed,
           UNCHANGED <<messages, shown, saved, source, delivered, ref, complete, nextKey>>
    PROVE  Undisturbed'
BY DEF Undisturbed, Conversation, FreshKeys, Referred, PageCurrent

\* Every step, case by case.
LEMMA UndisturbedStep ==
    ASSUME PageTypeOK, AwayTypeOK, disturbed = FALSE => Undisturbed /\ LeftSettled,
           [ChatNext]_chatVars, disturbed' = FALSE
    PROVE  Undisturbed'
<1>1. CASE HandleSubmit
    <2>1. HandleSendMessage /\ shown.generating = FALSE /\ disturbed = FALSE
        BY <1>1, ShownType DEF HandleSubmit
    <2> QED
        BY <2>1, SendOK
<1>2. CASE HandleSuggestionClick
    <2>1. HandleSendMessage /\ disturbed' = (disturbed \/ shown.generating)
        BY <1>2 DEF HandleSuggestionClick, Unguarded
    <2>2. shown.generating = FALSE /\ disturbed = FALSE
        BY <2>1, ShownType DEF PageTypeOK
    <2> QED
        BY <2>1, <2>2, SendOK
<1>3. CASE CancelEdit
    BY <1>3, UndisturbedSame DEF CancelEdit, sse
<1>4. CASE StopGeneration
    BY <1>4, StopOK DEF StopGeneration, page
<1>5. CASE Render
    BY <1>5, RenderOK DEF Render, page
<1>6. CASE Enter \/ Leave \/ CloseTab
    BY <1>6, MountsOK DEF Enter, Leave, CloseTab, Fresh
<1>7. ASSUME NEW i \in 1 .. Len(shown.messages),
             \/ HandleRegenerateMessage(i) \/ HandleDeleteMessage(i) \/ HandleEditMessage(i)
             \/ \E submit \in BOOLEAN : ApplyEdit(i, submit)
      PROVE  Undisturbed'
    <2>1. CASE HandleRegenerateMessage(i)
        BY <2>1, RegenerateOK DEF HandleRegenerateMessage
    <2>2. CASE HandleDeleteMessage(i)
        BY <2>2, DeleteOK DEF HandleDeleteMessage, page
    <2>3. CASE HandleEditMessage(i)
        BY <2>3, UndisturbedSame DEF HandleEditMessage, sse
    <2>4. ASSUME NEW submit \in BOOLEAN, ApplyEdit(i, submit) PROVE Undisturbed'
        <3>1. disturbed' = (disturbed \/ shown.generating)
            BY <2>4 DEF ApplyEdit, Unguarded
        <3>2. shown.generating = FALSE /\ disturbed = FALSE
            BY <3>1, ShownType DEF PageTypeOK
        <3> QED
            BY <2>4, <3>2, ApplyOK
    <2> QED
        BY <1>7, <2>1, <2>2, <2>3, <2>4
<1>8. ASSUME NEW k \in Keys,
             \/ HandleStreamUpdate(k) \/ HandleStreamComplete(k)
             \/ HandleStreamError(k) \/ StreamEnds(k)
      PROVE  Undisturbed'
    <2>1. disturbed = FALSE
        BY <1>8 DEF HandleStreamUpdate, HandleStreamComplete, HandleStreamError, StreamEnds, page
    <2> QED
        BY <1>8, <2>1, StreamUpdateOK, StreamCompleteOK, StreamErrorOK, StreamEndsOK
<1>9. CASE UNCHANGED chatVars
    BY <1>9, UndisturbedSame DEF chatVars, sse, page
<1>10. ASSUME NEW k \in Keys, OrphanUpdates(k) \/ OrphanEnds(k) PROVE Undisturbed'
    BY <1>10, OrphanSaves, OrphanOK
<1> QED
    BY <1>1, <1>2, <1>3, <1>4, <1>5, <1>6, <1>7, <1>8, <1>9, <1>10 DEF ChatNext

\* A disturbance is never forgotten.
LEMMA DisturbedStays ==
    ASSUME PageTypeOK, [ChatNext]_chatVars, disturbed' = FALSE
    PROVE  disturbed = FALSE
<1>1. CASE HandleSubmit \/ HandleSuggestionClick
    BY <1>1, ShownType DEF HandleSubmit, HandleSuggestionClick, Unguarded, PageTypeOK
<1>2. CASE CancelEdit \/ StopGeneration \/ Render \/ Enter \/ Leave \/ CloseTab
    BY <1>2 DEF CancelEdit, StopGeneration, Render, Enter, Leave, CloseTab, Fresh, page
<1>3. ASSUME NEW i \in 1 .. Len(shown.messages),
             \/ HandleRegenerateMessage(i) \/ HandleDeleteMessage(i) \/ HandleEditMessage(i)
      PROVE  disturbed' = disturbed
    BY <1>3 DEF HandleRegenerateMessage, HandleDeleteMessage, HandleEditMessage, page
<1>4. ASSUME NEW i \in 1 .. Len(shown.messages), NEW submit \in BOOLEAN, ApplyEdit(i, submit)
      PROVE  disturbed = FALSE
    BY <1>4, ShownType DEF ApplyEdit, Unguarded, PageTypeOK
<1>5. ASSUME NEW k \in Keys,
             \/ HandleStreamUpdate(k) \/ HandleStreamComplete(k)
             \/ HandleStreamError(k) \/ StreamEnds(k)
      PROVE  disturbed' = disturbed
    BY <1>5 DEF HandleStreamUpdate, HandleStreamComplete, HandleStreamError, StreamEnds, page
<1>6. ASSUME NEW k \in Keys, OrphanUpdates(k) \/ OrphanEnds(k) PROVE disturbed' = disturbed
    BY <1>6, OrphanSaves
<1>7. CASE UNCHANGED chatVars
    BY <1>7 DEF chatVars, page
<1> QED
    BY <1>1, <1>2, <1>3, <1>4, <1>5, <1>6, <1>7 DEF ChatNext

\* The first page satisfies the invariant.
LEMMA ChatInitOK == ChatInit => ChatInvariant
<1> SUFFICES ASSUME ChatInit PROVE ChatInvariant
    OBVIOUS
<1>1. <<>> \in Seq(Message) /\ Len(<<>>) = 0
    BY EmptySeq
<1>2. PageTypeOK
    <2>1. messages \in Seq(Message) /\ saved \in Seq(Message)
          /\ shown \in [messages : Seq(Message), generating : BOOLEAN]
        BY <1>1 DEF ChatInit
    <2>2. /\ source \in [Keys -> {"none", "open", "closed", "failed"}]
          /\ delivered \in [Keys -> 0 .. MaxChunks] /\ nextKey \in 1 .. MaxKeys + 1
        BY PlaygroundAssumption DEF ChatInit
    <2>3. ref = NoKey /\ complete = FALSE /\ editing = NoKey /\ disturbed = FALSE
        BY DEF ChatInit
    <2> QED
        BY <2>1, <2>2, <2>3 DEF PageTypeOK
<1>5. AwayTypeOK /\ LeftSettled
    BY DEF ChatInit, AwayTypeOK, LeftSettled
<1>3. FreshKeys /\ Referred /\ PageCurrent
    BY DEF ChatInit, FreshKeys, Referred, PageCurrent
<1>4. Conversation /\ Stored(saved, nextKey)
    BY <1>1 DEF ChatInit, Conversation, Consistent, Stored
<1> QED
    BY <1>2, <1>3, <1>4, <1>5 DEF ChatInvariant, ChatTypeOK, Undisturbed

\* The page keeps its invariant: types always, and while it is undisturbed, at
\* most one stream of it is open, it is the one that is referred to, and the last
\* message is its own.
THEOREM ChatInvariantHolds == ChatSpec => []ChatInvariant
<1>1. ChatInvariant /\ [ChatNext]_chatVars => ChatInvariant'
    <2> SUFFICES ASSUME ChatInvariant, [ChatNext]_chatVars PROVE ChatInvariant'
        OBVIOUS
    <2>1. PageTypeOK /\ AwayTypeOK /\ (disturbed = FALSE => Undisturbed /\ LeftSettled)
        BY DEF ChatInvariant, ChatTypeOK
    <2>2. PageTypeOK' /\ AwayTypeOK'
        BY <2>1, PageTypeStep, AwayTypeStep
    <2>3. ASSUME disturbed' = FALSE PROVE Undisturbed' /\ LeftSettled'
        <3>1. disturbed = FALSE
            BY <2>1, <2>3, DisturbedStays
        <3> QED
            BY <2>1, <2>3, <3>1, UndisturbedStep, LeftSettledStep
    <2> QED
        BY <2>2, <2>3 DEF ChatInvariant, ChatTypeOK
<1> QED
    BY <1>1, ChatInitOK, PTL DEF ChatSpec

\* A message of the conversation, by its position.
LEMMA MessageAt ==
    ASSUME PageTypeOK, NEW m \in Range(messages)
    PROVE  m \in Message /\ \E i \in 1 .. Len(messages) : m = messages[i]
<1>1. messages \in Seq(Message)
    BY DEF PageTypeOK
<1>2. Range(messages) = {messages[i] : i \in 1 .. Len(messages)}
    BY <1>1, RangeEquality
<1> QED
    BY <1>1, <1>2, ElementOfSeq

\* Every message is finished or is the one the stream referred to answers.
LEMMA FinishedOrAnswering ==
    ASSUME PageTypeOK, Undisturbed, NEW m \in Range(messages)
    PROVE  /\ m \in Message
           /\ \/ Finished(m, source, delivered, nextKey)
              \/ ref # NoKey /\ ref \in Keys /\ Answers(m, ref, delivered, nextKey)
<1>1. PICK i \in 1 .. Len(messages) : m = messages[i]
    BY MessageAt
<1>2. CASE ref = NoKey
    BY <1>1, <1>2, MessageAt DEF Undisturbed, Conversation, Consistent
<1>3. CASE ref # NoKey
    <2>1. /\ Len(messages) \in Nat \ {0} /\ ref \in Keys
          /\ Answers(messages[Len(messages)], ref, delivered, nextKey)
          /\ \A n \in 1 .. Len(messages) - 1 :
                Finished(messages[n], source, delivered, nextKey)
        BY <1>3, AnswerState
    <2>2. i = Len(messages) \/ i \in 1 .. Len(messages) - 1
        BY <2>1
    <2> QED
        BY <1>1, <1>3, <2>1, <2>2, MessageAt
<1> QED
    BY <1>2, <1>3

\* AnswerIsWhole, for any number of messages and chunks: an answer consists of the
\* chunks of its own stream, in full, although handleStreamUpdate appends to
\* whatever message is last and clicks act on an older render.
THEOREM AnswersAreWhole == ChatSpec => []AnswerIsWhole
<1>1. ChatInvariant => AnswerIsWhole
    <2> SUFFICES ASSUME ChatInvariant, ~disturbed, NEW m \in Range(messages),
                        m.from = "assistant", source[m.key] # "none",
                        m.status \in {"streaming", "complete"}, m.text # Written
                 PROVE  m.text = [j \in 1 .. delivered[m.key] |-> m.key]
        BY DEF AnswerIsWhole
    <2>1. PageTypeOK /\ Undisturbed
        BY DEF ChatInvariant, ChatTypeOK
    <2>2. \/ Finished(m, source, delivered, nextKey)
          \/ Answers(m, ref, delivered, nextKey)
        BY <2>1, FinishedOrAnswering
    <2> QED
        BY <2>2 DEF Finished, Answers, Unfinished
<1> QED
    BY <1>1, ChatInvariantHolds, PTL

\* StreamsTracked: the one stream of the page that may be open is the one Stop
\* closes, and every way out of a generation, an unmount and a mount from whatever
\* an orphaned stream has saved included, finishes its message.
THEOREM StreamsAreTracked == ChatSpec => []StreamsTracked
<1>1. ChatInvariant => StreamsTracked
    <2> SUFFICES ASSUME ChatInvariant PROVE StreamsTracked
        OBVIOUS
    <2>1. ChatTypeOK /\ PageTypeOK
        BY DEF ChatInvariant, ChatTypeOK
    <2>2. OneStream
        BY DEF ChatInvariant, OneStream, Undisturbed, Referred
    <2>3. NothingHangs
        <3> SUFFICES ASSUME ~disturbed, ref = NoKey, NEW m \in Range(messages)
                     PROVE  m.status \notin Unfinished
            BY DEF NothingHangs
        <3>1. Undisturbed
            BY DEF ChatInvariant
        <3>2. Finished(m, source, delivered, nextKey)
            BY <2>1, <3>1, FinishedOrAnswering
        <3> QED
            BY <3>2 DEF Finished
    <2> QED
        BY <2>1, <2>2, <2>3 DEF StreamsTracked
<1> QED
    BY <1>1, ChatInvariantHolds, PTL

\* FailureIsShown: a stream that failed has its error in its own message and has
\* released the page, whatever isStreamCompleteRef was left at before it.
THEOREM FailuresAreShown == ChatSpec => []FailureIsShown
<1>1. ChatInvariant => FailureIsShown
    <2> SUFFICES ASSUME ChatInvariant, ~disturbed, NEW k \in Keys, source[k] = "failed"
                 PROVE  ref # k /\ \A m \in Range(messages) : m.key = k => m.status = "error"
        BY DEF FailureIsShown
    <2>1. PageTypeOK /\ Undisturbed
        BY DEF ChatInvariant, ChatTypeOK
    <2>2. ref # k
        BY <2>1, PlaygroundAssumption DEF Undisturbed, Referred, Keys, NoKey
    <2>3. ASSUME NEW m \in Range(messages), m.key = k PROVE m.status = "error"
        <3>1. \/ Finished(m, source, delivered, nextKey)
              \/ Answers(m, ref, delivered, nextKey)
            BY <2>1, FinishedOrAnswering
        <3> QED
            BY <2>2, <2>3, <3>1 DEF Finished, Answers
    <2> QED
        BY <2>2, <2>3
<1> QED
    BY <1>1, ChatInvariantHolds, PTL
=============================================================================
