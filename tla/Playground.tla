----------------------------- MODULE Playground -----------------------------
(***************************************************************************)
(* The chat of web/default/src/features/playground in one browser tab:     *)
(* the conversation, the one reference to a server-sent event stream and   *)
(* the flag that all streams share, the controls of the page and the copy  *)
(* in localStorage.  Handlers of the page close over the messages of the   *)
(* last render (shown); stream events update the state through an updater  *)
(* and are rendered later, so a click may meet a page that is behind.      *)
(* A text is the sequence of the streams its chunks came from: reasoning   *)
(* and visible content are one text, and <<0>> is text written by the page *)
(* itself (an error notice) or by the user.  Only streaming requests: no   *)
(* control of the page turns config.stream off.  Leaving the route unmounts*)
(* the page and closes no stream: the open ones become orphans, whose      *)
(* handlers belong to the page that was left.                              *)
(***************************************************************************)
EXTENDS Naturals, Sequences, SequencesExt

CONSTANTS MaxKeys,    \* bound: messages ever made
          MaxChunks   \* bound: chunks of one stream

ASSUME PlaygroundAssumption == MaxKeys \in Nat /\ MaxChunks \in Nat

VARIABLES messages,    \* the React state, pending updates applied
          shown,       \* the last render: messages and isGenerating
          saved,       \* localStorage
          source,      \* the SSE objects of this page, by the key of the message they answer
          delivered,   \* chunks each stream has handed to the page
          ref,         \* sseSourceRef.current
          complete,    \* isStreamCompleteRef.current
          editing,     \* editingMessageKey
          nextKey,     \* nanoid(): keys are never reused
          disturbed,   \* history: a control without a guard was used in a generation
          mounted,     \* the route of the chat is open
          orphans,     \* open streams of pages that were left
          pages        \* pages left with open streams that have had no event since

sse == <<source, delivered, ref, complete>>
page == <<editing, nextKey, disturbed>>
away == <<mounted, orphans, pages>>
chatVars == <<messages, shown, saved, sse, page, away>>

Keys == 1 .. MaxKeys
NoKey == 0
Written == <<0>>
Unfinished == {"loading", "streaming"}

Message == [key : Keys, from : {"user", "assistant"},
            status : Unfinished \cup {"none", "complete", "error"},
            text : Seq(Keys \cup {0})]

\* What an unmounted page still has: its last render and its flag.
LeftPage == [streams : SUBSET Keys, messages : Seq(Message), complete : BOOLEAN]

PageTypeOK ==
    /\ messages \in Seq(Message)
    /\ shown \in [messages : Seq(Message), generating : BOOLEAN]
    /\ saved \in Seq(Message)
    /\ source \in [Keys -> {"none", "open", "closed", "failed"}]
    /\ delivered \in [Keys -> 0 .. MaxChunks]
    /\ ref \in Keys \cup {NoKey} /\ complete \in BOOLEAN
    /\ editing \in Keys \cup {NoKey} /\ nextKey \in 1 .. MaxKeys + 1
    /\ disturbed \in BOOLEAN

AwayTypeOK ==
    mounted \in BOOLEAN /\ orphans \in SUBSET Keys /\ pages \in SUBSET LeftPage

ChatTypeOK == PageTypeOK /\ AwayTypeOK

ChatInit ==
    /\ messages = <<>> /\ saved = <<>>
    /\ shown = [messages |-> <<>>, generating |-> FALSE]
    /\ source = [k \in Keys |-> "none"] /\ delivered = [k \in Keys |-> 0]
    /\ ref = NoKey /\ complete = FALSE
    /\ editing = NoKey /\ nextKey = 1 /\ disturbed = FALSE
    /\ mounted = FALSE /\ orphans = {} /\ pages = {}

UserMessage(k) == [key |-> k, from |-> "user", status |-> "none", text |-> Written]
LoadingMessage(k) == [key |-> k, from |-> "assistant", status |-> "loading", text |-> <<>>]
-----------------------------------------------------------------------------
(* lib/message-utils.ts                                                    *)

\* The updater's result `updated' is used only where there is a last message.
UpdateLastAssistant(msgs, updated) ==
    IF msgs # <<>> /\ Last(msgs).from = "assistant"
    THEN Append(Front(msgs), updated) ELSE msgs

WithError(msgs) ==
    UpdateLastAssistant(msgs, [Last(msgs) EXCEPT !.status = "error", !.text = Written])

WithChunk(msgs, k) ==
    LET m == Last(msgs)
    IN  UpdateLastAssistant(msgs,
            IF m.status = "error" THEN m
            ELSE [m EXCEPT !.status = "streaming", !.text = Append(@, k)])

\* Mutant: a message that has no chunk yet is not finished.
FinalizeLast_StreamingOnly(msgs) ==
    LET m == Last(msgs)
    IN  UpdateLastAssistant(msgs,
            IF m.status = "streaming" THEN [m EXCEPT !.status = "complete"] ELSE m)

FinalizeLast(msgs) ==
    LET m == Last(msgs)
    IN  UpdateLastAssistant(msgs,
            IF m.status \in Unfinished THEN [m EXCEPT !.status = "complete"] ELSE m)

\* Only the last message that is stuck is repaired, and by what it holds.
Sanitize(msgs) ==
    LET stuck == {i \in 1 .. Len(msgs) : msgs[i].status \in Unfinished}
    IN  IF stuck = {} THEN msgs
        ELSE LET i == CHOOSE j \in stuck : \A l \in stuck : l <= j
             IN  [msgs EXCEPT ![i] = IF @.text # <<>> THEN [@ EXCEPT !.status = "complete"]
                                     ELSE [@ EXCEPT !.status = "error", !.text = Written]]
-----------------------------------------------------------------------------
(* Renders.  A click is flushed before it returns, a stream event is not;  *)
(* its updater runs at once only if no update is pending, and the updater  *)
(* is what saves the messages.                                             *)

Flushed ==
    /\ shown' = [messages |-> messages', generating |-> ref' # NoKey]
    /\ saved' = messages'

Scheduled ==
    /\ \/ UNCHANGED saved
       \/ messages = shown.messages /\ saved' = messages'
    /\ UNCHANGED shown

Render ==
    /\ shown # [messages |-> messages, generating |-> ref # NoKey]
    /\ UNCHANGED <<messages, sse, page, away>>
    /\ Flushed
-----------------------------------------------------------------------------
(* Sending: the new stream takes over the reference and the flag whatever  *)
(* they stood for.                                                         *)

\* Mutant: the flag of the last stream is left as it was.
SendStreamRequest_KeepsFlag(msgs, k) ==
    /\ UNCHANGED <<complete, delivered>>
    /\ \/ /\ messages' = msgs
          /\ ref' = k
          /\ source' = [source EXCEPT ![k] = "open"]
       \/ /\ messages' = WithError(msgs)
          /\ ref' = NoKey
          /\ source' = [source EXCEPT ![k] = "failed"]

\* The second disjunct: source.stream() throws.
SendStreamRequest(msgs, k) ==
    /\ complete' = FALSE
    /\ \/ /\ messages' = msgs
          /\ ref' = k
          /\ source' = [source EXCEPT ![k] = "open"]
       \/ /\ messages' = WithError(msgs)
          /\ ref' = NoKey
          /\ source' = [source EXCEPT ![k] = "failed"]
    /\ UNCHANGED delivered

\* A loading message is put after msgs and the conversation is sent.
Ask(msgs, k) ==
    /\ k \in Keys
    /\ nextKey' = k + 1
    /\ SendStreamRequest(Append(msgs, LoadingMessage(k)), k)
    /\ Flushed
    /\ UNCHANGED away

HandleSendMessage ==
    /\ mounted
    /\ Ask(Append(shown.messages, UserMessage(nextKey)), nextKey + 1)
    /\ UNCHANGED editing

\* Mutant: the actions of a message stay live while an answer is generated.
GuardAction_Missing == TRUE

GuardAction == ~shown.generating

Unguarded == disturbed' = (disturbed \/ shown.generating)

HandleSubmit == ~shown.generating /\ HandleSendMessage /\ UNCHANGED disturbed

HandleSuggestionClick == HandleSendMessage /\ Unguarded

HandleRegenerateMessage(i) ==
    /\ GuardAction
    /\ shown.messages[i].from = "assistant" /\ shown.messages[i].status \notin Unfinished
    /\ Ask(SubSeq(shown.messages, 1, i - 1), nextKey)
    /\ UNCHANGED <<editing, disturbed>>

\* The messages with another key, in their order.
Without(msgs, key) ==
    LET kept[n \in 0 .. Len(msgs)] ==
            IF n = 0 THEN <<>>
            ELSE IF msgs[n].key = key THEN kept[n - 1] ELSE Append(kept[n - 1], msgs[n])
    IN  kept[Len(msgs)]

HandleDeleteMessage(i) ==
    /\ GuardAction
    /\ messages' = Without(shown.messages, shown.messages[i].key)
    /\ UNCHANGED <<sse, page, away>>
    /\ Flushed

HandleEditMessage(i) ==
    /\ GuardAction
    /\ shown.messages[i].text # <<>>
    /\ editing' = shown.messages[i].key
    /\ UNCHANGED <<messages, shown, saved, sse, nextKey, disturbed, away>>

\* The open editor: its buttons are not guarded.
Edited(i) ==
    [shown.messages EXCEPT ![i].text = Written]

ApplyEdit(i, submit) ==
    /\ editing # NoKey /\ shown.messages[i].key = editing
    /\ editing' = NoKey
    /\ IF submit
       THEN /\ shown.messages[i].from = "user"
            /\ Ask(SubSeq(Edited(i), 1, i), nextKey)
       ELSE /\ messages' = Edited(i)
            /\ UNCHANGED <<sse, nextKey, away>>
            /\ Flushed
    /\ Unguarded

CancelEdit ==
    /\ editing # NoKey
    /\ editing' = NoKey
    /\ UNCHANGED <<messages, shown, saved, sse, nextKey, disturbed, away>>
-----------------------------------------------------------------------------
(* hooks/use-stream-request.ts and the callbacks of use-chat-handler.ts    *)

HandleStreamUpdate(k) ==
    /\ source[k] = "open"
    /\ delivered[k] < MaxChunks
    /\ delivered' = [delivered EXCEPT ![k] = @ + 1]
    /\ messages' = WithChunk(messages, k)
    /\ Scheduled
    /\ UNCHANGED <<source, ref, complete, page, away>>

\* [DONE]: the flag is set and the reference cleared, whose ever it is.
HandleStreamComplete(k) ==
    /\ source[k] = "open"
    /\ complete' = TRUE
    /\ source' = [source EXCEPT ![k] = "closed"]
    /\ ref' = NoKey
    /\ messages' = FinalizeLast(messages)
    /\ Scheduled
    /\ UNCHANGED <<delivered, page, away>>

\* An error event or a chunk that cannot be parsed.
HandleStreamError(k) ==
    /\ source[k] = "open"
    /\ source' = [source EXCEPT ![k] = "failed"]
    /\ IF complete
       THEN UNCHANGED <<messages, shown, saved, ref>>
       ELSE /\ messages' = WithError(messages)
            /\ ref' = NoKey
            /\ Scheduled
    /\ UNCHANGED <<delivered, complete, page, away>>

\* The response ends with status 200 and without [DONE]: no handler hears it.
StreamEnds(k) ==
    /\ source[k] = "open"
    /\ source' = [source EXCEPT ![k] = "closed"]
    /\ UNCHANGED <<messages, shown, saved, delivered, ref, complete, page, away>>

StopStream ==
    /\ source' = [k \in Keys |-> IF k = ref THEN "closed" ELSE source[k]]
    /\ ref' = NoKey

StopGeneration ==
    /\ shown.generating
    /\ StopStream
    /\ messages' = FinalizeLast(messages)
    /\ Flushed
    /\ UNCHANGED <<delivered, complete, page, away>>
-----------------------------------------------------------------------------
(* Mounts.  The state of a component starts afresh at each of them.        *)

Fresh(msgs) ==
    /\ messages' = msgs
    /\ shown' = [messages |-> msgs, generating |-> FALSE]
    /\ source' = [k \in Keys |-> "none"] /\ delivered' = [k \in Keys |-> 0]
    /\ ref' = NoKey /\ complete' = FALSE
    /\ editing' = NoKey
    /\ UNCHANGED <<nextKey, disturbed>>

\* The route is opened: the conversation is loaded, repaired and saved.
Enter ==
    /\ ~mounted /\ mounted' = TRUE
    /\ Fresh(Sanitize(saved))
    /\ saved' = messages'
    /\ UNCHANGED <<orphans, pages>>

\* The route is left; updates that were not rendered are lost.  useStreamRequest
\* has no cleanup, so open streams go on.
Leave ==
    LET open == {k \in Keys : source[k] = "open"}
    IN  /\ mounted /\ mounted' = FALSE
        /\ Fresh(<<>>)
        /\ orphans' = orphans \cup open
        /\ pages' = IF open # {} /\ messages = shown.messages
                    THEN pages \cup {[streams |-> open, messages |-> messages,
                                      complete |-> complete]}
                    ELSE pages
        /\ UNCHANGED saved

\* The tab is closed or loaded again: the streams are gone with it.
CloseTab ==
    /\ mounted' = FALSE
    /\ Fresh(<<>>)
    /\ orphans' = {} /\ pages' = {}
    /\ UNCHANGED saved

\* The first event after a page was left may run its updater at once, on the last
\* render, and so save the old conversation; as the page is never rendered again,
\* the updaters of later events do not run.
LeftPageSaves(p, results) ==
    /\ saved' \in {saved} \cup results
    /\ pages' = pages \ {p}

OrphanUpdates(k) ==
    /\ k \in orphans
    /\ \E p \in pages : k \in p.streams /\ LeftPageSaves(p, {WithChunk(p.messages, k)})
    /\ UNCHANGED <<messages, shown, sse, page, mounted, orphans>>

\* [DONE], an error, or an end that no handler hears or that changes nothing more.
OrphanEnds(k) ==
    /\ k \in orphans
    /\ orphans' = orphans \ {k}
    /\ \/ \E p \in pages :
             /\ k \in p.streams
             /\ \/ LeftPageSaves(p, {FinalizeLast(p.messages)})
                \/ ~p.complete /\ LeftPageSaves(p, {WithError(p.messages)})
       \/ /\ pages' = {p \in pages : p.streams \cap orphans' # {}}
          /\ UNCHANGED saved
    /\ UNCHANGED <<messages, shown, sse, page, mounted>>

ChatNext ==
    \/ HandleSubmit \/ HandleSuggestionClick \/ CancelEdit \/ StopGeneration
    \/ Render \/ Enter \/ Leave \/ CloseTab
    \/ \E i \in 1 .. Len(shown.messages) :
           \/ HandleRegenerateMessage(i) \/ HandleDeleteMessage(i) \/ HandleEditMessage(i)
           \/ \E submit \in BOOLEAN : ApplyEdit(i, submit)
    \/ \E k \in Keys :
           \/ HandleStreamUpdate(k) \/ HandleStreamComplete(k)
           \/ HandleStreamError(k) \/ StreamEnds(k)
           \/ OrphanUpdates(k) \/ OrphanEnds(k)

ChatSpec == ChatInit /\ [][ChatNext]_chatVars
-----------------------------------------------------------------------------
(* The page keeps its word as long as the guarded controls are the only    *)
(* ones used during a generation (~disturbed).                             *)

\* An answer that is streaming or complete consists of exactly the chunks its
\* own stream delivered since the page was mounted, although chunks are applied
\* to whatever message is last, clicks act on an older render, and messages
\* are deleted, regenerated and stopped in between.
AnswerIsWhole ==
    ~disturbed =>
        \A m \in Range(messages) :
            (m.from = "assistant" /\ source[m.key] # "none"
                /\ m.status \in {"streaming", "complete"} /\ m.text # Written)
            => m.text = [j \in 1 .. delivered[m.key] |-> m.key]

\* No message is left loading or streaming once no stream is referred to:
\* every way out of a generation (the end, an error, Stop, leaving the page and
\* mounting it again from a copy that may lag behind, or that a stream of the
\* page that was left has overwritten) finishes its message.
NothingHangs ==
    (~disturbed /\ ref = NoKey) => \A m \in Range(messages) : m.status \notin Unfinished

\* A stream that failed is reported in its own message and gives the page
\* free again, whatever the flag was left at by the streams before it.
FailureIsShown ==
    ~disturbed =>
        \A k \in Keys : source[k] = "failed" =>
            /\ ref # k
            /\ \A m \in Range(messages) : m.key = k => m.status = "error"

\* A stream of this page that still runs is the one Stop would close.  An orphan
\* is beyond the reach of Stop.
OneStream == ~disturbed => \A k \in Keys : source[k] = "open" => ref = k

\* The page knows every stream it has opened and finishes every message whose
\* stream is over or was left behind, so nothing keeps loading, whatever a stream
\* of an earlier mount does to the saved conversation.
StreamsTracked == ChatTypeOK /\ OneStream /\ NothingHangs
=============================================================================
