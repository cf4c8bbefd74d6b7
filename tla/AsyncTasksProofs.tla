-------------------------- MODULE AsyncTasksProofs --------------------------
(***************************************************************************)
(* Proofs about AsyncTasks: whatever pollers, sweeps, crashes, failing     *)
(* statements, unreadable answers and deleted channels do, a video task is *)
(* paid for or refunded once, and its end is final.                        *)
(***************************************************************************)
EXTENDS AsyncTasks, TLAPS

(***************************************************************************)
(* The inductive invariant.                                                *)
(***************************************************************************)

Open(row) == row.status \notin Finished \cup {"none"}

Billing(p, t) == poller[p].step = "bill" /\ poller[p].task = t

\* What a poller holds: it works on a task of its list, and its copies are of
\* rows that were unfinished when it read them.
PollersWork ==
    \A p \in Pollers :
        /\ poller[p].step # "next" => poller[p].task \in poller[p].todo
        /\ poller[p].step = "save" => poller[p].task \in SunoTasks
        /\ poller[p].step = "bill" => poller[p].bill # "none"
        /\ \A t \in poller[p].todo : Open(poller[p].seen[t])

\* A row that is in a poller's list exists and keeps its quota, so the copy may
\* be old in its status only; the provider knows every task that has a row.
CopiesCurrent ==
    \A t \in VideoTasks :
        /\ tasks[t].status # "none" => upstream[t] # "none"
        /\ \A p \in Pollers :
              /\ t \in poller[p].todo => /\ tasks[t].status # "none"
                                         /\ poller[p].seen[t].quota = tasks[t].quota
              /\ poller[p].step = "update" /\ poller[p].task = t => poller[p].result # "none"

\* A user's fetch writes Gemini tasks only.
FetchesGemini == \A f \in Fetchers : fetch[f].task \in GeminiTasks \cup {NoTask}

Charged(t) == charged[t] = tasks[t].quota /\ tokenUsed[t] = tasks[t].quota

\* As long as nobody has billed a task it is charged what its row says.  Only
\* the process that ended it bills it, and a success is never being refunded.
\* (If the settlement at submission may fail, the row says too much.)
BillsExact ==
    "settle" \notin Faults => \A t \in VideoTasks :
        /\ Open(tasks[t]) => Charged(t)
        /\ \A p \in Pollers : Billing(p, t) =>
              /\ Charged(t)
              /\ tasks[t].status \in Finished
              /\ tasks[t].status = "SUCCESS" => poller[p].bill = "settle"
        /\ \A p, q \in Pollers : Billing(p, t) /\ Billing(q, t) => p = q

PaidExact == "settle" \notin Faults => NeverOverRefunded /\ SuccessIsPaidOnce

TaskInvariant ==
    /\ TypeOK
    /\ PollersWork
    /\ CopiesCurrent
    /\ FetchesGemini
    /\ BillsExact
    /\ PaidExact

LEMMA InitTasks == Init => TaskInvariant
BY TasksAssumption DEF Init, TaskInvariant, TypeOK, PollersWork, CopiesCurrent, BillsExact,
   PaidExact, NeverOverRefunded, SuccessIsPaidOnce, FetchesGemini, Row, NoRow, Status, Finished, Asleep, PollerType,
   FetchType, NoFetch, Billing, Open, Charged, Tasks
-----------------------------------------------------------------------------
(***************************************************************************)
(* What a poller becomes.                                                  *)
(***************************************************************************)

LEMMA RowFields ==
    ASSUME NEW r \in Row, NEW s \in Status, NEW c \in BOOLEAN
    PROVE  /\ r.status \in Status /\ r.quota \in Nat /\ r.complete \in BOOLEAN
           /\ Moved(r, s, c) \in Row
           /\ Moved(r, s, c).status = s /\ Moved(r, s, c).quota = r.quota
BY DEF Row, Moved

LEMMA CompleteTypes ==
    ASSUME NEW s, NEW e
    PROVE  VideoComplete(s, e) \in BOOLEAN /\ SunoComplete(s, e) \in BOOLEAN
<1>1. VideoComplete(s, e) = TRUE \/ VideoComplete(s, e) = FALSE
    BY Zenon DEF VideoComplete
<1>2. SunoComplete(s, e) = TRUE \/ SunoComplete(s, e) = FALSE
    BY Zenon DEF SunoComplete
<1> QED
    BY <1>1, <1>2, Zenon

LEMMA NoRowIsRow == NoRow \in Row /\ ~Open(NoRow)
BY DEF NoRow, Row, Status, Finished, Open

\* Then: done with the task, or at the step that follows.
LEMMA ThenFields ==
    ASSUME NEW p \in Pollers, poller[p] \in PollerType, NEW t \in Tasks,
           NEW step \in {"next", "update", "bill", "save"},
           NEW bill \in {"none", "refund", "settle"}
    PROVE  /\ Then(p, t, step, bill) \in PollerType
           /\ Then(p, t, step, bill).step = step
           /\ step = "next" => /\ Then(p, t, step, bill).todo = poller[p].todo \ {t}
                               /\ \A u \in Tasks : u # t =>
                                     Then(p, t, step, bill).seen[u] = poller[p].seen[u]
           /\ step # "next" => /\ Then(p, t, step, bill).todo = poller[p].todo
                               /\ Then(p, t, step, bill).seen = poller[p].seen
                               /\ Then(p, t, step, bill).task = t
                               /\ Then(p, t, step, bill).bill = bill
                               /\ Then(p, t, step, bill).result = poller[p].result
<1>1. CASE step = "next"
    BY <1>1, NoRowIsRow DEF Then, PollerType, Status
<1>2. CASE step # "next"
    BY <1>2 DEF Then, PollerType
<1> QED
    BY <1>1, <1>2

\* A poller that bills nothing and works on no more than before keeps what the
\* invariant says of the rows.
LEMMA PollerAdvances ==
    ASSUME TaskInvariant, NEW p \in Pollers, NEW x \in PollerType,
           poller' = [poller EXCEPT ![p] = x],
           UNCHANGED <<tasks, overdue, upstream, fetch, charged, tokenUsed>>, extras' \in 0..MaxExtra,
           x.todo \subseteq poller[p].todo,
           \A t \in x.todo : x.seen[t] = poller[p].seen[t],
           x.step # "next" => x.task \in x.todo,
           x.step = "bill" => x.bill # "none" /\ x.task \notin VideoTasks,
           x.step = "save" => x.task \in SunoTasks,
           x.step = "update" => x.result # "none" \/ x.task \notin VideoTasks
    PROVE  TaskInvariant'
<1> USE DEF TaskInvariant
<1>1. TypeOK'
    BY DEF TypeOK
<1>2. PollersWork'
    BY DEF PollersWork, TypeOK
<1>3. CopiesCurrent'
    BY DEF CopiesCurrent, TypeOK
<1>4. BillsExact'
    BY DEF BillsExact, Billing, Charged, TypeOK
<1>5. FetchesGemini' /\ PaidExact'
    BY DEF PaidExact, NeverOverRefunded, SuccessIsPaidOnce, FetchesGemini
<1> QED
    BY <1>1, <1>2, <1>3, <1>4, <1>5
\* A poller that goes on without billing a video task.
LEMMA ContinueInvariant ==
    ASSUME TaskInvariant, NEW p \in Pollers, NEW t \in Tasks,
           NEW step \in {"next", "bill", "save"}, NEW bill \in {"none", "refund", "settle"},
           step # "next" => t \in poller[p].todo /\ t \in SunoTasks,
           step = "bill" => bill # "none",
           poller' = [poller EXCEPT ![p] = Then(p, t, step, bill)],
           UNCHANGED <<tasks, overdue, upstream, extras, fetch, charged, tokenUsed>>
    PROVE  TaskInvariant'
<1> DEFINE x == Then(p, t, step, bill)
<1>1. poller[p] \in PollerType
    BY DEF TaskInvariant, TypeOK
<1>2. /\ x \in PollerType /\ x.step = step
      /\ x.todo \subseteq poller[p].todo
      /\ \A u \in x.todo : x.seen[u] = poller[p].seen[u]
      /\ step # "next" => x.todo = poller[p].todo /\ x.task = t /\ x.bill = bill
    BY <1>1, ThenFields DEF PollerType
<1>3. poller' = [poller EXCEPT ![p] = x]
    OBVIOUS
<1> HIDE DEF x
<1>4. SunoTasks \cap VideoTasks = {}
    BY TasksAssumption
<1>5. /\ x.step # "next" => x.task \in x.todo
      /\ x.step = "bill" => x.bill # "none" /\ x.task \notin VideoTasks
      /\ x.step = "save" => x.task \in SunoTasks
      /\ x.step # "update"
    BY <1>2, <1>4
<1>6. extras' \in 0..MaxExtra
    BY DEF TaskInvariant, TypeOK
<1> QED
    BY <1>2, <1>3, <1>5, <1>6, PollerAdvances
-----------------------------------------------------------------------------
(***************************************************************************)
(* The compare-and-swap.  It applies only to an unfinished row, which no   *)
(* process bills; the process that wins is the only one that does then.    *)
(***************************************************************************)

LEMMA SwapOutcome ==
    ASSUME NEW p \in Pollers, NEW t \in Tasks, NEW status, NEW c, NEW legacy,
           legacy => status = "FAILURE",
           SwapAndBill(p, t, status, c, legacy)
    PROVE  \/ /\ tasks' = tasks
              /\ poller' = [poller EXCEPT ![p] = Then(p, t, "next", "none")]
           \/ /\ tasks[t].status = poller[p].seen[t].status
              /\ tasks' = [tasks EXCEPT ![t] = Moved(poller[p].seen[t], status, c)]
              /\ \E step \in {"next", "bill"}, bill \in {"none", "refund", "settle"} :
                    /\ poller' = [poller EXCEPT ![p] = Then(p, t, step, bill)]
                    /\ step = "bill" => /\ bill # "none"
                                        /\ status \in Finished
                                        /\ status = "SUCCESS" => bill = "settle"
                    /\ step = "next" => status # "SUCCESS"
<1> DEFINE row == poller[p].seen[t]
           BillFor(won) == IF legacy THEN "none" ELSE BillOf(row, status, won)
<1>1. PICK won \in {SwapApplies(t, row.status)} \cup (IF "db" \in Faults THEN {FALSE} ELSE {}) :
          /\ tasks' = IF won THEN [tasks EXCEPT ![t] = Moved(row, status, c)] ELSE tasks
          /\ Continue(p, t, IF BillFor(won) = "none" THEN "next" ELSE "bill", BillFor(won))
    BY Zenon DEF SwapAndBill
<1>2. won \in BOOLEAN /\ (won => tasks[t].status = row.status)
    BY <1>1, Zenon DEF SwapApplies
<1> HIDE DEF row
<1>3. CASE ~won
    <2>1. BillFor(won) = "none"
        BY <1>3 DEF BillOf
    <2> QED
        BY <1>1, <1>3, <2>1, Zenon DEF Continue
<1>4. CASE won
    <2> DEFINE bill == BillFor(won)
               step == IF bill = "none" THEN "next" ELSE "bill"
    <2>1. /\ bill \in {"none", "refund", "settle"}
          /\ bill # "none" => status \in Finished
          /\ status = "SUCCESS" => bill = "settle"
        BY <1>4 DEF BillOf, Finished
    <2>2. poller' = [poller EXCEPT ![p] = Then(p, t, step, bill)]
        BY <1>1, Zenon DEF Continue
    <2>3. tasks' = [tasks EXCEPT ![t] = Moved(row, status, c)]
        BY <1>1, <1>4
    <2> HIDE DEF bill
    <2>4. /\ step \in {"next", "bill"}
          /\ step = "bill" <=> bill # "none"
          /\ step = "next" <=> bill = "none"
        OBVIOUS
    <2> HIDE DEF step
    <2> QED
        BY <1>2, <1>4, <2>1, <2>2, <2>3, <2>4 DEF row
<1> QED
    BY <1>2, <1>3, <1>4

\* A task that is sold at zero quota needs no refund: the row's charge is the
\* quota of the row throughout.
LEMMA SwapInvariant ==
    ASSUME TaskInvariant, NEW p \in Pollers, NEW t \in poller[p].todo,
           NEW status \in Status, status # "none" \/ t \notin VideoTasks,
           NEW c \in BOOLEAN, NEW legacy, legacy => status = "FAILURE",
           poller[p].step \in {"next", "update"},
           SwapAndBill(p, t, status, c, legacy),
           UNCHANGED <<overdue, upstream, extras, fetch, charged, tokenUsed>>
    PROVE  TaskInvariant'
<1> USE DEF TaskInvariant
<1>1. t \in Tasks /\ poller[p] \in PollerType
    BY DEF TypeOK, PollerType
<1>2. Open(poller[p].seen[t])
    BY DEF PollersWork
<1>3. CASE tasks' = tasks /\ poller' = [poller EXCEPT ![p] = Then(p, t, "next", "none")]
    BY <1>1, <1>3, ContinueInvariant
<1>4. ASSUME tasks[t].status = poller[p].seen[t].status,
             tasks' = [tasks EXCEPT ![t] = Moved(poller[p].seen[t], status, c)],
             NEW step \in {"next", "bill"}, NEW bill \in {"none", "refund", "settle"},
             poller' = [poller EXCEPT ![p] = Then(p, t, step, bill)],
             step = "bill" => /\ bill # "none" /\ status \in Finished
                              /\ status = "SUCCESS" => bill = "settle",
             step = "next" => status # "SUCCESS"
      PROVE  TaskInvariant'
    <2> DEFINE x == Then(p, t, step, bill)
               row == poller[p].seen[t]
    <2>1. /\ x \in PollerType /\ x.step = step
          /\ x.todo \subseteq poller[p].todo
          /\ \A u \in x.todo : x.seen[u] = poller[p].seen[u]
          /\ step = "bill" => x.task = t /\ x.bill = bill /\ x.todo = poller[p].todo
        BY <1>1, ThenFields DEF PollerType
    <2>2. poller' = [poller EXCEPT ![p] = x]
        BY <1>4
    <2> HIDE DEF x
    <2>3. row \in Row
        BY <1>1 DEF PollerType
    <2>4. Moved(row, status, c) \in Row /\ Moved(row, status, c).status = status
              /\ Moved(row, status, c).quota = row.quota
        BY <2>3, RowFields
    <2>5. tasks' = [tasks EXCEPT ![t] = Moved(row, status, c)] /\ tasks[t].status = row.status
        BY <1>4
    <2>6. Open(row)
        BY <1>2
    <2> HIDE DEF row
    <2>7. TypeOK'
        BY <2>1, <2>2, <2>4, <2>5 DEF TypeOK
    <2>8. PollersWork'
        BY <1>4, <2>1, <2>2 DEF PollersWork, TypeOK
    <2>9. CopiesCurrent'
        BY <1>1, <1>4, <2>1, <2>2, <2>4, <2>5, <2>6 DEF CopiesCurrent, TypeOK, Open, row
    <2>10. BillsExact'
        BY <1>1, <1>4, <2>1, <2>2, <2>4, <2>5, <2>6
        DEF BillsExact, CopiesCurrent, TypeOK, Open, Billing, Charged, row
    <2>11. FetchesGemini' /\ PaidExact'
        BY <1>1, <1>4, <2>1, <2>2, <2>4, <2>5, <2>6
        DEF PaidExact, NeverOverRefunded, SuccessIsPaidOnce, FetchesGemini, BillsExact, CopiesCurrent, TypeOK, Open, Charged, row
    <2> QED
        BY <2>7, <2>8, <2>9, <2>10, <2>11
<1> QED
    BY <1>1, <1>3, <1>4, SwapOutcome
-----------------------------------------------------------------------------
(***************************************************************************)
(* One lemma per action.                                                   *)
(***************************************************************************)

LEMMA SubmitInvariant ==
    ASSUME TaskInvariant, NEW t \in Tasks, NEW q \in Quotas, NEW c \in Quotas,
           NEW b \in BOOLEAN, Submit(t, q, c, b)
    PROVE  TaskInvariant'
<1> DEFINE row == IF b THEN [NoRow EXCEPT !.status = "NOT_START", !.quota = q] ELSE NoRow
<1>1. /\ row \in Row
      /\ row.status \in {"none", "NOT_START"}
      /\ row.status # "none" => row.quota = q
    BY TasksAssumption DEF Row, NoRow, Status, Finished
<1>2. /\ tasks' = [tasks EXCEPT ![t] = row]
      /\ upstream' = [upstream EXCEPT ![t] = "IN_PROGRESS"]
      /\ charged' = [charged EXCEPT ![t] = c] /\ tokenUsed' = [tokenUsed EXCEPT ![t] = c]
      /\ c = q \/ "settle" \in Faults
      /\ UNCHANGED <<overdue, extras, poller, fetch>>
      /\ tasks[t].status = "none"
    BY DEF Submit, TaskInvariant
<1>3. q \in Nat /\ c \in Nat
    BY TasksAssumption
<1> HIDE DEF row
<1> USE <1>1, <1>2, <1>3 DEF TaskInvariant
<1>4. TypeOK'
    BY DEF TypeOK, Status
<1>5. PollersWork'
    BY DEF PollersWork
<1>6. CopiesCurrent'
    BY DEF CopiesCurrent, TypeOK
<1>7. BillsExact'
    BY DEF BillsExact, TypeOK, Open, Billing, Charged, Finished
<1>8. FetchesGemini' /\ PaidExact'
    BY DEF PaidExact, NeverOverRefunded, SuccessIsPaidOnce, FetchesGemini, TypeOK
<1> QED
    BY <1>4, <1>5, <1>6, <1>7, <1>8

LEMMA UpstreamInvariant ==
    ASSUME TaskInvariant, NEW t \in Tasks, NEW s \in Finished, Upstream(t, s)
    PROVE  TaskInvariant'
<1> USE DEF TaskInvariant, Upstream
<1>1. TypeOK'
    BY DEF TypeOK, Finished, Status
<1>2. PollersWork'
    BY DEF PollersWork
<1>3. CopiesCurrent'
    BY DEF CopiesCurrent, TypeOK, Finished
<1>4. BillsExact' /\ FetchesGemini' /\ PaidExact'
    BY DEF BillsExact, Billing, Charged, PaidExact, NeverOverRefunded, SuccessIsPaidOnce, FetchesGemini
<1> QED
    BY <1>1, <1>2, <1>3, <1>4

LEMMA TimePassesInvariant ==
    ASSUME TaskInvariant, NEW t \in Tasks, TimePasses(t)
    PROVE  TaskInvariant'
BY DEF TaskInvariant, TimePasses, TypeOK, PollersWork, CopiesCurrent, BillsExact, Billing, Charged,
       PaidExact, NeverOverRefunded, SuccessIsPaidOnce, FetchesGemini

\* The lists a poller reads are of rows that are unfinished at that moment.
LEMMA ReadInvariant ==
    ASSUME TaskInvariant, NEW p \in Pollers, NEW phase \in {"sweep", "poll"},
           NEW todo \in SUBSET Unfinished, Read(p, phase, todo),
           UNCHANGED <<tasks, overdue, upstream, extras, fetch, charged, tokenUsed>>
    PROVE  TaskInvariant'
<1> DEFINE x == [Asleep EXCEPT !.phase = phase, !.todo = todo, !.seen = CopyOf(todo)]
<1>1. /\ todo \subseteq Tasks
      /\ \A t \in todo : Open(tasks[t])
    BY DEF Unfinished, UnfinishedRow, Open
<1>2. CopyOf(todo) \in [Tasks -> Row] /\ \A t \in todo : CopyOf(todo)[t] = tasks[t]
    BY <1>1, NoRowIsRow DEF CopyOf, TaskInvariant, TypeOK
<1>3. /\ x \in PollerType /\ x.step = "next" /\ x.todo = todo
      /\ \A t \in todo : x.seen[t] = tasks[t]
    BY <1>1, <1>2 DEF Asleep, PollerType, Status
<1>4. poller' = [poller EXCEPT ![p] = x]
    BY DEF Read
<1> HIDE DEF x
<1> USE <1>1, <1>3, <1>4 DEF TaskInvariant
<1>5. TypeOK'
    BY DEF TypeOK
<1>6. PollersWork'
    BY DEF PollersWork, TypeOK
<1>7. CopiesCurrent'
    BY DEF CopiesCurrent, TypeOK, Open
<1>8. BillsExact'
    BY DEF BillsExact, TypeOK, Billing, Charged
<1>9. FetchesGemini' /\ PaidExact'
    BY DEF PaidExact, NeverOverRefunded, SuccessIsPaidOnce, FetchesGemini
<1> QED
    BY <1>5, <1>6, <1>7, <1>8, <1>9

LEMMA FetchTaskInvariant ==
    ASSUME TaskInvariant, NEW p \in Pollers, NEW t \in Tasks, FetchTask(p, t)
    PROVE  TaskInvariant'
<1>1. PICK r \in {upstream[t]} \cup (IF "garbled" \in Faults /\ t \notin SunoTasks
                                    THEN {"FAILURE"} ELSE {}) :
          poller' = [poller EXCEPT ![p].step = "update", ![p].task = t, ![p].result = r]
    BY DEF FetchTask
<1> DEFINE x == [poller[p] EXCEPT !.step = "update", !.task = t, !.result = r]
<1>2. r \in Status /\ (t \in VideoTasks => r # "none")
    BY DEF FetchTask, TaskInvariant, TypeOK, CopiesCurrent, Status
<1>3. poller[p] \in PollerType
    BY DEF TaskInvariant, TypeOK
<1>4. /\ x \in PollerType /\ x.step = "update" /\ x.task = t /\ x.result = r
      /\ x.todo = poller[p].todo /\ x.seen = poller[p].seen
    BY <1>2, <1>3 DEF PollerType
<1>5. poller' = [poller EXCEPT ![p] = x]
    BY <1>1, <1>3 DEF TaskInvariant, TypeOK
<1>6. t \in poller[p].todo /\ UNCHANGED <<tasks, overdue, upstream, extras, fetch, charged, tokenUsed>>
    BY DEF FetchTask
<1> HIDE DEF x
<1> QED
    BY <1>2, <1>4, <1>5, <1>6, PollerAdvances DEF TaskInvariant, TypeOK

LEMMA FetchTaskExtraInvariant ==
    ASSUME TaskInvariant, NEW p \in Pollers, NEW t \in Tasks, FetchTaskExtra(p, t)
    PROVE  TaskInvariant'
<1>1. PICK e \in ExtrasOf(t),
           r \in {upstream[t]} \cup (IF t \in SunoTasks THEN {poller[p].seen[t].status} ELSE {}) :
          poller' = [poller EXCEPT ![p].step = "update", ![p].task = t, ![p].result = r,
                                   ![p].extra = e]
    BY DEF FetchTaskExtra
<1> DEFINE x == [poller[p] EXCEPT !.step = "update", !.task = t, !.result = r, !.extra = e]
<1>2. poller[p] \in PollerType
    BY DEF TaskInvariant, TypeOK
<1>3. t \in poller[p].todo /\ UNCHANGED <<tasks, overdue, upstream, fetch, charged, tokenUsed>>
          /\ extras' = extras + 1 /\ extras < MaxExtra
    BY DEF FetchTaskExtra
<1>4. r \in Status /\ (t \in VideoTasks => r # "none")
    BY <1>2, <1>3, TasksAssumption
    DEF TaskInvariant, TypeOK, CopiesCurrent, PollerType, Row
<1>5. /\ x \in PollerType /\ x.step = "update" /\ x.task = t /\ x.result = r
      /\ x.todo = poller[p].todo /\ x.seen = poller[p].seen
    BY <1>2, <1>4 DEF PollerType, ExtrasOf
<1>6. poller' = [poller EXCEPT ![p] = x]
    BY <1>1, <1>2 DEF TaskInvariant, TypeOK
<1>7. extras' \in 0..MaxExtra
    BY <1>3, TasksAssumption DEF TaskInvariant, TypeOK
<1> HIDE DEF x
<1> QED
    BY <1>3, <1>4, <1>5, <1>6, <1>7, PollerAdvances

LEMMA FetchTaskFailsInvariant ==
    ASSUME TaskInvariant, NEW p \in Pollers, NEW t \in Tasks, FetchTaskFails(p, t)
    PROVE  TaskInvariant'
BY ContinueInvariant DEF FetchTaskFails, Continue

\* A missing channel ends the task without a bill; whoever is billing it goes on.
LEMMA ChannelMissingInvariant ==
    ASSUME TaskInvariant, NEW p \in Pollers, NEW t \in Tasks, ChannelMissing(p, t)
    PROVE  TaskInvariant'
<1> DEFINE row == [tasks[t] EXCEPT !.status = "FAILURE", !.complete = TRUE]
           x == Then(p, t, "next", "none")
<1>1. tasks[t] \in Row /\ poller[p] \in PollerType /\ tasks \in [Tasks -> Row]
    BY DEF TaskInvariant, TypeOK
<1>2. row \in Row /\ row.status = "FAILURE" /\ row.quota = tasks[t].quota
    BY <1>1 DEF Row, Status, Finished
<1>3. /\ x \in PollerType /\ x.step = "next"
      /\ x.todo \subseteq poller[p].todo
      /\ \A u \in x.todo : x.seen[u] = poller[p].seen[u]
    BY <1>1, ThenFields DEF PollerType
<1>4. /\ tasks' = [tasks EXCEPT ![t] = row]
      /\ poller' = [poller EXCEPT ![p] = x]
      /\ UNCHANGED <<overdue, upstream, extras, fetch, charged, tokenUsed>>
      /\ t \in poller[p].todo
    BY <1>1 DEF ChannelMissing, Continue
<1> HIDE DEF row, x
<1> USE <1>1, <1>2, <1>3, <1>4 DEF TaskInvariant
<1>5. TypeOK'
    BY DEF TypeOK
<1>6. PollersWork'
    BY DEF PollersWork, TypeOK
<1>7. CopiesCurrent'
    BY DEF CopiesCurrent, TypeOK
<1>8. BillsExact'
    BY DEF BillsExact, TypeOK, Open, Billing, Charged, Finished
<1>9. FetchesGemini' /\ PaidExact'
    BY DEF PaidExact, NeverOverRefunded, SuccessIsPaidOnce, FetchesGemini, TypeOK
<1> QED
    BY <1>5, <1>6, <1>7, <1>8, <1>9

LEMMA SweepInvariant ==
    ASSUME TaskInvariant, NEW p \in Pollers, NEW t \in Tasks, sweepTimedOutTask(p, t)
    PROVE  TaskInvariant'
BY SwapInvariant DEF sweepTimedOutTask, Ready, Status

LEMMA UpdateVideoInvariant ==
    ASSUME TaskInvariant, NEW p \in Pollers, updateVideoSingleTask(p)
    PROVE  TaskInvariant'
<1>1. /\ poller[p].task \in poller[p].todo
      /\ poller[p].result \in Status
      /\ poller[p].task \in VideoTasks => poller[p].result # "none"
    BY DEF updateVideoSingleTask, TaskInvariant, PollersWork, CopiesCurrent, TypeOK, PollerType
<1>2. VideoComplete(poller[p].result, poller[p].extra) \in BOOLEAN
    BY CompleteTypes
<1>3. /\ SwapAndBill(p, poller[p].task, poller[p].result,
                     VideoComplete(poller[p].result, poller[p].extra), FALSE)
      /\ UNCHANGED <<overdue, upstream, extras, fetch, charged, tokenUsed>>
      /\ poller[p].step = "update"
    BY Zenon DEF updateVideoSingleTask
<1> QED
    BY <1>1, <1>2, <1>3, SwapInvariant

LEMMA UpdateSunoInvariant ==
    ASSUME TaskInvariant, NEW p \in Pollers, updateSunoTask(p)
    PROVE  TaskInvariant'
<1>1. poller[p].task \in poller[p].todo /\ poller[p].task \in Tasks
    BY DEF updateSunoTask, TaskInvariant, PollersWork, TypeOK, PollerType, Tasks
<1>2. \E step \in {"next", "bill", "save"}, bill \in {"none", "refund", "settle"} :
          /\ poller' = [poller EXCEPT ![p] = Then(p, poller[p].task, step, bill)]
          /\ step = "bill" => bill # "none"
    BY DEF updateSunoTask, Continue
<1> QED
    BY <1>1, <1>2, ContinueInvariant DEF updateSunoTask

\* A save that depends on nothing changes Suno tasks only.
LEMMA SaveSunoInvariant ==
    ASSUME TaskInvariant, NEW p \in Pollers, SaveSunoTask(p)
    PROVE  TaskInvariant'
<1> DEFINE t == poller[p].task
           c == SunoComplete(poller[p].result, poller[p].extra)
           row == Moved(poller[p].seen[t], poller[p].result, c)
           x == Then(p, t, "next", "none")
<1>1. /\ poller[p] \in PollerType /\ t \in SunoTasks /\ t \in Tasks
    BY DEF SaveSunoTask, TaskInvariant, PollersWork, TypeOK, Tasks
<1>2. row \in Row
    <2>1. c \in BOOLEAN
        BY CompleteTypes, Zenon
    <2> HIDE DEF c
    <2> QED
        BY <1>1, <2>1, RowFields DEF PollerType
<1>3. /\ x \in PollerType /\ x.step = "next"
      /\ x.todo \subseteq poller[p].todo
      /\ \A u \in x.todo : x.seen[u] = poller[p].seen[u]
    BY <1>1, ThenFields DEF PollerType
<1>4. /\ tasks' = [tasks EXCEPT ![t] = row] \/ tasks' = tasks
      /\ poller' = [poller EXCEPT ![p] = x]
      /\ UNCHANGED <<overdue, upstream, extras, fetch, charged, tokenUsed>>
    BY DEF SaveSunoTask, Continue
<1>5. t \notin VideoTasks
    BY <1>1, TasksAssumption
<1> HIDE DEF row, x, t
<1>6. /\ tasks' \in [Tasks -> Row]
      /\ \A u \in VideoTasks : tasks'[u] = tasks[u]
    BY <1>1, <1>2, <1>4, <1>5 DEF TaskInvariant, TypeOK, Tasks
<1> USE <1>1, <1>3, <1>4, <1>6 DEF TaskInvariant
<1>7. TypeOK'
    BY DEF TypeOK
<1>8. PollersWork'
    BY DEF PollersWork, TypeOK
<1>9. CopiesCurrent'
    BY DEF CopiesCurrent, TypeOK
<1>10. BillsExact'
    BY DEF BillsExact, TypeOK, Billing, Charged
<1>11. FetchesGemini' /\ PaidExact'
    BY DEF PaidExact, NeverOverRefunded, SuccessIsPaidOnce, FetchesGemini
<1> QED
    BY <1>7, <1>8, <1>9, <1>10, <1>11

\* The delta of a bill, given that the copy's quota is what was charged.
LEMMA DeltaSettles ==
    ASSUME NEW row \in Row, NEW bill \in {"refund", "settle"}, NEW actual \in Nat
    PROVE  /\ QuotaDelta(row, bill, actual) \in Int
           /\ row.quota + QuotaDelta(row, bill, actual) >= 0
           /\ bill = "settle" => row.quota + QuotaDelta(row, bill, actual)
                                 = IF actual = 0 THEN row.quota ELSE actual
<1>1. row.quota \in Nat
    BY DEF Row
<1> QED
    BY <1>1 DEF QuotaDelta

LEMMA BillInvariant ==
    ASSUME TaskInvariant, NEW p \in Pollers, Bill(p)
    PROVE  TaskInvariant'
<1> DEFINE t == poller[p].task
           b == poller[p].bill
           row == poller[p].seen[t]
           step == IF t \in SunoTasks /\ poller[p].phase = "poll" THEN "save" ELSE "next"
           x == Then(p, t, step, "none")
<1>1. /\ poller[p] \in PollerType /\ t \in Tasks /\ t \in poller[p].todo
      /\ b \in {"refund", "settle"} /\ row \in Row /\ poller[p].step = "bill"
    BY DEF Bill, TaskInvariant, PollersWork, TypeOK, PollerType
<1>2. PICK actual \in (IF b = "settle" THEN SettleAmounts ELSE {0}),
           funded \in {TRUE} \cup (IF "fund" \in Faults THEN {FALSE} ELSE {}),
           tokened \in {TRUE} \cup (IF "token" \in Faults THEN {FALSE} ELSE {}) :
          /\ charged' = IF funded THEN [charged EXCEPT ![t] = @ + QuotaDelta(row, b, actual)]
                        ELSE charged
          /\ tokenUsed' = IF funded /\ tokened
                          THEN [tokenUsed EXCEPT ![t] = @ + QuotaDelta(row, b, actual)]
                          ELSE tokenUsed
    BY Zenon DEF Bill
<1> DEFINE delta == QuotaDelta(row, b, actual)
<1>3. actual \in Nat /\ (b = "settle" => actual \in SettleAmounts)
    <2>1. SettleAmounts \subseteq Nat
        BY TasksAssumption
    <2> QED
        BY <2>1
<1>4. /\ delta \in Int /\ row.quota + delta >= 0 /\ row.quota \in Nat
      /\ b = "settle" => row.quota + delta \in {row.quota} \cup (SettleAmounts \ {0})
    BY <1>1, <1>3, DeltaSettles DEF Row
<1>5. /\ step \in {"next", "save"}
      /\ x \in PollerType /\ x.step = step
      /\ x.todo \subseteq poller[p].todo
      /\ \A u \in x.todo : x.seen[u] = poller[p].seen[u]
      /\ step = "save" => x.task = t /\ t \in x.todo /\ t \in SunoTasks
    BY <1>1, ThenFields DEF PollerType
<1>6. /\ poller' = [poller EXCEPT ![p] = x]
      /\ UNCHANGED <<tasks, overdue, upstream, extras, fetch>>
    BY DEF Bill, Continue
<1>7. /\ charged' = [charged EXCEPT ![t] = @ + delta] \/ charged' = charged
      /\ tokenUsed' = [tokenUsed EXCEPT ![t] = @ + delta] \/ tokenUsed' = tokenUsed
    BY <1>2
<1> HIDE DEF delta, x, step
<1>8. TypeOK'
    BY <1>1, <1>4, <1>5, <1>6, <1>7 DEF TaskInvariant, TypeOK
<1>9. PollersWork'
    BY <1>5, <1>6 DEF TaskInvariant, PollersWork, TypeOK
<1>10. CopiesCurrent'
    BY <1>5, <1>6 DEF TaskInvariant, CopiesCurrent, TypeOK
<1>11. FetchesGemini'
    BY <1>6 DEF TaskInvariant, FetchesGemini
<1>12. ASSUME "settle" \notin Faults, NEW u \in VideoTasks
       PROVE  /\ Open(tasks[u]) => Charged(u)'
              /\ \A q \in Pollers : Billing(q, u)' => Billing(q, u) /\ q # p /\ Charged(u)'
    <2>1. \A q \in Pollers : Billing(q, u)' => Billing(q, u) /\ q # p
        BY <1>5, <1>6 DEF Billing, TaskInvariant, TypeOK
    <2>2. CASE u = t
        <3>1. Billing(p, u)
            BY <1>1, <2>2 DEF Billing
        <3>2. ~Open(tasks[u]) /\ \A q \in Pollers : Billing(q, u) => q = p
            BY <1>12, <3>1 DEF TaskInvariant, BillsExact, Open
        <3> QED
            BY <2>1, <3>2
    <2>3. CASE u # t
        <3>1. charged'[u] = charged[u] /\ tokenUsed'[u] = tokenUsed[u]
            BY <1>7, <2>3 DEF TaskInvariant, TypeOK, Tasks
        <3> QED
            BY <1>6, <1>12, <2>1, <3>1 DEF TaskInvariant, BillsExact, Charged
    <2> QED
        BY <2>2, <2>3
<1>13. BillsExact'
    BY <1>6, <1>12, <1>5 DEF BillsExact, TaskInvariant, TypeOK, Billing
<1>14. ASSUME "settle" \notin Faults, NEW u \in VideoTasks
       PROVE  /\ charged'[u] >= 0 /\ tokenUsed'[u] >= 0
              /\ tasks[u].status = "SUCCESS" =>
                    charged'[u] \in {tasks[u].quota} \cup (SettleAmounts \ {0})
    <2>1. CASE u # t
        BY <1>7, <1>14, <2>1
        DEF TaskInvariant, TypeOK, Tasks, PaidExact, NeverOverRefunded, SuccessIsPaidOnce
    <2>2. CASE u = t
        <3>1. Billing(p, u)
            BY <1>1, <2>2 DEF Billing
        <3>2. /\ Charged(u) /\ (tasks[u].status = "SUCCESS" => b = "settle")
              /\ tasks[u].quota = row.quota
            BY <1>1, <1>14, <2>2, <3>1 DEF TaskInvariant, BillsExact, CopiesCurrent
        <3>3. /\ charged'[u] \in {row.quota, row.quota + delta}
              /\ tokenUsed'[u] \in {row.quota, row.quota + delta}
            BY <1>1, <1>7, <2>2, <3>2 DEF Charged, TaskInvariant, TypeOK
        <3> QED
            BY <1>4, <3>2, <3>3
    <2> QED
        BY <2>1, <2>2
<1>15. PaidExact'
    BY <1>6, <1>14 DEF PaidExact, NeverOverRefunded, SuccessIsPaidOnce
<1> QED
    BY <1>8, <1>9, <1>10, <1>11, <1>13, <1>15 DEF TaskInvariant

LEMMA CrashInvariant ==
    ASSUME TaskInvariant, NEW p \in Pollers, Crash(p)
    PROVE  TaskInvariant'
<1>1. Asleep \in PollerType /\ Asleep.step = "next" /\ Asleep.todo = {}
    BY NoRowIsRow DEF Asleep, PollerType, Status
<1>2. poller' = [poller EXCEPT ![p] = Asleep]
          /\ UNCHANGED <<tasks, overdue, upstream, extras, fetch, charged, tokenUsed>>
    BY DEF Crash
<1>3. extras' \in 0..MaxExtra
    BY <1>2 DEF TaskInvariant, TypeOK
<1> QED
    BY <1>1, <1>2, <1>3, PollerAdvances

LEMMA FetchByIDInvariant ==
    ASSUME TaskInvariant, NEW f \in Fetchers, NEW t \in Tasks, FetchByID(f, t)
    PROVE  TaskInvariant'
<1> USE DEF TaskInvariant, FetchByID
<1>1. TypeOK'
    BY NoRowIsRow DEF TypeOK, FetchType, NoFetch
<1>2. PollersWork' /\ CopiesCurrent' /\ BillsExact' /\ PaidExact'
    BY DEF PollersWork, CopiesCurrent, BillsExact, Billing, Charged, PaidExact,
           NeverOverRefunded, SuccessIsPaidOnce
<1>3. FetchesGemini'
    BY DEF FetchesGemini, TypeOK, NoFetch
<1> QED
    BY <1>1, <1>2, <1>3

LEMMA RealtimeFetchInvariant ==
    ASSUME TaskInvariant, NEW f \in Fetchers, tryRealtimeFetch(f)
    PROVE  TaskInvariant'
<1> DEFINE t == fetch[f].task
           row == Moved(fetch[f].seen, upstream[t], upstream[t] \in Finished)
           y == [NoFetch EXCEPT !.done = TRUE]
<1>1. /\ t \in GeminiTasks /\ t \in Tasks /\ t \notin VideoTasks
      /\ fetch[f].seen \in Row /\ upstream[t] \in Status
    BY TasksAssumption DEF tryRealtimeFetch, TaskInvariant, FetchesGemini, TypeOK, FetchType, Tasks
<1>2. row \in Row
    <2>1. (upstream[t] \in Finished) \in BOOLEAN
        OBVIOUS
    <2> QED
        BY <1>1, <2>1, RowFields, Zenon
<1>3. y \in FetchType /\ y.task = NoTask
    BY NoRowIsRow DEF FetchType, NoFetch
<1>4. /\ tasks' = [tasks EXCEPT ![t] = row] \/ tasks' = tasks
      /\ fetch' = [fetch EXCEPT ![f] = y]
      /\ UNCHANGED <<overdue, upstream, extras, poller, charged, tokenUsed>>
    BY DEF tryRealtimeFetch
<1> HIDE DEF row, y, t
<1>5. /\ tasks' \in [Tasks -> Row]
      /\ \A u \in VideoTasks : tasks'[u] = tasks[u]
    BY <1>1, <1>2, <1>4 DEF TaskInvariant, TypeOK, Tasks
<1> USE <1>3, <1>4, <1>5 DEF TaskInvariant
<1>6. TypeOK'
    BY DEF TypeOK
<1>7. PollersWork' /\ CopiesCurrent'
    BY DEF PollersWork, CopiesCurrent
<1>8. BillsExact' /\ PaidExact'
    BY DEF BillsExact, Billing, Charged, PaidExact, NeverOverRefunded, SuccessIsPaidOnce
<1>9. FetchesGemini'
    BY DEF FetchesGemini, TypeOK
<1> QED
    BY <1>6, <1>7, <1>8, <1>9
-----------------------------------------------------------------------------
LEMMA TaskStepInvariant == TaskInvariant /\ [Next]_vars => TaskInvariant'
<1> SUFFICES ASSUME TaskInvariant, [Next]_vars PROVE TaskInvariant'
    OBVIOUS
<1>1. ASSUME NEW t \in Tasks, NEW q \in Quotas, NEW c \in Quotas, NEW b \in BOOLEAN,
             Submit(t, q, c, b)
      PROVE  TaskInvariant'
    BY <1>1, SubmitInvariant
<1>2. ASSUME NEW t \in Tasks, NEW s \in Finished, Upstream(t, s) PROVE TaskInvariant'
    BY <1>2, UpstreamInvariant
<1>3. ASSUME NEW t \in Tasks, TimePasses(t) PROVE TaskInvariant'
    BY <1>3, TimePassesInvariant
<1>4. ASSUME NEW p \in Pollers, PollerStep(p) PROVE TaskInvariant'
    <2>1. CASE GetTimedOutUnfinishedTasks(p)
        BY <2>1, ReadInvariant DEF GetTimedOutUnfinishedTasks
    <2>2. CASE GetAllUnFinishSyncTasks(p)
        BY <2>2, ReadInvariant DEF GetAllUnFinishSyncTasks
    <2>3. ASSUME NEW t \in Tasks, sweepTimedOutTask(p, t) PROVE TaskInvariant'
        BY <2>3, SweepInvariant
    <2>4. ASSUME NEW t \in Tasks, FetchTask(p, t) PROVE TaskInvariant'
        BY <2>4, FetchTaskInvariant
    <2>5. CASE updateVideoSingleTask(p)
        BY <2>5, UpdateVideoInvariant
    <2>6. CASE updateSunoTask(p)
        BY <2>6, UpdateSunoInvariant
    <2>7. CASE SaveSunoTask(p)
        BY <2>7, SaveSunoInvariant
    <2>8. CASE Bill(p)
        BY <2>8, BillInvariant
    <2> QED
        BY <1>4, <2>1, <2>2, <2>3, <2>4, <2>5, <2>6, <2>7, <2>8 DEF PollerStep
<1>5. ASSUME NEW p \in Pollers, NEW t \in Tasks, ChannelMissing(p, t) \/ FetchTaskFails(p, t)
                                               \/ FetchTaskExtra(p, t)
      PROVE  TaskInvariant'
    BY <1>5, ChannelMissingInvariant, FetchTaskFailsInvariant, FetchTaskExtraInvariant
<1>6. ASSUME NEW p \in Pollers, Crash(p) PROVE TaskInvariant'
    BY <1>6, CrashInvariant
<1>7. ASSUME NEW f \in Fetchers, NEW t \in Tasks, FetchByID(f, t) PROVE TaskInvariant'
    BY <1>7, FetchByIDInvariant
<1>8. ASSUME NEW f \in Fetchers, tryRealtimeFetch(f) PROVE TaskInvariant'
    BY <1>8, RealtimeFetchInvariant
<1>9. CASE UNCHANGED vars
    BY <1>9 DEF vars, TaskInvariant, TypeOK, PollersWork, CopiesCurrent, FetchesGemini,
       BillsExact, Billing, Charged, PaidExact, NeverOverRefunded, SuccessIsPaidOnce
<1> QED
    BY <1>1, <1>2, <1>3, <1>4, <1>5, <1>6, <1>7, <1>8, <1>9 DEF Next

LEMMA TasksConsistent == Spec => []TaskInvariant
BY InitTasks, TaskStepInvariant, PTL DEF Spec

\* A video task is refunded at most once and a success is paid for once, under any
\* crashes, failing statements and billing, unreadable answers and deleted channels,
\* for any number of processes; the one failure left out is that of the settlement
\* when the task is submitted (RefundTaskQuota, RecalculateTaskQuota, UpdateWithStatus).
THEOREM TasksChargedExactly == "settle" \notin Faults /\ Spec => []ChargesExact
<1> SUFFICES ASSUME "settle" \notin Faults PROVE Spec => []ChargesExact
    OBVIOUS
<1>1. TaskInvariant => ChargesExact
    BY DEF TaskInvariant, PaidExact, ChargesExact
<1> QED
    BY <1>1, TasksConsistent, PTL
-----------------------------------------------------------------------------
\* No step but the bulk update of a missing channel changes an ended video task.
LEMMA EndedStays ==
    ASSUME TaskInvariant, "channel" \notin Faults, Next,
           NEW u \in VideoTasks, tasks[u].status \in Finished
    PROVE  tasks'[u].status = tasks[u].status
<1>1. u \in Tasks /\ u \notin SunoTasks /\ u \notin GeminiTasks /\ tasks \in [Tasks -> Row]
    BY TasksAssumption DEF Tasks, TaskInvariant, TypeOK
<1>2. ASSUME NEW t \in Tasks, NEW q \in Quotas, NEW c \in Quotas, NEW b \in BOOLEAN,
             Submit(t, q, c, b)
      PROVE  tasks'[u] = tasks[u]
    <2>1. u # t
        BY <1>2 DEF Submit, Finished
    <2> QED
        BY <1>1, <1>2, <2>1 DEF Submit
<1>3. ASSUME NEW p \in Pollers, NEW t \in poller[p].todo, NEW status, NEW c, NEW legacy,
             legacy => status = "FAILURE",
             SwapAndBill(p, t, status, c, legacy)
      PROVE  tasks'[u] = tasks[u]
    <2>1. Open(poller[p].seen[t]) /\ t \in Tasks
        BY DEF TaskInvariant, PollersWork, TypeOK, PollerType
    <2>2. CASE tasks' = tasks
        BY <2>2
    <2>3. CASE /\ tasks[t].status = poller[p].seen[t].status
               /\ tasks' = [tasks EXCEPT ![t] = Moved(poller[p].seen[t], status, c)]
        BY <1>1, <2>1, <2>3 DEF Open
    <2> QED
        BY <1>3, <2>1, <2>2, <2>3, SwapOutcome
<1>4. ASSUME NEW p \in Pollers, PollerStep(p) PROVE tasks'[u] = tasks[u]
    <2>1. ASSUME NEW t \in Tasks, sweepTimedOutTask(p, t) PROVE tasks'[u] = tasks[u]
        BY <1>3, <2>1 DEF sweepTimedOutTask
    <2>2. CASE updateVideoSingleTask(p)
        <3>1. poller[p].task \in poller[p].todo
            BY <2>2 DEF updateVideoSingleTask, TaskInvariant, PollersWork
        <3> QED
            BY <1>3, <2>2, <3>1 DEF updateVideoSingleTask
    <2>3. CASE SaveSunoTask(p)
        <3>1. poller[p].task # u
            BY <1>1, <2>3 DEF SaveSunoTask, TaskInvariant, PollersWork
        <3> QED
            BY <1>1, <2>3, <3>1 DEF SaveSunoTask
    <2>4. ASSUME NEW t \in Tasks, FetchTask(p, t) PROVE tasks' = tasks
        BY <2>4 DEF FetchTask
    <2>5. CASE GetTimedOutUnfinishedTasks(p) \/ GetAllUnFinishSyncTasks(p)
               \/ updateSunoTask(p) \/ Bill(p)
        BY <2>5 DEF GetTimedOutUnfinishedTasks, GetAllUnFinishSyncTasks, updateSunoTask, Bill
    <2> QED
        BY <1>4, <2>1, <2>2, <2>3, <2>4, <2>5 DEF PollerStep
<1>5. ASSUME NEW f \in Fetchers, tryRealtimeFetch(f) PROVE tasks'[u] = tasks[u]
    <2>1. fetch[f].task # u
        BY <1>1, <1>5 DEF tryRealtimeFetch, TaskInvariant, FetchesGemini
    <2> QED
        BY <1>1, <1>5, <2>1 DEF tryRealtimeFetch
<1>6. ASSUME \/ \E t \in Tasks, s \in Finished : Upstream(t, s)
             \/ \E t \in Tasks : TimePasses(t)
             \/ \E p \in Pollers, t \in Tasks :
                   ChannelMissing(p, t) \/ FetchTaskFails(p, t) \/ FetchTaskExtra(p, t)
             \/ \E p \in Pollers : Crash(p)
             \/ \E f \in Fetchers, t \in Tasks : FetchByID(f, t)
      PROVE  tasks' = tasks
    BY <1>6 DEF Upstream, TimePasses, ChannelMissing, FetchTaskFails, FetchTaskExtra, Crash, FetchByID
<1> QED
    BY <1>2, <1>4, <1>5, <1>6 DEF Next

\* A video task that has ended keeps its end, however old the copies are that pollers
\* and sweeps still hold (UpdateWithStatus), unless the channel of a task was deleted:
\* TaskBulkUpdateByID has no condition.
THEOREM TaskEndsAreFinal == "channel" \notin Faults /\ Spec => FinishedIsFinal
<1> SUFFICES ASSUME "channel" \notin Faults PROVE Spec => FinishedIsFinal
    OBVIOUS
<1>1. TaskInvariant /\ [Next]_vars =>
          [\A t \in VideoTasks :
              tasks[t].status \in Finished => tasks'[t].status = tasks[t].status]_vars
    BY EndedStays
<1> QED
    BY <1>1, TasksConsistent, PTL DEF Spec, FinishedIsFinal
=============================================================================
